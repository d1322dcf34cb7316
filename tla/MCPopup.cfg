SPECIFICATION Spec
CONSTANTS
  Horizontal = {TRUE, FALSE}
  MaxSurfaces = 4
  MaxQueue = 3
  None = None
INVARIANTS
  TypeOK
  LayersHeld
PROPERTY IconCloses
CHECK_DEADLOCK FALSE
