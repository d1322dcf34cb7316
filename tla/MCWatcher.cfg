SPECIFICATION FairSpec
CONSTANTS
  Contents <- MCContents
  Skipped <- MCSkipped
  MaxOffers = 3
  MaxOthers = 1
  MaxToggles = 2
  MaxChannel = 1
  MaxStream = 1
  None = None
INVARIANTS
  TypeOK
  InOrder
  OffersBounded
  AsksForWhole
PROPERTIES
  Arrives
CHECK_DEADLOCK FALSE
