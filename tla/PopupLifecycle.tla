--------------------------- MODULE PopupLifecycle ---------------------------
(***************************************************************************)
(* The applet's popup and the overlay that captures the cursor before a    *)
(* popup is shown where the cursor is (src/src/app.rs).  The icon opens an *)
(* XDG popup; a D-Bus call, from a keyboard shortcut, opens a fullscreen   *)
(* layer surface, which becomes the popup at the first motion of the mouse.*)
(*                                                                         *)
(* What the user and the compositor do becomes a message that waits in     *)
(* queue.  Most messages do not say which surface they came from.          *)
(***************************************************************************)
EXTENDS Integers, Sequences, FiniteSets

CONSTANTS
  Horizontal,   \* the values config.horizontal takes
  MaxSurfaces,  \* bound on the surfaces created
  MaxQueue,     \* bound on the messages that wait
  None

ASSUME PopupAssumption ==
  /\ Horizontal \subseteq BOOLEAN /\ Horizontal # {}
  /\ MaxSurfaces \in Nat /\ MaxQueue \in Nat

VARIABLES
  popup,     \* AppState.popup: [kind, id, is_layer_surface], or None
  capture,   \* AppState.cursor_capture: [overlay_id, target_popup], or None
  lastQuit,  \* AppState.last_quit: [kind, recent], recent for 200 ms, or None
  suppress,  \* AppState.suppress_unfocus
  placed,    \* is AppState.popup_position set?
  surfaces,  \* the surfaces the compositor shows
  created,   \* ids given so far
  queue      \* messages on their way to AppState::update

applet == << popup, capture, lastQuit, suppress, placed >>
vars == << applet, surfaces, created, queue >>

\* PopupKind.  The icon opens the first two, D-Bus the others and the first.
IconKinds == {"Popup", "QuickSettings"}
DbusKinds == {"Popup", "Favorites", "Selections"}
Kinds == IconKinds \cup DbusKinds

\* What the fields popup, capture and lastQuit hold if not None.
Popups == [kind : Kinds, id : Nat, is_layer_surface : BOOLEAN]
Captures == [overlay_id : Nat, target_popup : DbusKinds]
Quits == [kind : Kinds, recent : BOOLEAN]

ASSUME NoneAssumption == None \notin Popups \cup Captures \cup Quits

Init ==
  /\ popup = None /\ capture = None /\ lastQuit = None
  /\ suppress = FALSE /\ placed = FALSE
  /\ surfaces = {} /\ created = 0
  /\ queue = << >>

-----------------------------------------------------------------------------
(* What the user, D-Bus clients and the compositor do                      *)

Posts(m) == Len(queue) < MaxQueue /\ queue' = Append(queue, m)

Environment(m) == Posts(m) /\ UNCHANGED << applet, surfaces, created >>

Shown(kind) == popup # None /\ popup.kind = kind

Waits(types) == \E i \in DOMAIN queue : queue[i].type \in types

\* A click on the icon.  open is not in the code: it says whether the popup was
\* there when the user clicked, and no other click or D-Bus call on its way.
ClickIcon(kind) ==
  Environment([type |-> "Toggle", kind |-> kind,
               open |-> Shown(kind) /\ ~Waits({"Toggle", "DbusToggle", "EditLatest"})])

CallDbus(kind) == Environment([type |-> "DbusToggle", kind |-> kind])

\* The mouse moves over the overlay; the view names the popup to open.
MoveMouse ==
  /\ capture # None /\ capture.overlay_id \in surfaces
  /\ Environment([type |-> "CursorCaptured", target |-> capture.target_popup])

\* A click beside a popup that is a layer surface.
ClickOutside ==
  /\ popup # None /\ popup.is_layer_surface /\ popup.id \in surfaces
  /\ Environment([type |-> "ClosePopup"])

\* An entry is clicked: Copy closes the popup like ClosePopup.
PickEntry ==
  /\ popup # None /\ popup.kind \in {"Popup", "Favorites"}
  /\ Environment([type |-> "ClosePopup"])

\* Escape and the loss of focus become the same message.  by is not in the code.
QuitBy(by) == [type |-> "Quit", by |-> by]

PressKey(key) ==
  /\ surfaces # {}
  /\ Environment([type |-> "Key", key |-> key])

LoseFocus == surfaces # {} /\ Environment(QuitBy("Unfocused"))

CallEditLatest == Environment([type |-> "EditLatest"])

\* The compositor closes a surface: an XDG popup when the user clicks
\* elsewhere, any surface when its output goes.
Dismiss(id) ==
  /\ Posts([type |-> "CloseRequested", id |-> id])
  /\ surfaces' = surfaces \ {id}
  /\ UNCHANGED << applet, created >>

\* 200 ms pass.  Messages do not wait that long.
Wait ==
  /\ queue = << >>
  /\ lastQuit # None /\ lastQuit.recent
  /\ lastQuit' = [lastQuit EXCEPT !.recent = FALSE]
  /\ UNCHANGED << popup, capture, suppress, placed, surfaces, created, queue >>

-----------------------------------------------------------------------------
(* The state of the applet as a record, for helpers that call each other   *)

State ==
  [popup |-> popup, capture |-> capture, lastQuit |-> lastQuit,
   suppress |-> suppress, placed |-> placed,
   surfaces |-> surfaces, created |-> created]

Becomes(st) ==
  /\ popup' = st.popup /\ capture' = st.capture /\ lastQuit' = st.lastQuit
  /\ suppress' = st.suppress /\ placed' = st.placed
  /\ surfaces' = st.surfaces /\ created' = st.created

\* Seeded bug: nothing remembers that the popup was just closed.
ClosedSilently(st) ==
  LET quiet == [st EXCEPT !.suppress = FALSE, !.placed = FALSE]
  IN  IF st.capture # None
        THEN [quiet EXCEPT !.capture = None, !.surfaces = @ \ {st.capture.overlay_id}]
      ELSE IF st.popup # None
        THEN [quiet EXCEPT !.popup = None, !.surfaces = @ \ {st.popup.id}]
      ELSE quiet

\* Seeded bug: focus stays suppressed.
ClosedSuppressed(st) ==
  IF st.capture # None
    THEN [st EXCEPT !.capture = None, !.surfaces = @ \ {st.capture.overlay_id}]
  ELSE IF st.popup # None
    THEN [st EXCEPT !.popup = None, !.surfaces = @ \ {st.popup.id},
                    !.lastQuit = [kind |-> st.popup.kind, recent |-> TRUE]]
  ELSE st

\* close_popup
Closed(st) ==
  LET quiet == [st EXCEPT !.suppress = FALSE, !.placed = FALSE]
  IN  IF st.capture # None
        THEN [quiet EXCEPT !.capture = None, !.surfaces = @ \ {st.capture.overlay_id}]
      ELSE IF st.popup # None
        THEN [quiet EXCEPT !.popup = None, !.surfaces = @ \ {st.popup.id},
                           !.lastQuit = [kind |-> st.popup.kind, recent |-> TRUE]]
      ELSE quiet

JustClosed(st, kind) ==
  st.lastQuit # None /\ st.lastQuit.recent /\ st.lastQuit.kind = kind

\* Seeded bug: the id of the overlay before is kept.
OpenedUnderOldId(st, kind, layer) ==
  IF JustClosed(st, kind) THEN st
  ELSE IF layer /\ kind \in DbusKinds
    THEN [st EXCEPT !.capture = [overlay_id |-> st.created, target_popup |-> kind],
                    !.surfaces = @ \cup {st.created + 1}, !.created = @ + 1,
                    !.suppress = TRUE]
  ELSE [st EXCEPT !.popup = [kind |-> kind, id |-> st.created + 1, is_layer_surface |-> FALSE],
                  !.surfaces = @ \cup {st.created + 1}, !.created = @ + 1]

\* open_popup; layer is use_layer_surface.
Opened(st, kind, layer) ==
  LET id == st.created + 1
      more == [st EXCEPT !.created = id, !.surfaces = @ \cup {id}]
  IN  IF JustClosed(st, kind) THEN st
      ELSE IF layer /\ kind \in DbusKinds
        THEN [more EXCEPT !.capture = [overlay_id |-> id, target_popup |-> kind],
                          !.suppress = TRUE]
      ELSE [more EXCEPT !.popup = [kind |-> kind, id |-> id, is_layer_surface |-> FALSE]]

\* Seeded bug: a capture in progress is not cancelled.
ToggledOverCapture(st, kind, layer) ==
  IF st.popup = None THEN Opened(st, kind, layer)
  ELSE IF st.popup.kind = kind THEN Closed(st)
  ELSE Opened(Closed(st), kind, layer)

\* toggle_popup_ext
Toggled(st, kind, layer) ==
  IF st.capture # None THEN Closed(st)
  ELSE IF st.popup = None THEN Opened(st, kind, layer)
  ELSE IF st.popup.kind = kind THEN Closed(st)
  ELSE Opened(Closed(st), kind, layer)

-----------------------------------------------------------------------------
(* The handlers                                                            *)

Takes(type) == queue # << >> /\ Head(queue).type = type

\* The message is handled and leads to no other.
Done == queue' = Tail(queue)

\* TogglePopup, ToggleQuickSettings
Toggle ==
  /\ Takes("Toggle")
  /\ created < MaxSurfaces
  /\ \E horizontal \in Horizontal : Becomes(Toggled(State, Head(queue).kind, horizontal))
  /\ Done

\* DbusToggle, DbusFavorites, DbusToggleSelections
DbusToggle ==
  /\ Takes("DbusToggle")
  /\ created < MaxSurfaces
  /\ Becomes(Toggled([State EXCEPT !.lastQuit = None], Head(queue).kind, TRUE))
  /\ Done

\* CursorCaptured: the overlay's surface becomes the popup's.
CursorCaptured ==
  /\ Takes("CursorCaptured")
  /\ IF capture = None THEN UNCHANGED applet
     ELSE /\ popup' = [kind |-> Head(queue).target, id |-> capture.overlay_id,
                       is_layer_surface |-> TRUE]
          /\ capture' = None
          /\ suppress' = TRUE /\ placed' = TRUE
          /\ UNCHANGED lastQuit
  /\ Done
  /\ UNCHANGED << surfaces, created >>

\* EditLatest forgets the last popup; what it opens is in EditorSession.
EditLatest ==
  /\ Takes("EditLatest")
  /\ lastQuit' = None
  /\ Done
  /\ UNCHANGED << popup, capture, suppress, placed, surfaces, created >>

\* ClosePopup, Copy
ClosePopup ==
  /\ Takes("ClosePopup")
  /\ Becomes(Closed(State))
  /\ Done

\* Navigation(Event): the key becomes another message.
Key ==
  /\ Takes("Key")
  /\ queue' = Append(Tail(queue),
                     IF Head(queue).key = "Enter" THEN [type |-> "Enter"] ELSE QuitBy("Escape"))
  /\ UNCHANGED << applet, surfaces, created >>

\* Navigation(Enter): copies the focused entry, if the list has one.
Enter ==
  /\ Takes("Enter")
  /\ \/ /\ popup # None /\ popup.kind \in {"Popup", "Favorites"}
        /\ Becomes(Closed(State))
     \/ UNCHANGED << applet, surfaces, created >>
  /\ Done

\* Navigation(Quit)
Quit ==
  /\ Takes("Quit")
  /\ Becomes(IF suppress THEN State ELSE Closed(State))
  /\ Done

\* Seeded bug: only the popup is compared.
HeldPopup == IF popup # None THEN {popup.id} ELSE {}

\* The surfaces the applet knows of.
Held ==
  (IF popup # None THEN {popup.id} ELSE {})
    \cup (IF capture # None THEN {capture.overlay_id} ELSE {})

\* Seeded bug: a dismissed overlay is not noticed.
CloseRequestedOnPopup ==
  /\ Takes("CloseRequested")
  /\ Becomes(IF Head(queue).id \in HeldPopup THEN Closed(State) ELSE State)
  /\ Done

\* on_close_requested, whose message the framework hands to update at once.
CloseRequested ==
  /\ Takes("CloseRequested")
  /\ Becomes(IF Head(queue).id \in Held THEN Closed(State) ELSE State)
  /\ Done

Handlers ==
  \/ Toggle \/ DbusToggle \/ EditLatest
  \/ CursorCaptured \/ ClosePopup \/ CloseRequested
  \/ Key \/ Enter \/ Quit

Next ==
  \/ Handlers
  \/ \E kind \in IconKinds : ClickIcon(kind)
  \/ \E kind \in DbusKinds : CallDbus(kind)
  \/ \E key \in {"Enter", "Escape"} : PressKey(key)
  \/ \E id \in surfaces : Dismiss(id)
  \/ MoveMouse \/ ClickOutside \/ PickEntry \/ LoseFocus \/ CallEditLatest \/ Wait

Spec == Init /\ [][Next]_vars

-----------------------------------------------------------------------------
Ids == 1 .. created

Messages ==
  [type : {"Toggle"}, kind : IconKinds, open : BOOLEAN]
    \cup [type : {"DbusToggle"}, kind : DbusKinds]
    \cup [type : {"CursorCaptured"}, target : DbusKinds]
    \cup [type : {"Quit"}, by : {"Escape", "Unfocused"}]
    \cup [type : {"CloseRequested"}, id : Ids]
    \cup [type : {"Key"}, key : {"Enter", "Escape"}]
    \cup [type : {"ClosePopup", "EditLatest", "Enter"}]

\* The applet's fields and the compositor's surfaces have their types.
TypeOK ==
  /\ created \in 0 .. MaxSurfaces
  /\ popup \in [kind : Kinds, id : Ids, is_layer_surface : BOOLEAN] \cup {None}
  /\ capture \in [overlay_id : Ids, target_popup : DbusKinds] \cup {None}
  /\ lastQuit \in [kind : Kinds, recent : BOOLEAN] \cup {None}
  /\ suppress \in BOOLEAN /\ placed \in BOOLEAN
  /\ surfaces \subseteq Ids
  /\ queue \in Seq(Messages)

\* Every surface on the screen is one the applet can still close, and there is
\* at most one: an overlay that is forgotten would hold the keyboard for ever.
\* One that the compositor has closed is forgotten soon: a message waits.
SurfacesHeld ==
  /\ surfaces \subseteq Held
  /\ popup = None \/ capture = None
  /\ \A id \in Held \ surfaces :
       \E i \in DOMAIN queue : queue[i].type = "CloseRequested" /\ queue[i].id = id

\* The applet knows what is on the screen; it ignores the loss of focus exactly
\* while a layer surface is open, for which it is reported spuriously, and keeps
\* a position exactly for the popup shown there.
LayersHeld ==
  LET layer == popup # None /\ popup.is_layer_surface
  IN  /\ SurfacesHeld
      /\ suppress <=> capture # None \/ layer
      /\ placed <=> layer

\* A click on the icon of an open popup closes it for good, also when the
\* compositor has dismissed the popup before the click is handled.
IconCloses ==
  [][\A kind \in IconKinds :
       Takes("Toggle") /\ Done /\ Head(queue).open /\ Head(queue).kind = kind
         => popup' = None \/ popup'.kind # kind]_vars
=============================================================================
