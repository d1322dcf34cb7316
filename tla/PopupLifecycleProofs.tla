------------------------ MODULE PopupLifecycleProofs ------------------------
(***************************************************************************)
(* Proofs about PopupLifecycle: TypeOK, LayersHeld and IconCloses, for any *)
(* number of surfaces and messages.  The helpers that call each other work *)
(* on a record of the applet's state; Good says what they may rely on,     *)
(* Clear what close_popup leaves, and only from there is a surface opened. *)
(* For a click that waits, Closes says what its handler will find.         *)
(***************************************************************************)
EXTENDS PopupLifecycle, TLAPS

States ==
  [popup : Popups \cup {None}, capture : Captures \cup {None}, lastQuit : Quits \cup {None},
   suppress : BOOLEAN, placed : BOOLEAN, surfaces : SUBSET Nat, created : Nat]

Layer(st) == st.popup # None /\ st.popup.is_layer_surface

HeldBy(st) ==
  (IF st.popup # None THEN {st.popup.id} ELSE {})
    \cup (IF st.capture # None THEN {st.capture.overlay_id} ELSE {})

\* LayersHeld without the queue, with the ids given so far.
Good(st) ==
  /\ st \in States
  /\ HeldBy(st) \subseteq 1 .. st.created
  /\ st.surfaces \subseteq HeldBy(st)
  /\ st.popup = None \/ st.capture = None
  /\ st.suppress <=> st.capture # None \/ Layer(st)
  /\ st.placed <=> Layer(st)

\* Nothing is open.
Clear(st) ==
  /\ st \in States
  /\ st.popup = None /\ st.capture = None
  /\ st.surfaces = {} /\ ~st.suppress /\ ~st.placed

-----------------------------------------------------------------------------
(* close_popup, open_popup, toggle_popup_ext                               *)

\* Closing leaves nothing open.
LEMMA ClosedClear ==
  ASSUME NEW st, Good(st)
  PROVE  Clear(Closed(st)) /\ Closed(st).created = st.created
<1>1. CASE st.capture # None
  <2>1. st.surfaces \subseteq {st.capture.overlay_id} /\ st.popup = None
    BY <1>1 DEF Good, HeldBy
  <2> QED
    BY <1>1, <2>1 DEF Closed, Clear, Good, States
<1>2. CASE st.capture = None /\ st.popup # None
  <2>1. st.surfaces \subseteq {st.popup.id}
    BY <1>2 DEF Good, HeldBy
  <2>2. [kind |-> st.popup.kind, recent |-> TRUE] \in Quits
    BY <1>2 DEF Good, States, Popups, Quits
  <2> QED
    BY <1>2, <2>1, <2>2 DEF Closed, Clear, Good, States
<1>3. CASE st.capture = None /\ st.popup = None
  BY <1>3 DEF Closed, Clear, Good, States, HeldBy
<1> QED
  BY <1>1, <1>2, <1>3

LEMMA ClearGood ==
  ASSUME NEW st, Clear(st)
  PROVE  Good(st) /\ HeldBy(st) = {}
  BY DEF Clear, Good, HeldBy, Layer, States

\* With nothing open, opening shows one surface, which is held, or none.
LEMMA OpenedGood ==
  ASSUME NEW st, Clear(st), NEW kind \in Kinds, NEW layer \in BOOLEAN
  PROVE  LET new == Opened(st, kind, layer)
         IN  /\ Good(new) /\ HeldBy(new) \subseteq new.surfaces
             /\ new.created \in {st.created, st.created + 1}
<1> DEFINE new == Opened(st, kind, layer)
           id == st.created + 1
           more == [st EXCEPT !.created = id, !.surfaces = @ \cup {id}]
<1>0. /\ more \in States /\ more.created = id /\ more.surfaces = {id}
      /\ more.popup = None /\ more.capture = None /\ ~more.suppress /\ ~more.placed
  <2>1. id \in Nat /\ st.surfaces \cup {id} = {id}
    BY DEF Clear, States
  <2>2. more = [st EXCEPT !.created = id, !.surfaces = {id}]
    BY <2>1
  <2>3. st \in States
    BY DEF Clear
  <2> HIDE DEF id, more
  <2>4. more \in States /\ more.created = id /\ more.surfaces = {id}
    BY <2>1, <2>2, <2>3 DEF States
  <2> QED
    BY <2>2, <2>3, <2>4 DEF Clear, States
<1>4. id \in Nat /\ id \in 1 .. id
  BY DEF Clear, States
<1> HIDE DEF id, more
<1>1. CASE JustClosed(st, kind)
  BY <1>1, ClearGood DEF Opened
<1>2. CASE ~JustClosed(st, kind) /\ layer /\ kind \in DbusKinds
  <2> DEFINE overlay == [overlay_id |-> id, target_popup |-> kind]
  <2>1. overlay \in Captures /\ overlay # None /\ overlay.overlay_id = id
    <3>1. overlay \in Captures
      BY <1>2, <1>4 DEF Captures
    <3>2. overlay # None
      BY <3>1, NoneAssumption
    <3> QED
      BY <3>1, <3>2
  <2>2. new = [more EXCEPT !.capture = overlay, !.suppress = TRUE]
    BY <1>2 DEF Opened, more, id
  <2> HIDE DEF overlay, new
  <2>3. /\ new \in States
        /\ new.capture = overlay /\ new.popup = None /\ new.surfaces = {id}
        /\ new.suppress /\ ~new.placed /\ new.created = id
    BY <1>0, <2>1, <2>2 DEF States
  <2>4. HeldBy(new) = {id} /\ ~Layer(new)
    BY <2>1, <2>3 DEF HeldBy, Layer
  <2>5. new.capture # None
    BY <2>1, <2>3
  <2>6. Good(new)
    BY <1>4, <2>3, <2>4, <2>5 DEF Good
  <2>7. HeldBy(new) \subseteq new.surfaces /\ new.created \in {st.created, st.created + 1}
    BY <2>3, <2>4 DEF id
  <2> QED
    BY <2>6, <2>7 DEF new
<1>3. CASE ~JustClosed(st, kind) /\ ~(layer /\ kind \in DbusKinds)
  <2> DEFINE shown == [kind |-> kind, id |-> id, is_layer_surface |-> FALSE]
  <2>1. shown \in Popups /\ shown # None /\ shown.id = id /\ ~shown.is_layer_surface
    <3>1. shown \in Popups
      BY <1>4 DEF Popups
    <3>2. shown # None
      BY <3>1, NoneAssumption
    <3> QED
      BY <3>1, <3>2
  <2>2. new = [more EXCEPT !.popup = shown]
    BY <1>3 DEF Opened, more, id
  <2> HIDE DEF shown, new
  <2>3. /\ new \in States
        /\ new.popup = shown /\ new.capture = None /\ new.surfaces = {id}
        /\ ~new.suppress /\ ~new.placed /\ new.created = id
    BY <1>0, <2>1, <2>2 DEF States
  <2>4. HeldBy(new) = {id} /\ ~Layer(new)
    BY <2>1, <2>3 DEF HeldBy, Layer
  <2>5. Layer(new) = FALSE /\ Good(new)
    BY <1>4, <2>1, <2>3, <2>4 DEF Good
  <2>7. HeldBy(new) \subseteq new.surfaces /\ new.created \in {st.created, st.created + 1}
    BY <2>3, <2>4 DEF id
  <2> QED
    BY <2>5, <2>7 DEF new
<1> QED
  BY <1>1, <1>2, <1>3

\* A toggle cancels a capture, closes what is open, or opens when nothing is.
LEMMA ToggledGood ==
  ASSUME NEW st, Good(st), NEW kind \in Kinds, NEW layer \in BOOLEAN
  PROVE  LET new == Toggled(st, kind, layer)
         IN  /\ Good(new) /\ HeldBy(new) \subseteq new.surfaces
             /\ new.created \in {st.created, st.created + 1}
<1>1. /\ Clear(Closed(st)) /\ Closed(st).created = st.created
      /\ Good(Closed(st)) /\ HeldBy(Closed(st)) = {}
  BY ClosedClear, ClearGood
<1>2. CASE st.capture = None /\ st.popup = None
  <2>1. Clear(st)
    BY <1>2 DEF Good, Clear, HeldBy, Layer
  <2> QED
    BY <1>2, <2>1, OpenedGood DEF Toggled
<1>3. CASE st.capture = None /\ st.popup # None /\ st.popup.kind # kind
  BY <1>1, <1>3, OpenedGood DEF Toggled
<1>4. CASE st.capture # None \/ (st.popup # None /\ st.popup.kind = kind)
  BY <1>1, <1>4 DEF Toggled
<1> QED
  BY <1>2, <1>3, <1>4

-----------------------------------------------------------------------------
(* The queue                                                               *)

Announced(q, id) ==
  \E i \in DOMAIN q : q[i].type = "CloseRequested" /\ q[i].id = id

LEMMA AppendKeeps ==
  ASSUME NEW S, NEW q \in Seq(S), NEW m \in S
  PROVE  /\ Append(q, m) \in Seq(S)
         /\ \A id : Announced(q, id) => Announced(Append(q, m), id)
         /\ m.type = "CloseRequested" => Announced(Append(q, m), m.id)
<1>1. /\ Append(q, m) \in Seq(S)
      /\ DOMAIN q = 1 .. Len(q) /\ DOMAIN Append(q, m) = 1 .. Len(q) + 1
      /\ Len(q) \in Nat
      /\ \A i \in 1 .. Len(q) : Append(q, m)[i] = q[i]
      /\ Append(q, m)[Len(q) + 1] = m
  OBVIOUS
<1>2. ASSUME NEW id, Announced(q, id)
      PROVE  Announced(Append(q, m), id)
  <2>1. PICK i \in 1 .. Len(q) : q[i].type = "CloseRequested" /\ q[i].id = id
    BY <1>1, <1>2 DEF Announced
  <2>2. i \in DOMAIN Append(q, m) /\ Append(q, m)[i] = q[i]
    BY <1>1
  <2> QED
    BY <2>1, <2>2 DEF Announced
<1>3. m.type = "CloseRequested" => Announced(Append(q, m), m.id)
  <2>1. Len(q) + 1 \in DOMAIN Append(q, m)
    BY <1>1
  <2> QED
    BY <1>1, <2>1 DEF Announced
<1> QED
  BY <1>1, <1>2, <1>3

\* Only the message that is handled is no longer announced.
LEMMA TailKeeps ==
  ASSUME NEW S, NEW q \in Seq(S), q # << >>
  PROVE  /\ Head(q) \in S /\ Tail(q) \in Seq(S)
         /\ \A id : Announced(q, id) =>
              \/ Announced(Tail(q), id)
              \/ Head(q).type = "CloseRequested" /\ Head(q).id = id
<1>1. /\ Head(q) \in S /\ Tail(q) \in Seq(S)
      /\ Len(q) \in Nat \ {0} /\ DOMAIN q = 1 .. Len(q) /\ DOMAIN Tail(q) = 1 .. Len(q) - 1
      /\ Head(q) = q[1]
      /\ \A i \in 1 .. Len(q) - 1 : Tail(q)[i] = q[i + 1]
  OBVIOUS
<1>2. ASSUME NEW id, Announced(q, id), ~(Head(q).type = "CloseRequested" /\ Head(q).id = id)
      PROVE  Announced(Tail(q), id)
  <2>1. PICK i \in 1 .. Len(q) : q[i].type = "CloseRequested" /\ q[i].id = id
    BY <1>1, <1>2 DEF Announced
  <2>2. i # 1
    BY <1>1, <1>2, <2>1
  <2>3. i - 1 \in 1 .. Len(q) - 1 /\ Tail(q)[i - 1] = q[i]
    BY <1>1, <2>2
  <2> QED
    BY <1>1, <2>1, <2>3 DEF Announced
<1> QED
  BY <1>1, <1>2

-----------------------------------------------------------------------------
(* The invariant                                                           *)

PopupInv ==
  /\ Good(State) /\ created <= MaxSurfaces
  /\ queue \in Seq(Messages)
  /\ \A id \in Held \ surfaces : Announced(queue, id)

LEMMA InvTypeOK ==
  ASSUME PopupInv
  PROVE  TypeOK
<1>1. /\ popup \in Popups \cup {None} /\ capture \in Captures \cup {None}
      /\ lastQuit \in Quits \cup {None} /\ created \in Nat
      /\ suppress \in BOOLEAN /\ placed \in BOOLEAN
  BY DEF PopupInv, Good, States, State
<1>2. /\ popup # None => popup.id \in Ids
      /\ capture # None => capture.overlay_id \in Ids
      /\ surfaces \subseteq Ids
  BY DEF PopupInv, Good, HeldBy, State, Ids
<1>3. popup \in [kind : Kinds, id : Ids, is_layer_surface : BOOLEAN] \cup {None}
  BY <1>1, <1>2 DEF Popups
<1>4. capture \in [overlay_id : Ids, target_popup : DbusKinds] \cup {None}
  BY <1>1, <1>2 DEF Captures
<1>5. created \in 0 .. MaxSurfaces /\ queue \in Seq(Messages)
  BY <1>1, PopupAssumption DEF PopupInv
<1> QED
  BY <1>1, <1>2, <1>3, <1>4, <1>5 DEF TypeOK, Quits

LEMMA InvLayersHeld ==
  ASSUME PopupInv
  PROVE  LayersHeld
  BY DEF PopupInv, Good, State, HeldBy, Held, Layer, LayersHeld, SurfacesHeld, Announced

LEMMA StateBecomes ==
  ASSUME NEW st \in States, Becomes(st)
  PROVE  State' = st
<1>1. st = [popup |-> st.popup, capture |-> st.capture, lastQuit |-> st.lastQuit,
            suppress |-> st.suppress, placed |-> st.placed,
            surfaces |-> st.surfaces, created |-> st.created]
  BY DEF States
<1>2. State' = [popup |-> popup', capture |-> capture', lastQuit |-> lastQuit',
                suppress |-> suppress', placed |-> placed',
                surfaces |-> surfaces', created |-> created']
  BY DEF State
<1> QED
  BY <1>1, <1>2 DEF Becomes

LEMMA MessagesGrow ==
  ASSUME created \in Nat, created' \in Nat, created <= created'
  PROVE  Messages \subseteq Messages'
<1>1. Ids \subseteq Ids'
  BY DEF Ids
<1> QED
  BY <1>1 DEF Messages

\* A message that arrives.
LEMMA Arrival ==
  ASSUME PopupInv, UNCHANGED << applet, created >>,
         NEW m \in Messages, queue' = Append(queue, m),
         surfaces' \subseteq surfaces,
         \A id \in surfaces \ surfaces' : m = [type |-> "CloseRequested", id |-> id]
  PROVE  PopupInv'
<1>1. queue' \in Seq(Messages') /\ Messages' = Messages /\ Held' = Held
  BY AppendKeeps DEF PopupInv, applet, Messages, Ids, Held
<1>2. \A id \in Held \ surfaces' : Announced(queue', id)
  BY AppendKeeps DEF PopupInv
<1>3. Good(State')
  BY DEF PopupInv, Good, State, States, HeldBy, Layer, applet
<1> QED
  BY <1>1, <1>2, <1>3 DEF PopupInv, applet

\* A message that is handled: what was dismissed and is still held was so before.
LEMMA Handling ==
  ASSUME PopupInv, queue # << >>,
         NEW new, Good(new), Becomes(new),
         created <= new.created, new.created <= MaxSurfaces,
         queue' \in Seq(Messages),
         \A id : Announced(Tail(queue), id) => Announced(queue', id),
         \A id \in HeldBy(new) \ new.surfaces :
           /\ id \in Held \ surfaces
           /\ ~(Head(queue).type = "CloseRequested" /\ Head(queue).id = id)
  PROVE  PopupInv'
<1>1. State' = new /\ created' = new.created /\ surfaces' = new.surfaces
  BY StateBecomes DEF Good, Becomes
<1>2. Held' = HeldBy(new)
  BY <1>1 DEF Held, HeldBy, State
<1>3. created \in Nat /\ created' \in Nat
  BY <1>1 DEF PopupInv, Good, States, State
<1>4. queue' \in Seq(Messages')
  BY <1>1, <1>3, MessagesGrow
<1>5. \A id \in Held' \ surfaces' : Announced(queue', id)
  BY <1>1, <1>2, TailKeeps DEF PopupInv
<1> QED
  BY <1>1, <1>4, <1>5 DEF PopupInv

\* The same when the surfaces are untouched.
LEMMA HandlingSame ==
  ASSUME PopupInv, queue # << >>, Head(queue).type # "CloseRequested",
         Good(State'), Held' = Held, UNCHANGED << surfaces, created >>,
         queue' \in Seq(Messages),
         \A id : Announced(Tail(queue), id) => Announced(queue', id)
  PROVE  PopupInv'
<1>1. Messages' = Messages
  BY DEF Messages, Ids
<1>2. \A id \in Held' \ surfaces' : Announced(queue', id)
  BY TailKeeps DEF PopupInv
<1> QED
  BY <1>1, <1>2 DEF PopupInv

\* The head of the queue has the fields its type says.
LEMMA HeadOK ==
  ASSUME PopupInv, queue # << >>
  PROVE  /\ Head(queue) \in Messages /\ Tail(queue) \in Seq(Messages)
         /\ Head(queue).type = "Toggle" => Head(queue).kind \in Kinds
         /\ Head(queue).type = "DbusToggle" => Head(queue).kind \in Kinds
         /\ Head(queue).type = "CursorCaptured" => Head(queue).target \in Kinds
<1>1. Head(queue) \in Messages /\ Tail(queue) \in Seq(Messages)
  BY TailKeeps DEF PopupInv
<1> QED
  BY <1>1 DEF Messages, Kinds

-----------------------------------------------------------------------------
(* The steps                                                               *)

\* Closing is a step for any message.
LEMMA ClosingStep ==
  ASSUME PopupInv, queue # << >>, Becomes(Closed(State)), Done
  PROVE  PopupInv'
<1>1. /\ Good(Closed(State)) /\ HeldBy(Closed(State)) = {}
      /\ Closed(State).created = created
  BY ClosedClear, ClearGood DEF PopupInv, State
<1>2. queue' \in Seq(Messages) /\ queue' = Tail(queue)
  BY HeadOK DEF Done
<1>3. created <= created /\ created <= MaxSurfaces
  BY DEF PopupInv, Good, States, State
<1> DEFINE new == Closed(State)
<1> HIDE DEF new
<1> QED
  BY <1>1, <1>2, <1>3, Handling DEF new

LEMMA StayingStep ==
  ASSUME PopupInv, queue # << >>, Head(queue).type # "CloseRequested",
         UNCHANGED << applet, surfaces, created >>, Done
  PROVE  PopupInv'
<1>1. State' = State /\ Held' = Held
  BY DEF State, Held, applet
<1> QED
  BY <1>1, HeadOK, HandlingSame DEF Done, PopupInv

LEMMA TogglingStep ==
  ASSUME PopupInv, queue # << >>, created < MaxSurfaces,
         NEW st, Good(st), st.created = created,
         NEW kind \in Kinds, NEW layer \in BOOLEAN,
         Becomes(Toggled(st, kind, layer)), Done
  PROVE  PopupInv'
<1> DEFINE new == Toggled(st, kind, layer)
<1>1. /\ Good(new) /\ HeldBy(new) \subseteq new.surfaces
      /\ new.created \in {created, created + 1}
  BY ToggledGood
<1>2. Becomes(new)
  OBVIOUS
<1> HIDE DEF new
<1>3. created <= new.created /\ new.created <= MaxSurfaces
  BY <1>1, PopupAssumption DEF PopupInv, Good, States, State
<1>4. queue' \in Seq(Messages) /\ queue' = Tail(queue)
  BY HeadOK DEF Done
<1> QED
  BY <1>1, <1>2, <1>3, <1>4, Handling

LEMMA EnvironmentStep ==
  ASSUME PopupInv, NEW m \in Messages, Environment(m)
  PROVE  PopupInv'
  BY Arrival DEF Environment, Posts

LEMMA PopupInvStep ==
  ASSUME PopupInv, [Next]_vars
  PROVE  PopupInv'
<1>0. /\ popup \in Popups \cup {None} /\ capture \in Captures \cup {None}
      /\ lastQuit \in Quits \cup {None} /\ created \in Nat
      /\ surfaces \subseteq Ids
  BY DEF PopupInv, Good, HeldBy, States, State, Ids
<1>1. CASE Toggle
  <2>1. PICK layer \in Horizontal : Becomes(Toggled(State, Head(queue).kind, layer))
    BY <1>1 DEF Toggle
  <2>2. layer \in BOOLEAN /\ Head(queue).kind \in Kinds /\ queue # << >> /\ State.created = created
    BY <1>1, HeadOK, PopupAssumption DEF Toggle, Takes, State
  <2> QED
    BY <1>1, <2>1, <2>2, TogglingStep DEF Toggle, PopupInv
<1>2. CASE DbusToggle
  <2> DEFINE st == [State EXCEPT !.lastQuit = None]
  <2>1. Good(st) /\ st.created = created
    BY DEF PopupInv, Good, States, State, HeldBy, Layer
  <2>2. Head(queue).kind \in Kinds /\ queue # << >>
    BY <1>2, HeadOK DEF DbusToggle, Takes
  <2>3. Becomes(Toggled(st, Head(queue).kind, TRUE)) /\ Done /\ created < MaxSurfaces
    BY <1>2 DEF DbusToggle
  <2> HIDE DEF st
  <2> QED
    BY <2>1, <2>2, <2>3, TogglingStep
<1>3. CASE CursorCaptured
  <2>1. /\ queue # << >> /\ Head(queue).type # "CloseRequested"
        /\ Head(queue).target \in Kinds /\ Done /\ UNCHANGED << surfaces, created >>
    BY <1>3, HeadOK DEF CursorCaptured, Takes
  <2>2. CASE capture = None
    BY <1>3, <2>1, <2>2, StayingStep DEF CursorCaptured
  <2>3. CASE capture # None
    <3> DEFINE shown == [kind |-> Head(queue).target, id |-> capture.overlay_id,
                         is_layer_surface |-> TRUE]
    <3>1. /\ popup' = shown /\ capture' = None /\ suppress' = TRUE /\ placed' = TRUE
          /\ lastQuit' = lastQuit
      BY <1>3, <2>3 DEF CursorCaptured
    <3>2. shown \in Popups /\ shown.id = capture.overlay_id /\ shown.is_layer_surface
      BY <1>0, <2>1, <2>3 DEF Popups, Captures
    <3> HIDE DEF shown
    <3>3. shown # None
      BY <3>2, NoneAssumption
    <3>4. /\ Held = {capture.overlay_id} /\ Held' = {capture.overlay_id}
          /\ surfaces \subseteq {capture.overlay_id} /\ capture.overlay_id \in 1 .. created
      BY <2>3, <3>1, <3>2, <3>3 DEF PopupInv, Good, State, Held, HeldBy
    <3>5. /\ HeldBy(State') = {capture.overlay_id} /\ Layer(State') /\ State' \in States
      BY <1>0, <2>1, <3>1, <3>2, <3>3, <3>4 DEF HeldBy, Layer, State, States, PopupInv, Good
    <3>6. Good(State')
      BY <2>1, <3>1, <3>4, <3>5 DEF Good, State
    <3> QED
      BY <2>1, <3>4, <3>6, HeadOK, HandlingSame DEF Done
  <2> QED
    BY <2>2, <2>3
<1>4. CASE EditLatest
  <2>1. /\ queue # << >> /\ Head(queue).type # "CloseRequested" /\ Done
        /\ UNCHANGED << popup, capture, suppress, placed, surfaces, created >> /\ lastQuit' = None
    BY <1>4 DEF EditLatest, Takes
  <2>2. Held' = Held /\ Good(State')
    BY <2>1 DEF PopupInv, Good, State, States, HeldBy, Layer, Held
  <2> QED
    BY <2>1, <2>2, HeadOK, HandlingSame DEF Done
<1>5. CASE ClosePopup
  BY <1>5, ClosingStep DEF ClosePopup, Takes
<1>6. CASE Key
  <2> DEFINE m == IF Head(queue).key = "Enter" THEN [type |-> "Enter"] ELSE QuitBy("Escape")
  <2>1. /\ queue # << >> /\ Head(queue).type # "CloseRequested"
        /\ queue' = Append(Tail(queue), m) /\ UNCHANGED << applet, surfaces, created >>
    BY <1>6 DEF Key, Takes
  <2>2. m \in Messages
    BY DEF Messages, QuitBy
  <2> HIDE DEF m
  <2>3. /\ queue' \in Seq(Messages)
        /\ \A id : Announced(Tail(queue), id) => Announced(queue', id)
    BY <2>1, <2>2, HeadOK, AppendKeeps
  <2>4. State' = State /\ Held' = Held
    BY <2>1 DEF State, Held, applet
  <2> QED
    BY <2>1, <2>3, <2>4, HandlingSame DEF PopupInv
<1>7. CASE Enter
  BY <1>7, ClosingStep, StayingStep DEF Enter, Takes
<1>8. CASE Quit
  <2>1. queue # << >> /\ Head(queue).type # "CloseRequested" /\ Done
    BY <1>8 DEF Quit, Takes
  <2>2. CASE suppress
    <3>1. UNCHANGED << applet, surfaces, created >>
      BY <1>8, <2>2 DEF Quit, Becomes, State, applet
    <3> QED
      BY <2>1, <3>1, StayingStep
  <2>3. CASE ~suppress
    BY <1>8, <2>1, <2>3, ClosingStep DEF Quit
  <2> QED
    BY <2>2, <2>3
<1>9. CASE CloseRequested
  <2>1. queue # << >> /\ Done
    BY <1>9 DEF CloseRequested, Takes
  <2>2. CASE Head(queue).id \in Held
    BY <1>9, <2>1, <2>2, ClosingStep DEF CloseRequested
  <2>3. CASE Head(queue).id \notin Held
    <3>1. Becomes(State) /\ queue' = Tail(queue) /\ queue' \in Seq(Messages)
      BY <1>9, <2>1, <2>3, HeadOK DEF CloseRequested, Done
    <3>2. /\ Good(State) /\ State.created = created /\ State.surfaces = surfaces
          /\ HeldBy(State) = Held /\ created <= created /\ created <= MaxSurfaces
      BY <1>0 DEF PopupInv, State, HeldBy, Held
    <3> DEFINE new == State
    <3> HIDE DEF new
    <3> QED
      BY <2>1, <2>3, <3>1, <3>2, Handling DEF new
  <2> QED
    BY <2>2, <2>3
<1>10. CASE \E kind \in IconKinds : ClickIcon(kind)
  <2>1. PICK kind \in IconKinds : ClickIcon(kind)
    BY <1>10
  <2> DEFINE m == [type |-> "Toggle", kind |-> kind,
                   open |-> Shown(kind) /\ ~Waits({"Toggle", "DbusToggle", "EditLatest"})]
  <2>2. m \in Messages /\ Environment(m)
    BY <2>1 DEF Messages, ClickIcon
  <2> HIDE DEF m
  <2> QED
    BY <2>2, EnvironmentStep
<1>11. CASE \E kind \in DbusKinds : CallDbus(kind)
  BY <1>11, EnvironmentStep DEF CallDbus, Messages
<1>12. CASE \E key \in {"Enter", "Escape"} : PressKey(key)
  BY <1>12, EnvironmentStep DEF PressKey, Messages
<1>13. CASE \E id \in surfaces : Dismiss(id)
  <2>1. PICK id \in surfaces : Dismiss(id)
    BY <1>13
  <2> DEFINE m == [type |-> "CloseRequested", id |-> id]
  <2>2. m \in Messages
    BY <1>0, <2>1 DEF Messages
  <2>3. /\ queue' = Append(queue, m) /\ surfaces' = surfaces \ {id}
        /\ UNCHANGED << applet, created >>
    BY <2>1 DEF Dismiss, Posts
  <2>4. \A x \in surfaces \ surfaces' : m = [type |-> "CloseRequested", id |-> x]
    BY <2>3
  <2> HIDE DEF m
  <2> QED
    BY <2>2, <2>3, <2>4, Arrival
<1>14. CASE MoveMouse
  <2>1. capture.target_popup \in DbusKinds
    BY <1>0, <1>14 DEF MoveMouse, Captures
  <2>2. [type |-> "CursorCaptured", target |-> capture.target_popup] \in Messages
    BY <2>1 DEF Messages
  <2> QED
    BY <1>14, <2>2, EnvironmentStep DEF MoveMouse
<1>15. CASE ClickOutside \/ PickEntry \/ CallEditLatest
  BY <1>15, EnvironmentStep DEF ClickOutside, PickEntry, CallEditLatest, Messages
<1>16. CASE LoseFocus
  BY <1>16, EnvironmentStep DEF LoseFocus, QuitBy, Messages
<1>17. CASE Wait
  <2>1. /\ UNCHANGED << popup, capture, suppress, placed, surfaces, created, queue >>
        /\ lastQuit # None /\ lastQuit' = [lastQuit EXCEPT !.recent = FALSE]
    BY <1>17 DEF Wait
  <2>2. lastQuit' \in Quits
    BY <1>0, <2>1 DEF Quits
  <2>3. Held' = Held /\ Good(State') /\ Messages' = Messages
    BY <2>1, <2>2 DEF PopupInv, Good, State, States, HeldBy, Layer, Held, Messages, Ids
  <2> QED
    BY <2>1, <2>3 DEF PopupInv
<1>18. CASE UNCHANGED vars
  BY <1>18 DEF PopupInv, Good, State, HeldBy, Layer, Held, Messages, Ids, vars, applet
<1> QED
  BY <1>1, <1>2, <1>3, <1>4, <1>5, <1>6, <1>7, <1>8, <1>9, <1>10, <1>11, <1>12, <1>13,
     <1>14, <1>15, <1>16, <1>17, <1>18 DEF Next, Handlers

LEMMA PopupInvHolds == Spec => []PopupInv
<1>1. Init => PopupInv
  <2> SUFFICES ASSUME Init PROVE PopupInv
    OBVIOUS
  <2>1. State \in States /\ HeldBy(State) = {} /\ ~Layer(State) /\ Held = {}
    BY DEF Init, State, States, HeldBy, Layer, Held
  <2>2. Good(State)
    BY <2>1 DEF Good, Init, State
  <2>3. created <= MaxSurfaces /\ queue \in Seq(Messages)
    BY PopupAssumption DEF Init
  <2> QED
    BY <2>1, <2>2, <2>3 DEF PopupInv
<1> QED
  BY <1>1, PopupInvStep, PTL DEF Spec

\* The applet's fields, the surfaces and the messages that wait have their
\* types, for any number of surfaces and messages.
THEOREM PopupTypeOKHolds == Spec => []TypeOK
  BY PopupInvHolds, InvTypeOK, PTL

\* Whatever order clicks, calls, keys, dismissals and their handlers come in, no
\* surface is forgotten, at most one is open, and the loss of focus is ignored
\* exactly while a layer surface is.
THEOREM LayersHeldHolds == Spec => []LayersHeld
  BY PopupInvHolds, InvLayersHeld, PTL

-----------------------------------------------------------------------------
(* A click on the icon of an open popup                                    *)

Others == {"Toggle", "DbusToggle", "EditLatest"}

\* Nothing before the i-th message opens a popup or forgets the last one.
FirstOf(q, i) == \A j \in 1 .. i - 1 : q[j].type \notin Others

\* No cursor is captured, and the popup is still there or was just closed.
Closes(st, kind) ==
  /\ st.capture = None
  /\ \/ st.popup # None /\ st.popup.kind = kind
     \/ st.popup = None /\ JustClosed(st, kind)

Click(m) == m.type = "Toggle" /\ m.open

Clicks(q, st) ==
  \A i \in DOMAIN q : Click(q[i]) => FirstOf(q, i) /\ Closes(st, q[i].kind)

ClickInv == PopupInv /\ Clicks(queue, State)

LEMMA ClosedCloses ==
  ASSUME NEW st, Good(st), NEW kind, Closes(st, kind)
  PROVE  Closes(Closed(st), kind)
<1>1. CASE st.popup = None
  BY <1>1 DEF Closes, Closed, JustClosed, Good, States
<1>2. CASE st.popup # None
  <2>1. [kind |-> st.popup.kind, recent |-> TRUE] \in Quits
    BY <1>2 DEF Good, States, Popups, Quits
  <2>2. [kind |-> st.popup.kind, recent |-> TRUE] # None
    BY <2>1, NoneAssumption
  <2> QED
    BY <1>2, <2>2 DEF Closes, Closed, JustClosed, Good, States
<1> QED
  BY <1>1, <1>2

\* Such a click opens nothing: the popup is closed by it or was just before.
LEMMA ToggledCloses ==
  ASSUME NEW st, Good(st), NEW kind, Closes(st, kind), NEW layer
  PROVE  Toggled(st, kind, layer).popup = None
<1>1. CASE st.popup = None
  BY <1>1 DEF Closes, Toggled, Opened
<1>2. CASE st.popup # None
  BY <1>2, ClosedClear DEF Closes, Toggled, Clear
<1> QED
  BY <1>1, <1>2

LEMMA AppendClicks ==
  ASSUME NEW S, NEW q \in Seq(S), NEW st, Clicks(q, st), NEW m,
         Click(m) => Closes(st, m.kind) /\ \A i \in DOMAIN q : q[i].type \notin Others
  PROVE  Clicks(Append(q, m), st)
<1> DEFINE more == Append(q, m)
<1>1. /\ Len(q) \in Nat /\ DOMAIN q = 1 .. Len(q)
      /\ DOMAIN more = 1 .. Len(q) + 1
      /\ \A i \in 1 .. Len(q) : more[i] = q[i]
      /\ more[Len(q) + 1] = m
  OBVIOUS
<1> HIDE DEF more
<1> SUFFICES ASSUME NEW i \in DOMAIN more, Click(more[i])
             PROVE  FirstOf(more, i) /\ Closes(st, more[i].kind)
  BY DEF Clicks, more
<1>2. CASE i = Len(q) + 1
  <2>1. more[i] = m /\ \A j \in 1 .. i - 1 : more[j] = q[j] /\ j \in DOMAIN q
    BY <1>1, <1>2
  <2> QED
    BY <2>1 DEF FirstOf
<1>3. CASE i # Len(q) + 1
  <2>1. /\ i \in DOMAIN q /\ more[i] = q[i]
        /\ \A j \in 1 .. i - 1 : more[j] = q[j]
    BY <1>1, <1>3
  <2> QED
    BY <2>1 DEF Clicks, FirstOf
<1> QED
  BY <1>2, <1>3

LEMMA TailClicks ==
  ASSUME NEW S, NEW q \in Seq(S), q # << >>, NEW st, Clicks(q, st), NEW new,
         Head(q).type \notin Others => \A kind : Closes(st, kind) => Closes(new, kind)
  PROVE  Clicks(Tail(q), new)
<1> DEFINE rest == Tail(q)
<1>1. /\ Len(q) \in Nat \ {0} /\ DOMAIN q = 1 .. Len(q)
      /\ DOMAIN rest = 1 .. Len(q) - 1 /\ Head(q) = q[1]
      /\ \A i \in 1 .. Len(q) - 1 : rest[i] = q[i + 1]
  OBVIOUS
<1> HIDE DEF rest
<1> SUFFICES ASSUME NEW i \in DOMAIN rest, Click(rest[i])
             PROVE  FirstOf(rest, i) /\ Closes(new, rest[i].kind)
  BY DEF Clicks, rest
<1>2. /\ i \in Nat /\ i + 1 \in DOMAIN q /\ rest[i] = q[i + 1]
      /\ 1 \in 1 .. (i + 1) - 1
  BY <1>1
<1>3. FirstOf(q, i + 1) /\ Closes(st, rest[i].kind)
  BY <1>2 DEF Clicks
<1>4. Head(q).type \notin Others
  BY <1>1, <1>2, <1>3 DEF FirstOf
<1>5. ASSUME NEW j \in 1 .. i - 1
      PROVE  rest[j].type \notin Others
  <2>1. rest[j] = q[j + 1] /\ j + 1 \in 1 .. (i + 1) - 1
    BY <1>1, <1>2
  <2> QED
    BY <1>3, <2>1 DEF FirstOf
<1> QED
  BY <1>3, <1>4, <1>5 DEF FirstOf

\* The state is what it was, but for a surface that is gone.
LEMMA ArrivalClicks ==
  ASSUME ClickInv, UNCHANGED applet, NEW m, queue' = Append(queue, m),
         Click(m) => Closes(State, m.kind) /\ \A i \in DOMAIN queue : queue[i].type \notin Others
  PROVE  Clicks(queue, State)'
<1>1. Clicks(queue', State)
  BY AppendClicks DEF ClickInv, PopupInv
<1>2. \A kind : Closes(State, kind) => Closes(State', kind)
  BY DEF Closes, JustClosed, State, applet
<1> QED
  BY <1>1, <1>2 DEF Clicks

LEMMA ClickStep ==
  ASSUME ClickInv, [Next]_vars
  PROVE  Clicks(queue, State)'
<1>0. Good(State) /\ State \in States /\ queue \in Seq(Messages)
  BY DEF ClickInv, PopupInv, Good
<1>1. ASSUME queue # << >>, Done,
             Head(queue).type \in Others \/ Becomes(State) \/ Becomes(Closed(State))
      PROVE  Clicks(queue, State)'
  <2>1. Head(queue).type \notin Others => State' \in {State, Closed(State)}
    BY <1>0, <1>1, StateBecomes, ClosedClear DEF Clear
  <2>2. Head(queue).type \notin Others => \A kind : Closes(State, kind) => Closes(State', kind)
    BY <1>0, <2>1, ClosedCloses
  <2>3. Clicks(Tail(queue), State')
    BY <1>0, <1>1, <2>2, TailClicks DEF ClickInv
  <2> QED
    BY <1>1, <2>3 DEF Done
<1>2. CASE Toggle \/ DbusToggle \/ EditLatest
  BY <1>1, <1>2 DEF Toggle, DbusToggle, EditLatest, Takes, Others
<1>3. CASE ClosePopup \/ CloseRequested \/ Quit
  BY <1>1, <1>3 DEF ClosePopup, CloseRequested, Quit, Takes
<1>4. CASE Enter
  <2>1. UNCHANGED << applet, surfaces, created >> => Becomes(State)
    BY DEF applet, Becomes, State
  <2> QED
    BY <1>1, <1>4, <2>1 DEF Enter, Takes
<1>5. CASE CursorCaptured
  <2>1. queue # << >> /\ Done
    BY <1>5 DEF CursorCaptured, Takes
  <2>2. CASE capture = None
    <3>1. Becomes(State)
      BY <1>5, <2>2 DEF CursorCaptured, applet, Becomes, State
    <3> QED
      BY <1>1, <2>1, <3>1
  <2>3. CASE capture # None
    <3>1. \A kind : ~Closes(State, kind)
      BY <2>3 DEF Closes, State
    <3>2. Clicks(Tail(queue), State')
      BY <1>0, <2>1, <3>1, TailClicks DEF ClickInv
    <3> QED
      BY <2>1, <3>2 DEF Done
  <2> QED
    BY <2>2, <2>3
<1>6. CASE Key
  <2> DEFINE m == IF Head(queue).key = "Enter" THEN [type |-> "Enter"] ELSE QuitBy("Escape")
  <2>1. /\ queue # << >> /\ queue' = Append(Tail(queue), m) /\ State' = State
    BY <1>6 DEF Key, Takes, applet, State
  <2>2. ~Click(m)
    BY DEF Click, QuitBy
  <2> HIDE DEF m
  <2>3. Clicks(Tail(queue), State) /\ Tail(queue) \in Seq(Messages)
    BY <1>0, <2>1, TailClicks DEF ClickInv
  <2>4. Clicks(Append(Tail(queue), m), State)
    BY <2>2, <2>3, AppendClicks
  <2> QED
    BY <2>1, <2>4
<1>7. CASE \E kind \in IconKinds : ClickIcon(kind)
  <2>1. PICK kind \in IconKinds : ClickIcon(kind)
    BY <1>7
  <2> DEFINE m == [type |-> "Toggle", kind |-> kind,
                   open |-> Shown(kind) /\ ~Waits({"Toggle", "DbusToggle", "EditLatest"})]
  <2>2. queue' = Append(queue, m) /\ UNCHANGED applet
    BY <2>1 DEF ClickIcon, Environment, Posts
  <2>3. Click(m) => Shown(kind) /\ m.kind = kind /\ ~Waits(Others)
    BY DEF Click, Others
  <2> HIDE DEF m
  <2>4. Click(m) => Closes(State, m.kind)
    BY <1>0, <2>3 DEF Shown, Closes, State, Good
  <2>5. Click(m) => \A i \in DOMAIN queue : queue[i].type \notin Others
    BY <2>3 DEF Waits
  <2> QED
    BY <2>2, <2>4, <2>5, ArrivalClicks
<1>8. ASSUME NEW m, ~Click(m), queue' = Append(queue, m), UNCHANGED applet
      PROVE  Clicks(queue, State)'
  BY <1>8, ArrivalClicks
<1>9. CASE \/ \E kind \in DbusKinds : CallDbus(kind)
           \/ \E key \in {"Enter", "Escape"} : PressKey(key)
           \/ \E id \in surfaces : Dismiss(id)
           \/ MoveMouse \/ ClickOutside \/ PickEntry \/ LoseFocus \/ CallEditLatest
  BY <1>8, <1>9 DEF CallDbus, PressKey, Dismiss, MoveMouse, ClickOutside, PickEntry, LoseFocus,
     CallEditLatest, QuitBy, Environment, Posts, Click
<1>10. CASE Wait
  BY <1>10 DEF Wait, Clicks
<1>11. CASE UNCHANGED vars
  BY <1>11 DEF vars, applet, State, ClickInv, Clicks, FirstOf, Closes, JustClosed
<1> QED
  BY <1>2, <1>3, <1>4, <1>5, <1>6, <1>7, <1>9, <1>10, <1>11 DEF Next, Handlers

\* Only the handler takes a click from the queue.
LEMMA ClickTaken ==
  ASSUME ClickInv, [Next]_vars, Takes("Toggle"), Done
  PROVE  Toggle
<1>1. queue \in Seq(Messages) /\ queue # << >>
  BY DEF ClickInv, PopupInv, Takes
<1>2. Len(queue') = Len(queue) - 1 /\ Len(queue) \in Nat
  BY <1>1 DEF Done
<1>3. \A m : Len(Append(queue, m)) = Len(queue) + 1
  BY <1>1
<1>4. queue' # queue /\ \A m : queue' # Append(queue, m)
  BY <1>2, <1>3
<1>5. ~Key
  BY DEF Key, Takes
<1> QED
  BY <1>1, <1>4, <1>5 DEF Next, Handlers, Takes, vars, DbusToggle, EditLatest, CursorCaptured,
     ClosePopup, CloseRequested, Enter, Quit, Wait, ClickIcon, CallDbus, PressKey, Dismiss,
     MoveMouse, ClickOutside, PickEntry, LoseFocus, CallEditLatest, Environment, Posts

LEMMA ClickCloses ==
  ASSUME ClickInv, [Next]_vars, NEW kind,
         Takes("Toggle"), Done, Head(queue).open, Head(queue).kind = kind
  PROVE  popup' = None
<1>1. PICK layer : Becomes(Toggled(State, kind, layer))
  BY ClickTaken DEF Toggle
<1>2. queue \in Seq(Messages) /\ queue # << >>
  BY DEF ClickInv, PopupInv, Takes
<1>3. 1 \in DOMAIN queue /\ queue[1] = Head(queue)
  BY <1>2
<1>4. Closes(State, kind) /\ Good(State)
  BY <1>3 DEF ClickInv, PopupInv, Clicks, Click, Takes
<1> QED
  BY <1>1, <1>4, ToggledCloses DEF Becomes

\* Whatever is handled between the click and its handler, the icon of an open
\* popup closes it: the handler finds it open, or closed not long before.
THEOREM IconClosesHolds == Spec => IconCloses
<1>1. Init => Clicks(queue, State)
  BY DEF Init, Clicks
<1>2. PopupInv /\ Clicks(queue, State) /\ [Next]_vars => Clicks(queue, State)'
  BY ClickStep DEF ClickInv
<1>3. PopupInv /\ Clicks(queue, State) /\ [Next]_vars
        => [\A kind \in IconKinds :
              Takes("Toggle") /\ Done /\ Head(queue).open /\ Head(queue).kind = kind
                => popup' = None \/ popup'.kind # kind]_vars
  BY ClickCloses DEF ClickInv
<1> QED
  BY <1>1, <1>2, <1>3, PopupInvHolds, PTL DEF Spec, IconCloses
=============================================================================
