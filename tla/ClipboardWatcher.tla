-------------------------- MODULE ClipboardWatcher --------------------------
(***************************************************************************)
(* A watcher of the clipboard or of the primary selection, from the events *)
(* of the compositor to the messages of the applet                         *)
(* (src/src/clipboard_watcher.rs, src/src/clipboard.rs).                   *)
(*                                                                         *)
(* The compositor writes events on a socket: an offer, its MIME types one  *)
(* by one, then that it is the selection.  The watcher thread blocks until *)
(* some events have come, takes them, be the last offer complete or not,   *)
(* and asks for the content of the selection it knows.  A channel leads to *)
(* an asynchronous task that reads the pipes, a stream from there to the   *)
(* applet.                                                                 *)
(*                                                                         *)
(* Offers are numbered as they are made.                                   *)
(***************************************************************************)
EXTENDS Integers, Sequences, SequencesExt, FiniteSets

CONSTANTS
  Contents,    \* the sets of MIME types a source may offer
  Skipped,     \* SKIP_MIME_TYPES: never asked for
  MaxOffers,   \* bound on the offers made
  MaxOthers,   \* bound on the other events
  MaxToggles,  \* bound on changes of the configuration
  MaxChannel,  \* capacity of the channel (5)
  MaxStream,   \* capacity of the stream (50)
  None

ASSUME WatcherAssumption ==
  /\ \A ms \in Contents : IsFiniteSet(ms)
  /\ {MaxOthers, MaxToggles} \subseteq Nat
  /\ {MaxOffers, MaxChannel, MaxStream} \subseteq Nat \ {0}
  /\ None \notin Nat

VARIABLES
  primary,  \* does it watch the primary selection?
  clip,     \* the compositor's selections: [clipboard, primary], offers or None
  mimes,    \* the MIME types of each offer made
  wire,     \* the events the watcher has not taken
  seen,     \* its State: [offers, offer, primary_offer, got_primary_selection]
  thread,   \* "watching", "sending" what is in out, "ended" after an error,
            \*   "dropped" when the applet does not subscribe
  out,      \* the WatchRes the thread sends, or None
  channel,  \* WatchRes on their way to clipboard_recv_loop
  stream,   \* ClipboardMessages on their way to the applet
  conf,     \* [private, enabled]: PRIVATE_MODE, SELECTION_BUFFER_ENABLED
  fate,     \* not in the code: "new", "given" or "lost" for each offer
  tally     \* [others, toggles] so far

compositor == << clip, mimes, wire >>
watcher == << seen, thread, out >>
vars == << primary, compositor, watcher, channel, stream, conf, fate, tally >>

Kinds == IF primary THEN {"clipboard", "primary"} ELSE {"clipboard"}
Offers == DOMAIN mimes
Mimes == UNION Contents

-----------------------------------------------------------------------------
(* The compositor                                                          *)

Event(type, id) == [type |-> type, id |-> id]
MimeEvent(o, m) == [type |-> "Offer", id |-> o, mime_type |-> m]

\* What the compositor writes about a new selection.
Announcement(kind, o, ms) ==
  LET each == SetToSeq(ms)
  IN  << Event("DataOffer", o) >>
        \o [i \in DOMAIN each |-> MimeEvent(o, each[i])]
        \o << Event(kind, o) >>

\* Somebody copies or selects.
Select(kind, ms) ==
  LET o == Len(mimes) + 1
  IN  /\ o <= MaxOffers
      /\ mimes' = Append(mimes, ms)
      /\ fate' = Append(fate, "new")
      /\ clip' = [clip EXCEPT ![kind] = o]
      /\ wire' = wire \o Announcement(kind, o, ms)
      /\ UNCHANGED << primary, watcher, channel, stream, conf, tally >>

Other(event) ==
  /\ tally.others < MaxOthers
  /\ tally' = [tally EXCEPT !.others = @ + 1]
  /\ wire' = Append(wire, event)
  /\ UNCHANGED << primary, mimes, watcher, channel, stream, conf, fate >>

\* The source of a selection goes.
Unselect(kind) ==
  /\ clip[kind] # None
  /\ clip' = [clip EXCEPT ![kind] = None]
  /\ Other(Event(kind, None))

\* A monitor or an input device comes or goes: an event of the registry or of
\* the seat, on the same queue.
Hotplug == Other(Event("Global", None)) /\ UNCHANGED clip

-----------------------------------------------------------------------------
(* The watcher thread                                                      *)

\* Seeded bug: the old offer is not forgotten.
SelectedKeepsOld(st, field, o) == [st EXCEPT ![field] = o]

\* Selection and PrimarySelection: the old offer is forgotten.
Selected(st, field, o) ==
  [st EXCEPT ![field] = o,
             !.offers = [p \in DOMAIN @ \ {st[field]} |-> @[p]]]

\* The Dispatch implementations of State.
Dispatch(st, e) ==
  CASE e.type = "DataOffer" ->
         [st EXCEPT !.offers = [p \in DOMAIN @ \cup {e.id} |-> IF p = e.id THEN {} ELSE @[p]]]
    [] e.type = "Offer" -> [st EXCEPT !.offers[e.id] = @ \cup {e.mime_type}]
    [] e.type = "clipboard" -> Selected(st, "offer", e.id)
    [] e.type = "primary" ->
         [Selected(st, "primary_offer", e.id) EXCEPT !.got_primary_selection = TRUE]
    [] e.type = "Global" -> st

\* blocking_dispatch takes the first n events.
Dispatched(n) ==
  LET taken[k \in 0 .. n] == IF k = 0 THEN seen ELSE Dispatch(taken[k - 1], wire[k])
  IN  taken[n]

\* Seeded bug: the last offer announced is taken, selected or not.
CurrentNewest(st) ==
  IF DOMAIN st.offers = {} THEN None
  ELSE CHOOSE o \in DOMAIN st.offers : \A p \in DOMAIN st.offers : p <= o

\* The offer start_watching is interested in.
Current(st) == IF primary THEN st.primary_offer ELSE st.offer

\* Is the content of an offer dropped that has just been asked for?
Hidden == conf.private \/ (primary /\ ~conf.enabled)

Blocks(st, res) == seen' = st /\ thread' = "sending" /\ out' = res

Watches(st) == seen' = st /\ thread' = "watching" /\ out' = None

\* Seeded bug: the offer stays to be read again.
ReceiveAgain(st) ==
  LET o == Current(st)
  IN  IF Hidden
        THEN /\ Watches(st)
             /\ fate' = [fate EXCEPT ![o] = "lost"]
        ELSE /\ Blocks(st, [type |-> "Some", offer |-> o, mimes |-> st.offers[o] \ Skipped])
             /\ UNCHANGED fate

\* The offer is known and not read yet: ask for its content.
Receive(st) ==
  LET o == Current(st)
      rest == [st EXCEPT !.offers = [p \in DOMAIN @ \ {o} |-> @[p]]]
  IN  IF Hidden
        THEN /\ Watches(rest)
             /\ fate' = [fate EXCEPT ![o] = "lost"]
        ELSE /\ Blocks(rest, [type |-> "Some", offer |-> o, mimes |-> st.offers[o] \ Skipped])
             /\ UNCHANGED fate

\* start_watching, and what the thread makes of its result.
StartWatching ==
  /\ thread = "watching"
  /\ \E n \in 1 .. Len(wire) :
       LET st == Dispatched(n)
       IN  /\ wire' = SubSeq(wire, n + 1, Len(wire))
           /\ \/ /\ primary /\ ~st.got_primary_selection
                 /\ Blocks(st, [type |-> "Err"])
                 /\ UNCHANGED fate
              \/ /\ primary => st.got_primary_selection
                 /\ Current(st) \in DOMAIN st.offers
                 /\ Receive(st)
              \/ /\ primary => st.got_primary_selection
                 /\ Current(st) \notin DOMAIN st.offers
                 /\ Blocks(st, [type |-> "None"])
                 /\ UNCHANGED fate
  /\ UNCHANGED << primary, clip, mimes, channel, stream, conf, tally >>

\* The connection breaks, or no pipe can be made.
WatchFails ==
  /\ thread = "watching"
  /\ Blocks(seen, [type |-> "Err"])
  /\ UNCHANGED << primary, compositor, channel, stream, conf, fate, tally >>

\* Seeded bug: what does not fit into the channel is dropped.
TrySend ==
  /\ thread = "sending"
  /\ channel' = IF Len(channel) < MaxChannel THEN Append(channel, out) ELSE channel
  /\ thread' = IF out.type = "Err" THEN "ended" ELSE "watching"
  /\ out' = None
  /\ UNCHANGED << primary, compositor, seen, stream, conf, fate, tally >>

\* Seeded bug: the thread does not wait for room.
SendUnbounded ==
  /\ thread = "sending"
  /\ channel' = Append(channel, out)
  /\ thread' = IF out.type = "Err" THEN "ended" ELSE "watching"
  /\ out' = None
  /\ UNCHANGED << primary, compositor, seen, stream, conf, fate, tally >>

\* blocking_send
Send ==
  /\ thread = "sending" /\ Len(channel) < MaxChannel
  /\ channel' = Append(channel, out)
  /\ thread' = IF out.type = "Err" THEN "ended" ELSE "watching"
  /\ out' = None
  /\ UNCHANGED << primary, compositor, seen, stream, conf, fate, tally >>

-----------------------------------------------------------------------------
(* clipboard_recv_loop and the applet                                      *)

\* read_pipes: each pipe yields something within 500 ms or is left out.
ReadPipes(res, got) ==
  IF got = {}
    THEN /\ UNCHANGED stream
         /\ fate' = [fate EXCEPT ![res.offer] = "lost"]
    ELSE /\ stream' = Append(stream, [type |-> "Data", offer |-> res.offer, mimes |-> got])
         /\ UNCHANGED fate

\* One turn of the loop.  After an error nothing follows.
RecvLoop ==
  /\ channel # << >> /\ Len(stream) < MaxStream
  /\ channel' = Tail(channel)
  /\ LET res == Head(channel)
     IN  \/ res.type = "Some" /\ \E got \in SUBSET res.mimes : ReadPipes(res, got)
         \/ /\ res.type # "Some"
            /\ stream' = Append(stream, [type |-> IF res.type = "None" THEN "EmptyKeyboard"
                                                 ELSE "Error"])
            /\ UNCHANGED fate
  /\ UNCHANGED << primary, compositor, watcher, conf, tally >>

\* The applet takes a message; ClipboardSync says what it does with it.
Handle ==
  /\ stream # << >>
  /\ stream' = Tail(stream)
  /\ fate' = IF Head(stream).type = "Data"
               THEN [fate EXCEPT ![Head(stream).offer] = "given"] ELSE fate
  /\ UNCHANGED << primary, compositor, watcher, channel, conf, tally >>

-----------------------------------------------------------------------------
(* Connecting                                                              *)

\* State after the roundtrip of Watcher::init, which takes in the selections
\* there are; start_watching will first wait for an event after these.
Connected(c, ms) ==
  [offers |-> [o \in {c.clipboard, c.primary} \ {None} |-> ms[o]],
   offer |-> c.clipboard, primary_offer |-> c.primary,
   got_primary_selection |-> primary]

\* What a new connection is told of the selections there are: offers of its own.
Offered ==
  IF clip.clipboard # None /\ clip.primary # None
    THEN [clip |-> [clipboard |-> Len(mimes) + 1, primary |-> Len(mimes) + 2],
          mimes |-> << mimes[clip.clipboard], mimes[clip.primary] >>]
  ELSE IF clip.clipboard # None
    THEN [clip |-> [clip EXCEPT !.clipboard = Len(mimes) + 1],
          mimes |-> << mimes[clip.clipboard] >>]
  ELSE IF clip.primary # None
    THEN [clip |-> [clip EXCEPT !.primary = Len(mimes) + 1],
          mimes |-> << mimes[clip.primary] >>]
  ELSE [clip |-> clip, mimes |-> << >>]

Toggles ==
  /\ tally.toggles < MaxToggles
  /\ tally' = [tally EXCEPT !.toggles = @ + 1]

\* ChangeConfig
ToggleBuffer ==
  /\ Toggles
  /\ conf' = [conf EXCEPT !.enabled = ~@]
  /\ UNCHANGED << primary, compositor, watcher, channel, stream, fate >>

\* The subscription of the primary selection exists while the buffer is enabled:
\* its thread and its channel go with it; what the applet has been handed stays.
Unsubscribe ==
  /\ primary /\ ~conf.enabled /\ thread # "dropped"
  /\ thread' = "dropped" /\ out' = None
  /\ wire' = << >> /\ channel' = << >>
  /\ stream' \in {<< >>, stream}
  /\ UNCHANGED << primary, clip, mimes, seen, conf, fate, tally >>

\* A new watcher connects when it is enabled again.
Subscribe ==
  /\ thread = "dropped" /\ conf.enabled
  /\ Len(mimes) + Len(Offered.mimes) <= MaxOffers
  /\ clip' = Offered.clip
  /\ mimes' = mimes \o Offered.mimes
  /\ fate' = fate \o [i \in DOMAIN Offered.mimes |-> "new"]
  /\ wire' = << >>
  /\ Watches(Connected(clip', mimes'))
  /\ UNCHANGED << primary, channel, stream, conf, tally >>

\* ChangeConfig
TogglePrivate ==
  /\ Toggles
  /\ conf' = [conf EXCEPT !.private = ~@]
  /\ UNCHANGED << primary, compositor, watcher, channel, stream, fate >>

-----------------------------------------------------------------------------
\* The applet starts with a selection or without.
Init ==
  /\ primary \in BOOLEAN
  /\ mimes \in {<< >>} \cup {<< ms >> : ms \in Contents}
  /\ clip = [clipboard |-> IF mimes = << >> THEN None ELSE 1, primary |-> None]
  /\ wire = << >>
  /\ seen = Connected(clip, mimes)
  /\ thread = "watching" /\ out = None
  /\ channel = << >> /\ stream = << >>
  /\ conf = [private |-> FALSE, enabled |-> TRUE]
  /\ fate = [o \in Offers |-> "new"]
  /\ tally = [others |-> 0, toggles |-> 0]

Next ==
  \/ \E kind \in Kinds, ms \in Contents : Select(kind, ms)
  \/ \E kind \in Kinds : Unselect(kind)
  \/ Hotplug
  \/ StartWatching \/ WatchFails \/ Send
  \/ RecvLoop \/ Handle
  \/ ToggleBuffer \/ TogglePrivate \/ Unsubscribe \/ Subscribe

Spec == Init /\ [][Next]_vars

\* The thread, the task and the UI thread run.
FairSpec ==
  Spec /\ WF_vars(StartWatching) /\ WF_vars(Send) /\ WF_vars(RecvLoop) /\ WF_vars(Handle)

-----------------------------------------------------------------------------
Results ==
  [type : {"Some"}, offer : Offers, mimes : SUBSET Mimes]
    \cup [type : {"None", "Err"}]

Messages ==
  [type : {"Data"}, offer : Offers, mimes : SUBSET Mimes]
    \cup [type : {"EmptyKeyboard", "Error"}]

\* Offers, the state of the watcher and what is in the channels have their types.
TypeOK ==
  /\ mimes \in Seq(Contents) /\ Len(mimes) <= MaxOffers
  /\ clip \in [clipboard : Offers \cup {None}, primary : Offers \cup {None}]
  /\ DOMAIN seen.offers \subseteq Offers
  /\ {seen.offer, seen.primary_offer} \subseteq Offers \cup {None}
  /\ thread \in {"watching", "sending", "ended", "dropped"}
  /\ IF thread = "sending" THEN out \in Results ELSE out = None
  /\ channel \in Seq(Results) /\ Len(channel) <= MaxChannel
  /\ stream \in Seq(Messages) /\ Len(stream) <= MaxStream
  /\ conf \in [private : BOOLEAN, enabled : BOOLEAN]
  /\ fate \in [Offers -> {"new", "given", "lost"}]

\* What is on its way to the applet, the oldest first.
Sent == channel \o (IF thread = "sending" THEN << out >> ELSE << >>)
Queue == stream \o Sent

Carries(x) == x.type \in {"Data", "Some"}

\* A copy reaches the applet at most once and never after a later one: the
\* history would show it again, or on top of what was copied since.
InOrder ==
  \A i \in DOMAIN Queue : Carries(Queue[i]) =>
    /\ \A j \in DOMAIN Queue : i < j /\ Carries(Queue[j]) => Queue[i].offer < Queue[j].offer
    /\ Queue[i].offer \notin DOMAIN seen.offers
    /\ \A o \in Offers : fate[o] = "given" => o < Queue[i].offer

TakenInPart ==
  {o \in Offers : wire # << >> /\ Head(wire).id = o /\ Head(wire).type # "DataOffer"}

\* The watcher remembers no offer but the selections and the one whose
\* announcement it has taken in part, however many copies it never looked at:
\* the comments at clipboard_watcher.rs:159 and 173 want no unbounded growth.
OffersBounded ==
  thread # "dropped" =>
    DOMAIN seen.offers \subseteq {seen.offer, seen.primary_offer} \cup TakenInPart

\* What is asked for is a whole offer, all its MIME types but the ones to skip,
\* though events come in pieces.
AsksForWhole ==
  \A i \in DOMAIN Sent :
    LET res == Sent[i]
    IN  res.type = "Some" => res.mimes = mimes[res.offer] \ Skipped

Announced(kind, o) == \E i \in DOMAIN wire : wire[i] = Event(kind, o)

\* A copy reaches the applet or is superseded by a later one, unless it comes
\* in private mode, has nothing to read or takes longer than 500 ms, or the
\* watcher ends; neither a full channel nor an announcement taken in pieces
\* loses it.
Arrives ==
  \A o \in 1 .. MaxOffers :
    Announced(IF primary THEN "primary" ELSE "clipboard", o)
      ~> \/ o \in Offers /\ fate[o] # "new"
         \/ o \notin {clip.clipboard, clip.primary}
         \/ thread \in {"ended", "dropped"}
=============================================================================
