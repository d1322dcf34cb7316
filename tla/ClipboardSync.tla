---------------------------- MODULE ClipboardSync ----------------------------
(***************************************************************************)
(* What happens between the compositor's clipboard and primary selection   *)
(* and the applet: the watcher threads (src/src/clipboard.rs), the events  *)
(* they queue, and the handlers of src/src/app.rs that record copies, keep *)
(* a debounced buffer of selections and write to the clipboard themselves. *)
(*                                                                         *)
(* Everything the applet writes comes back through its own watcher.  The   *)
(* flag SKIP_NEXT_CLIPBOARD, set when a selection is written, is meant to  *)
(* keep that echo out of the history; whatever event comes next takes it.  *)
(*                                                                         *)
(* The history is the set of texts ever stored: ClipboardStore says what   *)
(* becomes of them.                                                        *)
(***************************************************************************)
EXTENDS SelectionBuffer, FiniteSets

CONSTANTS
  MaxCopies,    \* bound on copies and clears by other programs and the user
  MaxSelects,   \* bound on primary selection events
  MaxQueue,     \* the watcher blocks when this many events wait (50 + 5)
  MaxToggles,   \* bound on changes of the configuration
  PrivateMode   \* TRUE: private mode may be switched on

\* A text on the clipboard, and who put it there.
Clip == [text : Text, by : {"user", "sync", "applet"}, secret : BOOLEAN]

ASSUME SyncAssumption ==
  /\ None \notin Clip
  /\ {MaxCopies, MaxSelects, MaxQueue, MaxToggles} \subseteq Nat
  /\ PrivateMode \in BOOLEAN

VARIABLES
  clip,        \* the clipboard: [text, by, secret], or None when its source closed
  unread,      \* the watcher has not taken the clipboard's last change yet
  events,      \* ClipboardMessages on their way to the applet: a clip, or None
               \*   for EmptyKeyboard
  skip,        \* SKIP_NEXT_CLIPBOARD
  sensitive,   \* last_entry_sensitive
  history,     \* the texts that were stored
  pending,     \* pending_primary_text
  seq,         \* primary_debounce_seq
  timers,      \* the FlushPrimarySelection messages to come
  conf,        \* [private, enabled, sync] of the configuration
  latest,      \* the last text that became pending
  tally        \* [copies, toggles, synced, lost, leaked, raced, hidden], see below

watching == << clip, unread, events >>
debounce == << pending, seq, timers, latest >>
vars == << buffer, watching, debounce, skip, sensitive, history, conf, tally >>

SyncInit ==
  /\ BufferInit
  /\ clip = None /\ unread = FALSE /\ events = << >>
  /\ skip = FALSE /\ sensitive = FALSE
  /\ history = {}
  /\ pending = None /\ seq = 0 /\ timers = {} /\ latest = None
  /\ conf \in [private : {FALSE}, enabled : {TRUE}, sync : BOOLEAN]
  /\ tally = [copies |-> 0, toggles |-> 0, synced |-> 0, lost |-> 0, leaked |-> 0,
              raced |-> FALSE, hidden |-> FALSE]

\* No change of the clipboard is on its way to the applet.
Quiet == ~unread /\ events = << >>

\* A new source for the clipboard.  Two changes are in a race when the second
\* comes before the applet has seen a selection it wrote itself.
Offer(new) ==
  /\ clip' = new /\ unread' = TRUE
  /\ UNCHANGED events

Copied ==
  tally' = [tally EXCEPT !.copies = @ + 1, !.raced = @ \/ skip]

-----------------------------------------------------------------------------
(* Other programs                                                          *)

\* Somebody copies.
UserCopies(text, secret) ==
  /\ tally.copies < MaxCopies
  /\ Offer([text |-> text, by |-> "user", secret |-> secret])
  /\ Copied
  /\ UNCHANGED << buffer, debounce, skip, sensitive, history, conf >>

\* The program that owns the clipboard quits or clears it.
SourceCloses ==
  /\ clip # None /\ tally.copies < MaxCopies
  /\ Offer(None)
  /\ Copied
  /\ UNCHANGED << buffer, debounce, skip, sensitive, history, conf >>

-----------------------------------------------------------------------------
(* The watcher thread: it takes the latest offer, however many there were. *)

\* Seeded bug: the offer is not removed and is read again.
WatchRereads ==
  /\ unread /\ Len(events) < MaxQueue
  /\ unread' = unread
  /\ events' = Append(events, clip)
  /\ UNCHANGED << buffer, debounce, clip, skip, sensitive, history, conf, tally >>

\* Seeded bug: the watcher does not wait for the applet.
WatchUnbounded ==
  /\ unread /\ Len(events) <= MaxQueue
  /\ unread' = FALSE
  /\ events' = Append(events, clip)
  /\ UNCHANGED << buffer, debounce, clip, skip, sensitive, history, conf, tally >>

\* start_watching and clipboard_recv_loop.  In private mode nothing is sent, an
\* echo included: the flag then waits for the next copy, which counts as a race.
Watch ==
  /\ unread /\ Len(events) < MaxQueue
  /\ unread' = FALSE
  /\ IF conf.private /\ clip # None
       THEN /\ tally' = [tally EXCEPT !.hidden = TRUE, !.raced = @ \/ skip]
            /\ UNCHANGED events
       ELSE /\ events' = Append(events, clip)
            /\ UNCHANGED tally
  /\ UNCHANGED << buffer, debounce, clip, skip, sensitive, history, conf >>

\* An event that is no copy wakes the watcher: it has read the offer it knows
\* before, and reports that there is none (ClipboardWatcher shows how).
SpuriousWake ==
  /\ tally.copies < MaxCopies /\ Len(events) < MaxQueue
  /\ events' = Append(events, None)
  /\ Copied
  /\ UNCHANGED << buffer, debounce, clip, unread, skip, sensitive, history, conf >>

-----------------------------------------------------------------------------
(* The handlers of the applet                                              *)

\* Seeded bug: the flag stays set.
SkipKeepsFlag ==
  /\ skip' = skip
  /\ tally' = [tally EXCEPT !.lost = @ + (IF Head(events).by = "user" THEN 1 ELSE 0)]
  /\ UNCHANGED << sensitive, history >>

\* ClipboardEvent(Data) while the flag is set.
Skip ==
  /\ skip' = FALSE
  /\ tally' = [tally EXCEPT !.lost = @ + (IF Head(events).by = "user" THEN 1 ELSE 0)]
  /\ UNCHANGED << sensitive, history >>

\* Seeded bug: whatever follows a password counts as one.
StoreAfterSecret ==
  /\ sensitive' = (sensitive \/ Head(events).secret)
  /\ history' = IF sensitive' THEN history ELSE history \cup {Head(events).text}
  /\ tally' = [tally EXCEPT !.leaked = @ + (IF Head(events).by = "sync" THEN 1 ELSE 0)]
  /\ UNCHANGED skip

\* ClipboardEvent(Data) otherwise: a password is not stored.
Store ==
  /\ sensitive' = Head(events).secret
  /\ history' = IF Head(events).secret THEN history ELSE history \cup {Head(events).text}
  /\ tally' = [tally EXCEPT !.leaked = @ + (IF Head(events).by = "sync" THEN 1 ELSE 0)]
  /\ UNCHANGED skip

ClipboardData ==
  /\ events # << >> /\ Head(events) # None
  /\ events' = Tail(events)
  /\ IF skip THEN Skip ELSE Store
  /\ UNCHANGED << buffer, debounce, clip, unread, conf >>

\* ClipboardEvent(EmptyKeyboard): offer db.get(0), which is some stored text
\* when any is left, unless a password manager cleared the clipboard.
EmptyKeyboard ==
  /\ events # << >> /\ Head(events) = None
  /\ events' = Tail(events)
  /\ IF sensitive
       THEN sensitive' = FALSE /\ UNCHANGED << clip, unread, tally >>
       ELSE /\ \/ UNCHANGED << clip, unread, tally >>
               \/ \E text \in history :
                    /\ clip' = [text |-> text, by |-> "applet", secret |-> FALSE]
                    /\ unread' = TRUE
                    /\ tally' = [tally EXCEPT !.raced = @ \/ skip]
            /\ UNCHANGED sensitive
  /\ UNCHANGED << buffer, debounce, skip, history, conf >>

\* Copy and DbusCopyEntry: the user picks a text of the history.
Pick(text) ==
  /\ tally.copies < MaxCopies
  /\ Offer([text |-> text, by |-> "applet", secret |-> FALSE])
  /\ Copied
  /\ UNCHANGED << buffer, debounce, skip, sensitive, history, conf >>

\* SelectionCopy, with an id that may be gone.
SelectionCopy(id) == \E text \in ById(id) : Pick(text)

\* PrimaryClipboardEvent(Data).  An event that was under way when the buffer
\* was disabled is copied at once, by a wl_copy that may fail.
PrimaryEvent(text) ==
  /\ IF conf.enabled
       THEN /\ seq < MaxSelects
            /\ latest' = text
            /\ pending' = text
            /\ seq' = seq + 1
            /\ timers' = timers \cup {seq + 1}
            /\ UNCHANGED << watching, tally >>
       ELSE /\ tally.copies < MaxCopies
            /\ \/ /\ Offer([text |-> text, by |-> "applet", secret |-> FALSE])
                  /\ Copied
               \/ UNCHANGED << watching, tally >>
            /\ UNCHANGED debounce
  /\ UNCHANGED << buffer, skip, sensitive, history, conf >>

\* Seeded bug: every timer flushes.
FlushEvery(s) ==
  /\ s \in timers
  /\ timers' = timers \ {s}
  /\ IF pending = None THEN UNCHANGED << buffer, watching, pending, skip, tally >>
     ELSE /\ Push(pending)
          /\ pending' = None
          /\ UNCHANGED << watching, skip, tally >>
  /\ UNCHANGED << seq, latest, sensitive, history, conf >>

\* Seeded bug: the flag is not taken back when wl_copy fails.
WriteSelectionKeepsFlag ==
  /\ skip' = TRUE
  /\ \/ /\ Offer([text |-> pending, by |-> "sync", secret |-> FALSE])
        /\ tally' = [tally EXCEPT !.synced = @ + 1, !.raced = @ \/ skip \/ ~Quiet]
     \/ /\ UNCHANGED watching
        /\ tally' = [tally EXCEPT !.raced = @ \/ skip]

\* wl_copy of a selection, which may fail.
WriteSelection ==
  \/ /\ skip' = TRUE
     /\ Offer([text |-> pending, by |-> "sync", secret |-> FALSE])
     /\ tally' = [tally EXCEPT !.synced = @ + 1, !.raced = @ \/ skip \/ ~Quiet]
  \/ /\ skip' = FALSE
     /\ tally' = [tally EXCEPT !.raced = @ \/ skip]
     /\ UNCHANGED watching

\* FlushPrimarySelection(s): only the newest timer flushes.
Flush(s) ==
  /\ s \in timers
  /\ timers' = timers \ {s}
  /\ IF s = seq /\ pending # None
       THEN /\ Push(pending)
            /\ pending' = None
            /\ IF conf.sync THEN WriteSelection ELSE UNCHANGED << watching, skip, tally >>
       ELSE UNCHANGED << buffer, watching, pending, skip, tally >>
  /\ UNCHANGED << seq, latest, sensitive, history, conf >>

\* SelectionSearch, ClosePopup and ClearSelections
UseSelections ==
  /\ ClearSelections \/ \E q \in Searches \cup {None} : SelectionSearch(q)
  /\ UNCHANGED << watching, debounce, skip, sensitive, history, conf, tally >>

\* Config and ChangeConfig
ChangeConfig ==
  /\ tally.toggles < MaxToggles
  /\ tally' = [tally EXCEPT !.toggles = @ + 1]
  /\ \/ /\ PrivateMode
        /\ conf' = [conf EXCEPT !.private = ~@] /\ UNCHANGED buffer
     \/ conf' = [conf EXCEPT !.enabled = ~@] /\ UNCHANGED buffer
     \/ conf' = [conf EXCEPT !.sync = ~@] /\ UNCHANGED buffer
     \/ /\ \E n \in Limits \ {max_entries} : SetMax(n)
        /\ UNCHANGED conf
  /\ UNCHANGED << watching, debounce, skip, sensitive, history >>

Next ==
  \/ \E text \in Text, secret \in BOOLEAN : UserCopies(text, secret)
  \/ SourceCloses
  \/ Watch \/ SpuriousWake
  \/ ClipboardData
  \/ EmptyKeyboard
  \/ \E text \in history : Pick(text)
  \/ \E id \in 1 .. next_id : SelectionCopy(id)
  \/ \E text \in Text : PrimaryEvent(text)
  \/ \E s \in timers : Flush(s)
  \/ UseSelections
  \/ ChangeConfig

Spec == SyncInit /\ [][Next]_vars

\* The watcher thread runs, the UI thread takes the queued messages, and the
\* runtime fires every timer.
Fairness ==
  /\ WF_vars(Watch)
  /\ WF_vars(ClipboardData)
  /\ WF_vars(EmptyKeyboard)
  /\ WF_vars(\E s \in timers : Flush(s))

FairSpec == Spec /\ Fairness

-----------------------------------------------------------------------------
(* Properties.  tally counts, for the statements below: copied and cleared *)
(* (copies), selections written to the clipboard (synced), copies of the   *)
(* user that the flag made the applet drop (lost), selections that came    *)
(* back into the history (leaked); raced says that two changes of the      *)
(* clipboard overlapped while one was a written selection, or that private *)
(* mode dropped one while the flag was up; hidden, that private mode       *)
(* dropped one.                                                            *)

\* The types of all variables.
TypeOK ==
  /\ BufferTypeOK
  /\ clip \in Clip \cup {None} /\ unread \in BOOLEAN
  /\ events \in Seq(Clip \cup {None}) /\ Len(events) <= MaxQueue
  /\ {skip, sensitive} \subseteq BOOLEAN
  /\ history \subseteq Text
  /\ {pending, latest} \subseteq Text \cup {None}
  /\ seq \in 0 .. MaxSelects /\ timers \subseteq 1 .. seq
  /\ conf \in [private : BOOLEAN, enabled : BOOLEAN, sync : BOOLEAN]

\* A selected text waits for exactly one timer, the one of the last event of
\* a burst: it is neither flushed before 300 ms of silence nor forgotten, and
\* what waits is the last text of the burst.
WaitsForLast ==
  /\ pending # None <=> seq \in timers
  /\ pending # None => pending = latest

\* However they overlap, a written selection costs the user at most one copy.
LossBounded == tally.lost <= tally.synced

\* Unless changes of the clipboard overlap (raced), the flag hides the echo of a
\* written selection and nothing else, and is down again when it has; the last
\* thing copied is then in the history once the applet has caught up, if it was
\* no password and private mode was off.
SkipsOnlyEcho ==
  ~tally.raced =>
    /\ tally.lost = 0 /\ tally.leaked = 0
    /\ Quiet => ~skip
    /\ Quiet /\ ~tally.hidden /\ clip # None /\ clip.by = "user" /\ ~clip.secret =>
         clip.text \in history

\* The applet's own writes do not keep the watcher and the handlers busy for
\* ever, and every selection is flushed.
Settles == <>[](Quiet /\ pending = None)
=============================================================================
