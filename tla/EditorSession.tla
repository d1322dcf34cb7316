--------------------------- MODULE EditorSession ---------------------------
(***************************************************************************)
(* The editor: a child process of the applet, one session after another,   *)
(* and the handlers of the applet that start it, tell it to close and act  *)
(* on what it saves (src/src/app.rs, editor_app.rs, editor_ipc.rs).        *)
(*                                                                         *)
(* A frame goes from the editor's pipe through a reader thread and the     *)
(* stream of the session's subscription into the message queue of the      *)
(* applet.  After the messages at hand have been handled iced compares     *)
(* the subscriptions with AppState.editor: only then does the stream of    *)
(* an editor that is gone end, and that of a new one start.  A message     *)
(* does not say which session it is of, and one that is in the queue when  *)
(* its stream ends stays there.                                            *)
(***************************************************************************)
EXTENDS StoreOps

CONSTANTS
  Blank,        \* a text that trims to nothing: may be saved, is never stored
  MaxCopies,    \* bound on the copies other programs make
  MaxSessions   \* bound on the editors opened

ASSUME EditorAssumption ==
  /\ Blank \notin Content
  /\ MaxCopies \in Nat /\ MaxSessions \in Nat

\* What AppState.editor holds if not None.
Editors == [session : Nat, entry_id : Nat]

ASSUME NoEditorAssumption == None \notin Editors

VARIABLES
  db,       \* AppState.db
  clock,    \* the last reading of the system clock
  editor,   \* AppState.editor: [session, entry_id], None without an editor
  procs,    \* the editor processes, by session
  stream,   \* the session whose stream iced runs, or None
  queue,    \* messages the streams handed to the applet, not yet handled
  waiting,  \* the session whose process the UI thread waits for, or None
  up        \* FALSE once the applet is exiting

vars == << db, clock, editor, procs, stream, queue, waiting, up >>

Live == DOMAIN db.entries
Sessions == DOMAIN procs
Texts == Content \cup {Blank}

Init ==
  /\ db = EmptyStore
  /\ clock = 0
  /\ editor = None
  /\ procs = << >>
  /\ stream = None
  /\ queue = << >>
  /\ waiting = None
  /\ up = TRUE

Attached(s) == editor # None /\ editor.session = s

\* The UI thread is free to handle a message.
Free == up /\ waiting = None /\ ~db.panicked

-----------------------------------------------------------------------------
(* Other handlers that change the history while an editor is open.  Only   *)
(* the deletion of the entry being edited tells the editor.                *)

Copy(c) ==
  /\ Free
  /\ clock < MaxCopies
  /\ db' = InsertToMemory(db, c, clock + 1).db
  /\ clock' = clock + 1
  /\ UNCHANGED << editor, procs, stream, queue, waiting, up >>

ClearHistory ==
  /\ Free
  /\ db' = ClearMemory(db).db
  /\ UNCHANGED << clock, editor, procs, stream, queue, waiting, up >>

\* A favorite is added without a title, or removed.
ToggleFavorite(id) ==
  /\ Free
  /\ id \in Live
  /\ db' = IF IsFavorite(db, id) THEN RemoveFavoriteFromMemory(db, id).db
           ELSE AddFavoriteToMemory(db, id).db
  /\ UNCHANGED << clock, editor, procs, stream, queue, waiting, up >>

\* EntryDeleted and CloseRequested: the editor closes without saving when it
\* reads either.  Writing to an editor that is gone fails and changes nothing.
Told(s) == [procs EXCEPT ![s].told = TRUE]

\* ContextMenu(Delete)
DeleteEntry(id) ==
  /\ Free
  /\ id \in Live
  /\ procs' = IF editor # None /\ editor.entry_id = id THEN Told(editor.session) ELSE procs
  /\ db' = DeleteFromMemory(db, id).db
  /\ UNCHANGED << clock, editor, stream, queue, waiting, up >>

-----------------------------------------------------------------------------
(* Starting and ending a session                                           *)

\* What the Init frame tells a new process, and what it has written since.
Started(id) ==
  [entry |-> id, original |-> db.entries[id].content,
   is_favorite |-> IsFavorite(db, id),
   alive |-> TRUE, told |-> FALSE, frames |-> << >>, eof |-> FALSE]

\* Seeded bug: the session of the editor before is kept.
OpenEditorOffByOne(id) ==
  /\ Len(procs) < MaxSessions
  /\ procs' = Append(procs, Started(id))
  /\ editor' = [session |-> Len(procs), entry_id |-> id]
  /\ UNCHANGED << db, clock, stream, queue, waiting, up >>

\* Seeded bug: the previous editor is forgotten and never told.
OpenEditorSilently(id) ==
  /\ Len(procs) < MaxSessions
  /\ procs' = Append(procs, Started(id))
  /\ editor' = [session |-> Len(procs) + 1, entry_id |-> id]
  /\ UNCHANGED << db, clock, stream, queue, waiting, up >>

\* open_editor_process: the previous editor is told to close and forgotten,
\* and nothing replaces it when the pipe or the process cannot be created.
OpenEditor(id) ==
  LET others == IF editor = None THEN procs ELSE Told(editor.session)
  IN  /\ Len(procs) < MaxSessions
      /\ \/ /\ procs' = Append(others, Started(id))
            /\ editor' = [session |-> Len(procs) + 1, entry_id |-> id]
         \/ /\ procs' = others
            /\ editor' = None
      /\ UNCHANGED << db, clock, stream, queue, waiting, up >>

\* ContextMenu(Edit), from the list or over D-Bus.
Edit(id) ==
  /\ Free
  /\ id \in Live
  /\ OpenEditor(id)

\* EditLatest, over D-Bus.
EditLatest ==
  /\ Free
  /\ NewestId(db) \in Live
  /\ OpenEditor(NewestId(db))

\* child.wait(): returns at once when the process of session s has ended.
Await(s) == waiting' = IF procs[s].alive THEN s ELSE None

\* on_app_exit: what is in the queue, or in the streams, is lost with the applet.
ExitApplet ==
  /\ Free
  /\ up' = FALSE
  /\ editor' = None /\ stream' = None /\ queue' = << >>
  /\ IF editor = None THEN UNCHANGED << procs, waiting >>
     ELSE /\ procs' = Told(editor.session)
          /\ Await(editor.session)
  /\ UNCHANGED << db, clock >>

-----------------------------------------------------------------------------
(* The editor process                                                      *)

Frame(type, text) == [type |-> type, content |-> text]

\* Its window, and what that held, is gone.
Exits(s, frames) ==
  procs' = [procs EXCEPT ![s].alive = FALSE, ![s].original = Blank,
                         ![s].is_favorite = FALSE, ![s].frames = frames]

\* What save_and_exit sends when the window holds text.
Saved(s, text) ==
  IF text = procs[s].original THEN Frame("Closed", Blank)
  ELSE Frame(IF procs[s].is_favorite THEN "UpdateExisting" ELSE "SaveAsNew", text)

\* CloseWindow, whatever was typed before.
CloseWindow(s, text) ==
  /\ procs[s].alive
  /\ Exits(s, << Saved(s, text) >>)
  /\ UNCHANGED << db, clock, editor, stream, queue, waiting, up >>

\* IpcMessage: EntryDeleted or CloseRequested has been read.
ObeyApplet(s) ==
  /\ procs[s].alive /\ procs[s].told
  /\ Exits(s, << Frame("Closed", Blank) >>)
  /\ UNCHANGED << db, clock, editor, stream, queue, waiting, up >>

\* The process ends without a word: no window, no Init frame, a kill, or a text
\* of more than 64 MiB, which the reader thread refuses.
EditorDies(s) ==
  /\ procs[s].alive
  /\ Exits(s, << >>)
  /\ UNCHANGED << db, clock, editor, stream, queue, waiting, up >>

-----------------------------------------------------------------------------
(* From the pipe to the handlers                                           *)

\* by is not in the code: it says whose message it is.
Message(s, frame) == [by |-> s, type |-> frame.type, content |-> frame.content]

ForwardFrame(s) ==
  /\ procs[s].frames # << >>
  /\ queue' = Append(queue, Message(s, Head(procs[s].frames)))
  /\ procs' = [procs EXCEPT ![s].frames = Tail(@)]

ForwardExit(s) ==
  /\ ~procs[s].alive /\ procs[s].frames = << >> /\ ~procs[s].eof
  /\ queue' = Append(queue, Message(s, Frame("EditorProcessExited", Blank)))
  /\ procs' = [procs EXCEPT ![s].eof = TRUE]

\* Seeded bug: a pipe that is empty is taken for one that has ended.
ForwardExitEarly(s) ==
  /\ up /\ stream = s
  /\ \/ ForwardFrame(s)
     \/ /\ procs[s].frames = << >> /\ ~procs[s].eof
        /\ queue' = Append(queue, Message(s, Frame("EditorProcessExited", Blank)))
        /\ procs' = [procs EXCEPT ![s].eof = TRUE]
  /\ UNCHANGED << db, clock, editor, stream, waiting, up >>

\* Seeded bug: the end of the process overtakes its last frame.
ForwardExitFirst(s) ==
  /\ up /\ stream = s
  /\ \/ ~procs[s].alive /\ ~procs[s].eof
        /\ queue' = Append(queue, Message(s, Frame("EditorProcessExited", Blank)))
        /\ procs' = [procs EXCEPT ![s].eof = TRUE]
     \/ procs[s].eof /\ ForwardFrame(s)
  /\ UNCHANGED << db, clock, editor, stream, waiting, up >>

\* Seeded bug: the end of the process is never reported.
ForwardFramesOnly(s) ==
  /\ up /\ stream = s
  /\ ForwardFrame(s)
  /\ UNCHANGED << db, clock, editor, stream, waiting, up >>

\* Once a batch of messages has been handled iced ends the stream of an editor
\* that is no longer there and starts that of the current one (subscription).
Retrack ==
  /\ Free
  /\ stream' = IF editor = None THEN None ELSE editor.session
  /\ stream' # stream
  /\ UNCHANGED << db, clock, editor, procs, queue, waiting, up >>

\* The session's stream hands on a frame or, at the end of the pipe, that the
\* process has exited.
Forward(s) ==
  /\ up /\ stream = s
  /\ ForwardFrame(s) \/ ForwardExit(s)
  /\ UNCHANGED << db, clock, editor, stream, waiting, up >>

\* The entry of whichever session is current is deleted.
DeleteEdited ==
  /\ db' = IF editor = None THEN db ELSE DeleteFromMemory(db, editor.entry_id).db
  /\ UNCHANGED clock

SaveAsNew(text) ==
  IF text = Blank THEN DeleteEdited
  ELSE /\ db' = InsertToMemory(db, text, clock + 1).db
       /\ clock' = clock + 1

\* Seeded bug: an update whose editor is gone is saved as a new entry.
UpdateOrInsert(text) ==
  IF text = Blank THEN DeleteEdited
  ELSE IF editor = None THEN /\ db' = InsertToMemory(db, text, clock + 1).db
                             /\ clock' = clock + 1
  ELSE /\ db' = IF TakenByOther(db, editor.entry_id, text)
                  THEN MergeIntoOther(db, editor.entry_id, text, clock + 1)
                  ELSE UpdateContentInMemory(db, editor.entry_id, text, clock + 1).db
       /\ clock' = clock + 1

UpdateExisting(text) ==
  IF text = Blank THEN DeleteEdited
  ELSE IF editor = None THEN UNCHANGED << db, clock >>
  ELSE /\ db' = IF TakenByOther(db, editor.entry_id, text)
                  THEN MergeIntoOther(db, editor.entry_id, text, clock + 1)
                  ELSE UpdateContentInMemory(db, editor.entry_id, text, clock + 1).db
       /\ clock' = clock + 1

\* EditorEvent
EditorEvent ==
  /\ Free
  /\ queue # << >> /\ queue' = Tail(queue)
  /\ UNCHANGED << editor, procs, stream, waiting, up >>
  /\ LET m == Head(queue)
     IN  \/ m.type = "SaveAsNew" /\ SaveAsNew(m.content)
         \/ m.type = "UpdateExisting" /\ UpdateExisting(m.content)
         \/ m.type = "Closed" /\ UNCHANGED << db, clock >>

\* EditorProcessExited: whatever editor is current is forgotten, after a wait
\* for the end of its process.
EditorProcessExited ==
  /\ Free
  /\ queue # << >> /\ Head(queue).type = "EditorProcessExited"
  /\ queue' = Tail(queue)
  /\ editor' = None
  /\ IF editor = None THEN UNCHANGED waiting ELSE Await(editor.session)
  /\ UNCHANGED << db, clock, procs, stream, up >>

\* child.wait() returns.
WaitEnds ==
  /\ waiting # None
  /\ ~procs[waiting].alive
  /\ waiting' = None
  /\ UNCHANGED << db, clock, editor, procs, stream, queue, up >>

-----------------------------------------------------------------------------
\* What the UI thread does next, if not the work of another handler.
UiThread == WaitEnds \/ Retrack \/ EditorProcessExited \/ EditorEvent

Next ==
  \/ \E c \in Content : Copy(c)
  \/ \E id \in Live : Edit(id) \/ DeleteEntry(id) \/ ToggleFavorite(id)
  \/ \E s \in Sessions : ObeyApplet(s) \/ EditorDies(s) \/ Forward(s)
  \/ \E s \in Sessions, text \in Texts : CloseWindow(s, text)
  \/ ClearHistory
  \/ EditLatest
  \/ ExitApplet
  \/ UiThread

Spec == Init /\ [][Next]_vars

\* The stream runs, editors read their pipes, and the UI thread handles what is queued,
\* compares the subscriptions and returns from a wait for a process that has ended.
\* Nothing is assumed of the user, who may leave an editor open for ever.
Fairness ==
  /\ WF_vars(\E s \in Sessions : Forward(s))
  /\ WF_vars(\E s \in Sessions : ObeyApplet(s))
  /\ WF_vars(UiThread)

FairSpec == Spec /\ Fairness

-----------------------------------------------------------------------------
Frames == [type : {"SaveAsNew", "UpdateExisting", "Closed", "EditorProcessExited"},
           content : Texts]

\* Sessions, frames and queued messages have their types.
TypeOK ==
  /\ clock \in 0 .. MaxCopies + MaxSessions
  /\ editor \in [session : Sessions, entry_id : 1 .. clock] \cup {None}
  /\ procs \in Seq([entry : 1 .. clock, original : Texts, is_favorite : BOOLEAN,
                    alive : BOOLEAN, told : BOOLEAN, frames : Seq(Frames), eof : BOOLEAN])
  /\ stream \in Sessions \cup {None}
  /\ \A i \in DOMAIN queue :
       /\ queue[i].by \in Sessions
       /\ Frame(queue[i].type, queue[i].content) \in Frames
  /\ waiting \in Sessions \cup {None}
  /\ up \in BOOLEAN

\* No editor process is left behind: one that runs is the current one, has
\* been told to close, or holds up the UI thread, which waits for its end.
NoOrphan ==
  \A s \in Sessions : procs[s].alive => Attached(s) \/ procs[s].told \/ waiting = s

Handles(m) == queue # << >> /\ m = Head(queue) /\ queue' = Tail(queue) /\ up'

\* A message is late when the editor it came from has been replaced since.
Late(m) == editor # None /\ m.by < editor.session

\* The UI thread begins to wait for a process that still runs when the applet exits,
\* and in one case besides: the late end of an earlier editor is taken for that
\* of the current one, and the applet hangs until the user closes its window.
NeverHangs ==
  [][up' /\ waiting' \notin {waiting, None}
       => waiting' = editor.session /\ Late(Head(queue))]_vars

\* An update, or an emptied text, changes or removes the entry its editor was
\* opened on and no other, however the history changed in between; a late one,
\* no entry but that of the editor that is current by then; one whose editor is
\* gone and has no successor, nothing.
EditsOwnEntry ==
  [][\A i \in DOMAIN queue :
       /\ Handles(queue[i])
       /\ queue[i].type = "UpdateExisting" \/ queue[i].content = Blank
       => \A id \in Live :
            \/ Attached(queue[i].by) /\ id = procs[queue[i].by].entry
            \/ Late(queue[i]) /\ id = procs[editor.session].entry
            \/ id \in DOMAIN db'.entries
               /\ db'.entries[id].content = db.entries[id].content]_vars

\* Every entry is a favorite and the limit is reached: a new one is evicted at once.
FullOfFavorites ==
  /\ MaxEntries # None /\ Cardinality(Live) >= MaxEntries
  /\ \A id \in Live : db.entries[id].is_favorite

\* What session s wrote has all been handled.
Heard(s) == procs[s].frames = << >> /\ \A i \in DOMAIN queue : queue[i].by # s

\* A text that was saved is in the history, on top, once its message has been
\* handled, unless favorites fill the history, or it was an update whose entry or
\* editor is gone, or an earlier such update left a hash without entry on which
\* the handler panics.  And an editor is not gone before all it wrote has been
\* handled, unless another is to replace it, the applet exits, or the late end of
\* an earlier one is taken for its own.
SaveLands ==
  [][/\ ~db'.panicked => \A i \in DOMAIN queue :
          /\ Handles(queue[i]) /\ queue[i].content # Blank
          /\ \/ queue[i].type = "SaveAsNew" /\ ~FullOfFavorites
             \/ /\ queue[i].type = "UpdateExisting"
                /\ Attached(queue[i].by) /\ procs[queue[i].by].entry \in Live
          => /\ NewestId(db') # None
             /\ Hash[db'.entries[NewestId(db')].content] = Hash[queue[i].content]
     /\ \A s \in Sessions :
          Attached(s) /\ ~Attached(s)'
          => procs'[s].told \/ Heard(s)' \/ (Handles(Head(queue)) /\ Late(Head(queue)))]_vars

\* Session s has ended and will not be heard of again.
Retired(s) ==
  /\ s \in Sessions
  /\ ~procs[s].alive /\ ~Attached(s) /\ stream # s
  /\ \A i \in DOMAIN queue : queue[i].by # s

\* The UI thread waits for the user to close a window.
Hangs == waiting # None

\* An editor that was told to close, or has exited, is soon forgotten for good, and
\* what it saved has been handled if it still was the current one, as long as the
\* user closes every window the UI thread waits for.  (Told or ended once, it is so
\* for ever; "again and again" is then "in the end".)
Retires ==
  []<>~Hangs =>
    \A s \in 1 .. MaxSessions :
      []<>(s \in Sessions /\ (procs[s].told \/ ~procs[s].alive)
             => Retired(s) \/ ~up \/ db.panicked)
=============================================================================
