--------------------------- MODULE FavoritesWindow ---------------------------
(***************************************************************************)
(* The window of favorites, a process of its own that knows the applet     *)
(* only by D-Bus (src/src/favorites_app.rs, src/src/ipc.rs).               *)
(*                                                                         *)
(* Each call is a task with a connection of its own, so calls reach the    *)
(* applet's D-Bus service in any order; the service puts them in a bounded *)
(* queue that the applet takes messages from.  A call that only tells      *)
(* something returns when it is queued, one that asks when the applet has  *)
(* replied, and each gives up after five seconds, not knowing whether it   *)
(* will still be carried out.  The window changes its own list at once.    *)
(***************************************************************************)
EXTENDS StoreOps

CONSTANTS
  Copies,       \* the contents in the history, all favorites, oldest first
  Capacity,     \* messages that fit between the service and the applet
  MaxCalls,     \* bound on the calls
  MaxEdits,     \* bound on the titles the user starts to edit
  MaxFaults     \* bound on the calls that give up and on changes by others

ASSUME WindowAssumption ==
  /\ Copies \in Seq(Content)
  /\ \A i, j \in DOMAIN Copies : Hash[Copies[i]] = Hash[Copies[j]] => i = j
  /\ Capacity \in Nat \ {0}
  /\ {MaxCalls, MaxEdits, MaxFaults} \subseteq Nat

VARIABLES
  db,          \* the applet's AppState.db
  inbox,       \* calls queued for the applet
  calls,       \* calls under way
  entries,     \* FavoritesApp.entries: the title shown for each id
  title_edit,  \* FavoritesApp.title_edit, or None
  asked,       \* how many suggestions for an id are still to come
  open,        \* does the process run?
  issued, edits, faults,  \* calls, edits begun and faults so far
  apart        \* may the window differ from the applet when all is quiet?

service == << db, inbox >>
counts == << edits, faults >>
vars == << service, calls, entries, title_edit, asked, open, issued, counts, apart >>

Ids == DOMAIN Copies

\* A text that says what entry it was written for and whether by the user or the AI.
Text(id, by) == [of |-> id, by |-> by]
TextsOf(id) == {None} \cup {Text(id, by) : by \in {"user", "ai"}}

\* A history whose entries were all starred, without titles.
Starred ==
  [EmptyStore EXCEPT
     !.entries = [id \in Ids |-> [NewEntry(Copies[id], id) EXCEPT !.is_favorite = TRUE]],
     !.hashs = [h \in {Hash[Copies[id]] : id \in Ids} |->
                  CHOOSE id \in Ids : Hash[Copies[id]] = h],
     !.times = [id \in Ids |-> id],
     !.favs = [id \in Ids |-> id],
     !.favSet = Ids,
     !.titles = [id \in Ids |-> None]]

\* What DbusListFavorites replies: the title of each favorite.
Favorites(st) ==
  [id \in {i \in DOMAIN st.entries : st.entries[i].is_favorite} |->
     st.entries[id].favorite_title]

-----------------------------------------------------------------------------
(* Calls                                                                   *)

\* What tells the calls apart, and a call from its reply.
FreshNumber == CHOOSE n \in 1 .. MaxCalls : \A c \in calls \cup Range(inbox) : c.n # n

\* A call on its own connection; reply is for List.
Call(kind, id, title) ==
  [n |-> FreshNumber, kind |-> kind, id |-> id, title |-> title,
   at |-> "bus", awaited |-> TRUE, reply |-> Empty]

\* Can a call issued now overtake or be overtaken by one of cs?
Crosses(cs) == \E c \in cs : c.at = "bus" \/ c.kind = "List"

\* A task makes a call while cs are under way; a list asked for when nothing
\* can cross it brings window and applet together.
Issue(cs, kind, id, title, differ) ==
  /\ issued < MaxCalls
  /\ issued' = issued + 1
  /\ calls' = cs \cup {Call(kind, id, title)}
  /\ apart' = (Crosses(cs) \/ (differ /\ kind # "List"))

Init ==
  /\ db = Starred /\ inbox = << >>
  /\ entries = Empty /\ title_edit = None /\ asked = [id \in Ids |-> 0]
  /\ open = FALSE /\ calls = {} /\ issued = 0
  /\ edits = 0 /\ faults = 0 /\ apart = FALSE

\* A new process: FavoritesApp::init.
OpenWindow ==
  /\ ~open /\ open' = TRUE
  /\ Issue(calls, "List", None, None, apart)
  /\ entries' = Empty /\ title_edit' = None
  /\ UNCHANGED << service, asked, counts >>

-----------------------------------------------------------------------------
(* Editing a title                                                         *)

Edited(id) == title_edit # None /\ title_edit.entry_id = id

Unsaved == title_edit # None /\ title_edit.input # title_edit.original_title

\* save_title_edit, but for what becomes of title_edit, by a task that leaves
\* the calls cs under way.
SaveTitleEdit(cs, differ) ==
  IF Unsaved
    THEN /\ entries' = [id \in DOMAIN entries |->
                          IF id = title_edit.entry_id THEN title_edit.input ELSE entries[id]]
         /\ Issue(cs, "Set", title_edit.entry_id, title_edit.input, differ)
  ELSE calls' = cs /\ apart' = differ /\ UNCHANGED << entries, issued >>

\* CommitTitle, and Enter.
CommitTitle ==
  /\ open /\ title_edit # None
  /\ SaveTitleEdit(calls, apart) /\ title_edit' = None
  /\ UNCHANGED << service, asked, open, counts >>

\* Seeded bug: the text of the edit before stays in the field.
EditingOnTop(id) ==
  [entry_id |-> id, input |-> IF title_edit = None THEN entries[id] ELSE title_edit.input,
   suggestion |-> None, original_title |-> entries[id]]

Editing(id) ==
  [entry_id |-> id, input |-> entries[id],
   suggestion |-> None, original_title |-> entries[id]]

\* BeginTitleEdit by a click on the title of an entry that is not being edited.
BeginTitleEdit(id) ==
  /\ open /\ id \in DOMAIN entries
  /\ ~Edited(id)
  /\ edits < MaxEdits /\ edits' = edits + 1
  /\ SaveTitleEdit(calls, apart)
  /\ title_edit' = Editing(id)
  /\ asked' = [asked EXCEPT ![id] = @ + 1]
  /\ UNCHANGED << service, open, faults >>

\* TitleInput, which carries no id.  The field is in the row that is edited, and
\* has lost the keyboard before a click begins another edit.
TitleInput(text) ==
  /\ open /\ title_edit # None /\ title_edit.entry_id \in DOMAIN entries
  /\ title_edit' = [title_edit EXCEPT !.input = text]
  /\ UNCHANGED << service, calls, entries, asked, open, issued, counts, apart >>

\* Seeded bug: whatever is being edited takes the suggestion.
TitleSuggestedForAny(id, suggestion) ==
  /\ open /\ asked[id] > 0
  /\ asked' = [asked EXCEPT ![id] = @ - 1]
  /\ title_edit' =
       IF title_edit = None THEN None
       ELSE [title_edit EXCEPT !.suggestion = IF title_edit.input = None THEN suggestion ELSE @]
  /\ UNCHANGED << service, calls, entries, open, issued, counts, apart >>

\* TitleSuggested
TitleSuggested(id, suggestion) ==
  /\ open /\ asked[id] > 0
  /\ asked' = [asked EXCEPT ![id] = @ - 1]
  /\ title_edit' =
       IF ~Edited(id) THEN title_edit
       ELSE [title_edit EXCEPT !.suggestion = IF title_edit.input = None THEN suggestion ELSE @]
  /\ UNCHANGED << service, calls, entries, open, issued, counts, apart >>

\* KeyEvent(Tab), KeyEvent(ArrowRight)
AcceptSuggestion ==
  /\ open /\ title_edit # None
  /\ title_edit.suggestion # None /\ title_edit.input = None
  /\ title_edit' = [title_edit EXCEPT !.input = title_edit.suggestion, !.suggestion = None]
  /\ UNCHANGED << service, calls, entries, asked, open, issued, counts, apart >>

\* KeyEvent(Escape)
CancelTitleEdit ==
  /\ open /\ title_edit # None /\ title_edit' = None
  /\ UNCHANGED << service, calls, entries, asked, open, issued, counts, apart >>

-----------------------------------------------------------------------------
(* The other buttons of a row.  Which entry is opened in the editor or      *)
(* copied makes no difference here.                                        *)

\* Unfavorite
Unfavorite(id) ==
  /\ open /\ id \in DOMAIN entries
  /\ entries' = Drop(entries, {id})
  /\ Issue(calls, "Remove", id, None, apart)
  /\ UNCHANGED << service, title_edit, asked, open, counts >>

\* Edit
Edit(id) ==
  /\ open /\ id \in DOMAIN entries
  /\ Issue(calls, "Edit", None, None, apart)
  /\ UNCHANGED << service, entries, title_edit, asked, open, counts >>

\* Copy saves the title that is being edited, if one is, instead.
Copy(id) ==
  /\ open /\ id \in DOMAIN entries
  /\ IF title_edit # None
       THEN SaveTitleEdit(calls, apart) /\ title_edit' = None
     ELSE /\ Issue(calls, "Copy", None, None, apart) /\ UNCHANGED << entries, title_edit >>
  /\ UNCHANGED << service, asked, open, counts >>

\* CloseWindow, by the user or 200 ms after Copy, ends the process with its
\* tasks: what has not left it never will.
CloseWindow ==
  /\ open /\ open' = FALSE
  /\ \E sent \in SUBSET {c \in calls : c.at = "bus"} :
       calls' = {[c EXCEPT !.awaited = FALSE] : c \in sent}
  /\ entries' = Empty /\ title_edit' = None /\ asked' = [id \in Ids |-> 0]
  /\ UNCHANGED << service, issued, counts, apart >>

-----------------------------------------------------------------------------
(* The service and the applet                                              *)

\* Seeded bug: a call that nobody waits for keeps its task.
WaitingAlways(c) ==
  {[c EXCEPT !.id = None, !.title = None,
             !.at = IF c.kind \in {"List", "Copy"} THEN "queued" ELSE "done"]}

\* What is left of a call that was delivered: a task that waits for the
\* service's reply to say that it was, or for the applet's.
Waiting(c) ==
  IF ~c.awaited THEN {}
  ELSE {[c EXCEPT !.id = None, !.title = None,
                  !.at = IF c.kind \in {"List", "Copy"} THEN "queued" ELSE "done"]}

\* Seeded bug: a call that finds the queue full is dropped.
AcceptOrDrop(c) ==
  /\ c \in calls /\ c.at = "bus"
  /\ inbox' = IF Len(inbox) < Capacity THEN Append(inbox, c) ELSE inbox
  /\ calls' = (calls \ {c}) \cup Waiting(c)
  /\ UNCHANGED << db, entries, title_edit, asked, open, issued, counts, apart >>

\* A method of ClipboardService puts its command in the queue.
Accept(c) ==
  /\ c \in calls /\ c.at = "bus" /\ Len(inbox) < Capacity
  /\ inbox' = Append(inbox, c)
  /\ calls' = (calls \ {c}) \cup Waiting(c)
  /\ UNCHANGED << db, entries, title_edit, asked, open, issued, counts, apart >>

\* The applet's handler of the oldest queued call.
HandleCall ==
  /\ inbox # << >> /\ inbox' = Tail(inbox)
  /\ LET c == Head(inbox)
         answered == {q \in calls : q.n = c.n /\ q.at = "queued"}
     IN  /\ db' = CASE c.kind = "Set" -> SetFavoriteTitleInMemory(db, c.id, c.title).db
                    [] c.kind = "Remove" -> RemoveFavoriteFromMemory(db, c.id).db
                    [] OTHER -> db
         /\ calls' = (calls \ answered) \cup
              {[q EXCEPT !.at = "done",
                         !.reply = IF c.kind = "List" THEN Favorites(db) ELSE Empty]
                 : q \in answered}
  /\ UNCHANGED << entries, title_edit, asked, open, issued, counts, apart >>

\* The popup, another window or the command line changes a favorite.
OtherChange ==
  /\ faults < MaxFaults /\ faults' = faults + 1
  /\ \E id \in DOMAIN Favorites(db) :
       \/ db' = SetFavoriteTitleInMemory(db, id, Text(id, "user")).db
       \/ db' = RemoveFavoriteFromMemory(db, id).db
       \/ db' = DeleteFromMemory(db, id).db
  /\ apart' = TRUE
  /\ UNCHANGED << inbox, calls, entries, title_edit, asked, open, issued, edits >>

-----------------------------------------------------------------------------
(* A task of the window ends                                               *)

\* The message a task posts when its call c ended: Loaded, CommitTitle after a
\* title or a removal, EditDone one second after the editor was asked for.
\* list is what Loaded carries, rest what is still under way.
Ends(c, rest, list, differ) ==
  CASE c.kind = "List" -> /\ entries' = list
                          /\ calls' = rest /\ apart' = differ /\ UNCHANGED << title_edit, issued >>
    [] c.kind = "Edit" -> /\ Issue(rest, "List", None, None, differ)
                          /\ UNCHANGED << entries, title_edit >>
    [] c.kind \in {"Set", "Remove"} ->
         /\ SaveTitleEdit(rest, differ) /\ title_edit' = None
    [] OTHER -> /\ calls' = rest /\ apart' = differ /\ UNCHANGED << entries, title_edit, issued >>

Returned(c) ==
  /\ c \in calls /\ c.at = "done" /\ c.awaited
  /\ Ends(c, calls \ {c}, c.reply, apart)
  /\ UNCHANGED << service, asked, open, counts >>

\* Five seconds are over (the blocking call of Copy has no limit); the call may
\* be on its way all the same.
GivesUp(c) ==
  /\ c \in calls /\ c.awaited /\ c.kind # "Copy"
  /\ faults < MaxFaults /\ faults' = faults + 1
  /\ \E sent \in SUBSET (IF c.at = "bus" THEN {[c EXCEPT !.awaited = FALSE]} ELSE {}) :
       Ends(c, (calls \ {c}) \cup sent, Empty, TRUE)
  /\ UNCHANGED << service, asked, open, edits >>

Next ==
  \/ OpenWindow \/ CloseWindow
  \/ CommitTitle \/ AcceptSuggestion \/ CancelTitleEdit
  \/ \E id \in Ids : \/ BeginTitleEdit(id) \/ Unfavorite(id) \/ Edit(id) \/ Copy(id)
                     \/ \E s \in {None, Text(id, "ai")} : TitleSuggested(id, s)
  \/ title_edit # None /\ \E t \in {None, Text(title_edit.entry_id, "user")} : TitleInput(t)
  \/ \E c \in calls : Accept(c) \/ Returned(c) \/ GivesUp(c)
  \/ HandleCall
  \/ OtherChange

Spec == Init /\ [][Next]_vars

-----------------------------------------------------------------------------
AllTexts == {None} \cup UNION {TextsOf(id) : id \in Ids}

IsList(f) == DOMAIN f \subseteq Ids /\ \A id \in DOMAIN f : f[id] \in AllTexts

CallOK(c) ==
  /\ DOMAIN c = {"n", "kind", "id", "title", "at", "awaited", "reply"}
  /\ c.n \in 1 .. MaxCalls /\ c.kind \in {"List", "Set", "Remove", "Edit", "Copy"}
  /\ c.at = "bus" /\ c.kind \in {"Set", "Remove"} => c.id \in Ids
  /\ c.title \in AllTexts /\ IsList(c.reply)
  /\ c.at \in {"bus", "queued", "done"} /\ c.awaited \in BOOLEAN

\* The state of window and service has its type; a call that nobody waits for
\* is only ever on its way to the service.
TypeOK ==
  /\ IsList(Favorites(db)) /\ ~db.panicked
  /\ \A i \in DOMAIN inbox : CallOK(inbox[i])
  /\ Len(inbox) <= Capacity
  /\ \A c \in calls : CallOK(c) /\ (c.awaited \/ c.at = "bus")
  /\ IsList(entries) /\ asked \in [Ids -> 0 .. MaxEdits] /\ open \in BOOLEAN
  /\ title_edit \in
       [entry_id : Ids, input : AllTexts, suggestion : AllTexts, original_title : AllTexts] \cup {None}
  /\ issued \in 0 .. MaxCalls /\ edits \in 0 .. MaxEdits
  /\ faults \in 0 .. MaxFaults /\ apart \in BOOLEAN

\* Once all calls are over, the window shows the applet's favorites and their
\* titles, though it changed its own list before it told the applet: unless
\* calls crossed, one gave up or somebody else changed a favorite, and then
\* again from the next time the list is asked for.
WindowAgrees ==
  open /\ calls = {} /\ inbox = << >> /\ ~apart => entries = Favorites(db)

\* No entry ever gets a text that was typed or suggested for another one, in
\* the window, in the applet or in the field, however late answers and replies
\* are and whatever is being edited by then.
OwnTitles ==
  /\ \A id \in DOMAIN db.entries : db.entries[id].favorite_title \in TextsOf(id)
  /\ \A id \in DOMAIN entries : entries[id] \in TextsOf(id)
  /\ title_edit # None =>
       {title_edit.input, title_edit.suggestion} \subseteq TextsOf(title_edit.entry_id)
=============================================================================
