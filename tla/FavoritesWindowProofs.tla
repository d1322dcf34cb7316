------------------------ MODULE FavoritesWindowProofs ------------------------
(***************************************************************************)
(* Proofs about the window of favorites, for every history, queue and      *)
(* number of calls, edits and faults.                                      *)
(*                                                                         *)
(* OwnTitles: a text passes from the field to the window's list, a call,   *)
(* the queue and the applet, and back in a reply, so the invariant OwnInv  *)
(* names the entry a text belongs to in each of these places.              *)
(*                                                                         *)
(* TypeOK: that a call has a number of its own takes counting, since the   *)
(* calls issued so far are at least the numbers in use (Numbered).         *)
(*                                                                         *)
(* WindowAgrees: the window runs ahead of the applet, so the invariant     *)
(* Agreeing says what the window's list will agree with: either a list was *)
(* asked for behind everything else, or the window's list is where the     *)
(* applet's gets by the calls that are still to be handled (Leads).        *)
(***************************************************************************)
EXTENDS FavoritesWindow, FiniteSetTheorems, TLAPS

\* A list of titles that are each of their own entry.
OwnList(f) == \A id \in DOMAIN f : f[id] \in TextsOf(id)

OwnCall(c) ==
  /\ DOMAIN c = {"n", "kind", "id", "title", "at", "awaited", "reply"}
  /\ c.title \in TextsOf(c.id)
  /\ OwnList(c.reply)

OwnEdit ==
  title_edit # None =>
    /\ {"input", "suggestion", "original_title", "entry_id"} = DOMAIN title_edit
    /\ title_edit.input \in TextsOf(title_edit.entry_id)
    /\ title_edit.suggestion \in TextsOf(title_edit.entry_id)

OwnStore(st) ==
  /\ DOMAIN st = {"entries", "hashs", "times", "favs", "favSet", "titles",
                  "query", "filtered", "panicked"}
  /\ \A id \in DOMAIN st.entries :
       /\ DOMAIN st.entries[id] = {"creation", "content", "is_favorite", "favorite_title"}
       /\ st.entries[id].favorite_title \in TextsOf(id)

OwnInv ==
  /\ OwnStore(db)
  /\ inbox \in Seq({c \in Range(inbox) : OwnCall(c)})
  /\ \A c \in calls : OwnCall(c)
  /\ OwnList(entries)
  /\ OwnEdit

-----------------------------------------------------------------------------
(* The store                                                               *)

\* A title that is of its entry keeps the store so.
LEMMA SetTitleOwn ==
  ASSUME NEW st, OwnStore(st), NEW id, NEW title \in TextsOf(id)
  PROVE  OwnStore(SetFavoriteTitleInMemory(st, id, title).db)
<1> DEFINE new == SetFavoriteTitleInMemory(st, id, title).db
           listed == [st EXCEPT !.titles = Put(@, id, title)]
<1>1. listed.entries = st.entries /\ DOMAIN listed = DOMAIN st
  BY DEF OwnStore
<1>2. CASE id \in DOMAIN st.entries
  <2>1. new = [listed EXCEPT !.entries[id].favorite_title = title]
    BY <1>2 DEF SetFavoriteTitleInMemory
  <2> HIDE DEF listed, new
  <2>2. /\ DOMAIN new = DOMAIN st
        /\ new.entries = [st.entries EXCEPT ![id].favorite_title = title]
    BY <1>1, <2>1 DEF OwnStore
  <2>3. new.entries[id] = [st.entries[id] EXCEPT !.favorite_title = title]
    BY <1>2, <2>2
  <2>4. /\ DOMAIN new.entries = DOMAIN st.entries
        /\ \A x \in DOMAIN st.entries \ {id} : new.entries[x] = st.entries[x]
    BY <2>2
  <2>5. new.entries[id].favorite_title = title /\ DOMAIN new.entries[id] = DOMAIN st.entries[id]
    BY <1>2, <2>3 DEF OwnStore
  <2> QED
    BY <1>2, <2>2, <2>4, <2>5 DEF OwnStore, new
<1>3. CASE id \notin DOMAIN st.entries
  <2>1. new = listed
    BY <1>3 DEF SetFavoriteTitleInMemory
  <2> QED
    BY <1>1, <2>1 DEF OwnStore
<1> QED
  BY <1>2, <1>3

\* Unstarring clears the title.
LEMMA RemoveOwn ==
  ASSUME NEW st, OwnStore(st), NEW id
  PROVE  OwnStore(RemoveFavoriteFromMemory(st, id).db)
<1> DEFINE new == RemoveFavoriteFromMemory(st, id).db
           left == FavRemove(st, id)
<1>1. left.entries = st.entries /\ DOMAIN left = DOMAIN st
  BY DEF OwnStore, FavRemove
<1>2. new = Mark(left, id, FALSE, None)
  BY DEF RemoveFavoriteFromMemory
<1>3. CASE id \in DOMAIN st.entries
  <2>1. new = [left EXCEPT !.entries[id].is_favorite = FALSE,
                           !.entries[id].favorite_title = None]
    BY <1>1, <1>2, <1>3 DEF Mark
  <2> HIDE DEF left, new
  <2>2. /\ DOMAIN new = DOMAIN st
        /\ new.entries = [[st.entries EXCEPT ![id].is_favorite = FALSE]
                            EXCEPT ![id].favorite_title = None]
    BY <1>1, <2>1 DEF OwnStore
  <2>3. /\ DOMAIN new.entries = DOMAIN st.entries
        /\ \A x \in DOMAIN st.entries \ {id} : new.entries[x] = st.entries[x]
        /\ new.entries[id] = [[st.entries[id] EXCEPT !.is_favorite = FALSE]
                                EXCEPT !.favorite_title = None]
    BY <1>3, <2>2
  <2>4. new.entries[id].favorite_title = None /\ DOMAIN new.entries[id] = DOMAIN st.entries[id]
    BY <1>3, <2>3 DEF OwnStore
  <2> QED
    BY <1>3, <2>2, <2>3, <2>4 DEF OwnStore, new, TextsOf
<1>4. CASE id \notin DOMAIN st.entries
  BY <1>1, <1>2, <1>4 DEF Mark, OwnStore
<1> QED
  BY <1>3, <1>4

\* What a deletion leaves is as it was.
LEMMA DeleteOwn ==
  ASSUME NEW st, OwnStore(st), NEW id
  PROVE  OwnStore(DeleteFromMemory(st, id).db)
<1>1. CASE id \in DOMAIN st.entries
  <2> DEFINE left == Unindex(st, {id})
             rest == Remove(st, id)
  <2>1. left.entries = Drop(st.entries, {id}) /\ DOMAIN left = DOMAIN st
    BY DEF Unindex, OwnStore
  <2>2. rest.entries = left.entries /\ DOMAIN rest = DOMAIN left
    <3> HIDE DEF left
    <3>1. FavRemove(left, id).entries = left.entries /\ DOMAIN FavRemove(left, id) = DOMAIN left
      BY <2>1 DEF FavRemove, OwnStore
    <3> QED
      BY <3>1 DEF Remove, left
  <2> HIDE DEF left, rest
  <2>3. Search(rest).entries = rest.entries /\ DOMAIN Search(rest) = DOMAIN rest
    BY <2>1, <2>2 DEF Search, Panic, OwnStore
  <2>4. DeleteFromMemory(st, id).db = Search(rest)
    BY <1>1 DEF DeleteFromMemory, rest
  <2>5. \A x \in DOMAIN rest.entries : x \in DOMAIN st.entries /\ rest.entries[x] = st.entries[x]
    BY <2>1, <2>2 DEF Drop
  <2> QED
    BY <2>1, <2>2, <2>3, <2>4, <2>5 DEF OwnStore
<1>2. CASE id \notin DOMAIN st.entries
  BY <1>2 DEF DeleteFromMemory, NoOp
<1> QED
  BY <1>1, <1>2

\* The titles the applet replies are its own.
LEMMA FavoritesOwn ==
  ASSUME NEW st, OwnStore(st)
  PROVE  OwnList(Favorites(st))
  BY DEF OwnStore, OwnList, Favorites

-----------------------------------------------------------------------------
(* Calls                                                                   *)

\* A queue of calls with titles of their own is one in the sense of OwnInv.
LEMMA OwnQueue ==
  ASSUME NEW T, \A c \in T : OwnCall(c), NEW s \in Seq(T)
  PROVE  s \in Seq({c \in Range(s) : OwnCall(c)})
<1> DEFINE R == {c \in Range(s) : OwnCall(c)}
<1>1. Len(s) \in Nat /\ s = [i \in 1 .. Len(s) |-> s[i]]
  OBVIOUS
<1>2. \A i \in 1 .. Len(s) : s[i] \in R
  BY DEF Range
<1> HIDE DEF R
<1>3. [i \in 1 .. Len(s) |-> s[i]] \in Seq(R)
  BY <1>1, <1>2
<1> QED
  BY <1>1, <1>3 DEF R

\* A call made with a title of its entry.
LEMMA IssueOwn ==
  ASSUME NEW cs, \A q \in cs : OwnCall(q), NEW kind, NEW id, NEW title \in TextsOf(id),
         NEW differ, Issue(cs, kind, id, title, differ)
  PROVE  \A q \in calls' : OwnCall(q)
<1>1. OwnCall(Call(kind, id, title))
  BY DEF OwnCall, Call, OwnList, Empty
<1> QED
  BY <1>1 DEF Issue

\* Saving the title that is being edited.
LEMMA SaveOwn ==
  ASSUME OwnList(entries), OwnEdit, NEW cs, \A q \in cs : OwnCall(q), NEW differ,
         SaveTitleEdit(cs, differ)
  PROVE  OwnList(entries') /\ \A q \in calls' : OwnCall(q)
<1>1. CASE Unsaved
  <2>1. /\ entries' = [id \in DOMAIN entries |->
                         IF id = title_edit.entry_id THEN title_edit.input ELSE entries[id]]
        /\ Issue(cs, "Set", title_edit.entry_id, title_edit.input, differ)
    BY <1>1 DEF SaveTitleEdit
  <2>2. title_edit.input \in TextsOf(title_edit.entry_id)
    BY <1>1 DEF OwnEdit, Unsaved
  <2>3. \A q \in calls' : OwnCall(q)
    BY <2>1, <2>2, IssueOwn
  <2>4. OwnList(entries')
    BY <2>1, <2>2 DEF OwnList
  <2> QED
    BY <2>3, <2>4
<1>2. CASE ~Unsaved
  BY <1>2 DEF SaveTitleEdit
<1> QED
  BY <1>1, <1>2

\* What the message of an ended call does.
LEMMA EndsOwn ==
  ASSUME OwnList(entries), OwnEdit, NEW rest, \A q \in rest : OwnCall(q),
         NEW list, OwnList(list), NEW c, NEW differ, Ends(c, rest, list, differ)
  PROVE  OwnList(entries') /\ (\A q \in calls' : OwnCall(q)) /\ OwnEdit'
<1>1. CASE c.kind = "List"
  BY <1>1 DEF Ends, OwnEdit
<1>2. CASE c.kind = "Edit"
  <2>1. Issue(rest, "List", None, None, differ) /\ UNCHANGED << entries, title_edit >>
    BY <1>2 DEF Ends
  <2>2. None \in TextsOf(None)
    BY DEF TextsOf
  <2>3. \A q \in calls' : OwnCall(q)
    BY <2>1, <2>2, IssueOwn
  <2> QED
    BY <2>1, <2>3 DEF OwnEdit
<1>3. CASE c.kind \in {"Set", "Remove"}
  <2>1. SaveTitleEdit(rest, differ) /\ title_edit' = None
    BY <1>3 DEF Ends
  <2>2. OwnEdit'
    BY <2>1 DEF OwnEdit
  <2> QED
    BY <2>1, <2>2, SaveOwn
<1>4. CASE c.kind \notin {"List", "Edit", "Set", "Remove"}
  BY <1>4 DEF Ends, OwnEdit
<1> QED
  BY <1>1, <1>2, <1>3, <1>4

-----------------------------------------------------------------------------
(* The invariant                                                           *)

LEMMA InitOwn == Init => OwnInv
<1> SUFFICES ASSUME Init PROVE OwnInv
  OBVIOUS
<1>1. OwnStore(Starred)
  <2>1. /\ DOMAIN Starred = {"entries", "hashs", "times", "favs", "favSet", "titles",
                             "query", "filtered", "panicked"}
        /\ Starred.entries = [id \in Ids |-> [NewEntry(Copies[id], id) EXCEPT !.is_favorite = TRUE]]
    BY DEF Starred, EmptyStore
  <2> QED
    BY <2>1 DEF OwnStore, NewEntry, TextsOf
<1>2. << >> \in Seq({c \in Range(<< >>) : OwnCall(c)})
  OBVIOUS
<1> QED
  BY <1>1, <1>2 DEF Init, OwnInv, OwnList, OwnEdit, Empty

LEMMA NextOwn == OwnInv /\ [Next]_vars => OwnInv'
<1> SUFFICES ASSUME OwnInv, [Next]_vars PROVE OwnInv'
  OBVIOUS
<1> USE DEF service, counts
<1>0. /\ OwnStore(db) /\ (\A c \in calls : OwnCall(c)) /\ OwnList(entries) /\ OwnEdit
      /\ inbox \in Seq({c \in Range(inbox) : OwnCall(c)})
      /\ OwnList(Empty)
  BY DEF OwnInv, OwnList, Empty
<1>1. (\A c \in calls' : OwnCall(c)) /\ OwnList(entries') /\ OwnEdit'
  <2>3. CASE OpenWindow
    <3>1. None \in TextsOf(None)
      BY DEF TextsOf
    <3>2. Issue(calls, "List", None, None, apart) /\ entries' = Empty /\ title_edit' = None
      BY <2>3 DEF OpenWindow
    <3>3. \A c \in calls' : OwnCall(c)
      BY <1>0, <3>1, <3>2, IssueOwn
    <3> QED
      BY <1>0, <3>2, <3>3 DEF OwnEdit
  <2>4. CASE CloseWindow
    <3>1. \A c \in calls : OwnCall([c EXCEPT !.awaited = FALSE])
      BY <1>0 DEF OwnCall
    <3> QED
      BY <1>0, <2>4, <3>1 DEF CloseWindow, OwnEdit
  <2>5. CASE CommitTitle
    BY <1>0, <2>5, SaveOwn DEF CommitTitle, OwnEdit
  <2>6. CASE AcceptSuggestion
    BY <1>0, <2>6 DEF AcceptSuggestion, OwnEdit, TextsOf
  <2>7. CASE CancelTitleEdit
    BY <1>0, <2>7 DEF CancelTitleEdit, OwnEdit
  <2>8. ASSUME NEW id \in Ids, BeginTitleEdit(id)
        PROVE  (\A c \in calls' : OwnCall(c)) /\ OwnList(entries') /\ OwnEdit'
    <3>1. OwnEdit'
      BY <1>0, <2>8 DEF BeginTitleEdit, Editing, OwnEdit, OwnList, TextsOf
    <3> QED
      BY <1>0, <2>8, <3>1, SaveOwn DEF BeginTitleEdit
  <2>9. ASSUME NEW id \in Ids, Unfavorite(id)
        PROVE  (\A c \in calls' : OwnCall(c)) /\ OwnList(entries') /\ OwnEdit'
    <3>1. /\ entries' = Drop(entries, {id}) /\ UNCHANGED title_edit
          /\ Issue(calls, "Remove", id, None, apart) /\ None \in TextsOf(id)
      BY <2>9 DEF Unfavorite, TextsOf
    <3>2. \A c \in calls' : OwnCall(c)
      BY <1>0, <3>1, IssueOwn
    <3>3. OwnList(entries')
      BY <1>0, <3>1 DEF OwnList, Drop
    <3> QED
      BY <1>0, <3>1, <3>2, <3>3 DEF OwnEdit
  <2>10. ASSUME NEW id \in Ids, Edit(id)
         PROVE  (\A c \in calls' : OwnCall(c)) /\ OwnList(entries') /\ OwnEdit'
    <3>1. /\ UNCHANGED << entries, title_edit >>
          /\ Issue(calls, "Edit", None, None, apart) /\ None \in TextsOf(None)
      BY <2>10 DEF Edit, TextsOf
    <3>2. \A c \in calls' : OwnCall(c)
      BY <1>0, <3>1, IssueOwn
    <3> QED
      BY <1>0, <3>1, <3>2 DEF OwnEdit
  <2>11. ASSUME NEW id \in Ids, Copy(id)
         PROVE  (\A c \in calls' : OwnCall(c)) /\ OwnList(entries') /\ OwnEdit'
    <3>1. CASE title_edit # None
      BY <1>0, <2>11, <3>1, SaveOwn DEF Copy, OwnEdit
    <3>2. CASE title_edit = None
      <4>1. /\ UNCHANGED << entries, title_edit >>
            /\ Issue(calls, "Copy", None, None, apart) /\ None \in TextsOf(None)
        BY <2>11, <3>2 DEF Copy, TextsOf
      <4>2. \A c \in calls' : OwnCall(c)
        BY <1>0, <4>1, IssueOwn
      <4> QED
        BY <1>0, <4>1, <4>2 DEF OwnEdit
    <3> QED
      BY <3>1, <3>2
  <2>12. ASSUME NEW id \in Ids, NEW s \in {None, Text(id, "ai")}, TitleSuggested(id, s)
         PROVE  (\A c \in calls' : OwnCall(c)) /\ OwnList(entries') /\ OwnEdit'
    <3>1. s \in TextsOf(id) /\ UNCHANGED << calls, entries >>
      BY <2>12 DEF TitleSuggested, TextsOf
    <3>2. OwnEdit'
      BY <1>0, <2>12, <3>1 DEF TitleSuggested, OwnEdit, Edited
    <3> QED
      BY <1>0, <3>1, <3>2
  <2>13. ASSUME title_edit # None,
                NEW t \in {None, Text(title_edit.entry_id, "user")}, TitleInput(t)
         PROVE  (\A c \in calls' : OwnCall(c)) /\ OwnList(entries') /\ OwnEdit'
    <3>1. t \in TextsOf(title_edit.entry_id) /\ UNCHANGED << calls, entries >>
      BY <2>13 DEF TitleInput, TextsOf
    <3>2. OwnEdit'
      BY <1>0, <2>13, <3>1 DEF TitleInput, OwnEdit
    <3> QED
      BY <1>0, <3>1, <3>2
  <2>14. ASSUME NEW c \in calls, Accept(c)
         PROVE  (\A q \in calls' : OwnCall(q)) /\ OwnList(entries') /\ OwnEdit'
    <3>1. \A q \in Waiting(c) : OwnCall(q)
      BY <1>0 DEF Waiting, OwnCall, TextsOf
    <3> QED
      BY <1>0, <2>14, <3>1 DEF Accept, OwnEdit
  <2>15. ASSUME NEW c \in calls, Returned(c)
         PROVE  (\A q \in calls' : OwnCall(q)) /\ OwnList(entries') /\ OwnEdit'
    <3>1. Ends(c, calls \ {c}, c.reply, apart) /\ OwnList(c.reply)
      BY <1>0, <2>15 DEF Returned, OwnCall
    <3> QED
      BY <1>0, <3>1, EndsOwn
  <2>16. ASSUME NEW c \in calls, GivesUp(c)
         PROVE  (\A q \in calls' : OwnCall(q)) /\ OwnList(entries') /\ OwnEdit'
    <3>1. PICK sent \in SUBSET (IF c.at = "bus" THEN {[c EXCEPT !.awaited = FALSE]} ELSE {}) :
            Ends(c, (calls \ {c}) \cup sent, Empty, TRUE)
      BY <2>16 DEF GivesUp
    <3>2. OwnCall([c EXCEPT !.awaited = FALSE])
      BY <1>0 DEF OwnCall
    <3>3. \A q \in (calls \ {c}) \cup sent : OwnCall(q)
      BY <1>0, <3>1, <3>2
    <3> QED
      BY <1>0, <3>1, <3>3, EndsOwn
  <2>17. CASE UNCHANGED vars
    BY <1>0, <2>17 DEF vars, OwnEdit
  <2>18. CASE OtherChange
    BY <1>0, <2>18 DEF OtherChange, OwnEdit
  <2>19. CASE HandleCall
    <3>1. UNCHANGED << entries, title_edit >>
      BY <2>19 DEF HandleCall
    <3>2. OwnList(Favorites(db))
      BY <1>0, FavoritesOwn
    <3>3. \A q \in calls : \A r \in {Favorites(db), Empty} :
            OwnCall([q EXCEPT !.at = "done", !.reply = r])
      BY <1>0, <3>2 DEF OwnCall
    <3>4. \A q \in calls' : OwnCall(q)
      BY <1>0, <2>19, <3>3 DEF HandleCall
    <3> QED
      BY <1>0, <3>1, <3>4 DEF OwnEdit
  <2> QED
    BY <2>3, <2>4, <2>5, <2>6, <2>7, <2>8, <2>9, <2>10, <2>11, <2>12, <2>13, <2>14,
       <2>15, <2>16, <2>17, <2>18, <2>19 DEF Next
<1>2. CASE HandleCall
  <2> DEFINE c == Head(inbox)
  <2>1. /\ inbox # << >> /\ inbox' = Tail(inbox)
        /\ db' = CASE c.kind = "Set" -> SetFavoriteTitleInMemory(db, c.id, c.title).db
                   [] c.kind = "Remove" -> RemoveFavoriteFromMemory(db, c.id).db
                   [] OTHER -> db
    BY <1>2 DEF HandleCall
  <2> DEFINE T == {q \in Range(inbox) : OwnCall(q)}
  <2>2. inbox \in Seq(T) /\ inbox # << >>
    BY <1>0, <2>1
  <2>3. c \in T /\ Tail(inbox) \in Seq(T)
    <3> HIDE DEF T
    <3> QED
      BY <2>2
  <2>4. c.title \in TextsOf(c.id)
    BY <2>3 DEF OwnCall
  <2>5. OwnStore(db')
    <3>1. CASE c.kind = "Set"
      <4>1. db' = SetFavoriteTitleInMemory(db, c.id, c.title).db
        BY <2>1, <3>1
      <4> QED
        BY ONLY <1>0, <2>4, <4>1, SetTitleOwn
    <3>2. CASE c.kind = "Remove"
      BY <1>0, <2>1, <3>2, RemoveOwn
    <3>3. CASE c.kind \notin {"Set", "Remove"}
      BY <1>0, <2>1, <3>3
    <3> QED
      BY <3>1, <3>2, <3>3
  <2>6. inbox' \in Seq({q \in Range(inbox') : OwnCall(q)})
    <3>1. \A q \in T : OwnCall(q)
      OBVIOUS
    <3> HIDE DEF T
    <3> QED
      BY <2>1, <2>3, <3>1, OwnQueue
  <2> QED
    BY <1>1, <2>5, <2>6 DEF OwnInv
<1>3. CASE OtherChange
  <2>1. UNCHANGED inbox
    BY <1>3 DEF OtherChange
  <2>2. \A id \in DOMAIN Favorites(db) : Text(id, "user") \in TextsOf(id)
    BY DEF TextsOf
  <2>3. OwnStore(db')
    BY <1>0, <1>3, <2>2, SetTitleOwn, RemoveOwn, DeleteOwn DEF OtherChange
  <2> QED
    BY <1>0, <1>1, <2>1, <2>3 DEF OwnInv
<1>4. ASSUME NEW c \in calls, Accept(c) PROVE OwnInv'
  <2>1. inbox' = Append(inbox, c) /\ UNCHANGED db
    BY <1>4 DEF Accept
  <2> DEFINE T == {q \in Range(inbox) : OwnCall(q)} \cup {c}
  <2>2. inbox \in Seq(T)
    BY <1>0
  <2>3. \A q \in T : OwnCall(q)
    BY <1>0
  <2>4. c \in T
    OBVIOUS
  <2> HIDE DEF T
  <2>5. Append(inbox, c) \in Seq(T)
    BY <2>2, <2>4
  <2>6. inbox' \in Seq({q \in Range(inbox') : OwnCall(q)})
    BY <2>1, <2>3, <2>5, OwnQueue
  <2> QED
    BY <1>0, <1>1, <2>1, <2>6 DEF OwnInv
<1>5. CASE UNCHANGED service
  BY <1>0, <1>1, <1>5 DEF OwnInv
<1> QED
  <2>1. HandleCall \/ OtherChange \/ (\E c \in calls : Accept(c)) \/ UNCHANGED service
    BY DEF Next, vars, OpenWindow, CloseWindow, CommitTitle, AcceptSuggestion, CancelTitleEdit,
           BeginTitleEdit, Unfavorite, Edit, Copy, TitleSuggested, TitleInput, Returned, GivesUp
  <2> QED
    BY <1>2, <1>3, <1>4, <1>5, <2>1

\* No entry ever gets a text typed or suggested for another one, for every
\* history, queue, and number of calls, edits and faults.
THEOREM OwnTitlesHolds == Spec => []OwnTitles
<1>1. OwnInv => OwnTitles
  BY DEF OwnInv, OwnTitles, OwnStore, OwnList, OwnEdit
<1> QED
  BY <1>1, InitOwn, NextOwn, PTL DEF Spec
-----------------------------------------------------------------------------
(* What a call does to the favorites, in the applet and in the window      *)

EntryFields == {"creation", "content", "is_favorite", "favorite_title"}

\* A store that is not being searched and has not died, of entries that are in
\* the history at first.
Calm(st) ==
  /\ DOMAIN st = {"entries", "hashs", "times", "favs", "favSet", "titles",
                  "query", "filtered", "panicked"}
  /\ st.query = None /\ st.panicked = FALSE
  /\ DOMAIN st.entries \subseteq Ids
  /\ \A id \in DOMAIN st.entries : DOMAIN st.entries[id] = EntryFields

\* A list of titles once a call has been carried out on it.
Effect(c, f) ==
  IF c.kind = "Set" THEN [id \in DOMAIN f |-> IF id = c.id THEN c.title ELSE f[id]]
  ELSE IF c.kind = "Remove" THEN Drop(f, {c.id})
  ELSE f

\* In terms of the entries, the favorites of new are those of st at the ids in S.
LEMMA FavoritesFollow ==
  ASSUME NEW st, NEW new, NEW f,
         DOMAIN f \subseteq DOMAIN st.entries, DOMAIN f \subseteq DOMAIN new.entries,
         \A id \in DOMAIN f : new.entries[id].is_favorite /\ new.entries[id].favorite_title = f[id],
         \A id \in DOMAIN new.entries \ DOMAIN f : ~new.entries[id].is_favorite,
         f = [id \in DOMAIN f |-> f[id]]
  PROVE  Favorites(new) = f
<1>1. {i \in DOMAIN new.entries : new.entries[i].is_favorite} = DOMAIN f
  OBVIOUS
<1> QED
  BY <1>1 DEF Favorites

LEMMA SetTitleEffect ==
  ASSUME NEW st, Calm(st), NEW c, c.kind = "Set"
  PROVE  LET new == SetFavoriteTitleInMemory(st, c.id, c.title).db
         IN  Calm(new) /\ Favorites(new) = Effect(c, Favorites(st))
<1> DEFINE new == SetFavoriteTitleInMemory(st, c.id, c.title).db
           listed == [st EXCEPT !.titles = Put(@, c.id, c.title)]
           f == Favorites(st)
           after == Effect(c, f)
<1>1. listed.entries = st.entries /\ DOMAIN listed = DOMAIN st
      /\ listed.query = st.query /\ listed.panicked = st.panicked
  BY DEF Calm
<1>2. /\ DOMAIN new = DOMAIN st /\ new.query = st.query /\ new.panicked = st.panicked
      /\ DOMAIN new.entries = DOMAIN st.entries
      /\ \A x \in DOMAIN st.entries :
           /\ DOMAIN new.entries[x] = EntryFields
           /\ new.entries[x].is_favorite = st.entries[x].is_favorite
           /\ new.entries[x].favorite_title = IF x = c.id THEN c.title ELSE st.entries[x].favorite_title
  <2>1. CASE c.id \in DOMAIN st.entries
    <3>1. new = [listed EXCEPT !.entries[c.id].favorite_title = c.title]
      BY <2>1 DEF SetFavoriteTitleInMemory
    <3> HIDE DEF listed, new
    <3>2. /\ DOMAIN new = DOMAIN st /\ new.query = st.query /\ new.panicked = st.panicked
          /\ new.entries = [st.entries EXCEPT ![c.id].favorite_title = c.title]
      BY <1>1, <3>1 DEF Calm
    <3>3. new.entries[c.id] = [st.entries[c.id] EXCEPT !.favorite_title = c.title]
      BY <2>1, <3>2
    <3>4. /\ DOMAIN new.entries = DOMAIN st.entries
          /\ \A x \in DOMAIN st.entries \ {c.id} : new.entries[x] = st.entries[x]
      BY <3>2
    <3>5. /\ new.entries[c.id].favorite_title = c.title
          /\ new.entries[c.id].is_favorite = st.entries[c.id].is_favorite
          /\ DOMAIN new.entries[c.id] = EntryFields
      BY <2>1, <3>3 DEF Calm, EntryFields
    <3> QED
      BY <2>1, <3>2, <3>4, <3>5 DEF Calm
  <2>2. CASE c.id \notin DOMAIN st.entries
    <3>1. new = listed
      BY <2>2 DEF SetFavoriteTitleInMemory
    <3> HIDE DEF listed, new
    <3> QED
      BY <1>1, <2>2, <3>1 DEF Calm
  <2> QED
    BY <2>1, <2>2
<1> HIDE DEF new
<1>3. Calm(new)
  BY <1>2 DEF Calm
<1>4. /\ DOMAIN f = {i \in DOMAIN st.entries : st.entries[i].is_favorite}
      /\ \A id \in DOMAIN f : f[id] = st.entries[id].favorite_title
  BY DEF Favorites
<1>5. after = [id \in DOMAIN f |-> IF id = c.id THEN c.title ELSE f[id]]
  BY DEF Effect
<1> HIDE DEF f, after
<1>6. DOMAIN after = DOMAIN f /\ after = [id \in DOMAIN after |-> after[id]]
  BY <1>5
<1>7. Favorites(new) = after
  <2>1. \A id \in DOMAIN after :
          new.entries[id].is_favorite /\ new.entries[id].favorite_title = after[id]
    BY <1>2, <1>4, <1>5
  <2>2. \A id \in DOMAIN new.entries \ DOMAIN after : ~new.entries[id].is_favorite
    BY <1>2, <1>4, <1>6
  <2>3. DOMAIN after \subseteq DOMAIN st.entries /\ DOMAIN after \subseteq DOMAIN new.entries
    BY <1>2, <1>4, <1>6
  <2> QED
    BY <1>6, <2>1, <2>2, <2>3, FavoritesFollow
<1> QED
  BY <1>3, <1>7 DEF new, after, f
LEMMA RemoveEffect ==
  ASSUME NEW st, Calm(st), NEW c, c.kind = "Remove"
  PROVE  LET new == RemoveFavoriteFromMemory(st, c.id).db
         IN  Calm(new) /\ Favorites(new) = Effect(c, Favorites(st))
<1> DEFINE new == RemoveFavoriteFromMemory(st, c.id).db
           left == FavRemove(st, c.id)
           f == Favorites(st)
           after == Effect(c, f)
<1>1. left.entries = st.entries /\ DOMAIN left = DOMAIN st
      /\ left.query = st.query /\ left.panicked = st.panicked
  BY DEF Calm, FavRemove
<1>2. new = Mark(left, c.id, FALSE, None)
  BY DEF RemoveFavoriteFromMemory
<1> HIDE DEF new, left
<1>3. /\ DOMAIN new = DOMAIN st /\ new.query = st.query /\ new.panicked = st.panicked
      /\ DOMAIN new.entries = DOMAIN st.entries
      /\ \A x \in DOMAIN st.entries :
           /\ DOMAIN new.entries[x] = EntryFields
           /\ x # c.id => new.entries[x] = st.entries[x]
           /\ x = c.id => new.entries[x].is_favorite = FALSE
  <2>1. CASE c.id \in DOMAIN st.entries
    <3>1. new = [left EXCEPT !.entries[c.id].is_favorite = FALSE,
                             !.entries[c.id].favorite_title = None]
      BY <1>1, <1>2, <2>1 DEF Mark
    <3>2. /\ DOMAIN new = DOMAIN st /\ new.query = st.query /\ new.panicked = st.panicked
          /\ new.entries = [[st.entries EXCEPT ![c.id].is_favorite = FALSE]
                              EXCEPT ![c.id].favorite_title = None]
      BY <1>1, <3>1 DEF Calm
    <3>3. /\ DOMAIN new.entries = DOMAIN st.entries
          /\ \A x \in DOMAIN st.entries \ {c.id} : new.entries[x] = st.entries[x]
          /\ new.entries[c.id] = [[st.entries[c.id] EXCEPT !.is_favorite = FALSE]
                                    EXCEPT !.favorite_title = None]
      BY <2>1, <3>2
    <3>4. new.entries[c.id].is_favorite = FALSE /\ DOMAIN new.entries[c.id] = EntryFields
      BY <2>1, <3>3 DEF Calm, EntryFields
    <3> QED
      BY <3>2, <3>3, <3>4 DEF Calm
  <2>2. CASE c.id \notin DOMAIN st.entries
    BY <1>1, <1>2, <2>2 DEF Mark, Calm
  <2> QED
    BY <2>1, <2>2
<1>4. Calm(new)
  BY <1>3 DEF Calm
<1>5. /\ DOMAIN f = {i \in DOMAIN st.entries : st.entries[i].is_favorite}
      /\ \A id \in DOMAIN f : f[id] = st.entries[id].favorite_title
  BY DEF Favorites
<1>6. after = [id \in DOMAIN f \ {c.id} |-> f[id]]
  BY DEF Effect, Drop
<1> HIDE DEF f, after
<1>7. DOMAIN after = DOMAIN f \ {c.id} /\ after = [id \in DOMAIN after |-> after[id]]
      /\ \A id \in DOMAIN after : after[id] = f[id]
  BY <1>6
<1>8. Favorites(new) = after
  <2>1. \A id \in DOMAIN after :
          new.entries[id].is_favorite /\ new.entries[id].favorite_title = after[id]
    BY <1>3, <1>5, <1>7
  <2>2. \A id \in DOMAIN new.entries \ DOMAIN after : ~new.entries[id].is_favorite
    BY <1>3, <1>5, <1>7
  <2>3. DOMAIN after \subseteq DOMAIN st.entries /\ DOMAIN after \subseteq DOMAIN new.entries
    BY <1>3, <1>5, <1>7
  <2> QED
    BY <1>7, <2>1, <2>2, <2>3, FavoritesFollow
<1> QED
  BY <1>4, <1>8 DEF new, after, f

LEMMA DeleteCalm ==
  ASSUME NEW st, Calm(st), NEW id
  PROVE  Calm(DeleteFromMemory(st, id).db)
<1>1. CASE id \in DOMAIN st.entries
  <2> DEFINE left == Unindex(st, {id})
             rest == Remove(st, id)
  <2>1. left.entries = Drop(st.entries, {id}) /\ DOMAIN left = DOMAIN st
        /\ left.query = st.query /\ left.panicked = st.panicked
    BY DEF Unindex, Calm
  <2>2. rest.entries = left.entries /\ DOMAIN rest = DOMAIN left
        /\ rest.query = left.query /\ rest.panicked = left.panicked
    <3> HIDE DEF left
    <3>1. /\ FavRemove(left, id).entries = left.entries /\ DOMAIN FavRemove(left, id) = DOMAIN left
          /\ FavRemove(left, id).query = left.query /\ FavRemove(left, id).panicked = left.panicked
      BY <2>1 DEF FavRemove, Calm
    <3> QED
      BY <3>1 DEF Remove, left
  <2>3. Calm(left)
    BY <2>1 DEF Drop, Calm
  <2> HIDE DEF left, rest
  <2>4. Calm(rest)
    BY <2>2, <2>3 DEF Calm
  <2>5. Calm(Search(rest))
    BY <2>4 DEF Search, Calm
  <2>6. DeleteFromMemory(st, id).db = Search(rest)
    BY <1>1 DEF DeleteFromMemory, rest
  <2> QED
    BY <2>5, <2>6
<1>2. CASE id \notin DOMAIN st.entries
  BY <1>2 DEF DeleteFromMemory, NoOp
<1> QED
  BY <1>1, <1>2

\* Whatever the applet does to its favorites in this module leaves it calm.
LEMMA CallCalm ==
  ASSUME NEW st, Calm(st), NEW id, NEW title
  PROVE  /\ Calm(SetFavoriteTitleInMemory(st, id, title).db)
         /\ Calm(RemoveFavoriteFromMemory(st, id).db)
<1> DEFINE set == [kind |-> "Set", id |-> id, title |-> title]
           rem == [kind |-> "Remove", id |-> id]
<1>1. set.kind = "Set" /\ set.id = id /\ set.title = title /\ rem.kind = "Remove" /\ rem.id = id
  OBVIOUS
<1> HIDE DEF set, rem
<1>2. Calm(SetFavoriteTitleInMemory(st, set.id, set.title).db)
  BY <1>1, SetTitleEffect
<1>3. Calm(RemoveFavoriteFromMemory(st, rem.id).db)
  BY <1>1, RemoveEffect
<1> QED
  BY <1>1, <1>2, <1>3

\* A call that is handled has its effect on the favorites.
LEMMA HandleEffect ==
  ASSUME Calm(db), HandleCall
  PROVE  Calm(db') /\ Favorites(db') = Effect(Head(inbox), Favorites(db))
<1> DEFINE c == Head(inbox)
<1>1. db' = CASE c.kind = "Set" -> SetFavoriteTitleInMemory(db, c.id, c.title).db
              [] c.kind = "Remove" -> RemoveFavoriteFromMemory(db, c.id).db
              [] OTHER -> db
  BY DEF HandleCall
<1> HIDE DEF c
<1>2. Calm(db') /\ Favorites(db') = Effect(c, Favorites(db))
  <2>1. CASE c.kind = "Set"
    <3>1. db' = SetFavoriteTitleInMemory(db, c.id, c.title).db
      BY <1>1, <2>1
    <3> DEFINE new == SetFavoriteTitleInMemory(db, c.id, c.title).db
    <3>2. Calm(new) /\ Favorites(new) = Effect(c, Favorites(db))
      BY <2>1, SetTitleEffect
    <3> QED
      BY <3>1, <3>2
  <2>2. CASE c.kind = "Remove"
    <3>1. db' = RemoveFavoriteFromMemory(db, c.id).db
      BY <1>1, <2>2
    <3> DEFINE new == RemoveFavoriteFromMemory(db, c.id).db
    <3>2. Calm(new) /\ Favorites(new) = Effect(c, Favorites(db))
      BY <2>2, RemoveEffect
    <3> QED
      BY <3>1, <3>2
  <2>3. CASE c.kind \notin {"Set", "Remove"}
    BY <1>1, <2>3 DEF Effect
  <2> QED
    BY <2>1, <2>2, <2>3
<1> QED
  BY <1>2 DEF c

-----------------------------------------------------------------------------
(* The numbers of the calls                                                *)

NumbersOf(cs, q) == {c.n : c \in cs} \cup {q[i].n : i \in DOMAIN q}

\* The calls cs and the queue q go by k numbers at most: two calls never share
\* one, nor two entries of the queue, nor a call on the bus and an entry.
Numbered(cs, q, k) ==
  /\ NumbersOf(cs, q) \subseteq 1 .. MaxCalls /\ Cardinality(NumbersOf(cs, q)) <= k
  /\ \A c, d \in cs : c.n = d.n => c = d
  /\ \A i, j \in DOMAIN q : q[i].n = q[j].n => i = j
  /\ \A c \in cs, i \in DOMAIN q : c.at = "bus" => c.n # q[i].n

\* What is left of the calls cs, the ones on the bus having been there.
Derived(cs, rest) ==
  /\ \A r \in rest : \E c \in cs : r.n = c.n /\ (r.at = "bus" => c.at = "bus")
  /\ \A r, s \in rest : r.n = s.n => r = s

LEMMA NumbersFinite ==
  ASSUME NEW N \in SUBSET (1 .. MaxCalls)
  PROVE  IsFiniteSet(N) /\ Cardinality(N) \in Nat /\ Cardinality(N) <= MaxCalls
<1>1. MaxCalls \in Nat
  BY WindowAssumption
<1>2. IsFiniteSet(1 .. MaxCalls) /\ Cardinality(1 .. MaxCalls) = MaxCalls
  BY <1>1, FS_Interval
<1>3. IsFiniteSet(N) /\ Cardinality(N) <= Cardinality(1 .. MaxCalls)
  BY <1>2, FS_Subset
<1> QED
  BY <1>2, <1>3, FS_CardinalityType

\* Fewer calls, and the queue or its tail.
LEMMA NumberedLess ==
  ASSUME NEW cs, NEW q, q \in Seq(Range(q)), NEW k \in Nat, Numbered(cs, q, k),
         NEW rest, Derived(cs, rest), NEW r, r = q \/ (q # << >> /\ r = Tail(q))
  PROVE  Numbered(rest, r, k)
<1>1. \A i \in DOMAIN r : \E j \in DOMAIN q :
        r[i] = q[j] /\ (IF r = q THEN j = i ELSE j = i + 1)
  <2>1. CASE r = q
    BY <2>1
  <2>2. CASE r # q
    <3>1. r = Tail(q) /\ q # << >>
      BY <2>2
    <3> DEFINE T == Range(q)
    <3>2. q \in Seq(T)
      OBVIOUS
    <3> HIDE DEF T
    <3>3. /\ DOMAIN r = 1 .. (Len(q) - 1) /\ DOMAIN q = 1 .. Len(q) /\ Len(q) \in Nat
          /\ \A i \in DOMAIN r : r[i] = q[i + 1]
      BY <3>1, <3>2
    <3>4. \A i \in DOMAIN r : i + 1 \in DOMAIN q
      BY <3>3
    <3> QED
      BY <2>2, <3>3, <3>4
  <2> QED
    BY <2>1, <2>2
<1>2. \A i, j \in DOMAIN r : i \in Int /\ j \in Int
  <2> DEFINE T == Range(q)
  <2>1. q \in Seq(T)
    OBVIOUS
  <2> HIDE DEF T
  <2>2. r \in Seq(T)
    BY <2>1
  <2> QED
    BY <2>2
<1>3. NumbersOf(rest, r) \subseteq NumbersOf(cs, q)
  BY <1>1 DEF NumbersOf, Derived
<1>4. NumbersOf(rest, r) \subseteq 1 .. MaxCalls /\ Cardinality(NumbersOf(rest, r)) <= k
  <2> DEFINE N == NumbersOf(cs, q)
             L == NumbersOf(rest, r)
  <2>1. N \subseteq 1 .. MaxCalls /\ Cardinality(N) <= k /\ L \subseteq N
    BY <1>3 DEF Numbered
  <2> HIDE DEF N, L
  <2>2. IsFiniteSet(N) /\ Cardinality(N) \in Nat /\ Cardinality(L) \in Nat
    BY <2>1, NumbersFinite
  <2>3. Cardinality(L) <= Cardinality(N)
    BY <2>1, <2>2, FS_Subset
  <2>4. L \subseteq 1 .. MaxCalls /\ Cardinality(L) <= k
    BY <2>1, <2>2, <2>3
  <2> QED
    BY <2>4 DEF L
<1>5. \A c, d \in rest : c.n = d.n => c = d
  BY DEF Derived
<1>6. \A i, j \in DOMAIN r : r[i].n = r[j].n => i = j
  <2> SUFFICES ASSUME NEW i \in DOMAIN r, NEW j \in DOMAIN r, r[i].n = r[j].n PROVE i = j
    OBVIOUS
  <2>1. PICK a \in DOMAIN q : r[i] = q[a] /\ (IF r = q THEN a = i ELSE a = i + 1)
    BY <1>1
  <2>2. PICK b \in DOMAIN q : r[j] = q[b] /\ (IF r = q THEN b = j ELSE b = j + 1)
    BY <1>1
  <2>3. a = b
    BY <2>1, <2>2 DEF Numbered
  <2> QED
    BY <1>2, <2>1, <2>2, <2>3
<1>7. \A c \in rest, i \in DOMAIN r : c.at = "bus" => c.n # r[i].n
  BY <1>1 DEF Numbered, Derived
<1> QED
  BY <1>4, <1>5, <1>6, <1>7 DEF Numbered

\* There is a number for a call as long as the calls are not used up.
LEMMA NumberLeft ==
  ASSUME Numbered(calls, inbox, issued), issued \in Nat, issued < MaxCalls
  PROVE  FreshNumber \in 1 .. MaxCalls /\ FreshNumber \notin NumbersOf(calls, inbox)
<1> DEFINE N == NumbersOf(calls, inbox)
<1>1. N \subseteq 1 .. MaxCalls /\ Cardinality(N) <= issued
  BY DEF Numbered
<1>2. \E n \in 1 .. MaxCalls : n \notin N
  <2> SUFFICES ASSUME 1 .. MaxCalls \subseteq N PROVE FALSE
    OBVIOUS
  <2> HIDE DEF N
  <2>1. N = 1 .. MaxCalls
    BY <1>1
  <2>2. MaxCalls \in Nat
    BY WindowAssumption
  <2>3. Cardinality(1 .. MaxCalls) = MaxCalls
    BY <2>2, FS_Interval
  <2> QED
    BY <1>1, <2>1, <2>2, <2>3
<1>3. \A n : n \notin N <=> \A c \in calls \cup Range(inbox) : c.n # n
  BY DEF NumbersOf, Range
<1> HIDE DEF N
<1>4. \E n \in 1 .. MaxCalls : \A c \in calls \cup Range(inbox) : c.n # n
  BY <1>2, <1>3
<1>5. FreshNumber \in 1 .. MaxCalls /\ \A c \in calls \cup Range(inbox) : c.n # FreshNumber
  BY <1>4 DEF FreshNumber
<1> QED
  BY <1>3, <1>5 DEF N

LEMMA NumberedIssue ==
  ASSUME inbox \in Seq(Range(inbox)), Numbered(calls, inbox, issued), issued \in Nat,
         NEW rest, Derived(calls, rest), NEW kind, NEW id, NEW title, NEW differ,
         Issue(rest, kind, id, title, differ)
  PROVE  Numbered(calls', inbox, issued') /\ issued' \in 0 .. MaxCalls
<1> DEFINE c == Call(kind, id, title)
           N == NumbersOf(rest, inbox)
           M == NumbersOf(calls', inbox)
<1>1. issued < MaxCalls /\ issued' = issued + 1 /\ calls' = rest \cup {c}
  BY DEF Issue
<1>2. c.n = FreshNumber
  BY DEF Call
<1>3. FreshNumber \in 1 .. MaxCalls /\ FreshNumber \notin NumbersOf(calls, inbox)
  BY <1>1, NumberLeft
<1>4. Numbered(rest, inbox, issued)
  BY NumberedLess
<1>5. /\ \A r \in rest : r.n # c.n
      /\ \A i \in DOMAIN inbox : inbox[i].n # c.n
  BY <1>2, <1>3 DEF NumbersOf, Derived
<1> HIDE DEF c
<1>6. M = N \cup {FreshNumber}
  BY <1>1, <1>2 DEF NumbersOf
<1> HIDE DEF N, M
<1>7. N \subseteq 1 .. MaxCalls /\ Cardinality(N) <= issued
  BY <1>4 DEF Numbered, N
<1>8. IsFiniteSet(N) /\ Cardinality(N) \in Nat
  BY <1>7, NumbersFinite
<1>9. M \subseteq 1 .. MaxCalls /\ Cardinality(M) <= issued'
  <2> DEFINE n == FreshNumber
  <2>1. n \in 1 .. MaxCalls /\ M = N \cup {n}
    BY <1>3, <1>6
  <2> HIDE DEF n
  <2>2. Cardinality(M) = IF n \in N THEN Cardinality(N) ELSE Cardinality(N) + 1
    BY ONLY <1>8, <2>1, FS_AddElement
  <2> QED
    BY <1>1, <1>7, <1>8, <2>1, <2>2
<1>10. /\ \A x, y \in calls' : x.n = y.n => x = y
       /\ \A i, j \in DOMAIN inbox : inbox[i].n = inbox[j].n => i = j
       /\ \A x \in calls', i \in DOMAIN inbox : x.at = "bus" => x.n # inbox[i].n
  BY <1>1, <1>4, <1>5 DEF Numbered
<1>11. issued' \in 0 .. MaxCalls
  BY <1>1, WindowAssumption
<1> QED
  BY <1>9, <1>10, <1>11 DEF Numbered, M

LEMMA NumberedAccept ==
  ASSUME inbox \in Seq(Range(inbox)), Numbered(calls, inbox, issued), issued \in Nat,
         NEW c \in calls, Accept(c),
         \A q \in calls : DOMAIN q = {"n", "kind", "id", "title", "at", "awaited", "reply"}
  PROVE  Numbered(calls', inbox', issued')
<1> DEFINE rest == (calls \ {c}) \cup Waiting(c)
<1>1. /\ c.at = "bus" /\ inbox' = Append(inbox, c) /\ calls' = rest /\ issued' = issued
  BY DEF Accept
<1>2. \A w \in Waiting(c) : w.n = c.n /\ w.at # "bus"
  BY DEF Waiting
<1>2a. \A v, w \in Waiting(c) : v = w
  BY DEF Waiting
<1>3. Derived(calls, rest)
  BY <1>2, <1>2a DEF Derived, Numbered
<1>4. Numbered(rest, inbox, issued)
  BY <1>3, NumberedLess
<1>5. /\ \A r \in rest : r.at = "bus" => r.n # c.n
      /\ \A i \in DOMAIN inbox : inbox[i].n # c.n
  BY <1>1, <1>2 DEF Numbered
<1>6. /\ DOMAIN inbox' = DOMAIN inbox \cup {Len(inbox) + 1}
      /\ \A i \in DOMAIN inbox : inbox'[i] = inbox[i]
      /\ inbox'[Len(inbox) + 1] = c
  <2> DEFINE T == Range(inbox) \cup {c}
             g == Append(inbox, c)
  <2>1. inbox \in Seq(T) /\ c \in T
    OBVIOUS
  <2> HIDE DEF T
  <2>2. /\ DOMAIN g = DOMAIN inbox \cup {Len(inbox) + 1}
        /\ \A i \in DOMAIN inbox : g[i] = inbox[i]
        /\ g[Len(inbox) + 1] = c
    BY <2>1
  <2> QED
    BY <1>1, <2>2
<1> HIDE DEF rest
<1>7. NumbersOf(rest, inbox') \subseteq NumbersOf(calls, inbox)
  BY <1>3, <1>6 DEF NumbersOf, Derived
<1>8. NumbersOf(rest, inbox') \subseteq 1 .. MaxCalls
      /\ Cardinality(NumbersOf(rest, inbox')) <= issued
  <2> DEFINE N == NumbersOf(calls, inbox)
             M == NumbersOf(rest, inbox')
  <2>1. N \subseteq 1 .. MaxCalls /\ Cardinality(N) <= issued /\ M \subseteq N
    BY <1>7 DEF Numbered
  <2> HIDE DEF N, M
  <2>2. IsFiniteSet(N) /\ Cardinality(N) \in Nat /\ Cardinality(M) \in Nat
    BY <2>1, NumbersFinite
  <2>3. Cardinality(M) <= Cardinality(N)
    BY <2>1, <2>2, FS_Subset
  <2>4. M \subseteq 1 .. MaxCalls /\ Cardinality(M) <= issued
    BY <2>1, <2>2, <2>3
  <2> QED
    BY <2>4 DEF M
<1>9. /\ \A x, y \in rest : x.n = y.n => x = y
      /\ \A i, j \in DOMAIN inbox' : inbox'[i].n = inbox'[j].n => i = j
      /\ \A x \in rest, i \in DOMAIN inbox' : x.at = "bus" => x.n # inbox'[i].n
  BY <1>4, <1>5, <1>6 DEF Numbered
<1> QED
  BY <1>1, <1>8, <1>9 DEF Numbered

-----------------------------------------------------------------------------
(* Types                                                                   *)

CallFields == {"n", "kind", "id", "title", "at", "awaited", "reply"}

Edits == [entry_id : Ids, input : AllTexts, suggestion : AllTexts, original_title : AllTexts]

\* Calls of their type; one that nobody waits for is on the bus.
CallsOK(cs) == \A c \in cs : CallOK(c) /\ (c.awaited \/ c.at = "bus")

\* What a task of the window changes.
WindowOK ==
  /\ CallsOK(calls) /\ Numbered(calls, inbox, issued) /\ issued \in 0 .. MaxCalls
  /\ DOMAIN entries \subseteq Ids /\ title_edit \in Edits \cup {None}
  /\ apart \in BOOLEAN

CountsOK ==
  /\ asked \in [Ids -> Nat] /\ \A id \in Ids : asked[id] <= edits
  /\ open \in BOOLEAN /\ edits \in 0 .. MaxEdits /\ faults \in 0 .. MaxFaults

ServiceOK ==
  /\ Calm(db) /\ Len(inbox) <= Capacity
  /\ \A i \in DOMAIN inbox : CallOK(inbox[i])

TypeInv == OwnInv /\ WindowOK /\ CountsOK /\ ServiceOK

LEMMA TextsTyped == None \in AllTexts /\ \A id \in Ids : TextsOf(id) \subseteq AllTexts
  BY DEF AllTexts

LEMMA ListTyped ==
  ASSUME NEW f, OwnList(f), DOMAIN f \subseteq Ids
  PROVE  IsList(f)
  BY TextsTyped DEF OwnList, IsList

LEMMA FavoritesTyped ==
  ASSUME NEW st, OwnStore(st), Calm(st)
  PROVE  IsList(Favorites(st))
<1>1. DOMAIN Favorites(st) \subseteq Ids
  BY DEF Calm, Favorites
<1> QED
  BY <1>1, FavoritesOwn, ListTyped

LEMMA InboxSeq ==
  ASSUME OwnInv
  PROVE  inbox \in Seq(Range(inbox))
<1> DEFINE T == {c \in Range(inbox) : OwnCall(c)}
           R == Range(inbox)
<1>1. inbox \in Seq(T) /\ T \subseteq R
  BY DEF OwnInv
<1> HIDE DEF T, R
<1>2. inbox \in Seq(R)
  BY <1>1
<1> QED
  BY <1>2 DEF R

LEMMA IssueTyped ==
  ASSUME OwnInv, WindowOK, NEW rest, CallsOK(rest), Derived(calls, rest),
         NEW kind \in {"List", "Set", "Remove", "Edit", "Copy"}, NEW id,
         kind \in {"Set", "Remove"} => id \in Ids, NEW title \in AllTexts,
         NEW differ \in BOOLEAN, Issue(rest, kind, id, title, differ)
  PROVE  /\ CallsOK(calls') /\ Numbered(calls', inbox, issued') /\ issued' \in 0 .. MaxCalls
         /\ apart' \in BOOLEAN
<1>1. Numbered(calls', inbox, issued') /\ issued' \in 0 .. MaxCalls
  <2>1. issued \in Nat
    BY DEF WindowOK
  <2> QED
    BY <2>1, InboxSeq, NumberedIssue DEF WindowOK
<1>2. CallOK(Call(kind, id, title)) /\ Call(kind, id, title).at = "bus"
  <2>1. FreshNumber \in 1 .. MaxCalls
    <3>1. issued \in Nat /\ issued < MaxCalls /\ Numbered(calls, inbox, issued)
      BY DEF WindowOK, Issue
    <3> QED
      BY <3>1, NumberLeft
  <2>2. IsList(Empty)
    BY DEF IsList, Empty
  <2> QED
    BY <2>1, <2>2 DEF CallOK, Call
<1>3. CallsOK(calls')
  <2>1. calls' = rest \cup {Call(kind, id, title)}
    BY DEF Issue
  <2> QED
    BY <1>2, <2>1 DEF CallsOK
<1>4. apart' \in BOOLEAN
  BY DEF Issue
<1> QED
  BY <1>1, <1>3, <1>4

\* Calls that go away, and the same calls.
LEMMA RestTyped ==
  ASSUME OwnInv, WindowOK, NEW rest, CallsOK(rest), Derived(calls, rest),
         calls' = rest, issued' = issued
  PROVE  /\ CallsOK(calls') /\ Numbered(calls', inbox, issued') /\ issued' \in 0 .. MaxCalls
<1>1. issued \in Nat /\ Numbered(calls, inbox, issued)
  BY DEF WindowOK
<1>2. Numbered(rest, inbox, issued)
  BY <1>1, InboxSeq, NumberedLess
<1> QED
  BY <1>2 DEF WindowOK

LEMMA SaveTyped ==
  ASSUME OwnInv, WindowOK, NEW rest, CallsOK(rest), Derived(calls, rest),
         NEW differ \in BOOLEAN, SaveTitleEdit(rest, differ)
  PROVE  /\ CallsOK(calls') /\ Numbered(calls', inbox, issued') /\ issued' \in 0 .. MaxCalls
         /\ apart' \in BOOLEAN /\ DOMAIN entries' = DOMAIN entries
<1>1. CASE Unsaved
  <2>1. /\ entries' = [id \in DOMAIN entries |->
                         IF id = title_edit.entry_id THEN title_edit.input ELSE entries[id]]
        /\ Issue(rest, "Set", title_edit.entry_id, title_edit.input, differ)
    BY <1>1 DEF SaveTitleEdit
  <2>2. title_edit.entry_id \in Ids /\ title_edit.input \in AllTexts
    BY <1>1 DEF Unsaved, WindowOK, Edits
  <2> QED
    BY <2>1, <2>2, IssueTyped
<1>2. CASE ~Unsaved
  BY <1>2, RestTyped DEF SaveTitleEdit
<1> QED
  BY <1>1, <1>2

LEMMA EndsTyped ==
  ASSUME OwnInv, WindowOK, NEW c, CallOK(c), NEW rest, CallsOK(rest), Derived(calls, rest),
         NEW list, DOMAIN list \subseteq Ids, NEW differ \in BOOLEAN,
         Ends(c, rest, list, differ)
  PROVE  /\ CallsOK(calls') /\ Numbered(calls', inbox, issued') /\ issued' \in 0 .. MaxCalls
         /\ apart' \in BOOLEAN /\ DOMAIN entries' \subseteq Ids /\ title_edit' \in Edits \cup {None}
<1>0. DOMAIN entries \subseteq Ids /\ title_edit \in Edits \cup {None}
  BY DEF WindowOK
<1>1. CASE c.kind = "List"
  <2>1. /\ entries' = list /\ calls' = rest /\ apart' = differ
        /\ title_edit' = title_edit /\ issued' = issued
    BY <1>1 DEF Ends
  <2> QED
    BY <1>0, <2>1, RestTyped
<1>2. CASE c.kind = "Edit"
  <2>1. Issue(rest, "List", None, None, differ) /\ entries' = entries /\ title_edit' = title_edit
    BY <1>2 DEF Ends
  <2>2. /\ CallsOK(calls') /\ Numbered(calls', inbox, issued') /\ issued' \in 0 .. MaxCalls
        /\ apart' \in BOOLEAN
    BY <2>1, TextsTyped, IssueTyped
  <2> QED
    BY <1>0, <2>1, <2>2
<1>3. CASE c.kind \in {"Set", "Remove"}
  <2>1. SaveTitleEdit(rest, differ) /\ title_edit' = None
    BY <1>3 DEF Ends
  <2> QED
    BY <1>0, <2>1, SaveTyped
<1>4. CASE c.kind \notin {"List", "Edit", "Set", "Remove"}
  <2>1. /\ calls' = rest /\ apart' = differ
        /\ entries' = entries /\ title_edit' = title_edit /\ issued' = issued
    BY <1>4 DEF Ends
  <2> QED
    BY <1>0, <2>1, RestTyped
<1> QED
  BY <1>1, <1>2, <1>3, <1>4

\* Some of the calls under way, and those a closing window leaves behind.
LEMMA Fewer ==
  ASSUME WindowOK, NEW rest \in SUBSET calls
  PROVE  Derived(calls, rest) /\ CallsOK(rest)
<1>1. \A c, d \in calls : c.n = d.n => c = d
  BY DEF WindowOK, Numbered
<1> QED
  BY <1>1 DEF WindowOK, Derived, CallsOK

LEMMA GivenUp ==
  ASSUME NEW c, CallOK(c)
  PROVE  LET d == [c EXCEPT !.awaited = FALSE]
         IN  CallOK(d) /\ d.n = c.n /\ d.at = c.at /\ d.kind = c.kind
  BY DEF CallOK

LEMMA InitTyped == Init => TypeInv
<1> SUFFICES ASSUME Init PROVE TypeInv
  OBVIOUS
<1>1. Calm(db)
  <2>1. /\ DOMAIN Starred = {"entries", "hashs", "times", "favs", "favSet", "titles",
                             "query", "filtered", "panicked"}
        /\ Starred.entries = [id \in Ids |-> [NewEntry(Copies[id], id) EXCEPT !.is_favorite = TRUE]]
        /\ Starred.query = None /\ Starred.panicked = FALSE
    BY DEF Starred, EmptyStore
  <2>2. \A id \in Ids : DOMAIN Starred.entries[id] = EntryFields
    BY <2>1 DEF EntryFields, NewEntry
  <2>3. Calm(Starred)
    BY <2>1, <2>2 DEF Calm
  <2> QED
    BY <2>3 DEF Init
<1>2. Numbered({}, << >>, 0)
  <2>1. NumbersOf({}, << >>) = {}
    BY DEF NumbersOf
  <2>2. Cardinality({}) = 0
    BY FS_EmptySet
  <2>3. NumbersOf({}, << >>) \subseteq 1 .. MaxCalls /\ Cardinality(NumbersOf({}, << >>)) <= 0
    <3> DEFINE N == NumbersOf({}, << >>)
    <3>1. N = {} /\ Cardinality(N) = 0
      BY ONLY <2>1, <2>2
    <3> HIDE DEF N
    <3>2. N \subseteq 1 .. MaxCalls /\ Cardinality(N) <= 0
      BY <3>1
    <3> QED
      BY <3>2 DEF N
  <2>4. DOMAIN << >> = {}
    OBVIOUS
  <2> HIDE <2>1
  <2> QED
    BY <2>3, <2>4, Zenon DEF Numbered
<1>3. MaxCalls \in Nat /\ MaxEdits \in Nat /\ MaxFaults \in Nat /\ Capacity \in Nat
  BY WindowAssumption
<1>4. WindowOK
  <2>1. calls = {} /\ inbox = << >> /\ issued = 0 /\ title_edit = None /\ apart = FALSE
        /\ entries = Empty
    BY DEF Init
  <2>2. Numbered(calls, inbox, issued)
    BY <1>2, <2>1
  <2> QED
    <3>1. CallsOK(calls) /\ DOMAIN entries \subseteq Ids
      BY <2>1 DEF CallsOK, Empty
    <3>2. issued \in 0 .. MaxCalls
      BY <1>3, <2>1
    <3>3. title_edit \in Edits \cup {None} /\ apart \in BOOLEAN
      BY <2>1
    <3> QED
      BY <2>2, <3>1, <3>2, <3>3 DEF WindowOK
<1>5. CountsOK /\ ServiceOK
  <2>1. asked = [id \in Ids |-> 0] /\ open = FALSE /\ edits = 0 /\ faults = 0 /\ inbox = << >>
    BY DEF Init
  <2>2. CountsOK
    <3>1. asked \in [Ids -> Nat] /\ \A id \in Ids : asked[id] <= edits
      BY <2>1
    <3>2. edits \in 0 .. MaxEdits /\ faults \in 0 .. MaxFaults
      BY <1>3, <2>1
    <3>3. open \in BOOLEAN
      BY <2>1, Zenon
    <3> QED
      BY <3>1, <3>2, <3>3 DEF CountsOK
  <2> QED
    BY <1>1, <1>3, <2>1, <2>2 DEF ServiceOK
<1> QED
  BY <1>4, <1>5, InitOwn DEF TypeInv

\* The window's own steps, and the ends of its tasks.
LEMMA WindowTyped ==
  ASSUME TypeInv, Next, UNCHANGED service
  PROVE  WindowOK'
<1> DEFINE Goal == /\ CallsOK(calls') /\ Numbered(calls', inbox, issued')
                   /\ issued' \in 0 .. MaxCalls
                   /\ DOMAIN entries' \subseteq Ids /\ title_edit' \in Edits \cup {None}
                   /\ apart' \in BOOLEAN
<1>0. /\ OwnInv /\ WindowOK /\ CallsOK(calls) /\ Derived(calls, calls)
      /\ DOMAIN entries \subseteq Ids /\ title_edit \in Edits \cup {None} /\ apart \in BOOLEAN
      /\ Numbered(calls, inbox, issued) /\ issued \in 0 .. MaxCalls
      /\ OwnList(entries) /\ OwnEdit
  BY Fewer DEF TypeInv, WindowOK, OwnInv
<1>1. SUFFICES Goal
  BY DEF WindowOK, service
<1>2. None \in AllTexts /\ \A id \in Ids : TextsOf(id) \subseteq AllTexts
  BY TextsTyped
<1> HIDE DEF Goal
<1>3. ASSUME OpenWindow PROVE Goal
  <2>1. Issue(calls, "List", None, None, apart) /\ entries' = Empty /\ title_edit' = None
    BY <1>3 DEF OpenWindow
  <2> QED
    BY <1>0, <1>2, <2>1, IssueTyped DEF Goal, Empty
<1>4. ASSUME CloseWindow PROVE Goal
  <2>1. PICK sent \in SUBSET {c \in calls : c.at = "bus"} :
          calls' = {[c EXCEPT !.awaited = FALSE] : c \in sent}
    BY <1>4 DEF CloseWindow
  <2>2. entries' = Empty /\ title_edit' = None /\ apart' = apart /\ issued' = issued
    BY <1>4 DEF CloseWindow, counts
  <2>3. \A c \in calls : CallOK([c EXCEPT !.awaited = FALSE])
                       /\ [c EXCEPT !.awaited = FALSE].n = c.n
                       /\ [c EXCEPT !.awaited = FALSE].at = c.at
    BY <1>0, GivenUp DEF CallsOK
  <2>4. \A q \in calls' : CallOK(q) /\ q.at = "bus"
    BY <2>1, <2>3
  <2>5. \A q \in calls' : \E c \in calls : q.n = c.n /\ c.at = "bus"
                                          /\ q = [c EXCEPT !.awaited = FALSE]
    <3> TAKE q \in calls'
    <3>1. PICK c \in sent : q = [c EXCEPT !.awaited = FALSE]
      BY <2>1
    <3>2. c \in calls /\ c.at = "bus"
      BY <2>1
    <3>3. q.n = c.n
      BY <2>3, <3>1, <3>2
    <3> WITNESS c \in calls
    <3> QED
      BY <3>1, <3>2, <3>3
  <2>6. Derived(calls, calls')
    <3>1. \A r, s \in calls' : r.n = s.n => r = s
      <4> SUFFICES ASSUME NEW r \in calls', NEW s \in calls', r.n = s.n PROVE r = s
        OBVIOUS
      <4>1. PICK c \in calls : r.n = c.n /\ r = [c EXCEPT !.awaited = FALSE]
        BY <2>5
      <4>2. PICK d \in calls : s.n = d.n /\ s = [d EXCEPT !.awaited = FALSE]
        BY <2>5
      <4>3. c = d
        BY <1>0, <4>1, <4>2 DEF Numbered
      <4> QED
        BY <4>1, <4>2, <4>3
    <3>2. \A r \in calls' : \E c \in calls : r.n = c.n /\ (r.at = "bus" => c.at = "bus")
      BY <2>5
    <3> QED
      BY <3>1, <3>2 DEF Derived
  <2> QED
    BY <1>0, <2>2, <2>4, <2>6, RestTyped DEF Goal, Empty, CallsOK
<1>5. ASSUME CommitTitle PROVE Goal
  BY <1>0, <1>5, SaveTyped DEF Goal, CommitTitle
<1>6. ASSUME AcceptSuggestion PROVE Goal
  <2>1. /\ title_edit' = [title_edit EXCEPT !.input = title_edit.suggestion, !.suggestion = None]
        /\ title_edit # None /\ UNCHANGED << calls, entries, issued, apart >>
    BY <1>6 DEF AcceptSuggestion
  <2>2. title_edit' \in Edits
    BY <1>0, <1>2, <2>1 DEF Edits
  <2> QED
    BY <1>0, <2>1, <2>2 DEF Goal
<1>7. ASSUME CancelTitleEdit PROVE Goal
  BY <1>0, <1>7 DEF CancelTitleEdit, Goal
<1>8. ASSUME NEW id \in Ids, BeginTitleEdit(id) PROVE Goal
  <2>1. SaveTitleEdit(calls, apart) /\ title_edit' = Editing(id) /\ id \in DOMAIN entries
    BY <1>8 DEF BeginTitleEdit
  <2>2. entries[id] \in AllTexts
    BY <1>0, <1>2, <2>1 DEF OwnList
  <2>3. Editing(id) \in Edits
    BY <1>2, <2>2 DEF Editing, Edits
  <2> QED
    BY <1>0, <2>1, <2>3, SaveTyped DEF Goal
<1>9. ASSUME NEW id \in Ids, Unfavorite(id) PROVE Goal
  <2>1. /\ entries' = Drop(entries, {id}) /\ title_edit' = title_edit
        /\ Issue(calls, "Remove", id, None, apart)
    BY <1>9 DEF Unfavorite
  <2> QED
    BY <1>0, <1>2, <2>1, IssueTyped DEF Goal, Drop
<1>10. ASSUME NEW id \in Ids, Edit(id) PROVE Goal
  BY <1>0, <1>2, <1>10, IssueTyped DEF Goal, Edit
<1>11. ASSUME NEW id \in Ids, Copy(id) PROVE Goal
  <2>1. CASE title_edit # None
    BY <1>0, <1>11, <2>1, SaveTyped DEF Goal, Copy
  <2>2. CASE title_edit = None
    BY <1>0, <1>2, <1>11, <2>2, IssueTyped DEF Goal, Copy
  <2> QED
    BY <2>1, <2>2
<1>12. ASSUME NEW id \in Ids, NEW s \in {None, Text(id, "ai")}, TitleSuggested(id, s) PROVE Goal
  <2>1. s \in AllTexts
    BY <1>2 DEF TextsOf
  <2>2. /\ UNCHANGED << calls, entries, issued, apart >>
        /\ title_edit' =
             IF ~Edited(id) THEN title_edit
             ELSE [title_edit EXCEPT !.suggestion = IF title_edit.input = None THEN s ELSE @]
    BY <1>12 DEF TitleSuggested
  <2>3. title_edit' \in Edits \cup {None}
    BY <1>0, <2>1, <2>2 DEF Edited, Edits
  <2> QED
    BY <1>0, <2>2, <2>3 DEF Goal
<1>13. ASSUME title_edit # None,
              NEW t \in {None, Text(title_edit.entry_id, "user")}, TitleInput(t)
       PROVE  Goal
  <2>1. title_edit \in Edits
    BY <1>0, <1>13
  <2>2. t \in AllTexts
    BY <1>2, <2>1 DEF TextsOf, Edits
  <2>3. /\ title_edit' = [title_edit EXCEPT !.input = t]
        /\ UNCHANGED << calls, entries, issued, apart >>
    BY <1>13 DEF TitleInput
  <2>4. title_edit' \in Edits
    BY <2>1, <2>2, <2>3 DEF Edits
  <2> QED
    BY <1>0, <2>3, <2>4 DEF Goal
<1>14. ASSUME NEW c \in calls, Returned(c) PROVE Goal
  <2>1. CallOK(c) /\ Derived(calls, calls \ {c}) /\ CallsOK(calls \ {c})
    BY <1>0, Fewer DEF CallsOK
  <2>2. DOMAIN c.reply \subseteq Ids
    BY <2>1 DEF CallOK, IsList
  <2>3. Ends(c, calls \ {c}, c.reply, apart)
    BY <1>14 DEF Returned
  <2> QED
    BY <1>0, <2>1, <2>2, <2>3, EndsTyped DEF Goal
<1>15. ASSUME NEW c \in calls, GivesUp(c) PROVE Goal
  <2> DEFINE d == [c EXCEPT !.awaited = FALSE]
  <2>1. PICK sent \in SUBSET (IF c.at = "bus" THEN {d} ELSE {}) :
          Ends(c, (calls \ {c}) \cup sent, Empty, TRUE)
    BY <1>15 DEF GivesUp
  <2>2. CallOK(c)
    BY <1>0 DEF CallsOK
  <2>3. CallOK(d) /\ d.n = c.n /\ d.at = c.at
    BY <2>2, GivenUp
  <2> HIDE DEF d
  <2>4. \A r \in sent : r = d /\ c.at = "bus"
    BY <2>1
  <2> DEFINE rest == (calls \ {c}) \cup sent
  <2>5. CallsOK(rest)
    BY <1>0, <2>3, <2>4 DEF CallsOK
  <2>6. Derived(calls, rest)
    BY <1>0, <2>3, <2>4 DEF Derived, Numbered
  <2>7. DOMAIN Empty \subseteq Ids
    BY DEF Empty
  <2>8. Ends(c, rest, Empty, TRUE)
    BY <2>1
  <2> HIDE DEF rest
  <2> QED
    BY <1>0, <2>2, <2>5, <2>6, <2>7, <2>8, EndsTyped DEF Goal
<1>16. ASSUME HandleCall PROVE Goal
  <2> DEFINE T == Range(inbox)
  <2>1. inbox \in Seq(T) /\ inbox # << >> /\ inbox = Tail(inbox)
    BY <1>0, <1>16, InboxSeq DEF HandleCall, service
  <2> HIDE DEF T
  <2>2. FALSE
    BY <2>1
  <2> QED
    BY <2>2
<1>17. ASSUME NEW c \in calls, Accept(c) PROVE Goal
  <2> DEFINE T == Range(inbox) \cup {c}
  <2>1. inbox \in Seq(T) /\ c \in T /\ inbox = Append(inbox, c)
    BY <1>0, <1>17, InboxSeq DEF Accept, service
  <2> HIDE DEF T
  <2>2. FALSE
    BY <2>1
  <2> QED
    BY <2>2
<1>18. ASSUME OtherChange PROVE Goal
  BY <1>0, <1>18 DEF OtherChange, Goal
<1> QED
  BY <1>3, <1>4, <1>5, <1>6, <1>7, <1>8, <1>9, <1>10, <1>11, <1>12, <1>13, <1>14, <1>15,
     <1>16, <1>17, <1>18 DEF Next

\* A call is taken by the service, and handled by the applet.
LEMMA AcceptTyped ==
  ASSUME TypeInv, NEW c \in calls, Accept(c)
  PROVE  WindowOK' /\ ServiceOK'
<1>0. /\ WindowOK /\ ServiceOK /\ CallsOK(calls) /\ inbox \in Seq(Range(inbox))
      /\ issued \in 0 .. MaxCalls /\ Numbered(calls, inbox, issued)
  BY InboxSeq DEF TypeInv, WindowOK
<1>1. /\ c.at = "bus" /\ Len(inbox) < Capacity
      /\ inbox' = Append(inbox, c) /\ calls' = (calls \ {c}) \cup Waiting(c)
      /\ UNCHANGED << db, entries, title_edit, issued, apart >>
  BY DEF Accept
<1>2. \A q \in calls : CallOK(q) /\ (q.awaited \/ q.at = "bus")
  BY <1>0 DEF CallsOK
<1>3. Numbered(calls', inbox', issued')
  <2>1. \A q \in calls : DOMAIN q = {"n", "kind", "id", "title", "at", "awaited", "reply"}
    BY <1>2 DEF CallOK
  <2>2. issued \in Nat
    BY <1>0
  <2> QED
    BY <1>0, <2>1, <2>2, NumberedAccept
<1>4. CallsOK(calls')
  <2>1. \A q \in Waiting(c) : CallOK(q) /\ q.awaited
    <3>1. CASE ~c.awaited
      BY <3>1 DEF Waiting
    <3>2. CASE c.awaited
      <4> DEFINE at == IF c.kind \in {"List", "Copy"} THEN "queued" ELSE "done"
      <4>1. Waiting(c) = {[c EXCEPT !.id = None, !.title = None, !.at = at]}
        BY <3>2 DEF Waiting
      <4>2. at \in {"queued", "done"}
        OBVIOUS
      <4> HIDE DEF at
      <4>3. CallOK([c EXCEPT !.id = None, !.title = None, !.at = at])
        BY <1>2, <4>2, TextsTyped DEF CallOK
      <4>4. [c EXCEPT !.id = None, !.title = None, !.at = at].awaited = c.awaited
        BY <1>2 DEF CallOK
      <4> QED
        BY <3>2, <4>1, <4>3, <4>4
    <3> QED
      BY <3>1, <3>2
  <2> QED
    BY <1>1, <1>2, <2>1 DEF CallsOK
<1>5. Len(inbox') <= Capacity /\ \A i \in DOMAIN inbox' : CallOK(inbox'[i])
  <2> DEFINE T == {q \in Range(inbox) \cup {c} : CallOK(q)}
             g == Append(inbox, c)
             k == Len(inbox)
  <2>1. \A i \in DOMAIN inbox : inbox[i] \in T
    BY <1>0 DEF ServiceOK, Range
  <2>2. c \in T
    BY <1>2
  <2>3. inbox \in Seq(Range(inbox))
    BY <1>0
  <2> DEFINE R == Range(inbox)
  <2> HIDE DEF T, R
  <2>4. inbox \in Seq(R)
    BY <2>3 DEF R
  <2>5. inbox \in Seq(T)
    BY <2>1, <2>4
  <2>6. g \in Seq(T) /\ Len(g) = k + 1 /\ k \in Nat
    BY <2>2, <2>5
  <2> HIDE DEF g
  <2>7. \A i \in DOMAIN g : g[i] \in T
    BY <2>6
  <2>8. Len(g) <= Capacity
    BY <1>1, <2>6, WindowAssumption
  <2> QED
    BY <1>1, <2>7, <2>8 DEF T, g
<1> QED
  BY <1>0, <1>1, <1>3, <1>4, <1>5 DEF WindowOK, ServiceOK

LEMMA HandleTyped ==
  ASSUME TypeInv, HandleCall
  PROVE  WindowOK' /\ ServiceOK'
<1>0. /\ OwnInv /\ WindowOK /\ ServiceOK /\ CallsOK(calls) /\ inbox \in Seq(Range(inbox))
      /\ issued \in 0 .. MaxCalls /\ Numbered(calls, inbox, issued)
  BY InboxSeq DEF TypeInv, WindowOK
<1> DEFINE head == Head(inbox)
           answered == {q \in calls : q.n = head.n /\ q.at = "queued"}
           list == IF head.kind = "List" THEN Favorites(db) ELSE Empty
           Answer(q) == [q EXCEPT !.at = "done", !.reply = list]
<1>1. /\ inbox # << >> /\ inbox' = Tail(inbox)
      /\ calls' = (calls \ answered) \cup {Answer(q) : q \in answered}
      /\ UNCHANGED << entries, title_edit, issued, apart >>
  BY DEF HandleCall
<1>2. Calm(db')
  BY <1>0, HandleEffect DEF ServiceOK
<1>3. IsList(list)
  <2>1. IsList(Favorites(db))
    BY <1>0, FavoritesTyped DEF ServiceOK, OwnInv
  <2>2. IsList(Empty)
    BY DEF IsList, Empty
  <2> QED
    BY <2>1, <2>2
<1>4. \A q \in calls : CallOK(q) /\ (q.awaited \/ q.at = "bus")
  BY <1>0 DEF CallsOK
<1> HIDE DEF list
<1>5. \A q \in answered : /\ CallOK(Answer(q)) /\ Answer(q).n = q.n
                          /\ Answer(q).at = "done" /\ Answer(q).awaited = q.awaited
  BY <1>3, <1>4 DEF CallOK
<1>6. answered \subseteq calls /\ \A q \in answered : q.at = "queued"
  OBVIOUS
<1> HIDE DEF answered, Answer
<1>7. CallsOK(calls')
  BY <1>1, <1>4, <1>5, <1>6 DEF CallsOK
<1>8. Derived(calls, calls')
  <2>1. \A r \in calls' : \E c \in calls : r.n = c.n /\ (r.at = "bus" => c.at = "bus")
    BY <1>1, <1>5, <1>6
  <2>2. \A r, s \in calls' : r.n = s.n => r = s
    <3> SUFFICES ASSUME NEW r \in calls', NEW s \in calls', r.n = s.n PROVE r = s
      OBVIOUS
    <3>1. \A c, d \in calls : c.n = d.n => c = d
      BY <1>0 DEF Numbered
    <3> QED
      BY <1>1, <1>5, <1>6, <3>1
  <2> QED
    BY <2>1, <2>2 DEF Derived
<1>9. Numbered(calls', inbox', issued')
  <2>1. issued \in Nat /\ issued' = issued
    BY <1>0, <1>1
  <2>2. Numbered(calls', Tail(inbox), issued)
    BY <1>0, <1>1, <1>8, <2>1, NumberedLess
  <2> QED
    BY <1>1, <2>1, <2>2
<1>10. Len(inbox') <= Capacity /\ \A i \in DOMAIN inbox' : CallOK(inbox'[i])
  <2> DEFINE R == Range(inbox)
  <2>1. inbox \in Seq(R)
    BY <1>0
  <2>2. \A i \in DOMAIN inbox : CallOK(inbox[i])
    BY <1>0 DEF ServiceOK
  <2>3. Len(inbox) <= Capacity /\ Capacity \in Nat
    BY <1>0, WindowAssumption DEF ServiceOK
  <2> HIDE DEF R
  <2> DEFINE t == Tail(inbox)
  <2>4. /\ Len(t) = Len(inbox) - 1 /\ Len(inbox) \in Nat
        /\ \A i \in DOMAIN t : i + 1 \in DOMAIN inbox /\ t[i] = inbox[i + 1]
    BY <1>1, <2>1
  <2> HIDE DEF t
  <2>5. \A i \in DOMAIN t : CallOK(t[i])
    BY <2>2, <2>4
  <2>6. Len(t) <= Capacity
    BY <2>3, <2>4
  <2> QED
    BY <1>1, <2>5, <2>6 DEF t
<1> QED
  BY <1>0, <1>1, <1>2, <1>7, <1>9, <1>10 DEF WindowOK, ServiceOK

LEMMA CountsTyped ==
  ASSUME CountsOK, Next
  PROVE  CountsOK'
<1>0. /\ asked \in [Ids -> Nat] /\ (\A id \in Ids : asked[id] <= edits)
      /\ open \in BOOLEAN /\ edits \in 0 .. MaxEdits /\ faults \in 0 .. MaxFaults
      /\ MaxEdits \in Nat /\ MaxFaults \in Nat
  BY WindowAssumption DEF CountsOK
<1>1. open' \in BOOLEAN
  BY <1>0, Zenon DEF Next, OpenWindow, CloseWindow, CommitTitle, AcceptSuggestion, CancelTitleEdit,
         BeginTitleEdit, Unfavorite, Edit, Copy, TitleSuggested, TitleInput, Accept, Returned,
         GivesUp, HandleCall, OtherChange
<1>2. edits' \in 0 .. MaxEdits /\ edits <= edits'
  <2>1. edits' = edits \/ (edits < MaxEdits /\ edits' = edits + 1)
    BY DEF Next, OpenWindow, CloseWindow, CommitTitle, AcceptSuggestion, CancelTitleEdit,
           BeginTitleEdit, Unfavorite, Edit, Copy, TitleSuggested, TitleInput, Accept, Returned,
           GivesUp, HandleCall, OtherChange, counts
  <2> QED
    BY <1>0, <2>1
<1>3. faults' \in 0 .. MaxFaults
  <2>1. faults' = faults \/ (faults < MaxFaults /\ faults' = faults + 1)
    BY DEF Next, OpenWindow, CloseWindow, CommitTitle, AcceptSuggestion, CancelTitleEdit,
           BeginTitleEdit, Unfavorite, Edit, Copy, TitleSuggested, TitleInput, Accept, Returned,
           GivesUp, HandleCall, OtherChange, counts
  <2> QED
    BY <1>0, <2>1
<1>4. asked' \in [Ids -> Nat] /\ \A id \in Ids : asked'[id] <= edits'
  <2>1. \/ asked' = asked \/ asked' = [id \in Ids |-> 0]
        \/ \E id \in Ids : asked' = [asked EXCEPT ![id] = @ + 1] /\ edits' = edits + 1
        \/ \E id \in Ids : asked[id] > 0 /\ asked' = [asked EXCEPT ![id] = @ - 1]
    BY DEF Next, OpenWindow, CloseWindow, CommitTitle, AcceptSuggestion, CancelTitleEdit,
           BeginTitleEdit, Unfavorite, Edit, Copy, TitleSuggested, TitleInput, Accept, Returned,
           GivesUp, HandleCall, OtherChange
  <2>2. edits \in Nat /\ edits' \in Nat /\ edits <= edits'
    BY <1>0, <1>2
  <2>3. CASE asked' = asked
    BY <1>0, <2>2, <2>3
  <2>4. CASE asked' = [id \in Ids |-> 0]
    BY <2>2, <2>4
  <2>5. ASSUME NEW id \in Ids, asked' = [asked EXCEPT ![id] = @ + 1], edits' = edits + 1
        PROVE  asked' \in [Ids -> Nat] /\ \A x \in Ids : asked'[x] <= edits'
    BY <1>0, <2>2, <2>5
  <2>6. ASSUME NEW id \in Ids, asked[id] > 0, asked' = [asked EXCEPT ![id] = @ - 1]
        PROVE  asked' \in [Ids -> Nat] /\ \A x \in Ids : asked'[x] <= edits'
    BY <1>0, <2>2, <2>6
  <2> QED
    BY <2>1, <2>3, <2>4, <2>5, <2>6
<1> QED
  BY <1>1, <1>2, <1>3, <1>4 DEF CountsOK

LEMMA NextTyped == TypeInv /\ [Next]_vars => TypeInv'
<1> SUFFICES ASSUME TypeInv, [Next]_vars PROVE TypeInv'
  OBVIOUS
<1>0. OwnInv /\ WindowOK /\ CountsOK /\ ServiceOK
  BY DEF TypeInv
<1>1. OwnInv'
  BY <1>0, NextOwn
<1>2. CASE UNCHANGED vars
  <2>1. /\ WindowOK' = WindowOK /\ CountsOK' = CountsOK /\ ServiceOK' = ServiceOK
    BY <1>2 DEF vars, service, counts, WindowOK, CountsOK, ServiceOK
  <2> QED
    BY <1>0, <1>1, <2>1 DEF TypeInv
<1>3. CASE Next
  <2>1. CountsOK'
    BY <1>0, <1>3, CountsTyped
  <2>2. CASE UNCHANGED service
    <3>1. ServiceOK'
      BY <1>0, <2>2 DEF ServiceOK, service
    <3> QED
      BY <1>1, <1>3, <2>1, <2>2, <3>1, WindowTyped DEF TypeInv
  <2>3. CASE HandleCall
    BY <1>1, <2>1, <2>3, HandleTyped DEF TypeInv
  <2>4. ASSUME NEW c \in calls, Accept(c) PROVE TypeInv'
    BY <1>1, <2>1, <2>4, AcceptTyped DEF TypeInv
  <2>5. CASE OtherChange
    <3>1. UNCHANGED << inbox, calls, entries, title_edit, issued >> /\ apart' = TRUE
      BY <2>5 DEF OtherChange
    <3>2. WindowOK'
      BY <1>0, <3>1 DEF WindowOK
    <3>3. Calm(db')
      BY <1>0, <2>5, CallCalm, DeleteCalm DEF OtherChange, ServiceOK
    <3>4. ServiceOK'
      BY <1>0, <3>1, <3>3 DEF ServiceOK
    <3> QED
      BY <1>1, <2>1, <3>2, <3>4 DEF TypeInv
  <2>6. HandleCall \/ OtherChange \/ (\E c \in calls : Accept(c)) \/ UNCHANGED service
    BY <1>3 DEF Next, OpenWindow, CloseWindow, CommitTitle, AcceptSuggestion, CancelTitleEdit,
           BeginTitleEdit, Unfavorite, Edit, Copy, TitleSuggested, TitleInput, Returned, GivesUp
  <2> QED
    BY <2>2, <2>3, <2>4, <2>5, <2>6
<1> QED
  BY <1>2, <1>3

LEMMA TypeInvOK == TypeInv => TypeOK
<1> SUFFICES ASSUME TypeInv PROVE TypeOK
  OBVIOUS
<1>1. OwnInv /\ WindowOK /\ CountsOK /\ ServiceOK
  BY DEF TypeInv
<1>2. IsList(Favorites(db)) /\ ~db.panicked
  <2>1. IsList(Favorites(db))
    BY <1>1, FavoritesTyped DEF OwnInv, ServiceOK
  <2>2. db.panicked = FALSE
    BY <1>1 DEF ServiceOK, Calm
  <2> QED
    BY <2>1, <2>2
<1>3. IsList(entries)
  BY <1>1, ListTyped DEF OwnInv, WindowOK
<1>4. asked \in [Ids -> 0 .. MaxEdits]
  <2>1. asked \in [Ids -> Nat] /\ \A id \in Ids : asked[id] <= MaxEdits
    BY <1>1, WindowAssumption DEF CountsOK
  <2>2. \A id \in Ids : asked[id] \in 0 .. MaxEdits
    BY <2>1, WindowAssumption
  <2> QED
    BY <2>1, <2>2
<1>5. /\ \A i \in DOMAIN inbox : CallOK(inbox[i])
      /\ Len(inbox) <= Capacity
      /\ open \in BOOLEAN /\ edits \in 0 .. MaxEdits /\ faults \in 0 .. MaxFaults
  BY <1>1 DEF ServiceOK, CountsOK
<1>6. /\ \A c \in calls : CallOK(c) /\ (c.awaited \/ c.at = "bus")
      /\ title_edit \in Edits \cup {None} /\ issued \in 0 .. MaxCalls /\ apart \in BOOLEAN
  BY <1>1 DEF WindowOK, CallsOK
<1> QED
  BY <1>2, <1>3, <1>4, <1>5, <1>6 DEF TypeOK, Edits

\* The window, its calls, the service's queue and the applet keep their types, and
\* a call that nobody waits for is only ever on its way to the service.
THEOREM TypeOKHolds == Spec => []TypeOK
  BY InitTyped, NextTyped, TypeInvOK, PTL DEF Spec

-----------------------------------------------------------------------------
(* Window and applet agree                                                 *)

\* The list e is what the list f will be once the calls p have been carried
\* out on it; g is the list before and after each of them.
Leads(f, p, e) ==
  \E g : /\ g[0] = f /\ g[Len(p)] = e
         /\ \A i \in 1 .. Len(p) : g[i] = Effect(p[i], g[i - 1])

Lists == {c \in calls : c.kind = "List"}
OnBus == {c \in calls : c.at = "bus"}

\* No list is asked for, and the window's is what the applet's will be once the
\* queue, and the one call on the bus, have been handled.
Following ==
  /\ Lists = {}
  /\ \E p : /\ \/ OnBus = {} /\ p = inbox
               \/ \E c : OnBus = {c} /\ p = Append(inbox, c)
            /\ Leads(Favorites(db), p, entries)

\* The list l is asked for behind everything else, or was answered with what
\* the applet still has.
AskedLast(l) ==
  \/ l.at = "bus"
  \/ l.at = "queued" /\ inbox # << >> /\ inbox[Len(inbox)].n = l.n
     /\ inbox[Len(inbox)].kind = "List"
  \/ l.at = "done" /\ inbox = << >> /\ l.reply = Favorites(db)

Listing ==
  \E l : Lists = {l} /\ OnBus \subseteq {l} /\ l.awaited /\ AskedLast(l)

Agreeing == open /\ ~apart => Listing \/ Following

LEMMA LeadsNowhere ==
  ASSUME NEW f, NEW e
  PROVE  Leads(f, << >>, e) <=> e = f
<1>1. Len(<< >>) = 0
  OBVIOUS
<1>2. ASSUME Leads(f, << >>, e) PROVE e = f
  BY <1>1, <1>2 DEF Leads
<1>3. ASSUME e = f PROVE Leads(f, << >>, e)
  <2> DEFINE g == [i \in {0} |-> f]
  <2>1. g[0] = f /\ g[Len(<< >>)] = e
    BY <1>1, <1>3
  <2>2. \A i \in 1 .. Len(<< >>) : g[i] = Effect(<< >>[i], g[i - 1])
    BY <1>1
  <2> QED
    BY <2>1, <2>2 DEF Leads
<1> QED
  BY <1>2, <1>3

LEMMA LeadsOn ==
  ASSUME NEW T, NEW p \in Seq(T), NEW c \in T, NEW f, NEW e, Leads(f, p, e)
  PROVE  Leads(f, Append(p, c), Effect(c, e))
<1> DEFINE n == Len(p)
           q == Append(p, c)
<1>1. PICK g : /\ g[0] = f /\ g[n] = e
               /\ \A i \in 1 .. n : g[i] = Effect(p[i], g[i - 1])
  BY DEF Leads
<1> DEFINE h == [i \in 0 .. n + 1 |-> IF i = n + 1 THEN Effect(c, e) ELSE g[i]]
<1>2. /\ n \in Nat /\ Len(q) = n + 1 /\ q[n + 1] = c
      /\ \A i \in 1 .. n : q[i] = p[i]
  OBVIOUS
<1> HIDE DEF n, q
<1>3. h[0] = f /\ h[n + 1] = Effect(c, e) /\ h[n] = e
  BY <1>1, <1>2
<1>4. \A i \in 1 .. n : h[i] = g[i] /\ h[i - 1] = g[i - 1]
  BY <1>2
<1> HIDE DEF h
<1>5. \A i \in 1 .. n + 1 : h[i] = Effect(q[i], h[i - 1])
  <2> TAKE i \in 1 .. n + 1
  <2>1. CASE i = n + 1
    <3>1. i - 1 = n
      BY <1>2, <2>1
    <3> QED
      BY <1>2, <1>3, <2>1, <3>1
  <2>2. CASE i # n + 1
    <3>1. i \in 1 .. n
      BY <1>2, <2>2
    <3> QED
      BY <1>1, <1>2, <1>4, <3>1
  <2> QED
    BY <2>1, <2>2
<1>6. Leads(f, q, Effect(c, e))
  BY <1>2, <1>3, <1>5 DEF Leads
<1> QED
  BY <1>6 DEF q

LEMMA LeadsBack ==
  ASSUME NEW T, NEW p \in Seq(T), p # << >>, NEW f, NEW e, Leads(f, p, e)
  PROVE  Leads(Effect(Head(p), f), Tail(p), e)
<1> DEFINE n == Len(p)
           q == Tail(p)
           c == Head(p)
<1>1. PICK g : /\ g[0] = f /\ g[n] = e
               /\ \A i \in 1 .. n : g[i] = Effect(p[i], g[i - 1])
  BY DEF Leads
<1> DEFINE h == [i \in 0 .. n - 1 |-> g[i + 1]]
<1>2. /\ n \in Nat \ {0} /\ Len(q) = n - 1 /\ p[1] = c
      /\ \A i \in 1 .. n - 1 : q[i] = p[i + 1]
  OBVIOUS
<1> HIDE DEF n, q, c
<1>3. g[1] = Effect(c, f)
  <2>1. 1 \in 1 .. n /\ 1 - 1 = 0
    BY <1>2
  <2> QED
    BY <1>1, <1>2, <2>1
<1>4. h[0] = Effect(c, f) /\ h[n - 1] = e
  BY <1>1, <1>2, <1>3
<1>5. \A i \in 1 .. n - 1 : h[i] = Effect(q[i], h[i - 1])
  <2> TAKE i \in 1 .. n - 1
  <2>1. h[i] = g[i + 1] /\ h[i - 1] = g[i] /\ i + 1 \in 1 .. n /\ (i + 1) - 1 = i
    BY <1>2
  <2> HIDE DEF h
  <2> QED
    BY <1>1, <1>2, <2>1
<1> HIDE DEF h
<1>6. Leads(Effect(c, f), q, e)
  BY <1>2, <1>4, <1>5 DEF Leads
<1> QED
  BY <1>6 DEF q, c

\* A list asked for when nothing can cross it is the last thing asked for.
LEMMA IssueList ==
  ASSUME NEW rest, NEW id, NEW title, NEW differ, Issue(rest, "List", id, title, differ), ~apart'
  PROVE  Listing'
<1>0. PICK l : l = Call("List", id, title)
  OBVIOUS
<1>1. calls' = rest \cup {l} /\ \A c \in rest : c.at # "bus" /\ c.kind # "List"
  BY <1>0 DEF Issue, Crosses
<1>2. l.kind = "List" /\ l.at = "bus" /\ l.awaited = TRUE
  BY <1>0 DEF Call
<1>3. Lists' = {l} /\ OnBus' = {l}
  BY <1>1, <1>2 DEF Lists, OnBus
<1>4. AskedLast(l)'
  BY <1>2 DEF AskedLast
<1> QED
  BY <1>2, <1>3, <1>4 DEF Listing

\* The calls that end leave lists and bus alone.
Spares(rest) ==
  /\ rest \subseteq calls
  /\ \A c \in calls \ rest : c.kind # "List" /\ c.at # "bus"

\* Another call, that the window has carried out on its own list already.
LEMMA IssueOther ==
  ASSUME inbox \in Seq(Range(inbox)), open, Agreeing, NEW rest, Spares(rest),
         NEW kind, kind # "List", NEW id, NEW title, Issue(rest, kind, id, title, apart),
         entries' = Effect(Call(kind, id, title), entries), UNCHANGED service, ~apart'
  PROVE  Following'
<1> DEFINE c == Call(kind, id, title)
<1>1. /\ calls' = rest \cup {c} /\ ~apart
      /\ \A q \in rest : q.at # "bus" /\ q.kind # "List"
  BY DEF Issue, Crosses
<1>2. c.kind # "List" /\ c.at = "bus"
  BY DEF Call
<1>3. entries' = Effect(c, entries) /\ inbox' = inbox /\ db' = db
  BY DEF service
<1> HIDE DEF c
<1>4. Lists = {} /\ OnBus = {}
  BY <1>1 DEF Spares, Lists, OnBus
<1>5. Following
  BY <1>1, <1>4 DEF Agreeing, Listing
<1>6. Leads(Favorites(db), inbox, entries)
  BY <1>4, <1>5 DEF Following
<1>7. Leads(Favorites(db), Append(inbox, c), Effect(c, entries))
  <2> DEFINE T == Range(inbox) \cup {c}
  <2>1. inbox \in Seq(T) /\ c \in T
    OBVIOUS
  <2> HIDE DEF T
  <2> QED
    BY <1>6, <2>1, LeadsOn
<1>8. Lists' = {} /\ OnBus' = {c}
  BY <1>1, <1>2 DEF Lists, OnBus
<1> QED
  BY <1>3, <1>7, <1>8 DEF Following

\* Steps that concern neither lists, bus, queue, store nor the window's list.
LEMMA AgreeingStays ==
  ASSUME Agreeing, open, ~apart, Lists' = Lists, OnBus' = OnBus, UNCHANGED << service, entries >>
  PROVE  (Listing \/ Following)'
<1>1. inbox' = inbox /\ db' = db /\ entries' = entries
  BY DEF service
<1>2. CASE Listing
  BY <1>1, <1>2 DEF Listing, AskedLast
<1>3. CASE Following
  BY <1>1, <1>3 DEF Following
<1> QED
  BY <1>2, <1>3 DEF Agreeing

LEMMA SaveAgrees ==
  ASSUME inbox \in Seq(Range(inbox)), open, Agreeing, NEW rest, Spares(rest),
         SaveTitleEdit(rest, apart), UNCHANGED service, ~apart'
  PROVE  (Listing \/ Following)'
<1>1. CASE Unsaved
  <2> DEFINE id == title_edit.entry_id
             title == title_edit.input
  <2>1. /\ entries' = [x \in DOMAIN entries |-> IF x = id THEN title ELSE entries[x]]
        /\ Issue(rest, "Set", id, title, apart)
    BY <1>1 DEF SaveTitleEdit
  <2> HIDE DEF id, title
  <2>2. LET c == Call("Set", id, title) IN c.kind = "Set" /\ c.id = id /\ c.title = title
    BY DEF Call
  <2>3. entries' = Effect(Call("Set", id, title), entries)
    BY <2>1, <2>2 DEF Effect
  <2> QED
    BY <2>1, <2>3, IssueOther
<1>2. CASE ~Unsaved
  <2>1. calls' = rest /\ apart' = apart /\ entries' = entries
    BY <1>2 DEF SaveTitleEdit
  <2>2. Lists' = Lists /\ OnBus' = OnBus
    BY <2>1 DEF Lists, OnBus, Spares
  <2> QED
    BY <2>1, <2>2, AgreeingStays
<1> QED
  BY <1>1, <1>2

LEMMA AcceptAgrees ==
  ASSUME TypeInv, Agreeing, open, ~apart, NEW c \in calls, Accept(c)
  PROVE  (Listing \/ Following)'
<1>1. /\ c.at = "bus" /\ inbox' = Append(inbox, c) /\ calls' = (calls \ {c}) \cup Waiting(c)
      /\ db' = db /\ entries' = entries
  BY DEF Accept
<1>2. inbox \in Seq(Range(inbox)) /\ CallOK(c) /\ c \in OnBus
  BY <1>1, InboxSeq DEF TypeInv, WindowOK, CallsOK, OnBus
<1>3. \A w \in Waiting(c) :
        w.n = c.n /\ w.kind = c.kind /\ w.awaited = c.awaited /\ w.at # "bus"
        /\ (w.kind = "List" => w.at = "queued")
  BY <1>2 DEF Waiting, CallOK
<1>4. /\ inbox' # << >> /\ inbox'[Len(inbox')] = c
  <2> DEFINE T == Range(inbox) \cup {c}
             q == Append(inbox, c)
  <2>1. inbox \in Seq(T) /\ c \in T
    BY <1>2
  <2> HIDE DEF T
  <2>2. q # << >> /\ q[Len(q)] = c
    BY <2>1
  <2> QED
    BY <1>1, <2>2
<1>5. CASE Listing
  <2>1. PICK l : Lists = {l} /\ OnBus \subseteq {l} /\ l.awaited /\ AskedLast(l)
    BY <1>5 DEF Listing
  <2>2. c = l /\ OnBus = {c} /\ l.kind = "List"
    BY <1>2, <2>1 DEF Lists
  <2>3. PICK w : Waiting(c) = {w}
    BY <2>1, <2>2 DEF Waiting
  <2>4. w.n = c.n /\ w.kind = "List" /\ w.awaited = c.awaited /\ w.at = "queued"
    BY <1>3, <2>2, <2>3
  <2>5. Lists' = {w} /\ OnBus' = {}
    BY <1>1, <2>1, <2>2, <2>3, <2>4 DEF Lists, OnBus
  <2>6. AskedLast(w)'
    BY <1>4, <2>2, <2>4 DEF AskedLast
  <2>7. w.awaited
    BY <2>1, <2>2, <2>4, Zenon
  <2> QED
    BY <2>5, <2>6, <2>7 DEF Listing
<1>6. CASE Following
  <2>1. PICK p : /\ \/ OnBus = {} /\ p = inbox
                    \/ \E d : OnBus = {d} /\ p = Append(inbox, d)
                 /\ Leads(Favorites(db), p, entries)
    BY <1>6 DEF Following
  <2>2. OnBus = {c} /\ p = Append(inbox, c) /\ Lists = {}
    BY <1>2, <1>6, <2>1 DEF Following
  <2>3. Lists' = {} /\ OnBus' = {}
    BY <1>1, <1>3, <2>2 DEF Lists, OnBus
  <2> QED
    BY <1>1, <2>1, <2>2, <2>3 DEF Following
<1> QED
  BY <1>5, <1>6 DEF Agreeing

LEMMA HandleAgrees ==
  ASSUME TypeInv, Agreeing, open, ~apart, HandleCall
  PROVE  (Listing \/ Following)'
<1> DEFINE head == Head(inbox)
           answered == {q \in calls : q.n = head.n /\ q.at = "queued"}
           list == IF head.kind = "List" THEN Favorites(db) ELSE Empty
           Answer(q) == [q EXCEPT !.at = "done", !.reply = list]
<1>1. /\ inbox # << >> /\ inbox' = Tail(inbox)
      /\ calls' = (calls \ answered) \cup {Answer(q) : q \in answered}
      /\ entries' = entries
  BY DEF HandleCall
<1>2. Favorites(db') = Effect(head, Favorites(db)) /\ (head.kind = "List" => db' = db)
  <2>1. Favorites(db') = Effect(head, Favorites(db))
    BY HandleEffect DEF TypeInv, ServiceOK
  <2>2. head.kind = "List" => db' = db
    BY DEF HandleCall
  <2> QED
    BY <2>1, <2>2
<1>3. /\ inbox \in Seq(Range(inbox))
      /\ \A c, d \in calls : c.n = d.n => c = d
      /\ \A i, j \in DOMAIN inbox : inbox[i].n = inbox[j].n => i = j
      /\ \A c \in calls : CallOK(c)
  BY InboxSeq DEF TypeInv, WindowOK, CallsOK, Numbered
<1>4. \A q \in answered :
        /\ Answer(q).n = q.n /\ Answer(q).kind = q.kind /\ Answer(q).awaited = q.awaited
        /\ Answer(q).at = "done" /\ Answer(q).reply = list
  BY <1>3 DEF CallOK
<1>5. answered \subseteq calls /\ \A q \in answered : q.n = head.n /\ q.at = "queued"
  OBVIOUS
<1>6. \A q \in calls : q.n = head.n /\ q.at = "queued" => q \in answered
  OBVIOUS
<1> HIDE DEF answered, Answer
<1>7. OnBus' = OnBus
  <2>1. \A q \in answered : q.at # "bus" /\ Answer(q).at # "bus"
    BY <1>4, <1>5
  <2> QED
    BY <1>1, <2>1 DEF OnBus
<1>8. CASE Following
  <2>1. PICK p : /\ \/ OnBus = {} /\ p = inbox
                    \/ \E d : OnBus = {d} /\ p = Append(inbox, d)
                 /\ Leads(Favorites(db), p, entries)
    BY <1>8 DEF Following
  <2>2. Lists' = {}
    BY <1>1, <1>4, <1>5, <1>8 DEF Following, Lists
  <2>3. /\ Head(p) = head /\ Leads(Effect(Head(p), Favorites(db)), Tail(p), entries)
        /\ \/ OnBus = {} /\ Tail(p) = Tail(inbox)
           \/ \E d : OnBus = {d} /\ Tail(p) = Append(Tail(inbox), d)
    <3>1. CASE OnBus = {} /\ p = inbox
      <4> DEFINE T == Range(inbox)
      <4>1. p \in Seq(T) /\ p # << >>
        BY <1>1, <1>3, <3>1
      <4> HIDE DEF T
      <4> QED
        BY <2>1, <3>1, <4>1, LeadsBack
    <3>2. ASSUME NEW d, OnBus = {d}, p = Append(inbox, d)
          PROVE  /\ Head(p) = head /\ Leads(Effect(Head(p), Favorites(db)), Tail(p), entries)
                 /\ Tail(p) = Append(Tail(inbox), d)
      <4> DEFINE T == Range(inbox) \cup {d}
      <4>1. inbox \in Seq(T) /\ inbox # << >> /\ d \in T
        BY <1>1, <1>3
      <4> HIDE DEF T
      <4>2. /\ p \in Seq(T) /\ p # << >> /\ Head(p) = Head(inbox)
            /\ Tail(p) = Append(Tail(inbox), d)
        BY <3>2, <4>1
      <4> QED
        BY <2>1, <4>2, LeadsBack
    <3> QED
      BY <2>1, <3>1, <3>2
  <2>4. Leads(Favorites(db'), Tail(p), entries)
    BY <1>2, <2>3
  <2> QED
    BY <1>1, <1>7, <2>2, <2>3, <2>4 DEF Following
<1>9. CASE Listing
  <2>1. PICK l : Lists = {l} /\ OnBus \subseteq {l} /\ l.awaited /\ AskedLast(l)
    BY <1>9 DEF Listing
  <2>2. l \in calls /\ l.kind = "List" /\ \A q \in calls : q.kind = "List" => q = l
    BY <2>1 DEF Lists
  <2>3. ASSUME l \notin answered PROVE Lists' = {l}
    BY <1>1, <1>4, <1>5, <2>2, <2>3 DEF Lists
  <2>4. CASE l.at = "bus"
    <3>1. l \notin answered
      BY <1>5, <2>4
    <3>2. AskedLast(l)'
      BY <2>4 DEF AskedLast
    <3> QED
      BY <1>7, <2>1, <2>3, <3>1, <3>2 DEF Listing
  <2>5. CASE l.at = "queued"
    <3> DEFINE k == Len(inbox)
               T == Range(inbox)
               t == Tail(inbox)
    <3>1. inbox[k].n = l.n /\ inbox[k].kind = "List"
      BY <2>1, <2>5 DEF AskedLast
    <3>2. inbox \in Seq(T) /\ inbox # << >>
      BY <1>1, <1>3
    <3> HIDE DEF T
    <3>3. /\ k \in Nat \ {0} /\ head = inbox[1] /\ 1 \in DOMAIN inbox /\ k \in DOMAIN inbox
          /\ k = 1 => t = << >>
          /\ k # 1 => t # << >> /\ t[Len(t)] = inbox[k]
      <4>1. /\ k \in Nat \ {0} /\ head = inbox[1] /\ DOMAIN inbox = 1 .. k
            /\ t \in Seq(T) /\ Len(t) = k - 1 /\ \A i \in 1 .. k - 1 : t[i] = inbox[i + 1]
        BY <3>2
      <4> HIDE DEF t, k, head
      <4>2. CASE k = 1
        BY <4>1, <4>2
      <4>3. CASE k # 1
        <5>1. k - 1 \in 1 .. k - 1 /\ (k - 1) + 1 = k
          BY <4>1, <4>3
        <5> QED
          BY <4>1, <4>3, <5>1
      <4> QED
        BY <4>2, <4>3
    <3> HIDE DEF t, k
    <3>4. CASE k = 1
      <4>1. l \in answered /\ head.kind = "List" /\ \A q \in answered : q = l
        BY <1>3, <1>5, <1>6, <2>2, <2>5, <3>1, <3>3, <3>4
      <4>2. list = Favorites(db) /\ db' = db /\ inbox' = << >>
        BY <1>1, <1>2, <3>3, <3>4, <4>1 DEF t
      <4>3. PICK w : w = Answer(l)
        OBVIOUS
      <4>4. calls' = (calls \ {l}) \cup {w}
        BY <1>1, <4>1, <4>3
      <4>5. w.kind = "List" /\ w.at = "done" /\ w.reply = Favorites(db) /\ w.awaited = l.awaited
        BY <1>4, <2>2, <4>1, <4>2, <4>3
      <4>6. Lists' = {w}
        BY <2>2, <4>4, <4>5 DEF Lists
      <4>7. OnBus' = {}
        BY <1>7, <2>1, <2>5 DEF OnBus
      <4>8. AskedLast(w)'
        BY <4>2, <4>5 DEF AskedLast
      <4>9. w.awaited
        BY <2>1, <4>5, Zenon
      <4> QED
        BY <4>6, <4>7, <4>8, <4>9 DEF Listing
    <3>5. CASE k # 1
      <4>1. head.n # l.n
        BY <1>3, <3>1, <3>3, <3>5
      <4>2. l \notin answered
        BY <1>5, <4>1
      <4>3. AskedLast(l)'
        BY <1>1, <2>5, <3>1, <3>3, <3>5 DEF AskedLast, t
      <4> QED
        BY <1>7, <2>1, <2>3, <4>2, <4>3 DEF Listing
    <3> QED
      BY <3>4, <3>5
  <2>6. CASE l.at = "done"
    BY <1>1, <2>1, <2>6 DEF AskedLast
  <2> QED
    BY <2>1, <2>4, <2>5, <2>6 DEF AskedLast
<1> QED
  BY <1>8, <1>9 DEF Agreeing

LEMMA ReturnedAgrees ==
  ASSUME TypeInv, Agreeing, open, NEW c \in calls, Returned(c), ~apart'
  PROVE  (Listing \/ Following)'
<1> DEFINE rest == calls \ {c}
<1>1. /\ c.at = "done" /\ Ends(c, rest, c.reply, apart) /\ UNCHANGED service
  BY DEF Returned
<1>2. inbox \in Seq(Range(inbox))
  BY InboxSeq DEF TypeInv
<1>3. CASE c.kind = "List"
  <2>1. entries' = c.reply /\ calls' = rest /\ apart' = apart
    BY <1>1, <1>3 DEF Ends
  <2>2. c \in Lists
    BY <1>3 DEF Lists
  <2>3. Listing
    BY <2>1, <2>2 DEF Agreeing, Following
  <2>4. PICK l : Lists = {l} /\ OnBus \subseteq {l} /\ l.awaited /\ AskedLast(l)
    BY <2>3 DEF Listing
  <2>5. l = c /\ inbox = << >> /\ c.reply = Favorites(db)
    BY <1>1, <2>2, <2>4 DEF AskedLast
  <2>6. Lists' = {} /\ OnBus' = {}
    BY <1>1, <2>1, <2>4, <2>5 DEF Lists, OnBus
  <2>7. Leads(Favorites(db), << >>, c.reply)
    BY <2>5, LeadsNowhere
  <2>8. inbox' = << >> /\ db' = db
    BY <1>1, <2>5 DEF service
  <2> QED
    BY <2>1, <2>6, <2>7, <2>8 DEF Following
<1>4. CASE c.kind = "Edit"
  <2>1. Issue(rest, "List", None, None, apart)
    BY <1>1, <1>4 DEF Ends
  <2> QED
    BY <2>1, IssueList
<1>5. Spares(rest) \/ c.kind = "List"
  BY <1>1 DEF Spares
<1>6. CASE c.kind \in {"Set", "Remove"}
  <2>1. SaveTitleEdit(rest, apart)
    BY <1>1, <1>6 DEF Ends
  <2>2. Spares(rest)
    BY <1>5, <1>6
  <2> HIDE DEF rest
  <2> QED
    BY <1>1, <1>2, <2>1, <2>2, SaveAgrees
<1>7. CASE c.kind \notin {"List", "Edit", "Set", "Remove"}
  <2>1. calls' = rest /\ apart' = apart /\ entries' = entries
    BY <1>1, <1>7 DEF Ends
  <2>2. Lists' = Lists /\ OnBus' = OnBus
    BY <1>1, <1>7, <2>1 DEF Lists, OnBus
  <2> QED
    BY <1>1, <2>1, <2>2, AgreeingStays
<1> QED
  BY <1>3, <1>4, <1>6, <1>7

LEMMA GivesUpAgrees ==
  ASSUME NEW c \in calls, GivesUp(c), ~apart'
  PROVE  Listing'
<1>1. PICK sent \in SUBSET (IF c.at = "bus" THEN {[c EXCEPT !.awaited = FALSE]} ELSE {}) :
        Ends(c, (calls \ {c}) \cup sent, Empty, TRUE)
  BY DEF GivesUp
<1> DEFINE rest == (calls \ {c}) \cup sent
<1>2. Ends(c, rest, Empty, TRUE)
  BY <1>1
<1> HIDE DEF rest
<1>3. CASE c.kind = "Edit"
  <2>1. Issue(rest, "List", None, None, TRUE)
    BY <1>2, <1>3 DEF Ends
  <2> QED
    BY <2>1, IssueList
<1>4. CASE c.kind # "Edit"
  <2>1. apart' = TRUE
    BY <1>2, <1>4 DEF Ends, SaveTitleEdit, Issue
  <2> QED
    BY <2>1
<1> QED
  BY <1>3, <1>4

LEMMA NextAgrees == TypeInv /\ Agreeing /\ [Next]_vars => Agreeing'
<1> SUFFICES ASSUME TypeInv, Agreeing, [Next]_vars, open', ~apart'
             PROVE  (Listing \/ Following)'
  BY DEF Agreeing
<1>0. inbox \in Seq(Range(inbox)) /\ Spares(calls)
  BY InboxSeq DEF TypeInv, Spares
<1>1. CASE OpenWindow
  BY <1>1, IssueList DEF OpenWindow
<1>2. CASE CloseWindow
  BY <1>2 DEF CloseWindow
<1>3. CASE CommitTitle
  BY <1>0, <1>3, SaveAgrees DEF CommitTitle
<1>4. ASSUME open, UNCHANGED << service, calls, entries, apart >>
      PROVE  (Listing \/ Following)'
  <2>1. Lists' = Lists /\ OnBus' = OnBus
    BY <1>4 DEF Lists, OnBus
  <2> QED
    BY <1>4, <2>1, AgreeingStays
<1>5. ASSUME NEW id \in Ids, BeginTitleEdit(id) PROVE (Listing \/ Following)'
  BY <1>0, <1>5, SaveAgrees DEF BeginTitleEdit
<1>6. ASSUME NEW id \in Ids, Unfavorite(id) PROVE (Listing \/ Following)'
  <2>1. /\ open /\ UNCHANGED service /\ entries' = Drop(entries, {id})
        /\ Issue(calls, "Remove", id, None, apart)
    BY <1>6 DEF Unfavorite
  <2>2. entries' = Effect(Call("Remove", id, None), entries)
    BY <2>1 DEF Effect, Call
  <2> QED
    BY <1>0, <2>1, <2>2, IssueOther
<1>7. ASSUME NEW id \in Ids, Edit(id) PROVE (Listing \/ Following)'
  <2>1. /\ open /\ UNCHANGED service /\ entries' = entries
        /\ Issue(calls, "Edit", None, None, apart)
    BY <1>7 DEF Edit
  <2>2. entries' = Effect(Call("Edit", None, None), entries)
    BY <2>1 DEF Effect, Call
  <2> QED
    BY <1>0, <2>1, <2>2, IssueOther
<1>8. ASSUME NEW id \in Ids, Copy(id) PROVE (Listing \/ Following)'
  <2>1. CASE title_edit # None
    BY <1>0, <1>8, <2>1, SaveAgrees DEF Copy
  <2>2. CASE title_edit = None
    <3>1. /\ open /\ UNCHANGED service /\ entries' = entries
          /\ Issue(calls, "Copy", None, None, apart)
      BY <1>8, <2>2 DEF Copy
    <3>2. entries' = Effect(Call("Copy", None, None), entries)
      BY <3>1 DEF Effect, Call
    <3> QED
      BY <1>0, <3>1, <3>2, IssueOther
  <2> QED
    BY <2>1, <2>2
<1>9. ASSUME NEW c \in calls, Accept(c) PROVE (Listing \/ Following)'
  <2>1. open /\ ~apart
    BY <1>9 DEF Accept
  <2> QED
    BY <1>9, <2>1, AcceptAgrees
<1>10. ASSUME NEW c \in calls, Returned(c) PROVE (Listing \/ Following)'
  <2>1. open
    BY <1>10 DEF Returned
  <2> QED
    BY <1>10, <2>1, ReturnedAgrees
<1>11. ASSUME NEW c \in calls, GivesUp(c) PROVE (Listing \/ Following)'
  BY <1>11, GivesUpAgrees
<1>12. CASE HandleCall
  <2>1. open /\ ~apart
    BY <1>12 DEF HandleCall
  <2> QED
    BY <1>12, <2>1, HandleAgrees
<1>13. CASE OtherChange
  BY <1>13 DEF OtherChange
<1>14. CASE UNCHANGED vars
  BY <1>4, <1>14 DEF vars
<1>15. CASE AcceptSuggestion \/ CancelTitleEdit
  BY <1>4, <1>15 DEF AcceptSuggestion, CancelTitleEdit
<1>16. ASSUME NEW id \in Ids, NEW s \in {None, Text(id, "ai")}, TitleSuggested(id, s)
       PROVE  (Listing \/ Following)'
  BY <1>4, <1>16 DEF TitleSuggested
<1>17. ASSUME NEW t \in {None, Text(title_edit.entry_id, "user")}, TitleInput(t)
       PROVE  (Listing \/ Following)'
  BY <1>4, <1>17 DEF TitleInput
<1> QED
  BY <1>1, <1>2, <1>3, <1>5, <1>6, <1>7, <1>8, <1>9, <1>10, <1>11, <1>12, <1>13, <1>14, <1>15,
     <1>16, <1>17 DEF Next

\* When all calls are over, the window that changes its own list before it tells
\* the applet shows the applet's favorites, unless since the last list calls
\* crossed, one gave up or somebody else changed a favorite.
THEOREM WindowAgreesHolds == Spec => []WindowAgrees
<1>1. Init => Agreeing
  BY DEF Init, Agreeing
<1>2. Agreeing => WindowAgrees
  <2> SUFFICES ASSUME Agreeing, open, calls = {}, inbox = << >>, ~apart
               PROVE  entries = Favorites(db)
    BY DEF WindowAgrees
  <2>1. Lists = {} /\ OnBus = {}
    BY DEF Lists, OnBus
  <2>2. Following
    BY <2>1 DEF Agreeing, Listing
  <2>3. Leads(Favorites(db), << >>, entries)
    BY <2>1, <2>2 DEF Following
  <2> QED
    BY <2>3, LeadsNowhere
<1> QED
  BY <1>1, <1>2, InitTyped, NextTyped, NextAgrees, PTL DEF Spec
=============================================================================
