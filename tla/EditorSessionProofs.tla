------------------------ MODULE EditorSessionProofs ------------------------
(***************************************************************************)
(* Proofs about EditorSession, for every history and any number of         *)
(* editors and messages, late ones included: types, and how often the      *)
(* history is written (TypeOK); no process is left behind (NoOrphan); the  *)
(* UI thread waits for a live editor only at its own exit and on a late    *)
(* end of an earlier one (NeverHangs); which entry a message changes       *)
(* (EditsOwnEntry); and a saved text ends up on top of the history         *)
(* (SaveLands).                                                            *)
(***************************************************************************)
EXTENDS EditorSession, StoreOpsProofs

-----------------------------------------------------------------------------
(* What the operations of the store do to the entries                      *)

StoreFields == {"entries", "hashs", "times", "favs", "favSet", "titles",
                "query", "filtered", "panicked"}
EntryFields == {"creation", "content", "is_favorite", "favorite_title"}

\* A store and its entries have their fields; ids are numbers.
Shaped(st) ==
  /\ DOMAIN st = StoreFields
  /\ DOMAIN st.entries \subseteq Nat
  /\ \A id \in DOMAIN st.entries : DOMAIN st.entries[id] = EntryFields

\* Entries other than those of ids are still there with their contents.
KeepsBut(st, new, ids) ==
  \A id \in DOMAIN st.entries \ ids :
    id \in DOMAIN new.entries /\ new.entries[id].content = st.entries[id].content

LEMMA KeepsAll ==
  ASSUME NEW st, NEW new, new.entries = st.entries, NEW ids
  PROVE  KeepsBut(st, new, ids)
  BY DEF KeepsBut

\* A search changes no entry.
LEMMA SearchShaped ==
  ASSUME NEW st, Shaped(st)
  PROVE  Shaped(Search(st)) /\ Search(st).entries = st.entries
<1>1. CASE st.query = None
  BY <1>1 DEF Search, Shaped, StoreFields
<1>2. CASE st.query # None /\ IterPanics(st)
  BY <1>2 DEF Search, Panic, Shaped, StoreFields
<1>3. CASE st.query # None /\ ~IterPanics(st)
  <2> DEFINE found == Selected(Iter(st), Matching(st))
  <2>1. Search(st) = [st EXCEPT !.filtered = found]
    BY <1>3 DEF Search
  <2> HIDE DEF found
  <2> QED
    BY <2>1 DEF Shaped, StoreFields
<1> QED
  BY <1>1, <1>2, <1>3

LEMMA UnindexShaped ==
  ASSUME NEW st, Shaped(st), NEW ids
  PROVE  Shaped(Unindex(st, ids)) /\ KeepsBut(st, Unindex(st, ids), ids)
<1> DEFINE new == Unindex(st, ids)
<1>1. DOMAIN new = StoreFields /\ new.entries = Drop(st.entries, ids)
  BY DEF Unindex, Shaped, StoreFields
<1> HIDE DEF new
<1>2. /\ DOMAIN new.entries = DOMAIN st.entries \ ids
      /\ \A id \in DOMAIN new.entries : new.entries[id] = st.entries[id]
  BY <1>1 DEF Drop
<1>3. Shaped(new) /\ KeepsBut(st, new, ids)
  BY <1>1, <1>2 DEF Shaped, KeepsBut
<1> QED
  BY <1>3 DEF new

\* Entry id gets other fields, but not another content.
LEMMA BumpShaped ==
  ASSUME NEW st, Shaped(st), NEW id \in DOMAIN st.entries, NEW now
  PROVE  /\ Shaped(Bump(st, id, now)) /\ KeepsBut(st, Bump(st, id, now), {})
         /\ DOMAIN Bump(st, id, now).entries = DOMAIN st.entries
<1> DEFINE new == Bump(st, id, now)
<1>1. /\ DOMAIN new = StoreFields
      /\ new.entries = [st.entries EXCEPT ![id].creation = now]
  BY DEF Bump, Shaped, StoreFields
<1> HIDE DEF new
<1>2. /\ DOMAIN new.entries = DOMAIN st.entries
      /\ new.entries[id] = [st.entries[id] EXCEPT !.creation = now]
      /\ \A x \in DOMAIN st.entries \ {id} : new.entries[x] = st.entries[x]
  BY <1>1
<1>3. DOMAIN new.entries[id] = EntryFields /\ new.entries[id].content = st.entries[id].content
  BY <1>2 DEF Shaped, EntryFields
<1>4. Shaped(new) /\ KeepsBut(st, new, {})
  BY <1>1, <1>2, <1>3 DEF Shaped, KeepsBut
<1> QED
  BY <1>2, <1>4 DEF new

LEMMA MarkShaped ==
  ASSUME NEW st, Shaped(st), NEW id, NEW fav, NEW title
  PROVE  Shaped(Mark(st, id, fav, title))
<1> DEFINE new == Mark(st, id, fav, title)
<1>1. CASE id \in DOMAIN st.entries
  <2>1. /\ DOMAIN new = StoreFields
        /\ new.entries = [st.entries EXCEPT ![id].is_favorite = fav, ![id].favorite_title = title]
    BY <1>1 DEF Mark, Shaped, StoreFields
  <2> HIDE DEF new
  <2>2. /\ DOMAIN new.entries = DOMAIN st.entries
        /\ DOMAIN new.entries[id] = EntryFields
        /\ \A x \in DOMAIN st.entries \ {id} : new.entries[x] = st.entries[x]
    BY <1>1, <2>1 DEF Shaped
  <2>3. Shaped(new)
    BY <2>1, <2>2 DEF Shaped
  <2> QED
    BY <2>3 DEF new
<1>2. CASE id \notin DOMAIN st.entries
  BY <1>2 DEF Mark
<1> QED
  BY <1>1, <1>2

LEMMA FavRemoveShaped ==
  ASSUME NEW st, Shaped(st), NEW id
  PROVE  Shaped(FavRemove(st, id)) /\ FavRemove(st, id).entries = st.entries
<1> DEFINE list == WithoutFirst(st.favs, id)
           titles == Drop(st.titles, {id})
<1>1. FavRemove(st, id) =
        [st EXCEPT !.favs = list, !.favSet = @ \ {id}, !.titles = titles]
  BY DEF FavRemove
<1> HIDE DEF list, titles
<1> QED
  BY <1>1 DEF Shaped, StoreFields

\* Starring and unstarring.
LEMMA FavoriteShaped ==
  ASSUME NEW st, Shaped(st), NEW id
  PROVE  /\ Shaped(AddFavoriteToMemory(st, id).db)
         /\ Shaped(RemoveFavoriteFromMemory(st, id).db)
<1>1. Shaped(FavPush(st, id))
  BY DEF FavPush, Shaped, StoreFields
<1> QED
  BY <1>1, FavRemoveShaped, MarkShaped DEF AddFavoriteToMemory, RemoveFavoriteFromMemory

LEMMA RemoveShaped ==
  ASSUME NEW st, Shaped(st), NEW id
  PROVE  Shaped(Remove(st, id)) /\ KeepsBut(st, Remove(st, id), {id})
<1>1. Shaped(Unindex(st, {id})) /\ KeepsBut(st, Unindex(st, {id}), {id})
  BY UnindexShaped
<1>2. /\ Shaped(FavRemove(Unindex(st, {id}), id))
      /\ FavRemove(Unindex(st, {id}), id).entries = Unindex(st, {id}).entries
  BY <1>1, FavRemoveShaped
<1> QED
  BY <1>1, <1>2 DEF Remove, KeepsBut

LEMMA DeleteShaped ==
  ASSUME NEW st, Shaped(st), NEW id
  PROVE  /\ Shaped(DeleteFromMemory(st, id).db)
         /\ KeepsBut(st, DeleteFromMemory(st, id).db, {id})
<1>1. CASE id \in DOMAIN st.entries
  <2>1. Shaped(Remove(st, id)) /\ KeepsBut(st, Remove(st, id), {id})
    BY RemoveShaped
  <2>2. DeleteFromMemory(st, id).db = Search(Remove(st, id))
    BY <1>1 DEF DeleteFromMemory
  <2> QED
    BY <2>1, <2>2, SearchShaped DEF KeepsBut
<1>2. CASE id \notin DOMAIN st.entries
  BY <1>2, KeepsAll DEF DeleteFromMemory, NoOp
<1> QED
  BY <1>1, <1>2

LEMMA PanicShaped ==
  ASSUME NEW st, Shaped(st)
  PROVE  Shaped(Panic(st)) /\ Panic(st).entries = st.entries
  BY DEF Panic, Shaped, StoreFields

LEMMA ClearShaped ==
  ASSUME NEW st, Shaped(st)
  PROVE  Shaped(ClearMemory(st).db)
  BY UnindexShaped, SearchShaped DEF ClearMemory

LEMMA InsertShaped ==
  ASSUME NEW st, Shaped(st), NEW c, NEW now \in Nat
  PROVE  Shaped(InsertToMemory(st, c, now).db)
<1>1. ASSUME NEW id
      PROVE  Shaped(Refresh(st, id, now).db)
  BY PanicShaped, BumpShaped, SearchShaped DEF Refresh, NoOp
<1>2. Shaped(Grow(st, c, now))
  <2> DEFINE new == Grow(st, c, now)
             entry == NewEntry(c, now)
  <2>1. DOMAIN new = StoreFields /\ new.entries = Put(st.entries, now, entry)
    BY DEF Grow, Shaped, StoreFields
  <2>2. DOMAIN entry = EntryFields
    BY DEF NewEntry, EntryFields
  <2> HIDE DEF new, entry
  <2>3. Shaped(new)
    BY <2>1, <2>2 DEF Put, Shaped
  <2> QED
    BY <2>3 DEF new
<1>3. Shaped(InsertNew(st, c, now).db)
  BY <1>2, UnindexShaped, SearchShaped DEF InsertNew
<1> QED
  BY <1>1, <1>3 DEF InsertToMemory, NoOp

\* An update changes the entry it is for, and no other.
LEMMA UpdateShaped ==
  ASSUME NEW st, Shaped(st), NEW id, NEW c, NEW now
  PROVE  /\ Shaped(UpdateContentInMemory(st, id, c, now).db)
         /\ KeepsBut(st, UpdateContentInMemory(st, id, c, now).db, {id})
<1> DEFINE hashs == Rehash(st, id, c)
           rehashed == [st EXCEPT !.hashs = hashs]
           bumped == Bump(rehashed, id, now)
           changed == [bumped EXCEPT !.entries[id].content = c]
<1>1. Shaped(rehashed) /\ rehashed.entries = st.entries
  <2> HIDE DEF hashs
  <2> QED
    BY DEF Shaped, StoreFields
<1>2. CASE TakenByOther(st, id, c)
  BY <1>2, KeepsAll DEF UpdateContentInMemory, NoOp
<1>3. CASE ~TakenByOther(st, id, c) /\ id \in DOMAIN st.entries
  <2>1. UpdateContentInMemory(st, id, c, now).db = Search(changed)
    BY <1>3 DEF UpdateContentInMemory
  <2> HIDE DEF rehashed
  <2>2. /\ Shaped(bumped) /\ KeepsBut(rehashed, bumped, {})
        /\ DOMAIN bumped.entries = DOMAIN st.entries
    BY <1>1, <1>3, BumpShaped
  <2> HIDE DEF bumped
  <2>3. /\ DOMAIN changed = StoreFields
        /\ changed.entries = [bumped.entries EXCEPT ![id].content = c]
    BY <2>2 DEF Shaped, StoreFields
  <2> HIDE DEF changed
  <2>4. /\ DOMAIN changed.entries = DOMAIN st.entries
        /\ DOMAIN changed.entries[id] = DOMAIN bumped.entries[id]
        /\ \A x \in DOMAIN st.entries \ {id} : changed.entries[x] = bumped.entries[x]
    BY <1>3, <2>2, <2>3
  <2>5. Shaped(changed) /\ KeepsBut(st, changed, {id})
    BY <1>1, <1>3, <2>2, <2>3, <2>4 DEF Shaped, KeepsBut
  <2> QED
    BY <2>1, <2>5, SearchShaped DEF KeepsBut
<1>4. CASE ~TakenByOther(st, id, c) /\ id \notin DOMAIN st.entries
  <2>1. UpdateContentInMemory(st, id, c, now).db = Search(rehashed)
    BY <1>4 DEF UpdateContentInMemory
  <2> HIDE DEF rehashed
  <2> QED
    BY <1>1, <2>1, SearchShaped DEF KeepsBut
<1> QED
  BY <1>2, <1>3, <1>4

\* A merge drops the entry it is for and refreshes another.
LEMMA MergeShaped ==
  ASSUME NEW st, Shaped(st), NEW id, NEW c, NEW now
  PROVE  /\ Shaped(MergeIntoOther(st, id, c, now))
         /\ KeepsBut(st, MergeIntoOther(st, id, c, now), {id})
<1> DEFINE other == st.hashs[Hash[c]]
           left == IF id \in DOMAIN st.entries THEN Remove(st, id) ELSE st
<1>1. Shaped(left) /\ KeepsBut(st, left, {id})
  BY RemoveShaped, KeepsAll
<1>2. MergeIntoOther(st, id, c, now) =
        IF other \in DOMAIN left.entries THEN Search(Bump(left, other, now)) ELSE Panic(left)
  BY DEF MergeIntoOther
<1> HIDE DEF other, left
<1>3. CASE other \in DOMAIN left.entries
  <2>1. Shaped(Bump(left, other, now)) /\ KeepsBut(left, Bump(left, other, now), {})
    BY <1>1, <1>3, BumpShaped
  <2>2. /\ Shaped(Search(Bump(left, other, now)))
        /\ Search(Bump(left, other, now)).entries = Bump(left, other, now).entries
    BY <2>1, SearchShaped
  <2> QED
    BY <1>1, <1>2, <1>3, <2>1, <2>2 DEF KeepsBut
<1>4. CASE other \notin DOMAIN left.entries
  BY <1>1, <1>2, <1>4, PanicShaped DEF KeepsBut
<1> QED
  BY <1>3, <1>4

-----------------------------------------------------------------------------
(* Sequences whose elements need no type                                   *)

IsSequence(q) == q \in Seq(Range(q))

LEMMA ElementsIn ==
  ASSUME NEW S, NEW q \in Seq(S)
  PROVE  IsSequence(q)
  BY DEF IsSequence, Range

LEMMA AppendSequence ==
  ASSUME NEW q, IsSequence(q), NEW e
  PROVE  /\ IsSequence(Append(q, e)) /\ Len(q) \in Nat
         /\ DOMAIN q = 1 .. Len(q) /\ DOMAIN Append(q, e) = 1 .. Len(q) + 1
         /\ \A i \in 1 .. Len(q) : Append(q, e)[i] = q[i]
         /\ Append(q, e)[Len(q) + 1] = e
<1> DEFINE S == Range(q) \cup {e}
<1>1. q \in Seq(S) /\ e \in S
  BY DEF IsSequence
<1> HIDE DEF S
<1>2. /\ Append(q, e) \in Seq(S) /\ Len(q) \in Nat
      /\ DOMAIN q = 1 .. Len(q) /\ DOMAIN Append(q, e) = 1 .. Len(q) + 1
      /\ \A i \in 1 .. Len(q) : Append(q, e)[i] = q[i]
      /\ Append(q, e)[Len(q) + 1] = e
  BY <1>1
<1> QED
  BY <1>2, ElementsIn

LEMMA TailSequence ==
  ASSUME NEW q, IsSequence(q), q # << >>
  PROVE  /\ IsSequence(Tail(q)) /\ Len(q) \in Nat \ {0}
         /\ DOMAIN q = 1 .. Len(q) /\ DOMAIN Tail(q) = 1 .. Len(q) - 1
         /\ \A i \in 1 .. Len(q) - 1 : Tail(q)[i] = q[i + 1]
         /\ Head(q) = q[1]
<1> DEFINE S == Range(q)
<1>1. q \in Seq(S)
  BY DEF IsSequence
<1> HIDE DEF S
<1>2. /\ Tail(q) \in Seq(S) /\ Len(q) \in Nat \ {0}
      /\ DOMAIN q = 1 .. Len(q) /\ DOMAIN Tail(q) = 1 .. Len(q) - 1
      /\ \A i \in 1 .. Len(q) - 1 : Tail(q)[i] = q[i + 1]
      /\ Head(q) = q[1]
  BY <1>1
<1> QED
  BY <1>2, ElementsIn

LEMMA ExceptSequence ==
  ASSUME NEW q, IsSequence(q), NEW i \in DOMAIN q, NEW e
  PROVE  /\ IsSequence([q EXCEPT ![i] = e]) /\ DOMAIN [q EXCEPT ![i] = e] = DOMAIN q
         /\ Len([q EXCEPT ![i] = e]) = Len(q)
<1> DEFINE new == [q EXCEPT ![i] = e]
<1>1. q \in Seq(Range(q) \cup {e}) /\ DOMAIN q = 1 .. Len(q) /\ Len(q) \in Nat
  BY DEF IsSequence
<1>2. new \in Seq(Range(q) \cup {e}) /\ Len(new) = Len(q)
  BY <1>1
<1>3. DOMAIN new = DOMAIN q
  OBVIOUS
<1> QED
  BY <1>2, <1>3, ElementsIn

-----------------------------------------------------------------------------
(* No process is left behind                                               *)

ProcFields == {"entry", "original", "is_favorite", "alive", "told", "frames", "eof"}

\* A process writes no more than what it leaves in the pipe at its end.
ProcOK(p) == DOMAIN p = ProcFields /\ (p.frames # << >> => ~p.alive)

\* NoOrphan, with what the steps need to know of editors and processes.
EditorInv ==
  /\ Shaped(db) /\ clock \in Nat
  /\ IsSequence(procs)
  /\ \A s \in Sessions : ProcOK(procs[s])
  /\ editor # None =>
       /\ editor.session \in Sessions
       /\ editor.entry_id = procs[editor.session].entry
  /\ waiting # None => waiting \in Sessions
  /\ NoOrphan

\* The processes before and after a step, but for one that was just started:
\* none comes to life again, and none is opened on another entry.
ProcsGoOn ==
  /\ Sessions \subseteq Sessions'
  /\ \A s \in Sessions :
       /\ procs'[s].entry = procs[s].entry
       /\ procs'[s].alive => procs[s].alive
       /\ procs[s].told => procs'[s].told

\* A process gets other values in some fields, alive none but FALSE.
LEMMA ProcChanges ==
  ASSUME EditorInv, NEW s \in Sessions, NEW p, procs' = [procs EXCEPT ![s] = p],
         ProcOK(p), p.entry = procs[s].entry,
         p.alive => procs[s].alive, procs[s].told => p.told
  PROVE  /\ IsSequence(procs') /\ Sessions' = Sessions /\ ProcsGoOn
         /\ \A x \in Sessions' : ProcOK(procs'[x])
<1>1. IsSequence(procs') /\ Sessions' = Sessions
  BY ExceptSequence DEF EditorInv, Sessions
<1>2. procs'[s] = p /\ \A x \in Sessions \ {s} : procs'[x] = procs[x]
  BY DEF Sessions
<1> QED
  BY <1>1, <1>2 DEF ProcsGoOn, EditorInv

\* What telling the current editor to close does, if there is one.
LEMMA ToldGoesOn ==
  ASSUME EditorInv, NEW s \in Sessions
  PROVE  /\ IsSequence(Told(s)) /\ DOMAIN Told(s) = Sessions /\ Told(s)[s].told
         /\ \A x \in Sessions :
              /\ ProcOK(Told(s)[x])
              /\ Told(s)[x].entry = procs[x].entry /\ Told(s)[x].alive = procs[x].alive
              /\ procs[x].told => Told(s)[x].told
<1> DEFINE p == [procs[s] EXCEPT !.told = TRUE]
<1>1. ProcOK(p) /\ p.entry = procs[s].entry /\ p.alive = procs[s].alive /\ p.told
  BY DEF EditorInv, ProcOK, ProcFields
<1>2. Told(s) = [procs EXCEPT ![s] = p]
  BY DEF Told
<1> HIDE DEF p
<1>3. IsSequence(Told(s)) /\ DOMAIN Told(s) = Sessions
  <2>1. IsSequence(procs) /\ s \in DOMAIN procs
    BY DEF EditorInv, Sessions
  <2>2. IsSequence([procs EXCEPT ![s] = p]) /\ DOMAIN [procs EXCEPT ![s] = p] = DOMAIN procs
    BY <2>1, ExceptSequence
  <2> QED
    BY <1>2, <2>2 DEF Sessions
<1>4. Told(s)[s] = p /\ \A x \in Sessions \ {s} : Told(s)[x] = procs[x]
  BY <1>2 DEF Sessions
<1> QED
  BY <1>1, <1>3, <1>4 DEF EditorInv

\* A step that leaves editor and waiting alone keeps NoOrphan.
LEMMA NoOrphanKept ==
  ASSUME EditorInv, ProcsGoOn, Sessions' = Sessions, IsSequence(procs'),
         \A s \in Sessions' : ProcOK(procs'[s]),
         UNCHANGED << editor, waiting >>,
         Shaped(db'), clock' \in Nat
  PROVE  EditorInv'
<1>1. NoOrphan'
  BY DEF EditorInv, ProcsGoOn, NoOrphan, Attached
<1> QED
  BY <1>1 DEF EditorInv, ProcsGoOn

\* A step of the store that touches no process.
LEMMA StoreStepInv ==
  ASSUME EditorInv, UNCHANGED << editor, procs, waiting >>, Shaped(db'), clock' \in Nat
  PROVE  EditorInv' /\ ProcsGoOn
<1>1. ProcsGoOn /\ Sessions' = Sessions /\ Sessions' = DOMAIN procs'
  BY DEF ProcsGoOn, Sessions
<1> QED
  BY <1>1, NoOrphanKept DEF EditorInv

\* A process ends, or its stream moves on.
LEMMA ProcStepInv ==
  ASSUME EditorInv, UNCHANGED << db, clock, editor, waiting >>,
         NEW s \in Sessions, NEW p, procs' = [procs EXCEPT ![s] = p],
         ProcOK(p), p.entry = procs[s].entry,
         p.alive => procs[s].alive, procs[s].told => p.told
  PROVE  EditorInv' /\ ProcsGoOn
<1>1. Shaped(db') /\ clock' \in Nat
  BY DEF EditorInv
<1> QED
  BY <1>1, ProcChanges, NoOrphanKept

LEMMA ExitsInv ==
  ASSUME EditorInv, UNCHANGED << db, clock, editor, waiting >>,
         NEW s \in Sessions, NEW frames, Exits(s, frames)
  PROVE  EditorInv' /\ ProcsGoOn
<1> DEFINE p == [procs[s] EXCEPT !.alive = FALSE, !.original = Blank,
                                 !.is_favorite = FALSE, !.frames = frames]
<1>1. procs' = [procs EXCEPT ![s] = p]
  BY DEF Exits
<1>2. ProcOK(p) /\ p.entry = procs[s].entry /\ ~p.alive /\ p.told = procs[s].told
  BY DEF EditorInv, ProcOK, ProcFields
<1> HIDE DEF p
<1> QED
  BY <1>1, <1>2, ProcStepInv

LEMMA ForwardInv ==
  ASSUME EditorInv, NEW s \in Sessions, Forward(s)
  PROVE  EditorInv' /\ ProcsGoOn
<1>1. UNCHANGED << db, clock, editor, waiting >>
  BY DEF Forward
<1>2. CASE ForwardFrame(s)
  <2> DEFINE p == [procs[s] EXCEPT !.frames = Tail(@)]
  <2>1. procs' = [procs EXCEPT ![s] = p]
    BY <1>2 DEF ForwardFrame
  <2>2. /\ ProcOK(p) /\ p.entry = procs[s].entry
        /\ p.alive = procs[s].alive /\ p.told = procs[s].told
    BY <1>2 DEF ForwardFrame, EditorInv, ProcOK, ProcFields
  <2> HIDE DEF p
  <2> QED
    BY <1>1, <2>1, <2>2, ProcStepInv
<1>3. CASE ForwardExit(s)
  <2> DEFINE p == [procs[s] EXCEPT !.eof = TRUE]
  <2>1. procs' = [procs EXCEPT ![s] = p]
    BY <1>3 DEF ForwardExit
  <2>2. /\ ProcOK(p) /\ p.entry = procs[s].entry
        /\ p.alive = procs[s].alive /\ p.told = procs[s].told
    BY DEF EditorInv, ProcOK, ProcFields
  <2> HIDE DEF p
  <2> QED
    BY <1>1, <2>1, <2>2, ProcStepInv
<1> QED
  BY <1>2, <1>3 DEF Forward

\* The previous editor, if there is one, is told to close.
LEMMA OpenEditorInv ==
  ASSUME EditorInv, NEW id \in Live, OpenEditor(id)
  PROVE  EditorInv' /\ ProcsGoOn
<1> DEFINE others == IF editor = None THEN procs ELSE Told(editor.session)
           started == Started(id)
           opened == [session |-> Len(procs) + 1, entry_id |-> id]
<1>1. /\ IsSequence(others) /\ DOMAIN others = Sessions
      /\ \A x \in Sessions :
           /\ ProcOK(others[x])
           /\ others[x].entry = procs[x].entry /\ others[x].alive = procs[x].alive
           /\ procs[x].told => others[x].told
      /\ editor # None => others[editor.session].told
  BY ToldGoesOn DEF EditorInv, Sessions
<1>2. ProcOK(started) /\ started.entry = id
  BY DEF Started, ProcOK, ProcFields
<1>3. Sessions = 1 .. Len(procs) /\ Len(procs) \in Nat
  BY AppendSequence DEF EditorInv, Sessions
<1>4. opened # None /\ opened.session = Len(procs) + 1 /\ opened.entry_id = id
  <2>1. opened \in Editors
    BY <1>3 DEF Editors, Live, EditorInv, Shaped
  <2> QED
    BY <2>1, NoEditorAssumption
<1>5. UNCHANGED << db, clock, waiting >>
  BY DEF OpenEditor
<1>6. CASE procs' = others /\ editor' = None
  <2>1. ProcsGoOn /\ Sessions' = Sessions /\ Sessions' = DOMAIN others
    BY <1>1, <1>6 DEF ProcsGoOn, Sessions
  <2>2. NoOrphan'
    BY <1>1, <1>5, <1>6, <2>1 DEF EditorInv, NoOrphan, Attached
  <2> HIDE DEF others
  <2> QED
    BY <1>1, <1>5, <1>6, <2>1, <2>2 DEF EditorInv
<1>7. CASE procs' = Append(others, started) /\ editor' = opened
  <2> HIDE DEF others, started, opened
  <2>1. Len(others) = Len(procs)
    BY <1>1, <1>3, AppendSequence
  <2>2. /\ IsSequence(procs') /\ Sessions' = 1 .. Len(procs) + 1
        /\ procs'[Len(procs) + 1] = started
        /\ \A x \in Sessions : procs'[x] = others[x]
    BY <1>1, <1>3, <1>7, <2>1, AppendSequence DEF Sessions
  <2>3. ProcsGoOn
    BY <1>1, <1>3, <2>2 DEF ProcsGoOn
  <2>4. \A s \in Sessions' : s \in Sessions \/ s = Len(procs) + 1
    BY <1>3, <2>2
  <2>5. NoOrphan'
    <3> SUFFICES ASSUME NEW s \in Sessions', procs'[s].alive
                 PROVE  Attached(s)' \/ procs'[s].told \/ waiting' = s
      BY DEF NoOrphan
    <3>1. CASE s = Len(procs) + 1
      BY <1>4, <1>7, <3>1 DEF Attached
    <3>2. CASE s \in Sessions
      BY <1>1, <1>5, <2>2, <3>2 DEF EditorInv, NoOrphan, Attached
    <3> QED
      BY <2>4, <3>1, <3>2
  <2>6. \A s \in Sessions' : ProcOK(procs'[s])
    BY <1>1, <1>2, <2>2, <2>4
  <2>7. /\ editor'.session \in Sessions'
        /\ editor'.entry_id = procs'[editor'.session].entry
        /\ waiting' # None => waiting' \in Sessions'
    <3>1. editor'.session = Len(procs) + 1 /\ Len(procs) + 1 \in Sessions'
      BY <1>3, <1>4, <1>7, <2>2
    <3>2. editor'.entry_id = procs'[editor'.session].entry
      BY <1>2, <1>4, <1>7, <2>2, <3>1
    <3>3. waiting' # None => waiting' \in Sessions'
      BY <1>5, <2>3 DEF EditorInv, ProcsGoOn
    <3> QED
      BY <3>1, <3>2, <3>3
  <2> QED
    BY <1>5, <2>2, <2>3, <2>5, <2>6, <2>7 DEF EditorInv
<1> QED
  BY <1>6, <1>7 DEF OpenEditor

\* What EditorEvent does to the history: an entry that is changed or removed is
\* the one of the current editor.
LEMMA EventShaped ==
  ASSUME EditorInv, EditorEvent
  PROVE  /\ Shaped(db') /\ clock' \in Nat
         /\ \/ Head(queue).type = "SaveAsNew" /\ Head(queue).content # Blank
            \/ editor # None /\ KeepsBut(db, db', {editor.entry_id})
            \/ db' = db
<1> DEFINE m == Head(queue)
<1>1. clock + 1 \in Nat /\ Shaped(db) /\ clock \in Nat
  BY DEF EditorInv
<1>2. ASSUME DeleteEdited
      PROVE  /\ Shaped(db') /\ clock' \in Nat
             /\ (editor # None /\ KeepsBut(db, db', {editor.entry_id})) \/ db' = db
  BY <1>1, <1>2, DeleteShaped DEF DeleteEdited
<1>3. CASE m.type = "SaveAsNew" /\ SaveAsNew(m.content)
  BY <1>1, <1>2, <1>3, InsertShaped DEF SaveAsNew
<1>4. CASE m.type = "UpdateExisting" /\ UpdateExisting(m.content)
  <2>1. CASE m.content = Blank
    BY <1>2, <1>4, <2>1 DEF UpdateExisting
  <2>2. CASE m.content # Blank /\ editor = None
    BY <1>1, <1>4, <2>2 DEF UpdateExisting
  <2>3. CASE m.content # Blank /\ editor # None
    <3>1. /\ clock' = clock + 1
          /\ db' = IF TakenByOther(db, editor.entry_id, m.content)
                     THEN MergeIntoOther(db, editor.entry_id, m.content, clock + 1)
                     ELSE UpdateContentInMemory(db, editor.entry_id, m.content, clock + 1).db
      BY <1>4, <2>3 DEF UpdateExisting
    <3>2. Shaped(db') /\ KeepsBut(db, db', {editor.entry_id})
      BY <1>1, <3>1, MergeShaped, UpdateShaped
    <3> QED
      BY <1>1, <2>3, <3>1, <3>2
  <2> QED
    BY <2>1, <2>2, <2>3
<1>5. CASE m.type = "Closed" /\ UNCHANGED << db, clock >>
  BY <1>1, <1>5
<1> QED
  BY <1>3, <1>4, <1>5 DEF EditorEvent

LEMMA EditorInvStep ==
  ASSUME EditorInv, [Next]_vars
  PROVE  EditorInv' /\ ProcsGoOn
<1>0. Shaped(db) /\ clock \in Nat /\ clock + 1 \in Nat
  BY DEF EditorInv
<1>a. None \notin Sessions
  BY AppendSequence, StoreAssumption DEF EditorInv, Sessions
<1>1. ASSUME NEW c \in Content, Copy(c)
      PROVE  EditorInv' /\ ProcsGoOn
  BY <1>0, <1>1, InsertShaped, StoreStepInv DEF Copy
<1>2. ASSUME NEW id \in Live, Edit(id)
      PROVE  EditorInv' /\ ProcsGoOn
  BY <1>2, OpenEditorInv DEF Edit
<1>3. ASSUME NEW id \in Live, DeleteEntry(id)
      PROVE  EditorInv' /\ ProcsGoOn
  <2>1. /\ Shaped(db') /\ clock' \in Nat /\ UNCHANGED << editor, waiting >>
        /\ procs' = procs \/ (editor # None /\ procs' = Told(editor.session))
    BY <1>0, <1>3, DeleteShaped DEF DeleteEntry
  <2>2. CASE procs' = procs
    BY <2>1, <2>2, StoreStepInv
  <2>3. CASE editor # None /\ procs' = Told(editor.session)
    <3>1. editor.session \in Sessions
      BY <2>3 DEF EditorInv
    <3>2. /\ IsSequence(procs') /\ Sessions' = Sessions /\ ProcsGoOn
          /\ \A x \in Sessions' : ProcOK(procs'[x])
      BY <2>3, <3>1, ToldGoesOn DEF ProcsGoOn, Sessions
    <3> QED
      BY <2>1, <3>2, NoOrphanKept
  <2> QED
    BY <2>1, <2>2, <2>3
<1>4. ASSUME NEW id \in Live, ToggleFavorite(id)
      PROVE  EditorInv' /\ ProcsGoOn
  BY <1>0, <1>4, FavoriteShaped, StoreStepInv DEF ToggleFavorite
<1>5. ASSUME NEW s \in Sessions, ObeyApplet(s) \/ EditorDies(s)
      PROVE  EditorInv' /\ ProcsGoOn
  BY <1>5, ExitsInv DEF ObeyApplet, EditorDies
<1>6. ASSUME NEW s \in Sessions, Forward(s)
      PROVE  EditorInv' /\ ProcsGoOn
  BY <1>6, ForwardInv
<1>7. ASSUME NEW s \in Sessions, NEW text \in Texts, CloseWindow(s, text)
      PROVE  EditorInv' /\ ProcsGoOn
  BY <1>7, ExitsInv DEF CloseWindow
<1>8. CASE ClearHistory
  BY <1>0, <1>8, ClearShaped, StoreStepInv DEF ClearHistory
<1>9. CASE EditLatest
  BY <1>9, OpenEditorInv DEF EditLatest
<1>10. CASE ExitApplet
  <2>1. Shaped(db') /\ clock' \in Nat /\ editor' = None
    BY <1>0, <1>10 DEF ExitApplet
  <2>2. CASE editor = None
    <3>1. procs' = procs /\ waiting' = waiting
      BY <1>10, <2>2 DEF ExitApplet
    <3>2. ProcsGoOn /\ Sessions' = Sessions /\ Sessions' = DOMAIN procs'
      BY <3>1 DEF ProcsGoOn, Sessions
    <3>3. NoOrphan'
      BY <2>1, <2>2, <3>1, <3>2 DEF EditorInv, NoOrphan, Attached
    <3> QED
      BY <2>1, <3>1, <3>2, <3>3 DEF EditorInv
  <2>3. CASE editor # None
    <3>1. /\ procs' = Told(editor.session) /\ editor.session \in Sessions
          /\ waiting' = IF procs[editor.session].alive THEN editor.session ELSE None
      BY <1>10, <2>3 DEF ExitApplet, EditorInv, Await
    <3>2. /\ IsSequence(procs') /\ Sessions' = Sessions /\ ProcsGoOn
          /\ \A x \in Sessions' : ProcOK(procs'[x])
      BY <3>1, ToldGoesOn DEF ProcsGoOn, Sessions
    <3>3. NoOrphan'
      BY <1>a, <1>10, <2>1, <3>1, <3>2 DEF EditorInv, NoOrphan, Attached, ProcsGoOn, ExitApplet, Free
    <3> QED
      BY <2>1, <3>1, <3>2, <3>3 DEF EditorInv
  <2> QED
    BY <2>2, <2>3
<1>11. CASE EditorEvent
  BY <1>11, EventShaped, StoreStepInv DEF EditorEvent
<1>12. CASE EditorProcessExited
  <2>1. /\ UNCHANGED << db, clock, procs >> /\ editor' = None /\ waiting = None
        /\ editor = None => waiting' = None
        /\ editor # None =>
             waiting' = IF procs[editor.session].alive THEN editor.session ELSE None
    BY <1>12 DEF EditorProcessExited, Free, Await
  <2>2. ProcsGoOn /\ Sessions' = Sessions
    BY <2>1 DEF ProcsGoOn, Sessions
  <2>3. NoOrphan' /\ (waiting' # None => waiting' \in Sessions)
    BY <1>a, <2>1, <2>2 DEF EditorInv, NoOrphan, Attached
  <2> QED
    BY <2>1, <2>2, <2>3 DEF EditorInv
<1>13. CASE WaitEnds
  <2>1. UNCHANGED << db, clock, editor, procs >> /\ waiting' = None /\ ~procs[waiting].alive
    BY <1>13 DEF WaitEnds
  <2>2. ProcsGoOn /\ Sessions' = Sessions
    BY <2>1 DEF ProcsGoOn, Sessions
  <2>3. NoOrphan'
    BY <2>1, <2>2 DEF EditorInv, NoOrphan, Attached
  <2> QED
    BY <2>1, <2>2, <2>3 DEF EditorInv
<1>14. CASE Retrack \/ UNCHANGED vars
  BY <1>0, <1>14, StoreStepInv DEF Retrack, vars
<1> QED
  BY <1>1, <1>2, <1>3, <1>4, <1>5, <1>6, <1>7, <1>8, <1>9, <1>10, <1>11, <1>12, <1>13, <1>14
     DEF Next, UiThread

LEMMA EditorInvInit ==
  ASSUME Init
  PROVE  EditorInv
<1>1. Shaped(db) /\ clock \in Nat
  BY DEF Init, EmptyStore, Empty, Shaped, StoreFields
<1>2. IsSequence(procs) /\ Sessions = {}
  BY DEF Init, IsSequence, Sessions
<1> QED
  BY <1>1, <1>2 DEF Init, EditorInv, NoOrphan

\* No editor is left behind, for every history and any number of editors, also
\* when one is opened while messages of another wait.
THEOREM NoOrphanHolds == Spec => []NoOrphan
<1>1. EditorInv => NoOrphan
  BY DEF EditorInv
<1> QED
  BY <1>1, EditorInvInit, EditorInvStep, PTL DEF Spec

-----------------------------------------------------------------------------
(* Messages of earlier editors                                             *)

\* The current editor is the one that was opened last.
CurrentIsLast == editor # None => \A s \in Sessions : s <= editor.session

\* The end of a process is only reported after it.
CurrentInv ==
  /\ EditorInv
  /\ CurrentIsLast
  /\ stream # None => stream \in Sessions
  /\ IsSequence(queue)
  /\ \A i \in DOMAIN queue :
       /\ queue[i].by \in Sessions
       /\ queue[i].type = "EditorProcessExited" => ~procs[queue[i].by].alive

\* A step that opens no editor, and at most ends the current one.
LEMMA CurrentIsLastKept ==
  ASSUME CurrentIsLast, editor' \in {editor, None}, Sessions' = Sessions
  PROVE  CurrentIsLast'
  BY DEF CurrentIsLast

LEMMA CurrentIsLastStep ==
  ASSUME EditorInv, CurrentIsLast, [Next]_vars
  PROVE  CurrentIsLast'
<1>1. CASE EditLatest \/ \E id \in Live : Edit(id)
  <2>1. PICK id \in Live : OpenEditor(id)
    BY <1>1 DEF EditLatest, Edit
  <2> DEFINE others == IF editor = None THEN procs ELSE Told(editor.session)
             started == Started(id)
  <2>2. IsSequence(others) /\ DOMAIN others = Sessions
    BY ToldGoesOn DEF EditorInv, Sessions
  <2>3. \/ editor' = None
        \/ procs' = Append(others, started) /\ editor' = [session |-> Len(procs) + 1, entry_id |-> id]
    BY <2>1 DEF OpenEditor
  <2> HIDE DEF others, started
  <2>4. CASE editor' = None
    BY <2>4 DEF CurrentIsLast
  <2>5. CASE procs' = Append(others, started)
             /\ editor' = [session |-> Len(procs) + 1, entry_id |-> id]
    <3>1. Len(procs) \in Nat /\ Sessions = 1 .. Len(procs)
      BY AppendSequence DEF EditorInv, Sessions
    <3>2. Len(others) = Len(procs)
      BY <2>2, <3>1, AppendSequence
    <3>3. Sessions' = 1 .. Len(procs) + 1
      BY <2>2, <2>5, <3>2, AppendSequence DEF Sessions
    <3> QED
      BY <2>5, <3>1, <3>3 DEF CurrentIsLast
  <2> QED
    BY <2>3, <2>4, <2>5
<1>2. CASE ~(EditLatest \/ \E id \in Live : Edit(id))
  <2>1. editor' \in {editor, None} /\ DOMAIN procs' = DOMAIN procs
    BY <1>2 DEF Next, UiThread, Copy, DeleteEntry, ToggleFavorite, ObeyApplet, EditorDies, Exits,
         Told, Forward, ForwardFrame, ForwardExit, CloseWindow, ClearHistory, ExitApplet, Retrack,
         EditorEvent, EditorProcessExited, WaitEnds, vars
  <2> QED
    BY <2>1, CurrentIsLastKept DEF Sessions
<1> QED
  BY <1>1, <1>2

\* Only a frame or the end of the process whose stream runs is added to the queue.
LEMMA QueueKept ==
  ASSUME CurrentInv, EditorInv', CurrentIsLast', ProcsGoOn, queue' = queue,
         stream' # None => stream' \in Sessions'
  PROVE  CurrentInv'
  BY DEF CurrentInv, ProcsGoOn

LEMMA QueueTaken ==
  ASSUME CurrentInv, EditorInv', CurrentIsLast', ProcsGoOn, stream' = stream,
         queue # << >>, queue' = Tail(queue)
  PROVE  CurrentInv'
<1>1. /\ IsSequence(queue') /\ DOMAIN queue' = 1 .. Len(queue) - 1 /\ DOMAIN queue = 1 .. Len(queue)
      /\ Len(queue) \in Nat
      /\ \A i \in DOMAIN queue' : i + 1 \in DOMAIN queue /\ queue'[i] = queue[i + 1]
  BY TailSequence DEF CurrentInv
<1> QED
  BY <1>1 DEF CurrentInv, ProcsGoOn

LEMMA QueueGrows ==
  ASSUME CurrentInv, EditorInv', CurrentIsLast', ProcsGoOn, stream' = stream,
         NEW s \in Sessions, NEW frame, queue' = Append(queue, Message(s, frame)),
         ~procs[s].alive
  PROVE  CurrentInv'
<1> DEFINE m == Message(s, frame)
<1>1. m.by = s
  BY DEF Message
<1> HIDE DEF m
<1>2. /\ IsSequence(queue') /\ Len(queue) \in Nat
      /\ DOMAIN queue = 1 .. Len(queue) /\ DOMAIN queue' = 1 .. Len(queue) + 1
      /\ \A i \in 1 .. Len(queue) : queue'[i] = queue[i]
      /\ queue'[Len(queue) + 1] = m
  BY AppendSequence DEF CurrentInv, m
<1>3. \A i \in DOMAIN queue' : i \in DOMAIN queue \/ i = Len(queue) + 1
  BY <1>2
<1>4. ~procs'[s].alive /\ s \in Sessions'
  BY DEF ProcsGoOn
<1> QED
  BY <1>1, <1>2, <1>3, <1>4 DEF CurrentInv, ProcsGoOn

LEMMA CurrentInvStep ==
  ASSUME CurrentInv, [Next]_vars
  PROVE  CurrentInv'
<1>0. EditorInv' /\ ProcsGoOn /\ EditorInv /\ CurrentIsLast'
  BY EditorInvStep, CurrentIsLastStep DEF CurrentInv
<1>1. CASE \/ \E c \in Content : Copy(c)
           \/ \E id \in Live : Edit(id) \/ DeleteEntry(id) \/ ToggleFavorite(id)
           \/ \E s \in Sessions : ObeyApplet(s) \/ EditorDies(s)
           \/ \E s \in Sessions, text \in Texts : CloseWindow(s, text)
           \/ ClearHistory \/ EditLatest \/ WaitEnds \/ UNCHANGED vars
  <2>1. queue' = queue /\ stream' = stream
    BY <1>1 DEF Copy, Edit, EditLatest, OpenEditor, DeleteEntry, ToggleFavorite, ObeyApplet,
         EditorDies, CloseWindow, ClearHistory, WaitEnds, vars
  <2>2. stream' # None => stream' \in Sessions'
    BY <1>0, <2>1 DEF CurrentInv, ProcsGoOn
  <2> QED
    BY <1>0, <2>1, <2>2, QueueKept
<1>2. CASE ExitApplet
  <2>1. queue' = << >> /\ stream' = None
    BY <1>2 DEF ExitApplet
  <2>2. IsSequence(queue') /\ DOMAIN queue' = {}
    BY <2>1 DEF IsSequence
  <2> QED
    BY <1>0, <2>1, <2>2 DEF CurrentInv
<1>3. ASSUME NEW s \in Sessions, Forward(s)
      PROVE  CurrentInv'
  <2>1. stream' = stream
    BY <1>3 DEF Forward
  <2>2. PICK frame : queue' = Append(queue, Message(s, frame)) /\ ~procs[s].alive
    BY <1>0, <1>3 DEF Forward, ForwardFrame, ForwardExit, EditorInv, ProcOK
  <2> QED
    BY <1>0, <2>1, <2>2, QueueGrows
<1>4. CASE EditorEvent \/ EditorProcessExited
  <2>1. queue # << >> /\ queue' = Tail(queue) /\ stream' = stream
    BY <1>4 DEF EditorEvent, EditorProcessExited
  <2> QED
    BY <1>0, <2>1, QueueTaken
<1>5. CASE Retrack
  <2>1. /\ queue' = queue
        /\ stream' = IF editor = None THEN None ELSE editor.session
    BY <1>5 DEF Retrack
  <2>2. stream' # None => stream' \in Sessions'
    BY <1>0, <2>1 DEF EditorInv, ProcsGoOn
  <2> QED
    BY <1>0, <2>1, <2>2, QueueKept
<1> QED
  BY <1>1, <1>2, <1>3, <1>4, <1>5 DEF Next, UiThread

LEMMA CurrentInvInit ==
  ASSUME Init
  PROVE  CurrentInv
<1>1. IsSequence(queue) /\ DOMAIN queue = {}
  BY DEF Init, IsSequence
<1> QED
  BY <1>1, EditorInvInit DEF Init, CurrentInv, CurrentIsLast

\* A message of another editor than the current one is of an earlier one.
LEMMA OthersLate ==
  ASSUME CurrentInv, NEW i \in DOMAIN queue, editor # None, queue[i].by # editor.session
  PROVE  Late(queue[i])
<1>1. queue[i].by \in Sessions /\ editor.session \in Sessions /\ queue[i].by <= editor.session
  BY DEF CurrentInv, EditorInv, CurrentIsLast
<1>2. Sessions \subseteq Nat
  BY AppendSequence DEF CurrentInv, EditorInv, Sessions
<1>3. queue[i].by \in Nat /\ editor.session \in Nat
  BY <1>1, <1>2
<1> QED
  BY <1>1, <1>3 DEF Late

LEMMA HangStep ==
  ASSUME CurrentInv, [Next]_vars, up', waiting' \notin {waiting, None}
  PROVE  waiting' = editor.session /\ Late(Head(queue))
<1>1. EditorProcessExited
  BY DEF Next, UiThread, Copy, Edit, DeleteEntry, ToggleFavorite, ObeyApplet, EditorDies, Forward,
       CloseWindow, ClearHistory, EditLatest, OpenEditor, ExitApplet, Retrack, EditorEvent,
       WaitEnds, vars
<1>2. /\ queue # << >> /\ Head(queue).type = "EditorProcessExited" /\ editor # None
      /\ waiting' = editor.session /\ procs[editor.session].alive
  BY <1>1 DEF EditorProcessExited, Await
<1>3. Head(queue) = queue[1] /\ 1 \in DOMAIN queue
  BY <1>2, TailSequence DEF CurrentInv
<1>4. queue[1].by # editor.session
  BY <1>2, <1>3 DEF CurrentInv
<1> QED
  BY <1>2, <1>3, <1>4, OthersLate

\* For any number of editors, opened while whichever messages of earlier ones are
\* still on their way: but for the applet's exit, the UI thread waits for a process
\* that still runs only when it takes the late end of an earlier editor for that of
\* the current one.
THEOREM NeverHangsHolds == Spec => NeverHangs
<1>1. CurrentInv /\ [Next]_vars =>
        [up' /\ waiting' \notin {waiting, None}
           => waiting' = editor.session /\ Late(Head(queue))]_vars
  BY HangStep
<1> QED
  BY <1>1, CurrentInvInit, CurrentInvStep, PTL DEF Spec, NeverHangs

\* What EditsOwnEntry says of the handling of one message.
OwnEntryKept(m) ==
  Handles(m) /\ (m.type = "UpdateExisting" \/ m.content = Blank)
    => \A id \in Live :
         \/ Attached(m.by) /\ id = procs[m.by].entry
         \/ Late(m) /\ id = procs[editor.session].entry
         \/ id \in DOMAIN db'.entries /\ db'.entries[id].content = db.entries[id].content

LEMMA OwnEntryStep ==
  ASSUME CurrentInv, [Next]_vars, NEW i \in DOMAIN queue
  PROVE  OwnEntryKept(queue[i])
<1> SUFFICES ASSUME Handles(queue[i]), queue[i].type = "UpdateExisting" \/ queue[i].content = Blank,
                    NEW id \in Live
             PROVE  \/ Attached(queue[i].by) /\ id = procs[queue[i].by].entry
                    \/ Late(queue[i]) /\ id = procs[editor.session].entry
                    \/ id \in DOMAIN db'.entries /\ db'.entries[id].content = db.entries[id].content
  BY DEF OwnEntryKept
<1>1. queue # << >> /\ queue[i] = Head(queue) /\ queue' = Tail(queue) /\ up'
  BY DEF Handles
<1>2. queue' # queue
  <2>1. Len(queue) \in Nat \ {0} /\ DOMAIN queue = 1 .. Len(queue) /\ DOMAIN queue' = 1 .. Len(queue) - 1
    BY <1>1, TailSequence DEF CurrentInv
  <2>2. Len(queue) \in DOMAIN queue /\ Len(queue) \notin DOMAIN queue'
    BY <2>1
  <2> QED
    BY <2>2
<1>3. CASE db' = db
  BY <1>3 DEF Live
<1>4. CASE EditorEvent
  <2>1. CASE editor # None /\ KeepsBut(db, db', {editor.entry_id})
    <3>1. editor.entry_id = procs[editor.session].entry
      BY <2>1 DEF CurrentInv, EditorInv
    <3>2. CASE queue[i].by = editor.session
      BY <2>1, <3>1, <3>2 DEF Attached, KeepsBut, Live
    <3>3. CASE queue[i].by # editor.session
      BY <2>1, <3>1, <3>3, OthersLate DEF KeepsBut, Live
    <3> QED
      BY <3>2, <3>3
  <2>2. CASE Head(queue).type = "SaveAsNew" /\ Head(queue).content # Blank
    BY <1>1, <2>2
  <2> QED
    BY <1>3, <1>4, <2>1, <2>2, EventShaped DEF CurrentInv
<1>5. db' = db \/ EditorEvent
  BY <1>2 DEF Next, UiThread, vars, Copy, Edit, DeleteEntry, ToggleFavorite, ObeyApplet, EditorDies,
       Forward, CloseWindow, ClearHistory, EditLatest, OpenEditor, ExitApplet, Retrack,
       EditorProcessExited, WaitEnds
<1> QED
  BY <1>3, <1>4, <1>5

\* For every history, any number of editors, whatever merges, evictions and deletions
\* happen meanwhile, and however late a message is handled: an update or an emptied
\* text changes or removes the entry its editor was opened on and no other; after
\* another editor was opened, no entry but that of the newest one.
THEOREM EditsOwnEntryHolds == Spec => EditsOwnEntry
<1>1. CurrentInv /\ [Next]_vars =>
        [\A i \in DOMAIN queue :
           /\ Handles(queue[i])
           /\ queue[i].type = "UpdateExisting" \/ queue[i].content = Blank
           => \A id \in Live :
                \/ Attached(queue[i].by) /\ id = procs[queue[i].by].entry
                \/ Late(queue[i]) /\ id = procs[editor.session].entry
                \/ id \in DOMAIN db'.entries
                   /\ db'.entries[id].content = db.entries[id].content]_vars
  BY OwnEntryStep DEF OwnEntryKept
<1> QED
  BY <1>1, CurrentInvInit, CurrentInvStep, PTL DEF Spec, EditsOwnEntry

-----------------------------------------------------------------------------
(* The lookup by hash                                                      *)

\* A hash leads to the entry that has the content, or to one that is gone: an
\* update of an entry that was deleted meanwhile leaves such a hash.
HashsSound(st) ==
  \A h \in DOMAIN st.hashs :
    st.hashs[h] \in DOMAIN st.entries => Hash[st.entries[st.hashs[h]].content] = h

\* new has no entry, content or hash that st has not.
Trims(st, new) ==
  /\ \A id \in DOMAIN new.entries :
       id \in DOMAIN st.entries /\ new.entries[id].content = st.entries[id].content
  /\ \A h \in DOMAIN new.hashs : h \in DOMAIN st.hashs /\ new.hashs[h] = st.hashs[h]

LEMMA TrimsSound ==
  ASSUME NEW st, HashsSound(st), NEW new, Trims(st, new)
  PROVE  HashsSound(new)
  BY DEF HashsSound, Trims

LEMMA TrimsTwice ==
  ASSUME NEW st, NEW mid, Trims(st, mid), NEW new, Trims(mid, new)
  PROVE  Trims(st, new)
  BY DEF Trims

LEMMA TrimsNothing ==
  ASSUME NEW st, NEW new, new.entries = st.entries, new.hashs = st.hashs
  PROVE  Trims(st, new)
  BY DEF Trims

LEMMA SearchTrims ==
  ASSUME NEW st, Shaped(st)
  PROVE  Trims(st, Search(st)) /\ Search(st).times = st.times
<1>1. CASE st.query = None
  BY <1>1 DEF Search, Shaped, StoreFields, Trims
<1>2. CASE st.query # None /\ IterPanics(st)
  BY <1>2 DEF Search, Panic, Shaped, StoreFields, Trims
<1>3. CASE st.query # None /\ ~IterPanics(st)
  <2> DEFINE found == Selected(Iter(st), Matching(st))
  <2>1. Search(st) = [st EXCEPT !.filtered = found]
    BY <1>3 DEF Search
  <2> HIDE DEF found
  <2> QED
    BY <2>1 DEF Shaped, StoreFields, Trims
<1> QED
  BY <1>1, <1>2, <1>3

LEMMA UnindexTrims ==
  ASSUME NEW st, Shaped(st), NEW ids
  PROVE  Trims(st, Unindex(st, ids))
<1> DEFINE new == Unindex(st, ids)
           hs == {Hash[st.entries[id].content] : id \in ids}
<1>1. new.entries = Drop(st.entries, ids) /\ new.hashs = Drop(st.hashs, hs)
  BY DEF Unindex, Shaped, StoreFields
<1> HIDE DEF new, hs
<1>2. Trims(st, new)
  BY <1>1 DEF Trims, Drop
<1> QED
  BY <1>2 DEF new

LEMMA BumpTrims ==
  ASSUME NEW st, Shaped(st), NEW id \in DOMAIN st.entries, NEW now
  PROVE  /\ Trims(st, Bump(st, id, now)) /\ Bump(st, id, now).times[now] = id
         /\ now \in DOMAIN Bump(st, id, now).times
<1> DEFINE new == Bump(st, id, now)
           times == Drop(st.times, {st.entries[id].creation})
<1>1. /\ new.entries = [st.entries EXCEPT ![id].creation = now]
      /\ new.hashs = st.hashs /\ new.times = Put(times, now, id)
  BY DEF Bump, Shaped, StoreFields
<1> HIDE DEF new, times
<1>2. /\ DOMAIN new.entries = DOMAIN st.entries
      /\ new.entries[id] = [st.entries[id] EXCEPT !.creation = now]
      /\ \A x \in DOMAIN st.entries \ {id} : new.entries[x] = st.entries[x]
  BY <1>1
<1>3. new.entries[id].content = st.entries[id].content
  BY <1>2 DEF Shaped, EntryFields
<1>4. Trims(st, new)
  BY <1>1, <1>2, <1>3 DEF Trims
<1>5. new.times[now] = id /\ now \in DOMAIN new.times
  BY <1>1 DEF Put
<1> QED
  BY <1>4, <1>5 DEF new

LEMMA MarkTrims ==
  ASSUME NEW st, Shaped(st), NEW id, NEW fav, NEW title
  PROVE  Trims(st, Mark(st, id, fav, title))
<1> DEFINE new == Mark(st, id, fav, title)
<1>1. CASE id \in DOMAIN st.entries
  <2>1. /\ new.hashs = st.hashs
        /\ new.entries = [[st.entries EXCEPT ![id].is_favorite = fav]
                            EXCEPT ![id].favorite_title = title]
    BY <1>1 DEF Mark, Shaped, StoreFields
  <2> HIDE DEF new
  <2>2. /\ DOMAIN new.entries = DOMAIN st.entries
        /\ new.entries[id] = [[st.entries[id] EXCEPT !.is_favorite = fav]
                                EXCEPT !.favorite_title = title]
        /\ \A x \in DOMAIN st.entries \ {id} : new.entries[x] = st.entries[x]
    BY <1>1, <2>1
  <2>3. new.entries[id].content = st.entries[id].content
    BY <1>1, <2>2 DEF Shaped, EntryFields
  <2>4. Trims(st, new)
    BY <2>1, <2>2, <2>3 DEF Trims
  <2> QED
    BY <2>4 DEF new
<1>2. CASE id \notin DOMAIN st.entries
  BY <1>2 DEF Mark, Trims
<1> QED
  BY <1>1, <1>2

LEMMA FavRemoveTrims ==
  ASSUME NEW st, Shaped(st), NEW id
  PROVE  Trims(st, FavRemove(st, id))
<1> DEFINE list == WithoutFirst(st.favs, id)
           titles == Drop(st.titles, {id})
<1>1. FavRemove(st, id) =
        [st EXCEPT !.favs = list, !.favSet = @ \ {id}, !.titles = titles]
  BY DEF FavRemove
<1> HIDE DEF list, titles
<1>2. FavRemove(st, id).entries = st.entries /\ FavRemove(st, id).hashs = st.hashs
  BY <1>1 DEF Shaped, StoreFields
<1> QED
  BY <1>2, TrimsNothing

LEMMA FavoriteTrims ==
  ASSUME NEW st, Shaped(st), NEW id
  PROVE  /\ Trims(st, AddFavoriteToMemory(st, id).db)
         /\ Trims(st, RemoveFavoriteFromMemory(st, id).db)
<1> DEFINE list == Append(st.favs, id)
           titles == Put(st.titles, id, None)
           mid == FavPush(st, id)
<1>1. mid = [st EXCEPT !.favs = list, !.favSet = @ \cup {id}, !.titles = titles]
  BY DEF FavPush
<1> HIDE DEF list, titles
<1>2. mid.entries = st.entries /\ mid.hashs = st.hashs /\ DOMAIN mid = DOMAIN st
  BY <1>1 DEF Shaped, StoreFields
<1>a. Shaped(mid)
  BY <1>2 DEF Shaped
<1>b. Trims(st, mid)
  BY <1>2, TrimsNothing
<1> HIDE DEF mid
<1>c. Trims(mid, Mark(mid, id, TRUE, None))
  BY <1>a, MarkTrims
<1>d. Trims(st, Mark(mid, id, TRUE, None))
  BY <1>b, <1>c, TrimsTwice
<1>3. Trims(st, Mark(FavRemove(st, id), id, FALSE, None))
  <2> DEFINE less == FavRemove(st, id)
  <2>1. Shaped(less) /\ Trims(st, less)
    BY FavRemoveShaped, FavRemoveTrims
  <2> HIDE DEF less
  <2>2. Trims(less, Mark(less, id, FALSE, None))
    BY <2>1, MarkTrims
  <2>3. Trims(st, Mark(less, id, FALSE, None))
    BY <2>1, <2>2, TrimsTwice
  <2> QED
    BY <2>3 DEF less
<1>4. AddFavoriteToMemory(st, id).db = Mark(mid, id, TRUE, None)
  BY DEF mid, AddFavoriteToMemory
<1>5. RemoveFavoriteFromMemory(st, id).db = Mark(FavRemove(st, id), id, FALSE, None)
  BY DEF RemoveFavoriteFromMemory
<1> QED
  BY <1>d, <1>3, <1>4, <1>5

LEMMA RemoveTrims ==
  ASSUME NEW st, Shaped(st), NEW id
  PROVE  Trims(st, Remove(st, id))
<1> DEFINE left == Unindex(st, {id})
<1>1. Shaped(left) /\ Trims(st, left)
  BY UnindexShaped, UnindexTrims
<1>2. Trims(st, FavRemove(left, id))
  BY <1>1, FavRemoveTrims, TrimsTwice
<1> QED
  BY <1>1, <1>2 DEF Remove

LEMMA DeleteTrims ==
  ASSUME NEW st, Shaped(st), NEW id
  PROVE  Trims(st, DeleteFromMemory(st, id).db)
<1>1. CASE id \in DOMAIN st.entries
  <2>1. DeleteFromMemory(st, id).db = Search(Remove(st, id))
    BY <1>1 DEF DeleteFromMemory
  <2>2. Shaped(Remove(st, id)) /\ Trims(st, Remove(st, id))
    BY RemoveShaped, RemoveTrims
  <2> QED
    BY <2>1, <2>2, SearchTrims, TrimsTwice
<1>2. CASE id \notin DOMAIN st.entries
  BY <1>2, TrimsNothing DEF DeleteFromMemory, NoOp
<1> QED
  BY <1>1, <1>2

LEMMA ClearTrims ==
  ASSUME NEW st, Shaped(st)
  PROVE  Trims(st, ClearMemory(st).db)
<1> DEFINE left == Unindex(st, {id \in DOMAIN st.entries : id \notin st.favSet})
<1>1. Shaped(left) /\ Trims(st, left)
  BY UnindexShaped, UnindexTrims
<1>2. ClearMemory(st).db = Search(left)
  BY DEF ClearMemory
<1> QED
  BY <1>1, <1>2, SearchTrims, TrimsTwice

\* A merge brings the other entry to the top, unless the program dies.
LEMMA MergeTrims ==
  ASSUME NEW st, Shaped(st), NEW id, NEW c, NEW now
  PROVE  /\ Trims(st, MergeIntoOther(st, id, c, now))
         /\ \/ MergeIntoOther(st, id, c, now).panicked
            \/ /\ now \in DOMAIN MergeIntoOther(st, id, c, now).times
               /\ MergeIntoOther(st, id, c, now).times[now] = st.hashs[Hash[c]]
               /\ st.hashs[Hash[c]] \in DOMAIN MergeIntoOther(st, id, c, now).entries
<1> DEFINE other == st.hashs[Hash[c]]
           left == IF id \in DOMAIN st.entries THEN Remove(st, id) ELSE st
           new == MergeIntoOther(st, id, c, now)
<1>1. Shaped(left) /\ Trims(st, left)
  BY RemoveShaped, RemoveTrims, TrimsNothing
<1>2. new = IF other \in DOMAIN left.entries THEN Search(Bump(left, other, now)) ELSE Panic(left)
  BY DEF MergeIntoOther
<1> HIDE DEF other, left, new
<1>3. CASE other \in DOMAIN left.entries
  <2> DEFINE bumped == Bump(left, other, now)
  <2>1. /\ Shaped(bumped) /\ Trims(left, bumped) /\ DOMAIN bumped.entries = DOMAIN left.entries
        /\ now \in DOMAIN bumped.times /\ bumped.times[now] = other
    BY <1>1, <1>3, BumpShaped, BumpTrims
  <2> HIDE DEF bumped
  <2>2. /\ Trims(bumped, Search(bumped)) /\ Search(bumped).times = bumped.times
        /\ Search(bumped).entries = bumped.entries
    BY <2>1, SearchTrims, SearchShaped
  <2>3. new = Search(bumped)
    BY <1>2, <1>3 DEF bumped
  <2>4. Trims(st, bumped)
    BY <1>1, <2>1, TrimsTwice
  <2>5. Trims(st, new)
    BY <2>2, <2>3, <2>4, TrimsTwice
  <2> QED
    BY <1>3, <2>1, <2>2, <2>3, <2>5 DEF new, other
<1>4. CASE other \notin DOMAIN left.entries
  <2>1. new = Panic(left)
    BY <1>2, <1>4
  <2>2. new.panicked = TRUE /\ new.entries = left.entries /\ new.hashs = left.hashs
    BY <1>1, <2>1 DEF Panic, Shaped, StoreFields
  <2>3. Trims(st, new)
    BY <1>1, <2>2, TrimsNothing, TrimsTwice
  <2> QED
    BY <2>2, <2>3 DEF new
<1> QED
  BY <1>3, <1>4

-----------------------------------------------------------------------------
(* Types, and how many times the clock is read                             *)

Exited == "EditorProcessExited"

\* The state of the history, the sessions and the queue has its type; a process
\* leaves one frame at most.
Procs(n) ==
  [entry : 1 .. n, original : Texts, is_favorite : BOOLEAN,
   alive : BOOLEAN, told : BOOLEAN, frames : Seq(Frames), eof : BOOLEAN]

ProcTyped(p, n) == p \in Procs(n) /\ Len(p.frames) <= 1

StateTyped ==
  /\ Good(db, clock, {None})
  /\ Len(procs) <= MaxSessions
  /\ \A s \in Sessions : ProcTyped(procs[s], clock)
  /\ editor \in Editors \cup {None}
  /\ stream \in Sessions \cup {None}
  /\ waiting \in Sessions \cup {None}
  /\ up \in BOOLEAN

QueueTyped ==
  /\ IsSequence(queue)
  /\ \A i \in DOMAIN queue :
       /\ queue[i].by \in Sessions
       /\ Frame(queue[i].type, queue[i].content) \in Frames

\* What a session saved waits in the queue.
Waits(s) == \E i \in DOMAIN queue : queue[i].by = s /\ queue[i].type # Exited

\* Only a process that has ended and left nothing in its pipe has a message in
\* the queue, and no more than one.
SavesOnce ==
  /\ \A s \in Sessions : Waits(s) => ~procs[s].alive /\ procs[s].frames = << >>
  /\ \A i, j \in DOMAIN queue :
       queue[i].by = queue[j].by /\ Exited \notin {queue[i].type, queue[j].type} => i = j

\* The sessions that will save nothing any more.
Spent == {s \in Sessions : ~procs[s].alive /\ procs[s].frames = << >> /\ ~Waits(s)}

\* The clock is read for a copy or for the one message of a session.
TypeInv ==
  /\ EditorInv /\ StateTyped /\ QueueTyped /\ SavesOnce
  /\ clock <= MaxCopies + Cardinality(Spent)

LEMMA TypedLater ==
  ASSUME NEW n \in Nat, NEW m \in Nat, n <= m, NEW p, ProcTyped(p, n)
  PROVE  ProcTyped(p, m)
  BY DEF ProcTyped, Procs

\* The history changes as its operations say, under a clock that goes on.
LEMMA StoreTypedStep ==
  ASSUME EditorInv, StateTyped, QueueTyped, [Next]_vars
  PROVE  /\ Good(db', clock', {None})
         /\ clock' \in {clock, clock + 1}
<1>0. /\ Good(db, clock, {None}) /\ clock \in Nat
      /\ clock + 1 \in Nat /\ clock < clock + 1
  BY DEF StateTyped, EditorInv
<1>a. Live \subseteq 1 .. clock
  BY <1>0 DEF Live, Good, Typed, IsMap
<1>1. ASSUME NEW c \in Content, Copy(c)
      PROVE  Good(db', clock', {None}) /\ clock' = clock + 1
  BY <1>0, <1>1, InsertKeepsGood DEF Copy
<1>2. ASSUME NEW id \in Live, ToggleFavorite(id)
      PROVE  Good(db', clock', {None}) /\ clock' = clock
  BY <1>0, <1>a, <1>2, AddFavoriteKeepsGood, RemoveFavoriteKeepsGood DEF ToggleFavorite
<1>3. ASSUME NEW id \in Live, DeleteEntry(id)
      PROVE  Good(db', clock', {None}) /\ clock' = clock
  BY <1>0, <1>3, DeleteKeepsGood DEF DeleteEntry
<1>4. ASSUME ClearHistory
      PROVE  Good(db', clock', {None}) /\ clock' = clock
  BY <1>0, <1>4, ClearKeepsGood DEF ClearHistory
<1>5. ASSUME EditorEvent
      PROVE  Good(db', clock', {None}) /\ clock' \in {clock, clock + 1}
  <2> DEFINE m == Head(queue)
  <2>1. m.content \in Texts
    <3>1. m = queue[1] /\ 1 \in DOMAIN queue
      BY <1>5, TailSequence DEF QueueTyped, EditorEvent
    <3> QED
      BY <3>1 DEF QueueTyped, Frame, Frames
  <2>2. editor # None => editor.entry_id \in 1 .. clock
    BY DEF EditorInv, StateTyped, ProcTyped, Procs
  <2>3. m.content # Blank => m.content \in Content
    BY <2>1 DEF Texts
  <2> HIDE DEF m
  <2>4. DeleteEdited => Good(db', clock', {None}) /\ clock' = clock
    BY <1>0, DeleteKeepsGood DEF DeleteEdited
  <2>5. CASE SaveAsNew(m.content)
    BY <1>0, <2>3, <2>4, <2>5, InsertKeepsGood DEF SaveAsNew
  <2>6. CASE UpdateExisting(m.content)
    <3>1. CASE m.content = Blank
      BY <2>4, <2>6, <3>1 DEF UpdateExisting
    <3>2. CASE m.content # Blank /\ editor = None
      BY <1>0, <2>6, <3>2 DEF UpdateExisting
    <3>3. CASE m.content # Blank /\ editor # None
      <4>1. /\ clock' = clock + 1
            /\ db' = IF TakenByOther(db, editor.entry_id, m.content)
                       THEN MergeIntoOther(db, editor.entry_id, m.content, clock + 1)
                       ELSE UpdateContentInMemory(db, editor.entry_id, m.content, clock + 1).db
        BY <2>6, <3>3 DEF UpdateExisting
      <4>2. editor.entry_id \in 1 .. clock /\ m.content \in Content
        BY <2>2, <2>3, <3>3
      <4>3. CASE TakenByOther(db, editor.entry_id, m.content)
        BY <1>0, <4>1, <4>2, <4>3, MergeKeepsGood
      <4>4. CASE ~TakenByOther(db, editor.entry_id, m.content)
        BY <1>0, <4>1, <4>2, <4>4, UpdateKeepsGood
      <4> QED
        BY <4>1, <4>3, <4>4
    <3> QED
      BY <3>1, <3>2, <3>3
  <2>7. CASE UNCHANGED << db, clock >>
    BY <1>0, <2>7
  <2> QED
    BY <1>5, <2>5, <2>6, <2>7 DEF EditorEvent, m
<1>6. CASE UNCHANGED << db, clock >>
  BY <1>0, <1>6
<1>7. \/ \E c \in Content : Copy(c)
      \/ \E id \in Live : ToggleFavorite(id) \/ DeleteEntry(id)
      \/ ClearHistory \/ EditorEvent
      \/ UNCHANGED << db, clock >>
  BY DEF Next, UiThread, vars, Edit, ObeyApplet, EditorDies, Forward, CloseWindow, EditLatest, OpenEditor,
       ExitApplet, EditorProcessExited, Retrack, WaitEnds
<1> QED
  BY <1>1, <1>2, <1>3, <1>4, <1>5, <1>6, <1>7

\* The processes are typed at a clock reading n.
ProcsTyped(ps, n) ==
  /\ IsSequence(ps)
  /\ Len(ps) <= MaxSessions
  /\ \A s \in DOMAIN ps : ProcTyped(ps[s], n)

LEMMA OneProcTyped ==
  ASSUME NEW ps, NEW n \in Nat, ProcsTyped(ps, n), NEW s \in DOMAIN ps, NEW p, ProcTyped(p, n)
  PROVE  ProcsTyped([ps EXCEPT ![s] = p], n)
<1> DEFINE new == [ps EXCEPT ![s] = p]
<1>1. IsSequence(new) /\ DOMAIN new = DOMAIN ps /\ Len(new) = Len(ps)
  BY ExceptSequence DEF ProcsTyped
<1>2. \A x \in DOMAIN ps : new[x] = IF x = s THEN p ELSE ps[x]
  OBVIOUS
<1> HIDE DEF new
<1>3. ProcsTyped(new, n)
  BY <1>1, <1>2 DEF ProcsTyped
<1> QED
  BY <1>3 DEF new

LEMMA ToldTyped ==
  ASSUME EditorInv, NEW n \in Nat, ProcsTyped(procs, n), NEW s \in Sessions
  PROVE  ProcsTyped(Told(s), n)
<1> DEFINE p == [procs[s] EXCEPT !.told = TRUE]
<1>1. ProcTyped(p, n)
  BY DEF ProcsTyped, ProcTyped, Procs, EditorInv, ProcOK, ProcFields, Sessions
<1> HIDE DEF p
<1>2. Told(s) = [procs EXCEPT ![s] = p]
  BY DEF Told, p
<1>3. s \in DOMAIN procs
  BY DEF Sessions
<1>4. ProcsTyped([procs EXCEPT ![s] = p], n)
  BY <1>1, <1>3, OneProcTyped
<1> QED
  BY <1>2, <1>4

LEMMA SavedTyped ==
  ASSUME EditorInv, NEW n \in Nat, ProcsTyped(procs, n), NEW s \in Sessions, NEW text \in Texts
  PROVE  Saved(s, text) \in Frames
<1>1. Blank \in Texts /\ procs[s].is_favorite \in BOOLEAN
  BY DEF Texts, ProcsTyped, ProcTyped, Procs, Sessions
<1> QED
  BY <1>1 DEF Saved, Frame, Frames

LEMMA ExitsTyped ==
  ASSUME EditorInv, NEW n \in Nat, ProcsTyped(procs, n), NEW s \in Sessions,
         NEW frames \in Seq(Frames), Len(frames) <= 1, Exits(s, frames)
  PROVE  ProcsTyped(procs', n)
<1> DEFINE p == [procs[s] EXCEPT !.alive = FALSE, !.original = Blank,
                                 !.is_favorite = FALSE, !.frames = frames]
<1>1. ProcTyped(p, n)
  BY DEF Texts, ProcsTyped, ProcTyped, Procs, EditorInv, ProcOK, ProcFields, Sessions
<1> HIDE DEF p
<1>2. procs' = [procs EXCEPT ![s] = p]
  BY DEF Exits, p
<1> QED
  BY <1>1, <1>2, OneProcTyped DEF Sessions

LEMMA ForwardTyped ==
  ASSUME EditorInv, NEW n \in Nat, ProcsTyped(procs, n), NEW s \in Sessions, Forward(s)
  PROVE  ProcsTyped(procs', n)
<1>1. CASE ForwardFrame(s)
  <2> DEFINE p == [procs[s] EXCEPT !.frames = Tail(@)]
  <2>1. /\ procs[s].frames \in Seq(Frames) /\ procs[s].frames # << >>
        /\ Len(procs[s].frames) <= 1
    BY <1>1 DEF ForwardFrame, ProcsTyped, ProcTyped, Procs, Sessions
  <2>2. Tail(procs[s].frames) \in Seq(Frames) /\ Len(Tail(procs[s].frames)) <= 1
    BY <2>1
  <2>3. ProcTyped(p, n)
    BY <2>2 DEF ProcsTyped, ProcTyped, Procs, EditorInv, ProcOK, ProcFields, Sessions
  <2> HIDE DEF p
  <2>4. procs' = [procs EXCEPT ![s] = p]
    BY <1>1 DEF ForwardFrame, p
  <2> QED
    BY <2>3, <2>4, OneProcTyped DEF Sessions
<1>2. CASE ForwardExit(s)
  <2> DEFINE p == [procs[s] EXCEPT !.eof = TRUE]
  <2>1. ProcTyped(p, n)
    BY DEF ProcsTyped, ProcTyped, Procs, EditorInv, ProcOK, ProcFields, Sessions
  <2> HIDE DEF p
  <2>2. procs' = [procs EXCEPT ![s] = p]
    BY <1>2 DEF ForwardExit, p
  <2> QED
    BY <2>1, <2>2, OneProcTyped DEF Sessions
<1> QED
  BY <1>1, <1>2 DEF Forward

LEMMA StartedTyped ==
  ASSUME Good(db, clock, {None}), clock \in Nat, NEW id \in Live
  PROVE  ProcTyped(Started(id), clock)
<1>1. id \in 1 .. clock /\ db.entries[id].content \in Content /\ IsFavorite(db, id) \in BOOLEAN
  BY DEF Live, Good, Typed, IsMap, EntryUpTo, IsFavorite
<1>2. << >> \in Seq(Frames) /\ Len(<< >>) <= 1
  OBVIOUS
<1> QED
  BY <1>1, <1>2 DEF Started, ProcTyped, Procs, Texts

LEMMA OpenEditorTyped ==
  ASSUME EditorInv, StateTyped, ProcsTyped(procs, clock), NEW id \in Live, OpenEditor(id)
  PROVE  ProcsTyped(procs', clock) /\ editor' \in Editors \cup {None}
<1> DEFINE others == IF editor = None THEN procs ELSE Told(editor.session)
           started == Started(id)
<1>1. clock \in Nat /\ id \in Nat
  BY DEF EditorInv, Live, Shaped
<1>2. ProcsTyped(others, clock) /\ DOMAIN others = Sessions
  BY <1>1, ToldTyped, ToldGoesOn DEF EditorInv, Sessions
<1>3. ProcTyped(started, clock)
  BY <1>1, StartedTyped DEF StateTyped
<1>4. Len(procs) < MaxSessions /\ Len(procs) \in Nat /\ Sessions = 1 .. Len(procs)
  BY AppendSequence DEF EditorInv, OpenEditor, Sessions
<1>5. \/ /\ procs' = Append(others, started)
         /\ editor' = [session |-> Len(procs) + 1, entry_id |-> id]
      \/ procs' = others /\ editor' = None
  BY DEF OpenEditor
<1> HIDE DEF others, started
<1>6. editor' \in Editors \cup {None}
  BY <1>1, <1>4, <1>5 DEF Editors
<1>7. CASE procs' = others
  BY <1>2, <1>6, <1>7
<1>8. CASE procs' = Append(others, started)
  <2>1. /\ IsSequence(procs') /\ Len(others) \in Nat
        /\ DOMAIN others = 1 .. Len(others) /\ DOMAIN procs' = 1 .. Len(others) + 1
        /\ \A i \in 1 .. Len(others) : procs'[i] = others[i]
        /\ procs'[Len(others) + 1] = started
    BY <1>2, <1>8, AppendSequence DEF ProcsTyped
  <2>2. Len(others) = Len(procs)
    BY <1>2, <1>4, <2>1
  <2>3. Len(procs') <= MaxSessions
    <3>1. Len(procs') \in Nat /\ DOMAIN procs' = 1 .. Len(procs')
      BY <2>1, AppendSequence
    <3>2. MaxSessions \in Nat
      BY EditorAssumption
    <3> QED
      BY <1>4, <2>1, <2>2, <3>1, <3>2
  <2>4. \A s \in DOMAIN procs' : s \in DOMAIN others \/ s = Len(others) + 1
    BY <2>1
  <2>5. \A s \in DOMAIN procs' : ProcTyped(procs'[s], clock)
    BY <1>2, <1>3, <2>1, <2>4 DEF ProcsTyped
  <2> QED
    BY <1>6, <2>1, <2>3, <2>5 DEF ProcsTyped
<1> QED
  BY <1>5, <1>7, <1>8

LEMMA StateTypedStep ==
  ASSUME EditorInv, StateTyped, QueueTyped, [Next]_vars
  PROVE  StateTyped' /\ clock' \in {clock, clock + 1}
<1>0. /\ Good(db', clock', {None}) /\ clock' \in {clock, clock + 1}
      /\ clock \in Nat /\ clock' \in Nat /\ clock <= clock'
  BY StoreTypedStep DEF EditorInv
<1>1. ProcsTyped(procs, clock)
  BY DEF EditorInv, StateTyped, ProcsTyped, Sessions
<1>2. ProcsTyped(procs', clock) /\ editor' \in Editors \cup {None}
  <2> DEFINE Goal == ProcsTyped(procs', clock) /\ editor' \in Editors \cup {None}
  <2>1. CASE UNCHANGED << procs, editor >> \/ (UNCHANGED procs /\ editor' = None)
    BY <1>1, <2>1 DEF StateTyped
  <2>2. ASSUME NEW id \in Live, OpenEditor(id)
        PROVE  Goal
    BY <1>1, <2>2, OpenEditorTyped
  <2>3. ASSUME editor # None, procs' = Told(editor.session), editor' \in {editor, None}
        PROVE  Goal
    <3>1. editor.session \in Sessions
      BY <2>3 DEF EditorInv
    <3> QED
      BY <1>0, <1>1, <2>3, <3>1, ToldTyped DEF StateTyped
  <2>4. ASSUME NEW s \in Sessions, NEW frames \in Seq(Frames), Len(frames) <= 1, Exits(s, frames),
               editor' = editor
        PROVE  Goal
    BY <1>0, <1>1, <2>4, ExitsTyped DEF StateTyped
  <2>5. ASSUME NEW s \in Sessions, ObeyApplet(s) \/ EditorDies(s)
        PROVE  Goal
    <3>1. << Frame("Closed", Blank) >> \in Seq(Frames) /\ Len(<< Frame("Closed", Blank) >>) <= 1
      <4>1. Frame("Closed", Blank) \in Frames
        BY DEF Frame, Frames, Texts
      <4> QED
        BY <4>1
    <3>2. << >> \in Seq(Frames) /\ Len(<< >>) <= 1
      OBVIOUS
    <3>3. /\ Exits(s, << Frame("Closed", Blank) >>) \/ Exits(s, << >>)
          /\ editor' = editor
      BY <2>5 DEF ObeyApplet, EditorDies
    <3> QED
      BY <2>4, <3>1, <3>2, <3>3
  <2>6. ASSUME NEW s \in Sessions, NEW text \in Texts, CloseWindow(s, text)
        PROVE  Goal
    <3> DEFINE saved == Saved(s, text)
    <3>1. saved \in Frames
      BY <1>0, <1>1, SavedTyped
    <3>2. Exits(s, << saved >>) /\ editor' = editor
      BY <2>6 DEF CloseWindow
    <3> HIDE DEF saved
    <3>3. << saved >> \in Seq(Frames) /\ Len(<< saved >>) <= 1
      BY <3>1
    <3> QED
      BY <2>4, <3>2, <3>3
  <2>7. ASSUME NEW s \in Sessions, Forward(s)
        PROVE  Goal
    <3>1. editor' = editor
      BY <2>7 DEF Forward
    <3> QED
      BY <1>0, <1>1, <2>7, <3>1, ForwardTyped DEF StateTyped
  <2>8. \/ UNCHANGED << procs, editor >> \/ (UNCHANGED procs /\ editor' = None)
        \/ \E id \in Live : OpenEditor(id)
        \/ /\ editor # None /\ procs' = Told(editor.session)
           /\ editor' \in {editor, None}
        \/ \E s \in Sessions : ObeyApplet(s) \/ EditorDies(s) \/ Forward(s)
        \/ \E s \in Sessions, text \in Texts : CloseWindow(s, text)
    BY DEF Next, UiThread, vars, Copy, Edit, DeleteEntry, ToggleFavorite, ClearHistory, EditLatest,
         ExitApplet, EditorEvent, EditorProcessExited, Retrack, WaitEnds
  <2> QED
    BY <2>1, <2>2, <2>3, <2>5, <2>6, <2>7, <2>8
<1>3. ProcsTyped(procs', clock')
  BY <1>0, <1>2, TypedLater DEF ProcsTyped
<1>4. waiting' \in Sessions' \cup {None}
  BY EditorInvStep DEF EditorInv
<1>5. stream' \in Sessions' \cup {None}
  <2>1. stream' \in {stream, None} \/ (editor # None /\ stream' = editor.session)
    BY DEF Next, UiThread, vars, Copy, Edit, DeleteEntry, ToggleFavorite, ObeyApplet, EditorDies,
         Forward, CloseWindow, ClearHistory, EditLatest, OpenEditor, ExitApplet, EditorEvent,
         EditorProcessExited, Retrack, WaitEnds
  <2>2. Sessions \subseteq Sessions' /\ (editor # None => editor.session \in Sessions)
    BY EditorInvStep DEF EditorInv, ProcsGoOn
  <2> QED
    BY <2>1, <2>2 DEF StateTyped
<1>6. up' \in BOOLEAN
  <2>1. up' = up \/ up' = FALSE
    BY DEF Next, UiThread, vars, Copy, Edit, DeleteEntry, ToggleFavorite, ObeyApplet, EditorDies, Forward,
         CloseWindow, ClearHistory, EditLatest, OpenEditor, ExitApplet, EditorEvent,
         EditorProcessExited, Retrack, WaitEnds
  <2> QED
    BY <2>1 DEF StateTyped
<1> QED
  BY <1>0, <1>2, <1>3, <1>4, <1>5, <1>6 DEF StateTyped, ProcsTyped, Sessions

LEMMA QueueTypedStep ==
  ASSUME EditorInv, StateTyped, QueueTyped, [Next]_vars
  PROVE  QueueTyped'
<1>0. Sessions \subseteq Sessions'
  BY EditorInvStep DEF ProcsGoOn
<1>1. CASE queue' = queue
  BY <1>0, <1>1 DEF QueueTyped
<1>2. CASE queue # << >> /\ queue' = Tail(queue)
  <2>1. /\ IsSequence(queue') /\ DOMAIN queue = 1 .. Len(queue)
        /\ Len(queue) \in Nat /\ DOMAIN queue' = 1 .. Len(queue) - 1
        /\ \A i \in 1 .. Len(queue) - 1 : queue'[i] = queue[i + 1]
    BY <1>2, TailSequence DEF QueueTyped
  <2> QED
    BY <1>0, <2>1 DEF QueueTyped
<1>3. ASSUME NEW s \in Sessions, NEW frame \in Frames, queue' = Append(queue, Message(s, frame))
      PROVE  QueueTyped'
  <2> DEFINE m == Message(s, frame)
  <2>1. m.by = s /\ Frame(m.type, m.content) = frame
    BY DEF Message, Frame, Frames
  <2> HIDE DEF m
  <2>2. /\ IsSequence(queue') /\ Len(queue) \in Nat
        /\ DOMAIN queue = 1 .. Len(queue) /\ DOMAIN queue' = 1 .. Len(queue) + 1
        /\ \A i \in 1 .. Len(queue) : queue'[i] = queue[i]
        /\ queue'[Len(queue) + 1] = m
    BY <1>3, AppendSequence DEF QueueTyped, m
  <2>3. \A i \in DOMAIN queue' : i \in DOMAIN queue \/ i = Len(queue) + 1
    BY <2>2
  <2>4. \A i \in DOMAIN queue :
          queue'[i].by \in Sessions /\ Frame(queue'[i].type, queue'[i].content) \in Frames
    BY <2>2 DEF QueueTyped
  <2>5. queue'[Len(queue) + 1].by = s
        /\ Frame(queue'[Len(queue) + 1].type, queue'[Len(queue) + 1].content) \in Frames
    BY <2>1, <2>2
  <2> QED
    BY <1>0, <2>2, <2>3, <2>4, <2>5 DEF QueueTyped
<1>4. ASSUME NEW s \in Sessions, Forward(s)
      PROVE  QueueTyped'
  <2>1. CASE ForwardFrame(s)
    <3>1. Head(procs[s].frames) \in Frames
      BY <2>1 DEF ForwardFrame, StateTyped, ProcTyped, Procs
    <3> QED
      BY <1>3, <2>1, <3>1 DEF ForwardFrame
  <2>2. CASE ForwardExit(s)
    <3>1. Frame("EditorProcessExited", Blank) \in Frames
      BY DEF Frame, Frames, Texts
    <3> QED
      BY <1>3, <2>2, <3>1 DEF ForwardExit
  <2> QED
    BY <1>4, <2>1, <2>2 DEF Forward
<1>5. CASE queue' = << >>
  BY <1>5 DEF QueueTyped, IsSequence
<1>6. \/ queue' = queue \/ queue' = << >>
      \/ queue # << >> /\ queue' = Tail(queue)
      \/ \E s \in Sessions : Forward(s)
  BY DEF Next, UiThread, vars, Copy, Edit, DeleteEntry, ToggleFavorite, ObeyApplet, EditorDies,
       CloseWindow, ClearHistory, EditLatest, OpenEditor, ExitApplet, EditorEvent,
       EditorProcessExited, Retrack, WaitEnds
<1> QED
  BY <1>1, <1>2, <1>4, <1>5, <1>6

\* A step that takes nothing from the pipes, and nothing or all from the queue.
LEMMA SavesKept ==
  ASSUME QueueTyped, SavesOnce, queue' = queue \/ queue' = << >>, Sessions \subseteq Sessions',
         \A s \in Sessions :
           \/ procs[s].alive
           \/ procs'[s].alive = procs[s].alive /\ procs'[s].frames = procs[s].frames
  PROVE  SavesOnce' /\ Spent \subseteq Spent'
<1>0. \A i \in DOMAIN queue' : i \in DOMAIN queue /\ queue'[i] = queue[i]
  OBVIOUS
<1>1. \A s : Waits(s)' => Waits(s)
  BY <1>0 DEF Waits
<1>2. \A s \in Sessions' : Waits(s) => s \in Sessions
  BY DEF Waits, QueueTyped
<1>3. SavesOnce'
  BY <1>0, <1>1, <1>2 DEF SavesOnce
<1>4. \A s \in Spent : s \in Spent'
  BY <1>1 DEF Spent
<1> QED
  BY <1>3, <1>4

\* A message is taken from the queue.
LEMMA SavesTaken ==
  ASSUME QueueTyped, SavesOnce, queue # << >>, queue' = Tail(queue), procs' = procs
  PROVE  /\ SavesOnce' /\ Spent \subseteq Spent'
         /\ Head(queue).type # Exited => Head(queue).by \in Spent' \ Spent
<1>1. /\ DOMAIN queue = 1 .. Len(queue) /\ Len(queue) \in Nat \ {0}
      /\ DOMAIN queue' = 1 .. Len(queue) - 1
      /\ \A i \in DOMAIN queue' : i + 1 \in DOMAIN queue /\ queue'[i] = queue[i + 1]
      /\ Head(queue) = queue[1] /\ 1 \in DOMAIN queue
  BY TailSequence DEF QueueTyped
<1>2. Sessions' = Sessions
  BY DEF Sessions
<1>3. \A s : Waits(s)' => Waits(s)
  BY <1>1 DEF Waits
<1>4. SavesOnce'
  <2>1. \A s \in Sessions' : Waits(s)' => ~procs'[s].alive /\ procs'[s].frames = << >>
    BY <1>2, <1>3 DEF SavesOnce
  <2>2. ASSUME NEW i \in DOMAIN queue', NEW j \in DOMAIN queue', queue'[i].by = queue'[j].by,
               Exited \notin {queue'[i].type, queue'[j].type}
        PROVE  i = j
    <3>1. i + 1 = j + 1
      BY <1>1, <2>2 DEF SavesOnce
    <3> QED
      BY <1>1, <3>1
  <2> QED
    BY <2>1, <2>2 DEF SavesOnce
<1>5. \A s \in Spent : s \in Spent'
  BY <1>2, <1>3 DEF Spent
<1>6. ASSUME NEW s, s = Head(queue).by, Head(queue).type # Exited
      PROVE  s \in Spent' /\ s \notin Spent
  <2>1. s \in Sessions /\ Waits(s)
    BY <1>1, <1>6 DEF Waits, QueueTyped
  <2>2. ~Waits(s)'
    <3>1. SUFFICES ASSUME NEW i \in DOMAIN queue', queue'[i].by = s, queue'[i].type # Exited
                   PROVE  FALSE
      BY DEF Waits
    <3>2. i + 1 = 1
      BY <1>1, <1>6, <3>1 DEF SavesOnce
    <3> QED
      BY <1>1, <3>2
  <2>3. ~procs[s].alive /\ procs[s].frames = << >>
    BY <2>1 DEF SavesOnce
  <2> QED
    BY <1>2, <2>1, <2>2, <2>3 DEF Spent
<1> QED
  BY <1>4, <1>5, <1>6

\* A stream hands on the one frame of its session, or its end.
LEMMA SavesForwarded ==
  ASSUME EditorInv, StateTyped, QueueTyped, SavesOnce, NEW s \in Sessions, Forward(s)
  PROVE  SavesOnce' /\ Spent \subseteq Spent'
<1> DEFINE frame == IF ForwardFrame(s) THEN Head(procs[s].frames) ELSE Frame(Exited, Blank)
           m == Message(s, frame)
<1>1. /\ queue' = Append(queue, m) /\ Sessions' = Sessions
      /\ \A x \in Sessions : procs'[x].alive = procs[x].alive
      /\ \A x \in Sessions \ {s} : procs'[x].frames = procs[x].frames
      /\ ~procs[s].alive /\ procs'[s].frames = << >>
      /\ procs[s].frames # << >> \/ m.type = Exited
  <2>1. CASE ForwardFrame(s)
    <3> DEFINE p == [procs[s] EXCEPT !.frames = Tail(@)]
    <3>1. procs' = [procs EXCEPT ![s] = p] /\ queue' = Append(queue, m)
      BY <2>1 DEF ForwardFrame
    <3>2. /\ procs[s].frames \in Seq(Frames) /\ procs[s].frames # << >>
          /\ Len(procs[s].frames) <= 1
      BY <2>1 DEF ForwardFrame, StateTyped, ProcTyped, Procs
    <3>3. Tail(procs[s].frames) = << >>
      BY <3>2
    <3>4. p.alive = procs[s].alive /\ p.frames = << >> /\ ~procs[s].alive
      BY <3>2, <3>3 DEF EditorInv, ProcOK, ProcFields
    <3> HIDE DEF p, m
    <3> QED
      BY <3>1, <3>2, <3>4 DEF Sessions
  <2>2. CASE ~ForwardFrame(s) /\ ForwardExit(s)
    <3> DEFINE p == [procs[s] EXCEPT !.eof = TRUE]
    <3>1. procs' = [procs EXCEPT ![s] = p] /\ queue' = Append(queue, m)
      BY <2>2 DEF ForwardExit, Exited
    <3>2. ~procs[s].alive /\ procs[s].frames = << >>
      BY <2>2 DEF ForwardExit
    <3>3. p.alive = procs[s].alive /\ p.frames = << >>
      BY <3>2 DEF EditorInv, ProcOK, ProcFields
    <3>4. m.type = Exited
      BY <2>2 DEF Message, Frame
    <3> HIDE DEF p, m
    <3> QED
      BY <3>1, <3>2, <3>3, <3>4 DEF Sessions
  <2> QED
    BY <2>1, <2>2 DEF Forward
<1>2. m.by = s
  BY DEF Message
<1> HIDE DEF frame, m
<1>3. /\ Len(queue) \in Nat
      /\ DOMAIN queue = 1 .. Len(queue) /\ DOMAIN queue' = 1 .. Len(queue) + 1
      /\ \A i \in 1 .. Len(queue) : queue'[i] = queue[i]
      /\ queue'[Len(queue) + 1] = m
  BY <1>1, AppendSequence DEF QueueTyped
<1>4. \A i \in DOMAIN queue' : i \in DOMAIN queue \/ i = Len(queue) + 1
  BY <1>3
<1>5. \A x \in Sessions \ {s} : Waits(x)' <=> Waits(x)
  BY <1>2, <1>3, <1>4 DEF Waits
<1>6. procs[s].frames # << >> => ~Waits(s)
  BY DEF SavesOnce
<1>7. \A x \in Sessions' : Waits(x)' => ~procs'[x].alive /\ procs'[x].frames = << >>
  BY <1>1, <1>5 DEF SavesOnce
<1>8. ASSUME NEW i \in DOMAIN queue', NEW j \in DOMAIN queue', queue'[i].by = queue'[j].by,
             Exited \notin {queue'[i].type, queue'[j].type}
      PROVE  i = j
  <2>1. CASE i \in DOMAIN queue /\ j \in DOMAIN queue
    <3>1. queue'[i] = queue[i] /\ queue'[j] = queue[j]
      BY <1>3, <2>1
    <3> QED
      BY <1>8, <2>1, <3>1 DEF SavesOnce
  <2>2. ASSUME NEW k \in DOMAIN queue, queue'[k].by = s, queue'[k].type # Exited, m.type # Exited
        PROVE  FALSE
    <3>1. queue'[k] = queue[k]
      BY <1>3
    <3> QED
      BY <1>1, <1>6, <2>2, <3>1 DEF Waits
  <2> QED
    BY <1>2, <1>3, <1>4, <1>8, <2>1, <2>2
<1>9. SavesOnce'
  BY <1>7, <1>8 DEF SavesOnce
<1>10. ASSUME NEW x \in Spent
       PROVE  x \in Spent'
  <2>1. x \in Sessions /\ ~procs[x].alive /\ procs[x].frames = << >> /\ ~Waits(x)
    BY DEF Spent
  <2>2. ~procs'[x].alive /\ procs'[x].frames = << >>
    BY <1>1, <2>1
  <2>3. ~Waits(x)'
    <3>1. CASE x # s
      BY <1>5, <2>1, <3>1
    <3>2. CASE x = s
      <4>1. m.type = Exited
        BY <1>1, <2>1, <3>2
      <4> QED
        BY <1>3, <1>4, <2>1, <3>2, <4>1 DEF Waits
    <3> QED
      BY <3>1, <3>2
  <2> QED
    BY <1>1, <2>1, <2>2, <2>3 DEF Spent
<1> QED
  BY <1>9, <1>10

\* Telling an editor to close, and opening another, touch no pipe.
LEMMA ToldFrames ==
  ASSUME EditorInv, NEW s \in Sessions, NEW x \in Sessions
  PROVE  /\ Told(s)[x].alive = procs[x].alive /\ Told(s)[x].frames = procs[x].frames
         /\ Told(s)[x].eof = procs[x].eof
<1> DEFINE p == [procs[s] EXCEPT !.told = TRUE]
<1>1. p.alive = procs[s].alive /\ p.frames = procs[s].frames /\ p.eof = procs[s].eof
  BY DEF EditorInv, ProcOK, ProcFields
<1>2. Told(s) = [procs EXCEPT ![s] = p]
  BY DEF Told
<1> HIDE DEF p
<1>3. Told(s)[x] = IF x = s THEN p ELSE procs[x]
  BY <1>2 DEF Sessions
<1> QED
  BY <1>1, <1>3

LEMMA OpenFrames ==
  ASSUME EditorInv, NEW id \in Live, OpenEditor(id)
  PROVE  /\ \A x \in Sessions :
              /\ procs'[x].alive = procs[x].alive /\ procs'[x].frames = procs[x].frames
              /\ procs'[x].eof = procs[x].eof
         /\ \A x \in Sessions' : x \in Sessions \/ procs'[x] = Started(id)
<1> DEFINE others == IF editor = None THEN procs ELSE Told(editor.session)
           started == Started(id)
<1>1. /\ IsSequence(others) /\ DOMAIN others = Sessions
      /\ \A x \in Sessions :
           /\ others[x].alive = procs[x].alive /\ others[x].frames = procs[x].frames
           /\ others[x].eof = procs[x].eof
  BY ToldGoesOn, ToldFrames DEF EditorInv, Sessions
<1>2. procs' = Append(others, started) \/ procs' = others
  BY DEF OpenEditor
<1> HIDE DEF others
<1>3. /\ \A x \in Sessions : Append(others, started)[x] = others[x]
      /\ \A x \in DOMAIN Append(others, started) :
           x \in Sessions \/ Append(others, started)[x] = started
  <2> HIDE DEF started
  <2>1. /\ DOMAIN others = 1 .. Len(others) /\ Len(others) \in Nat
        /\ DOMAIN Append(others, started) = 1 .. Len(others) + 1
        /\ \A i \in 1 .. Len(others) : Append(others, started)[i] = others[i]
        /\ Append(others, started)[Len(others) + 1] = started
    BY <1>1, AppendSequence
  <2>2. \A x \in 1 .. Len(others) + 1 : x \in 1 .. Len(others) \/ x = Len(others) + 1
    BY <2>1
  <2> QED
    BY <1>1, <2>1, <2>2
<1>4. CASE procs' = others
  BY <1>1, <1>4 DEF Sessions
<1>5. CASE procs' = Append(others, started)
  BY <1>1, <1>3, <1>5 DEF Sessions
<1> QED
  BY <1>2, <1>4, <1>5

\* Only a copy below its bound and a message of an editor read the clock.
LEMMA TypeInvStep ==
  ASSUME TypeInv, [Next]_vars
  PROVE  TypeInv'
<1>1. /\ EditorInv' /\ ProcsGoOn /\ StateTyped' /\ QueueTyped'
      /\ clock \in Nat /\ clock' \in {clock, clock + 1}
  BY EditorInvStep, StateTypedStep, QueueTypedStep DEF TypeInv, EditorInv
<1>2. IsFiniteSet(Spent) /\ IsFiniteSet(Spent')
  <2>1. IsFiniteSet(Sessions) /\ Spent \subseteq Sessions
    <3>1. Sessions = 1 .. Len(procs) /\ Len(procs) \in Nat
      BY AppendSequence DEF TypeInv, EditorInv, Sessions
    <3> QED
      BY <3>1, FS_Interval DEF Spent
  <2>2. IsFiniteSet(Sessions') /\ Spent' \subseteq Sessions'
    <3>1. Sessions' = 1 .. Len(procs') /\ Len(procs') \in Nat
      BY <1>1, AppendSequence DEF EditorInv, Sessions
    <3> QED
      BY <3>1, FS_Interval DEF Spent
  <2> QED
    BY <2>1, <2>2, FS_Subset
<1>3. Cardinality(Spent) \in Nat /\ Cardinality(Spent') \in Nat
  BY <1>2, FS_CardinalityType
<1>4. Spent \subseteq Spent' => Cardinality(Spent) <= Cardinality(Spent')
  BY <1>2, FS_Subset
<1>5. SavesOnce' /\ Spent \subseteq Spent'
      /\ (EditorEvent /\ queue # << >> => Head(queue).by \in Spent' \ Spent)
  <2> DEFINE Goal == /\ SavesOnce' /\ Spent \subseteq Spent'
                     /\ (EditorEvent /\ queue # << >> => Head(queue).by \in Spent' \ Spent)
  <2>1. ASSUME queue' = queue \/ (queue' = << >> /\ ~up'),
               \A s \in Sessions :
                 \/ procs[s].alive
                 \/ procs'[s].alive = procs[s].alive /\ procs'[s].frames = procs[s].frames
        PROVE  Goal
    <3>1. ~(EditorEvent /\ queue # << >>)
      <4> SUFFICES ASSUME EditorEvent, queue # << >>
                   PROVE  FALSE
        OBVIOUS
      <4>1. /\ Len(queue) \in Nat \ {0} /\ DOMAIN queue = 1 .. Len(queue)
            /\ DOMAIN queue' = 1 .. Len(queue) - 1
        BY TailSequence DEF EditorEvent, TypeInv, QueueTyped
      <4>2. Len(queue) \in DOMAIN queue /\ Len(queue) \notin DOMAIN queue'
        BY <4>1
      <4>3. up'
        BY DEF EditorEvent, Free
      <4> QED
        BY <2>1, <4>2, <4>3
    <3> QED
      BY <1>1, <2>1, <3>1, SavesKept DEF TypeInv, ProcsGoOn
  <2>2. ASSUME queue # << >>, queue' = Tail(queue), procs' = procs
        PROVE  Goal
    <3>1. EditorEvent => Head(queue).type # Exited
      BY DEF EditorEvent, Exited
    <3> QED
      BY <2>2, <3>1, SavesTaken DEF TypeInv
  <2>3. ASSUME NEW s \in Sessions, Forward(s)
        PROVE  Goal
    <3>1. ~EditorEvent
      <4> SUFFICES ASSUME EditorEvent
                   PROVE  FALSE
        OBVIOUS
      <4>1. queue # << >> /\ queue' = Tail(queue) /\ \E m : queue' = Append(queue, m)
        BY <2>3 DEF EditorEvent, Forward, ForwardFrame, ForwardExit
      <4>2. PICK m : queue' = Append(queue, m)
        BY <4>1
      <4>3. /\ Len(queue) \in Nat /\ DOMAIN queue' = 1 .. Len(queue) - 1
            /\ DOMAIN queue' = 1 .. Len(queue) + 1
        BY <4>1, <4>2, TailSequence, AppendSequence DEF TypeInv, QueueTyped
      <4>4. Len(queue) + 1 \in 1 .. Len(queue) + 1 /\ Len(queue) + 1 \notin 1 .. Len(queue) - 1
        BY <4>3
      <4> QED
        BY <4>3, <4>4
    <3> QED
      BY <2>3, <3>1, SavesForwarded DEF TypeInv
  <2>4. ASSUME NEW s \in Sessions, NEW frames, Exits(s, frames), procs[s].alive, queue' = queue
        PROVE  Goal
    <3>1. \A x \in Sessions \ {s} : procs'[x] = procs[x]
      BY <2>4 DEF Exits, Sessions
    <3> QED
      BY <2>1, <2>4, <3>1
  <2>5. ASSUME editor # None, procs' = Told(editor.session),
               queue' = queue \/ (queue' = << >> /\ ~up')
        PROVE  Goal
    <3>1. \A x \in Sessions : procs'[x].alive = procs[x].alive /\ procs'[x].frames = procs[x].frames
      BY <2>5, ToldFrames DEF TypeInv, EditorInv
    <3> QED
      BY <2>1, <2>5, <3>1
  <2>6. ASSUME NEW id \in Live, OpenEditor(id)
        PROVE  Goal
    <3>1. queue' = queue
      BY <2>6 DEF OpenEditor
    <3>2. \A x \in Sessions : procs'[x].alive = procs[x].alive /\ procs'[x].frames = procs[x].frames
      BY <2>6, OpenFrames DEF TypeInv
    <3> QED
      BY <2>1, <3>1, <3>2
  <2>7. ASSUME UNCHANGED procs, queue' = queue \/ (queue' = << >> /\ ~up')
        PROVE  Goal
    BY <2>1, <2>7
  <2>8. \/ UNCHANGED procs /\ (queue' = queue \/ (queue' = << >> /\ ~up'))
        \/ queue # << >> /\ queue' = Tail(queue) /\ procs' = procs
        \/ \E s \in Sessions : Forward(s)
        \/ /\ editor # None /\ procs' = Told(editor.session)
           /\ queue' = queue \/ (queue' = << >> /\ ~up')
        \/ \E id \in Live : OpenEditor(id)
        \/ \E s \in Sessions : \E frames : Exits(s, frames) /\ procs[s].alive /\ queue' = queue
    BY DEF Next, UiThread, vars, Copy, Edit, DeleteEntry, ToggleFavorite, ObeyApplet, EditorDies,
         CloseWindow, ClearHistory, EditLatest, ExitApplet, EditorEvent, EditorProcessExited,
         Retrack, WaitEnds
  <2> HIDE DEF Goal
  <2>9. Goal
    BY <2>2, <2>3, <2>4, <2>5, <2>6, <2>7, <2>8
  <2> QED
    BY <2>9 DEF Goal
<1>6. clock' <= MaxCopies + Cardinality(Spent')
  <2>1. clock <= MaxCopies + Cardinality(Spent) /\ MaxCopies \in Nat
    BY EditorAssumption DEF TypeInv
  <2>a. Cardinality(Spent) <= Cardinality(Spent')
    BY <1>4, <1>5
  <2>2. CASE clock' = clock
    BY <1>1, <1>3, <2>1, <2>a, <2>2
  <2>3. CASE clock' = clock + 1 /\ clock < MaxCopies
    BY <1>1, <1>3, <2>1, <2>3
  <2>4. CASE clock' = clock + 1 /\ EditorEvent
    <3>1. PICK s \in Spent' : s \notin Spent
      BY <1>5, <2>4 DEF EditorEvent
    <3>2. Spent \cup {s} \in SUBSET Spent'
      BY <1>5, <3>1
    <3>3. Cardinality(Spent \cup {s}) = Cardinality(Spent) + 1
      BY <1>2, <3>1, FS_AddElement
    <3>4. Cardinality(Spent \cup {s}) <= Cardinality(Spent')
      BY <1>2, <3>2, FS_Subset
    <3> QED
      BY <1>1, <1>3, <2>1, <2>4, <3>3, <3>4
  <2>5. clock' = clock \/ clock < MaxCopies \/ EditorEvent
    BY DEF Next, UiThread, vars, Copy, Edit, DeleteEntry, ToggleFavorite, ObeyApplet, EditorDies, Forward,
         CloseWindow, ClearHistory, EditLatest, OpenEditor, ExitApplet, EditorProcessExited,
         Retrack, WaitEnds
  <2> QED
    BY <1>1, <2>2, <2>3, <2>4, <2>5
<1> QED
  BY <1>1, <1>5, <1>6 DEF TypeInv

LEMMA UpToCounts ==
  ASSUME NEW n \in Nat
  PROVE  IsFiniteSet(1 .. n) /\ Cardinality(1 .. n) = n
  BY FS_Interval

LEMMA TypeInvInit ==
  ASSUME Init
  PROVE  TypeInv
<1>1. EditorInv
  BY EditorInvInit
<1>2. Good(db, clock, {None})
  <2>1. Typed(db, clock, {None})
    BY DEF Init, Typed, Fields, EmptyStore, Empty, IsMap
  <2>2. TimesGood(db) /\ FavsGood(db)
    BY DEF Init, EmptyStore, Empty, TimesGood, FavsGood
  <2> QED
    BY <2>1, <2>2 DEF Good
<1>3. IsSequence(queue) /\ DOMAIN queue = {}
  BY DEF Init, IsSequence
<1>4. Len(procs) = 0 /\ Sessions = {} /\ Spent = {}
  BY DEF Init, Sessions, Spent
<1>5. clock <= MaxCopies + Cardinality(Spent)
  <2>1. Cardinality(Spent) = 0
    BY <1>4, FS_EmptySet
  <2> QED
    BY <2>1, EditorAssumption DEF Init
<1>6. StateTyped
  BY <1>2, <1>4, EditorAssumption DEF Init, StateTyped, Sessions
<1> QED
  BY <1>1, <1>3, <1>4, <1>5, <1>6 DEF TypeInv, QueueTyped, SavesOnce

\* The state keeps its type, and the clock its bound: a session saves once, so
\* the history is written no more often than copies are made and editors opened.
THEOREM TypeOKHolds == Spec => []TypeOK
<1>1. ASSUME TypeInv
      PROVE  TypeOK
  <2>1. clock \in Nat /\ Sessions = 1 .. Len(procs) /\ Len(procs) \in Nat /\ Len(procs) <= MaxSessions
    BY <1>1, AppendSequence DEF TypeInv, EditorInv, StateTyped, Sessions
  <2>2. clock \in 0 .. MaxCopies + MaxSessions
    <3>1. IsFiniteSet(1 .. Len(procs)) /\ Cardinality(1 .. Len(procs)) = Len(procs)
      BY <2>1, UpToCounts
    <3>2. Spent \in SUBSET (1 .. Len(procs))
      BY <2>1 DEF Spent
    <3>3. Cardinality(Spent) <= Len(procs) /\ Cardinality(Spent) \in Nat
      BY <3>1, <3>2, FS_Subset, FS_CardinalityType
    <3> QED
      BY <1>1, <2>1, <3>3, EditorAssumption DEF TypeInv
  <2>3. editor \in [session : Sessions, entry_id : 1 .. clock] \cup {None}
    <3>1. CASE editor # None
      <4>1. editor.session \in Sessions /\ editor.entry_id \in 1 .. clock
        BY <1>1, <3>1 DEF TypeInv, EditorInv, StateTyped, ProcTyped, Procs
      <4> QED
        BY <1>1, <3>1, <4>1 DEF TypeInv, StateTyped, Editors
    <3> QED
      BY <3>1
  <2>4. procs \in Seq([entry : 1 .. clock, original : Texts, is_favorite : BOOLEAN,
                       alive : BOOLEAN, told : BOOLEAN, frames : Seq(Frames), eof : BOOLEAN])
    <3> DEFINE P == [entry : 1 .. clock, original : Texts, is_favorite : BOOLEAN,
                     alive : BOOLEAN, told : BOOLEAN, frames : Seq(Frames), eof : BOOLEAN]
    <3>1. ASSUME NEW s \in Sessions
          PROVE  procs[s] \in P
      BY <1>1 DEF TypeInv, StateTyped, ProcTyped, Procs
    <3>2. procs \in Seq(Range(procs)) /\ Range(procs) \subseteq P
      BY <1>1, <3>1 DEF TypeInv, EditorInv, IsSequence, Range, Sessions
    <3> HIDE DEF P
    <3>3. procs \in Seq(P)
      BY <3>2
    <3> QED
      BY <3>3 DEF P
  <2> QED
    BY <1>1, <2>2, <2>3, <2>4 DEF TypeInv, StateTyped, QueueTyped, TypeOK
<1> QED
  BY <1>1, TypeInvInit, TypeInvStep, PTL DEF Spec

-----------------------------------------------------------------------------
(* A saved text is on top of the history                                   *)

LEMMA GoodShaped ==
  ASSUME NEW st, NEW n \in Nat, NEW Title, Good(st, n, Title)
  PROVE  Shaped(st)
<1>1. DOMAIN st = StoreFields /\ DOMAIN st.entries \subseteq Nat
  BY DEF Good, Typed, IsMap, Fields, StoreFields
<1>2. ASSUME NEW id \in DOMAIN st.entries
      PROVE  DOMAIN st.entries[id] = EntryFields
  <2>1. st.entries[id] \in EntryUpTo(n, Title)
    BY DEF Good, Typed, IsMap
  <2> QED
    BY <2>1 DEF EntryUpTo, EntryFields
<1> QED
  BY <1>1, <1>2 DEF Shaped

\* The newest entry has text c.
OnTop(st, c) ==
  /\ NewestId(st) # None
  /\ Hash[st.entries[NewestId(st)].content] = Hash[c]

\* Nothing can be evicted for a new entry but the new entry.
Full(st) ==
  /\ MaxEntries # None /\ Cardinality(DOMAIN st.entries) >= MaxEntries
  /\ \A id \in DOMAIN st.entries : st.entries[id].is_favorite

\* A text that is known is found by its hash and comes to the top.
LEMMA RefreshLands ==
  ASSUME NEW st, NEW n \in Nat, NEW Title, Good(st, n, Title), HashsSound(st),
         NEW c \in Content, Hash[c] \in DOMAIN st.hashs, NEW now \in Nat, n < now, OwnsLock
  PROVE  /\ HashsSound(InsertToMemory(st, c, now).db)
         /\ ~InsertToMemory(st, c, now).db.panicked => OnTop(InsertToMemory(st, c, now).db, c)
<1> DEFINE id == st.hashs[Hash[c]]
           new == InsertToMemory(st, c, now).db
<1>1. new = Refresh(st, id, now).db
  BY DEF InsertToMemory
<1>2. Good(new, now, Title)
  BY InsertKeepsGood
<1>3. Shaped(st)
  BY GoodShaped
<1> HIDE DEF new, id
<1>4. CASE id \notin DOMAIN st.entries \/ st.entries[id].creation \notin DOMAIN st.times
  <2>1. new = Panic(st)
    BY <1>1, <1>4 DEF Refresh, NoOp
  <2>2. new.entries = st.entries /\ new.hashs = st.hashs /\ new.panicked = TRUE
    BY <1>3, <2>1 DEF Panic, Shaped, StoreFields
  <2> QED
    BY <2>2 DEF HashsSound, new
<1>5. CASE ~(id \notin DOMAIN st.entries \/ st.entries[id].creation \notin DOMAIN st.times)
  <2> DEFINE bumped == Bump(st, id, now)
  <2>1. new = Search(bumped)
    BY <1>1, <1>5 DEF Refresh
  <2>2. /\ Shaped(bumped) /\ Trims(st, bumped) /\ DOMAIN bumped.entries = DOMAIN st.entries
        /\ bumped.times[now] = id /\ now \in DOMAIN bumped.times
    BY <1>3, <1>5, BumpTrims, BumpShaped
  <2> HIDE DEF bumped
  <2>3. Trims(bumped, new) /\ new.times = bumped.times /\ new.entries = bumped.entries
    BY <2>1, <2>2, SearchTrims, SearchShaped
  <2>4. HashsSound(new)
    BY <2>2, <2>3, TrimsTwice, TrimsSound
  <2>5. NewestId(new) = id /\ NewestId(new) # None
    BY <1>2, <2>2, <2>3, TopIsLast
  <2>6. new.entries[id].content = st.entries[id].content
    BY <1>5, <2>2, <2>3 DEF Trims
  <2>7. Hash[st.entries[id].content] = Hash[c]
    BY <1>5 DEF HashsSound, id
  <2> QED
    BY <2>4, <2>5, <2>6, <2>7 DEF OnTop, new
<1> QED
  BY <1>4, <1>5

\* A text that is new comes to the top and stays unless every other entry is a
\* favorite and the limit is reached.
LEMMA NewTextLands ==
  ASSUME NEW st, NEW n \in Nat, NEW Title, Good(st, n, Title), HashsSound(st), Limited(st),
         NEW c \in Content, Hash[c] \notin DOMAIN st.hashs, NEW now \in Nat, n < now, OwnsLock
  PROVE  /\ HashsSound(InsertToMemory(st, c, now).db)
         /\ ~Full(st) => OnTop(InsertToMemory(st, c, now).db, c)
<1> DEFINE grown == Grow(st, c, now)
           gone == Evicted(grown)
           left == Unindex(grown, gone)
           new == InsertToMemory(st, c, now).db
<1>1. /\ Good(grown, now, Title)
      /\ DOMAIN grown.entries = DOMAIN st.entries \cup {now}
  BY GrowKeepsGood
<1>2. /\ grown.favSet = st.favSet /\ now \notin st.favSet
      /\ now \in DOMAIN grown.times /\ grown.times[now] = now
      /\ now \notin DOMAIN st.entries
      /\ \A id \in DOMAIN st.entries : grown.entries[id] = st.entries[id]
      /\ grown.entries[now].content = c
      /\ grown.hashs = Put(st.hashs, Hash[c], now)
  <2>1. now \notin 1 .. n
    OBVIOUS
  <2> QED
    BY <2>1 DEF Grow, Put, Good, Typed, Fields, IsMap, NewEntry
<1>3. new = Search(left)
  BY DEF InsertToMemory, InsertNew
<1>4. Good(new, now, Title)
  BY InsertKeepsGood
<1> HIDE DEF grown, new
<1>5. HashsSound(grown)
  <2>1. ASSUME NEW h \in DOMAIN grown.hashs, grown.hashs[h] \in DOMAIN grown.entries
        PROVE  Hash[grown.entries[grown.hashs[h]].content] = h
    <3>1. CASE h = Hash[c]
      BY <1>2, <3>1 DEF Put
    <3>2. CASE h # Hash[c]
      <4>1. h \in DOMAIN st.hashs /\ grown.hashs[h] = st.hashs[h]
        BY <1>2, <3>2 DEF Put
      <4>2. st.hashs[h] \in 1 .. n
        BY <4>1 DEF Good, Typed, IsMap
      <4>3. st.hashs[h] \in DOMAIN st.entries
        BY <1>1, <2>1, <4>1, <4>2
      <4> QED
        BY <1>2, <4>1, <4>3 DEF HashsSound
    <3> QED
      BY <3>1, <3>2
  <2> QED
    BY <2>1 DEF HashsSound
<1>6. Shaped(grown) /\ Shaped(left) /\ Trims(grown, left)
  BY <1>1, GoodShaped, UnindexShaped, UnindexTrims
<1>7. gone \in SUBSET DOMAIN grown.entries
  BY <1>1, EvictedNoFavorite
<1> HIDE DEF gone
<1>8. Good(left, now, Title) /\ DOMAIN left.entries = DOMAIN grown.entries \ gone
  BY <1>1, <1>7, UnindexKeepsGood
<1> HIDE DEF left
<1>9. Trims(left, new) /\ new.times = left.times /\ new.entries = left.entries
  BY <1>3, <1>6, SearchTrims, SearchShaped
<1>10. Trims(grown, new) /\ HashsSound(new)
  BY <1>5, <1>6, <1>9, TrimsTwice, TrimsSound
<1>11. ASSUME ~Full(st)
       PROVE  now \notin gone
  <2>1. /\ IsFiniteSet(DOMAIN st.entries) /\ Cardinality(DOMAIN st.entries) \in Nat
        /\ Cardinality(DOMAIN grown.entries) = Cardinality(DOMAIN st.entries) + 1
    <3>1. DOMAIN st.entries \subseteq 1 .. n
      BY DEF Good, Typed, IsMap
    <3>a. IsFiniteSet(1 .. n)
      BY UpToCounts
    <3>2. IsFiniteSet(DOMAIN st.entries)
      BY <3>1, <3>a, FS_Subset
    <3> QED
      BY <1>1, <1>2, <3>2, FS_CardinalityType, FS_AddElement
  <2>2. CASE Limited(grown)
    BY <1>1, <2>2, LimitedKeepsAll DEF gone
  <2>3. CASE ~Limited(grown)
    <3>1. /\ MaxEntries # None /\ MaxEntries \in Nat
          /\ Cardinality(DOMAIN grown.entries) = MaxEntries + 1
          /\ Cardinality(DOMAIN st.entries) = MaxEntries
      BY <2>1, <2>3, StoreAssumption DEF Limited
    <3>2. now \in Evictable(grown)
      BY <1>2 DEF Evictable
    <3>3. PICK t \in Evictable(grown) :
            Oldest(grown) = {t} /\ \A u \in Evictable(grown) : t <= u
      BY <1>1, <3>1, <3>2, OldestIsOne
    <3>4. PICK id \in DOMAIN st.entries : ~st.entries[id].is_favorite
      BY <1>11, <2>1, <3>1 DEF Full
    <3> DEFINE u == grown.entries[id].creation
    <3>5. u \in DOMAIN grown.times /\ grown.times[u] = id /\ id \notin grown.favSet
      BY <1>1, <1>2, <3>4 DEF Good, TimesGood, FavsGood
    <3>6. u \in Evictable(grown) /\ u # now
      BY <1>2, <3>4, <3>5 DEF Evictable
    <3>7. t # now
      <4>1. u \in 1 .. now
        BY <1>1, <3>5 DEF Good, Typed, IsMap
      <4> HIDE DEF u
      <4>2. t <= u
        BY <3>3, <3>6
      <4> QED
        BY <3>6, <4>1, <4>2
    <3>8. gone = {grown.times[t]}
      BY <3>3 DEF gone, Evicted
    <3>9. grown.entries[grown.times[t]].creation = t /\ grown.entries[now].creation = now
      BY <1>1, <1>2, <3>3 DEF Evictable, Good, TimesGood
    <3> QED
      BY <3>7, <3>8, <3>9
  <2> QED
    BY <2>2, <2>3
<1>12. ASSUME ~Full(st)
       PROVE  OnTop(new, c)
  <2>1. now \in DOMAIN new.entries
    BY <1>1, <1>8, <1>9, <1>11, <1>12
  <2>2. new.entries[now].content = c
    BY <1>2, <1>10, <2>1 DEF Trims
  <2>3. now \in DOMAIN new.times /\ new.times[now] = now
    <3>1. /\ new.entries[now].creation \in DOMAIN new.times
          /\ new.times[new.entries[now].creation] = now
      BY <1>4, <2>1 DEF Good, TimesGood
    <3>2. new.entries[now].creation = now
      <4>1. new.entries[now] = grown.entries[now]
        BY <2>1, <1>9 DEF left, Unindex, Drop
      <4> QED
        BY <1>1, <1>2, <4>1 DEF Good, TimesGood
    <3> QED
      BY <3>1, <3>2
  <2>4. NewestId(new) = now /\ NewestId(new) # None
    BY <1>4, <2>3, TopIsLast
  <2> QED
    BY <2>2, <2>4 DEF OnTop
<1> QED
  BY <1>10, <1>12 DEF new

\* An edit gives the entry the text and moves it to the top.
LEMMA UpdateLands ==
  ASSUME NEW st, NEW n \in Nat, NEW Title, Good(st, n, Title), HashsSound(st), Limited(st),
         NEW id \in 1 .. n, NEW c \in Content, ~TakenByOther(st, id, c), NEW now \in Nat, n < now
  PROVE  /\ HashsSound(UpdateContentInMemory(st, id, c, now).db)
         /\ Limited(UpdateContentInMemory(st, id, c, now).db)
         /\ id \in DOMAIN st.entries => OnTop(UpdateContentInMemory(st, id, c, now).db, c)
<1> DEFINE hashs == Rehash(st, id, c)
           mid == [st EXCEPT !.hashs = hashs]
           new == UpdateContentInMemory(st, id, c, now).db
<1>1. Shaped(st) /\ Good(new, now, Title)
  BY GoodShaped, UpdateKeepsGood
<1>2. Shaped(mid) /\ mid.entries = st.entries /\ mid.hashs = hashs
  <2> HIDE DEF hashs
  <2> QED
    BY <1>1 DEF Shaped, StoreFields
<1>3. CASE id \in DOMAIN st.entries
  <2> DEFINE bumped == Bump(mid, id, now)
             changed == [bumped EXCEPT !.entries[id].content = c]
  <2>1. new = Search(changed)
    BY <1>3 DEF UpdateContentInMemory
  <2> HIDE DEF new
  <2>2. hashs = Put(Drop(st.hashs, {Hash[st.entries[id].content]}), Hash[c], id)
    BY <1>3 DEF Rehash
  <2> HIDE DEF hashs, mid
  <2>3. /\ Shaped(bumped) /\ Trims(mid, bumped) /\ DOMAIN bumped.entries = DOMAIN st.entries
        /\ bumped.times[now] = id /\ now \in DOMAIN bumped.times
        /\ bumped.hashs = hashs
    <3>1. bumped.hashs = hashs
      BY <1>2 DEF Bump, Shaped, StoreFields
    <3> QED
      BY <1>2, <1>3, <3>1, BumpTrims, BumpShaped
  <2> HIDE DEF bumped
  <2>4. /\ DOMAIN changed = StoreFields
        /\ changed.entries = [bumped.entries EXCEPT ![id].content = c]
        /\ changed.times = bumped.times /\ changed.hashs = bumped.hashs
    BY <2>3 DEF Shaped, StoreFields
  <2> HIDE DEF changed
  <2>5. /\ DOMAIN changed.entries = DOMAIN st.entries
        /\ changed.entries[id].content = c
        /\ \A x \in DOMAIN st.entries \ {id} : changed.entries[x].content = st.entries[x].content
    <3>1. /\ DOMAIN changed.entries = DOMAIN st.entries
          /\ changed.entries[id] = [bumped.entries[id] EXCEPT !.content = c]
          /\ \A x \in DOMAIN st.entries \ {id} : changed.entries[x] = bumped.entries[x]
      BY <1>3, <2>3, <2>4
    <3>2. changed.entries[id].content = c
      BY <1>3, <2>3, <3>1 DEF Shaped, EntryFields
    <3> QED
      BY <1>2, <2>3, <3>1, <3>2 DEF Trims
  <2>6. HashsSound(changed)
    <3>1. ASSUME NEW h \in DOMAIN changed.hashs, changed.hashs[h] \in DOMAIN changed.entries
          PROVE  Hash[changed.entries[changed.hashs[h]].content] = h
      <4>1. CASE h = Hash[c]
        BY <2>2, <2>3, <2>4, <2>5, <4>1 DEF Put
      <4>2. CASE h # Hash[c]
        <5>1. /\ h \in DOMAIN st.hashs /\ h # Hash[st.entries[id].content]
              /\ changed.hashs[h] = st.hashs[h]
          BY <2>2, <2>3, <2>4, <4>2 DEF Put, Drop
        <5>2. st.hashs[h] # id
          BY <1>3, <5>1 DEF HashsSound
        <5> QED
          BY <2>5, <3>1, <5>1, <5>2 DEF HashsSound
      <4> QED
        BY <4>1, <4>2
    <3> QED
      BY <3>1 DEF HashsSound
  <2>7. Shaped(changed)
    <3>1. ASSUME NEW x \in DOMAIN changed.entries
          PROVE  DOMAIN changed.entries[x] = EntryFields
      BY <1>3, <2>3, <2>4, <3>1 DEF Shaped
    <3> QED
      BY <1>1, <2>4, <2>5, <3>1 DEF Shaped
  <2>8. Trims(changed, new) /\ new.times = changed.times /\ new.entries = changed.entries
    BY <2>1, <2>7, SearchTrims, SearchShaped
  <2>9. HashsSound(new)
    BY <2>6, <2>8, TrimsSound
  <2>10. Limited(new)
    BY <2>5, <2>8 DEF Limited
  <2>11. NewestId(new) = id /\ NewestId(new) # None
    BY <1>1, <2>3, <2>4, <2>8, TopIsLast
  <2> QED
    BY <2>5, <2>8, <2>9, <2>10, <2>11 DEF OnTop, new
<1>4. CASE id \notin DOMAIN st.entries
  <2>1. new = Search(mid)
    BY <1>4 DEF UpdateContentInMemory
  <2>2. hashs = Put(st.hashs, Hash[c], id)
    BY <1>4 DEF Rehash
  <2> HIDE DEF new, hashs, mid
  <2>3. HashsSound(mid)
    BY <1>2, <1>4, <2>2 DEF HashsSound, Put
  <2>4. HashsSound(new) /\ new.entries = st.entries
    BY <1>2, <2>1, <2>3, SearchTrims, SearchShaped, TrimsSound
  <2> QED
    BY <1>4, <2>4 DEF Limited, new
<1> QED
  BY <1>3, <1>4

LEMMA TrimsLimited ==
  ASSUME NEW st, NEW n \in Nat, NEW Title, Good(st, n, Title), Limited(st),
         NEW new, Trims(st, new)
  PROVE  Limited(new)
<1> DEFINE D == DOMAIN st.entries
           E == DOMAIN new.entries
<1>1. E \subseteq D /\ D \subseteq 1 .. n
  BY DEF Trims, Good, Typed, IsMap
<1>2. Limited(st) <=> (MaxEntries # None => Cardinality(D) <= MaxEntries)
  BY DEF Limited
<1>3. Limited(new) <=> (MaxEntries # None => Cardinality(E) <= MaxEntries)
  BY DEF Limited
<1> HIDE DEF D, E
<1>4. IsFiniteSet(1 .. n)
  BY UpToCounts
<1>5. IsFiniteSet(D)
  BY <1>1, <1>4, FS_Subset
<1>6. IsFiniteSet(E) /\ Cardinality(E) <= Cardinality(D)
  BY <1>1, <1>5, FS_Subset
<1>7. Cardinality(E) \in Nat /\ Cardinality(D) \in Nat
  BY <1>5, <1>6, FS_CardinalityType
<1> QED
  BY <1>2, <1>3, <1>6, <1>7, StoreAssumption

\* A merge moves the entry that had the text before to the top.
LEMMA MergeLands ==
  ASSUME NEW st, NEW n \in Nat, NEW Title, Good(st, n, Title), HashsSound(st), Limited(st),
         NEW id, NEW c \in Content, TakenByOther(st, id, c), NEW now \in Nat, n < now
  PROVE  /\ HashsSound(MergeIntoOther(st, id, c, now)) /\ Limited(MergeIntoOther(st, id, c, now))
         /\ \/ MergeIntoOther(st, id, c, now).panicked
            \/ OnTop(MergeIntoOther(st, id, c, now), c)
<1> DEFINE new == MergeIntoOther(st, id, c, now)
           other == st.hashs[Hash[c]]
<1>1. Shaped(st) /\ Good(new, now, Title)
  BY GoodShaped, MergeKeepsGood
<1>2. /\ Trims(st, new)
      /\ \/ new.panicked
         \/ now \in DOMAIN new.times /\ new.times[now] = other /\ other \in DOMAIN new.entries
  BY <1>1, MergeTrims
<1> HIDE DEF new
<1>3. HashsSound(new)
  BY <1>2, TrimsSound
<1>4. Limited(new)
  BY <1>2, TrimsLimited
<1>5. ASSUME ~new.panicked
      PROVE  OnTop(new, c)
  <2>1. NewestId(new) = other /\ NewestId(new) # None
    BY <1>1, <1>2, <1>5, TopIsLast
  <2>2. other \in DOMAIN st.entries /\ new.entries[other].content = st.entries[other].content
    BY <1>2, <1>5 DEF Trims
  <2>3. Hash[st.entries[other].content] = Hash[c]
    BY <2>2 DEF HashsSound, TakenByOther
  <2> QED
    BY <2>1, <2>2, <2>3 DEF OnTop
<1> QED
  BY <1>3, <1>4, <1>5 DEF new

LEMMA InsertKeepsLookup ==
  ASSUME NEW st, NEW n \in Nat, NEW Title, Good(st, n, Title), HashsSound(st), Limited(st),
         NEW c \in Content, NEW now \in Nat, n < now
  PROVE  HashsSound(InsertToMemory(st, c, now).db) /\ Limited(InsertToMemory(st, c, now).db)
<1>1. Limited(InsertToMemory(st, c, now).db)
  BY InsertTakesOldest
<1>2. CASE ~OwnsLock
  BY <1>1, <1>2 DEF InsertToMemory, NoOp
<1>3. CASE OwnsLock
  BY <1>1, <1>3, RefreshLands, NewTextLands
<1> QED
  BY <1>2, <1>3

\* The lookup by hash is sound and the history within its limit.
LookupInv == HashsSound(db) /\ Limited(db)

\* What the handling of a message does to the lookup, and that a saved text lands.
LEMMA EventLands ==
  ASSUME TypeInv, LookupInv, EditorEvent
  PROVE  /\ LookupInv'
         /\ (/\ OwnsLock /\ ~db'.panicked /\ Head(queue).content # Blank
             /\ \/ Head(queue).type = "SaveAsNew" /\ ~Full(db)
                \/ Head(queue).type = "UpdateExisting" /\ editor # None /\ editor.entry_id \in Live)
            => OnTop(db', Head(queue).content)
<1> DEFINE m == Head(queue)
           Lands == OnTop(db', m.content)
<1>1. /\ Good(db, clock, {None}) /\ clock \in Nat /\ clock + 1 \in Nat /\ clock < clock + 1
      /\ HashsSound(db) /\ Limited(db) /\ Shaped(db)
  BY GoodShaped DEF TypeInv, StateTyped, EditorInv, LookupInv
<1>2. m.content \in Texts
  <2>1. m = queue[1] /\ 1 \in DOMAIN queue
    BY TailSequence DEF TypeInv, QueueTyped, EditorEvent
  <2> QED
    BY <2>1 DEF TypeInv, QueueTyped, Frame, Frames
<1>3. m.content # Blank => m.content \in Content
  BY <1>2 DEF Texts
<1>4. editor # None => editor.entry_id \in 1 .. clock
  BY DEF TypeInv, EditorInv, StateTyped, ProcTyped, Procs
<1> HIDE DEF m
<1>5. ASSUME DeleteEdited
      PROVE  LookupInv'
  <2>1. CASE editor = None
    BY <1>1, <1>5, <2>1 DEF DeleteEdited, LookupInv
  <2>2. CASE editor # None
    <3>1. db' = DeleteFromMemory(db, editor.entry_id).db
      BY <1>5, <2>2 DEF DeleteEdited
    <3>2. Trims(db, db')
      BY <1>1, <3>1, DeleteTrims
    <3> QED
      BY <1>1, <3>2, TrimsSound, TrimsLimited DEF LookupInv
  <2> QED
    BY <2>1, <2>2
<1>6. ASSUME m.type = "SaveAsNew", SaveAsNew(m.content)
      PROVE  LookupInv' /\ (OwnsLock /\ ~db'.panicked /\ m.content # Blank /\ ~Full(db) => Lands)
  <2>1. CASE m.content = Blank
    BY <1>5, <1>6, <2>1 DEF SaveAsNew
  <2>2. CASE m.content # Blank
    <3>1. db' = InsertToMemory(db, m.content, clock + 1).db /\ m.content \in Content
      BY <1>3, <1>6, <2>2 DEF SaveAsNew
    <3>2. LookupInv'
      BY <1>1, <3>1, InsertKeepsLookup DEF LookupInv
    <3>3. OwnsLock /\ ~db'.panicked /\ ~Full(db) => Lands
      BY <1>1, <3>1, RefreshLands, NewTextLands
    <3> QED
      BY <3>2, <3>3
  <2> QED
    BY <2>1, <2>2
<1>7. ASSUME m.type = "UpdateExisting", UpdateExisting(m.content)
      PROVE  /\ LookupInv'
             /\ /\ ~db'.panicked /\ m.content # Blank
                /\ editor # None /\ editor.entry_id \in Live
                => Lands
  <2>1. CASE m.content = Blank
    BY <1>5, <1>7, <2>1 DEF UpdateExisting
  <2>2. CASE m.content # Blank /\ editor = None
    BY <1>1, <1>7, <2>2 DEF UpdateExisting, LookupInv
  <2>3. CASE m.content # Blank /\ editor # None
    <3>1. /\ m.content \in Content /\ editor.entry_id \in 1 .. clock
          /\ db' = IF TakenByOther(db, editor.entry_id, m.content)
                     THEN MergeIntoOther(db, editor.entry_id, m.content, clock + 1)
                     ELSE UpdateContentInMemory(db, editor.entry_id, m.content, clock + 1).db
      BY <1>3, <1>4, <1>7, <2>3 DEF UpdateExisting
    <3>2. CASE TakenByOther(db, editor.entry_id, m.content)
      BY <1>1, <3>1, <3>2, MergeLands DEF LookupInv
    <3>3. CASE ~TakenByOther(db, editor.entry_id, m.content)
      BY <1>1, <3>1, <3>3, UpdateLands DEF LookupInv, Live
    <3> QED
      BY <3>2, <3>3
  <2> QED
    BY <2>1, <2>2, <2>3
<1>8. ASSUME m.type = "Closed", UNCHANGED << db, clock >>
      PROVE  LookupInv'
  BY <1>1, <1>8 DEF LookupInv
<1>9. \/ m.type = "SaveAsNew" /\ SaveAsNew(m.content)
      \/ m.type = "UpdateExisting" /\ UpdateExisting(m.content)
      \/ m.type = "Closed" /\ UNCHANGED << db, clock >>
  BY DEF EditorEvent, m
<1>10. CASE m.type = "SaveAsNew"
  BY <1>6, <1>9, <1>10 DEF m
<1>11. CASE m.type = "UpdateExisting"
  BY <1>7, <1>9, <1>11 DEF m
<1>12. CASE m.type = "Closed"
  BY <1>8, <1>9, <1>12 DEF m
<1> QED
  BY <1>9, <1>10, <1>11, <1>12

LEMMA LookupInvStep ==
  ASSUME TypeInv, LookupInv, [Next]_vars
  PROVE  LookupInv'
<1>0. /\ Good(db, clock, {None}) /\ clock \in Nat /\ clock + 1 \in Nat /\ clock < clock + 1
      /\ HashsSound(db) /\ Limited(db) /\ Shaped(db)
  BY GoodShaped DEF TypeInv, StateTyped, EditorInv, LookupInv
<1>1. ASSUME NEW c \in Content, Copy(c)
      PROVE  LookupInv'
  BY <1>0, <1>1, InsertKeepsLookup DEF Copy, LookupInv
<1>2. ASSUME Trims(db, db')
      PROVE  LookupInv'
  BY <1>0, <1>2, TrimsSound, TrimsLimited DEF LookupInv
<1>3. ASSUME NEW id \in Live, ToggleFavorite(id)
      PROVE  LookupInv'
  <2>1. Trims(db, db')
    BY <1>0, <1>3, FavoriteTrims DEF ToggleFavorite
  <2> QED
    BY <1>2, <2>1
<1>4. ASSUME NEW id \in Live, DeleteEntry(id)
      PROVE  LookupInv'
  <2>1. Trims(db, db')
    BY <1>0, <1>4, DeleteTrims DEF DeleteEntry
  <2> QED
    BY <1>2, <2>1
<1>5. ASSUME ClearHistory
      PROVE  LookupInv'
  <2>1. Trims(db, db')
    BY <1>0, <1>5, ClearTrims DEF ClearHistory
  <2> QED
    BY <1>2, <2>1
<1>6. ASSUME EditorEvent
      PROVE  LookupInv'
  BY <1>6, EventLands
<1>7. ASSUME db' = db
      PROVE  LookupInv'
  BY <1>0, <1>7 DEF LookupInv
<1>8. \/ \E c \in Content : Copy(c)
      \/ \E id \in Live : ToggleFavorite(id) \/ DeleteEntry(id)
      \/ ClearHistory \/ EditorEvent \/ db' = db
  BY DEF Next, UiThread, vars, Edit, ObeyApplet, EditorDies, Forward, CloseWindow, EditLatest,
       OpenEditor, ExitApplet, Retrack, EditorProcessExited, WaitEnds
<1> QED
  BY <1>1, <1>3, <1>4, <1>5, <1>6, <1>7, <1>8

LEMMA LookupInvInit ==
  ASSUME Init
  PROVE  LookupInv
<1>1. DOMAIN db.entries = {} /\ DOMAIN db.hashs = {}
  BY DEF Init, EmptyStore, Empty
<1>2. Cardinality(DOMAIN db.entries) = 0
  BY <1>1, FS_EmptySet
<1> QED
  BY <1>1, <1>2, StoreAssumption DEF LookupInv, HashsSound, Limited

-----------------------------------------------------------------------------
(* The end of a process is its last message                                *)

EndOK(p) ==
  /\ p.eof => ~p.alive /\ p.frames = << >>
  /\ p.frames # << >> => Head(p.frames).type # Exited

\* The exit of an editor is its last message in the queue, and nothing follows it.
EndInv ==
  /\ \A s \in Sessions : EndOK(procs[s])
  /\ \A i \in DOMAIN queue : queue[i].type = Exited =>
       /\ procs[queue[i].by].eof
       /\ \A j \in DOMAIN queue : j > i => queue[j].by # queue[i].by

LEMMA EndKept ==
  ASSUME EndInv, QueueTyped, queue' = queue,
         Sessions \subseteq Sessions',
         \A s \in Sessions : procs[s].eof => procs'[s].eof,
         \A s \in Sessions' : EndOK(procs'[s])
  PROVE  EndInv'
  BY DEF EndInv, QueueTyped

LEMMA EndTaken ==
  ASSUME EndInv, QueueTyped, queue # << >>, queue' = Tail(queue), procs' = procs
  PROVE  EndInv'
<1>1. /\ Len(queue) \in Nat \ {0} /\ DOMAIN queue = 1 .. Len(queue)
      /\ DOMAIN queue' = 1 .. Len(queue) - 1
      /\ \A i \in DOMAIN queue' : i + 1 \in DOMAIN queue /\ queue'[i] = queue[i + 1]
  BY TailSequence DEF QueueTyped
<1>2. ASSUME NEW i \in DOMAIN queue', queue'[i].type = Exited
      PROVE  /\ procs'[queue'[i].by].eof
             /\ \A j \in DOMAIN queue' : j > i => queue'[j].by # queue'[i].by
  <2>1. /\ i + 1 \in DOMAIN queue /\ queue'[i] = queue[i + 1]
        /\ procs[queue[i + 1].by].eof
        /\ \A j \in DOMAIN queue : j > i + 1 => queue[j].by # queue[i + 1].by
    BY <1>1, <1>2 DEF EndInv
  <2>2. ASSUME NEW j \in DOMAIN queue', j > i
        PROVE  queue'[j].by # queue'[i].by
    <3>1. j + 1 \in DOMAIN queue /\ queue'[j] = queue[j + 1] /\ j + 1 > i + 1
      BY <1>1, <2>2
    <3> QED
      BY <2>1, <3>1
  <2> QED
    BY <2>1, <2>2
<1>3. \A s \in Sessions' : EndOK(procs'[s])
  BY DEF EndInv, Sessions
<1> QED
  BY <1>2, <1>3 DEF EndInv

LEMMA EndForwarded ==
  ASSUME EndInv, CurrentInv, StateTyped, QueueTyped, NEW s \in Sessions, Forward(s)
  PROVE  EndInv'
<1> DEFINE frame == IF ForwardFrame(s) THEN Head(procs[s].frames) ELSE Frame(Exited, Blank)
           m == Message(s, frame)
<1>1. /\ queue' = Append(queue, m) /\ Sessions' = Sessions
      /\ \A x \in Sessions \ {s} : procs'[x] = procs[x]
      /\ ~procs[s].eof /\ EndOK(procs'[s])
      /\ m.type = Exited => procs'[s].eof
  <2>1. CASE ForwardFrame(s)
    <3> DEFINE p == [procs[s] EXCEPT !.frames = Tail(@)]
    <3>1. procs' = [procs EXCEPT ![s] = p] /\ queue' = Append(queue, m)
      BY <2>1 DEF ForwardFrame
    <3>2. /\ procs[s].frames \in Seq(Frames) /\ procs[s].frames # << >>
          /\ Len(procs[s].frames) <= 1
      BY <2>1 DEF ForwardFrame, StateTyped, ProcTyped, Procs
    <3>3. Tail(procs[s].frames) = << >>
      BY <3>2
    <3>4. p.alive = procs[s].alive /\ p.frames = << >> /\ p.eof = procs[s].eof
      BY <3>2, <3>3 DEF CurrentInv, EditorInv, ProcOK, ProcFields
    <3>5. ~procs[s].eof /\ Head(procs[s].frames).type # Exited
      BY <3>2 DEF EndInv, EndOK
    <3>6. m.type # Exited
      BY <2>1, <3>5 DEF Message
    <3> HIDE DEF p, m
    <3>7. EndOK(p)
      BY <3>4, <3>5 DEF EndOK
    <3> QED
      BY <3>1, <3>5, <3>6, <3>7 DEF Sessions
  <2>2. CASE ~ForwardFrame(s) /\ ForwardExit(s)
    <3> DEFINE p == [procs[s] EXCEPT !.eof = TRUE]
    <3>1. procs' = [procs EXCEPT ![s] = p] /\ queue' = Append(queue, m) /\ ~procs[s].eof
      BY <2>2 DEF ForwardExit, Exited
    <3>2. ~procs[s].alive /\ procs[s].frames = << >>
      BY <2>2 DEF ForwardExit
    <3>3. p.alive = procs[s].alive /\ p.frames = << >> /\ p.eof
      BY <3>2 DEF CurrentInv, EditorInv, ProcOK, ProcFields
    <3> HIDE DEF p, m
    <3>4. EndOK(p)
      BY <3>2, <3>3 DEF EndOK
    <3> QED
      BY <3>1, <3>3, <3>4 DEF Sessions
  <2> QED
    BY <2>1, <2>2 DEF Forward
<1>2. m.by = s
  BY DEF Message
<1> HIDE DEF frame, m
<1>3. /\ Len(queue) \in Nat /\ IsSequence(queue')
      /\ DOMAIN queue = 1 .. Len(queue) /\ DOMAIN queue' = 1 .. Len(queue) + 1
      /\ \A i \in 1 .. Len(queue) : queue'[i] = queue[i]
      /\ queue'[Len(queue) + 1] = m
  BY <1>1, AppendSequence DEF QueueTyped
<1>4. \A i \in DOMAIN queue : queue[i].type = Exited => queue[i].by # s
  BY <1>1 DEF EndInv
<1>5. ASSUME NEW i \in DOMAIN queue', queue'[i].type = Exited
      PROVE  /\ procs'[queue'[i].by].eof
             /\ \A j \in DOMAIN queue' : j > i => queue'[j].by # queue'[i].by
  <2>1. CASE i = Len(queue) + 1
    <3>1. queue'[i] = m /\ \A j \in DOMAIN queue' : ~(j > i)
      BY <1>3, <2>1
    <3> QED
      BY <1>1, <1>2, <1>5, <3>1
  <2>2. CASE i \in 1 .. Len(queue)
    <3>1. /\ queue'[i] = queue[i] /\ i \in DOMAIN queue /\ queue[i].by # s
          /\ procs[queue[i].by].eof
          /\ \A j \in DOMAIN queue : j > i => queue[j].by # queue[i].by
      BY <1>3, <1>4, <1>5, <2>2 DEF EndInv
    <3>2. queue[i].by \in Sessions
      BY <3>1 DEF CurrentInv
    <3>3. procs'[queue[i].by].eof
      BY <1>1, <3>1, <3>2
    <3>4. ASSUME NEW j \in DOMAIN queue', j > i
          PROVE  queue'[j].by # queue'[i].by
      <4>1. j \in 1 .. Len(queue) \/ j = Len(queue) + 1
        BY <1>3
      <4> QED
        BY <1>2, <1>3, <3>1, <3>4, <4>1
    <3> QED
      BY <3>1, <3>3, <3>4
  <2> QED
    BY <1>3, <2>1, <2>2
<1>6. \A x \in Sessions' : EndOK(procs'[x])
  BY <1>1 DEF EndInv
<1> QED
  BY <1>5, <1>6 DEF EndInv

LEMMA EndInvStep ==
  ASSUME TypeInv, CurrentInv, EndInv, [Next]_vars
  PROVE  EndInv'
<1>0. /\ EditorInv /\ StateTyped /\ QueueTyped
      /\ Sessions \subseteq Sessions' /\ \A s \in Sessions : EndOK(procs[s])
  BY EditorInvStep DEF TypeInv, ProcsGoOn, EndInv
<1>1. ASSUME UNCHANGED << procs, queue >>
      PROVE  EndInv'
  <2>1. Sessions' = Sessions
    BY <1>1 DEF Sessions
  <2> QED
    BY <1>0, <1>1, <2>1, EndKept
<1>2. ASSUME editor # None, procs' = Told(editor.session)
      PROVE  /\ \A s \in Sessions' : EndOK(procs'[s])
             /\ queue' = queue => EndInv'
  <2>1. editor.session \in Sessions
    BY <1>0, <1>2 DEF EditorInv
  <2>2. /\ Sessions' = Sessions
        /\ \A x \in Sessions :
             /\ procs'[x].alive = procs[x].alive /\ procs'[x].frames = procs[x].frames
             /\ procs'[x].eof = procs[x].eof
    BY <1>0, <1>2, <2>1, ToldFrames, ToldGoesOn DEF Sessions
  <2>3. \A s \in Sessions' : EndOK(procs'[s])
    BY <1>0, <2>2 DEF EndOK
  <2> QED
    BY <1>0, <1>2, <2>2, <2>3, EndKept
<1>3. ASSUME NEW id \in Live, OpenEditor(id)
      PROVE  EndInv'
  <2>1. queue' = queue
    BY <1>3 DEF OpenEditor
  <2>2. /\ \A x \in Sessions :
             /\ procs'[x].alive = procs[x].alive /\ procs'[x].frames = procs[x].frames
             /\ procs'[x].eof = procs[x].eof
        /\ \A x \in Sessions' : x \in Sessions \/ procs'[x] = Started(id)
    BY <1>0, <1>3, OpenFrames
  <2>3. EndOK(Started(id))
    BY DEF Started, EndOK
  <2>4. \A s \in Sessions' : EndOK(procs'[s])
    BY <1>0, <2>2, <2>3 DEF EndOK
  <2> QED
    BY <1>0, <2>1, <2>2, <2>4, EndKept
<1>4. ASSUME NEW s \in Sessions, NEW frames, Exits(s, frames), procs[s].alive,
             frames # << >> => Head(frames).type # Exited,
             queue' = queue
      PROVE  EndInv'
  <2> DEFINE p == [procs[s] EXCEPT !.alive = FALSE, !.original = Blank,
                                   !.is_favorite = FALSE, !.frames = frames]
  <2>1. procs' = [procs EXCEPT ![s] = p]
    BY <1>4 DEF Exits
  <2>2. p.frames = frames /\ p.eof = procs[s].eof
    BY <1>0 DEF EditorInv, ProcOK, ProcFields
  <2>3. ~procs[s].eof
    BY <1>0, <1>4 DEF EndOK
  <2> HIDE DEF p
  <2>4. EndOK(p)
    BY <1>4, <2>2, <2>3 DEF EndOK
  <2>5. Sessions' = Sessions /\ \A x \in Sessions : procs'[x] = IF x = s THEN p ELSE procs[x]
    BY <2>1 DEF Sessions
  <2>6. \A x \in Sessions' : EndOK(procs'[x])
    BY <1>0, <2>4, <2>5
  <2> QED
    BY <1>0, <1>4, <2>3, <2>5, <2>6, EndKept
<1>5. ASSUME NEW s \in Sessions, ObeyApplet(s) \/ EditorDies(s)
      PROVE  EndInv'
  <2>1. \E frames : /\ Exits(s, frames) /\ procs[s].alive
                    /\ frames # << >> => Head(frames).type # Exited
    <3>1. Head(<< Frame("Closed", Blank) >>).type # Exited
      BY DEF Frame, Exited
    <3>2. CASE ObeyApplet(s)
      BY <3>1, <3>2 DEF ObeyApplet
    <3>3. CASE EditorDies(s)
      BY <3>3 DEF EditorDies
    <3> QED
      BY <1>5, <3>2, <3>3
  <2>2. queue' = queue
    BY <1>5 DEF ObeyApplet, EditorDies
  <2> QED
    BY <1>4, <2>1, <2>2
<1>6. ASSUME NEW s \in Sessions, NEW text \in Texts, CloseWindow(s, text)
      PROVE  EndInv'
  <2>1. Saved(s, text).type # Exited
    BY DEF Saved, Frame, Exited
  <2>2. Exits(s, << Saved(s, text) >>) /\ procs[s].alive /\ queue' = queue
    BY <1>6 DEF CloseWindow
  <2>3. Head(<< Saved(s, text) >>).type # Exited
    BY <2>1
  <2> QED
    BY <1>4, <2>2, <2>3
<1>7. ASSUME NEW s \in Sessions, Forward(s)
      PROVE  EndInv'
  BY <1>0, <1>7, EndForwarded
<1>8. CASE EditorEvent \/ EditorProcessExited
  <2>1. queue # << >> /\ queue' = Tail(queue) /\ procs' = procs
    BY <1>8 DEF EditorEvent, EditorProcessExited
  <2> QED
    BY <1>0, <2>1, EndTaken
<1>9. CASE WaitEnds \/ Retrack \/ ClearHistory \/ UNCHANGED vars \/ (\E c \in Content : Copy(c))
           \/ (\E id \in Live : ToggleFavorite(id))
  <2>1. UNCHANGED << procs, queue >>
    BY <1>9 DEF WaitEnds, Retrack, ClearHistory, vars, Copy, ToggleFavorite
  <2> QED
    BY <1>1, <2>1
<1>10. CASE \E id \in Live : DeleteEntry(id)
  <2>1. queue' = queue /\ (procs' = procs \/ (editor # None /\ procs' = Told(editor.session)))
    BY <1>10 DEF DeleteEntry
  <2> QED
    BY <1>1, <1>2, <2>1
<1>11. CASE ExitApplet
  <2>1. queue' = << >> /\ (procs' = procs \/ (editor # None /\ procs' = Told(editor.session)))
    BY <1>11 DEF ExitApplet
  <2>2. \A s \in Sessions' : EndOK(procs'[s])
    BY <1>0, <1>2, <2>1 DEF Sessions
  <2>3. DOMAIN queue' = {}
    BY <2>1
  <2> QED
    BY <2>2, <2>3 DEF EndInv
<1>12. CASE EditLatest \/ \E id \in Live : Edit(id)
  <2>1. \E id \in Live : OpenEditor(id)
    BY <1>12 DEF EditLatest, Edit
  <2> QED
    BY <1>3, <2>1
<1> QED
  BY <1>5, <1>6, <1>7, <1>8, <1>9, <1>10, <1>11, <1>12 DEF Next, UiThread

\* What SaveLands says of one message.
LandsOnTop(m) ==
  /\ Handles(m) /\ m.content # Blank
  /\ \/ m.type = "SaveAsNew" /\ ~FullOfFavorites
     \/ /\ m.type = "UpdateExisting"
        /\ Attached(m.by) /\ procs[m.by].entry \in Live
  => OnTop(db', m.content)

LEMMA SaveLandsStep ==
  ASSUME TypeInv, CurrentInv, LookupInv, OwnsLock, [Next]_vars, ~db'.panicked,
         NEW i \in DOMAIN queue
  PROVE  LandsOnTop(queue[i])
<1> SUFFICES ASSUME Handles(queue[i]), queue[i].content # Blank,
                    \/ queue[i].type = "SaveAsNew" /\ ~FullOfFavorites
                    \/ /\ queue[i].type = "UpdateExisting"
                       /\ Attached(queue[i].by) /\ procs[queue[i].by].entry \in Live
             PROVE  OnTop(db', queue[i].content)
  BY DEF LandsOnTop
<1>1. queue # << >> /\ queue[i] = Head(queue) /\ queue' = Tail(queue) /\ up'
  BY DEF Handles
<1>2. EditorEvent
  <2>1. queue' # queue /\ queue[i].type # Exited
    <3>1. /\ Len(queue) \in Nat \ {0} /\ DOMAIN queue = 1 .. Len(queue)
          /\ DOMAIN queue' = 1 .. Len(queue) - 1
      BY <1>1, TailSequence DEF CurrentInv
    <3>2. Len(queue) \in DOMAIN queue /\ Len(queue) \notin DOMAIN queue'
      BY <3>1
    <3> QED
      BY <3>2 DEF Exited
  <2>2. \A s \in Sessions : ~Forward(s)
    <3> SUFFICES ASSUME NEW s \in Sessions, Forward(s)
                 PROVE  FALSE
      OBVIOUS
    <3>1. PICK m : queue' = Append(queue, m)
      BY DEF Forward, ForwardFrame, ForwardExit
    <3>2. /\ Len(queue) \in Nat /\ DOMAIN queue' = 1 .. Len(queue) - 1
          /\ DOMAIN queue' = 1 .. Len(queue) + 1
      BY <1>1, <3>1, TailSequence, AppendSequence DEF CurrentInv
    <3>3. Len(queue) + 1 \in 1 .. Len(queue) + 1 /\ Len(queue) + 1 \notin 1 .. Len(queue) - 1
      BY <3>2
    <3> QED
      BY <3>2, <3>3
  <2> QED
    BY <1>1, <2>1, <2>2 DEF Next, UiThread, vars, Copy, Edit, DeleteEntry, ToggleFavorite,
         ObeyApplet, EditorDies, CloseWindow, ClearHistory, EditLatest, OpenEditor, ExitApplet,
         Retrack, EditorProcessExited, WaitEnds, Exited
<1>3. ~Full(db) <=> ~FullOfFavorites
  BY DEF Full, FullOfFavorites, Live
<1>4. queue[i].type = "UpdateExisting" => editor # None /\ editor.entry_id \in Live
  BY DEF CurrentInv, EditorInv, Attached
<1> QED
  BY <1>1, <1>2, <1>3, <1>4, EventLands

\* What SaveLands says of an editor that is dropped.
DroppedLast(s) ==
  Attached(s) /\ ~Attached(s)'
    => procs'[s].told \/ Heard(s)' \/ (Handles(Head(queue)) /\ Late(Head(queue)))

LEMMA DroppedLastStep ==
  ASSUME TypeInv, CurrentInv, EndInv, [Next]_vars, NEW s \in Sessions
  PROVE  DroppedLast(s)
<1> SUFFICES ASSUME Attached(s), ~Attached(s)'
             PROVE  procs'[s].told \/ Heard(s)' \/ (Handles(Head(queue)) /\ Late(Head(queue)))
  BY DEF DroppedLast
<1>0. EditorInv /\ editor # None /\ editor.session = s
  BY DEF CurrentInv, Attached
<1>1. /\ IsSequence(Told(s)) /\ DOMAIN Told(s) = Sessions /\ Told(s)[s].told
  BY <1>0, ToldGoesOn
<1>2. ASSUME NEW id \in Live, OpenEditor(id)
      PROVE  procs'[s].told
  <2>1. procs' = Told(s) \/ procs' = Append(Told(s), Started(id))
    BY <1>0, <1>2 DEF OpenEditor
  <2>2. procs'[s] = Told(s)[s]
    BY <1>1, <2>1, AppendSequence
  <2> QED
    BY <1>1, <2>2
<1>3. CASE EditLatest \/ \E id \in Live : Edit(id)
  BY <1>2, <1>3 DEF EditLatest, Edit
<1>4. CASE ExitApplet
  BY <1>0, <1>1, <1>4 DEF ExitApplet
<1>5. CASE EditorProcessExited
  <2>1. /\ queue # << >> /\ Head(queue).type = Exited /\ queue' = Tail(queue)
        /\ procs' = procs /\ up'
    BY <1>5 DEF EditorProcessExited, Free, Exited
  <2>2. /\ Head(queue) = queue[1] /\ 1 \in DOMAIN queue
        /\ \A i \in DOMAIN queue' : i + 1 \in DOMAIN queue /\ queue'[i] = queue[i + 1] /\ i + 1 > 1
    BY <2>1, TailSequence DEF CurrentInv
  <2>3. CASE queue[1].by # s
    <3>1. Late(Head(queue))
      BY <1>0, <2>2, <2>3, OthersLate
    <3> QED
      BY <2>1, <3>1 DEF Handles
  <2>4. CASE queue[1].by = s
    <3>1. procs[s].eof /\ \A j \in DOMAIN queue : j > 1 => queue[j].by # s
      BY <2>1, <2>2, <2>4 DEF EndInv
    <3>2. procs'[s].frames = << >>
      BY <2>1, <3>1 DEF EndInv, EndOK
    <3>3. \A i \in DOMAIN queue' : queue'[i].by # s
      BY <2>2, <3>1
    <3> QED
      BY <3>2, <3>3 DEF Heard
  <2> QED
    BY <2>3, <2>4
<1>6. editor' = editor \/ EditLatest \/ (\E id \in Live : Edit(id)) \/ ExitApplet \/ EditorProcessExited
  BY DEF Next, UiThread, vars, Copy, DeleteEntry, ToggleFavorite, ObeyApplet, EditorDies, Forward,
       CloseWindow, ClearHistory, Retrack, EditorEvent, WaitEnds
<1>7. editor' # editor
  BY DEF Attached
<1> QED
  BY <1>3, <1>4, <1>5, <1>6, <1>7

\* In the instance that writes, for every history, limit and number of editors, and
\* whatever is copied, evicted, merged, deleted and cleared meanwhile: a saved text
\* is on top of the history once its message has been handled, if it is a new text
\* or its editor still is the current one; and a current editor is dropped before
\* all it wrote has been handled only to open another, at the applet's exit, or on
\* the late end of an earlier one.
THEOREM SaveLandsHolds ==
  ASSUME OwnsLock
  PROVE  Spec => SaveLands
<1> DEFINE Inv == TypeInv /\ CurrentInv /\ EndInv /\ LookupInv
<1>1. ASSUME Init
      PROVE  Inv
  <2>1. EndInv
    BY <1>1 DEF Init, EndInv, Sessions
  <2> QED
    BY <1>1, <2>1, TypeInvInit, CurrentInvInit, LookupInvInit
<1>2. ASSUME Inv, [Next]_vars
      PROVE  Inv'
  BY <1>2, TypeInvStep, CurrentInvStep, EndInvStep, LookupInvStep
<1>3. ASSUME Inv, [Next]_vars
      PROVE  [/\ ~db'.panicked => \A i \in DOMAIN queue :
                   /\ Handles(queue[i]) /\ queue[i].content # Blank
                   /\ \/ queue[i].type = "SaveAsNew" /\ ~FullOfFavorites
                      \/ /\ queue[i].type = "UpdateExisting"
                         /\ Attached(queue[i].by) /\ procs[queue[i].by].entry \in Live
                   => /\ NewestId(db') # None
                      /\ Hash[db'.entries[NewestId(db')].content] = Hash[queue[i].content]
              /\ \A s \in Sessions :
                   Attached(s) /\ ~Attached(s)'
                   => procs'[s].told \/ Heard(s)' \/ (Handles(Head(queue)) /\ Late(Head(queue)))]_vars
  <2>1. ASSUME NEW i \in DOMAIN queue, ~db'.panicked
        PROVE  LandsOnTop(queue[i])
    BY <1>3, <2>1, SaveLandsStep
  <2>2. ASSUME NEW s \in Sessions
        PROVE  DroppedLast(s)
    BY <1>3, <2>2, DroppedLastStep
  <2>3. ~db'.panicked => \A i \in DOMAIN queue :
          /\ Handles(queue[i]) /\ queue[i].content # Blank
          /\ \/ queue[i].type = "SaveAsNew" /\ ~FullOfFavorites
             \/ /\ queue[i].type = "UpdateExisting"
                /\ Attached(queue[i].by) /\ procs[queue[i].by].entry \in Live
          => /\ NewestId(db') # None
             /\ Hash[db'.entries[NewestId(db')].content] = Hash[queue[i].content]
    BY ONLY <2>1 DEF LandsOnTop, OnTop
  <2>4. \A s \in Sessions :
          Attached(s) /\ ~Attached(s)'
          => procs'[s].told \/ Heard(s)' \/ (Handles(Head(queue)) /\ Late(Head(queue)))
    BY ONLY <2>2 DEF DroppedLast
  <2> QED
    BY ONLY <2>3, <2>4
<1> HIDE DEF Inv
<1> QED
  BY <1>1, <1>2, <1>3, PTL DEF Spec, SaveLands
=============================================================================
