--------------------------- MODULE ClipboardStore ---------------------------
(***************************************************************************)
(* The clipboard history as the applet drives it: one action per message   *)
(* handler of AppState::update (src/src/app.rs) that reads or changes the  *)
(* in-memory store.  Handlers run one at a time on the UI thread, but the  *)
(* ids they carry were taken from a view, an editor process or a D-Bus     *)
(* client some time ago and may name an entry that is gone.                *)
(***************************************************************************)
EXTENDS StoreOps

CONSTANTS
  Titles,         \* what a user may call a favorite
  Queries,        \* searches, each the set of contents it matches
  Ticks,          \* by how much the clock may advance between two readings
  MaxTime,        \* bound on the clock
  MaxFavs,        \* bound on the length of the favorites list
  StaleEdits,     \* may the editor save an entry that was removed meanwhile?
  StaleConfirms,  \* may a title be confirmed for an entry removed meanwhile?
  Refavorites     \* may a selection be starred whose text already is a favorite?

ASSUME AppAssumption ==
  /\ None \notin Titles /\ None \notin Queries
  /\ Queries \subseteq SUBSET Content
  /\ Ticks \subseteq Nat
  /\ MaxTime \in Nat /\ MaxFavs \in Nat
  /\ {StaleEdits, StaleConfirms, Refavorites} \subseteq BOOLEAN

VARIABLES
  db,     \* AppState.db
  clock   \* the last reading of the system clock

vars == << db, clock >>

Live == DOMAIN db.entries

\* Ids a message may carry.  The store does not tell an id it never issued
\* from one whose entry is gone.
Ids == 1 .. clock

Readings == {t \in {clock + d : d \in Ticks} : t <= MaxTime}

Init ==
  /\ db = EmptyStore
  /\ clock = 0

\* ClipboardEvent(Data) for content that is neither a synchronised selection
\* nor a password.
ClipboardData(c) ==
  \E now \in Readings :
    /\ db' = InsertToMemory(db, c, now).db
    /\ clock' = now

\* Clear
ClearHistory ==
  /\ db' = ClearMemory(db).db
  /\ UNCHANGED clock

\* ContextMenu(Delete), and the editor saving an empty text.
DeleteEntry(id) ==
  /\ db' = DeleteFromMemory(db, id).db
  /\ UNCHANGED clock

\* EditorEvent(SaveAsNew)
EditorSavesNew(c) ==
  ClipboardData(c)

\* EditorEvent(UpdateExisting), with its fallback on a duplicate.
EditorUpdates(id, c) ==
  /\ StaleEdits \/ id \in Live
  /\ \E now \in Readings :
       /\ db' = IF TakenByOther(db, id, c)
                  THEN MergeIntoOther(db, id, c, now)
                  ELSE UpdateContentInMemory(db, id, c, now).db
       /\ clock' = now

\* ConfirmFavorite, sent when the title that BeginFavorite asked for is given.
ConfirmFavorite(id, title) ==
  /\ StaleConfirms \/ id \in Live
  /\ IsFavorite(db, id) \/ Len(db.favs) < MaxFavs
  /\ LET starred == IF IsFavorite(db, id) THEN db ELSE AddFavoriteToMemory(db, id).db
     IN  db' = SetFavoriteTitleInMemory(starred, id, title).db
  /\ UNCHANGED clock

\* ContextMenu(RemoveFavorite), from the list or over D-Bus.
RemoveFavorite(id) ==
  /\ db' = RemoveFavoriteFromMemory(db, id).db
  /\ UNCHANGED clock

\* SetFavoriteTitle, over D-Bus.
SetFavoriteTitle(id, title) ==
  /\ db' = SetFavoriteTitleInMemory(db, id, title).db
  /\ UNCHANGED clock

\* SelectionToFavorite: insert the selection and star the newest entry.
SelectionToFavorite(c) ==
  \E now \in Readings :
    LET r == InsertToMemory(db, c, now)
        id == NewestId(r.db)
    IN  /\ Refavorites \/ id \notin db.favSet
        /\ Len(db.favs) < MaxFavs
        /\ db' = IF r.op = None \/ id = None THEN r.db
                 ELSE AddFavoriteToMemory(r.db, id).db
        /\ clock' = now

\* Search
SearchFor(q) ==
  /\ db' = SetQueryAndSearch(db, q)
  /\ UNCHANGED clock

\* list_view, DbusListEntries, DbusListFavorites and Navigation(Enter) walk
\* iter(), which dies on a favorite without an entry.
WalkList ==
  /\ IterPanics(db)
  /\ db' = Panic(db)
  /\ UNCHANGED clock

Next ==
  /\ ~db.panicked
  /\ \/ \E c \in Content : ClipboardData(c)
     \/ \E c \in Content : EditorSavesNew(c)
     \/ \E c \in Content : SelectionToFavorite(c)
     \/ \E id \in Ids, c \in Content : EditorUpdates(id, c)
     \/ \E id \in Ids : DeleteEntry(id)
     \/ \E id \in Ids : RemoveFavorite(id)
     \/ \E id \in Ids, title \in Titles \cup {None} : ConfirmFavorite(id, title)
     \/ \E id \in Ids, title \in Titles \cup {None} : SetFavoriteTitle(id, title)
     \/ \E q \in Queries \cup {None} : SearchFor(q)
     \/ ClearHistory
     \/ WalkList

Spec == Init /\ [][Next]_vars

-----------------------------------------------------------------------------
(* Invariants that no race between the handlers can break, as long as two  *)
(* readings of the clock differ.                                           *)

Entry ==
  [creation : Ids, content : Content,
   is_favorite : BOOLEAN, favorite_title : Titles \cup {None}]

\* The maps, lists and sets of DbSqlite hold ids and times that were issued.
IndexTypeOK ==
  /\ clock \in 0 .. MaxTime
  /\ DOMAIN db = {"entries", "hashs", "times", "favs", "favSet", "titles",
                  "query", "filtered", "panicked"}
  /\ IsMap(db.entries, Ids, Entry)
  /\ IsMap(db.hashs, Hashes, Ids)
  /\ IsMap(db.times, Ids, Ids)
  /\ db.favs \in Seq(Ids)
  /\ db.favSet \subseteq Ids
  /\ IsMap(db.titles, Ids, Titles \cup {None})

\* Every field of DbSqlite has its type.
TypeOK ==
  /\ IndexTypeOK
  /\ db.query \in Queries \cup {None}
  /\ db.filtered \in Seq(Ids)
  /\ db.panicked \in BOOLEAN

\* The time index lists each entry at its creation and nothing else, which is
\* what the assert! after times.remove (sqlite_db.rs:557) and the eviction
\* loop rely on.
TimesExact ==
  /\ \A id \in Live : /\ db.entries[id].creation \in DOMAIN db.times
                      /\ db.times[db.entries[id].creation] = id
  /\ \A t \in DOMAIN db.times : /\ db.times[t] \in Live
                                /\ db.entries[db.times[t]].creation = t

\* Looking a content up by hash finds the entry that holds it, so no two
\* entries ever show the same text: the dedup of insert_to_memory and
\* update_content cannot be bypassed by any order of edits and copies.
HashFindsEntry ==
  \A id \in Live :
    LET h == Hash[db.entries[id].content]
    IN  h \in DOMAIN db.hashs /\ db.hashs[h] = id

\* The two places that say what is a favorite, and what it is called, agree:
\* each entry's own fields and the Favorites list eviction and Clear consult.
FavoritesAgree ==
  /\ db.favSet \subseteq Range(db.favs)
  /\ \A id \in db.favSet : id \in DOMAIN db.titles
  /\ \A id \in Live :
       /\ db.entries[id].is_favorite <=> id \in db.favSet
       /\ id \in db.favSet => db.entries[id].favorite_title = db.titles[id]

\* The indexes of the store describe the same entries, under any race of the
\* handlers: what no unwrap or assert! checks is relied on by the next operation.
IndexesAgree == TimesExact /\ HashFindsEntry /\ FavoritesAgree

-----------------------------------------------------------------------------
(* Invariants that need the ids carried by edits and confirmed titles to be*)
(* live, and a starred selection not to be a favorite yet.                 *)

\* Every hash leads to an entry with that hash: insert_to_memory unwraps the
\* entry it finds through hashs (sqlite_db.rs:553).
HashesLive ==
  \A h \in DOMAIN db.hashs :
    db.hashs[h] \in Live /\ Hash[db.entries[db.hashs[h]].content] = h

\* The list shows every entry exactly once, favorites and others together.
ListedOnce ==
  /\ ~IterPanics(db)
  /\ Range(Iter(db)) = Live
  /\ Len(Iter(db)) = Cardinality(Live)

\* The cached search result holds exactly the entries that match the active
\* query, whatever was inserted, edited, evicted or deleted since it was typed.
SearchFresh ==
  db.query # None =>
    /\ Range(db.filtered) = {id \in Live : db.entries[id].content \in db.query}
    /\ Len(db.filtered) = Cardinality(Range(db.filtered))

\* What the user sees, searching or not, is what the history holds.
ListShown == ListedOnce /\ SearchFresh

\* No handler meets a missing key, a failed unwrap or a failed assert!.
NoPanic == ~db.panicked

-----------------------------------------------------------------------------
(* What a step may never do.                                               *)

Inserting == \E c \in Content : ClipboardData(c) \/ SelectionToFavorite(c)

\* A favorite leaves the history only when it is deleted, or merged into the
\* entry that already holds the text it was edited to: neither Clear nor the
\* limit ever takes one.
FavoritesKept ==
  [][\A id \in Live \ Live' :
       db.entries[id].is_favorite =>
         DeleteEntry(id) \/ \E c \in Content : EditorUpdates(id, c)]_vars

\* What the limit evicts is older than every entry it could have evicted
\* instead, enough to come back to the limit and no more; favorites count.
EvictsOldest ==
  [][Inserting =>
       /\ \A gone \in Live \ Live', kept \in Live \cap Live' :
            \/ db.entries[kept].is_favorite
            \/ db.entries[gone].creation < db.entries[kept].creation
       /\ MaxEntries # None => Cardinality(Live') <= MaxEntries
       /\ ~(Live \subseteq Live') => Cardinality(Live') = MaxEntries]_vars
=============================================================================
