------------------------------ MODULE StoreOps ------------------------------
(***************************************************************************)
(* The operations of DbSqlite (src/src/db/sqlite_db.rs) on its in-memory   *)
(* state, as operators on a record st that holds the fields of the struct: *)
(*                                                                         *)
(*   entries   id -> [creation, content, is_favorite, favorite_title]      *)
(*   hashs     content hash -> id                                          *)
(*   times     creation time -> id      (a BTreeMap: iterated in order)    *)
(*   favs      Favorites.favorites, the displayed order of the favorites   *)
(*   favSet    Favorites.favorites_hash_set                                *)
(*   titles    Favorites.titles                                            *)
(*   query, filtered    the active search and its cached result            *)
(*   panicked  TRUE once an unwrap, assert! or index of a missing key fired*)
(*                                                                         *)
(* An operation that the program also persists returns [db, op]: the new   *)
(* state and the DbPersistOp handed to the background writer (None when    *)
(* the code returns None).  Ids and times are milliseconds: a new entry's  *)
(* id is the time of its insertion.                                        *)
(*                                                                         *)
(* The module has no variables: the state machines that call the store     *)
(* extend it.                                                              *)
(***************************************************************************)
EXTENDS Integers, Sequences, FiniteSets, Functions

CONSTANTS
  Content,      \* what can be on a clipboard
  Hash,         \* Content -> hash: contents with the same plain text hash equal
  MaxEntries,   \* config.maximum_entries_number, None when unlimited
  OwnsLock,     \* TRUE in the instance that owns the lock file
  None          \* Rust's None

ASSUME StoreAssumption ==
  /\ Hash = [c \in Content |-> Hash[c]]
  /\ MaxEntries \in Nat \cup {None}
  /\ OwnsLock \in BOOLEAN
  /\ None \notin Nat

-----------------------------------------------------------------------------
(* Maps and the empty store                                                *)

IsMap(f, K, V) == DOMAIN f \subseteq K /\ f \in [DOMAIN f -> V]

Put(f, k, v) == [x \in DOMAIN f \cup {k} |-> IF x = k THEN v ELSE f[x]]

Drop(f, S) == [x \in DOMAIN f \ S |-> f[x]]

Empty == [x \in {} |-> x]

Hashes == {Hash[c] : c \in Content}

EmptyStore ==
  [entries |-> Empty, hashs |-> Empty, times |-> Empty,
   favs |-> << >>, favSet |-> {}, titles |-> Empty,
   query |-> None, filtered |-> << >>, panicked |-> FALSE]

NewEntry(c, now) ==
  [creation |-> now, content |-> c, is_favorite |-> FALSE, favorite_title |-> None]

IsFavorite(st, id) == id \in DOMAIN st.entries /\ st.entries[id].is_favorite

Panic(st) == [st EXCEPT !.panicked = TRUE]

-----------------------------------------------------------------------------
(* Reading the store                                                       *)

\* The i-th most recent of a set of times.
Newest(T, i) == CHOOSE t \in T : Cardinality({u \in T : u >= t}) = i

\* The ids the index holds at the times T, newest first.
NewestFirst(st, T) == [i \in 1 .. Cardinality(T) |-> st.times[Newest(T, i)]]

\* chronological_iter
ChronologicalIter(st) == NewestFirst(st, DOMAIN st.times)

\* chronological_iter().next()
NewestId(st) ==
  IF DOMAIN st.times = {} THEN None ELSE st.times[Newest(DOMAIN st.times, 1)]

\* iter indexes entries with every favorite and every indexed time, and
\* indexing a HashMap with a missing key panics.
IterPanics(st) ==
  \/ \E i \in DOMAIN st.favs : st.favs[i] \notin DOMAIN st.entries
  \/ \E t \in DOMAIN st.times : st.times[t] \notin DOMAIN st.entries

\* iter: the favorites in their own order, then the others newest first.
Iter(st) ==
  st.favs \o
    NewestFirst(st, {t \in DOMAIN st.times : ~st.entries[st.times[t]].is_favorite})

\* The elements of s that are in S, in their order: SelectSeq, in a form that can
\* be reasoned about.
Selected(s, S) ==
  LET upTo[n \in 0 .. Len(s)] ==
        IF n = 0 THEN << >>
        ELSE IF s[n] \in S THEN Append(upTo[n - 1], s[n])
        ELSE upTo[n - 1]
  IN  upTo[Len(s)]

\* The entries that match the active query.
Matching(st) == {id \in DOMAIN st.entries : st.entries[id].content \in st.query}

\* search: refresh the cached result of the active query, a set of contents.
Search(st) ==
  IF st.query = None THEN [st EXCEPT !.filtered = << >>]
  ELSE IF IterPanics(st) THEN Panic(st)
  ELSE [st EXCEPT !.filtered = Selected(Iter(st), Matching(st))]

SetQueryAndSearch(st, q) == Search([st EXCEPT !.query = q])

-----------------------------------------------------------------------------
(* The favorites                                                           *)

FavPush(st, id) ==
  [st EXCEPT !.favs = Append(@, id),
             !.favSet = @ \cup {id},
             !.titles = Put(@, id, None)]

FirstIndex(s, e) == CHOOSE i \in DOMAIN s : s[i] = e /\ \A j \in 1 .. i - 1 : s[j] # e

WithoutFirst(s, e) ==
  IF e \in Range(s)
    THEN SubSeq(s, 1, FirstIndex(s, e) - 1) \o SubSeq(s, FirstIndex(s, e) + 1, Len(s))
    ELSE s

\* Seeded bug: the id stays in the ordered list.
FavRemoveKeepsOrder(st, id) ==
  [st EXCEPT !.favSet = @ \ {id}, !.titles = Drop(@, {id})]

\* Favorites::remove
FavRemove(st, id) ==
  [st EXCEPT !.favs = WithoutFirst(@, id),
             !.favSet = @ \ {id},
             !.titles = Drop(@, {id})]

\* The 0-based position Favorites::remove returns.
FavPosition(st, id) ==
  IF id \in Range(st.favs) THEN FirstIndex(st.favs, id) - 1 ELSE None

-----------------------------------------------------------------------------
(* Indexes                                                                 *)

\* The removal of entries from entries, hashs and times.
Unindex(st, ids) ==
  [st EXCEPT !.entries = Drop(@, ids),
             !.hashs = Drop(@, {Hash[st.entries[id].content] : id \in ids}),
             !.times = Drop(@, {st.entries[id].creation : id \in ids})]

\* Seeded bug: the old time stays in the index.
BumpKeepsOldTime(st, id, now) ==
  [st EXCEPT !.entries[id].creation = now, !.times = Put(@, now, id)]

\* Move an entry to the top of the history.
Bump(st, id, now) ==
  [st EXCEPT !.entries[id].creation = now,
             !.times = Put(Drop(@, {st.entries[id].creation}), now, id)]

\* Seeded bug: eviction does not ask whether an entry is a favorite.
EvictableAll(st) == DOMAIN st.times

\* The times whose entries eviction may take.
Evictable(st) == {t \in DOMAIN st.times : st.times[t] \notin st.favSet}

\* The times the eviction loop removes: the oldest evictable ones, as many as
\* the store is over its limit, or all of them.
Oldest(st) ==
  IF MaxEntries = None THEN {}
  ELSE {t \in Evictable(st) :
          Cardinality({u \in Evictable(st) : u <= t})
            <= Cardinality(DOMAIN st.entries) - MaxEntries}

\* Seeded bug: age is taken from the insertion, not from the last refresh.
EvictedByInsertion(st) ==
  LET free == DOMAIN st.entries \ st.favSet
  IN  IF MaxEntries = None THEN {}
      ELSE {id \in free : Cardinality({o \in free : o <= id})
                            <= Cardinality(DOMAIN st.entries) - MaxEntries}

Evicted(st) == {st.times[t] : t \in Oldest(st)}

-----------------------------------------------------------------------------
(* The operations.  now is the clock the operation reads.                  *)

NoOp(st) == [db |-> st, op |-> None]

\* insert_to_memory, when the hash is known: refresh the entry's timestamp.
\* The unwrap needs the entry to exist, the assert! its old time to be indexed.
Refresh(st, id, now) ==
  IF id \notin DOMAIN st.entries \/ st.entries[id].creation \notin DOMAIN st.times
    THEN NoOp(Panic(st))
    ELSE [db |-> Search(Bump(st, id, now)),
          op |-> [type |-> "UpdateTimestamp", id |-> id, new_time |-> now]]

\* A new entry put in the three maps.
Grow(st, c, now) ==
  [st EXCEPT !.times = Put(@, now, now),
             !.hashs = Put(@, Hash[c], now),
             !.entries = Put(@, now, NewEntry(c, now))]

\* insert_to_memory, when the hash is new: eviction may take the new entry.
InsertNew(st, c, now) ==
  LET gone == Evicted(Grow(st, c, now))
  IN  [db |-> Search(Unindex(Grow(st, c, now), gone)),
       op |-> [type |-> "InsertNew", id |-> now, time |-> now,
               data |-> c, evictions |-> gone]]

\* Seeded bug: no lookup by hash.
InsertWithoutDedup(st, c, now) ==
  IF ~OwnsLock THEN NoOp(st) ELSE InsertNew(st, c, now)

InsertToMemory(st, c, now) ==
  IF ~OwnsLock THEN NoOp(st)
  ELSE IF Hash[c] \in DOMAIN st.hashs THEN Refresh(st, st.hashs[Hash[c]], now)
  ELSE InsertNew(st, c, now)

\* The memory part of delete, shared by delete_from_memory and update_content.
Remove(st, id) ==
  LET left == Unindex(st, {id})
  IN  IF IsFavorite(st, id) THEN FavRemove(left, id) ELSE left

DeleteFromMemory(st, id) ==
  IF id \in DOMAIN st.entries
    THEN [db |-> Search(Remove(st, id)), op |-> [type |-> "Delete", id |-> id]]
    ELSE NoOp(st)

\* Seeded bug: the cached search result is not refreshed.
ClearWithoutSearch(st) ==
  [db |-> Unindex(st, {id \in DOMAIN st.entries : id \notin st.favSet}),
   op |-> [type |-> "ClearNonFavorites"]]

ClearMemory(st) ==
  [db |-> Search(Unindex(st, {id \in DOMAIN st.entries : id \notin st.favSet})),
   op |-> [type |-> "ClearNonFavorites"]]

\* Seeded bug: the two fields are swapped.
MarkSwapped(st, id, fav, title) ==
  IF id \in DOMAIN st.entries
    THEN [st EXCEPT !.entries[id].is_favorite = title,
                    !.entries[id].favorite_title = fav]
    ELSE st

\* A change to a live entry's favorite fields, nothing when it is gone.
Mark(st, id, fav, title) ==
  IF id \in DOMAIN st.entries
    THEN [st EXCEPT !.entries[id].is_favorite = fav,
                    !.entries[id].favorite_title = title]
    ELSE st

\* add_favorite_to_memory; the program always passes index = None.
AddFavoriteToMemory(st, id) ==
  [db |-> Mark(FavPush(st, id), id, TRUE, None),
   op |-> [type |-> "AddFavorite", id |-> id, position |-> Len(st.favs)]]

RemoveFavoriteFromMemory(st, id) ==
  [db |-> Mark(FavRemove(st, id), id, FALSE, None),
   op |-> [type |-> "RemoveFavorite", id |-> id, old_position |-> FavPosition(st, id)]]

\* Seeded bug: the entry's own title is not set.
TitleOnlyInList(st, id, title) ==
  [db |-> [st EXCEPT !.titles = Put(@, id, title)],
   op |-> [type |-> "SetFavoriteTitle", id |-> id, title |-> title]]

SetFavoriteTitleInMemory(st, id, title) ==
  LET listed == [st EXCEPT !.titles = Put(@, id, title)]
  IN  [db |-> IF id \in DOMAIN st.entries
                THEN [listed EXCEPT !.entries[id].favorite_title = title]
                ELSE listed,
       op |-> [type |-> "SetFavoriteTitle", id |-> id, title |-> title]]

\* The content belongs to another entry: an update would duplicate it.
TakenByOther(st, id, c) ==
  Hash[c] \in DOMAIN st.hashs /\ st.hashs[Hash[c]] # id

\* hashs after entry id takes content c; an id without entry is hashed too.
Rehash(st, id, c) ==
  Put(IF id \in DOMAIN st.entries
        THEN Drop(st.hashs, {Hash[st.entries[id].content]})
        ELSE st.hashs,
      Hash[c], id)

UpdateContentInMemory(st, id, c, now) ==
  LET rehashed == [st EXCEPT !.hashs = Rehash(st, id, c)]
  IN  IF TakenByOther(st, id, c) THEN NoOp(st)
      ELSE [db |-> Search(IF id \in DOMAIN st.entries
                            THEN [Bump(rehashed, id, now) EXCEPT !.entries[id].content = c]
                            ELSE rehashed),
            op |-> [type |-> "UpdateContent", id |-> id, data |-> c, new_time |-> now]]

\* update_content when the content is TakenByOther (the app calls it only
\* then): drop the edited entry and refresh the one that has the content.  Its
\* two SQL statements are taken to succeed: Persistence lets them fail.
MergeIntoOther(st, id, c, now) ==
  LET other == st.hashs[Hash[c]]
      left == IF id \in DOMAIN st.entries THEN Remove(st, id) ELSE st
  IN  IF other \in DOMAIN left.entries THEN Search(Bump(left, other, now)) ELSE Panic(left)
=============================================================================
