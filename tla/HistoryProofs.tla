---------------------------- MODULE HistoryProofs ----------------------------
(***************************************************************************)
(* Proofs about ClipboardStore and about ListView, which extends it, for   *)
(* every set of contents, titles and queries, every limit, and every race  *)
(* of the handlers: handler by handler, from what StoreOpsProofs says of   *)
(* the operations they call.                                               *)
(*                                                                         *)
(* The list drives the store through the store's own operations, so what   *)
(* is proved of ClipboardStore holds under the list too; that an AI's      *)
(* answer never replaces typed text follows from AnswersInv, which says    *)
(* which answers may still come for the entry whose title is entered.      *)
(* That the list and the cached result of a search show what they should   *)
(* follows from reading the listing position by position; that an arrow    *)
(* key finds the screen again, from the arithmetic of pages.               *)
(***************************************************************************)
EXTENDS ListView, StoreOpsProofs

AllTitles == Titles \cup {None}

-----------------------------------------------------------------------------
(* The specification                                                       *)

\* Two readings of the clock never return the same millisecond.
StrictClock == 0 \notin Ticks

\* The inductive invariant: TimesExact alone is not inductive, because a
\* refresh keeps the index exact only if the time it moves an entry to is
\* later than every indexed one, which the bounds in Typed say.
StoreInv == clock \in 0 .. MaxTime /\ Good(db, clock, AllTitles) /\ HashsGood(db)

\* The empty store is good.
LEMMA InitGood == Init => StoreInv
<1> SUFFICES ASSUME Init PROVE StoreInv
  OBVIOUS
<1>1. clock \in 0 .. MaxTime
  BY AppAssumption DEF Init
<1>2. Typed(db, 0, AllTitles)
  BY DEF Init, Typed, AllTitles, Fields, EmptyStore, Empty, IsMap
<1>3. TimesGood(db) /\ HashsGood(db) /\ FavsGood(db)
  BY DEF Init, EmptyStore, Empty, TimesGood, HashsGood, FavsGood
<1> QED
  BY <1>1, <1>2, <1>3 DEF Init, StoreInv, Good

\* A later reading of a strict clock.
LEMMA ReadingLater ==
  ASSUME StrictClock, clock \in 0 .. MaxTime, NEW now \in Readings
  PROVE  now \in 0 .. MaxTime /\ now \in Nat /\ clock \in Nat /\ clock < now
<1>1. PICK d \in Ticks : now = clock + d
  BY DEF Readings
<1>2. d \in Nat /\ d # 0 /\ MaxTime \in Nat /\ now <= MaxTime
  BY AppAssumption DEF Readings, StrictClock
<1> QED
  BY <1>1, <1>2

\* Every handler keeps the invariant.
LEMMA NextKeepsGood ==
  ASSUME StrictClock, StoreInv, [Next]_vars
  PROVE  StoreInv'
<1>1. clock \in 0 .. MaxTime /\ clock \in Nat /\ Good(db, clock, AllTitles) /\ HashsGood(db)
  BY AppAssumption DEF StoreInv
<1>2. CASE UNCHANGED vars
  BY <1>2 DEF vars, StoreInv
<1>3. ASSUME NEW c \in Content, ClipboardData(c)
      PROVE  StoreInv'
  <2>1. PICK now \in Readings : db' = InsertToMemory(db, c, now).db /\ clock' = now
    BY <1>3 DEF ClipboardData
  <2>2. now \in 0 .. MaxTime /\ now \in Nat /\ clock < now
    BY <1>1, ReadingLater
  <2>3. /\ Good(InsertToMemory(db, c, now).db, now, AllTitles)
        /\ HashsGood(InsertToMemory(db, c, now).db)
    BY <1>1, <2>2, InsertKeepsGood
  <2> QED
    BY <2>1, <2>2, <2>3 DEF StoreInv
<1>4. ASSUME NEW c \in Content, SelectionToFavorite(c)
      PROVE  StoreInv'
  <2>1. PICK now \in Readings :
          LET r == InsertToMemory(db, c, now)
              id == NewestId(r.db)
          IN  /\ db' = IF r.op = None \/ id = None THEN r.db
                       ELSE AddFavoriteToMemory(r.db, id).db
              /\ clock' = now
    BY <1>4 DEF SelectionToFavorite
  <2> DEFINE new == InsertToMemory(db, c, now).db
  <2>2. now \in 0 .. MaxTime /\ now \in Nat /\ clock < now
    BY <1>1, ReadingLater
  <2>3. Good(new, now, AllTitles) /\ HashsGood(new)
    BY <1>1, <2>2, InsertKeepsGood
  <2>4. \/ db' = new
        \/ NewestId(new) # None /\ db' = AddFavoriteToMemory(new, NewestId(new)).db
    BY <2>1
  <2> HIDE DEF new
  <2>5. Good(db', now, AllTitles) /\ HashsGood(db')
    BY <2>2, <2>3, <2>4, StarNewestKeepsGood
  <2> QED
    BY <2>1, <2>2, <2>5 DEF StoreInv
<1>5. ASSUME NEW id \in Ids, NEW c \in Content, EditorUpdates(id, c)
      PROVE  StoreInv'
  <2>1. PICK now \in Readings :
          /\ db' = IF TakenByOther(db, id, c)
                     THEN MergeIntoOther(db, id, c, now)
                     ELSE UpdateContentInMemory(db, id, c, now).db
          /\ clock' = now
    BY <1>5 DEF EditorUpdates
  <2>2. now \in 0 .. MaxTime /\ now \in Nat /\ clock < now /\ id \in 1 .. clock
    BY <1>1, ReadingLater DEF Ids
  <2>3. CASE TakenByOther(db, id, c)
    BY <1>1, <2>1, <2>2, <2>3, MergeKeepsGood DEF StoreInv
  <2>4. CASE ~TakenByOther(db, id, c)
    BY <1>1, <2>1, <2>2, <2>4, UpdateKeepsGood DEF StoreInv
  <2> QED
    BY <2>3, <2>4
<1>6. ASSUME NEW id \in Ids, DeleteEntry(id)
      PROVE  StoreInv'
  BY <1>1, <1>6, DeleteKeepsGood DEF DeleteEntry, StoreInv
<1>7. ASSUME NEW id \in Ids, RemoveFavorite(id)
      PROVE  StoreInv'
  BY <1>1, <1>7, RemoveFavoriteKeepsGood DEF RemoveFavorite, StoreInv
<1>8. ASSUME NEW id \in Ids, NEW title \in Titles \cup {None}, ConfirmFavorite(id, title)
      PROVE  StoreInv'
  <2> DEFINE starred == IF IsFavorite(db, id) THEN db ELSE AddFavoriteToMemory(db, id).db
  <2>1. id \in 1 .. clock
    BY DEF Ids
  <2>2. Good(starred, clock, AllTitles) /\ HashsGood(starred)
    BY <1>1, <2>1, AddFavoriteKeepsGood
  <2>3. db' = SetFavoriteTitleInMemory(starred, id, title).db /\ clock' = clock
    BY <1>8 DEF ConfirmFavorite
  <2> HIDE DEF starred
  <2>4. Good(db', clock, AllTitles) /\ HashsGood(db')
    BY <1>1, <2>1, <2>2, <2>3, SetTitleKeepsGood DEF AllTitles
  <2> QED
    BY <1>1, <2>3, <2>4 DEF StoreInv
<1>9. ASSUME NEW id \in Ids, NEW title \in Titles \cup {None}, SetFavoriteTitle(id, title)
      PROVE  StoreInv'
  BY <1>1, <1>9, SetTitleKeepsGood DEF SetFavoriteTitle, StoreInv, Ids, AllTitles
<1>10. ASSUME NEW q \in Queries \cup {None}, SearchFor(q)
       PROVE  StoreInv'
  BY <1>1, <1>10, SetQueryKeepsGood DEF SearchFor, StoreInv
<1>11. CASE ClearHistory
  BY <1>1, <1>11, ClearKeepsGood DEF ClearHistory, StoreInv
<1>12. CASE WalkList
  BY <1>1, <1>12, PanicKeepsGood DEF WalkList, StoreInv
<1> QED
  BY <1>2, <1>3, <1>4, <1>5, <1>6, <1>7, <1>8, <1>9, <1>10, <1>11, <1>12
     DEF Next, EditorSavesNew

\* Under a strict clock the invariant always holds.
LEMMA StoreInvHolds == ASSUME StrictClock PROVE Spec => []StoreInv
<1>1. Init => StoreInv
  BY InitGood
<1>2. StoreInv /\ [Next]_vars => StoreInv'
  BY NextKeepsGood
<1> QED
  BY <1>1, <1>2, PTL DEF Spec

\* The maps of the store have their types, in every interleaving of handlers
\* and whatever entries the ids they carry name.
THEOREM IndexTypeOKHolds == ASSUME StrictClock PROVE Spec => []IndexTypeOK
<1>1. StoreInv => IndexTypeOK
  BY DEF StoreInv, Good, Typed, IndexTypeOK, Ids, Entry, EntryUpTo, Fields, AllTitles
<1> QED
  BY <1>1, StoreInvHolds, PTL

\* The time index lists each entry exactly once, at its creation: the assert!
\* of the refresh and the eviction loop can rely on it whatever was edited,
\* merged, evicted or cleared before.
THEOREM TimesExactHolds == ASSUME StrictClock PROVE Spec => []TimesExact
<1>1. StoreInv => TimesExact
  BY DEF StoreInv, Good, TimesGood, TimesExact, Live
<1> QED
  BY <1>1, StoreInvHolds, PTL

\* The dedup lookup finds every entry by its content, so no two entries ever
\* hold the same text.
THEOREM HashFindsEntryHolds == ASSUME StrictClock PROVE Spec => []HashFindsEntry
<1>1. StoreInv => HashFindsEntry
  BY DEF StoreInv, Good, HashsGood, HashFindsEntry, Live
<1> QED
  BY <1>1, StoreInvHolds, PTL

\* An entry's own favorite fields and the Favorites list that eviction and
\* Clear consult agree, even after edits and titles of entries that are gone.
THEOREM FavoritesAgreeHolds == ASSUME StrictClock PROVE Spec => []FavoritesAgree
<1>1. StoreInv => FavoritesAgree
  BY DEF StoreInv, Good, FavsGood, FavoritesAgree, Live
<1> QED
  BY <1>1, StoreInvHolds, PTL

\* The indexes agree with each other in every interleaving of the handlers and
\* whatever entries the ids they carry name: the three theorems together.
THEOREM IndexesAgreeHolds == ASSUME StrictClock PROVE Spec => []IndexesAgree
  BY TimesExactHolds, HashFindsEntryHolds, FavoritesAgreeHolds, PTL DEF IndexesAgree

-----------------------------------------------------------------------------
(* Nothing dies                                                            *)

\* NoPanic alone is not inductive: that no step dies rests on what Sound says
\* of the hashes and the favorites, and on the exact indexes of StoreInv.
SafeInv == StoreInv /\ Sound(db)

\* The ids that edits and confirmed titles carry are live, and no selection is
\* starred whose text is a favorite already.
LiveIds == ~StaleEdits /\ ~StaleConfirms /\ ~Refavorites

LEMMA InitSound ==
  ASSUME Init
  PROVE  Sound(db)
<1>1. db.favs = << >> /\ db.favSet = {} /\ ~db.panicked /\ DOMAIN db.hashs = {}
  BY DEF Init, EmptyStore, Empty
<1>2. DOMAIN db.favs = {} /\ Range(db.favs) = {}
  BY <1>1 DEF Range
<1> QED
  BY <1>1, <1>2 DEF Sound, HashsLive, FavsLive, OnceEach

\* Every handler keeps the store sound.
LEMMA NextKeepsSound ==
  ASSUME LiveIds, StrictClock, SafeInv, [Next]_vars
  PROVE  Sound(db)'
<1>1. clock \in 0 .. MaxTime /\ clock \in Nat /\ Good(db, clock, AllTitles) /\ Sound(db)
  BY AppAssumption DEF StoreInv, SafeInv
<1>2. CASE UNCHANGED vars
  BY <1>1, <1>2 DEF vars
<1>3. ASSUME NEW c \in Content, ClipboardData(c)
      PROVE  Sound(db')
  <2>1. PICK now \in Readings : db' = InsertToMemory(db, c, now).db
    BY <1>3 DEF ClipboardData
  <2>2. now \in Nat /\ clock < now
    BY <1>1, ReadingLater
  <2> QED
    BY <1>1, <2>1, <2>2, InsertKeepsSound
<1>4. ASSUME NEW c \in Content, SelectionToFavorite(c)
      PROVE  Sound(db')
  <2>1. PICK now \in Readings :
          LET r == InsertToMemory(db, c, now)
              id == NewestId(r.db)
          IN  /\ id \notin db.favSet
              /\ db' = IF r.op = None \/ id = None THEN r.db
                       ELSE AddFavoriteToMemory(r.db, id).db
    BY <1>4 DEF SelectionToFavorite, LiveIds
  <2> DEFINE new == InsertToMemory(db, c, now).db
  <2>2. now \in Nat /\ clock < now
    BY <1>1, ReadingLater
  <2>3. Good(new, now, AllTitles) /\ Sound(new) /\ new.favSet = db.favSet
    BY <1>1, <2>2, InsertKeepsGood, InsertKeepsSound DEF Sound
  <2>4. \/ db' = new
        \/ /\ NewestId(new) # None /\ NewestId(new) \notin new.favSet
           /\ db' = AddFavoriteToMemory(new, NewestId(new)).db
    BY <2>1, <2>3
  <2> HIDE DEF new
  <2>5. NewestId(new) # None => NewestId(new) \in DOMAIN new.entries
    BY <2>2, <2>3, NewestIdLive
  <2> QED
    BY <2>2, <2>3, <2>4, <2>5, AddFavoriteKeepsSound
<1>5. ASSUME NEW id \in Ids, NEW c \in Content, EditorUpdates(id, c)
      PROVE  Sound(db')
  <2>1. PICK now \in Readings :
          db' = IF TakenByOther(db, id, c)
                  THEN MergeIntoOther(db, id, c, now)
                  ELSE UpdateContentInMemory(db, id, c, now).db
    BY <1>5 DEF EditorUpdates
  <2>2. now \in Nat /\ clock < now /\ id \in DOMAIN db.entries
    BY <1>1, <1>5, ReadingLater DEF EditorUpdates, LiveIds, Live
  <2>3. CASE TakenByOther(db, id, c)
    BY <1>1, <2>1, <2>2, <2>3, MergeKeepsSound DEF Sound
  <2>4. CASE ~TakenByOther(db, id, c)
    BY <1>1, <2>1, <2>2, <2>4, UpdateKeepsSound
  <2> QED
    BY <2>3, <2>4
<1>6. ASSUME NEW id \in Ids, DeleteEntry(id)
      PROVE  Sound(db')
  BY <1>1, <1>6, DeleteKeepsSound DEF DeleteEntry
<1>7. ASSUME NEW id \in Ids, RemoveFavorite(id)
      PROVE  Sound(db')
  BY <1>1, <1>7, RemoveFavoriteKeepsSound DEF RemoveFavorite
<1>8. ASSUME NEW id \in Ids, NEW title \in Titles \cup {None}, ConfirmFavorite(id, title)
      PROVE  Sound(db')
  <2> DEFINE starred == IF IsFavorite(db, id) THEN db ELSE AddFavoriteToMemory(db, id).db
  <2>1. id \in DOMAIN db.entries /\ id \in 1 .. clock
    BY <1>8 DEF ConfirmFavorite, LiveIds, Live, Ids
  <2>2. ~IsFavorite(db, id) => id \notin db.favSet
    BY <1>1, <2>1 DEF IsFavorite, Good, FavsGood
  <2>3. Good(starred, clock, AllTitles) /\ Sound(starred)
    BY <1>1, <2>1, <2>2, AddFavoriteKeepsGood, AddFavoriteKeepsSound
  <2>4. db' = SetFavoriteTitleInMemory(starred, id, title).db
    BY <1>8 DEF ConfirmFavorite
  <2> HIDE DEF starred
  <2> QED
    BY <1>1, <2>3, <2>4, SetTitleKeepsSound
<1>9. ASSUME NEW id \in Ids, NEW title \in Titles \cup {None}, SetFavoriteTitle(id, title)
      PROVE  Sound(db')
  BY <1>1, <1>9, SetTitleKeepsSound DEF SetFavoriteTitle
<1>10. ASSUME NEW q \in Queries \cup {None}, SearchFor(q)
       PROVE  Sound(db')
  BY <1>1, <1>10, SetQueryKeepsSound DEF SearchFor
<1>11. CASE ClearHistory
  BY <1>1, <1>11, ClearKeepsSound DEF ClearHistory
<1>12. ~WalkList
  BY <1>1, SoundWalk DEF WalkList, Sound
<1> QED
  BY <1>2, <1>3, <1>4, <1>5, <1>6, <1>7, <1>8, <1>9, <1>10, <1>11, <1>12
     DEF Next, EditorSavesNew

\* No handler meets a missing key, a failed unwrap or a failed assert!, as long
\* as ids are live and the clock is strict: for every limit, every set of
\* contents that may share hashes, and any number of steps.
THEOREM NoPanicHolds ==
  ASSUME LiveIds, StrictClock
  PROVE  Spec => []NoPanic
<1>1. Init => SafeInv
  BY InitGood, InitSound DEF SafeInv
<1>2. SafeInv /\ [Next]_vars => SafeInv'
  BY NextKeepsGood, NextKeepsSound DEF SafeInv
<1>3. SafeInv => NoPanic
  BY DEF SafeInv, Sound, NoPanic
<1> QED
  BY <1>1, <1>2, <1>3, PTL DEF Spec

-----------------------------------------------------------------------------
(* What the list and the search show                                       *)

\* A handler searches for something else, or leaves the contents and the query
\* as they are up to a new search, in one or two operations.
LEMMA NextUpToSearch ==
  ASSUME StrictClock, StoreInv, Next
  PROVE  /\ clock \in Nat /\ clock' \in Nat /\ clock <= clock'
         /\ \/ \E q \in Queries \cup {None} : db' = SetQueryAndSearch(db, q)
            \/ \E mid : /\ Good(mid, clock', AllTitles)
                        /\ UpToSearch(db, mid) /\ UpToSearch(mid, db')
                        /\ LiveIds /\ Sound(db) => Sound(mid)
<1> DEFINE Goal == /\ clock \in Nat /\ clock' \in Nat /\ clock <= clock'
                   /\ \/ \E q \in Queries \cup {None} : db' = SetQueryAndSearch(db, q)
                      \/ \E mid : /\ Good(mid, clock', AllTitles)
                                  /\ UpToSearch(db, mid) /\ UpToSearch(mid, db')
                                  /\ LiveIds /\ Sound(db) => Sound(mid)
<1>1. /\ clock \in 0 .. MaxTime /\ clock \in Nat /\ Good(db, clock, AllTitles)
      /\ DOMAIN db = Fields
  BY AppAssumption DEF StoreInv, Good, Typed
<1>2. UpToSearch(db, db)
  BY DEF UpToSearch, SameContents
<1>3. ASSUME clock' \in Nat, clock <= clock', UpToSearch(db, db')
      PROVE  Goal
  BY <1>1, <1>2, <1>3, GoodLater
<1>4. ASSUME NEW c \in Content, ClipboardData(c)
      PROVE  Goal
  <2>1. PICK now \in Readings : db' = InsertToMemory(db, c, now).db /\ clock' = now
    BY <1>4 DEF ClipboardData
  <2>2. now \in Nat /\ clock < now
    BY <1>1, ReadingLater
  <2>3. UpToSearch(db, db')
    BY <1>1, <2>1, InsertUpToSearch
  <2> HIDE DEF Goal
  <2> QED
    BY <1>1, <1>3, <2>1, <2>2, <2>3
<1>5. ASSUME NEW c \in Content, SelectionToFavorite(c)
      PROVE  Goal
  <2>1. PICK now \in Readings :
          LET r == InsertToMemory(db, c, now)
              id == NewestId(r.db)
          IN  /\ db' = r.db \/ db' = AddFavoriteToMemory(r.db, id).db
              /\ clock' = now
    BY <1>5 DEF SelectionToFavorite
  <2> DEFINE new == InsertToMemory(db, c, now).db
  <2>2. now \in Nat /\ clock < now
    BY <1>1, ReadingLater
  <2>3. Good(new, now, AllTitles) /\ UpToSearch(db, new) /\ (Sound(db) => Sound(new))
    BY <1>1, <2>2, InsertKeepsGood, InsertKeepsSound, InsertUpToSearch
  <2>4. db' = new \/ db' = AddFavoriteToMemory(new, NewestId(new)).db
    BY <2>1
  <2> HIDE DEF new
  <2>5. UpToSearch(new, new)
    BY DEF UpToSearch, SameContents
  <2>6. UpToSearch(new, AddFavoriteToMemory(new, NewestId(new)).db)
    BY <2>3, AddFavoriteUpToSearch DEF Good, Typed
  <2>7. UpToSearch(new, db')
    BY <2>4, <2>5, <2>6
  <2> QED
    BY <1>1, <2>1, <2>2, <2>3, <2>7
<1>6. ASSUME NEW id \in Ids, NEW c \in Content, EditorUpdates(id, c)
      PROVE  Goal
  <2>1. PICK now \in Readings :
          /\ db' = IF TakenByOther(db, id, c)
                     THEN MergeIntoOther(db, id, c, now)
                     ELSE UpdateContentInMemory(db, id, c, now).db
          /\ clock' = now
    BY <1>6 DEF EditorUpdates
  <2>2. now \in Nat /\ clock < now
    BY <1>1, ReadingLater
  <2>3. UpToSearch(db, db')
    BY <1>1, <2>1, MergeUpToSearch, UpdateUpToSearch
  <2> HIDE DEF Goal
  <2> QED
    BY <1>1, <1>3, <2>1, <2>2, <2>3
<1>7. ASSUME NEW id \in Ids, DeleteEntry(id)
      PROVE  Goal
  <2>1. UpToSearch(db, db') /\ clock' = clock
    BY <1>1, <1>7, DeleteUpToSearch DEF DeleteEntry
  <2> HIDE DEF Goal
  <2> QED
    BY <1>1, <1>3, <2>1
<1>8. ASSUME NEW id \in Ids, RemoveFavorite(id)
      PROVE  Goal
  <2>1. UpToSearch(db, db') /\ clock' = clock
    BY <1>1, <1>8, RemoveFavoriteUpToSearch DEF RemoveFavorite
  <2> HIDE DEF Goal
  <2> QED
    BY <1>1, <1>3, <2>1
<1>9. ASSUME NEW id \in Ids, NEW title \in Titles \cup {None}, ConfirmFavorite(id, title)
      PROVE  Goal
  <2> DEFINE starred == IF IsFavorite(db, id) THEN db ELSE AddFavoriteToMemory(db, id).db
  <2>1. id \in 1 .. clock /\ (LiveIds => id \in DOMAIN db.entries)
    BY <1>9 DEF ConfirmFavorite, LiveIds, Live, Ids
  <2>2. id \in DOMAIN db.entries /\ ~IsFavorite(db, id) => id \notin db.favSet
    BY <1>1 DEF IsFavorite, Good, FavsGood
  <2>3. Good(starred, clock, AllTitles)
    BY <1>1, <2>1, AddFavoriteKeepsGood
  <2>4. LiveIds /\ Sound(db) => Sound(starred)
    BY <1>1, <2>1, <2>2, AddFavoriteKeepsSound
  <2>5. UpToSearch(db, starred)
    BY <1>1, <1>2, AddFavoriteUpToSearch
  <2>6. db' = SetFavoriteTitleInMemory(starred, id, title).db /\ clock' = clock
    BY <1>9 DEF ConfirmFavorite
  <2> HIDE DEF starred
  <2>7. UpToSearch(starred, db')
    BY <2>3, <2>6, SetTitleUpToSearch DEF Good, Typed
  <2> QED
    BY <1>1, <2>3, <2>4, <2>5, <2>6, <2>7
<1>10. ASSUME NEW id \in Ids, NEW title \in Titles \cup {None}, SetFavoriteTitle(id, title)
       PROVE  Goal
  <2>1. UpToSearch(db, db') /\ clock' = clock
    BY <1>1, <1>10, SetTitleUpToSearch DEF SetFavoriteTitle
  <2> HIDE DEF Goal
  <2> QED
    BY <1>1, <1>3, <2>1
<1>11. ASSUME NEW q \in Queries \cup {None}, SearchFor(q)
       PROVE  Goal
  BY <1>1, <1>11 DEF SearchFor
<1>12. ASSUME ClearHistory
       PROVE  Goal
  <2>1. UpToSearch(db, db') /\ clock' = clock
    BY <1>1, <1>12, ClearUpToSearch DEF ClearHistory
  <2> HIDE DEF Goal
  <2> QED
    BY <1>1, <1>3, <2>1
<1>13. ASSUME WalkList
       PROVE  Goal
  <2>1. db' = Panic(db) /\ clock' = clock
    BY <1>13 DEF WalkList
  <2>2. Panic(db).query = db.query /\ Panic(db).filtered = db.filtered /\ Panic(db).panicked = TRUE
    BY <1>1 DEF Panic, Fields
  <2>3. UpToSearch(db, db')
    BY <2>1, <2>2 DEF UpToSearch, SameContents
  <2> HIDE DEF Goal
  <2> QED
    BY <1>1, <1>3, <2>1, <2>3
<1> HIDE DEF Goal
<1>14. Goal
  BY <1>4, <1>5, <1>6, <1>7, <1>8, <1>9, <1>10, <1>11, <1>12, <1>13 DEF Next, EditorSavesNew
<1> QED
  BY <1>14 DEF Goal

\* A query set on a good store is answered on one.
LEMMA SetQuerySearches ==
  ASSUME NEW st, NEW n \in Nat, NEW Title, Good(st, n, Title), NEW q, NEW new,
         new = SetQueryAndSearch(st, q)
  PROVE  \E x : /\ DOMAIN x = Fields /\ x.query = q /\ x.filtered = st.filtered
                /\ x.panicked = st.panicked /\ new = Search(x)
<1> DEFINE x == [st EXCEPT !.query = q]
<1>1. /\ DOMAIN x = Fields /\ x.query = q /\ x.filtered = st.filtered
      /\ x.panicked = st.panicked
  BY DEF Good, Typed, Fields
<1>2. new = Search(x)
  BY DEF SetQueryAndSearch
<1> HIDE DEF x
<1> QED
  BY <1>1, <1>2

\* The query and its result keep their types.
LEMMA NextKeepsAnswered ==
  ASSUME StrictClock, StoreInv, Answered(db, clock, Queries), [Next]_vars
  PROVE  Answered(db, clock, Queries)'
<1>1. CASE UNCHANGED vars
  BY <1>1 DEF vars
<1>2. CASE Next
  <2>1. /\ clock \in Nat /\ clock' \in Nat /\ clock <= clock'
        /\ \/ \E q \in Queries \cup {None} : db' = SetQueryAndSearch(db, q)
           \/ \E mid : /\ Good(mid, clock', AllTitles)
                       /\ UpToSearch(db, mid) /\ UpToSearch(mid, db')
    BY <1>2, NextUpToSearch
  <2>2. Good(db', clock', AllTitles) /\ Good(db, clock, AllTitles)
    <3>1. StoreInv'
      BY NextKeepsGood
    <3> QED
      BY <3>1 DEF StoreInv
  <2>3. ASSUME NEW q \in Queries \cup {None}, db' = SetQueryAndSearch(db, q)
        PROVE  Answered(db', clock', Queries)
    <3>1. PICK x : /\ DOMAIN x = Fields /\ x.query = q /\ x.filtered = db.filtered
                   /\ x.panicked = db.panicked /\ db' = Search(x)
      BY <2>1, <2>2, <2>3, SetQuerySearches
    <3>2. Answered(x, clock, Queries)
      BY <3>1 DEF Answered
    <3> QED
      BY <2>1, <2>2, <3>1, <3>2, SearchAnswers
  <2>4. ASSUME NEW mid, Good(mid, clock', AllTitles), UpToSearch(db, mid), UpToSearch(mid, db')
        PROVE  Answered(db', clock', Queries)
    <3>1. Answered(mid, clock', Queries)
      BY <2>1, <2>4, AnsweredKept
    <3> QED
      BY <2>1, <2>2, <2>4, <3>1, AnsweredKept
  <2> QED
    BY <2>1, <2>3, <2>4
<1> QED
  BY <1>1, <1>2

\* Every field of DbSqlite keeps its type, in every interleaving of handlers.
THEOREM TypeOKHolds == ASSUME StrictClock PROVE Spec => []TypeOK
<1>1. Init => StoreInv /\ Answered(db, clock, Queries)
  BY InitGood DEF Init, EmptyStore, Answered
<1>2. StoreInv /\ Answered(db, clock, Queries) /\ [Next]_vars
        => StoreInv' /\ Answered(db, clock, Queries)'
  BY NextKeepsGood, NextKeepsAnswered
<1>3. StoreInv /\ Answered(db, clock, Queries) => TypeOK
  <2>1. StoreInv => IndexTypeOK
    BY DEF StoreInv, Good, Typed, IndexTypeOK, Ids, Entry, EntryUpTo, Fields, AllTitles
  <2> QED
    BY <2>1 DEF TypeOK, Answered, Ids
<1> QED
  BY <1>1, <1>2, <1>3, PTL DEF Spec

\* A search stays fresh.
LEMMA NextKeepsFresh ==
  ASSUME LiveIds, StrictClock, SafeInv, Fresh(db), [Next]_vars
  PROVE  Fresh(db')
<1>1. CASE UNCHANGED vars
  BY <1>1 DEF vars
<1>2. CASE Next
  <2>1. /\ clock \in Nat /\ clock' \in Nat
        /\ \/ \E q \in Queries \cup {None} : db' = SetQueryAndSearch(db, q)
           \/ \E mid : /\ Good(mid, clock', AllTitles)
                       /\ UpToSearch(db, mid) /\ UpToSearch(mid, db')
                       /\ Sound(mid)
    BY <1>2, NextUpToSearch DEF SafeInv
  <2>2. Good(db', clock', AllTitles) /\ Good(db, clock, AllTitles) /\ Sound(db')
    <3>1. StoreInv' /\ Sound(db)'
      BY NextKeepsGood, NextKeepsSound DEF SafeInv
    <3> QED
      BY <3>1 DEF StoreInv, SafeInv
  <2>3. ASSUME NEW q, db' = SetQueryAndSearch(db, q)
        PROVE  Fresh(db')
    <3>1. PICK x : DOMAIN x = Fields /\ db' = Search(x)
      BY <2>1, <2>2, <2>3, SetQuerySearches
    <3> QED
      BY <2>1, <2>2, <3>1, SearchFreshens
  <2>4. ASSUME NEW mid, Good(mid, clock', AllTitles), UpToSearch(db, mid), UpToSearch(mid, db'),
               Sound(mid)
        PROVE  Fresh(db')
    <3>1. Fresh(mid)
      BY <2>1, <2>4, FreshKept
    <3> QED
      BY <2>1, <2>2, <2>4, <3>1, FreshKept
  <2> QED
    BY <2>1, <2>3, <2>4
<1> QED
  BY <1>1, <1>2

\* In a sound store a fresh search and the list show what is there.
LEMMA ShownIsLive ==
  ASSUME SafeInv, Fresh(db), Answered(db, clock, Queries)
  PROVE  ListShown
<1>1. clock \in Nat /\ Good(db, clock, AllTitles) /\ FavsLive(db)
  BY AppAssumption DEF SafeInv, StoreInv, Sound
<1>2. ListedOnce
  BY <1>1, SoundWalk, IterLists DEF ListedOnce, Live
<1>3. SearchFresh
  <2>1. OnceEach(db.filtered) => Len(db.filtered) = Cardinality(Range(db.filtered))
    BY LengthOnce DEF Answered
  <2> QED
    BY <2>1 DEF Fresh, SearchFresh, Live
<1> QED
  BY <1>2, <1>3 DEF ListShown

\* The list shows every entry exactly once, and the cached search exactly the
\* entries that match, whatever was inserted, edited, evicted or deleted since:
\* for every limit, every set of contents and queries and any number of steps, as
\* long as ids are live and the clock is strict.
THEOREM ListShownHolds ==
  ASSUME LiveIds, StrictClock
  PROVE  Spec => []ListShown
<1> DEFINE Inv == SafeInv /\ Fresh(db) /\ Answered(db, clock, Queries)
<1>1. Init => Inv
  <2>1. Init => Fresh(db) /\ Answered(db, clock, Queries)
    BY DEF Init, EmptyStore, Fresh, Answered
  <2> QED
    BY <2>1, InitGood, InitSound DEF SafeInv
<1>2. Inv /\ [Next]_vars => Inv'
  <2> SUFFICES ASSUME Inv, [Next]_vars
               PROVE  Inv'
    OBVIOUS
  <2>1. StoreInv' /\ Sound(db)' /\ Answered(db, clock, Queries)'
    BY NextKeepsGood, NextKeepsSound, NextKeepsAnswered DEF SafeInv
  <2>2. Fresh(db')
    BY NextKeepsFresh
  <2> QED
    BY <2>1, <2>2 DEF SafeInv
<1>3. Inv => ListShown
  BY ShownIsLive
<1> QED
  BY <1>1, <1>2, <1>3, PTL DEF Spec

-----------------------------------------------------------------------------
(* Favorites stay                                                          *)

\* Confirming a title stars the entry and leaves the others there.
LEMMA StarringKeeps ==
  ASSUME clock \in Nat, Good(db, clock, AllTitles), NEW x \in Ids
  PROVE  LET starred == IF IsFavorite(db, x) THEN db ELSE AddFavoriteToMemory(db, x).db
         IN  Good(starred, clock, AllTitles) /\ DOMAIN starred.entries = DOMAIN db.entries
<1>1. Good(AddFavoriteToMemory(db, x).db, clock, AllTitles)
  BY AddFavoriteKeepsGood DEF Ids
<1>2. DOMAIN AddFavoriteToMemory(db, x).db.entries = DOMAIN db.entries
  <2>1. DOMAIN db = Fields
    BY DEF Good, Typed
  <2> QED
    BY <2>1, TitlesKeepEntries
<1> QED
  BY <1>1, <1>2

\* A favorite that goes was deleted, or edited.
LEMMA FavoriteGoes ==
  ASSUME StrictClock, StoreInv, [Next]_vars,
         NEW id \in Live \ Live', db.entries[id].is_favorite
  PROVE  DeleteEntry(id) \/ \E c \in Content : EditorUpdates(id, c)
<1>1. /\ clock \in 0 .. MaxTime /\ clock \in Nat /\ Good(db, clock, AllTitles)
      /\ id \in DOMAIN db.entries \ DOMAIN db'.entries
  BY AppAssumption DEF StoreInv, Live
<1>2. ~UNCHANGED vars
  BY <1>1 DEF vars
<1>3. ASSUME NEW c \in Content, ClipboardData(c)
      PROVE  FALSE
  <2>1. PICK now \in Readings : db' = InsertToMemory(db, c, now).db
    BY <1>3 DEF ClipboardData
  <2>2. now \in Nat /\ clock < now
    BY <1>1, ReadingLater
  <2>3. KeepsFavorites(db, db')
    BY <1>1, <2>1, <2>2, InsertKeepsFavorites
  <2> QED
    BY <1>1, <2>3 DEF KeepsFavorites
<1>4. ASSUME NEW c \in Content, SelectionToFavorite(c)
      PROVE  FALSE
  <2>1. PICK now \in Readings :
          LET new == InsertToMemory(db, c, now).db
          IN  db' = new \/ db' = AddFavoriteToMemory(new, NewestId(new)).db
    BY <1>4 DEF SelectionToFavorite
  <2> DEFINE new == InsertToMemory(db, c, now).db
  <2>2. now \in Nat /\ clock < now
    BY <1>1, ReadingLater
  <2>3. Good(new, now, AllTitles) /\ KeepsFavorites(db, new)
    BY <1>1, <2>2, InsertKeepsGood, InsertKeepsFavorites
  <2>4. db' = new \/ db' = AddFavoriteToMemory(new, NewestId(new)).db
    BY <2>1
  <2> HIDE DEF new
  <2>5. DOMAIN db'.entries = DOMAIN new.entries
    BY <2>2, <2>3, <2>4, TitlesKeepEntries DEF Good, Typed
  <2> QED
    BY <1>1, <2>3, <2>5 DEF KeepsFavorites
<1>5. ASSUME NEW x \in Ids, NEW c \in Content, EditorUpdates(x, c)
      PROVE  x = id
  <2>1. PICK now \in Readings :
          db' = IF TakenByOther(db, x, c)
                  THEN MergeIntoOther(db, x, c, now)
                  ELSE UpdateContentInMemory(db, x, c, now).db
    BY <1>5 DEF EditorUpdates
  <2>2. now \in Nat /\ clock < now
    BY <1>1, ReadingLater
  <2>3. TakesOnly(db, db', x)
    BY <1>1, <2>1, <2>2, EditTakesOne
  <2> QED
    BY <1>1, <2>3 DEF TakesOnly
<1>6. ASSUME NEW x \in Ids, DeleteEntry(x)
      PROVE  x = id
  <2>1. TakesOnly(db, db', x)
    BY <1>1, <1>6, DeleteTakesOne DEF DeleteEntry
  <2> QED
    BY <1>1, <2>1 DEF TakesOnly
<1>7. ASSUME NEW x \in Ids, RemoveFavorite(x)
      PROVE  FALSE
  BY <1>1, <1>7, TitlesKeepEntries DEF RemoveFavorite, Good, Typed
<1>8. ASSUME NEW x \in Ids, NEW title \in Titles \cup {None}, ConfirmFavorite(x, title)
      PROVE  FALSE
  <2> DEFINE starred == IF IsFavorite(db, x) THEN db ELSE AddFavoriteToMemory(db, x).db
  <2>1. Good(starred, clock, AllTitles) /\ DOMAIN starred.entries = DOMAIN db.entries
    BY <1>1, StarringKeeps
  <2>2. db' = SetFavoriteTitleInMemory(starred, x, title).db
    BY <1>8 DEF ConfirmFavorite
  <2> HIDE DEF starred
  <2>3. DOMAIN starred = Fields
    BY <2>1 DEF Good, Typed
  <2>4. DOMAIN SetFavoriteTitleInMemory(starred, x, title).db.entries = DOMAIN starred.entries
    BY <2>3, TitlesKeepEntries
  <2> QED
    BY <1>1, <2>1, <2>2, <2>4
<1>9. ASSUME NEW x \in Ids, NEW title \in Titles \cup {None}, SetFavoriteTitle(x, title)
      PROVE  FALSE
  <2>1. DOMAIN db = Fields
    BY <1>1 DEF Good, Typed
  <2> QED
    BY <1>1, <1>9, <2>1, TitlesKeepEntries DEF SetFavoriteTitle
<1>10. ASSUME NEW q \in Queries \cup {None}, SearchFor(q)
       PROVE  FALSE
  <2> DEFINE new == [db EXCEPT !.query = q]
  <2>1. DOMAIN new = Fields /\ new.entries = db.entries
    BY <1>1 DEF Good, Typed, Fields
  <2>2. db' = Search(new)
    BY <1>10 DEF SearchFor, SetQueryAndSearch
  <2> HIDE DEF new
  <2>3. db'.entries = db.entries
    BY <2>1, <2>2 DEF Search, Panic, Fields
  <2> QED
    BY <1>1, <2>3
<1>11. ~ClearHistory
  BY <1>1, ClearKeepsFavorites DEF ClearHistory, KeepsFavorites
<1>12. ~WalkList
  BY <1>1 DEF WalkList, Panic, Good, Typed, Fields
<1> QED
  BY <1>2, <1>3, <1>4, <1>5, <1>6, <1>7, <1>8, <1>9, <1>10, <1>11, <1>12
     DEF Next, EditorSavesNew

\* Neither the limit nor Clear nor anything else but a deletion or an edit into
\* an existing text takes a favorite from the history, in every interleaving of
\* the handlers and whatever entries the ids they carry name.
THEOREM FavoritesKeptHolds ==
  ASSUME StrictClock
  PROVE  Spec => FavoritesKept
<1>1. StoreInv /\ [Next]_vars =>
        [\A id \in Live \ Live' :
           db.entries[id].is_favorite =>
             DeleteEntry(id) \/ \E c \in Content : EditorUpdates(id, c)]_vars
  BY FavoriteGoes
<1> QED
  BY <1>1, StoreInvHolds, PTL DEF Spec, FavoritesKept

-----------------------------------------------------------------------------
(* The limit                                                               *)

\* A copy or a starred selection keeps the limit and takes the oldest entry;
\* whatever else a handler does brings no entry.
LEMMA NextTakesOldest ==
  ASSUME StrictClock, StoreInv, Limited(db), [Next]_vars
  PROVE  Limited(db') /\ (Inserting => TakesOldest(db, db'))
<1>1. /\ clock \in 0 .. MaxTime /\ clock \in Nat /\ Good(db, clock, AllTitles)
      /\ DOMAIN db = Fields
  BY AppAssumption DEF StoreInv, Good, Typed
<1>2. ASSUME NEW new, DOMAIN new.entries \subseteq DOMAIN db.entries
      PROVE  Limited(new)
  <2>1. DOMAIN db.entries \subseteq 1 .. clock
    BY <1>1 DEF Good, Typed, IsMap
  <2>2. IsFiniteSet(DOMAIN db.entries)
    <3>1. IsFiniteSet(1 .. clock)
      BY <1>1, FS_Interval
    <3> QED
      BY <2>1, <3>1, FS_Subset
  <2>3. /\ Cardinality(DOMAIN new.entries) \in Nat /\ Cardinality(DOMAIN db.entries) \in Nat
        /\ Cardinality(DOMAIN new.entries) <= Cardinality(DOMAIN db.entries)
    BY <1>2, <2>2, FS_Subset, FS_CardinalityType
  <2> QED
    BY <2>3, StoreAssumption DEF Limited
<1>3. ASSUME NEW c \in Content, ClipboardData(c)
      PROVE  Limited(db') /\ TakesOldest(db, db')
  <2>1. PICK now \in Readings : db' = InsertToMemory(db, c, now).db
    BY <1>3 DEF ClipboardData
  <2>2. now \in Nat /\ clock < now
    BY <1>1, ReadingLater
  <2> QED
    BY <1>1, <2>1, <2>2, InsertTakesOldest
<1>4. ASSUME NEW c \in Content, SelectionToFavorite(c)
      PROVE  Limited(db') /\ TakesOldest(db, db')
  <2>1. PICK now \in Readings :
          LET new == InsertToMemory(db, c, now).db
          IN  db' = new \/ db' = AddFavoriteToMemory(new, NewestId(new)).db
    BY <1>4 DEF SelectionToFavorite
  <2> DEFINE new == InsertToMemory(db, c, now).db
  <2>2. now \in Nat /\ clock < now
    BY <1>1, ReadingLater
  <2>3. Good(new, now, AllTitles) /\ Limited(new) /\ TakesOldest(db, new)
    BY <1>1, <2>2, InsertKeepsGood, InsertTakesOldest
  <2>4. db' = new \/ db' = AddFavoriteToMemory(new, NewestId(new)).db
    BY <2>1
  <2> HIDE DEF new
  <2>5. DOMAIN db'.entries = DOMAIN new.entries
    BY <2>2, <2>3, <2>4, TitlesKeepEntries DEF Good, Typed
  <2> QED
    BY <2>3, <2>5 DEF Limited, TakesOldest
<1>5. CASE UNCHANGED vars
  <2>1. DOMAIN db'.entries = DOMAIN db.entries
    BY <1>5 DEF vars
  <2> QED
    BY <1>3, <1>4, <2>1 DEF Inserting, Limited
<1>6. ASSUME \/ \E q \in Queries \cup {None} : SearchFor(q)
             \/ \E x \in Ids, c \in Content : EditorUpdates(x, c)
             \/ \E x \in Ids : DeleteEntry(x)
             \/ \E x \in Ids : RemoveFavorite(x)
             \/ \E x \in Ids, title \in Titles \cup {None} : ConfirmFavorite(x, title)
             \/ \E x \in Ids, title \in Titles \cup {None} : SetFavoriteTitle(x, title)
             \/ ClearHistory \/ WalkList
      PROVE  DOMAIN db'.entries \subseteq DOMAIN db.entries
  <2>1. ASSUME NEW x \in Ids, NEW c \in Content, EditorUpdates(x, c)
        PROVE  DOMAIN db'.entries \subseteq DOMAIN db.entries
    <3>1. PICK now \in Readings :
            db' = IF TakenByOther(db, x, c)
                    THEN MergeIntoOther(db, x, c, now)
                    ELSE UpdateContentInMemory(db, x, c, now).db
      BY <2>1 DEF EditorUpdates
    <3>2. now \in Nat /\ clock < now
      BY <1>1, ReadingLater
    <3> QED
      BY <1>1, <3>1, <3>2, EditTakesOne DEF TakesOnly
  <2>2. ASSUME NEW x \in Ids, DeleteEntry(x)
        PROVE  DOMAIN db'.entries \subseteq DOMAIN db.entries
    BY <1>1, <2>2, DeleteTakesOne DEF DeleteEntry, TakesOnly
  <2>3. ASSUME NEW x \in Ids, RemoveFavorite(x)
        PROVE  DOMAIN db'.entries \subseteq DOMAIN db.entries
    BY <1>1, <2>3, TitlesKeepEntries DEF RemoveFavorite
  <2>4. ASSUME NEW x \in Ids, NEW title \in Titles \cup {None}, ConfirmFavorite(x, title)
        PROVE  DOMAIN db'.entries \subseteq DOMAIN db.entries
    <3> DEFINE starred == IF IsFavorite(db, x) THEN db ELSE AddFavoriteToMemory(db, x).db
    <3>1. Good(starred, clock, AllTitles) /\ DOMAIN starred.entries = DOMAIN db.entries
      BY <1>1, StarringKeeps
    <3>2. db' = SetFavoriteTitleInMemory(starred, x, title).db
      BY <2>4 DEF ConfirmFavorite
    <3> HIDE DEF starred
    <3>3. DOMAIN starred = Fields
      BY <3>1 DEF Good, Typed
    <3>4. DOMAIN SetFavoriteTitleInMemory(starred, x, title).db.entries = DOMAIN starred.entries
      BY <3>3, TitlesKeepEntries
    <3> QED
      BY <3>1, <3>2, <3>4
  <2>5. ASSUME NEW x \in Ids, NEW title \in Titles \cup {None}, SetFavoriteTitle(x, title)
        PROVE  DOMAIN db'.entries \subseteq DOMAIN db.entries
    <3>1. DOMAIN db = Fields
      BY <1>1
    <3>2. DOMAIN SetFavoriteTitleInMemory(db, x, title).db.entries = DOMAIN db.entries
      BY <3>1, TitlesKeepEntries
    <3> QED
      BY <2>5, <3>2 DEF SetFavoriteTitle
  <2>6. ASSUME NEW q \in Queries \cup {None}, SearchFor(q)
        PROVE  DOMAIN db'.entries \subseteq DOMAIN db.entries
    <3> DEFINE new == [db EXCEPT !.query = q]
    <3>1. DOMAIN new = Fields /\ new.entries = db.entries
      BY <1>1 DEF Fields
    <3>2. db' = Search(new)
      BY <2>6 DEF SearchFor, SetQueryAndSearch
    <3> HIDE DEF new
    <3> QED
      BY <3>1, <3>2, SearchEntries
  <2>7. ASSUME ClearHistory
        PROVE  DOMAIN db'.entries \subseteq DOMAIN db.entries
    <3> DEFINE ids == {id \in DOMAIN db.entries : id \notin db.favSet}
    <3>1. db' = Search(Unindex(db, ids))
      BY <2>7 DEF ClearHistory, ClearMemory
    <3>2. ids \in SUBSET DOMAIN db.entries
      OBVIOUS
    <3> HIDE DEF ids
    <3>3. Good(Unindex(db, ids), clock, AllTitles)
          /\ DOMAIN Unindex(db, ids).entries = DOMAIN db.entries \ ids
      BY <1>1, <3>2, UnindexKeepsGood
    <3> QED
      BY <3>1, <3>3, SearchEntries DEF Good, Typed
  <2>8. ASSUME WalkList
        PROVE  DOMAIN db'.entries \subseteq DOMAIN db.entries
    BY <1>1, <2>8 DEF WalkList, Panic, Fields
  <2> QED
    BY <1>6, <2>1, <2>2, <2>3, <2>4, <2>5, <2>6, <2>7, <2>8
<1>7. CASE Next
  <2>1. \/ Inserting
        \/ DOMAIN db'.entries \subseteq DOMAIN db.entries
    BY <1>6, <1>7 DEF Next, Inserting, EditorSavesNew
  <2> QED
    BY <1>2, <1>3, <1>4, <2>1 DEF Inserting
<1> QED
  BY <1>5, <1>7

\* The limit holds and its evictions are the oldest entries that are no
\* favorites, one at a time and no more than needed: for every limit, whatever
\* clears, edits, merges and stars happen between two copies, and whichever ids
\* the handlers carry, under a strict clock.
THEOREM EvictsOldestHolds ==
  ASSUME StrictClock
  PROVE  Spec => EvictsOldest
<1>1. Init => Limited(db)
  <2>1. ASSUME Init PROVE DOMAIN db.entries = {}
    BY <2>1 DEF Init, EmptyStore, Empty
  <2> QED
    BY <2>1, FS_EmptySet, StoreAssumption DEF Limited
<1>2. StoreInv /\ Limited(db) /\ [Next]_vars =>
        [Inserting =>
           /\ \A gone \in Live \ Live', kept \in Live \cap Live' :
                \/ db.entries[kept].is_favorite
                \/ db.entries[gone].creation < db.entries[kept].creation
           /\ MaxEntries # None => Cardinality(Live') <= MaxEntries
           /\ ~(Live \subseteq Live') => Cardinality(Live') = MaxEntries]_vars
  BY NextTakesOldest DEF TakesOldest, Limited, Live
<1>3. StoreInv /\ Limited(db) /\ [Next]_vars => Limited(db)'
  BY NextTakesOldest
<1> QED
  BY <1>1, <1>2, <1>3, StoreInvHolds, PTL DEF Spec, EvictsOldest

-----------------------------------------------------------------------------
(* The list                                                                *)

\* The title being entered is one for an id of the history.
TitleTyped ==
  favoriting_state # None =>
    /\ DOMAIN favoriting_state = {"entry_id", "title_input", "phase", "flow", "typed", "late"}
    /\ favoriting_state.entry_id \in Ids
    /\ favoriting_state.title_input \in Titles \cup {None}

-----------------------------------------------------------------------------
(* The list implements the store                                           *)

\* A step of the list is a step of the store or leaves it alone.
LEMMA StoreStep ==
  ASSUME StoreInv, TitleTyped, [ListNext]_listVars
  PROVE  [Next]_vars
<1>1. Live \subseteq Ids
  BY DEF StoreInv, Good, Typed, IsMap, Live, Ids
<1>2. CASE UNCHANGED listVars
  BY <1>2 DEF listVars
<1>3. CASE UNCHANGED vars
  BY <1>3
<1>4. ASSUME ~db.panicked, NEW q \in Queries \cup {None}, SearchFor(q)
      PROVE  Next
  BY <1>4 DEF Next
<1>5. ASSUME ~db.panicked, db' = SetQueryAndSearch(db, None), UNCHANGED clock
      PROVE  Next
  BY <1>4, <1>5 DEF SearchFor
<1>6. ASSUME ~db.panicked, ConfirmTitle
      PROVE  Next
  BY <1>6 DEF ConfirmTitle, CardShown, TitleTyped, Next
<1>7. ASSUME ~db.panicked, NEW c \in Content, NewCopy(c)
      PROVE  Next
  BY <1>7 DEF NewCopy, Next
<1>8. ASSUME ~db.panicked, HistoryChanges
      PROVE  Next
  BY <1>1, <1>8 DEF HistoryChanges, Next
<1>9. ASSUME ~db.panicked, Typing
      PROVE  [Next]_vars
  <2>1. ASSUME NEW key \in Keys, PressKey(key) PROVE UNCHANGED vars
    BY <2>1 DEF PressKey
  <2>2. ASSUME NEW q \in Queries \cup {None}, TypeSearch(q) PROVE Next
    BY <1>4, <1>9, <2>2 DEF TypeSearch
  <2>3. ASSUME NEW text \in Titles \cup {None}, FavoriteTitleInput(text) PROVE UNCHANGED vars
    BY <2>3 DEF FavoriteTitleInput
  <2>4. ASSUME Submit PROVE Next
    BY <1>5, <1>9, <2>4 DEF Submit, Copy, Close
  <2> QED
    BY <1>9, <2>1, <2>2, <2>3, <2>4 DEF Typing
<1>10. ASSUME ~db.panicked, Clicking
       PROVE  [Next]_vars
  <2>1. ASSUME NEW id \in Live, ClickEntry(id) PROVE Next
    BY <1>5, <1>10, <2>1 DEF ClickEntry, Copy, Close
  <2>2. ASSUME NEW id \in Live, ShowQrCode(id) \/ AddFavorite(id) PROVE UNCHANGED vars
    BY <2>2 DEF ShowQrCode, AddFavorite
  <2>3. ASSUME NextPage \/ PreviousPage \/ ToggleFavoritesFilter \/ ReturnToClipboard \/ CancelTitle
        PROVE  UNCHANGED vars
    BY <2>3 DEF NextPage, PreviousPage, ToggleFavoritesFilter, ReturnToClipboard, CancelTitle
  <2> QED
    BY <1>6, <1>10, <2>1, <2>2, <2>3 DEF Clicking
<1>11. ASSUME ~db.panicked, NEW kind \in Kinds, TogglePopup(kind)
       PROVE  [Next]_vars
  BY <1>5, <1>11 DEF TogglePopup, vars
<1>12. ASSUME ~db.panicked, ClosePopup
       PROVE  Next
  BY <1>5, <1>12 DEF ClosePopup, Close
<1>13. ASSUME ~db.panicked, Enter
       PROVE  [Next]_vars
  BY <1>5, <1>13 DEF Enter, Close, vars
<1>14. ASSUME FocusNext \/ FocusPrevious
       PROVE  UNCHANGED vars
  BY <1>14 DEF FocusNext, FocusPrevious
<1>15. ASSUME NEW id \in 1 .. clock, BeginFavorite(id)
       PROVE  UNCHANGED vars
  BY <1>15 DEF BeginFavorite
<1>16. ASSUME NEW m \in tasks, NEW suggestion \in Titles \cup {None}, TitleSuggested(m, suggestion)
       PROVE  UNCHANGED vars
  BY <1>16 DEF TitleSuggested
<1> QED
  BY <1>2, <1>7, <1>8, <1>9, <1>10, <1>11, <1>12, <1>13, <1>14, <1>15, <1>16
     DEF ListNext, Step

\* Ids are never taken back.
LEMMA IdsGrow ==
  ASSUME StoreInv, [Next]_vars
  PROVE  Ids \subseteq Ids'
<1>1. clock \in Nat
  BY AppAssumption DEF StoreInv
<1>2. \A now \in Readings : now \in Nat /\ clock <= now
  <2>1. Ticks \subseteq Nat
    BY AppAssumption
  <2> SUFFICES ASSUME NEW now \in Readings
               PROVE  now \in Nat /\ clock <= now
    OBVIOUS
  <2>2. PICK d \in Ticks : now = clock + d
    BY DEF Readings
  <2> QED
    BY <1>1, <2>1, <2>2
<1>3. clock' \in Nat /\ clock <= clock'
  BY <1>1, <1>2
     DEF Next, vars, ClipboardData, EditorSavesNew, SelectionToFavorite, EditorUpdates, DeleteEntry,
         RemoveFavorite, ConfirmFavorite, SetFavoriteTitle, SearchFor, ClearHistory, WalkList
<1> QED
  BY <1>1, <1>3 DEF Ids

\* What the user or the AI enters is a title, and for an id of the history.
LEMMA TitleTypedStep ==
  ASSUME StoreInv, TitleTyped, [ListNext]_listVars
  PROVE  TitleTyped'
<1>1. Ids \subseteq Ids'
  BY StoreStep, IdsGrow
<1>2. /\ Live \subseteq Ids
      /\ \A id \in Live : db.entries[id].favorite_title \in Titles \cup {None}
  BY DEF StoreInv, Good, Typed, IsMap, Live, Ids, EntryUpTo, AllTitles
<1>3. ASSUME favoriting_state' \in {favoriting_state, None}
      PROVE  TitleTyped'
  BY <1>1, <1>3 DEF TitleTyped
<1>4. ASSUME NEW id \in Live, AddFavorite(id)
      PROVE  TitleTyped'
  <2>1. CASE Favorite(id)
    BY <1>1, <1>2, <1>4, <2>1 DEF AddFavorite, Entering, TitleTyped
  <2>2. CASE ~Favorite(id)
    BY <1>3, <1>4, <2>2 DEF AddFavorite
  <2> QED
    BY <2>1, <2>2
<1>5. ASSUME NEW id \in 1 .. clock, BeginFavorite(id)
      PROVE  TitleTyped'
  BY <1>1, <1>5 DEF BeginFavorite, Entering, TitleTyped, Ids
<1>6. ASSUME NEW m \in tasks, NEW suggestion \in Titles \cup {None}, TitleSuggested(m, suggestion)
      PROVE  TitleTyped'
  BY <1>1, <1>6 DEF TitleSuggested, TitleTyped, Answers
<1>7. ASSUME NEW text \in Titles \cup {None}, FavoriteTitleInput(text)
      PROVE  TitleTyped'
  BY <1>1, <1>7 DEF FavoriteTitleInput, CardShown, TitleTyped
<1>8. ASSUME \/ \E key \in Keys : PressKey(key)
             \/ \E q \in Queries \cup {None} : TypeSearch(q)
             \/ \E id \in Live : ClickEntry(id) \/ ShowQrCode(id)
             \/ Submit \/ NextPage \/ PreviousPage \/ ToggleFavoritesFilter \/ ReturnToClipboard
             \/ ConfirmTitle \/ CancelTitle
             \/ \E kind \in Kinds : TogglePopup(kind)
             \/ ClosePopup \/ FocusNext \/ FocusPrevious \/ Enter
             \/ \E c \in Content : NewCopy(c)
             \/ HistoryChanges
             \/ UNCHANGED listVars
      PROVE  favoriting_state' \in {favoriting_state, None}
  BY <1>8
     DEF PressKey, TypeSearch, ClickEntry, Copy, Close, ShowQrCode, Submit, NextPage, PreviousPage,
         ToggleFavoritesFilter, ReturnToClipboard, ConfirmTitle, CancelTitle, TogglePopup, ClosePopup,
         FocusNext, FocusPrevious, Enter, NewCopy, HistoryChanges, listVars, flow
<1> QED
  BY <1>3, <1>4, <1>5, <1>6, <1>7, <1>8 DEF ListNext, Step, Typing, Clicking

ListInv == StoreInv /\ TitleTyped

LEMMA ListInvHolds == ASSUME StrictClock PROVE ListSpec => []ListInv
<1>1. ListInit => ListInv
  BY InitGood DEF ListInit, ListInv, TitleTyped
<1>2. ListInv /\ [ListNext]_listVars => ListInv'
  BY StoreStep, NextKeepsGood, TitleTypedStep DEF ListInv
<1> QED
  BY <1>1, <1>2, PTL DEF ListSpec

\* The list implements the store: whatever the user clicks and types, and
\* whenever tasks come back, the history only changes as ClipboardStore says.
THEOREM ListImplementsStore == ASSUME StrictClock PROVE ListSpec => Spec
<1>1. ListInit => Init
  BY DEF ListInit
<1>2. ListInv /\ [ListNext]_listVars => [Next]_vars
  BY StoreStep DEF ListInv
<1> QED
  BY <1>1, <1>2, ListInvHolds, PTL DEF ListSpec, Spec

\* The indexes of the store agree under the list too.
THEOREM ListIndexesAgree == ASSUME StrictClock PROVE ListSpec => []IndexesAgree
  BY ListImplementsStore, IndexesAgreeHolds, PTL

-----------------------------------------------------------------------------
(* Answers of the AI                                                       *)

Answer(m) == m.type = "TitleSuggested"

\* An answer is known by its entry and its flow, and a flow has one answer.  For
\* the entry whose title is entered only the answer of this very flow can
\* still come, unless one was under way before, and only while "suggesting".
AnswersInv ==
  /\ flows \in Nat
  /\ \A m \in tasks : Answer(m) =>
       /\ m = [type |-> "TitleSuggested", id |-> m.id, flow |-> m.flow]
       /\ m.flow \in 1 .. flows
  /\ favoriting_state # None /\ ~favoriting_state.late =>
       \A m \in tasks : Answer(m) /\ m.id = favoriting_state.entry_id =>
         /\ m.flow = favoriting_state.flow
         /\ favoriting_state.phase = "Suggesting"
         /\ ~favoriting_state.typed

LEMMA AnswersStep == AnswersInv /\ [ListNext]_listVars => AnswersInv'
<1> SUFFICES ASSUME AnswersInv, [ListNext]_listVars PROVE AnswersInv'
  OBVIOUS
<1>1. ASSUME flows' = flows, {m \in tasks' : Answer(m)} \subseteq tasks,
             favoriting_state' \in {favoriting_state, None}
      PROVE  AnswersInv'
  BY <1>1 DEF AnswersInv, Answer
<1>2. ASSUME NEW key \in Keys, PressKey(key)
      PROVE  AnswersInv'
  BY <1>1, <1>2 DEF PressKey, Post, Keys, Answer
<1>3. ASSUME NEW text \in Titles \cup {None}, FavoriteTitleInput(text)
      PROVE  AnswersInv'
  <2>1. /\ UNCHANGED << tasks, flows >> /\ favoriting_state # None
        /\ favoriting_state.phase = "Editing"
        /\ favoriting_state' = [favoriting_state EXCEPT !.title_input = text, !.typed = TRUE]
    BY <1>3 DEF FavoriteTitleInput, CardShown
  <2>2. /\ favoriting_state'.late = favoriting_state.late
        /\ favoriting_state'.entry_id = favoriting_state.entry_id
    BY <2>1
  <2> QED
    BY <2>1, <2>2 DEF AnswersInv, Answer
<1>4. ASSUME NEW id \in Live, AddFavorite(id)
      PROVE  AnswersInv'
  <2>1. CASE Favorite(id)
    <3>1. /\ favoriting_state' = Entering(id, db.entries[id].favorite_title, "Editing")
          /\ flows' = flows + 1 /\ UNCHANGED tasks
      BY <1>4, <2>1 DEF AddFavorite
    <3>2. ~favoriting_state'.late => ~\E m \in tasks : Answer(m) /\ m.id = favoriting_state'.entry_id
      BY <3>1 DEF Entering, Answer
    <3> QED
      BY <3>1, <3>2 DEF AnswersInv, Answer
  <2>2. CASE ~Favorite(id)
    BY <1>1, <1>4, <2>2 DEF AddFavorite, Post, Answer
  <2> QED
    BY <2>1, <2>2
<1>5. ASSUME NEW id \in 1 .. clock, BeginFavorite(id)
      PROVE  AnswersInv'
  <2> DEFINE new == [type |-> "TitleSuggested", id |-> id, flow |-> flows + 1]
  <2>1. flows \in Nat /\ flows' = flows + 1 /\ flows' \in Nat
    BY <1>5 DEF BeginFavorite, AnswersInv
  <2>2. \A m \in tasks' : m \in tasks \/ m = new
    BY <1>5 DEF BeginFavorite
  <2>3. \A m \in tasks' : Answer(m) =>
          /\ m = [type |-> "TitleSuggested", id |-> m.id, flow |-> m.flow]
          /\ m.flow \in 1 .. flows'
    BY <2>1, <2>2 DEF AnswersInv, Answer
  <2>4. PICK phase \in {"Suggesting", "Editing"} :
          /\ favoriting_state' = Entering(id, None, phase)
          /\ phase = "Editing" => tasks' \subseteq tasks
    BY <1>5 DEF BeginFavorite
  <2>5. /\ favoriting_state'.entry_id = id /\ favoriting_state'.flow = flows + 1
        /\ favoriting_state'.phase = phase /\ favoriting_state'.typed = FALSE
        /\ ~favoriting_state'.late => ~\E m \in tasks : Answer(m) /\ m.id = id
    BY <2>4 DEF Entering, Answer
  <2> QED
    BY <2>1, <2>2, <2>3, <2>4, <2>5 DEF AnswersInv, Answer
<1>6. ASSUME NEW m \in tasks, NEW suggestion \in Titles \cup {None}, TitleSuggested(m, suggestion)
      PROVE  AnswersInv'
  <2>1. Answer(m) /\ tasks' = tasks \ {m} /\ UNCHANGED flows
    BY <1>6 DEF TitleSuggested, Arrives, Answer
  <2>2. CASE ~Answers(m.id)
    BY <1>1, <1>6, <2>1, <2>2 DEF TitleSuggested
  <2>3. CASE Answers(m.id)
    <3>1. /\ favoriting_state # None /\ m.id = favoriting_state.entry_id
          /\ favoriting_state' = [favoriting_state EXCEPT !.title_input = suggestion,
                                    !.phase = "Editing", !.typed = FALSE]
      BY <1>6, <2>3 DEF TitleSuggested, Answers
    <3>2. /\ favoriting_state'.late = favoriting_state.late
          /\ favoriting_state'.entry_id = favoriting_state.entry_id
      BY <3>1
    <3>3. ~favoriting_state.late =>
            \A n \in tasks : Answer(n) /\ n.id = m.id => n = m
      BY <2>1, <3>1 DEF AnswersInv
    <3>4. ~favoriting_state'.late =>
            ~\E n \in tasks' : Answer(n) /\ n.id = favoriting_state'.entry_id
      BY <2>1, <3>1, <3>2, <3>3
    <3> QED
      BY <2>1, <3>4 DEF AnswersInv, Answer
  <2> QED
    BY <2>2, <2>3
<1>7. ASSUME \/ \E q \in Queries \cup {None} : TypeSearch(q)
             \/ \E id \in Live : ClickEntry(id) \/ ShowQrCode(id)
             \/ Submit \/ NextPage \/ PreviousPage \/ ToggleFavoritesFilter \/ ReturnToClipboard
             \/ ConfirmTitle \/ CancelTitle
             \/ \E kind \in Kinds : TogglePopup(kind)
             \/ ClosePopup \/ FocusNext \/ FocusPrevious \/ Enter
             \/ \E c \in Content : NewCopy(c)
             \/ HistoryChanges
             \/ UNCHANGED listVars
      PROVE  /\ flows' = flows /\ tasks' \subseteq tasks
             /\ favoriting_state' \in {favoriting_state, None}
  BY <1>7
     DEF TypeSearch, ClickEntry, Copy, Close, ShowQrCode, Submit, NextPage, PreviousPage,
         ToggleFavoritesFilter, ReturnToClipboard, ConfirmTitle, CancelTitle, TogglePopup, ClosePopup,
         FocusNext, FocusPrevious, Enter, Arrives, NewCopy, HistoryChanges, listVars, flow
<1> QED
  BY <1>1, <1>2, <1>3, <1>4, <1>5, <1>6, <1>7 DEF ListNext, Step, Typing, Clicking

\* An AI's answer never replaces what the user typed unless one was still under
\* way for the entry when the user began, for every history, any number of
\* tasks and of titles begun, cancelled and begun anew.
THEOREM SuggestionKeepsTypedHolds == ListSpec => SuggestionKeepsTyped
<1>1. ListInit => AnswersInv
  BY DEF ListInit, AnswersInv
<1>2. AnswersInv /\ [ListNext]_listVars =>
        [\A m \in tasks : \A suggestion \in Titles \cup {None} :
           /\ TitleSuggested(m, suggestion)
           /\ favoriting_state # None /\ favoriting_state.typed /\ ~favoriting_state.late
           => favoriting_state' = favoriting_state]_listVars
  BY DEF AnswersInv, Answer, TitleSuggested, Answers
<1> QED
  BY <1>1, <1>2, AnswersStep, PTL DEF ListSpec, SuggestionKeepsTyped

-----------------------------------------------------------------------------
(* Pages and the focus                                                     *)

\* What the list rests on in the store.
ShownInv == SafeInv /\ Answered(db, clock, Queries)

LEMMA ShownInvHolds ==
  ASSUME LiveIds, StrictClock
  PROVE  ListSpec => []ShownInv
<1>1. Init => ShownInv
  <2>1. Init => Answered(db, clock, Queries)
    BY DEF Init, EmptyStore, Answered
  <2> QED
    BY <2>1, InitGood, InitSound DEF ShownInv, SafeInv
<1>2. ShownInv /\ [Next]_vars => ShownInv'
  BY NextKeepsGood, NextKeepsSound, NextKeepsAnswered DEF ShownInv, SafeInv
<1>3. Spec => []ShownInv
  BY <1>1, <1>2, PTL DEF Spec
<1> QED
  BY <1>3, ListImplementsStore, PTL

\* The page of a place is the one it is on.
LEMMA PageOfPlace ==
  ASSUME NEW place \in Nat
  PROVE  /\ place \div PerPage \in Nat
         /\ (place \div PerPage) * PerPage <= place
         /\ place < ((place \div PerPage) + 1) * PerPage
<1>1. PerPage \in Nat \ {0}
  BY ListAssumption
<1> QED
  BY ONLY <1>1, place \in Nat

\* A page begins at a place of its own.
LEMMA FirstOfPage ==
  ASSUME NEW p \in Nat
  PROVE  p * PerPage \in Nat /\ (p * PerPage) \div PerPage = p
<1>1. PerPage \in Nat \ {0}
  BY ListAssumption
<1> QED
  BY ONLY <1>1, p \in Nat

\* An arrow moves the focus to a place of the list.
LEMMA Wraps ==
  ASSUME NEW x \in Nat, NEW n \in Nat, n > 0
  PROVE  x % n \in 0 .. n - 1
  OBVIOUS

\* The lists in view, as long as they are, hold live entries.
LEMMA ListsLive ==
  ASSUME ShownInv
  PROVE  /\ clock \in Nat /\ Good(db, clock, AllTitles) /\ FavsLive(db)
         /\ Live \subseteq Ids /\ IsFiniteSet(Live)
         /\ Length \in Nat
         /\ Iter(db) \in Seq(Live) /\ Len(Iter(db)) = Cardinality(Live)
         /\ ChronologicalIter(db) \in Seq(Live)
         /\ Len(ChronologicalIter(db)) = Cardinality(Live)
<1>1. clock \in Nat /\ Good(db, clock, AllTitles) /\ FavsLive(db)
  BY AppAssumption DEF ShownInv, SafeInv, StoreInv, Sound
<1>2. Live \subseteq Ids
  BY <1>1 DEF Good, Typed, IsMap, Live, Ids
<1>3. IsFiniteSet(Live)
  <2>1. IsFiniteSet(1 .. clock)
    BY <1>1, FS_Interval
  <2> QED
    BY <1>2, <2>1, FS_Subset DEF Ids
<1>4. Length \in Nat
  BY <1>3, FS_CardinalityType DEF Length, ShownInv, Answered
<1>5. Iter(db) \in Seq(Live) /\ Len(Iter(db)) = Cardinality(Live)
  BY <1>1, IterLists DEF Live
<1>6. /\ ChronologicalIter(db) \in Seq(Live)
      /\ Range(ChronologicalIter(db)) = {db.times[t] : t \in DOMAIN db.times}
      /\ OnceEach(ChronologicalIter(db))
  BY <1>1, NewestFirstLists DEF ChronologicalIter, Live
<1>7. {db.times[t] : t \in DOMAIN db.times} = Live
  BY <1>1 DEF Good, TimesGood, Live
<1>8. Len(ChronologicalIter(db)) = Cardinality(Live)
  BY <1>6, <1>7, LengthOnce
<1> QED
  BY <1>1, <1>2, <1>3, <1>4, <1>5, <1>6, <1>8

\* The popup, the page and the focus.
PlaceTyped ==
  /\ popup \in Kinds \cup {None}
  /\ focused \in Nat /\ page = focused \div PerPage
  /\ show_favorites_only \in BOOLEAN /\ qr_code \in BOOLEAN

LEMMA PlaceStep ==
  ASSUME ShownInv, PlaceTyped, [ListNext]_listVars
  PROVE  PlaceTyped'
<1>1. /\ popup \in Kinds \cup {None} /\ focused \in Nat /\ page = focused \div PerPage
      /\ show_favorites_only \in BOOLEAN /\ qr_code \in BOOLEAN
      /\ page \in Nat /\ Length \in Nat
  BY ListsLive, PageOfPlace DEF PlaceTyped
<1>2. 0 = 0 \div PerPage
  BY FirstOfPage, ListAssumption
<1>3. ASSUME UNCHANGED position
      PROVE  PlaceTyped'
  BY <1>1, <1>3 DEF position, PlaceTyped
<1>4. ASSUME NEW st, Close(st), UNCHANGED qr_code
      PROVE  PlaceTyped'
  BY <1>1, <1>2, <1>4 DEF Close, PlaceTyped
<1>5. ASSUME NEW place \in Nat, FocusOn(place), UNCHANGED << popup, show_favorites_only, qr_code >>
      PROVE  PlaceTyped'
  BY <1>1, <1>5 DEF FocusOn, PlaceTyped
<1>6. ASSUME UNCHANGED << focused, page, popup, show_favorites_only >>, qr_code' \in BOOLEAN
      PROVE  PlaceTyped'
  BY <1>1, <1>6 DEF PlaceTyped
<1>7. ASSUME FocusNext
      PROVE  PlaceTyped'
  <2>1. CASE Length > 0
    <3>1. (focused + 1) % Length \in Nat
      BY <1>1, <2>1, Wraps
    <3> QED
      BY <1>5, <1>7, <2>1, <3>1 DEF FocusNext
  <2>2. CASE ~(Length > 0)
    BY <1>3, <1>7, <2>2 DEF FocusNext, position
  <2> QED
    BY <2>1, <2>2
<1>8. ASSUME FocusPrevious
      PROVE  PlaceTyped'
  <2>1. CASE Length > 0
    <3>1. focused + Length - 1 \in Nat
      BY <1>1, <2>1
    <3>2. (focused + Length - 1) % Length \in Nat
      BY <1>1, <2>1, <3>1, Wraps
    <3> QED
      BY <1>5, <1>8, <2>1, <3>2 DEF FocusPrevious
  <2>2. CASE ~(Length > 0)
    BY <1>3, <1>8, <2>2 DEF FocusPrevious, position
  <2> QED
    BY <2>1, <2>2
<1>9. ASSUME NEW p \in Nat, page' = p, focused' = p * PerPage,
             UNCHANGED << popup, show_favorites_only, qr_code >>
      PROVE  PlaceTyped'
  BY <1>1, <1>9, FirstOfPage DEF PlaceTyped
<1>10. ASSUME NextPage
       PROVE  PlaceTyped'
  BY <1>1, <1>9, <1>10 DEF NextPage
<1>11. ASSUME PreviousPage
       PROVE  PlaceTyped'
  <2>1. page - 1 \in Nat
    BY <1>1, <1>11 DEF PreviousPage
  <2> QED
    BY <1>9, <1>11, <2>1 DEF PreviousPage
<1>12. ASSUME ToggleFavoritesFilter
       PROVE  PlaceTyped'
  BY <1>1, <1>2, <1>12 DEF ToggleFavoritesFilter, PlaceTyped
<1>13. ASSUME NEW kind \in Kinds, TogglePopup(kind)
       PROVE  PlaceTyped'
  <2>1. CASE popup = None
    <3>1. popup' = kind /\ UNCHANGED << focused, page, show_favorites_only >> /\ qr_code' = FALSE
      BY <1>13, <2>1 DEF TogglePopup
    <3> QED
      BY <1>1, <3>1 DEF PlaceTyped
  <2>2. CASE popup # None
    <3>1. /\ popup' \in {None, kind} /\ focused' = 0 /\ page' = 0
          /\ show_favorites_only' = FALSE /\ qr_code' = FALSE
      BY <1>13, <2>2 DEF TogglePopup
    <3> QED
      BY <1>2, <3>1 DEF PlaceTyped
  <2> QED
    BY <2>1, <2>2
<1>14. ASSUME Enter
       PROVE  PlaceTyped'
  <2>1. \/ Close(db) /\ UNCHANGED qr_code
        \/ UNCHANGED << popup, focused, page, show_favorites_only, qr_code >>
    BY <1>14 DEF Enter
  <2> QED
    BY <1>3, <1>4, <2>1 DEF position
<1>15. ASSUME \/ \E id \in Live : ShowQrCode(id)
              \/ ReturnToClipboard
       PROVE  PlaceTyped'
  BY <1>6, <1>15 DEF ShowQrCode, ReturnToClipboard
<1>16. ASSUME \/ \E id \in Live : ClickEntry(id)
              \/ Submit
              \/ ClosePopup
       PROVE  PlaceTyped'
  BY <1>4, <1>16 DEF ClickEntry, Submit, ClosePopup, Copy
<1>17. ASSUME \/ \E key \in Keys : PressKey(key)
              \/ \E q \in Queries \cup {None} : TypeSearch(q)
              \/ \E text \in Titles \cup {None} : FavoriteTitleInput(text)
              \/ \E id \in Live : AddFavorite(id)
              \/ ConfirmTitle \/ CancelTitle
              \/ \E id \in 1 .. clock : BeginFavorite(id)
              \/ \E m \in tasks, suggestion \in Titles \cup {None} : TitleSuggested(m, suggestion)
              \/ \E c \in Content : NewCopy(c)
              \/ HistoryChanges
              \/ UNCHANGED listVars
       PROVE  PlaceTyped'
  BY <1>3, <1>17
     DEF PressKey, TypeSearch, FavoriteTitleInput, AddFavorite, ConfirmTitle, CancelTitle, BeginFavorite,
         TitleSuggested, NewCopy, HistoryChanges, listVars
<1> QED
  BY <1>7, <1>8, <1>10, <1>11, <1>12, <1>13, <1>14, <1>15, <1>16, <1>17
     DEF ListNext, Step, Typing, Clicking

LEMMA PlaceHolds ==
  ASSUME LiveIds, StrictClock
  PROVE  ListSpec => []PlaceTyped
<1>1. ListInit => PlaceTyped
  <2>1. 0 = 0 \div PerPage
    BY FirstOfPage, ListAssumption
  <2>2. ASSUME ListInit
        PROVE  /\ popup = None /\ focused = 0 /\ page = 0
               /\ show_favorites_only = FALSE /\ qr_code = FALSE
    BY <2>2 DEF ListInit
  <2> QED
    BY <2>1, <2>2 DEF PlaceTyped
<1>2. ShownInv /\ PlaceTyped /\ [ListNext]_listVars => PlaceTyped'
  BY PlaceStep
<1> QED
  BY <1>1, <1>2, ShownInvHolds, PTL DEF ListSpec

\* A live id is an entry and no None.
LEMMA IdIsNotNone ==
  ASSUME ShownInv, NEW id \in Ids
  PROVE  id # None
<1>1. id \in Nat
  BY ListsLive DEF Ids
<1> QED
  BY <1>1, StoreAssumption

\* Where the focus is on the screen, the entry there is highlighted.
LEMMA ArrowHighlightsStep ==
  ASSUME ShownInv, PlaceTyped, FocusNext \/ FocusPrevious, InList, Length > 0,
         show_favorites_only => db.query # None
  PROVE  Highlighted' # None
<1>1. /\ focused \in Nat /\ Length \in Nat
      /\ Iter(db) \in Seq(Live) /\ Live \subseteq Ids
      /\ ChronologicalIter(db) \in Seq(Live)
      /\ Len(ChronologicalIter(db)) = Cardinality(Live)
  BY ListsLive DEF PlaceTyped
<1>2. PICK place \in 0 .. Length - 1 : focused' = place /\ page' = place \div PerPage
  <2>1. focused + Length - 1 \in Nat /\ focused + 1 \in Nat
    BY <1>1
  <2>2. (focused + 1) % Length \in 0 .. Length - 1
    BY <1>1, <2>1, Wraps
  <2>3. (focused + Length - 1) % Length \in 0 .. Length - 1
    BY <1>1, <2>1, Wraps
  <2>4. CASE FocusNext
    BY <2>2, <2>4 DEF FocusNext, FocusOn
  <2>5. CASE FocusPrevious
    BY <2>3, <2>5 DEF FocusPrevious, FocusOn
  <2> QED
    BY <2>4, <2>5
<1>3. UNCHANGED << db, popup, show_favorites_only, qr_code >>
  BY DEF FocusNext, FocusPrevious, vars
<1>4. Shown \in Seq(Ids) /\ Len(Shown) = Length
  <2>1. popup = "Popup"
    BY DEF InList
  <2>2. CASE db.query # None
    BY <2>1, <2>2, ListsLive DEF Shown, Length, ShownInv, Answered, Ids
  <2>3. CASE db.query = None
    <3>1. Shown = ChronologicalIter(db) /\ Length = Cardinality(Live)
      BY <2>1, <2>3 DEF Shown, Length
    <3> QED
      BY <1>1, <3>1, SeqOfMore
  <2> QED
    BY <2>2, <2>3
<1>5. Shown' = Shown
  BY <1>3 DEF Shown, Starred, Favorite, Live
<1>6. OnScreen(focused)'
  <2>1. place \in Nat /\ place < Length
    BY <1>1, <1>2
  <2>2. /\ page' * PerPage <= focused'
        /\ focused' < (page' + 1) * PerPage
    BY <1>2, <2>1, PageOfPlace
  <2>3. popup' = "Popup" /\ qr_code' = qr_code /\ ~qr_code
    BY <1>3 DEF InList
  <2>4. focused' < Len(Shown')
    BY <1>2, <1>4, <1>5, <2>1
  <2> QED
    BY <2>2, <2>3, <2>4 DEF OnScreen
<1>7. Highlighted' = Shown'[focused' + 1]
  BY <1>6 DEF Highlighted
<1>8. place + 1 \in 1 .. Len(Shown)
  BY <1>1, <1>2, <1>4
<1>9. Highlighted' \in Ids
  BY <1>2, <1>4, <1>5, <1>7, <1>8
<1> QED
  BY <1>9, IdIsNotNone

\* However the list shrank meanwhile, an arrow key brings the highlight back to
\* an entry on the screen, whatever the page size; under the favorites filter
\* only while searching.
THEOREM ArrowHighlightsHolds ==
  ASSUME LiveIds, StrictClock
  PROVE  ListSpec => ArrowHighlights
<1>1. ShownInv /\ PlaceTyped /\ [ListNext]_listVars =>
        [(FocusNext \/ FocusPrevious) /\ InList /\ Length > 0
           /\ (show_favorites_only => db.query # None)
         => Highlighted' # None]_listVars
  BY ArrowHighlightsStep
<1> QED
  BY <1>1, ShownInvHolds, PlaceHolds, PTL DEF ListSpec, ArrowHighlights

\* A sequence with no elements is empty.
LEMMA EmptyRange ==
  ASSUME NEW X, NEW q \in Seq(X), Range(q) = {}
  PROVE  q = << >>
<1>1. DOMAIN q = 1 .. Len(q) /\ Len(q) \in Nat
  OBVIOUS
<1>2. DOMAIN q = {}
  BY DEF Range
<1>3. Len(q) = 0
  <2>1. Len(q) < 1
    <3>1. CASE Len(q) >= 1
      BY <1>1, <1>2, <3>1
    <3> QED
      BY <1>1, <3>1
  <2> QED
    BY <1>1, <2>1
<1> QED
  BY <1>3


\* The list in view is the beginning of the one get() counts in.
LEMMA SameBeginning ==
  ASSUME ShownInv, SameOrder, NEW place \in Nat, place < Len(Shown)
  PROVE  Get(place) = Shown[place + 1] /\ Get(place) \in Live
<1> DEFINE T == {t \in DOMAIN db.times : ~db.entries[db.times[t]].is_favorite}
           rest == NewestFirst(db, T)
<1>1. /\ Good(db, clock, AllTitles) /\ FavsLive(db) /\ clock \in Nat
      /\ Iter(db) \in Seq(Live)
      /\ ChronologicalIter(db) \in Seq(Live)
  BY ListsLive
<1>2. /\ Range(db.favs) = db.favSet /\ db.favs \in Seq(1 .. clock)
      /\ \A id \in Live : Favorite(id) <=> id \in db.favSet
      /\ db.favSet \subseteq Live
  BY <1>1 DEF FavsLive, Good, Typed, FavsGood, Favorite, Live
<1>3. Starred = db.favSet
  BY <1>2 DEF Starred
<1>4. Iter(db) = db.favs \o rest
  BY DEF Iter
<1>5. db.favs \in Seq(Live)
  <2>1. \A i \in DOMAIN db.favs : db.favs[i] \in Live
    BY <1>2 DEF Range
  <2>2. db.favs = [i \in 1 .. Len(db.favs) |-> db.favs[i]] /\ Len(db.favs) \in Nat
        /\ DOMAIN db.favs = 1 .. Len(db.favs)
    BY <1>2
  <2> QED
    BY <2>1, <2>2
<1>6. rest \in Seq(Live) /\ Range(rest) = {db.times[t] : t \in T}
  <2>1. T \in SUBSET DOMAIN db.times
    OBVIOUS
  <2> HIDE DEF T
  <2> QED
    BY <1>1, <2>1, NewestFirstLists DEF Live
<1>7. Range(rest) \cap Starred = {}
  <2>1. \A t \in T : ~Favorite(db.times[t])
    BY DEF Favorite
  <2> HIDE DEF T, rest
  <2> QED
    BY <1>6, <2>1 DEF Starred
<1> HIDE DEF rest, T
<1>8. Shown \in Seq(Live) /\ \E z \in Seq(Live) : Iter(db) = Shown \o z
  <2>1. CASE popup = "Favorites"
    <3>1. Range(db.favs) \subseteq Starred
      BY <1>2, <1>3
    <3>2. Selected(db.favs \o rest, Starred) = db.favs
      BY <1>5, <1>6, <1>7, <3>1, SelectedPrefix
    <3>3. Shown = db.favs
      BY <1>4, <2>1, <3>2 DEF Shown
    <3> QED
      BY <1>4, <1>5, <1>6, <3>3
  <2>2. CASE popup = "Popup" /\ db.query = None /\ db.favSet = {}
    <3>1. db.favs = << >>
      <4>1. Range(db.favs) = {}
        BY <1>2, <2>2
      <4> QED
        BY <1>2, <4>1, EmptyRange
    <3>2. T = DOMAIN db.times
      <4>1. \A t \in DOMAIN db.times : db.times[t] \in Live
        BY <1>1 DEF Good, TimesGood, Live
      <4>2. \A t \in DOMAIN db.times : ~db.entries[db.times[t]].is_favorite
        BY <1>2, <2>2, <4>1 DEF Favorite
      <4> QED
        BY <4>2 DEF T
    <3>3. rest = ChronologicalIter(db)
      BY <3>2 DEF rest, ChronologicalIter
    <3>4. Iter(db) = ChronologicalIter(db)
      BY <1>1, <1>4, <3>1, <3>3
    <3>5. Shown = IF show_favorites_only THEN Selected(ChronologicalIter(db), Starred)
                  ELSE ChronologicalIter(db)
      BY <2>2 DEF Shown
    <3>6. Selected(ChronologicalIter(db), Starred) \in Seq(Live)
          /\ Range(Selected(ChronologicalIter(db), Starred))
               = Range(ChronologicalIter(db)) \cap Starred
      BY <1>1, SelectedKeeps
    <3>7. Selected(ChronologicalIter(db), Starred) = << >>
      <4>1. Range(Selected(ChronologicalIter(db), Starred)) = {}
        BY <1>3, <2>2, <3>6
      <4> QED
        BY <3>6, <4>1, EmptyRange
    <3>8. Shown = ChronologicalIter(db)
      BY <3>5, <3>7
    <3>9. << >> \in Seq(Live) /\ Iter(db) \o << >> = Iter(db)
      BY <1>1
    <3> QED
      BY <1>1, <3>4, <3>8, <3>9
  <2> QED
    BY <2>1, <2>2 DEF SameOrder
<1>9. PICK z \in Seq(Live) : Iter(db) = Shown \o z
  BY <1>8
<1>10. /\ place + 1 \in 1 .. Len(Shown)
       /\ place < Len(Iter(db)) /\ Iter(db)[place + 1] = Shown[place + 1]
       /\ Shown[place + 1] \in Live
  <2>1. Len(Shown) \in Nat /\ Len(z) \in Nat /\ Len(Iter(db)) = Len(Shown) + Len(z)
    BY <1>8, <1>9, Joined
  <2>2. place + 1 \in 1 .. Len(Shown)
    BY <2>1
  <2>3. Iter(db)[place + 1] = Shown[place + 1]
    BY <1>8, <1>9, <2>1, <2>2, Joined
  <2> QED
    BY <1>8, <2>1, <2>2, <2>3
<1> QED
  BY <1>10 DEF Get

LEMMA EnterCopiesStep ==
  ASSUME ShownInv, PlaceTyped, Enter \/ Submit, SameOrder, Highlighted # None
  PROVE  copied' = db.entries[Highlighted].content
<1>1. OnScreen(focused) /\ Highlighted = Shown[focused + 1]
  BY DEF Highlighted
<1>2. focused \in Nat /\ focused < Len(Shown)
  BY <1>1 DEF OnScreen, PlaceTyped
<1>3. Get(focused) = Highlighted /\ popup \in {"Popup", "Favorites"}
  BY <1>1, <1>2, SameBeginning DEF SameOrder
<1>4. CASE Enter
  BY <1>3, <1>4 DEF Enter
<1>5. CASE Submit
  BY <1>3, <1>5 DEF Submit, Copy
<1> QED
  BY <1>4, <1>5

\* In the popup of favorites, and in a history without favorites that is not
\* being searched, Enter copies the entry that is highlighted, for every
\* history, page size and focus.
THEOREM EnterCopiesHighlightedHolds ==
  ASSUME LiveIds, StrictClock
  PROVE  ListSpec => EnterCopiesHighlighted
<1>1. ShownInv /\ PlaceTyped /\ [ListNext]_listVars =>
        [(Enter \/ Submit) /\ SameOrder /\ Highlighted # None
         => copied' = db.entries[Highlighted].content]_listVars
  BY EnterCopiesStep
<1> QED
  BY <1>1, ShownInvHolds, PlaceHolds, PTL DEF ListSpec, EnterCopiesHighlighted
-----------------------------------------------------------------------------
(* The types of the list                                                   *)

TitleCard ==
  [entry_id : Ids, title_input : Titles \cup {None},
   phase : {"Suggesting", "Editing"}, flow : 1 .. flows,
   typed : BOOLEAN, late : BOOLEAN]

\* The title being entered, the waiting messages and the clipboard.
FlowTyped ==
  /\ favoriting_state \in TitleCard \cup {None}
  /\ tasks \subseteq Messages
  /\ copied \in Content \cup {None} /\ flows \in 0 .. MaxFlows

\* What get() finds is a live entry.
LEMMA GetLive ==
  ASSUME ShownInv, PlaceTyped, Get(focused) # None
  PROVE  Get(focused) \in Live
<1>1. focused \in Nat /\ Iter(db) \in Seq(Live)
  BY ListsLive DEF PlaceTyped
<1>2. focused < Len(Iter(db)) /\ Get(focused) = Iter(db)[focused + 1]
  BY DEF Get
<1>3. focused + 1 \in 1 .. Len(Iter(db))
  BY <1>1, <1>2
<1> QED
  BY <1>1, <1>2, <1>3

\* What waits and what is entered stays typed while ids and flows are issued.
LEMMA CardsGrow ==
  ASSUME FlowTyped, Ids \subseteq Ids', flows' \in Nat, flows <= flows'
  PROVE  Messages \subseteq Messages' /\ TitleCard \subseteq TitleCard'
<1>1. 1 .. flows \subseteq 1 .. flows'
  BY DEF FlowTyped
<1>2. ASSUME NEW m \in Messages
      PROVE  m \in Messages'
  BY <1>1, <1>2 DEF Messages
<1>3. ASSUME NEW card \in TitleCard
      PROVE  card \in TitleCard'
  BY <1>1, <1>3 DEF TitleCard
<1> QED
  BY <1>2, <1>3

LEMMA FlowStep ==
  ASSUME ShownInv, PlaceTyped, FlowTyped, [ListNext]_listVars
  PROVE  FlowTyped'
<1>1. /\ flows \in Nat /\ flows <= MaxFlows /\ MaxFlows \in Nat
      /\ Live \subseteq Ids
      /\ \A id \in Live : /\ db.entries[id].content \in Content
                          /\ db.entries[id].favorite_title \in Titles \cup {None}
  <2>1. Good(db, clock, AllTitles)
    BY ListsLive
  <2>2. \A id \in Live : /\ db.entries[id].content \in Content
                         /\ db.entries[id].favorite_title \in Titles \cup {None}
    BY <2>1 DEF Good, Typed, IsMap, Live, EntryUpTo, AllTitles
  <2> QED
    BY <2>2, ListsLive, ListAssumption DEF FlowTyped
<1>2. Ids \subseteq Ids'
  <2>1. TitleTyped
    BY DEF FlowTyped, TitleCard, TitleTyped
  <2> QED
    BY <2>1, StoreStep, IdsGrow DEF ShownInv, SafeInv
<1>3. ASSUME favoriting_state' \in {favoriting_state, None},
             \A m \in tasks' : m \in tasks \/ m \in [type : Keys],
             UNCHANGED flows, copied' \in Content \cup {None}
      PROVE  FlowTyped'
  <2>1. Messages \subseteq Messages' /\ TitleCard \subseteq TitleCard'
    BY <1>1, <1>2, <1>3, CardsGrow
  <2>2. [type : Keys] \subseteq Messages'
    BY DEF Messages
  <2> QED
    BY <1>1, <1>3, <2>1, <2>2 DEF FlowTyped
<1>4. ASSUME NEW id \in Live, AddFavorite(id)
      PROVE  FlowTyped'
  <2>1. CASE Favorite(id)
    <3>1. /\ favoriting_state' = Entering(id, db.entries[id].favorite_title, "Editing")
          /\ flows' = flows + 1 /\ flows < MaxFlows /\ tasks' = tasks /\ copied' = None
      BY <1>4, <2>1 DEF AddFavorite
    <3>2. Messages \subseteq Messages'
      BY <1>1, <1>2, <3>1, CardsGrow
    <3>3. favoriting_state' \in TitleCard'
      BY <1>1, <1>2, <3>1 DEF Entering, TitleCard
    <3> QED
      BY <1>1, <3>1, <3>2, <3>3 DEF FlowTyped
  <2>2. CASE ~Favorite(id)
    <3>1. /\ tasks' = tasks \cup {[type |-> "BeginFavorite", id |-> id]}
          /\ UNCHANGED << favoriting_state, flows >> /\ copied' = None
      BY <1>4, <2>2 DEF AddFavorite, Post
    <3>2. Messages \subseteq Messages' /\ TitleCard \subseteq TitleCard'
      BY <1>1, <1>2, <3>1, CardsGrow
    <3>3. [type |-> "BeginFavorite", id |-> id] \in Messages'
      BY <1>1, <1>2 DEF Messages
    <3> QED
      BY <1>1, <3>1, <3>2, <3>3 DEF FlowTyped
  <2> QED
    BY <2>1, <2>2
<1>5. ASSUME NEW id \in 1 .. clock, BeginFavorite(id)
      PROVE  FlowTyped'
  <2> DEFINE answer == [type |-> "TitleSuggested", id |-> id, flow |-> flows + 1]
  <2>1. /\ flows' = flows + 1 /\ flows < MaxFlows /\ copied' = None
        /\ tasks' \subseteq tasks \cup {answer}
        /\ favoriting_state' \in {Entering(id, None, "Suggesting"), Entering(id, None, "Editing")}
    BY <1>5 DEF BeginFavorite
  <2>2. Messages \subseteq Messages'
    BY <1>1, <1>2, <2>1, CardsGrow
  <2>3. answer \in Messages'
    BY <1>1, <1>2, <2>1 DEF Messages, Ids
  <2> HIDE DEF answer
  <2>4. Entering(id, None, "Suggesting") \in TitleCard'
    BY <1>1, <1>2, <2>1 DEF Entering, TitleCard, Ids
  <2>5. Entering(id, None, "Editing") \in TitleCard'
    BY <1>1, <1>2, <2>1 DEF Entering, TitleCard, Ids
  <2> QED
    BY <1>1, <2>1, <2>2, <2>3, <2>4, <2>5 DEF FlowTyped
<1>6. ASSUME NEW m \in tasks, NEW suggestion \in Titles \cup {None}, TitleSuggested(m, suggestion)
      PROVE  FlowTyped'
  <2>1. /\ tasks' \subseteq tasks /\ flows' = flows /\ copied' = None
        /\ favoriting_state' = IF Answers(m.id)
             THEN [favoriting_state EXCEPT !.title_input = suggestion, !.phase = "Editing", !.typed = FALSE]
             ELSE favoriting_state
    BY <1>6 DEF TitleSuggested, Arrives
  <2>2. Messages \subseteq Messages' /\ TitleCard \subseteq TitleCard'
    BY <1>1, <1>2, <2>1, CardsGrow
  <2>3. favoriting_state' \in TitleCard \cup {None}
    BY <2>1 DEF FlowTyped, TitleCard, Answers
  <2> QED
    BY <1>1, <2>1, <2>2, <2>3 DEF FlowTyped
<1>7. ASSUME NEW text \in Titles \cup {None}, FavoriteTitleInput(text)
      PROVE  FlowTyped'
  <2>1. /\ UNCHANGED << tasks, flows >> /\ copied' = None /\ favoriting_state # None
        /\ favoriting_state' = [favoriting_state EXCEPT !.title_input = text, !.typed = TRUE]
    BY <1>7 DEF FavoriteTitleInput, CardShown
  <2>2. Messages \subseteq Messages' /\ TitleCard \subseteq TitleCard'
    BY <1>1, <1>2, <2>1, CardsGrow
  <2>3. favoriting_state' \in TitleCard \cup {None}
    BY <2>1 DEF FlowTyped, TitleCard
  <2> QED
    BY <1>1, <2>1, <2>2, <2>3 DEF FlowTyped
<1>8. ASSUME NEW id \in Live, Copy(id)
      PROVE  FlowTyped'
  BY <1>1, <1>3, <1>8 DEF Copy, Close
<1>9. ASSUME Submit
      PROVE  FlowTyped'
  BY <1>8, <1>9, GetLive DEF Submit
<1>10. ASSUME Enter
       PROVE  FlowTyped'
  <2>1. copied' \in Content \cup {None}
    BY <1>1, <1>10, GetLive DEF Enter
  <2> QED
    BY <1>3, <1>10, <2>1 DEF Enter, Arrives, Close
<1>11. ASSUME NEW key \in Keys, PressKey(key)
       PROVE  FlowTyped'
  BY <1>3, <1>11 DEF PressKey, Post
<1>12. ASSUME \/ \E q \in Queries \cup {None} : TypeSearch(q)
              \/ \E id \in Live : ShowQrCode(id)
              \/ NextPage \/ PreviousPage \/ ToggleFavoritesFilter \/ ReturnToClipboard
              \/ ConfirmTitle \/ CancelTitle
              \/ \E kind \in Kinds : TogglePopup(kind)
              \/ ClosePopup \/ FocusNext \/ FocusPrevious
              \/ \E c \in Content : NewCopy(c)
              \/ HistoryChanges
       PROVE  FlowTyped'
  <2>1. /\ favoriting_state' \in {favoriting_state, None} /\ tasks' \subseteq tasks
        /\ UNCHANGED flows /\ copied' = None
    BY <1>12
       DEF TypeSearch, ShowQrCode, NextPage, PreviousPage, ToggleFavoritesFilter, ReturnToClipboard,
           ConfirmTitle, CancelTitle, TogglePopup, ClosePopup, Close, FocusNext, FocusPrevious, Arrives,
           NewCopy, HistoryChanges, flow
  <2> QED
    BY <1>3, <2>1
<1>13. CASE UNCHANGED listVars
  BY <1>3, <1>13 DEF listVars, flow, FlowTyped
<1> QED
  BY <1>4, <1>5, <1>6, <1>7, <1>8, <1>9, <1>10, <1>11, <1>12, <1>13
     DEF ListNext, Step, Typing, Clicking, ClickEntry

\* Every field of the list keeps its type, and the page is always the one of the
\* focus, for every page size and any number of waiting tasks and title flows.
THEOREM ListTypeOKHolds ==
  ASSUME LiveIds, StrictClock
  PROVE  ListSpec => []ListTypeOK
<1>1. ListInit => FlowTyped
  BY ListAssumption DEF ListInit, FlowTyped
<1>2. ShownInv /\ PlaceTyped /\ FlowTyped /\ [ListNext]_listVars => FlowTyped'
  BY FlowStep
<1>3. TypeOK /\ PlaceTyped /\ FlowTyped => ListTypeOK
  BY DEF PlaceTyped, FlowTyped, TitleCard, ListTypeOK
<1>4. ListSpec => []TypeOK
  BY ListImplementsStore, TypeOKHolds, PTL
<1> QED
  BY <1>1, <1>2, <1>3, <1>4, ShownInvHolds, PlaceHolds, PTL DEF ListSpec
=============================================================================
