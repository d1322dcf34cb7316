------------------------- MODULE PersistenceProofs -------------------------
(***************************************************************************)
(* Proofs about Persistence, for any number of tasks, crashes, faults and  *)
(* operations of a second instance, and any order in which they interleave *)
(* with the statements of a reload.                                        *)
(*                                                                         *)
(* PInv says what is in the tables, in memory and in the tasks on their    *)
(* way, half done ones included; own, of which entry a time was read for,  *)
(* tells the times of two entries apart.  Types, indexes and what a start  *)
(* prunes follow from it.  SyncInv and ReadInv add, as long as nothing     *)
(* went astray, what the tables will hold once the tasks have run, in any  *)
(* order of those that concern different entries: what memory holds, or    *)
(* what a start or reload under way is about to read.  Whatever went       *)
(* astray, Known says why a store that believes itself current is, or will *)
(* see a commit: without favorites, some task in flight is bound to make   *)
(* one that concerns the entry in question.                                *)
(***************************************************************************)
EXTENDS Persistence, StoreOpsProofs

AllTitles == Titles \cup {None}

-----------------------------------------------------------------------------
(* What is in the tables and what is on its way to them.  own says which   *)
(* entry a time was read for: no two entries are ever given the same one.  *)

FavRow == [position : Nat, title : AllTitles]

\* The tables obey the schema, and every creation was read for its entry.
DiskOK(d, n, own) ==
  /\ DOMAIN d = {"rows", "contents", "favs"}
  /\ IsMap(d.rows, 1 .. n, 1 .. n)
  /\ \A id \in DOMAIN d.rows : own[d.rows[id]] = id
  /\ IsMap(d.contents, DOMAIN d.rows, Copyable)
  /\ IsMap(d.favs, DOMAIN d.rows, FavRow)

\* A statement an operation may spawn, with times up to n.
Statement(n, own) ==
  {[do |-> k, id |-> own[t], time |-> t] : k \in {"InsertEntry", "SetCreation"}, t \in 1 .. n}
  \cup [do : {"InsertContent"}, id : 1 .. n, data : Copyable]
  \cup [do : {"DeleteEntry", "DeleteContent", "DeleteFavorite"}, id : 1 .. n]
  \cup [do : {"DeleteNonFavorites"}]
  \cup [do : {"InsertFavorite"}, id : 1 .. n, position : Nat]
  \cup [do : {"CloseGap"}, position : Nat]
  \cup [do : {"SetTitle"}, id : 1 .. n, title : AllTitles]

Task(n, own) == Seq(Statement(n, own)) \ {<< >>}

Owner(n, own) == own \in [1 .. n -> 1 .. n]

LEMMA DeleteRowsKeepsDisk ==
  ASSUME NEW d, NEW n \in Nat, NEW own, DiskOK(d, n, own), NEW ids
  PROVE  DiskOK(DeleteRows(d, ids), n, own)
  BY DEF DiskOK, DeleteRows, Drop, IsMap

\* Every statement keeps the schema, whichever order they run in.
LEMMA ExecKeepsDisk ==
  ASSUME NEW d, NEW n \in Nat, NEW own, Owner(n, own), DiskOK(d, n, own),
         NEW s \in Statement(n, own)
  PROVE  DiskOK(Exec(d, s).disk, n, own)
<1> DEFINE r == Exec(d, s).disk
<1>a. /\ IsMap(d.rows, 1 .. n, 1 .. n)
      /\ \A id \in DOMAIN d.rows : own[d.rows[id]] = id
      /\ IsMap(d.contents, DOMAIN d.rows, Copyable)
      /\ IsMap(d.favs, DOMAIN d.rows, FavRow)
      /\ DOMAIN d = {"rows", "contents", "favs"}
  BY DEF DiskOK
<1>b. None \in AllTitles
  BY DEF AllTitles
<1>1. CASE s.do = "InsertEntry"
  <2>1. PICK t \in 1 .. n : s = [do |-> "InsertEntry", id |-> own[t], time |-> t]
    BY <1>1 DEF Statement
  <2>2. own[t] \in 1 .. n
    BY DEF Owner
  <2>3. CASE s.id \in DOMAIN d.rows
    BY <1>1, <2>3 DEF Exec, Failed
  <2>4. CASE s.id \notin DOMAIN d.rows
    <3>1. r = [d EXCEPT !.rows = Put(@, own[t], t)]
      BY <1>1, <2>1, <2>4 DEF Exec, Ok
    <3>2. IsMap(Put(d.rows, own[t], t), 1 .. n, 1 .. n)
      BY ONLY <1>a, <2>2, t \in 1 .. n, PutIsMap
    <3>3. /\ r.rows = Put(d.rows, own[t], t) /\ r.contents = d.contents /\ r.favs = d.favs
          /\ DOMAIN r = {"rows", "contents", "favs"}
      BY <1>a, <3>1
    <3>4. /\ DOMAIN r.rows = DOMAIN d.rows \cup {own[t]}
          /\ \A id \in DOMAIN r.rows : r.rows[id] = IF id = own[t] THEN t ELSE d.rows[id]
      BY <3>3 DEF Put
    <3> HIDE DEF r
    <3> QED
      BY <1>a, <3>2, <3>3, <3>4 DEF DiskOK, IsMap, r
  <2> QED
    BY <2>3, <2>4
<1>2. CASE s.do = "InsertContent"
  <2>1. s.data \in Copyable
    BY <1>2 DEF Statement
  <2>2. CASE s.id \notin DOMAIN d.rows \/ s.id \in DOMAIN d.contents
    BY <1>2, <2>2 DEF Exec, Failed
  <2>3. CASE ~(s.id \notin DOMAIN d.rows \/ s.id \in DOMAIN d.contents)
    <3>1. r = [d EXCEPT !.contents = Put(@, s.id, s.data)]
      BY <1>2, <2>3 DEF Exec, Ok
    <3>2. IsMap(Put(d.contents, s.id, s.data), DOMAIN d.rows, Copyable)
      BY <1>a, <2>1, <2>3, PutIsMap
    <3> QED
      BY <1>a, <3>1, <3>2 DEF DiskOK
  <2> QED
    BY <2>2, <2>3
<1>3. CASE s.do = "DeleteEntry"
  BY <1>3, DeleteRowsKeepsDisk DEF Exec, Ok
<1>4. CASE s.do = "DeleteNonFavorites"
  BY <1>4, DeleteRowsKeepsDisk DEF Exec, Ok
<1>5. CASE s.do = "DeleteContent"
  <2>1. r = [d EXCEPT !.contents = Drop(@, {s.id})]
    BY <1>5 DEF Exec, Ok
  <2>2. IsMap(Drop(d.contents, {s.id}), DOMAIN d.rows, Copyable)
    BY <1>a, DropIsMap
  <2> QED
    BY <1>a, <2>1, <2>2 DEF DiskOK
<1>6. CASE s.do = "SetCreation"
  <2>1. PICK t \in 1 .. n : s = [do |-> "SetCreation", id |-> own[t], time |-> t]
    BY <1>6 DEF Statement
  <2>2. r = IF own[t] \in DOMAIN d.rows THEN [d EXCEPT !.rows[own[t]] = t] ELSE d
    BY <1>6, <2>1 DEF Exec, Ok
  <2> QED
    BY <1>a, <2>2 DEF DiskOK, IsMap
<1>7. CASE s.do = "InsertFavorite"
  <2>1. s.position \in Nat
    BY <1>7 DEF Statement
  <2>2. CASE s.id \notin DOMAIN d.rows \/ s.id \in DOMAIN d.favs
    BY <1>7, <2>2 DEF Exec, Failed
  <2>3. CASE ~(s.id \notin DOMAIN d.rows \/ s.id \in DOMAIN d.favs)
    <3> DEFINE row == [position |-> s.position, title |-> None]
    <3>1. r = [d EXCEPT !.favs = Put(@, s.id, row)]
      BY <1>7, <2>3 DEF Exec, Ok
    <3>2. row \in FavRow
      BY <1>b, <2>1 DEF FavRow
    <3> HIDE DEF row
    <3>3. IsMap(Put(d.favs, s.id, row), DOMAIN d.rows, FavRow)
      BY <1>a, <2>3, <3>2, PutIsMap
    <3> QED
      BY <1>a, <3>1, <3>3 DEF DiskOK
  <2> QED
    BY <2>2, <2>3
<1>8. CASE s.do = "DeleteFavorite"
  <2>1. r = [d EXCEPT !.favs = Drop(@, {s.id})]
    BY <1>8 DEF Exec, Ok
  <2>2. IsMap(Drop(d.favs, {s.id}), DOMAIN d.rows, FavRow)
    BY <1>a, DropIsMap
  <2> QED
    BY <1>a, <2>1, <2>2 DEF DiskOK
<1>9. CASE s.do = "CloseGap"
  <2> DEFINE pos == s.position
             bad == pos = 0 /\ \E id \in DOMAIN d.favs : d.favs[id].position = 0
             f == Shifted(d.favs, pos)
  <2>1. pos \in Nat
    BY <1>9 DEF Statement
  <2>2. CASE bad
    BY <1>9, <2>2 DEF Exec, CloseGap, Failed
  <2>3. CASE ~bad
    <3>1. r = [d EXCEPT !.favs = f]
      BY <1>9, <2>3 DEF Exec, CloseGap, Ok
    <3>2. ASSUME NEW id \in DOMAIN d.favs
          PROVE  f[id] \in FavRow
      <4>1. d.favs[id] \in FavRow
        BY <1>a DEF IsMap
      <4>2. d.favs[id].position >= pos => d.favs[id].position # 0
        BY <2>1, <2>3, <4>1 DEF FavRow
      <4> QED
        BY <2>1, <4>1, <4>2 DEF FavRow, Shifted
    <3>3. DOMAIN f = DOMAIN d.favs /\ f = [id \in DOMAIN f |-> f[id]]
      BY DEF Shifted
    <3> HIDE DEF f
    <3>4. IsMap(f, DOMAIN d.rows, FavRow)
      BY <1>a, <3>2, <3>3 DEF IsMap
    <3> QED
      BY <1>a, <3>1, <3>4 DEF DiskOK
  <2> QED
    BY <2>2, <2>3
<1>10. CASE s.do = "SetTitle"
  <2>1. s.title \in AllTitles
    BY <1>10 DEF Statement
  <2>2. r = IF s.id \in DOMAIN d.favs THEN [d EXCEPT !.favs[s.id].title = s.title] ELSE d
    BY <1>10 DEF Exec, Ok
  <2>3. CASE s.id \in DOMAIN d.favs
    <3>1. d.favs[s.id] \in FavRow
      BY <1>a, <2>3 DEF IsMap
    <3>2. [d.favs[s.id] EXCEPT !.title = s.title] \in FavRow
      BY <2>1, <3>1 DEF FavRow
    <3> QED
      BY <1>a, <2>2, <2>3, <3>2 DEF DiskOK, IsMap
  <2> QED
    BY <2>2, <2>3
<1>11. s.do \in {"InsertEntry", "InsertContent", "DeleteEntry", "DeleteNonFavorites",
                 "DeleteContent", "SetCreation", "InsertFavorite", "DeleteFavorite",
                 "CloseGap", "SetTitle"}
  BY DEF Statement
<1> QED
  BY <1>1, <1>2, <1>3, <1>4, <1>5, <1>6, <1>7, <1>8, <1>9, <1>10, <1>11

-----------------------------------------------------------------------------
(* Sequences: what SequencesExt does to them                               *)

LEMMA RemovedAt ==
  ASSUME NEW T, NEW s \in Seq(T), NEW i \in 1 .. Len(s)
  PROVE  /\ S!RemoveAt(s, i) \in Seq(T)
         /\ Len(S!RemoveAt(s, i)) = Len(s) - 1
<1> DEFINE a == SubSeq(s, 1, i - 1)
           z == SubSeq(s, i + 1, Len(s))
<1>1. a \in Seq(T) /\ Len(a) = i - 1 /\ z \in Seq(T) /\ Len(z) = Len(s) - i
  OBVIOUS
<1> HIDE DEF a, z
<1>2. a \o z \in Seq(T) /\ Len(a \o z) = Len(s) - 1
  BY <1>1
<1> QED
  BY <1>2 DEF S!RemoveAt, a, z

LEMMA InsertedAt ==
  ASSUME NEW T, NEW s \in Seq(T), NEW i \in 1 .. Len(s) + 1, NEW e \in T
  PROVE  /\ S!InsertAt(s, i, e) \in Seq(T)
         /\ Len(S!InsertAt(s, i, e)) = Len(s) + 1
         /\ Range(S!InsertAt(s, i, e)) = Range(s) \cup {e}
         /\ \A j \in 1 .. Len(s) + 1 :
              S!InsertAt(s, i, e)[j] = IF j < i THEN s[j] ELSE IF j = i THEN e ELSE s[j - 1]
<1> DEFINE a == SubSeq(s, 1, i - 1)
           z == SubSeq(s, i, Len(s))
           r == (a \o << e >>) \o z
<1>1. /\ a \in Seq(T) /\ Len(a) = i - 1
      /\ z \in Seq(T) /\ Len(z) = Len(s) - i + 1
      /\ \A j \in 1 .. i - 1 : a[j] = s[j]
      /\ \A j \in 1 .. Len(s) - i + 1 : z[j] = s[i + j - 1]
  OBVIOUS
<1> HIDE DEF a, z
<1>2. /\ a \o << e >> \in Seq(T) /\ Len(a \o << e >>) = i
      /\ \A j \in 1 .. i : (a \o << e >>)[j] = IF j = i THEN e ELSE s[j]
  BY <1>1
<1>3. /\ r \in Seq(T) /\ Len(r) = Len(s) + 1
      /\ \A j \in 1 .. Len(s) + 1 :
           r[j] = IF j < i THEN s[j] ELSE IF j = i THEN e ELSE s[j - 1]
  <2> DEFINE b == a \o << e >>
  <2>1. /\ b \in Seq(T) /\ Len(b) = i
        /\ \A j \in 1 .. i : b[j] = IF j = i THEN e ELSE s[j]
    BY <1>2
  <2> HIDE DEF b
  <2>2. /\ Len(b \o z) = Len(b) + Len(z)
        /\ DOMAIN (b \o z) = 1 .. Len(b) + Len(z)
        /\ \A j \in 1 .. Len(b) + Len(z) :
             (b \o z)[j] = IF j <= Len(b) THEN b[j] ELSE z[j - Len(b)]
    <3>1. b \in Seq(T) /\ z \in Seq(T)
      BY <1>1, <2>1
    <3> QED
      BY <3>1, Joined, Zenon
  <2>3. b \o z \in Seq(T) /\ Len(b \o z) = Len(s) + 1
    BY <1>1, <2>1, <2>2
  <2>4. ASSUME NEW j \in 1 .. Len(s) + 1
        PROVE  (b \o z)[j] = IF j < i THEN s[j] ELSE IF j = i THEN e ELSE s[j - 1]
    <3>1. (b \o z)[j] = IF j <= i THEN b[j] ELSE z[j - i]
      BY <1>1, <2>1, <2>2
    <3>2. CASE j <= i
      BY <2>1, <3>1, <3>2
    <3>3. CASE j > i
      <4>1. j - i \in 1 .. Len(s) - i + 1 /\ i + (j - i) - 1 = j - 1
        BY <3>3
      <4>2. z[j - i] = s[j - 1]
        BY <1>1, <4>1
      <4> QED
        BY <3>1, <3>3, <4>2
    <3>4. j <= i \/ j > i
      OBVIOUS
    <3> QED
      BY <3>2, <3>3, <3>4, Zenon
  <2> QED
    BY <2>3, <2>4 DEF b
<1> HIDE DEF r
<1>4. DOMAIN r = 1 .. Len(s) + 1 /\ DOMAIN s = 1 .. Len(s) /\ Len(s) \in Nat
  BY <1>3
<1>5. Range(r) \subseteq Range(s) \cup {e}
  <2> SUFFICES ASSUME NEW j \in 1 .. Len(s) + 1
               PROVE  r[j] \in Range(s) \cup {e}
    BY <1>4 DEF Range
  <2>1. j < i => j \in 1 .. Len(s)
    BY <1>4
  <2>2. ~(j < i) /\ j # i => j - 1 \in 1 .. Len(s)
    BY <1>4
  <2> QED
    BY <1>3, <1>4, <2>1, <2>2 DEF Range
<1>6. Range(s) \cup {e} \subseteq Range(r)
  <2>1. i \in DOMAIN r /\ r[i] = e
    BY <1>3, <1>4
  <2>2. ASSUME NEW j \in 1 .. Len(s)
        PROVE  \E k \in DOMAIN r : r[k] = s[j]
    <3>1. CASE j < i
      <4>1. j \in DOMAIN r /\ r[j] = s[j]
        BY <1>3, <1>4, <3>1
      <4> QED
        BY <4>1
    <3>2. CASE ~(j < i)
      <4>1. j + 1 \in DOMAIN r /\ (j + 1) - 1 = j /\ ~(j + 1 < i) /\ j + 1 # i
        BY <1>4, <3>2
      <4>2. r[j + 1] = s[j]
        BY <1>3, <1>4, <4>1
      <4> QED
        BY <4>1, <4>2
    <3> QED
      BY <3>1, <3>2
  <2> QED
    BY <1>4, <2>1, <2>2 DEF Range
<1>7. S!InsertAt(s, i, e) = r
  BY DEF S!InsertAt, r, a, z
<1> QED
  BY <1>3, <1>5, <1>6, <1>7

\* A finite set listed in some order.
LEMMA ListedSet ==
  ASSUME NEW T, IsFiniteSet(T)
  PROVE  S!SetToSeq(T) \in Seq(T) /\ Range(S!SetToSeq(T)) = T
<1> DEFINE N == Cardinality(T)
<1>1. N \in Nat /\ ExistsBijection(1 .. N, T)
  BY FS_CardinalityType
<1>2. PICK f \in [1 .. N -> T] : IsInjective(f)
  BY <1>1 DEF ExistsBijection, Bijection, Injection
<1>a. S!Cardinality(T) = N
  BY Zenon DEF S!Cardinality, Cardinality
<1> DEFINE F == [1 .. S!Cardinality(T) -> T]
           g == CHOOSE h \in F : S!IsInjective(h)
<1>3. S!SetToSeq(T) = g
  BY DEF S!SetToSeq
<1>4. f \in F /\ S!IsInjective(f)
  BY <1>a, <1>2 DEF S!IsInjective, IsInjective
<1>5. g \in F /\ S!IsInjective(g)
  <2> HIDE DEF F
  <2> QED
    BY <1>4
<1> HIDE DEF g, N
<1>6. g \in [1 .. N -> T] /\ IsInjective(g)
  BY <1>a, <1>5 DEF S!IsInjective, IsInjective
<1>7. IsFiniteSet(1 .. N) /\ Cardinality(1 .. N) = N
  BY <1>1, FS_Interval
<1>8. g \in Surjection(1 .. N, T)
  <2>1. g \in Injection(1 .. N, T)
    BY <1>6 DEF Injection
  <2>2. Cardinality(1 .. N) = Cardinality(T)
    BY <1>7 DEF N
  <2> QED
    BY <2>1, <2>2, FS_Injection
<1>9. g \in Seq(T) /\ Range(g) = T
  BY <1>1, <1>6, <1>8 DEF Surjection, Range
<1> QED
  BY <1>3, <1>9

-----------------------------------------------------------------------------
(* What reload makes of the tables                                         *)

LEMMA DiskFinite ==
  ASSUME NEW d, NEW n \in Nat, NEW own, DiskOK(d, n, own)
  PROVE  /\ DOMAIN d.rows \subseteq 1 .. n /\ IsFiniteSet(DOMAIN d.rows)
         /\ DOMAIN d.favs \subseteq DOMAIN d.rows /\ IsFiniteSet(DOMAIN d.favs)
         /\ \A id \in DOMAIN d.favs : d.favs[id] \in FavRow
         /\ \A id \in DOMAIN d.rows : d.rows[id] \in 1 .. n
<1>1. /\ DOMAIN d.rows \subseteq 1 .. n
      /\ DOMAIN d.favs \subseteq DOMAIN d.rows
      /\ \A id \in DOMAIN d.favs : d.favs[id] \in FavRow
      /\ \A id \in DOMAIN d.rows : d.rows[id] \in 1 .. n
  BY DEF DiskOK, IsMap
<1>2. IsFiniteSet(1 .. n)
  BY FS_Interval
<1> QED
  BY <1>1, <1>2, FS_Subset

\* ORDER BY position lists every favorite once, by position.
LEMMA FavRowsListFavs ==
  ASSUME NEW d, NEW n \in Nat, NEW own, DiskOK(d, n, own)
  PROVE  /\ FavRows(d) \in Seq(DOMAIN d.favs)
         /\ Len(FavRows(d)) = Cardinality(DOMAIN d.favs)
         /\ Range(FavRows(d)) = DOMAIN d.favs
         /\ OnceEach(FavRows(d))
         /\ \A i, j \in DOMAIN FavRows(d) :
              i < j => d.favs[FavRows(d)[i]].position <= d.favs[FavRows(d)[j]].position
<1> DEFINE D == DOMAIN d.favs
           before(x, y) == \/ d.favs[x].position < d.favs[y].position
                           \/ d.favs[x].position = d.favs[y].position /\ x < y
           R == {p \in D \X D : before(p[1], p[2])}
           at(i) == CHOOSE x \in D : Cardinality({y \in D : before(y, x)}) = i - 1
           N == Cardinality(D)
<1>1. /\ D \subseteq Nat /\ IsFiniteSet(D)
      /\ \A x \in D : d.favs[x].position \in Nat
  <2>1. /\ D \subseteq 1 .. n /\ IsFiniteSet(D)
        /\ \A x \in D : d.favs[x] \in FavRow
    BY DiskFinite
  <2> HIDE DEF D
  <2> QED
    BY <2>1 DEF FavRow
<1>2. \A x, y \in D : << x, y >> \in R <=> before(x, y)
  OBVIOUS
<1>3. StrictOrder(R, D)
  <2>1. \A x, y \in D : x # y => before(x, y) \/ before(y, x)
    BY <1>1
  <2>2. \A x, y \in D : ~(before(x, y) /\ before(y, x))
    BY <1>1
  <2>3. \A x, y, z \in D : before(x, y) /\ before(y, z) => before(x, z)
    BY <1>1
  <2> HIDE DEF before, R
  <2> QED
    BY <1>2, <2>1, <2>2, <2>3 DEF StrictOrder
<1>4. \A x \in D : Rank(x, D, R) = Cardinality({y \in D : before(y, x)})
  <2> SUFFICES ASSUME NEW x \in D
               PROVE  {y \in D : << y, x >> \in R} = {y \in D : before(y, x)}
    BY DEF Rank
  <2> HIDE DEF R, before
  <2> QED
    BY <1>2
<1>5. FavRows(d) = [i \in 1 .. N |-> at(i)]
  BY DEF FavRows
<1>6. /\ \A k \in 1 .. N : \E x \in D : Rank(x, D, R) = k - 1
      /\ \A x, y \in D : Rank(x, D, R) = Rank(y, D, R) => x = y
  <2> HIDE DEF R, D
  <2> QED
    BY <1>1, <1>3, EachRankOnce
<1>7. \A k \in 1 .. N : at(k) \in D /\ Rank(at(k), D, R) = k - 1
  <2> SUFFICES ASSUME NEW k \in 1 .. N
               PROVE  at(k) \in D /\ Rank(at(k), D, R) = k - 1
    OBVIOUS
  <2>1. PICK x \in D : Cardinality({y \in D : before(y, x)}) = k - 1
    BY <1>4, <1>6
  <2> HIDE DEF before, R, D
  <2>2. at(k) \in D /\ Cardinality({y \in D : before(y, at(k))}) = k - 1
    BY <2>1
  <2> QED
    BY <1>4, <2>2
<1>8. N \in Nat /\ \A x \in D : Rank(x, D, R) \in 0 .. N - 1
  <2> HIDE DEF R, D
  <2> QED
    BY <1>1, <1>3, FS_CardinalityType, RanksFollow
<1> HIDE DEF R, D, at, N
<1>9. FavRows(d) \in Seq(D) /\ Len(FavRows(d)) = N
  BY <1>5, <1>7, <1>8
<1>10. \A x \in D : \E k \in 1 .. N : at(k) = x
  <2> SUFFICES ASSUME NEW x \in D
               PROVE  \E k \in 1 .. N : at(k) = x
    OBVIOUS
  <2>1. Rank(x, D, R) + 1 \in 1 .. N /\ (Rank(x, D, R) + 1) - 1 = Rank(x, D, R)
    BY <1>8
  <2> QED
    BY <1>6, <1>7, <2>1
<1>11. Range(FavRows(d)) = D
  BY <1>5, <1>7, <1>10 DEF Range
<1>12. OnceEach(FavRows(d))
  <2> SUFFICES ASSUME NEW i \in 1 .. N, NEW j \in 1 .. N, at(i) = at(j)
               PROVE  i = j
    BY <1>5, <1>8 DEF OnceEach
  <2>1. i - 1 = j - 1
    BY <1>7
  <2> QED
    BY <1>8, <2>1
<1>13. ASSUME NEW i \in 1 .. N, NEW j \in 1 .. N, i < j
       PROVE  d.favs[at(i)].position <= d.favs[at(j)].position
  <2>1. at(i) \in D /\ at(j) \in D /\ Rank(at(i), D, R) = i - 1 /\ Rank(at(j), D, R) = j - 1
    BY <1>7
  <2>2. << at(j), at(i) >> \in R => Rank(at(j), D, R) < Rank(at(i), D, R)
    BY <1>1, <1>3, <2>1, RanksFollow
  <2>3. << at(j), at(i) >> \notin R
    BY <1>8, <1>13, <2>1, <2>2
  <2>4. at(i) # at(j)
    BY <1>8, <1>13, <2>1
  <2>5. before(at(i), at(j))
    BY <1>2, <1>3, <2>1, <2>3, <2>4 DEF StrictOrder
  <2>6. d.favs[at(i)].position \in Nat /\ d.favs[at(j)].position \in Nat
    <3> HIDE DEF before
    <3> QED
      BY <1>1, <2>1
  <2>7. \/ d.favs[at(i)].position < d.favs[at(j)].position
        \/ d.favs[at(i)].position = d.favs[at(j)].position
    BY <2>5
  <2> QED
    BY ONLY <2>6, <2>7
<1>14. DOMAIN FavRows(d) = 1 .. N /\ \A i \in 1 .. N : FavRows(d)[i] = at(i)
  BY <1>5
<1> QED
  BY <1>9, <1>11, <1>12, <1>13, <1>14 DEF D, N

\* The insertions of reload, one row after another.
LEMMA LoadedFavsListFavs ==
  ASSUME NEW d, NEW n \in Nat, NEW own, DiskOK(d, n, own), FavsLoadable(d)
  PROVE  /\ LoadedFavs(d) \in Seq(DOMAIN d.favs)
         /\ Range(LoadedFavs(d)) = DOMAIN d.favs
         /\ (\A i \in DOMAIN FavRows(d) : d.favs[FavRows(d)[i]].position = i - 1)
              => LoadedFavs(d) = FavRows(d)
<1> DEFINE D == DOMAIN d.favs
           rows == FavRows(d)
           N == Len(rows)
           pos(i) == d.favs[rows[i]].position
           dense == \A i \in DOMAIN rows : pos(i) = i - 1
           Step(g, i) == IF i = 0 THEN << >>
                         ELSE S!InsertAt(g[i - 1], pos(i) + 1, rows[i])
           IsRec(g, m) == g = [i \in 0 .. m |-> Step(g, i)]
<1>1. /\ rows \in Seq(D) /\ Range(rows) = D /\ N \in Nat
      /\ \A i \in 1 .. N : rows[i] \in D /\ pos(i) \in Nat /\ pos(i) <= i - 1
  <2>1. rows \in Seq(D) /\ Range(rows) = D
    BY FavRowsListFavs
  <2>2. \A x \in D : d.favs[x].position \in Nat
    BY DiskFinite DEF FavRow
  <2> QED
    BY <2>1, <2>2 DEF FavsLoadable
<1> HIDE DEF rows
<1>2. \A m \in 0 .. N : \E g : IsRec(g, m)
  <2> DEFINE Bad == {m \in 0 .. N : ~ \E g : IsRec(g, m)}
  <2> SUFFICES ASSUME Bad # {}
               PROVE  FALSE
    OBVIOUS
  <2>1. PICK m \in Bad : \A k \in Bad : m <= k
    <3>1. Bad \in SUBSET Nat
      BY <1>1
    <3> HIDE DEF Bad
    <3> QED
      BY <3>1, LeastNatural
  <2>2. m \in 0 .. N /\ ~ \E g : IsRec(g, m)
    OBVIOUS
  <2>3. CASE m = 0
    <3>1. IsRec([i \in 0 .. 0 |-> << >>], 0)
      OBVIOUS
    <3> QED
      BY <2>2, <2>3, <3>1
  <2>4. CASE m # 0
    <3>0. /\ m - 1 \in 0 .. N /\ m \in 1 .. N
      BY <1>1, <2>2, <2>4
    <3>1. m - 1 \in 0 .. N /\ m - 1 \notin Bad /\ m \in 1 .. N
      <4> HIDE DEF Bad
      <4>1. m - 1 \in Bad => m <= m - 1
        BY <2>1
      <4> QED
        BY <1>1, <3>0, <4>1
    <3>2. PICK g : IsRec(g, m - 1)
      BY <3>1
    <3> DEFINE h == [i \in 0 .. m |-> IF i = m THEN S!InsertAt(g[m - 1], pos(m) + 1, rows[m])
                                      ELSE g[i]]
    <3>3. ASSUME NEW i \in 0 .. m
          PROVE  h[i] = Step(h, i)
      <4>1. CASE i = m
        <5>1. m - 1 \in 0 .. m /\ m - 1 # m /\ i # 0
          BY <1>1, <2>2, <2>4, <4>1
        <5>2. h[m - 1] = g[m - 1]
          BY <5>1
        <5>3. h[i] = S!InsertAt(g[m - 1], pos(m) + 1, rows[m])
          BY <4>1
        <5> HIDE DEF h, pos
        <5> QED
          BY <4>1, <5>1, <5>2, <5>3
      <4>2. CASE i # m
        <5>1. i \in 0 .. m - 1
          BY <1>1, <2>2, <4>2
        <5>2. g[i] = Step(g, i)
          BY <3>2, <5>1
        <5>3. h[i] = g[i]
          BY <4>2
        <5>4. i # 0 => h[i - 1] = g[i - 1]
          BY <1>1, <2>2, <5>1
        <5> HIDE DEF h, pos
        <5> QED
          BY <5>2, <5>3, <5>4
      <4> QED
        BY <4>1, <4>2
    <3>4. h = [i \in 0 .. m |-> h[i]]
      OBVIOUS
    <3> HIDE DEF h, Step
    <3>5. IsRec(h, m)
      BY <3>3, <3>4
    <3> QED
      BY <2>2, <3>5
  <2> QED
    BY <2>3, <2>4
<1> DEFINE f == CHOOSE g : IsRec(g, N)
<1>3. LoadedFavs(d) = f[N]
  BY DEF LoadedFavs, rows
<1>4. IsRec(f, N)
  <2>1. \E g : IsRec(g, N)
    BY <1>1, <1>2
  <2> HIDE DEF IsRec
  <2> QED
    BY <2>1
<1> HIDE DEF f
<1>5. ASSUME NEW i \in 0 .. N
      PROVE  f[i] = Step(f, i)
  <2> DEFINE g == [j \in 0 .. N |-> Step(f, j)]
  <2>1. f = g
    BY <1>4
  <2>2. g[i] = Step(f, i)
    OBVIOUS
  <2> HIDE DEF g, Step
  <2> QED
    BY <2>1, <2>2
<1> DEFINE Listed(i) == /\ f[i] \in Seq(D) /\ Len(f[i]) = i
                        /\ Range(f[i]) = {rows[j] : j \in 1 .. i}
                        /\ dense => \A j \in 1 .. i : f[i][j] = rows[j]
<1>6. \A i \in 0 .. N : Listed(i)
  <2> DEFINE Bad == {i \in 0 .. N : ~Listed(i)}
  <2> SUFFICES ASSUME Bad # {}
               PROVE  FALSE
    OBVIOUS
  <2>1. PICK i \in Bad : \A k \in Bad : i <= k
    <3>1. Bad \in SUBSET Nat
      BY <1>1
    <3> HIDE DEF Bad
    <3> QED
      BY <3>1, LeastNatural
  <2>2. i \in 0 .. N /\ ~Listed(i)
    OBVIOUS
  <2>3. CASE i = 0
    <3>1. f[0] = << >>
      BY <1>5, <2>2, <2>3
    <3>2. Listed(0)
      BY <3>1 DEF Range
    <3> QED
      BY <2>2, <2>3, <3>2
  <2>4. CASE i # 0
    <3>0. /\ i - 1 \in 0 .. N /\ i \in 1 .. N
      BY <1>1, <2>2, <2>4
    <3>1. i - 1 \in 0 .. N /\ i - 1 \notin Bad /\ i \in 1 .. N
      <4> HIDE DEF Bad
      <4>1. i - 1 \in Bad => i <= i - 1
        BY <2>1
      <4> QED
        BY <1>1, <3>0, <4>1
    <3>2. Listed(i - 1)
      BY <3>1
    <3>3. f[i] = S!InsertAt(f[i - 1], pos(i) + 1, rows[i])
      BY <1>5, <2>2, <2>4
    <3>4. pos(i) + 1 \in 1 .. Len(f[i - 1]) + 1 /\ rows[i] \in D
      BY <1>1, <3>1, <3>2
    <3>a. dense => pos(i) + 1 = i
      <4>1. i \in DOMAIN rows
        BY <1>1, <3>1
      <4> QED
        BY <3>1, <4>1
    <3> HIDE DEF pos, dense
    <3>5. /\ f[i] \in Seq(D) /\ Len(f[i]) = i
          /\ Range(f[i]) = Range(f[i - 1]) \cup {rows[i]}
      <4>1. f[i - 1] \in Seq(D) /\ Len(f[i - 1]) + 1 = i
        BY <3>1, <3>2
      <4> QED
        BY <3>3, <3>4, <4>1, InsertedAt
    <3>6. {rows[j] : j \in 1 .. i} = {rows[j] : j \in 1 .. i - 1} \cup {rows[i]}
      <4>1. 1 .. i = (1 .. i - 1) \cup {i}
        BY <3>1
      <4> QED
        BY <4>1
    <3>7. ASSUME dense, NEW j \in 1 .. i
          PROVE  f[i][j] = rows[j]
      <4>1. f[i - 1] \in Seq(D) /\ Len(f[i - 1]) + 1 = i
        BY <3>1, <3>2
      <4>3. pos(i) + 1 = i
        BY <3>7, <3>a
      <4>4. f[i][j] = IF j < i THEN f[i - 1][j] ELSE IF j = i THEN rows[i] ELSE f[i - 1][j - 1]
        <5> DEFINE g == f[i - 1]
                   x == rows[i]
        <5>1. g \in Seq(D) /\ Len(g) + 1 = i /\ i \in 1 .. Len(g) + 1 /\ x \in D
          BY <3>1, <3>4, <4>1
        <5>2. f[i] = S!InsertAt(g, i, x)
          BY <3>3, <4>3
        <5> HIDE DEF g, x, f, D
        <5>3. \A k \in 1 .. Len(g) + 1 :
                S!InsertAt(g, i, x)[k] = IF k < i THEN g[k] ELSE IF k = i THEN x ELSE g[k - 1]
          BY <5>1, InsertedAt
        <5> QED
          BY <5>1, <5>2, <5>3 DEF g, x
      <4>5. j < i => j \in 1 .. i - 1
        BY <3>1
      <4>6. j < i \/ j = i
        BY <3>1
      <4> QED
        BY <3>2, <3>7, <4>4, <4>5, <4>6
    <3> QED
      BY <2>2, <3>2, <3>5, <3>6, <3>7
  <2> QED
    BY <2>3, <2>4
<1>7. {rows[j] : j \in 1 .. N} = D
  BY <1>1 DEF Range
<1>8. f[N] \in Seq(D) /\ Range(f[N]) = D /\ (dense => f[N] = rows)
  <2>1. N \in 0 .. N
    BY <1>1
  <2>2. Listed(N)
    BY <1>6, <2>1
  <2>3. dense => f[N] = rows
    <3> DEFINE z == f[N]
    <3>1. z \in Seq(D) /\ Len(z) = Len(rows) /\ (dense => \A j \in 1 .. Len(rows) : z[j] = rows[j])
      BY <2>2
    <3> HIDE DEF z, D, dense
    <3>2. dense => z = rows
      BY <1>1, <3>1
    <3> QED
      BY <3>2 DEF z
  <2> HIDE DEF N, D, dense
  <2> QED
    BY <1>7, <2>2, <2>3
<1> QED
  BY <1>3, <1>8 DEF rows

\* No search is active here; the store has its flag.
Unsearched(st) == st.query = None /\ st.filtered = << >> /\ st.panicked \in BOOLEAN

\* A store between two reads of a reload.
Reloading(st, n) ==
  Good(st, n, AllTitles) /\ Unsearched(st) /\ DOMAIN st.hashs = {}

\* A store the handlers may work on.
Working(st, n) ==
  Good(st, n, AllTitles) /\ Unsearched(st) /\ HashsLive(st)

LEMMA EmptyReloading ==
  ASSUME NEW n \in Nat
  PROVE  Reloading(EmptyStore, n) /\ Working(EmptyStore, n) /\ DOMAIN EmptyStore.entries = {}
<1>1. Typed(EmptyStore, n, AllTitles)
  BY DEF Typed, AllTitles, Fields, EmptyStore, Empty, IsMap
<1>2. TimesGood(EmptyStore) /\ HashsLive(EmptyStore) /\ FavsGood(EmptyStore)
  BY DEF EmptyStore, Empty, TimesGood, HashsLive, FavsGood
<1>3. Unsearched(EmptyStore) /\ DOMAIN EmptyStore.entries = {} /\ DOMAIN EmptyStore.hashs = {}
  BY DEF EmptyStore, Empty, Unsearched
<1> QED
  BY <1>1, <1>2, <1>3 DEF Good, Reloading, Working

LEMMA ReloadingWorks ==
  ASSUME NEW st, NEW n, Reloading(st, n)
  PROVE  Working(st, n)
  BY DEF Reloading, Working, HashsLive

LEMMA WithFavsReloads ==
  ASSUME NEW st, NEW n \in Nat, Reloading(st, n), DOMAIN st.entries = {},
         NEW d, NEW own, DiskOK(d, n, own), FavsLoadable(d)
  PROVE  Reloading(WithFavs(st, d), n)
<1> DEFINE new == WithFavs(st, d)
           D == DOMAIN d.favs
<1>1. /\ LoadedFavs(d) \in Seq(D) /\ Range(LoadedFavs(d)) = D
      /\ D \subseteq 1 .. n
      /\ \A id \in D : d.favs[id].title \in AllTitles
  BY LoadedFavsListFavs, DiskFinite DEF FavRow
<1>2. /\ DOMAIN st = Fields /\ None \in AllTitles
      /\ IsMap(st.entries, 1 .. n, EntryUpTo(n, AllTitles))
      /\ IsMap(st.hashs, Hashes, 1 .. n) /\ IsMap(st.times, 1 .. n, 1 .. n)
      /\ TimesGood(st)
  BY DEF Reloading, Good, Typed
<1>3. /\ DOMAIN new = Fields
      /\ new.entries = st.entries /\ new.hashs = st.hashs /\ new.times = st.times
      /\ new.favs = LoadedFavs(d)
      /\ new.favSet = D
      /\ new.titles = [id \in D |-> d.favs[id].title]
      /\ new.query = st.query /\ new.filtered = st.filtered /\ new.panicked = st.panicked
  BY <1>2 DEF WithFavs, Fields
<1> HIDE DEF new
<1>4. LoadedFavs(d) \in Seq(1 .. n)
  BY <1>1
<1>5. IsMap(new.titles, 1 .. n, AllTitles)
  BY <1>1, <1>3 DEF IsMap
<1>6. Typed(new, n, AllTitles)
  BY <1>1, <1>2, <1>3, <1>4, <1>5 DEF Typed
<1>7. TimesGood(new)
  BY <1>2, <1>3 DEF TimesGood
<1>8. FavsGood(new)
  BY <1>1, <1>3 DEF FavsGood
<1> QED
  BY <1>3, <1>6, <1>7, <1>8 DEF Reloading, Good, Unsearched, new

\* No two entries have the same creation, so the time index finds each.
LEMMA WithEntriesReloads ==
  ASSUME NEW st, NEW n \in Nat, Reloading(st, n),
         NEW d, NEW own, DiskOK(d, n, own)
  PROVE  Reloading(WithEntries(st, d), n)
<1> DEFINE new == WithEntries(st, d)
           D == DOMAIN d.rows
           e(id) == [creation |-> d.rows[id], content |-> Blank,
                     is_favorite |-> id \in st.favSet,
                     favorite_title |-> IF id \in st.favSet THEN st.titles[id] ELSE None]
           T == {d.rows[id] : id \in D}
           at(t) == CHOOSE id \in D : d.rows[id] = t
<1>1. /\ D \subseteq 1 .. n /\ \A id \in D : d.rows[id] \in 1 .. n
      /\ \A id \in D : own[d.rows[id]] = id
  BY DiskFinite DEF DiskOK
<1>2. /\ DOMAIN st = Fields /\ None \in AllTitles
      /\ IsMap(st.hashs, Hashes, 1 .. n)
      /\ st.favs \in Seq(1 .. n) /\ st.favSet \subseteq 1 .. n
      /\ IsMap(st.titles, 1 .. n, AllTitles)
      /\ st.favSet \subseteq Range(st.favs)
      /\ \A id \in st.favSet : id \in DOMAIN st.titles
  BY DEF Reloading, Good, Typed, FavsGood
<1>3. /\ DOMAIN new = Fields
      /\ new.entries = [id \in D |-> e(id)]
      /\ new.times = [t \in T |-> at(t)]
      /\ new.hashs = st.hashs
      /\ new.favs = st.favs
      /\ new.favSet = st.favSet
      /\ new.titles = st.titles
      /\ new.query = st.query /\ new.filtered = st.filtered /\ new.panicked = st.panicked
  BY <1>2 DEF WithEntries, Fields
<1>4. \A id \in D : at(d.rows[id]) = id
  <2> SUFFICES ASSUME NEW id \in D
               PROVE  at(d.rows[id]) = id
    OBVIOUS
  <2>1. at(d.rows[id]) \in D /\ d.rows[at(d.rows[id])] = d.rows[id]
    OBVIOUS
  <2> QED
    BY <1>1, <2>1
<1> HIDE DEF new, at
<1>5. \A id \in D : e(id) \in EntryUpTo(n, AllTitles)
  BY <1>1, <1>2, PersistenceAssumption DEF EntryUpTo, IsMap
<1>6. IsMap(new.entries, 1 .. n, EntryUpTo(n, AllTitles))
  <2> HIDE DEF e
  <2> QED
    BY <1>1, <1>3, <1>5 DEF IsMap
<1>7. T \subseteq 1 .. n /\ \A t \in T : at(t) \in D /\ d.rows[at(t)] = t
  BY <1>1, <1>4
<1>8. IsMap(new.times, 1 .. n, 1 .. n)
  BY <1>1, <1>3, <1>7 DEF IsMap
<1>9. Typed(new, n, AllTitles)
  BY <1>2, <1>3, <1>6, <1>8 DEF Typed
<1>10. TimesGood(new)
  <2>1. \A id \in D : new.entries[id].creation = d.rows[id]
    BY <1>3
  <2>2. \A id \in D : d.rows[id] \in T
    OBVIOUS
  <2>3. DOMAIN new.entries = D /\ DOMAIN new.times = T /\ \A t \in T : new.times[t] = at(t)
    BY <1>3
  <2>4. \A id \in D : new.times[d.rows[id]] = id
    BY <1>4, <2>2, <2>3
  <2>5. \A t \in T : new.times[t] \in D /\ d.rows[new.times[t]] = t
    BY <1>7, <2>3
  <2> HIDE DEF T, D
  <2> QED
    BY <2>1, <2>2, <2>3, <2>4, <2>5 DEF TimesGood
<1>11. FavsGood(new)
  <2>1. \A id \in D : /\ new.entries[id].is_favorite <=> id \in st.favSet
                      /\ id \in st.favSet => new.entries[id].favorite_title = st.titles[id]
    <3> SUFFICES ASSUME NEW id \in D
                 PROVE  /\ new.entries[id].is_favorite <=> id \in st.favSet
                        /\ id \in st.favSet => new.entries[id].favorite_title = st.titles[id]
      OBVIOUS
    <3>1. new.entries[id] = e(id)
      BY <1>3
    <3>2. (id \in st.favSet) \in BOOLEAN
      OBVIOUS
    <3>3. e(id).is_favorite = (id \in st.favSet)
      BY Zenon
    <3>4. id \in st.favSet => e(id).favorite_title = st.titles[id]
      OBVIOUS
    <3> HIDE DEF e
    <3> QED
      BY <3>1, <3>3, <3>4, Zenon
  <2>2. DOMAIN new.entries = D
    BY <1>3
  <2> HIDE DEF D, e
  <2> QED
    BY <1>2, <1>3, <2>1, <2>2 DEF FavsGood
<1>12. Unsearched(new) /\ DOMAIN new.hashs = {}
  BY <1>3 DEF Reloading, Unsearched
<1> QED
  BY <1>9, <1>10, <1>11, <1>12 DEF Reloading, Good, new

LEMMA WithContentsReloads ==
  ASSUME NEW st, NEW n \in Nat, Reloading(st, n),
         NEW d, NEW own, DiskOK(d, n, own)
  PROVE  Reloading(WithContents(st, d), n)
<1> DEFINE new == WithContents(st, d)
           f == [id \in DOMAIN st.entries |->
                   IF id \in DOMAIN d.contents
                     THEN [st.entries[id] EXCEPT !.content = d.contents[id]]
                     ELSE st.entries[id]]
<1>1. DOMAIN st = Fields /\ IsMap(st.entries, 1 .. n, EntryUpTo(n, AllTitles))
  BY DEF Reloading, Good, Typed
<1>2. \A id \in DOMAIN d.contents : d.contents[id] \in Content
  BY DEF DiskOK, IsMap, Copyable
<1>3. \A id \in DOMAIN st.entries :
        /\ f[id] \in EntryUpTo(n, AllTitles)
        /\ f[id].creation = st.entries[id].creation
        /\ f[id].is_favorite = st.entries[id].is_favorite
        /\ f[id].favorite_title = st.entries[id].favorite_title
  BY <1>1, <1>2 DEF EntryUpTo, IsMap
<1>4. DOMAIN f = DOMAIN st.entries /\ f = [id \in DOMAIN f |-> f[id]]
  OBVIOUS
<1>5. new = [st EXCEPT !.entries = f]
  BY DEF WithContents
<1> HIDE DEF f
<1>6. /\ DOMAIN new = Fields
      /\ new.entries = f
      /\ new.times = st.times
      /\ new.hashs = st.hashs
      /\ new.favs = st.favs
      /\ new.favSet = st.favSet
      /\ new.titles = st.titles
      /\ new.query = st.query /\ new.filtered = st.filtered /\ new.panicked = st.panicked
  BY <1>1, <1>5 DEF Fields
<1> HIDE DEF new
<1>7. IsMap(f, 1 .. n, EntryUpTo(n, AllTitles))
  BY <1>1, <1>3, <1>4 DEF IsMap
<1>8. Good(st, n, AllTitles) /\ Unsearched(st) /\ DOMAIN st.hashs = {}
  BY DEF Reloading
<1>9. Typed(new, n, AllTitles)
  BY <1>6, <1>7, <1>8 DEF Good, Typed
<1>10. TimesGood(new)
  BY <1>3, <1>4, <1>6, <1>8 DEF Good, TimesGood
<1>11. FavsGood(new)
  BY <1>3, <1>4, <1>6, <1>8 DEF Good, FavsGood
<1>12. Unsearched(new) /\ DOMAIN new.hashs = {}
  BY <1>6, <1>8 DEF Unsearched
<1> QED
  BY <1>9, <1>10, <1>11, <1>12 DEF Reloading, Good, new

\* Whichever of the entries with one hash the index keeps, it is one of them.
LEMMA HashedWorks ==
  ASSUME NEW st, NEW n \in Nat, Reloading(st, n), NEW h \in HashIndexes(st)
  PROVE  Working([st EXCEPT !.hashs = h], n)
<1> DEFINE new == [st EXCEPT !.hashs = h]
           hs == {Hash[st.entries[id].content] : id \in DOMAIN st.entries}
<1>1. /\ h \in [hs -> DOMAIN st.entries]
      /\ \A x \in hs : Hash[st.entries[h[x]].content] = x
  BY DEF HashIndexes
<1>2. /\ DOMAIN st = Fields
      /\ IsMap(st.entries, 1 .. n, EntryUpTo(n, AllTitles))
      /\ Good(st, n, AllTitles) /\ Unsearched(st)
  BY DEF Reloading, Good, Typed
<1>3. \A id \in DOMAIN st.entries : st.entries[id].content \in Content /\ id \in 1 .. n
  BY <1>2 DEF IsMap, EntryUpTo
<1>4. hs \subseteq Hashes
  BY <1>3 DEF Hashes
<1>5. IsMap(h, Hashes, 1 .. n)
  BY <1>1, <1>3, <1>4 DEF IsMap
<1>6. /\ DOMAIN new = Fields
      /\ new.entries = st.entries
      /\ new.times = st.times
      /\ new.hashs = h
      /\ new.favs = st.favs
      /\ new.favSet = st.favSet
      /\ new.titles = st.titles
      /\ new.query = st.query /\ new.filtered = st.filtered /\ new.panicked = st.panicked
  BY <1>2 DEF Fields
<1> HIDE DEF new
<1>7. Typed(new, n, AllTitles)
  BY <1>2, <1>5, <1>6 DEF Good, Typed
<1>8. TimesGood(new) /\ FavsGood(new) /\ Unsearched(new)
  BY <1>2, <1>6 DEF Good, TimesGood, FavsGood, Unsearched
<1>9. HashsLive(new)
  BY <1>1, <1>6 DEF HashsLive
<1> QED
  BY <1>7, <1>8, <1>9 DEF Working, Good, new

\* A start finds the file in a state it can work on, or dies of it.
LEMMA LoadedWorks ==
  ASSUME NEW d, NEW n \in Nat, NEW own, DiskOK(d, n, own), NEW st \in Loaded(d)
  PROVE  Working(st, n)
<1>1. CASE FavsLoadable(d)
  <2> DEFINE a == WithFavs(EmptyStore, d)
             b == WithEntries(a, d)
             c == WithContents(b, d)
  <2>1. Reloading(a, n)
    BY <1>1, EmptyReloading, WithFavsReloads
  <2> HIDE DEF a
  <2>2. Reloading(b, n)
    BY <2>1, WithEntriesReloads
  <2> HIDE DEF b
  <2>3. Reloading(c, n)
    BY <2>2, WithContentsReloads
  <2>4. PICK h \in HashIndexes(c) : st = [c EXCEPT !.hashs = h]
    BY <1>1 DEF Loaded, a, b
  <2> HIDE DEF c
  <2> QED
    BY <2>3, <2>4, HashedWorks
<1>2. CASE ~FavsLoadable(d)
  <2>1. st = Panic(EmptyStore)
    BY <1>2 DEF Loaded
  <2>2. Working(EmptyStore, n)
    BY EmptyReloading
  <2>3. /\ Good(Panic(EmptyStore), n, AllTitles)
        /\ HashsLive(Panic(EmptyStore))
    BY <2>2, PanicKeepsGood, PanicKeepsHashs DEF Working
  <2>4. Unsearched(Panic(EmptyStore))
    BY DEF Panic, EmptyStore, Unsearched
  <2> QED
    BY <2>1, <2>3, <2>4 DEF Working
<1> QED
  BY <1>1, <1>2

-----------------------------------------------------------------------------
(* What the handlers spawn                                                 *)

\* The operations a handler may hand to a task, with times up to n.
Operation(n, own) ==
  {[type |-> "UpdateTimestamp", id |-> own[t], new_time |-> t] : t \in 1 .. n}
  \cup {[type |-> "InsertNew", id |-> own[t], time |-> t, data |-> c, evictions |-> gone] :
          t \in 1 .. n, c \in Copyable, gone \in SUBSET (1 .. n)}
  \cup [type : {"Delete"}, id : 1 .. n]
  \cup [type : {"ClearNonFavorites"}]
  \cup [type : {"AddFavorite"}, id : 1 .. n, position : Nat]
  \cup [type : {"RemoveFavorite"}, id : 1 .. n, old_position : Nat \cup {None}]
  \cup [type : {"SetFavoriteTitle"}, id : 1 .. n, title : AllTitles]
  \cup {[type |-> "UpdateContent", id |-> own[t], data |-> c, new_time |-> t] :
          t \in 1 .. n, c \in Copyable}

LEMMA OneStatement ==
  ASSUME NEW n, NEW own, NEW s \in Statement(n, own)
  PROVE  << s >> \in Task(n, own)
  BY DEF Task

\* persist_op runs at least one statement, and none but those of the schema.
LEMMA OperationIsTask ==
  ASSUME NEW n \in Nat, NEW own, Owner(n, own), NEW op \in Operation(n, own)
  PROVE  Statements(op) \in Task(n, own)
<1>1. CASE op.type = "UpdateTimestamp"
  <2>1. PICK t \in 1 .. n : op = [type |-> "UpdateTimestamp", id |-> own[t], new_time |-> t]
    BY <1>1 DEF Operation
  <2> DEFINE s == [do |-> "SetCreation", id |-> own[t], time |-> t]
  <2>2. Statements(op) = << s >>
    BY <1>1, <2>1 DEF Statements
  <2>3. s \in Statement(n, own)
    BY DEF Statement
  <2> QED
    BY <2>2, <2>3, OneStatement
<1>2. CASE op.type = "InsertNew"
  <2>1. PICK t \in 1 .. n, c \in Copyable, gone \in SUBSET (1 .. n) :
          op = [type |-> "InsertNew", id |-> own[t], time |-> t, data |-> c, evictions |-> gone]
    BY <1>2 DEF Operation
  <2> DEFINE a == [do |-> "InsertEntry", id |-> own[t], time |-> t]
             b == [do |-> "InsertContent", id |-> own[t], data |-> c]
             T == {[do |-> "DeleteEntry", id |-> id] : id \in gone}
  <2>2. Statements(op) = << a, b >> \o S!SetToSeq(T)
    BY <1>2, <2>1 DEF Statements
  <2>3. own[t] \in 1 .. n
    BY DEF Owner
  <2>4. a \in Statement(n, own)
    BY DEF Statement
  <2>5. b \in Statement(n, own)
    BY <2>3 DEF Statement
  <2>6. T \subseteq Statement(n, own)
    BY DEF Statement
  <2>7. IsFiniteSet(T)
    <3> DEFINE f == [id \in gone |-> [do |-> "DeleteEntry", id |-> id]]
    <3>1. IsFiniteSet(gone)
      <4>1. IsFiniteSet(1 .. n)
        BY FS_Interval
      <4> QED
        BY <4>1, FS_Subset
    <3>2. f \in Surjection(gone, T)
      BY DEF Surjection
    <3> HIDE DEF f, T
    <3> QED
      BY <3>1, <3>2, FS_Surjection
  <2> HIDE DEF a, b, T
  <2>8. S!SetToSeq(T) \in Seq(Statement(n, own))
    BY <2>6, <2>7, ListedSet
  <2>9. /\ << a, b >> \in Seq(Statement(n, own))
        /\ << a, b >> \o S!SetToSeq(T) # << >>
        /\ << a, b >> \o S!SetToSeq(T) \in Seq(Statement(n, own))
    BY <2>4, <2>5, <2>8
  <2> QED
    BY <2>2, <2>9 DEF Task
<1>3. CASE op.type = "Delete"
  <2> DEFINE s == [do |-> "DeleteEntry", id |-> op.id]
  <2>1. Statements(op) = << s >>
    BY <1>3 DEF Statements
  <2>2. s \in Statement(n, own)
    BY <1>3 DEF Statement, Operation
  <2> QED
    BY <2>1, <2>2, OneStatement
<1>4. CASE op.type = "ClearNonFavorites"
  <2> DEFINE s == [do |-> "DeleteNonFavorites"]
  <2>1. Statements(op) = << s >>
    BY <1>4 DEF Statements
  <2>2. s \in Statement(n, own)
    BY DEF Statement
  <2> QED
    BY <2>1, <2>2, OneStatement
<1>5. CASE op.type = "AddFavorite"
  <2> DEFINE s == [do |-> "InsertFavorite", id |-> op.id, position |-> op.position]
  <2>1. Statements(op) = << s >>
    BY <1>5 DEF Statements
  <2>2. s \in Statement(n, own)
    BY <1>5 DEF Statement, Operation
  <2> QED
    BY <2>1, <2>2, OneStatement
<1>6. CASE op.type = "RemoveFavorite"
  <2> DEFINE s == [do |-> "DeleteFavorite", id |-> op.id]
             z == [do |-> "CloseGap", position |-> op.old_position]
             gap == IF op.old_position = None THEN << >> ELSE << z >>
  <2>1. Statements(op) = << s >> \o gap
    BY <1>6 DEF Statements
  <2>2. op.id \in 1 .. n /\ op.old_position \in Nat \cup {None}
    BY <1>6 DEF Operation
  <2>3. s \in Statement(n, own)
    BY <2>2 DEF Statement
  <2>4. op.old_position # None => z \in Statement(n, own)
    BY <2>2 DEF Statement
  <2> HIDE DEF s, z
  <2>5. gap \in Seq(Statement(n, own))
    BY <2>4
  <2> HIDE DEF gap
  <2>6. /\ << s >> \in Seq(Statement(n, own))
        /\ << s >> \o gap \in Seq(Statement(n, own))
        /\ << s >> \o gap # << >>
    BY <2>3, <2>5
  <2> QED
    BY <2>1, <2>6 DEF Task
<1>7. CASE op.type = "SetFavoriteTitle"
  <2> DEFINE s == [do |-> "SetTitle", id |-> op.id, title |-> op.title]
  <2>1. Statements(op) = << s >>
    BY <1>7 DEF Statements
  <2>2. s \in Statement(n, own)
    BY <1>7 DEF Statement, Operation
  <2> QED
    BY <2>1, <2>2, OneStatement
<1>8. CASE op.type = "UpdateContent"
  <2>1. PICK t \in 1 .. n, c \in Copyable :
          op = [type |-> "UpdateContent", id |-> own[t], data |-> c, new_time |-> t]
    BY <1>8 DEF Operation
  <2> DEFINE a == [do |-> "DeleteContent", id |-> own[t]]
             b == [do |-> "InsertContent", id |-> own[t], data |-> c]
             z == [do |-> "SetCreation", id |-> own[t], time |-> t]
  <2>2. Statements(op) = << a, b, z >>
    BY <1>8, <2>1 DEF Statements
  <2>3. own[t] \in 1 .. n
    BY DEF Owner
  <2>4. a \in Statement(n, own)
    BY <2>3 DEF Statement
  <2>5. b \in Statement(n, own)
    BY <2>3 DEF Statement
  <2>6. z \in Statement(n, own)
    BY DEF Statement
  <2> HIDE DEF a, b, z
  <2> QED
    BY <2>2, <2>4, <2>5, <2>6 DEF Task
<1>9. op.type \in {"UpdateTimestamp", "InsertNew", "Delete", "ClearNonFavorites",
                   "AddFavorite", "RemoveFavorite", "SetFavoriteTitle", "UpdateContent"}
  BY DEF Operation
<1> QED
  BY <1>1, <1>2, <1>3, <1>4, <1>5, <1>6, <1>7, <1>8, <1>9

\* A later time, read for entry x.
Stamped(own, n, x) == [t \in 1 .. n + 1 |-> IF t = n + 1 THEN x ELSE own[t]]

LEMMA StampedKeeps ==
  ASSUME NEW n \in Nat, NEW own, Owner(n, own), NEW x \in 1 .. n + 1
  PROVE  /\ Owner(n + 1, Stamped(own, n, x))
         /\ Stamped(own, n, x)[n + 1] = x
         /\ \A t \in 1 .. n : Stamped(own, n, x)[t] = own[t]
<1>1. \A t \in 1 .. n : own[t] \in 1 .. n + 1 /\ t # n + 1
  BY DEF Owner
<1>2. \A t \in 1 .. n + 1 : t = n + 1 \/ t \in 1 .. n
  OBVIOUS
<1>3. n + 1 \in 1 .. n + 1 /\ 1 .. n \subseteq 1 .. n + 1
  OBVIOUS
<1> QED
  BY <1>1, <1>2, <1>3 DEF Owner, Stamped

LEMMA StatementsLater ==
  ASSUME NEW n \in Nat, NEW own, Owner(n, own), NEW x \in 1 .. n + 1
  PROVE  /\ Statement(n, own) \subseteq Statement(n + 1, Stamped(own, n, x))
         /\ Seq(Statement(n, own)) \subseteq Seq(Statement(n + 1, Stamped(own, n, x)))
         /\ Task(n, own) \subseteq Task(n + 1, Stamped(own, n, x))
         /\ Seq(Task(n, own)) \subseteq Seq(Task(n + 1, Stamped(own, n, x)))
<1> DEFINE new == Stamped(own, n, x)
           m == n + 1
<1>1. /\ 1 .. n \subseteq 1 .. m
      /\ \A t \in 1 .. n : new[t] = own[t]
  BY StampedKeeps
<1> HIDE DEF new, m
<1>2. ASSUME NEW s \in Statement(n, own)
      PROVE  s \in Statement(m, new)
  <2>1. CASE s \in {[do |-> k, id |-> own[t], time |-> t] :
                      k \in {"InsertEntry", "SetCreation"}, t \in 1 .. n}
    <3>1. PICK k \in {"InsertEntry", "SetCreation"}, t \in 1 .. n :
            s = [do |-> k, id |-> own[t], time |-> t]
      BY <2>1
    <3>2. t \in 1 .. m /\ s = [do |-> k, id |-> new[t], time |-> t]
      BY <1>1, <3>1
    <3> QED
      BY <3>2 DEF Statement
  <2>2. CASE s \notin {[do |-> k, id |-> own[t], time |-> t] :
                         k \in {"InsertEntry", "SetCreation"}, t \in 1 .. n}
    BY <1>1, <2>2 DEF Statement
  <2> QED
    BY <2>1, <2>2
<1>3. Seq(Statement(n, own)) \subseteq Seq(Statement(m, new))
  BY <1>2
<1>4. Task(n, own) \subseteq Task(m, new)
  BY <1>3 DEF Task
<1>5. Seq(Task(n, own)) \subseteq Seq(Task(m, new))
  BY <1>4
<1> QED
  BY <1>2, <1>3, <1>4, <1>5 DEF new, m

LEMMA DiskLater ==
  ASSUME NEW n \in Nat, NEW own, Owner(n, own), NEW x \in 1 .. n + 1,
         NEW d, DiskOK(d, n, own)
  PROVE  DiskOK(d, n + 1, Stamped(own, n, x))
<1> DEFINE new == Stamped(own, n, x)
           m == n + 1
<1>1. /\ 1 .. n \subseteq 1 .. m
      /\ \A t \in 1 .. n : new[t] = own[t]
  BY StampedKeeps
<1> HIDE DEF new, m
<1>2. /\ IsMap(d.rows, 1 .. n, 1 .. n)
      /\ \A id \in DOMAIN d.rows : own[d.rows[id]] = id
  BY DEF DiskOK
<1>3. IsMap(d.rows, 1 .. m, 1 .. m)
  BY <1>1, <1>2 DEF IsMap
<1>4. \A id \in DOMAIN d.rows : new[d.rows[id]] = id
  BY <1>1, <1>2 DEF IsMap
<1>5. DiskOK(d, m, new)
  BY <1>3, <1>4 DEF DiskOK
<1> QED
  BY <1>5 DEF new, m

LEMMA WorkingLater ==
  ASSUME NEW n \in Nat, NEW st, Working(st, n)
  PROVE  Working(st, n + 1)
  BY GoodLater DEF Working

-----------------------------------------------------------------------------
(* The operations of StoreOps on a store the handlers may work on          *)

LEMMA SearchUnsearched ==
  ASSUME NEW st, DOMAIN st = Fields, Unsearched(st)
  PROVE  Unsearched(Search(st))
  BY DEF Search, Unsearched, Fields

LEMMA UnindexUnsearched ==
  ASSUME NEW st, DOMAIN st = Fields, Unsearched(st), NEW ids
  PROVE  Unsearched(Unindex(st, ids)) /\ DOMAIN Unindex(st, ids) = Fields
  BY DEF Unindex, Unsearched, Fields

LEMMA BumpUnsearched ==
  ASSUME NEW st, DOMAIN st = Fields, Unsearched(st), NEW id, NEW now
  PROVE  Unsearched(Bump(st, id, now)) /\ DOMAIN Bump(st, id, now) = Fields
  BY DEF Bump, Unsearched, Fields

LEMMA PanicUnsearched ==
  ASSUME NEW st, DOMAIN st = Fields, Unsearched(st)
  PROVE  Unsearched(Panic(st))
  BY DEF Panic, Unsearched, Fields

LEMMA RemoveUnsearched ==
  ASSUME NEW st, DOMAIN st = Fields, Unsearched(st), NEW id
  PROVE  Unsearched(Remove(st, id)) /\ DOMAIN Remove(st, id) = Fields
<1> DEFINE left == Unindex(st, {id})
<1>1. Unsearched(left) /\ DOMAIN left = Fields
  BY UnindexUnsearched
<1>2. Remove(st, id) = left \/ Remove(st, id) = FavRemove(left, id)
  BY DEF Remove
<1> HIDE DEF left
<1>3. Unsearched(FavRemove(left, id)) /\ DOMAIN FavRemove(left, id) = Fields
  BY <1>1 DEF FavRemove, Unsearched, Fields
<1> QED
  BY <1>1, <1>2, <1>3

LEMMA WorkingFields ==
  ASSUME NEW st, NEW n, Working(st, n)
  PROVE  /\ DOMAIN st = Fields /\ Unsearched(st)
         /\ DOMAIN st.entries \subseteq 1 .. n
         /\ DOMAIN st.hashs \subseteq Hashes
         /\ \A h \in DOMAIN st.hashs : st.hashs[h] \in 1 .. n
         /\ st.favSet \subseteq 1 .. n
         /\ st.favs \in Seq(1 .. n)
  BY DEF Working, Good, Typed, IsMap

LEMMA PanicWorks ==
  ASSUME NEW st, NEW n \in Nat, Working(st, n)
  PROVE  Working(Panic(st), n)
<1>1. Good(Panic(st), n, AllTitles) /\ HashsLive(Panic(st))
  BY PanicKeepsGood, PanicKeepsHashs DEF Working
<1> QED
  BY <1>1, WorkingFields, PanicUnsearched DEF Working

LEMMA SearchWorks ==
  ASSUME NEW st, NEW n \in Nat, Working(st, n)
  PROVE  Working(Search(st), n)
<1>1. Good(Search(st), n, AllTitles) /\ HashsLive(Search(st))
  BY SearchKeepsGood, SearchKeepsSound DEF Working
<1> QED
  BY <1>1, WorkingFields, SearchUnsearched DEF Working

\* A copy: a known text is refreshed, a new one enters.
LEMMA InsertWorks ==
  ASSUME NEW st, NEW n \in Nat, Working(st, n), NEW own, Owner(n, own), NEW c \in Copyable
  PROVE  /\ Working(InsertToMemory(st, c, n + 1).db, n + 1)
         /\ \E x \in 1 .. n + 1 :
              InsertToMemory(st, c, n + 1).op
                \in Operation(n + 1, Stamped(own, n, x)) \cup {None}
<1> DEFINE now == n + 1
           r == InsertToMemory(st, c, now)
<1>1. now \in Nat /\ n < now /\ now \in 1 .. now /\ c \in Content
  BY DEF Copyable
<1> HIDE DEF now
<1>2. Good(r.db, now, AllTitles) /\ HashsLive(r.db)
  BY <1>1, InsertKeepsGood, InsertKeepsSound DEF Working
<1>3. DOMAIN st = Fields /\ Unsearched(st)
  BY WorkingFields
<1>4. CASE ~OwnsLock
  <2>1. r = NoOp(st)
    BY <1>4 DEF InsertToMemory
  <2>2. r.db = st /\ r.op = None
    BY <2>1 DEF NoOp
  <2> HIDE DEF r
  <2> QED
    BY <1>1, <1>2, <1>3, <2>2 DEF Working, now, r
<1>5. CASE OwnsLock /\ Hash[c] \in DOMAIN st.hashs
  <2> DEFINE id == st.hashs[Hash[c]]
  <2>1. r = Refresh(st, id, now)
    BY <1>5 DEF InsertToMemory
  <2>2. id \in 1 .. n /\ id \in 1 .. now
    BY <1>5, WorkingFields DEF now
  <2> HIDE DEF r, id
  <2>3. CASE id \notin DOMAIN st.entries \/ st.entries[id].creation \notin DOMAIN st.times
    <3>1. r.db = Panic(st) /\ r.op = None
      BY <2>1, <2>3 DEF Refresh, NoOp
    <3> QED
      BY <1>1, <1>2, <1>3, <3>1, PanicUnsearched DEF Working, now, r
  <2>4. CASE ~(id \notin DOMAIN st.entries \/ st.entries[id].creation \notin DOMAIN st.times)
    <3>1. /\ r.db = Search(Bump(st, id, now))
          /\ r.op = [type |-> "UpdateTimestamp", id |-> id, new_time |-> now]
      BY <2>1, <2>4 DEF Refresh
    <3>2. Unsearched(r.db)
      BY <1>3, <3>1, BumpUnsearched, SearchUnsearched
    <3>3. Owner(now, Stamped(own, n, id)) /\ Stamped(own, n, id)[now] = id
      BY <2>2, StampedKeeps DEF now
    <3>4. r.op \in Operation(now, Stamped(own, n, id))
      BY <1>1, <3>1, <3>3 DEF Operation
    <3> QED
      BY <1>2, <2>2, <3>2, <3>4 DEF Working, now, r
  <2> QED
    BY <2>3, <2>4
<1>6. CASE OwnsLock /\ Hash[c] \notin DOMAIN st.hashs
  <2> DEFINE grown == Grow(st, c, now)
             gone == Evicted(grown)
  <2>1. r = InsertNew(st, c, now)
    BY <1>6 DEF InsertToMemory
  <2>2. /\ r.db = Search(Unindex(grown, gone))
        /\ r.op = [type |-> "InsertNew", id |-> now, time |-> now, data |-> c, evictions |-> gone]
    BY <2>1 DEF InsertNew
  <2>3. Good(grown, now, AllTitles)
    BY <1>1, <1>6, GrowKeepsGood DEF Working
  <2>4. Unsearched(grown) /\ DOMAIN grown = Fields
    BY <1>3 DEF Grow, Unsearched, Fields
  <2>5. gone \in SUBSET DOMAIN grown.entries
    <3> HIDE DEF grown
    <3> QED
      BY <1>1, <2>3, EvictedNoFavorite
  <2>6. DOMAIN grown.entries \subseteq 1 .. now
    BY <2>3 DEF Good, Typed, IsMap
  <2> HIDE DEF grown, gone, r
  <2>7. Unsearched(r.db)
    BY <2>2, <2>4, UnindexUnsearched, SearchUnsearched
  <2>8. Owner(now, Stamped(own, n, now)) /\ Stamped(own, n, now)[now] = now
    BY <1>1, StampedKeeps DEF now
  <2>9. r.op \in Operation(now, Stamped(own, n, now))
    <3>1. gone \in SUBSET (1 .. now)
      BY <2>5, <2>6
    <3> QED
      BY <1>1, <2>2, <2>8, <3>1 DEF Operation
  <2> QED
    BY <1>1, <1>2, <2>7, <2>9 DEF Working, now, r
<1> QED
  BY <1>4, <1>5, <1>6

LEMMA DeleteWorks ==
  ASSUME NEW st, NEW n \in Nat, Working(st, n), NEW own, NEW id \in DOMAIN st.entries
  PROVE  /\ Working(DeleteFromMemory(st, id).db, n)
         /\ DeleteFromMemory(st, id).op \in Operation(n, own)
<1>1. /\ DeleteFromMemory(st, id).db = Search(Remove(st, id))
      /\ DeleteFromMemory(st, id).op = [type |-> "Delete", id |-> id]
  BY DEF DeleteFromMemory
<1>2. Unsearched(Search(Remove(st, id)))
  BY WorkingFields, RemoveUnsearched, SearchUnsearched
<1>3. Good(DeleteFromMemory(st, id).db, n, AllTitles) /\ HashsLive(DeleteFromMemory(st, id).db)
  BY DeleteKeepsGood, DeleteKeepsSound DEF Working
<1>4. id \in 1 .. n
  BY WorkingFields
<1> QED
  BY <1>1, <1>2, <1>3, <1>4 DEF Working, Operation

LEMMA ClearWorks ==
  ASSUME NEW st, NEW n \in Nat, Working(st, n), NEW own
  PROVE  /\ Working(ClearMemory(st).db, n)
         /\ ClearMemory(st).op \in Operation(n, own)
<1> DEFINE ids == {id \in DOMAIN st.entries : id \notin st.favSet}
<1>1. /\ ClearMemory(st).db = Search(Unindex(st, ids))
      /\ ClearMemory(st).op = [type |-> "ClearNonFavorites"]
  BY DEF ClearMemory
<1> HIDE DEF ids
<1>2. Unsearched(Search(Unindex(st, ids)))
  BY WorkingFields, UnindexUnsearched, SearchUnsearched
<1>3. Good(ClearMemory(st).db, n, AllTitles) /\ HashsLive(ClearMemory(st).db)
  BY ClearKeepsGood, ClearKeepsSound DEF Working
<1> QED
  BY <1>1, <1>2, <1>3 DEF Working, Operation

LEMMA UpdateWorks ==
  ASSUME NEW st, NEW n \in Nat, Working(st, n), NEW own, Owner(n, own),
         NEW id \in DOMAIN st.entries, NEW c \in Copyable, ~TakenByOther(st, id, c)
  PROVE  /\ Working(UpdateContentInMemory(st, id, c, n + 1).db, n + 1)
         /\ id \in 1 .. n + 1
         /\ UpdateContentInMemory(st, id, c, n + 1).op
              \in Operation(n + 1, Stamped(own, n, id))
<1> DEFINE now == n + 1
           r == UpdateContentInMemory(st, id, c, now)
           mid == [st EXCEPT !.hashs = Rehash(st, id, c)]
           up == Bump(mid, id, now)
           new == [up EXCEPT !.entries[id].content = c]
<1>1. now \in Nat /\ n < now /\ now \in 1 .. now /\ c \in Content /\ id \in 1 .. n /\ id \in 1 .. now
  BY WorkingFields DEF Copyable
<1>2. Good(r.db, now, AllTitles) /\ HashsLive(r.db)
  BY <1>1, UpdateKeepsGood, UpdateKeepsSound DEF Working
<1>3. /\ r.db = Search(new)
      /\ r.op = [type |-> "UpdateContent", id |-> id, data |-> c, new_time |-> now]
  BY DEF UpdateContentInMemory
<1>4. DOMAIN st = Fields /\ Unsearched(st)
  BY WorkingFields
<1>5. DOMAIN mid = Fields /\ Unsearched(mid)
  BY <1>4 DEF Unsearched, Fields
<1> HIDE DEF mid
<1>6. DOMAIN up = Fields /\ Unsearched(up)
  BY <1>5, BumpUnsearched
<1> HIDE DEF up
<1>7. DOMAIN new = Fields /\ Unsearched(new)
  BY <1>6 DEF Unsearched, Fields
<1> HIDE DEF new, r, now
<1>8. Unsearched(r.db)
  BY <1>3, <1>7, SearchUnsearched
<1>9. Owner(now, Stamped(own, n, id)) /\ Stamped(own, n, id)[now] = id
  BY <1>1, StampedKeeps DEF now
<1>10. r.op \in Operation(now, Stamped(own, n, id))
  BY <1>1, <1>3, <1>9 DEF Operation
<1> QED
  BY <1>1, <1>2, <1>8, <1>10 DEF Working, now, r

LEMMA SearchLooks ==
  ASSUME NEW st, DOMAIN st = Fields
  PROVE  /\ Search(st).entries = st.entries /\ Search(st).favs = st.favs
         /\ Search(st).favSet = st.favSet
  BY DEF Search, Panic, Fields

LEMMA BumpLooks ==
  ASSUME NEW st, DOMAIN st = Fields, NEW id \in DOMAIN st.entries, NEW now,
         "creation" \in DOMAIN st.entries[id], "content" \in DOMAIN st.entries[id]
  PROVE  /\ DOMAIN Bump(st, id, now) = Fields
         /\ Bump(st, id, now).favs = st.favs /\ Bump(st, id, now).favSet = st.favSet
         /\ DOMAIN Bump(st, id, now).entries = DOMAIN st.entries
         /\ Bump(st, id, now).entries[id].creation = now
         /\ Bump(st, id, now).entries[id].content = st.entries[id].content
         /\ \A x \in DOMAIN st.entries \ {id} : Bump(st, id, now).entries[x] = st.entries[x]
<1> DEFINE f == [st.entries EXCEPT ![id].creation = now]
<1>1. Bump(st, id, now).entries = f
  BY DEF Bump, Fields
<1>2. /\ DOMAIN Bump(st, id, now) = Fields
      /\ Bump(st, id, now).favs = st.favs /\ Bump(st, id, now).favSet = st.favSet
  BY DEF Bump, Fields
<1>3. /\ DOMAIN f = DOMAIN st.entries
      /\ f[id] = [st.entries[id] EXCEPT !.creation = now]
      /\ \A x \in DOMAIN st.entries \ {id} : f[x] = st.entries[x]
  OBVIOUS
<1> DEFINE e == st.entries[id]
           e2 == [e EXCEPT !.creation = now]
<1>4. "creation" \in DOMAIN e /\ "content" \in DOMAIN e
  OBVIOUS
<1> HIDE DEF e
<1>5. e2.creation = now /\ e2.content = e.content
  BY <1>4
<1> HIDE DEF f, e2
<1> QED
  BY <1>1, <1>2, <1>3, <1>5 DEF e, e2

LEMMA EntryFields ==
  ASSUME NEW st, NEW n, Working(st, n)
  PROVE  \A x \in DOMAIN st.entries :
           "creation" \in DOMAIN st.entries[x] /\ "content" \in DOMAIN st.entries[x]
<1>1. st.entries \in [DOMAIN st.entries -> EntryUpTo(n, AllTitles)]
  BY DEF Working, Good, Typed, IsMap
<1>2. \A e \in EntryUpTo(n, AllTitles) : "creation" \in DOMAIN e /\ "content" \in DOMAIN e
  BY DEF EntryUpTo
<1> QED
  BY <1>1, <1>2

LEMMA UnindexLooks ==
  ASSUME NEW st, DOMAIN st = Fields, NEW ids
  PROVE  /\ DOMAIN Unindex(st, ids) = Fields
         /\ Unindex(st, ids).favs = st.favs /\ Unindex(st, ids).favSet = st.favSet
         /\ DOMAIN Unindex(st, ids).entries = DOMAIN st.entries \ ids
         /\ \A x \in DOMAIN st.entries \ ids : Unindex(st, ids).entries[x] = st.entries[x]
  BY DEF Unindex, Drop, Fields

LEMMA MergeWorks ==
  ASSUME NEW st, NEW n \in Nat, Working(st, n),
         NEW id \in DOMAIN st.entries, NEW c \in Copyable, TakenByOther(st, id, c)
  PROVE  Working(MergeIntoOther(st, id, c, n + 1), n + 1)
<1> DEFINE now == n + 1
           r == MergeIntoOther(st, id, c, now)
           left == Remove(st, id)
           other == st.hashs[Hash[c]]
<1>1. now \in Nat /\ n < now /\ c \in Content
  BY DEF Copyable
<1>2. Good(r, now, AllTitles) /\ HashsLive(r)
  BY <1>1, MergeKeepsGood, MergeKeepsSound DEF Working
<1>3. r = Search(Bump(left, other, now)) \/ r = Panic(left)
  BY DEF MergeIntoOther
<1>4. DOMAIN left = Fields /\ Unsearched(left)
  BY WorkingFields, RemoveUnsearched
<1> HIDE DEF left, r, now, other
<1>5. Unsearched(r)
  BY <1>3, <1>4, BumpUnsearched, SearchUnsearched, PanicUnsearched
<1> QED
  BY <1>2, <1>5 DEF Working, r, now

\* A merge leaves the other entry on top.
LEMMA MergeTops ==
  ASSUME NEW st, NEW n \in Nat, Working(st, n), NEW id \in DOMAIN st.entries,
         NEW c \in Copyable, TakenByOther(st, id, c),
         NEW other, other = st.hashs[Hash[c]], NEW new, new = MergeIntoOther(st, id, c, n + 1)
  PROVE  /\ other # id /\ other \in DOMAIN st.entries /\ other \in DOMAIN new.entries
         /\ NewestId(new) = other /\ new.entries[other].creation = n + 1
<1> DEFINE now == n + 1
           u == Unindex(st, {id})
           left == Remove(st, id)
           b == Bump(left, other, now)
<1>1. now \in Nat /\ Working(new, now) /\ DOMAIN st = Fields
  BY MergeWorks, WorkingFields
<1>2. other # id /\ other \in DOMAIN st.entries
  BY DEF TakenByOther, Working, HashsLive
<1> HIDE DEF now
<1>3. /\ DOMAIN u = Fields /\ DOMAIN u.entries = DOMAIN st.entries \ {id}
      /\ \A x \in DOMAIN st.entries \ {id} : u.entries[x] = st.entries[x]
  BY <1>1, UnindexLooks
<1>4. left = u \/ left = FavRemove(u, id)
  BY DEF Remove
<1> HIDE DEF u, left
<1>5. FavRemove(u, id).entries = u.entries /\ DOMAIN FavRemove(u, id) = Fields
  BY <1>3 DEF FavRemove, Fields
<1>6. DOMAIN left = Fields /\ left.entries = u.entries
  BY <1>3, <1>4, <1>5
<1>7. /\ other \in DOMAIN left.entries /\ "creation" \in DOMAIN left.entries[other]
      /\ "content" \in DOMAIN left.entries[other]
  BY <1>2, <1>3, <1>6, EntryFields
<1>8. new = Search(b)
  BY <1>7 DEF MergeIntoOther, left, now
<1>9. /\ DOMAIN b = Fields /\ DOMAIN b.entries = DOMAIN left.entries
      /\ b.entries[other].creation = now
  BY <1>6, <1>7, BumpLooks
<1>10. now \in DOMAIN b.times /\ b.times[now] = other
  <2>1. b.times = Put(Drop(left.times, {left.entries[other].creation}), now, other)
    BY <1>6 DEF Bump, Fields
  <2> HIDE DEF b
  <2> QED
    BY <2>1 DEF Put
<1> HIDE DEF b
<1>11. Search(b).entries = b.entries /\ Search(b).times = b.times
  BY <1>9 DEF Search, Panic, Fields
<1>12. NewestId(new) = other
  <2>1. Good(new, now, AllTitles) /\ now \in DOMAIN new.times /\ new.times[now] = other
    BY <1>1, <1>8, <1>10, <1>11 DEF Working
  <2> QED
    BY <1>1, <2>1, TopIsLast
<1> QED
  BY <1>2, <1>7, <1>8, <1>9, <1>11, <1>12 DEF now

LEMMA AddFavoriteWorks ==
  ASSUME NEW st, NEW n \in Nat, Working(st, n), NEW own,
         NEW id \in DOMAIN st.entries, id \notin st.favSet
  PROVE  /\ Working(AddFavoriteToMemory(st, id).db, n)
         /\ AddFavoriteToMemory(st, id).op \in Operation(n, own)
<1> DEFINE r == AddFavoriteToMemory(st, id)
<1>1. id \in 1 .. n /\ DOMAIN st = Fields /\ Unsearched(st) /\ Len(st.favs) \in Nat
  BY WorkingFields
<1>2. Good(r.db, n, AllTitles) /\ HashsLive(r.db)
  BY <1>1, AddFavoriteKeepsGood, AddFavoriteKeepsSound DEF Working
<1>3. /\ r.db = Mark(FavPush(st, id), id, TRUE, None)
      /\ r.op = [type |-> "AddFavorite", id |-> id, position |-> Len(st.favs)]
  BY DEF AddFavoriteToMemory
<1> HIDE DEF r
<1>4. Unsearched(r.db)
  BY <1>1, <1>3 DEF Mark, FavPush, Unsearched, Fields
<1>5. r.op \in Operation(n, own)
  BY <1>1, <1>3 DEF Operation
<1> QED
  BY <1>2, <1>4, <1>5 DEF Working, r

LEMMA RemoveFavoriteWorks ==
  ASSUME NEW st, NEW n \in Nat, Working(st, n), NEW own, NEW id \in st.favSet
  PROVE  /\ Working(RemoveFavoriteFromMemory(st, id).db, n)
         /\ RemoveFavoriteFromMemory(st, id).op \in Operation(n, own)
<1> DEFINE r == RemoveFavoriteFromMemory(st, id)
<1>1. id \in 1 .. n /\ DOMAIN st = Fields /\ Unsearched(st) /\ st.favs \in Seq(1 .. n)
  BY WorkingFields
<1>2. Good(r.db, n, AllTitles) /\ HashsLive(r.db)
  BY <1>1, RemoveFavoriteKeepsGood, RemoveFavoriteKeepsSound DEF Working
<1>3. /\ r.db = Mark(FavRemove(st, id), id, FALSE, None)
      /\ r.op = [type |-> "RemoveFavorite", id |-> id, old_position |-> FavPosition(st, id)]
  BY DEF RemoveFavoriteFromMemory
<1> HIDE DEF r
<1>4. Unsearched(r.db)
  BY <1>1, <1>3 DEF Mark, FavRemove, Unsearched, Fields
<1>5. FavPosition(st, id) \in Nat \cup {None}
  <2>1. CASE id \in Range(st.favs)
    <3>1. FirstIndex(st.favs, id) \in 1 .. Len(st.favs)
      BY <1>1, <2>1, FirstIndexIn
    <3> QED
      BY <1>1, <2>1, <3>1 DEF FavPosition
  <2> QED
    BY <2>1 DEF FavPosition
<1>6. r.op \in Operation(n, own)
  BY <1>1, <1>3, <1>5 DEF Operation
<1> QED
  BY <1>2, <1>4, <1>6 DEF Working, r

LEMMA SetTitleWorks ==
  ASSUME NEW st, NEW n \in Nat, Working(st, n), NEW own, NEW id \in 1 .. n,
         NEW title \in AllTitles
  PROVE  /\ Working(SetFavoriteTitleInMemory(st, id, title).db, n)
         /\ SetFavoriteTitleInMemory(st, id, title).op \in Operation(n, own)
<1> DEFINE r == SetFavoriteTitleInMemory(st, id, title)
           listed == [st EXCEPT !.titles = Put(@, id, title)]
<1>1. DOMAIN st = Fields /\ Unsearched(st)
  BY WorkingFields
<1>2. Good(r.db, n, AllTitles) /\ HashsLive(r.db)
  BY SetTitleKeepsGood, SetTitleKeepsSound DEF Working
<1>3. /\ r.db = IF id \in DOMAIN st.entries
                  THEN [listed EXCEPT !.entries[id].favorite_title = title] ELSE listed
      /\ r.op = [type |-> "SetFavoriteTitle", id |-> id, title |-> title]
  BY DEF SetFavoriteTitleInMemory
<1> HIDE DEF r
<1>4. Unsearched(listed) /\ DOMAIN listed = Fields
  BY <1>1 DEF Unsearched, Fields
<1> HIDE DEF listed
<1>5. Unsearched(r.db)
  BY <1>3, <1>4 DEF Unsearched, Fields
<1>6. r.op \in Operation(n, own)
  BY <1>3 DEF Operation
<1> QED
  BY <1>2, <1>5, <1>6 DEF Working, r

-----------------------------------------------------------------------------
(* The invariant                                                           *)

\* Memory, the tables, and all statements on their way to them are of one
\* history, in which every time was read for one entry.
Kept(own, n, st, d, js, th) ==
  /\ Owner(n, own)
  /\ Working(st, n)
  /\ DiskOK(d, n, own)
  /\ js \in Seq(Task(n, own))
  /\ th \in Seq(Statement(n, own))

\* The statement a merge has left to run is one an operation may spawn.
MergeTyped(own) == phase = "merging" => MergeStatement \in Statement(clock, own)

KeptNow == \E own : Kept(own, clock, db, disk, jobs, theirs) /\ MergeTyped(own)

\* The bounds, and what a reload has not read yet.
Control ==
  /\ clock \in 0 .. MaxTime
  /\ phase \in {"idle", "merging", "favs", "entries", "contents", "down"}
  /\ behind \in BOOLEAN /\ moved \in BOOLEAN /\ astray \in BOOLEAN
  /\ crashes \in 0 .. MaxCrashes /\ faults \in 0 .. MaxFaults
  /\ begun \in 0 .. MaxOthers /\ (theirs # << >> => begun > 0)
  /\ Len(jobs) <= MaxJobs
  /\ phase = "favs" => DOMAIN db.entries = {}
  /\ phase \in {"favs", "entries", "contents"} => DOMAIN db.hashs = {}

PInv == Control /\ KeptNow

LEMMA BoundsNatural ==
  /\ MaxTime \in Nat /\ MaxFavs \in Nat /\ MaxJobs \in Nat
  /\ MaxCrashes \in Nat /\ MaxFaults \in Nat /\ MaxOthers \in Nat
  BY PersistenceAssumption

LEMMA InitKept == Init => PInv
<1> SUFFICES ASSUME Init PROVE PInv
  OBVIOUS
<1>1. Control
  <2>1. /\ jobs = << >> /\ theirs = << >> /\ clock = 0 /\ phase = "idle"
        /\ behind = FALSE /\ moved = FALSE /\ crashes = 0 /\ faults = 0 /\ begun = 0
        /\ astray = FALSE
    BY DEF Init
  <2>2. Len(jobs) <= MaxJobs
    BY <2>1, BoundsNatural
  <2>3. clock \in 0 .. MaxTime /\ crashes \in 0 .. MaxCrashes /\ faults \in 0 .. MaxFaults
        /\ begun \in 0 .. MaxOthers
    BY <2>1, BoundsNatural
  <2> QED
    BY <2>1, <2>2, <2>3 DEF Control
<1> DEFINE own == [t \in 1 .. 0 |-> t]
<1>2. Owner(0, own)
  BY DEF Owner
<1>3. Working(db, 0)
  BY EmptyReloading DEF Init
<1>4. DiskOK(disk, 0, own)
  BY DEF Init, EmptyDisk, Empty, DiskOK, IsMap
<1>5. jobs \in Seq(Task(0, own)) /\ theirs \in Seq(Statement(0, own))
  BY DEF Init
<1>6. Kept(own, clock, db, disk, jobs, theirs) /\ MergeTyped(own)
  BY <1>2, <1>3, <1>4, <1>5 DEF Kept, Init, MergeTyped
<1> QED
  BY <1>1, <1>6 DEF PInv, KeptNow

\* A handler hands each operation to a task of its own.
LEMMA Spawned ==
  ASSUME NEW n \in Nat, NEW own, Owner(n, own), NEW js \in Seq(Task(n, own)),
         NEW ops \in Seq(Operation(n, own))
  PROVE  /\ js \o [i \in DOMAIN ops |-> Statements(ops[i])] \in Seq(Task(n, own))
         /\ Len(js \o [i \in DOMAIN ops |-> Statements(ops[i])]) = Len(js) + Len(ops)
<1> DEFINE z == [i \in DOMAIN ops |-> Statements(ops[i])]
<1>1. \A i \in 1 .. Len(ops) : Statements(ops[i]) \in Task(n, own)
  BY OperationIsTask
<1>2. z \in Seq(Task(n, own)) /\ Len(z) = Len(ops)
  BY <1>1
<1> HIDE DEF z
<1>3. js \o z \in Seq(Task(n, own)) /\ Len(js \o z) = Len(js) + Len(z)
  BY <1>2
<1> QED
  BY <1>2, <1>3 DEF z

\* What Handle leaves alone, and what it adds.
LEMMA Handled ==
  ASSUME PInv, NEW n \in Nat, NEW own, Owner(n, own), clock' = n, n <= MaxTime,
         jobs \in Seq(Task(n, own)), theirs \in Seq(Statement(n, own)),
         DiskOK(disk', n, own), behind' = behind, astray' \in BOOLEAN,
         NEW new, Working(new, n), NEW ops \in Seq(Operation(n, own)), Handle(new, ops)
  PROVE  PInv'
<1>1. /\ phase = "idle" /\ phase' = phase /\ db' = new
      /\ InFlight + Len(ops) <= MaxJobs
      /\ jobs' = jobs \o [i \in DOMAIN ops |-> Statements(ops[i])]
      /\ moved' = moved /\ crashes' = crashes /\ faults' = faults
      /\ theirs' = theirs /\ begun' = begun
  BY DEF Handle, Up, others
<1>2. jobs' \in Seq(Task(n, own)) /\ Len(jobs') = Len(jobs) + Len(ops)
  BY <1>1, Spawned
<1>3. Len(jobs') <= MaxJobs
  <2>1. InFlight >= Len(jobs) /\ InFlight \in Nat /\ Len(jobs) \in Nat /\ Len(ops) \in Nat
    BY DEF InFlight
  <2> QED
    BY <1>1, <1>2, <2>1, PersistenceAssumption
<1>4. Control'
  BY <1>1, <1>3 DEF PInv, Control
<1>5. Kept(own, clock', db', disk', jobs', theirs')
  BY <1>1, <1>2 DEF Kept
<1>6. phase' # "merging"
  BY <1>1
<1>7. KeptNow'
  BY <1>5, <1>6 DEF KeptNow, MergeTyped
<1> QED
  BY <1>4, <1>7 DEF PInv

\* The invariant read at the next time, for the entry it is read for.
LEMMA NowKept ==
  ASSUME PInv, NEW own, Kept(own, clock, db, disk, jobs, theirs), NEW x \in 1 .. Now
  PROVE  /\ clock \in Nat /\ Now = clock + 1 /\ Now \in Nat
         /\ Owner(Now, Stamped(own, clock, x))
         /\ DiskOK(disk, Now, Stamped(own, clock, x))
         /\ jobs \in Seq(Task(Now, Stamped(own, clock, x)))
         /\ theirs \in Seq(Statement(Now, Stamped(own, clock, x)))
<1>1. clock \in Nat /\ Now = clock + 1 /\ Now \in Nat /\ x \in 1 .. clock + 1
  BY DEF PInv, Control, Now
<1>2. /\ Owner(clock, own) /\ DiskOK(disk, clock, own)
      /\ jobs \in Seq(Task(clock, own)) /\ theirs \in Seq(Statement(clock, own))
  BY DEF Kept
<1>3. Owner(Now, Stamped(own, clock, x))
  BY <1>1, <1>2, StampedKeeps
<1>4. DiskOK(disk, Now, Stamped(own, clock, x))
  BY <1>1, <1>2, DiskLater
<1>5. /\ jobs \in Seq(Task(Now, Stamped(own, clock, x)))
      /\ theirs \in Seq(Statement(Now, Stamped(own, clock, x)))
  BY <1>1, <1>2, StatementsLater
<1> QED
  BY <1>1, <1>3, <1>4, <1>5

LEMMA KeptFacts ==
  ASSUME PInv
  PROVE  /\ clock \in Nat /\ clock <= MaxTime /\ astray \in BOOLEAN
         /\ \E own : Kept(own, clock, db, disk, jobs, theirs) /\ MergeTyped(own)
  BY DEF PInv, KeptNow, Control

LEMMA CopyKeeps ==
  ASSUME PInv, NEW c \in Copyable, Copy(c)
  PROVE  PInv'
<1>1. PICK own : Kept(own, clock, db, disk, jobs, theirs)
  BY KeptFacts
<1> DEFINE r == InsertToMemory(db, c, Now)
           ops == IF r.op = None THEN << >> ELSE << r.op >>
<1>2. /\ Handle(r.db, ops) /\ clock' = Now /\ Now <= MaxTime
      /\ disk' = disk /\ behind' = behind /\ astray' \in BOOLEAN
  BY KeptFacts DEF Copy, Tick
<1>3. clock \in Nat /\ Now = clock + 1 /\ Working(db, clock) /\ Owner(clock, own)
  BY <1>1, KeptFacts DEF Kept, Now
<1>4. /\ Working(r.db, Now)
      /\ \E x \in 1 .. Now : r.op \in Operation(Now, Stamped(own, clock, x)) \cup {None}
  BY <1>3, InsertWorks
<1> HIDE DEF r
<1>5. PICK x \in 1 .. Now : r.op \in Operation(Now, Stamped(own, clock, x)) \cup {None}
  BY <1>4
<1>6. ops \in Seq(Operation(Now, Stamped(own, clock, x)))
  BY <1>5
<1> HIDE DEF ops
<1> QED
  BY <1>1, <1>2, <1>4, <1>6, NowKept, Handled

LEMMA SelectionToFavoriteKeeps ==
  ASSUME PInv, NEW c \in Copyable, SelectionToFavorite(c)
  PROVE  PInv'
<1>1. PICK own : Kept(own, clock, db, disk, jobs, theirs)
  BY KeptFacts
<1> DEFINE r == InsertToMemory(db, c, Now)
           id == NewestId(r.db)
           add == AddFavoriteToMemory(r.db, id)
           ops == << r.op, add.op >>
<1>2. /\ r.op # None /\ id \notin db.favSet /\ id # None
      /\ Handle(add.db, ops) /\ clock' = Now /\ Now <= MaxTime
      /\ disk' = disk /\ behind' = behind /\ astray' \in BOOLEAN
  BY KeptFacts DEF SelectionToFavorite, Tick
<1>3. /\ clock \in Nat /\ Now = clock + 1 /\ Now \in Nat /\ clock < Now
      /\ Working(db, clock) /\ Owner(clock, own) /\ c \in Content
  BY <1>1, KeptFacts DEF Kept, Now, Copyable
<1>4. /\ Working(r.db, Now)
      /\ \E x \in 1 .. Now : r.op \in Operation(Now, Stamped(own, clock, x)) \cup {None}
  BY <1>3, InsertWorks
<1>5. r.db.favSet = db.favSet
  BY <1>3, InsertKeepsSound DEF Working
<1> HIDE DEF r
<1>6. id \in DOMAIN r.db.entries /\ id \notin r.db.favSet
  BY <1>2, <1>3, <1>4, <1>5, NewestIdLive DEF Working
<1>7. PICK x \in 1 .. Now : r.op \in Operation(Now, Stamped(own, clock, x)) \cup {None}
  BY <1>4
<1> HIDE DEF id
<1>8. Working(add.db, Now) /\ add.op \in Operation(Now, Stamped(own, clock, x))
  BY <1>3, <1>4, <1>6, AddFavoriteWorks
<1> HIDE DEF add
<1>9. ops \in Seq(Operation(Now, Stamped(own, clock, x)))
  BY <1>2, <1>7, <1>8
<1> HIDE DEF ops
<1> QED
  BY <1>1, <1>2, <1>8, <1>9, NowKept, Handled

LEMMA EditInPlaceKeeps ==
  ASSUME PInv, NEW id \in Live, NEW c \in Copyable, EditInPlace(id, c)
  PROVE  PInv'
<1>1. PICK own : Kept(own, clock, db, disk, jobs, theirs)
  BY KeptFacts
<1> DEFINE r == UpdateContentInMemory(db, id, c, Now)
<1>2. /\ ~TakenByOther(db, id, c)
      /\ Handle(r.db, << r.op >>) /\ clock' = Now /\ Now <= MaxTime
      /\ disk' = disk /\ behind' = behind /\ astray' \in BOOLEAN
  BY KeptFacts DEF EditInPlace, Tick
<1>3. clock \in Nat /\ Now = clock + 1 /\ Working(db, clock) /\ Owner(clock, own)
  BY <1>1, KeptFacts DEF Kept, Now
<1>4. /\ Working(r.db, Now) /\ id \in 1 .. Now
      /\ r.op \in Operation(Now, Stamped(own, clock, id))
  BY <1>2, <1>3, UpdateWorks DEF Live
<1> HIDE DEF r
<1>5. << r.op >> \in Seq(Operation(Now, Stamped(own, clock, id)))
  BY <1>4
<1> QED
  BY <1>1, <1>2, <1>4, <1>5, NowKept, Handled

\* The one handler that writes to the file itself.
LEMMA EditMergesKeeps ==
  ASSUME PInv, NEW id \in Live, NEW c \in Copyable, EditMerges(id, c)
  PROVE  PInv'
<1>1. PICK own : Kept(own, clock, db, disk, jobs, theirs)
  BY KeptFacts
<1> DEFINE new == MergeIntoOther(db, id, c, Now)
           other == db.hashs[Hash[c]]
           own2 == Stamped(own, clock, other)
<1>2. /\ TakenByOther(db, id, c) /\ db' = new /\ clock' = Now /\ Now <= MaxTime
      /\ disk' = DeleteRows(disk, {id}) /\ phase' = "merging" /\ astray' \in BOOLEAN
      /\ UNCHANGED << jobs, behind, moved, crashes, faults, theirs, begun >>
  BY KeptFacts DEF EditMerges, Tick, others
<1>3. /\ clock \in Nat /\ Now = clock + 1 /\ Working(db, clock) /\ Owner(clock, own)
      /\ DiskOK(disk, clock, own)
  BY <1>1, KeptFacts DEF Kept, Now
<1>4. Working(new, Now)
  BY <1>2, <1>3, MergeWorks DEF Live
<1>5. other \in 1 .. Now /\ Now \in 1 .. Now
  BY <1>2, <1>3, WorkingFields DEF TakenByOther
<1>6. NewestId(new) = other /\ new.entries[other].creation = Now
  BY <1>2, <1>3, MergeTops DEF Live
<1> HIDE DEF new, other
<1>7. /\ Owner(Now, own2) /\ own2[Now] = other
      /\ jobs \in Seq(Task(Now, own2)) /\ theirs \in Seq(Statement(Now, own2))
  BY <1>1, <1>3, <1>5, NowKept, StampedKeeps
<1>8. DiskOK(DeleteRows(disk, {id}), Now, own2)
  BY <1>3, <1>5, DeleteRowsKeepsDisk, DiskLater
<1> HIDE DEF own2
<1>9. MergeStatement' \in Statement(clock', own2)
  <2>1. MergeStatement' = [do |-> "SetCreation", id |-> own2[Now], time |-> Now]
    BY <1>2, <1>6, <1>7 DEF MergeStatement
  <2> QED
    BY <1>2, <1>5, <2>1 DEF Statement
<1>10. Kept(own2, clock', db', disk', jobs', theirs')
  BY <1>2, <1>4, <1>7, <1>8 DEF Kept
<1>11. clock' \in 0 .. MaxTime
  BY <1>2, <1>3, BoundsNatural
<1>12. Control'
  BY <1>2, <1>11 DEF PInv, Control
<1>13. KeptNow'
  BY <1>9, <1>10 DEF KeptNow, MergeTyped
<1> QED
  BY <1>12, <1>13 DEF PInv

\* A handler that reads no clock.
LEMMA HandledNow ==
  ASSUME PInv, UNCHANGED << clock, disk, behind >>, astray' \in BOOLEAN,
         NEW own, Kept(own, clock, db, disk, jobs, theirs),
         NEW new, Working(new, clock),
         NEW ops \in Seq(Operation(clock, own)), Handle(new, ops)
  PROVE  PInv'
<1>1. /\ clock \in Nat /\ clock <= MaxTime /\ clock' = clock
      /\ disk' = disk /\ behind' = behind
  BY KeptFacts
<1>2. /\ Owner(clock, own) /\ DiskOK(disk, clock, own)
      /\ jobs \in Seq(Task(clock, own)) /\ theirs \in Seq(Statement(clock, own))
  BY DEF Kept
<1> QED
  BY <1>1, <1>2, Handled

LEMMA DeleteKeeps ==
  ASSUME PInv, NEW id \in Live, Delete(id)
  PROVE  PInv'
<1>1. PICK own : Kept(own, clock, db, disk, jobs, theirs)
  BY KeptFacts
<1> DEFINE r == DeleteFromMemory(db, id)
<1>2. Handle(r.db, << r.op >>) /\ UNCHANGED << clock, disk, behind >> /\ astray' \in BOOLEAN
  BY KeptFacts DEF Delete, Keep
<1>3. Working(r.db, clock) /\ r.op \in Operation(clock, own)
  BY <1>1, KeptFacts, DeleteWorks DEF Kept, Live
<1> HIDE DEF r
<1>4. << r.op >> \in Seq(Operation(clock, own))
  BY <1>3
<1> QED
  BY <1>1, <1>2, <1>3, <1>4, HandledNow

LEMMA ClearHistoryKeeps ==
  ASSUME PInv, ClearHistory
  PROVE  PInv'
<1>1. PICK own : Kept(own, clock, db, disk, jobs, theirs)
  BY KeptFacts
<1> DEFINE r == ClearMemory(db)
<1>2. Handle(r.db, << r.op >>) /\ UNCHANGED << clock, disk, behind >> /\ astray' \in BOOLEAN
  BY KeptFacts DEF ClearHistory, Keep
<1>3. Working(r.db, clock) /\ r.op \in Operation(clock, own)
  BY <1>1, KeptFacts, ClearWorks DEF Kept
<1> HIDE DEF r
<1>4. << r.op >> \in Seq(Operation(clock, own))
  BY <1>3
<1> QED
  BY <1>1, <1>2, <1>3, <1>4, HandledNow

LEMMA RemoveFavoriteKeeps ==
  ASSUME PInv, NEW id \in db.favSet, RemoveFavorite(id)
  PROVE  PInv'
<1>1. PICK own : Kept(own, clock, db, disk, jobs, theirs)
  BY KeptFacts
<1> DEFINE r == RemoveFavoriteFromMemory(db, id)
<1>2. Handle(r.db, << r.op >>) /\ UNCHANGED << clock, disk, behind >> /\ astray' \in BOOLEAN
  BY KeptFacts DEF RemoveFavorite, Keep
<1>3. Working(r.db, clock) /\ r.op \in Operation(clock, own)
  BY <1>1, KeptFacts, RemoveFavoriteWorks DEF Kept
<1> HIDE DEF r
<1>4. << r.op >> \in Seq(Operation(clock, own))
  BY <1>3
<1> QED
  BY <1>1, <1>2, <1>3, <1>4, HandledNow

LEMMA ConfirmFavoriteKeeps ==
  ASSUME PInv, NEW id \in Live, NEW title \in Titles \cup {None}, ConfirmFavorite(id, title)
  PROVE  PInv'
<1>1. PICK own : Kept(own, clock, db, disk, jobs, theirs)
  BY KeptFacts
<1>2. clock \in Nat /\ Working(db, clock) /\ id \in DOMAIN db.entries /\ title \in AllTitles
  BY <1>1, KeptFacts DEF Kept, Live, AllTitles
<1>3. id \in 1 .. clock
  BY <1>2, WorkingFields
<1> DEFINE add == AddFavoriteToMemory(db, id)
           starred == IF IsFavorite(db, id) THEN db ELSE add.db
           named == SetFavoriteTitleInMemory(starred, id, title)
           ops == IF IsFavorite(db, id) THEN << named.op >> ELSE << add.op, named.op >>
<1>4. Handle(named.db, ops) /\ UNCHANGED << clock, disk, behind >> /\ astray' \in BOOLEAN
  BY KeptFacts DEF ConfirmFavorite, Keep
<1>5. ~IsFavorite(db, id) => Working(add.db, clock) /\ add.op \in Operation(clock, own)
  <2>1. ~IsFavorite(db, id) => id \notin db.favSet
    BY <1>2 DEF IsFavorite, Working, Good, FavsGood
  <2> QED
    BY <1>2, <2>1, AddFavoriteWorks
<1>6. Working(starred, clock)
  BY <1>2, <1>5
<1> HIDE DEF starred, add
<1>7. Working(named.db, clock) /\ named.op \in Operation(clock, own)
  BY <1>2, <1>3, <1>6, SetTitleWorks
<1> HIDE DEF named
<1>8. ops \in Seq(Operation(clock, own))
  BY <1>5, <1>7
<1> HIDE DEF ops
<1> QED
  BY <1>1, <1>4, <1>7, <1>8, HandledNow

\* A step that keeps the clock, and what was promised for it.
LEMMA Stepped ==
  ASSUME PInv, clock' = clock, Control', NEW own,
         Owner(clock, own), Working(db', clock), DiskOK(disk', clock, own),
         jobs' \in Seq(Task(clock, own)), theirs' \in Seq(Statement(clock, own)),
         phase' = "merging" => MergeTyped(own) /\ phase' = phase /\ db' = db
  PROVE  PInv'
<1>1. Kept(own, clock', db', disk', jobs', theirs')
  BY DEF Kept
<1>2. MergeTyped(own)'
  BY DEF MergeTyped, MergeStatement
<1>3. KeptNow'
  BY <1>1, <1>2 DEF KeptNow
<1> QED
  BY <1>3 DEF PInv

LEMMA WalkListKeeps ==
  ASSUME PInv, WalkList
  PROVE  PInv'
<1>1. PICK own : Kept(own, clock, db, disk, jobs, theirs)
  BY KeptFacts
<1>2. /\ db' = Panic(db) /\ phase = "idle"
      /\ UNCHANGED << clock, disk, jobs, phase, behind, moved, crashes, faults, theirs, begun, astray >>
  BY DEF WalkList, Up, others
<1>3. Working(db', clock)
  BY <1>1, <1>2, KeptFacts, PanicWorks DEF Kept
<1>4. Control'
  BY <1>2 DEF PInv, Control
<1> QED
  BY <1>1, <1>2, <1>3, <1>4, Stepped DEF Kept

\* The second statement of a merge, and its failure.
LEMMA MergeEndsKeeps ==
  ASSUME PInv, MergeBumps \/ MergeFails
  PROVE  PInv'
<1>1. PICK own : Kept(own, clock, db, disk, jobs, theirs) /\ MergeTyped(own)
  BY KeptFacts
<1>2. /\ phase = "merging" /\ phase' = "idle"
      /\ disk' = disk \/ disk' = Exec(disk, MergeStatement).disk
      /\ faults' = faults \/ (faults < MaxFaults /\ faults' = faults + 1)
      /\ astray' \in BOOLEAN
      /\ UNCHANGED << db, clock, jobs, behind, moved, crashes, theirs, begun >>
  BY KeptFacts DEF MergeBumps, MergeFails, others
<1>3. /\ clock \in Nat /\ Owner(clock, own) /\ DiskOK(disk, clock, own)
      /\ MergeStatement \in Statement(clock, own)
  BY <1>1, <1>2, KeptFacts DEF Kept, MergeTyped
<1>4. DiskOK(disk', clock, own)
  BY <1>2, <1>3, ExecKeepsDisk
<1>5. faults' \in 0 .. MaxFaults
  BY <1>2, BoundsNatural DEF PInv, Control
<1>6. Control'
  BY <1>2, <1>5 DEF PInv, Control
<1> QED
  BY <1>1, <1>2, <1>4, <1>6, Stepped DEF Kept

\* The flags a commit leaves behind.
LEMMA CommittedFlags ==
  ASSUME PInv, NEW d, Committed(d)
  PROVE  disk' = d /\ behind' \in BOOLEAN /\ moved' \in BOOLEAN
  BY DEF Committed, PInv, Control

\* What is left of the tasks in flight, when one goes on or ends.
LEMMA TasksLeft ==
  ASSUME NEW n, NEW own, NEW js \in Seq(Task(n, own)), NEW i \in DOMAIN js
  PROVE  /\ js[i] \in Task(n, own) /\ Head(js[i]) \in Statement(n, own)
         /\ S!RemoveAt(js, i) \in Seq(Task(n, own))
         /\ Len(S!RemoveAt(js, i)) <= Len(js)
         /\ Len(js[i]) > 1 => /\ [js EXCEPT ![i] = Tail(@)] \in Seq(Task(n, own))
                              /\ Len([js EXCEPT ![i] = Tail(@)]) = Len(js)
<1>1. i \in 1 .. Len(js) /\ js[i] \in Task(n, own) /\ Len(js) \in Nat
  OBVIOUS
<1>2. js[i] \in Seq(Statement(n, own)) /\ js[i] # << >>
  BY <1>1 DEF Task
<1>3. Head(js[i]) \in Statement(n, own)
  BY <1>2
<1>4. /\ S!RemoveAt(js, i) \in Seq(Task(n, own))
      /\ Len(S!RemoveAt(js, i)) = Len(js) - 1
  BY <1>1, RemovedAt
<1>5. ASSUME Len(js[i]) > 1
      PROVE  /\ [js EXCEPT ![i] = Tail(@)] \in Seq(Task(n, own))
             /\ Len([js EXCEPT ![i] = Tail(@)]) = Len(js)
  <2>1. Tail(js[i]) \in Seq(Statement(n, own)) /\ Len(Tail(js[i])) = Len(js[i]) - 1
    BY <1>2
  <2>2. Tail(js[i]) # << >>
    <3>1. Len(js[i]) \in Nat /\ Len(Tail(js[i])) # 0
      BY <1>2, <1>5, <2>1
    <3>2. Len(<< >>) = 0
      OBVIOUS
    <3> QED
      BY <3>1, <3>2, Zenon
  <2>3. Tail(js[i]) \in Task(n, own)
    BY <2>1, <2>2 DEF Task
  <2> QED
    BY <1>1, <2>3
<1> QED
  BY <1>1, <1>3, <1>4, <1>5

LEMMA RunStatementKeeps ==
  ASSUME PInv, NEW i \in DOMAIN jobs, RunStatement(i)
  PROVE  PInv'
<1>1. PICK own : Kept(own, clock, db, disk, jobs, theirs) /\ MergeTyped(own)
  BY KeptFacts
<1> DEFINE r == Exec(disk, Head(jobs[i]))
<1>2. /\ Committed(r.disk)
      /\ jobs' = IF r.ok /\ Len(jobs[i]) > 1 THEN [jobs EXCEPT ![i] = Tail(@)]
                 ELSE S!RemoveAt(jobs, i)
      /\ UNCHANGED << db, clock, phase, crashes, faults, theirs, begun >>
      /\ astray' \in BOOLEAN
  BY KeptFacts DEF RunStatement, others, Overtakes
<1>3. /\ clock \in Nat /\ Owner(clock, own) /\ DiskOK(disk, clock, own)
      /\ jobs \in Seq(Task(clock, own)) /\ theirs \in Seq(Statement(clock, own))
      /\ Working(db, clock)
  BY <1>1, KeptFacts DEF Kept
<1>4. Head(jobs[i]) \in Statement(clock, own)
  BY <1>3, TasksLeft
<1>5. DiskOK(r.disk, clock, own)
  BY <1>3, <1>4, ExecKeepsDisk
<1> HIDE DEF r
<1>6. jobs' \in Seq(Task(clock, own)) /\ Len(jobs') <= Len(jobs)
  BY <1>2, <1>3, TasksLeft
<1>7. disk' = r.disk /\ behind' \in BOOLEAN /\ moved' \in BOOLEAN
  BY <1>2, CommittedFlags
<1>8. Len(jobs') <= MaxJobs
  BY <1>3, <1>6, BoundsNatural DEF PInv, Control
<1>9. Control'
  BY <1>2, <1>7, <1>8 DEF PInv, Control
<1> QED
  BY <1>1, <1>2, <1>3, <1>5, <1>6, <1>7, <1>9, Stepped

LEMMA TaskFailsKeeps ==
  ASSUME PInv, NEW i \in DOMAIN jobs, TaskFails(i)
  PROVE  PInv'
<1>1. PICK own : Kept(own, clock, db, disk, jobs, theirs) /\ MergeTyped(own)
  BY KeptFacts
<1>2. /\ faults < MaxFaults /\ faults' = faults + 1 /\ jobs' = S!RemoveAt(jobs, i)
      /\ UNCHANGED << db, clock, disk, phase, behind, moved, crashes, theirs, begun >>
      /\ astray' \in BOOLEAN
  BY DEF TaskFails, others
<1>3. /\ clock \in Nat /\ Owner(clock, own) /\ DiskOK(disk, clock, own)
      /\ jobs \in Seq(Task(clock, own)) /\ theirs \in Seq(Statement(clock, own))
      /\ Working(db, clock)
  BY <1>1, KeptFacts DEF Kept
<1>4. jobs' \in Seq(Task(clock, own)) /\ Len(jobs') <= Len(jobs)
  BY <1>2, <1>3, TasksLeft
<1>5. Len(jobs') <= MaxJobs
  BY <1>3, <1>4, BoundsNatural DEF PInv, Control
<1>6. faults' \in 0 .. MaxFaults
  BY <1>2, BoundsNatural DEF PInv, Control
<1>7. Control'
  BY <1>2, <1>5, <1>6 DEF PInv, Control
<1> QED
  BY <1>1, <1>2, <1>3, <1>4, <1>7, Stepped

\* The second instance works on what it loaded from the same tables.
LEMMA UntimedOpTyped ==
  ASSUME NEW n \in Nat, NEW own, Owner(n, own), NEW st, Working(st, n),
         NEW op \in UntimedOps(st)
  PROVE  op \in Operation(n, own)
<1>1. CASE op = ClearMemory(st).op
  BY <1>1, ClearWorks
<1>2. ASSUME NEW id \in DOMAIN st.entries, op = DeleteFromMemory(st, id).op
      PROVE  op \in Operation(n, own)
  BY <1>2, DeleteWorks
<1>3. ASSUME NEW id \in DOMAIN st.entries \ st.favSet, op = AddFavoriteToMemory(st, id).op
      PROVE  op \in Operation(n, own)
  BY <1>3, AddFavoriteWorks
<1>4. ASSUME NEW id \in st.favSet, op = RemoveFavoriteFromMemory(st, id).op
      PROVE  op \in Operation(n, own)
  BY <1>4, RemoveFavoriteWorks
<1>5. ASSUME NEW id \in st.favSet, NEW t \in Titles \cup {None},
             op = SetFavoriteTitleInMemory(st, id, t).op
      PROVE  op \in Operation(n, own)
  <2>1. id \in 1 .. n /\ t \in AllTitles
    BY WorkingFields DEF AllTitles
  <2> QED
    BY <1>5, <2>1, SetTitleWorks
<1>6. \/ op = ClearMemory(st).op
      \/ \E id \in DOMAIN st.entries : op = DeleteFromMemory(st, id).op
      \/ \E id \in DOMAIN st.entries \ st.favSet : op = AddFavoriteToMemory(st, id).op
      \/ \E id \in st.favSet : op = RemoveFavoriteFromMemory(st, id).op
      \/ \E id \in st.favSet, t \in Titles \cup {None} :
           op = SetFavoriteTitleInMemory(st, id, t).op
  BY DEF UntimedOps
<1> QED
  BY <1>1, <1>2, <1>3, <1>4, <1>5, <1>6, Zenon

LEMMA EditStatementsTyped ==
  ASSUME clock \in Nat, NEW own, Owner(clock, own), NEW st, Working(st, clock),
         NEW id \in DOMAIN st.entries, NEW c \in Copyable
  PROVE  \E x \in 1 .. Now :
           EditStatements(st, id, c) \in Seq(Statement(Now, Stamped(own, clock, x)))
<1>1. Now = clock + 1 /\ Now \in Nat /\ Now \in 1 .. Now /\ id \in 1 .. Now
  BY WorkingFields DEF Now
<1>2. CASE TakenByOther(st, id, c)
  <2> DEFINE other == st.hashs[Hash[c]]
             own2 == Stamped(own, clock, other)
             a == [do |-> "DeleteEntry", id |-> id]
             b == [do |-> "SetCreation", id |-> other, time |-> Now]
  <2>1. other \in 1 .. Now
    BY <1>1, <1>2, WorkingFields DEF TakenByOther
  <2>2. EditStatements(st, id, c) = << a, b >>
    BY <1>2 DEF EditStatements
  <2> HIDE DEF other
  <2>3. own2[Now] = other
    BY <1>1, <2>1, StampedKeeps
  <2> HIDE DEF own2
  <2>4. a \in Statement(Now, own2)
    BY <1>1 DEF Statement
  <2>5. b = [do |-> "SetCreation", id |-> own2[Now], time |-> Now]
    BY <2>3
  <2>6. b \in Statement(Now, own2)
    BY <1>1, <2>5 DEF Statement
  <2> HIDE DEF a, b
  <2>7. << a, b >> \in Seq(Statement(Now, own2))
    BY <2>4, <2>6
  <2> QED
    BY <2>1, <2>2, <2>7 DEF own2
<1>3. CASE ~TakenByOther(st, id, c)
  <2> DEFINE own2 == Stamped(own, clock, id)
             op == UpdateContentInMemory(st, id, c, Now).op
  <2>1. EditStatements(st, id, c) = Statements(op)
    BY <1>3 DEF EditStatements
  <2>2. op \in Operation(Now, own2)
    BY <1>1, <1>3, UpdateWorks
  <2>3. Owner(Now, own2)
    BY <1>1, StampedKeeps
  <2> HIDE DEF op, own2
  <2>4. Statements(op) \in Seq(Statement(Now, own2))
    BY <1>1, <2>2, <2>3, OperationIsTask DEF Task
  <2> QED
    BY <1>1, <2>1, <2>4 DEF own2
<1> QED
  BY <1>2, <1>3

LEMMA OtherActsKeeps ==
  ASSUME PInv, OtherActs
  PROVE  PInv'
<1>1. PICK own : Kept(own, clock, db, disk, jobs, theirs) /\ MergeTyped(own)
  BY KeptFacts
<1>2. /\ begun < MaxOthers /\ begun' = begun + 1
      /\ UNCHANGED << db, disk, jobs, phase, behind, moved, crashes, faults, astray >>
  BY DEF OtherActs
<1>3. /\ clock \in Nat /\ Owner(clock, own) /\ DiskOK(disk, clock, own)
      /\ jobs \in Seq(Task(clock, own)) /\ theirs \in Seq(Statement(clock, own))
      /\ Working(db, clock)
  BY <1>1, KeptFacts DEF Kept
<1>4. PICK st \in Loaded(disk) :
        \/ /\ \E op \in UntimedOps(st) : theirs' = Statements(op)
           /\ UNCHANGED clock
        \/ /\ \E id \in DOMAIN st.entries, c \in Copyable : theirs' = EditStatements(st, id, c)
           /\ Tick
  BY DEF OtherActs
<1>5. Working(st, clock)
  BY <1>3, LoadedWorks
<1>6. begun' \in 0 .. MaxOthers /\ begun' > 0
  BY <1>2, BoundsNatural DEF PInv, Control
<1>7. CASE UNCHANGED clock /\ \E op \in UntimedOps(st) : theirs' = Statements(op)
  <2>1. PICK op \in UntimedOps(st) : theirs' = Statements(op)
    BY <1>7
  <2>2. theirs' \in Seq(Statement(clock, own))
    BY <1>3, <1>5, <2>1, UntimedOpTyped, OperationIsTask DEF Task
  <2>3. Control'
    BY <1>2, <1>6, <1>7 DEF PInv, Control
  <2> QED
    BY <1>1, <1>2, <1>3, <1>7, <2>2, <2>3, Stepped
<1>8. CASE Tick /\ \E id \in DOMAIN st.entries, c \in Copyable : theirs' = EditStatements(st, id, c)
  <2>1. PICK id \in DOMAIN st.entries, c \in Copyable : theirs' = EditStatements(st, id, c)
    BY <1>8
  <2>2. PICK x \in 1 .. Now : theirs' \in Seq(Statement(Now, Stamped(own, clock, x)))
    BY <1>3, <1>5, <2>1, EditStatementsTyped
  <2>3. clock' = Now /\ Now <= MaxTime /\ Now = clock + 1
    BY <1>8 DEF Tick, Now
  <2>4. /\ Owner(Now, Stamped(own, clock, x))
        /\ DiskOK(disk, Now, Stamped(own, clock, x))
        /\ jobs \in Seq(Task(Now, Stamped(own, clock, x)))
    BY <1>1, NowKept
  <2>5. Working(db, Now)
    BY <1>3, <2>3, WorkingLater
  <2>6. Kept(Stamped(own, clock, x), clock', db', disk', jobs', theirs')
    BY <1>2, <2>2, <2>3, <2>4, <2>5 DEF Kept
  <2>7. phase' = "merging" => MergeStatement' \in Statement(clock', Stamped(own, clock, x))
    <3>1. Statement(clock, own) \subseteq Statement(Now, Stamped(own, clock, x))
      BY <1>3, <2>3, StatementsLater
    <3>2. MergeStatement' = MergeStatement
      BY <1>2 DEF MergeStatement
    <3> QED
      BY <1>1, <1>2, <2>3, <3>1, <3>2 DEF MergeTyped
  <2>8. clock' \in 0 .. MaxTime
    BY <1>3, <2>3, BoundsNatural
  <2>9. Control'
    BY <1>2, <1>6, <2>8 DEF PInv, Control
  <2>10. KeptNow'
    BY <2>6, <2>7 DEF KeptNow, MergeTyped
  <2> QED
    BY <2>9, <2>10 DEF PInv
<1> QED
  BY <1>4, <1>7, <1>8

LEMMA OtherRunsKeeps ==
  ASSUME PInv, OtherRuns
  PROVE  PInv'
<1>1. PICK own : Kept(own, clock, db, disk, jobs, theirs) /\ MergeTyped(own)
  BY KeptFacts
<1> DEFINE r == Exec(disk, Head(theirs))
<1>2. /\ theirs # << >> /\ theirs' = IF r.ok THEN Tail(theirs) ELSE << >>
      /\ Committed(r.disk)
      /\ UNCHANGED << db, clock, jobs, phase, crashes, faults, begun >>
      /\ astray' \in BOOLEAN
  BY DEF OtherRuns
<1>3. /\ clock \in Nat /\ Owner(clock, own) /\ DiskOK(disk, clock, own)
      /\ jobs \in Seq(Task(clock, own)) /\ theirs \in Seq(Statement(clock, own))
      /\ Working(db, clock)
  BY <1>1, KeptFacts DEF Kept
<1>4. Head(theirs) \in Statement(clock, own) /\ Tail(theirs) \in Seq(Statement(clock, own))
  BY <1>2, <1>3
<1>5. DiskOK(r.disk, clock, own)
  BY <1>3, <1>4, ExecKeepsDisk
<1> HIDE DEF r
<1>6. theirs' \in Seq(Statement(clock, own))
  BY <1>2, <1>4
<1>7. disk' = r.disk /\ behind' \in BOOLEAN /\ moved' \in BOOLEAN
  BY <1>2, CommittedFlags
<1>8. Control'
  BY <1>2, <1>7 DEF PInv, Control
<1> QED
  BY <1>1, <1>2, <1>3, <1>5, <1>6, <1>7, <1>8, Stepped

-----------------------------------------------------------------------------
(* Reloads, crashes and starts                                             *)

\* While reload is under way the index by hash is empty.
LEMMA ReloadingNow ==
  ASSUME PInv, phase \in {"favs", "entries", "contents"},
         NEW own, Kept(own, clock, db, disk, jobs, theirs)
  PROVE  Reloading(db, clock) /\ (phase = "favs" => DOMAIN db.entries = {})
  BY DEF PInv, Control, Kept, Working, Reloading

LEMMA StartReloadKeeps ==
  ASSUME PInv, StartReload
  PROVE  PInv'
<1>1. PICK own : Kept(own, clock, db, disk, jobs, theirs)
  BY KeptFacts
<1>2. /\ phase' = "favs" /\ moved' = FALSE
      /\ db' = [EmptyStore EXCEPT !.query = db.query, !.filtered = db.filtered]
      /\ UNCHANGED << clock, disk, jobs, behind, crashes, faults, theirs, begun >>
      /\ astray' \in BOOLEAN
  BY KeptFacts DEF StartReload, others
<1>3. db' = EmptyStore
  BY <1>1, <1>2 DEF Kept, Working, Unsearched, EmptyStore
<1>4. Working(db', clock) /\ DOMAIN db'.entries = {} /\ DOMAIN db'.hashs = {}
  BY <1>3, KeptFacts, EmptyReloading DEF Reloading
<1>5. Control'
  BY <1>2, <1>4 DEF PInv, Control
<1> QED
  BY <1>1, <1>2, <1>4, <1>5, Stepped DEF Kept

LEMMA ReadFavsKeeps ==
  ASSUME PInv, ReadFavs
  PROVE  PInv'
<1>1. PICK own : Kept(own, clock, db, disk, jobs, theirs)
  BY KeptFacts
<1>2. /\ phase = "favs" /\ phase' = "entries"
      /\ db' = IF FavsLoadable(disk) THEN WithFavs(db, disk) ELSE Panic(db)
      /\ UNCHANGED << clock, disk, jobs, behind, moved, crashes, faults, theirs, begun >>
      /\ astray' \in BOOLEAN
  BY KeptFacts DEF ReadFavs, others
<1>3. /\ clock \in Nat /\ DiskOK(disk, clock, own) /\ Working(db, clock)
      /\ Reloading(db, clock) /\ DOMAIN db.entries = {}
  BY <1>1, <1>2, KeptFacts, ReloadingNow DEF Kept
<1>4. Working(db', clock) /\ DOMAIN db'.hashs = {}
  <2>1. CASE FavsLoadable(disk)
    <3>1. Reloading(db', clock)
      BY <1>2, <1>3, <2>1, WithFavsReloads
    <3> QED
      BY <3>1, ReloadingWorks DEF Reloading
  <2>2. CASE ~FavsLoadable(disk)
    <3>1. db' = Panic(db)
      BY <1>2, <2>2
    <3>2. Panic(db).hashs = db.hashs
      BY <1>3, WorkingFields DEF Panic, Fields
    <3> QED
      BY <1>3, <3>1, <3>2, PanicWorks DEF Reloading
  <2> QED
    BY <2>1, <2>2
<1>5. Control'
  BY <1>2, <1>4 DEF PInv, Control
<1> QED
  BY <1>1, <1>2, <1>4, <1>5, Stepped DEF Kept

LEMMA ReadEntriesKeeps ==
  ASSUME PInv, ReadEntries
  PROVE  PInv'
<1>1. PICK own : Kept(own, clock, db, disk, jobs, theirs)
  BY KeptFacts
<1>2. /\ phase = "entries" /\ phase' = "contents" /\ db' = WithEntries(db, disk)
      /\ UNCHANGED << clock, disk, jobs, behind, moved, crashes, faults, theirs, begun >>
      /\ astray' \in BOOLEAN
  BY KeptFacts DEF ReadEntries, others
<1>3. clock \in Nat /\ DiskOK(disk, clock, own) /\ Reloading(db, clock)
  BY <1>1, <1>2, KeptFacts, ReloadingNow DEF Kept
<1>4. Reloading(db', clock)
  BY <1>2, <1>3, WithEntriesReloads
<1>5. Working(db', clock) /\ DOMAIN db'.hashs = {}
  BY <1>4, ReloadingWorks DEF Reloading
<1>6. Control'
  BY <1>2, <1>5 DEF PInv, Control
<1> QED
  BY <1>1, <1>2, <1>5, <1>6, Stepped DEF Kept

LEMMA ReadContentsKeeps ==
  ASSUME PInv, ReadContents
  PROVE  PInv'
<1>1. PICK own : Kept(own, clock, db, disk, jobs, theirs)
  BY KeptFacts
<1> DEFINE st == WithContents(db, disk)
<1>2. /\ phase = "contents" /\ phase' = "idle"
      /\ \/ \E h \in HashIndexes(st) : db' = Search([st EXCEPT !.hashs = h])
         \/ db' = Panic(db)
      /\ behind' = moved /\ moved' = FALSE
      /\ UNCHANGED << clock, disk, jobs, crashes, faults, theirs, begun >>
      /\ astray' \in BOOLEAN
  BY KeptFacts DEF ReadContents, others
<1>3. clock \in Nat /\ DiskOK(disk, clock, own) /\ Reloading(db, clock)
  BY <1>1, <1>2, KeptFacts, ReloadingNow DEF Kept
<1>4. Reloading(st, clock)
  BY <1>3, WithContentsReloads
<1> HIDE DEF st
<1>5. Working(db', clock)
  <2>1. ASSUME NEW h \in HashIndexes(st), db' = Search([st EXCEPT !.hashs = h])
        PROVE  Working(db', clock)
    <3>1. Working([st EXCEPT !.hashs = h], clock)
      BY <1>3, <1>4, HashedWorks
    <3> QED
      BY <1>3, <2>1, <3>1, SearchWorks
  <2>2. CASE db' = Panic(db)
    BY <1>3, <2>2, ReloadingWorks, PanicWorks
  <2> QED
    BY <1>2, <2>1, <2>2
<1>6. Control'
  BY <1>2 DEF PInv, Control
<1> QED
  BY <1>1, <1>2, <1>5, <1>6, Stepped DEF Kept

LEMMA ReadFailsKeeps ==
  ASSUME PInv, ReadFails
  PROVE  PInv'
<1>1. PICK own : Kept(own, clock, db, disk, jobs, theirs)
  BY KeptFacts
<1>2. /\ faults < MaxFaults /\ faults' = faults + 1 /\ phase' = "idle" /\ moved' = FALSE
      /\ UNCHANGED << db, clock, disk, jobs, behind, crashes, theirs, begun >>
      /\ astray' \in BOOLEAN
  BY KeptFacts DEF ReadFails, others
<1>3. faults' \in 0 .. MaxFaults
  BY <1>2, BoundsNatural DEF PInv, Control
<1>4. Control'
  BY <1>2, <1>3 DEF PInv, Control
<1> QED
  BY <1>1, <1>2, <1>4, Stepped DEF Kept

\* A crash and an exit leave the tables, and nothing in flight.
LEMMA StoppedKeeps ==
  ASSUME PInv, crashes < MaxCrashes, crashes' = crashes + 1,
         phase' = "down", db' = EmptyStore, jobs' = << >>,
         behind' = FALSE, moved' = FALSE, UNCHANGED << clock, faults, theirs, begun >>, astray' \in BOOLEAN,
         NEW own, Kept(own, clock, db, disk, jobs, theirs), DiskOK(disk', clock, own)
  PROVE  PInv'
<1>1. Working(db', clock)
  BY KeptFacts, EmptyReloading
<1>2. crashes' \in 0 .. MaxCrashes
  BY BoundsNatural DEF PInv, Control
<1>3. Len(jobs') <= MaxJobs
  <2>1. Len(<< >>) = 0
    OBVIOUS
  <2> QED
    BY <2>1, BoundsNatural
<1>4. Control'
  BY <1>2, <1>3 DEF PInv, Control
<1>5. jobs' \in Seq(Task(clock, own))
  OBVIOUS
<1> QED
  BY <1>1, <1>4, <1>5, Stepped DEF Kept

LEMMA CrashKeeps ==
  ASSUME PInv, Crash
  PROVE  PInv'
<1>1. PICK own : Kept(own, clock, db, disk, jobs, theirs)
  BY KeptFacts
<1>2. /\ crashes < MaxCrashes /\ crashes' = crashes + 1 /\ phase' = "down"
      /\ db' = EmptyStore /\ jobs' = << >> /\ behind' = FALSE /\ moved' = FALSE
      /\ UNCHANGED << clock, disk, faults, theirs, begun >>
      /\ astray' \in BOOLEAN
  BY KeptFacts DEF Crash, others
<1>3. DiskOK(disk', clock, own)
  BY <1>1, <1>2 DEF Kept
<1> QED
  BY <1>1, <1>2, <1>3, StoppedKeeps

LEMMA ExitKeeps ==
  ASSUME PInv, Exit
  PROVE  PInv'
<1>1. PICK own : Kept(own, clock, db, disk, jobs, theirs)
  BY KeptFacts
<1>2. /\ crashes < MaxCrashes /\ crashes' = crashes + 1 /\ phase' = "down"
      /\ disk' = IF UniqueSession THEN DeleteRows(disk, NonFavorites(disk)) ELSE disk
      /\ db' = EmptyStore /\ jobs' = << >> /\ behind' = FALSE /\ moved' = FALSE
      /\ UNCHANGED << clock, faults, theirs, begun >>
      /\ astray' \in BOOLEAN
  BY KeptFacts DEF Exit, others
<1>3. DiskOK(disk', clock, own)
  BY <1>1, <1>2, KeptFacts, DeleteRowsKeepsDisk DEF Kept
<1> QED
  BY <1>1, <1>2, <1>3, StoppedKeeps

LEMMA PrunedKeepsDisk ==
  ASSUME NEW d, NEW n \in Nat, NEW own, DiskOK(d, n, own), NEW now
  PROVE  DiskOK(PrunedByNumber(PrunedByAge(d, now)), n, own)
<1> DEFINE a == PrunedByAge(d, now)
<1>1. DiskOK(a, n, own)
  BY DeleteRowsKeepsDisk DEF PrunedByAge
<1> HIDE DEF a
<1>2. DiskOK(PrunedByNumber(a), n, own)
  BY <1>1, DeleteRowsKeepsDisk DEF PrunedByNumber
<1> QED
  BY <1>2 DEF a

LEMMA RestartKeeps ==
  ASSUME PInv, Restart
  PROVE  PInv'
<1>1. PICK own : Kept(own, clock, db, disk, jobs, theirs)
  BY KeptFacts
<1>2. /\ phase' = "idle" /\ db' \in Loaded(disk')
      /\ UNCHANGED << clock, jobs, behind, moved, crashes, faults, theirs, begun >>
      /\ \E now \in Now .. MaxTime + 2 : disk' = PrunedByNumber(PrunedByAge(disk, now))
      /\ astray' \in BOOLEAN
  BY KeptFacts DEF Restart, others
<1>3. DiskOK(disk', clock, own)
  BY <1>1, <1>2, KeptFacts, PrunedKeepsDisk DEF Kept
<1>4. Working(db', clock)
  BY <1>2, <1>3, KeptFacts, LoadedWorks
<1>5. Control'
  BY <1>2 DEF PInv, Control
<1> QED
  BY <1>1, <1>2, <1>3, <1>4, <1>5, Stepped DEF Kept

-----------------------------------------------------------------------------
(* The specification                                                       *)

\* Every action keeps the invariant.
LEMMA NextKeeps ==
  ASSUME PInv, [Next]_vars
  PROVE  PInv'
<1>1. CASE UNCHANGED vars
  BY <1>1 DEF vars, others, PInv, Control, KeptNow, MergeTyped, MergeStatement
<1>2. CASE Handlers
  BY <1>2, CopyKeeps, SelectionToFavoriteKeeps, EditInPlaceKeeps, EditMergesKeeps, DeleteKeeps,
     ConfirmFavoriteKeeps, RemoveFavoriteKeeps, ClearHistoryKeeps, WalkListKeeps
     DEF Handlers
<1>3. ASSUME NEW i \in DOMAIN jobs, RunStatement(i) \/ TaskFails(i)
      PROVE  PInv'
  BY <1>3, RunStatementKeeps, TaskFailsKeeps
<1>4. CASE MergeBumps \/ MergeFails
  BY <1>4, MergeEndsKeeps
<1>5. CASE OtherActs \/ OtherRuns
  BY <1>5, OtherActsKeeps, OtherRunsKeeps
<1>6. CASE Reload \/ ReadFails
  BY <1>6, StartReloadKeeps, ReadFavsKeeps, ReadEntriesKeeps, ReadContentsKeeps, ReadFailsKeeps
     DEF Reload
<1>7. CASE Crash \/ Exit \/ Restart
  BY <1>7, CrashKeeps, ExitKeeps, RestartKeeps
<1> QED
  BY <1>1, <1>2, <1>3, <1>4, <1>5, <1>6, <1>7 DEF Next

LEMMA PInvHolds == Spec => []PInv
<1>1. Init => PInv
  BY InitKept
<1>2. PInv /\ [Next]_vars => PInv'
  BY NextKeeps
<1> QED
  BY <1>1, <1>2, PTL DEF Spec

\* A reload amid running tasks, of this instance or of another, one that fails
\* halfway included, a crash and a start leave memory with indexes that
\* describe its entries exactly, for any number of all of them.
THEOREM IndexesExactHolds == Spec => []IndexesExact
<1>1. PInv => IndexesExact
  <2> SUFFICES ASSUME PInv
               PROVE  IndexesExact
    OBVIOUS
  <2>1. PICK own : Kept(own, clock, db, disk, jobs, theirs)
    BY KeptFacts
  <2>2. TimesGood(db) /\ FavsGood(db) /\ HashsLive(db)
    BY <2>1 DEF Kept, Working, Good
  <2>3. Store!TimesExact
    BY <2>2 DEF TimesGood, Store!TimesExact, Store!Live
  <2>4. Store!HashesLive
    BY <2>2 DEF HashsLive, Store!HashesLive, Store!Live
  <2>5. Store!FavoritesAgree
    BY <2>2 DEF FavsGood, Range, Store!FavoritesAgree, Store!Live, Store!Range
  <2> QED
    BY <2>3, <2>4, <2>5 DEF IndexesExact
<1> QED
  BY <1>1, PInvHolds, PTL

\* The fields of memory have their types, and the tables obey the schema: keys
\* unique, no content and no favorite without its entry, no negative position,
\* whichever statements ran, in whichever order, and where they were cut off.
THEOREM TypeOKHolds == Spec => []TypeOK
<1>1. PInv => TypeOK
  <2> SUFFICES ASSUME PInv
               PROVE  TypeOK
    OBVIOUS
  <2>1. PICK own : Kept(own, clock, db, disk, jobs, theirs)
    BY KeptFacts
  <2>2. /\ Good(db, clock, AllTitles) /\ Unsearched(db)
        /\ DiskOK(disk, clock, own)
        /\ jobs \in Seq(Task(clock, own))
    BY <2>1 DEF Kept, Working
  <2>3. Control /\ clock \in Nat /\ clock <= MaxTime
    BY KeptFacts DEF PInv
  <2>4. Store!IndexTypeOK
    <3>1. Store!Entry = EntryUpTo(clock, AllTitles)
      BY DEF EntryUpTo, AllTitles, Store!Entry, Store!Ids
    <3>2. /\ DOMAIN db = Fields
          /\ IsMap(db.entries, 1 .. clock, EntryUpTo(clock, AllTitles))
          /\ IsMap(db.hashs, Hashes, 1 .. clock)
          /\ IsMap(db.times, 1 .. clock, 1 .. clock)
          /\ db.favs \in Seq(1 .. clock)
          /\ db.favSet \subseteq 1 .. clock
          /\ IsMap(db.titles, 1 .. clock, AllTitles)
      BY <2>2 DEF Good, Typed
    <3>3. clock \in 0 .. MaxTime
      BY <2>3 DEF Control
    <3> QED
      BY <3>1, <3>2, <3>3 DEF IsMap, Hashes, Fields, AllTitles, Store!IndexTypeOK, Store!Ids,
                              Store!IsMap, Store!Hashes
  <2>5. Store!TypeOK
    BY <2>2, <2>4 DEF Unsearched, Store!TypeOK, Store!Ids
  <2>6. DiskTypeOK
    <3>1. 1 .. clock \subseteq 1 .. MaxTime
      BY <2>3, BoundsNatural
    <3>2. IsMap(disk.rows, 1 .. MaxTime, 1 .. MaxTime)
      BY <2>2, <3>1 DEF DiskOK, IsMap
    <3>3. IsMap(disk.contents, DOMAIN disk.rows, Copyable)
      BY <2>2 DEF DiskOK
    <3>4. /\ DOMAIN disk.favs \subseteq DOMAIN disk.rows
          /\ \A id \in DOMAIN disk.favs : disk.favs[id] \in FavRow
      BY <2>2 DEF DiskOK, IsMap
    <3> QED
      BY <3>2, <3>3, <3>4 DEF DiskTypeOK, FavRow, AllTitles
  <2>7. \A i \in DOMAIN jobs : jobs[i] # << >>
    BY <2>2 DEF Task
  <2> QED
    BY <2>3, <2>5, <2>6, <2>7 DEF TypeOK, Control
<1> QED
  BY <1>1, PInvHolds, PTL

-----------------------------------------------------------------------------
(* What a start leaves                                                     *)

\* Of the entries that are no favorites, as many as have at most k newer ones
\* number at most k + 1: no two entries are of the same time.
LEMMA FewNewest ==
  ASSUME NEW d, NEW n \in Nat, NEW own, DiskOK(d, n, own), NEW k \in Nat,
         NEW X \in SUBSET DOMAIN d.rows,
         \A id \in X : Cardinality({y \in DOMAIN d.rows : d.rows[y] > d.rows[id]}) <= k
  PROVE  IsFiniteSet(X) /\ Cardinality(X) <= k + 1
<1> DEFINE D == DOMAIN d.rows
           R == {p \in D \X D : d.rows[p[1]] > d.rows[p[2]]}
           f == [x \in X |-> Rank(x, D, R)]
<1>1. /\ IsFiniteSet(D)
      /\ \A id \in D : d.rows[id] \in 1 .. n /\ own[d.rows[id]] = id
  BY DiskFinite DEF DiskOK
<1>2. \A x, y \in D : << x, y >> \in R <=> d.rows[x] > d.rows[y]
  OBVIOUS
<1>3. StrictOrder(R, D)
  <2>1. \A x, y \in D : x # y => << x, y >> \in R \/ << y, x >> \in R
    <3> SUFFICES ASSUME NEW x \in D, NEW y \in D, x # y
                 PROVE  << x, y >> \in R \/ << y, x >> \in R
      OBVIOUS
    <3>1. d.rows[x] # d.rows[y] /\ d.rows[x] \in Nat /\ d.rows[y] \in Nat
      BY <1>1
    <3> HIDE DEF R, D
    <3> QED
      BY <1>2, <3>1
  <2>2. \A x \in D : d.rows[x] \in Nat
    BY <1>1
  <2> HIDE DEF R, D
  <2>3. \A x, y \in D : ~(<< x, y >> \in R /\ << y, x >> \in R)
    <3>1. \A x, y \in D : ~(d.rows[x] > d.rows[y] /\ d.rows[y] > d.rows[x])
      BY <2>2
    <3> QED
      BY <1>2, <3>1, Zenon
  <2>4. \A x, y, z \in D : << x, y >> \in R /\ << y, z >> \in R => << x, z >> \in R
    BY <1>2, <2>2
  <2> QED
    BY <2>1, <2>3, <2>4 DEF StrictOrder
<1>4. \A x \in X : Rank(x, D, R) = Cardinality({y \in D : d.rows[y] > d.rows[x]})
  <2> SUFFICES ASSUME NEW x \in X
               PROVE  {y \in D : << y, x >> \in R} = {y \in D : d.rows[y] > d.rows[x]}
    BY DEF Rank
  <2>1. x \in D
    OBVIOUS
  <2> HIDE DEF R
  <2> QED
    BY <1>2, <2>1
<1> HIDE DEF R
<1>5. \A x \in X : Rank(x, D, R) \in 0 .. k
  <2> SUFFICES ASSUME NEW x \in X
               PROVE  Rank(x, D, R) \in 0 .. k
    OBVIOUS
  <2>1. Rank(x, D, R) \in 0 .. Cardinality(D) - 1 /\ Cardinality(D) \in Nat
    BY <1>1, <1>3, RanksFollow, FS_CardinalityType
  <2>2. Rank(x, D, R) <= k
    BY <1>4
  <2> HIDE DEF D
  <2> QED
    BY <2>1, <2>2
<1>6. \A x, y \in X : Rank(x, D, R) = Rank(y, D, R) => x = y
  BY <1>1, <1>3, EachRankOnce
<1>7. f \in Injection(X, 0 .. k)
  <2>1. f \in [X -> 0 .. k]
    BY <1>5
  <2>2. \A x, y \in X : f[x] = f[y] => x = y
    BY <1>6
  <2> HIDE DEF f, D
  <2> QED
    BY <2>1, <2>2 DEF Injection, IsInjective
<1>8. IsFiniteSet(0 .. k) /\ Cardinality(0 .. k) = k + 1
  BY FS_Interval
<1> HIDE DEF f, D
<1> QED
  BY <1>7, <1>8, FS_Injection

\* The two DELETEs of with_path leave at most one entry more than the limit,
\* the favorites not counted.
LEMMA PrunedIsFew ==
  ASSUME NEW d, NEW n \in Nat, NEW own, DiskOK(d, n, own), OwnsLock, MaxEntries # None
  PROVE  /\ IsFiniteSet(NonFavorites(PrunedByNumber(d)))
         /\ Cardinality(NonFavorites(PrunedByNumber(d))) <= MaxEntries + 1
<1> DEFINE newer(t) == {y \in DOMAIN d.rows : d.rows[y] > t}
           gone == {id \in NonFavorites(d) : Cardinality(newer(d.rows[id])) > MaxEntries}
           X == NonFavorites(PrunedByNumber(d))
<1>1. MaxEntries \in Nat
  BY StoreAssumption
<1>2. PrunedByNumber(d) = DeleteRows(d, gone)
  BY DEF PrunedByNumber
<1>3. \A id \in DOMAIN d.rows : Cardinality(newer(d.rows[id])) \in Nat
  <2> SUFFICES ASSUME NEW id \in DOMAIN d.rows
               PROVE  Cardinality(newer(d.rows[id])) \in Nat
    OBVIOUS
  <2>1. newer(d.rows[id]) \in SUBSET DOMAIN d.rows
    OBVIOUS
  <2> HIDE DEF newer
  <2> QED
    BY <2>1, DiskFinite, FS_Subset, FS_CardinalityType
<1>4. X = NonFavorites(d) \ gone
  BY <1>2 DEF NonFavorites, DeleteRows, Drop
<1>5. \A id \in X : id \in DOMAIN d.rows /\ Cardinality(newer(d.rows[id])) <= MaxEntries
  <2> SUFFICES ASSUME NEW id \in X
               PROVE  id \in DOMAIN d.rows /\ Cardinality(newer(d.rows[id])) <= MaxEntries
    OBVIOUS
  <2>1. id \in DOMAIN d.rows /\ id \in NonFavorites(d)
    BY <1>4 DEF NonFavorites
  <2>2. ~(Cardinality(newer(d.rows[id])) > MaxEntries)
    BY <1>4, <2>1
  <2>3. Cardinality(newer(d.rows[id])) \in Nat
    BY <1>3, <2>1
  <2> HIDE DEF newer
  <2> QED
    BY <1>1, <2>1, <2>2, <2>3
<1> HIDE DEF X
<1> QED
  BY <1>1, <1>5, FewNewest DEF X

\* A start reads an entry as a favorite exactly when its row says so.
LEMMA LoadedNonFavorites ==
  ASSUME NEW d, NEW n \in Nat, NEW own, DiskOK(d, n, own), NEW st \in Loaded(d)
  PROVE  {id \in DOMAIN st.entries : ~st.entries[id].is_favorite} \subseteq NonFavorites(d)
<1>1. CASE FavsLoadable(d)
  <2> DEFINE a == WithFavs(EmptyStore, d)
             b == WithEntries(a, d)
             c == WithContents(b, d)
  <2>1. DOMAIN a = Fields /\ a.favSet = DOMAIN d.favs
    BY DEF WithFavs, EmptyStore, Fields
  <2> HIDE DEF a
  <2>2. /\ DOMAIN b = Fields /\ DOMAIN b.entries = DOMAIN d.rows
        /\ \A id \in DOMAIN d.rows : b.entries[id].is_favorite = (id \in DOMAIN d.favs)
    BY <2>1 DEF WithEntries, Fields
  <2> HIDE DEF b
  <2>3. /\ DOMAIN c = Fields /\ DOMAIN c.entries = DOMAIN b.entries
        /\ \A id \in DOMAIN b.entries : c.entries[id].is_favorite = b.entries[id].is_favorite
    BY <2>2 DEF WithContents, Fields
  <2>4. PICK h \in HashIndexes(c) : st = [c EXCEPT !.hashs = h]
    BY <1>1 DEF Loaded, a, b
  <2> HIDE DEF c
  <2>5. st.entries = c.entries
    BY <2>3, <2>4 DEF Fields
  <2> QED
    BY <2>2, <2>3, <2>5 DEF NonFavorites
<1>2. CASE ~FavsLoadable(d)
  BY <1>2 DEF Loaded, Panic, EmptyStore, Empty
<1> QED
  BY <1>1, <1>2

\* However many evictions a crash or a failure cut off, the next start leaves
\* at most one entry more than maximum_entries_number, favorites not counted,
\* for any limit and any history of tasks.
THEOREM StartPrunesHolds == Spec => StartPrunes
<1>1. PInv /\ [Next]_vars =>
        [Restart /\ OwnsLock /\ MaxEntries # None =>
           Cardinality({id \in Live' : ~db'.entries[id].is_favorite}) <= MaxEntries + 1]_vars
  <2> SUFFICES ASSUME PInv, Restart, OwnsLock, MaxEntries # None
               PROVE  Cardinality({id \in Live' : ~db'.entries[id].is_favorite}) <= MaxEntries + 1
    OBVIOUS
  <2>1. PICK own : Kept(own, clock, db, disk, jobs, theirs)
    BY KeptFacts
  <2>2. PICK now : disk' = PrunedByNumber(PrunedByAge(disk, now)) /\ db' \in Loaded(disk')
    BY DEF Restart
  <2>3. DiskOK(PrunedByAge(disk, now), clock, own)
    BY <2>1, KeptFacts, DeleteRowsKeepsDisk DEF Kept, PrunedByAge
  <2>4. DiskOK(disk', clock, own)
    BY <2>1, <2>2, KeptFacts, PrunedKeepsDisk DEF Kept
  <2>5. IsFiniteSet(NonFavorites(disk')) /\ Cardinality(NonFavorites(disk')) <= MaxEntries + 1
    BY <2>2, <2>3, KeptFacts, PrunedIsFew
  <2>6. {id \in Live' : ~db'.entries[id].is_favorite} \in SUBSET NonFavorites(disk')
    BY <2>2, <2>4, KeptFacts, LoadedNonFavorites DEF Live
  <2> DEFINE left == {id \in Live' : ~db'.entries[id].is_favorite}
  <2>7. Cardinality(left) <= Cardinality(NonFavorites(disk'))
    <3> HIDE DEF left
    <3> QED
      BY <2>5, <2>6, FS_Subset DEF left
  <2>8. Cardinality(left) \in Nat /\ Cardinality(NonFavorites(disk')) \in Nat
    <3> HIDE DEF left
    <3> QED
      BY <2>5, <2>6, FS_Subset, FS_CardinalityType DEF left
  <2>9. MaxEntries \in Nat
    BY StoreAssumption
  <2> HIDE DEF left
  <2> QED
    BY <2>5, <2>7, <2>8, <2>9 DEF left
<1> QED
  BY <1>1, PInvHolds, PTL DEF Spec, StartPrunes

-----------------------------------------------------------------------------
(* Statements one after another                                            *)

\* Statement s changes the tables from d to e.
Runs(d, s, e) == Exec(d, s) = Ok(e) /\ PositionsDistinct(e)

\* The stages p a task takes the tables through.
Stages(p, d, task, e) ==
  /\ p[0] = d /\ p[Len(task)] = e
  /\ \A k \in 1 .. Len(task) : Runs(p[k - 1], task[k], p[k])

\* A task takes the tables from d to e.
Leads(d, task, e) == \E p : Stages(p, d, task, e)

\* The tables between the tasks.
TaskStages(q, d, tasks, e) ==
  /\ q[0] = d /\ q[Len(tasks)] = e
  /\ \A i \in 1 .. Len(tasks) : Leads(q[i - 1], tasks[i], q[i])

LeadsAll(d, tasks, e) == \E q : TaskStages(q, d, tasks, e)

LEMMA OneLeads ==
  ASSUME NEW d, NEW s, NEW e, Runs(d, s, e)
  PROVE  Leads(d, << s >>, e)
<1> DEFINE p == [k \in 0 .. 1 |-> IF k = 0 THEN d ELSE e]
<1>1. p[0] = d /\ p[1] = e
  OBVIOUS
<1> HIDE DEF p
<1>2. Len(<< s >>) = 1 /\ << s >>[1] = s
  OBVIOUS
<1>3. Stages(p, d, << s >>, e)
  BY <1>1, <1>2 DEF Stages
<1> QED
  BY <1>3 DEF Leads

LEMMA NoneLeads ==
  ASSUME NEW d, NEW e
  PROVE  /\ Leads(d, << >>, d) /\ (Leads(d, << >>, e) => e = d)
         /\ LeadsAll(d, << >>, d) /\ (LeadsAll(d, << >>, e) => e = d)
<1> DEFINE p == [k \in 0 .. 0 |-> d]
<1>1. p[0] = d /\ Len(<< >>) = 0
  OBVIOUS
<1> HIDE DEF p
<1>2. Stages(p, d, << >>, d) /\ TaskStages(p, d, << >>, d)
  BY <1>1 DEF Stages, TaskStages
<1>3. Leads(d, << >>, d) /\ LeadsAll(d, << >>, d)
  BY <1>2 DEF Leads, LeadsAll
<1>4. Leads(d, << >>, e) => e = d
  BY <1>1 DEF Leads, Stages
<1>5. LeadsAll(d, << >>, e) => e = d
  BY <1>1 DEF LeadsAll, TaskStages
<1> QED
  BY <1>3, <1>4, <1>5

\* One task after another, and the statements of one after those of another.
LEMMA ThenLeads ==
  ASSUME NEW T, NEW a \in Seq(T), NEW b \in Seq(T), NEW d, NEW m, NEW e,
         Leads(d, a, m), Leads(m, b, e)
  PROVE  Leads(d, a \o b, e)
<1> DEFINE A == Len(a)
           B == Len(b)
<1>1. PICK p : Stages(p, d, a, m)
  BY DEF Leads
<1>2. PICK q : Stages(q, m, b, e)
  BY DEF Leads
<1> DEFINE r == [k \in 0 .. A + B |-> IF k <= A THEN p[k] ELSE q[k - A]]
<1>3. /\ A \in Nat /\ B \in Nat /\ Len(a \o b) = A + B
      /\ \A k \in 1 .. A + B : (a \o b)[k] = IF k <= A THEN a[k] ELSE b[k - A]
  BY Joined
<1>4. /\ p[0] = d /\ p[A] = m /\ q[0] = m /\ q[B] = e
      /\ \A k \in 1 .. A : Runs(p[k - 1], a[k], p[k])
      /\ \A k \in 1 .. B : Runs(q[k - 1], b[k], q[k])
  BY <1>1, <1>2 DEF Stages
<1>5. \A k \in 0 .. A + B : r[k] = IF k <= A THEN p[k] ELSE q[k - A]
  OBVIOUS
<1> HIDE DEF r, A, B
<1>6. r[0] = d
  BY <1>3, <1>4, <1>5
<1>7. r[A + B] = e
  <2>1. CASE B = 0
    BY <1>3, <1>4, <1>5, <2>1
  <2>2. CASE B # 0
    <3>1. ~(A + B <= A) /\ (A + B) - A = B /\ A + B \in 0 .. A + B
      BY <1>3, <2>2
    <3> QED
      BY <1>4, <1>5, <3>1
  <2> QED
    BY <2>1, <2>2
<1>8. ASSUME NEW k \in 1 .. A + B
      PROVE  Runs(r[k - 1], (a \o b)[k], r[k])
  <2>1. CASE k <= A
    <3>1. k \in 1 .. A /\ k - 1 \in 0 .. A + B /\ k \in 0 .. A + B /\ k - 1 <= A
      BY <1>3, <2>1
    <3>2. r[k - 1] = p[k - 1] /\ r[k] = p[k] /\ (a \o b)[k] = a[k]
      BY <1>3, <1>5, <2>1, <3>1
    <3> QED
      BY <1>4, <3>1, <3>2
  <2>2. CASE ~(k <= A)
    <3>1. /\ k - A \in 1 .. B /\ k - 1 \in 0 .. A + B /\ k \in 0 .. A + B
          /\ (k - 1) - A = (k - A) - 1
      BY <1>3, <2>2
    <3>2. r[k] = q[k - A] /\ (a \o b)[k] = b[k - A]
      BY <1>3, <1>5, <2>2, <3>1
    <3>3. r[k - 1] = q[(k - A) - 1]
      <4>1. CASE k - 1 <= A
        <5>1. k - 1 = A /\ (k - A) - 1 = 0
          BY <1>3, <2>2, <4>1
        <5> QED
          BY <1>4, <1>5, <3>1, <4>1, <5>1
      <4>2. CASE ~(k - 1 <= A)
        BY <1>5, <3>1, <4>2
      <4> QED
        BY <4>1, <4>2
    <3> QED
      BY <1>4, <3>1, <3>2, <3>3
  <2> QED
    BY <2>1, <2>2
<1>9. Stages(r, d, a \o b, e)
  BY <1>3, <1>6, <1>7, <1>8 DEF Stages
<1> QED
  BY <1>9 DEF Leads

\* The first statement of a task, and what is left of it.
LEMMA FirstLeads ==
  ASSUME NEW T, NEW task \in Seq(T), task # << >>, NEW d, NEW e, Leads(d, task, e)
  PROVE  \E m : Runs(d, Head(task), m) /\ Leads(m, Tail(task), e)
<1> DEFINE N == Len(task)
           rest == Tail(task)
<1>1. PICK p : Stages(p, d, task, e)
  BY DEF Leads
<1>2. /\ N \in Nat \ {0} /\ Head(task) = task[1]
      /\ Len(rest) = N - 1
      /\ \A k \in 1 .. N - 1 : rest[k] = task[k + 1]
  OBVIOUS
<1>3. /\ p[0] = d /\ p[N] = e
      /\ \A k \in 1 .. N : Runs(p[k - 1], task[k], p[k])
  BY <1>1 DEF Stages
<1> DEFINE q == [k \in 0 .. N - 1 |-> p[k + 1]]
<1>4. \A k \in 0 .. N - 1 : q[k] = p[k + 1]
  OBVIOUS
<1> HIDE DEF N, rest, q
<1>5. Runs(d, task[1], p[1])
  <2>1. 1 \in 1 .. N /\ 1 - 1 = 0
    BY <1>2
  <2> QED
    BY <1>3, <2>1
<1>6. q[0] = p[1] /\ q[N - 1] = e
  BY <1>2, <1>3, <1>4
<1>7. ASSUME NEW k \in 1 .. N - 1
      PROVE  Runs(q[k - 1], rest[k], q[k])
  <2>1. /\ k + 1 \in 1 .. N /\ (k + 1) - 1 = k /\ k \in 0 .. N - 1 /\ k - 1 \in 0 .. N - 1
        /\ (k - 1) + 1 = k
    BY <1>2
  <2>2. q[k - 1] = p[k] /\ q[k] = p[k + 1] /\ rest[k] = task[k + 1]
    BY <1>2, <1>4, <2>1
  <2> QED
    BY <1>3, <2>1, <2>2
<1>8. Stages(q, p[1], rest, e)
  BY <1>2, <1>6, <1>7 DEF Stages
<1> QED
  BY <1>2, <1>5, <1>8 DEF Leads, rest

\* Another task at the end.
LEMMA AppendLeads ==
  ASSUME NEW T, NEW tasks \in Seq(T), NEW d, NEW m, NEW task, NEW e,
         LeadsAll(d, tasks, m), Leads(m, task, e)
  PROVE  LeadsAll(d, Append(tasks, task), e)
<1> DEFINE N == Len(tasks)
           more == Append(tasks, task)
<1>1. PICK q : TaskStages(q, d, tasks, m)
  BY DEF LeadsAll
<1>2. /\ N \in Nat /\ Len(more) = N + 1 /\ more[N + 1] = task
      /\ \A i \in 1 .. N : more[i] = tasks[i]
  OBVIOUS
<1>3. q[0] = d /\ q[N] = m /\ \A i \in 1 .. N : Leads(q[i - 1], tasks[i], q[i])
  BY <1>1 DEF TaskStages
<1> DEFINE r == [i \in 0 .. N + 1 |-> IF i = N + 1 THEN e ELSE q[i]]
<1>4. \A i \in 0 .. N + 1 : r[i] = IF i = N + 1 THEN e ELSE q[i]
  OBVIOUS
<1> HIDE DEF r, N, more
<1>5. r[0] = d /\ r[N + 1] = e /\ r[N] = m
  BY <1>2, <1>3, <1>4
<1>6. ASSUME NEW i \in 1 .. N + 1
      PROVE  Leads(r[i - 1], more[i], r[i])
  <2>1. CASE i = N + 1
    <3>1. i - 1 = N
      BY <1>2, <2>1
    <3> QED
      BY <1>2, <1>5, <2>1, <3>1
  <2>2. CASE i # N + 1
    <3>1. i \in 1 .. N /\ i \in 0 .. N + 1 /\ i - 1 \in 0 .. N + 1 /\ i - 1 # N + 1
      BY <1>2, <2>2
    <3>2. r[i] = q[i] /\ r[i - 1] = q[i - 1] /\ more[i] = tasks[i]
      BY <1>2, <1>4, <2>2, <3>1
    <3> QED
      BY <1>3, <3>1, <3>2
  <2> QED
    BY <2>1, <2>2
<1>7. TaskStages(r, d, more, e)
  BY <1>2, <1>5, <1>6 DEF TaskStages
<1> QED
  BY <1>7 DEF LeadsAll, more

LEMMA LastStatement ==
  ASSUME NEW T, NEW task \in Seq(T), task # << >>, Len(task) <= 1
  PROVE  Tail(task) = << >>
<1>1. Len(task) \in Nat /\ Len(task) # 0
  OBVIOUS
<1>2. Len(task) = 1
  BY <1>1
<1>3. Tail(task) \in Seq(T) /\ Len(Tail(task)) = 0
  BY <1>2
<1> QED
  BY <1>3

\* Two statements in one task.
LEMMA TwoLeads ==
  ASSUME NEW d, NEW s, NEW m, NEW t, NEW e, Runs(d, s, m), Runs(m, t, e)
  PROVE  Leads(d, << s, t >>, e)
<1> DEFINE p == [k \in 0 .. 2 |-> IF k = 0 THEN d ELSE IF k = 1 THEN m ELSE e]
<1>1. p[0] = d /\ p[1] = m /\ p[2] = e
  OBVIOUS
<1> HIDE DEF p
<1>2. Len(<< s, t >>) = 2 /\ << s, t >>[1] = s /\ << s, t >>[2] = t
  OBVIOUS
<1>3. Stages(p, d, << s, t >>, e)
  <2>1. ASSUME NEW k \in 1 .. 2
        PROVE  Runs(p[k - 1], << s, t >>[k], p[k])
    <3>1. CASE k = 1
      <4>1. k - 1 = 0
        BY <3>1
      <4> QED
        BY <1>1, <1>2, <3>1, <4>1
    <3>2. CASE k = 2
      <4>1. k - 1 = 1
        BY <3>2
      <4> QED
        BY <1>1, <1>2, <3>2, <4>1
    <3> QED
      BY <3>1, <3>2
  <2> QED
    BY <1>1, <1>2, <2>1 DEF Stages
<1> QED
  BY <1>3 DEF Leads

LEMMA ThreeLeads ==
  ASSUME NEW d, NEW s, NEW m, NEW t, NEW k, NEW u, NEW e,
         Runs(d, s, m), Runs(m, t, k), Runs(k, u, e)
  PROVE  Leads(d, << s, t, u >>, e)
<1> DEFINE p == [i \in 0 .. 3 |-> IF i = 0 THEN d ELSE IF i = 1 THEN m ELSE IF i = 2 THEN k ELSE e]
           z == << s, t, u >>
<1>1. p[0] = d /\ p[1] = m /\ p[2] = k /\ p[3] = e
  OBVIOUS
<1>2. Len(z) = 3 /\ z[1] = s /\ z[2] = t /\ z[3] = u
  OBVIOUS
<1> HIDE DEF p, z
<1>3. Stages(p, d, z, e)
  <2>1. ASSUME NEW i \in 1 .. 3
        PROVE  Runs(p[i - 1], z[i], p[i])
    <3>1. CASE i = 1
      <4>1. i - 1 = 0
        BY <3>1
      <4> QED
        BY <1>1, <1>2, <3>1, <4>1
    <3>2. CASE i = 2
      <4>1. i - 1 = 1
        BY <3>2
      <4> QED
        BY <1>1, <1>2, <3>2, <4>1
    <3>3. CASE i = 3
      <4>1. i - 1 = 2
        BY <3>3
      <4> QED
        BY <1>1, <1>2, <3>3, <4>1
    <3> QED
      BY <3>1, <3>2, <3>3
  <2> QED
    BY <1>1, <1>2, <2>1 DEF Stages
<1> QED
  BY <1>3 DEF Leads, z

-----------------------------------------------------------------------------
(* Statements that may change places                                       *)

Tables == {"rows", "contents", "favs"}

\* What holds of 0 and passes from each number to the next holds up to N.
LEMMA Upwards ==
  ASSUME NEW N \in Nat, NEW T, 0 \in T, \A k \in 0 .. N - 1 : k \in T => k + 1 \in T
  PROVE  0 .. N \subseteq T
<1> SUFFICES ASSUME (0 .. N) \ T # {} PROVE FALSE
  OBVIOUS
<1>1. PICK m \in (0 .. N) \ T : \A k \in (0 .. N) \ T : m <= k
  <2>1. (0 .. N) \ T \in SUBSET Nat
    OBVIOUS
  <2> QED
    BY <2>1, LeastNatural
<1>2. m - 1 \in 0 .. N - 1 /\ (m - 1) + 1 = m
  BY <1>1
<1>3. m - 1 \in T
  BY <1>1, <1>2
<1> QED
  BY <1>1, <1>2, <1>3

IsFunction(f) == f = [x \in DOMAIN f |-> f[x]]

Placed(favs) == \A x \in DOMAIN favs : "position" \in DOMAIN favs[x]

\* Tables made of functions; favorites have positions.
Proper(d) ==
  /\ DOMAIN d = Tables
  /\ IsFunction(d)
  /\ \A tau \in Tables : IsFunction(d[tau])
  /\ Placed(d["favs"])

\* Two tables hold the same for x.
Equal(f, g, x) ==
  /\ x \in DOMAIN f <=> x \in DOMAIN g
  /\ x \in DOMAIN f => f[x] = g[x]

\* They hold the same for all the others.
Beside(f, g, id) == \A x : x # id => Equal(f, g, x)

\* Two files hold the same of entry x.
SameOf(d, e, x) == \A tau \in Tables : Equal(d[tau], e[tau], x)

LEMMA SameFunction ==
  ASSUME NEW f, NEW g, IsFunction(f), IsFunction(g), \A x : Equal(f, g, x)
  PROVE  f = g
<1>1. \A x : /\ x \in DOMAIN f <=> x \in DOMAIN g
             /\ x \in DOMAIN f => f[x] = g[x]
  BY DEF Equal
<1>2. DOMAIN f = DOMAIN g
  BY <1>1
<1>3. f = [x \in DOMAIN f |-> f[x]] /\ g = [x \in DOMAIN g |-> g[x]]
  BY DEF IsFunction
<1> QED
  BY <1>1, <1>2, <1>3

LEMMA SameEverywhere ==
  ASSUME NEW d, NEW e, Proper(d), Proper(e), \A x : SameOf(d, e, x)
  PROVE  d = e
<1>1. ASSUME NEW tau \in Tables
      PROVE  d[tau] = e[tau]
  BY SameFunction DEF Proper, SameOf
<1>2. \A tau : Equal(d, e, tau)
  BY <1>1 DEF Proper, Equal
<1> QED
  BY <1>2, SameFunction DEF Proper

\* The tables d, with g for table t.
With(d, t, g) == [d EXCEPT ![t] = g]

LEMMA WithTables ==
  ASSUME NEW d, Proper(d), NEW t \in Tables, NEW g
  PROVE  /\ DOMAIN With(d, t, g) = Tables /\ IsFunction(With(d, t, g))
         /\ \A tau \in Tables : With(d, t, g)[tau] = IF tau = t THEN g ELSE d[tau]
  BY DEF Proper, With, IsFunction

\* One table changes, at one entry.
LEMMA TableChanged ==
  ASSUME NEW d, Proper(d), NEW t \in Tables, NEW id, NEW g, IsFunction(g), Beside(d[t], g, id),
         Placed(With(d, t, g)["favs"])
  PROVE  /\ Proper(With(d, t, g))
         /\ \A x : x # id => SameOf(d, With(d, t, g), x)
<1> DEFINE e == With(d, t, g)
<1>1. /\ DOMAIN e = Tables /\ IsFunction(e)
      /\ \A tau \in Tables : e[tau] = IF tau = t THEN g ELSE d[tau]
  BY WithTables
<1>2. Placed(e["favs"])
  OBVIOUS
<1> HIDE DEF e
<1>3. \A tau \in Tables : IsFunction(e[tau])
  BY <1>1 DEF Proper
<1>4. Proper(e)
  BY <1>1, <1>2, <1>3 DEF Proper
<1>5. \A x : x # id => SameOf(d, e, x)
  <2> SUFFICES ASSUME NEW x, x # id, NEW tau \in Tables
               PROVE  Equal(d[tau], e[tau], x)
    BY DEF SameOf
  <2>1. Equal(d[tau], d[tau], x)
    BY DEF Equal
  <2>2. Equal(d[t], g, x)
    BY DEF Beside
  <2> QED
    BY <1>1, <2>1, <2>2
<1> QED
  BY <1>4, <1>5 DEF e

LEMMA TablesChanged ==
  ASSUME NEW d, Proper(d), NEW e, Proper(e), NEW t \in Tables, NEW id, SameOf(d, e, id),
         NEW g, NEW h, Equal(g, h, id)
  PROVE  SameOf(With(d, t, g), With(e, t, h), id)
<1>1. \A tau \in Tables : /\ With(d, t, g)[tau] = IF tau = t THEN g ELSE d[tau]
                          /\ With(e, t, h)[tau] = IF tau = t THEN h ELSE e[tau]
  BY WithTables
<1> QED
  BY <1>1 DEF SameOf

LEMMA PutBeside ==
  ASSUME NEW f, NEW g, NEW id, NEW v
  PROVE  /\ IsFunction(Put(f, id, v)) /\ Beside(f, Put(f, id, v), id)
         /\ Equal(Put(f, id, v), Put(g, id, v), id)
  BY DEF Put, IsFunction, Beside, Equal

LEMMA DropBeside ==
  ASSUME NEW f, NEW g, NEW id
  PROVE  /\ IsFunction(Drop(f, {id})) /\ Beside(f, Drop(f, {id}), id)
         /\ Equal(Drop(f, {id}), Drop(g, {id}), id)
  BY DEF Drop, IsFunction, Beside, Equal

\* A statement about one entry looks at nothing else and changes nothing else.
Local(s, d, e) ==
  /\ Proper(Exec(d, s).disk)
  /\ \A x : x # s.id => SameOf(d, Exec(d, s).disk, x)
  /\ SameOf(d, e, s.id) =>
       /\ Exec(e, s).ok = Exec(d, s).ok
       /\ SameOf(Exec(d, s).disk, Exec(e, s).disk, s.id)
  /\ PositionsDistinct(d) => PositionsDistinct(Exec(d, s).disk)

LEMMA SetBeside ==
  ASSUME NEW f, NEW g, NEW id, Equal(f, g, id), NEW v
  PROVE  /\ IsFunction([f EXCEPT ![id] = v]) /\ Beside(f, [f EXCEPT ![id] = v], id)
         /\ Equal([f EXCEPT ![id] = v], [g EXCEPT ![id] = v], id)
  BY DEF IsFunction, Beside, Equal

LEMMA SameOfItself ==
  ASSUME NEW d
  PROVE  \A x : SameOf(d, d, x)
  BY DEF SameOf, Equal

LEMMA InsertEntryLocal ==
  ASSUME NEW s, s.do = "InsertEntry", NEW d, Proper(d), NEW e, Proper(e)
  PROVE  Local(s, d, e)
<1> DEFINE id == s.id
           v == s.time
           g == Put(d["rows"], id, v)
           h == Put(e["rows"], id, v)
           a == With(d, "rows", g)
           b == With(e, "rows", h)
<1>1. /\ Exec(d, s) = IF id \in DOMAIN d["rows"] THEN Failed(d) ELSE Ok(a)
      /\ Exec(e, s) = IF id \in DOMAIN e["rows"] THEN Failed(e) ELSE Ok(b)
  BY DEF Exec, With
<1> HIDE DEF id, v
<1>2. "rows" \in Tables
  BY DEF Tables
<1>5. a["favs"] = d["favs"]
  BY <1>2, WithTables DEF Tables
<1>8. Placed(a["favs"])
  BY <1>5 DEF Proper
<1>3. Proper(a) /\ \A x : x # id => SameOf(d, a, x)
  <2>1. IsFunction(g) /\ Beside(d["rows"], g, id)
    BY PutBeside
  <2> HIDE DEF g
  <2> QED
    BY ONLY Proper(d), <1>2, <1>8, <2>1, TableChanged
<1>4. SameOf(d, e, id) => SameOf(a, b, id)
  BY <1>2, PutBeside, TablesChanged
<1>6. SameOf(d, e, id) => (id \in DOMAIN d["rows"] <=> id \in DOMAIN e["rows"])
  BY <1>2 DEF SameOf, Equal
<1>7. \A x : SameOf(d, d, x)
  BY SameOfItself
<1> HIDE DEF a, b, g, h
<1> QED
  BY <1>1, <1>3, <1>4, <1>5, <1>6, <1>7 DEF Local, Ok, Failed, PositionsDistinct, id

LEMMA InsertContentLocal ==
  ASSUME NEW s, s.do = "InsertContent", NEW d, Proper(d), NEW e, Proper(e)
  PROVE  Local(s, d, e)
<1> DEFINE id == s.id
           v == s.data
           g == Put(d["contents"], id, v)
           h == Put(e["contents"], id, v)
           a == With(d, "contents", g)
           b == With(e, "contents", h)
<1>1. /\ Exec(d, s) = IF id \notin DOMAIN d["rows"] \/ id \in DOMAIN d["contents"]
                        THEN Failed(d) ELSE Ok(a)
      /\ Exec(e, s) = IF id \notin DOMAIN e["rows"] \/ id \in DOMAIN e["contents"]
                        THEN Failed(e) ELSE Ok(b)
  BY DEF Exec, With
<1> HIDE DEF id, v
<1>2. "contents" \in Tables /\ "rows" \in Tables
  BY DEF Tables
<1>5. a["favs"] = d["favs"]
  BY <1>2, WithTables DEF Tables
<1>8. Placed(a["favs"])
  BY <1>5 DEF Proper
<1>3. Proper(a) /\ \A x : x # id => SameOf(d, a, x)
  <2>1. IsFunction(g) /\ Beside(d["contents"], g, id)
    BY PutBeside
  <2> HIDE DEF g
  <2> QED
    BY ONLY Proper(d), <1>2, <1>8, <2>1, TableChanged
<1>4. SameOf(d, e, id) => SameOf(a, b, id)
  BY <1>2, PutBeside, TablesChanged
<1>6. SameOf(d, e, id) => /\ id \in DOMAIN d["rows"] <=> id \in DOMAIN e["rows"]
                          /\ id \in DOMAIN d["contents"] <=> id \in DOMAIN e["contents"]
  BY <1>2 DEF SameOf, Equal
<1>7. \A x : SameOf(d, d, x)
  BY SameOfItself
<1> HIDE DEF a, b, g, h
<1> QED
  BY <1>1, <1>3, <1>4, <1>5, <1>6, <1>7 DEF Local, Ok, Failed, PositionsDistinct, id

LEMMA DeleteContentLocal ==
  ASSUME NEW s, s.do = "DeleteContent", NEW d, Proper(d), NEW e, Proper(e)
  PROVE  Local(s, d, e)
<1> DEFINE id == s.id
           g == Drop(d["contents"], {id})
           h == Drop(e["contents"], {id})
           a == With(d, "contents", g)
           b == With(e, "contents", h)
<1>1. Exec(d, s) = Ok(a) /\ Exec(e, s) = Ok(b)
  BY DEF Exec, With
<1> HIDE DEF id
<1>2. "contents" \in Tables
  BY DEF Tables
<1>5. a["favs"] = d["favs"]
  BY <1>2, WithTables DEF Tables
<1>8. Placed(a["favs"])
  BY <1>5 DEF Proper
<1>3. Proper(a) /\ \A x : x # id => SameOf(d, a, x)
  <2>1. IsFunction(g) /\ Beside(d["contents"], g, id)
    BY DropBeside
  <2> HIDE DEF g
  <2> QED
    BY ONLY Proper(d), <1>2, <1>8, <2>1, TableChanged
<1>4. SameOf(d, e, id) => SameOf(a, b, id)
  BY <1>2, DropBeside, TablesChanged
<1> HIDE DEF a, b, g, h
<1> QED
  BY <1>1, <1>3, <1>4, <1>5 DEF Local, Ok, PositionsDistinct, id

LEMMA SetCreationLocal ==
  ASSUME NEW s, s.do = "SetCreation", NEW d, Proper(d), NEW e, Proper(e)
  PROVE  Local(s, d, e)
<1> DEFINE id == s.id
           v == s.time
           g == [d["rows"] EXCEPT ![id] = v]
           h == [e["rows"] EXCEPT ![id] = v]
           a == With(d, "rows", g)
           b == With(e, "rows", h)
<1>1. /\ Exec(d, s) = Ok(IF id \in DOMAIN d["rows"] THEN a ELSE d)
      /\ Exec(e, s) = Ok(IF id \in DOMAIN e["rows"] THEN b ELSE e)
  BY DEF Exec, With
<1> HIDE DEF id, v
<1>2. "rows" \in Tables
  BY DEF Tables
<1>5. a["favs"] = d["favs"]
  BY <1>2, WithTables DEF Tables
<1>8. Placed(a["favs"])
  BY <1>5 DEF Proper
<1>3. Proper(a) /\ \A x : x # id => SameOf(d, a, x)
  <2>1. Equal(d["rows"], d["rows"], id)
    BY DEF Equal
  <2>2. IsFunction(g) /\ Beside(d["rows"], g, id)
    BY <2>1, SetBeside
  <2> HIDE DEF g
  <2> QED
    BY <1>2, <1>8, <2>2, TableChanged
<1>4. SameOf(d, e, id) => SameOf(a, b, id)
  <2> SUFFICES ASSUME SameOf(d, e, id) PROVE SameOf(a, b, id)
    OBVIOUS
  <2>1. Equal(d["rows"], e["rows"], id)
    BY <1>2 DEF SameOf
  <2>2. Equal(g, h, id)
    BY <2>1, SetBeside
  <2> HIDE DEF g, h
  <2> QED
    BY <1>2, <2>2, TablesChanged
<1>6. SameOf(d, e, id) => (id \in DOMAIN d["rows"] <=> id \in DOMAIN e["rows"])
  BY <1>2 DEF SameOf, Equal
<1>7. \A x : SameOf(d, d, x)
  BY SameOfItself
<1> HIDE DEF a, b, g, h
<1> QED
  BY <1>1, <1>3, <1>4, <1>5, <1>6, <1>7 DEF Local, Ok, PositionsDistinct, id

LEMMA SetTitleLocal ==
  ASSUME NEW s, s.do = "SetTitle", NEW d, Proper(d), NEW e, Proper(e)
  PROVE  Local(s, d, e)
<1> DEFINE id == s.id
           u == [d["favs"][id] EXCEPT !.title = s.title]
           v == [e["favs"][id] EXCEPT !.title = s.title]
           g == [d["favs"] EXCEPT ![id] = u]
           h == [e["favs"] EXCEPT ![id] = v]
           a == With(d, "favs", g)
           b == With(e, "favs", h)
<1>1. /\ Exec(d, s) = Ok(IF id \in DOMAIN d["favs"] THEN a ELSE d)
      /\ Exec(e, s) = Ok(IF id \in DOMAIN e["favs"] THEN b ELSE e)
  BY DEF Exec, With
<1>2. "favs" \in Tables /\ Placed(d["favs"])
  BY DEF Tables, Proper
<1>3. id \in DOMAIN d["favs"] =>
        "position" \in DOMAIN u /\ u.position = d["favs"][id].position
  BY <1>2 DEF Placed
<1>4. SameOf(d, e, id) => /\ id \in DOMAIN d["favs"] <=> id \in DOMAIN e["favs"]
                          /\ id \in DOMAIN d["favs"] => u = v
                          /\ Equal(d["favs"], e["favs"], id)
  BY <1>2 DEF SameOf, Equal
<1> HIDE DEF id, u, v
<1>5. /\ DOMAIN g = DOMAIN d["favs"]
      /\ \A x \in DOMAIN d["favs"] : g[x] = IF x = id THEN u ELSE d["favs"][x]
  OBVIOUS
<1>6. IsFunction(g) /\ Beside(d["favs"], g, id)
  <2>1. Equal(d["favs"], d["favs"], id)
    BY DEF Equal
  <2> QED
    BY <2>1, SetBeside
<1>7. SameOf(d, e, id) /\ id \in DOMAIN d["favs"] => Equal(g, h, id)
  BY <1>4, SetBeside
<1> HIDE DEF g, h
<1>8. /\ \A x \in DOMAIN g : "position" \in DOMAIN g[x]
      /\ \A x \in DOMAIN g : g[x].position = d["favs"][x].position
  BY <1>2, <1>3, <1>5 DEF Placed
<1>9. Placed(g)
  BY <1>8 DEF Placed
<1>10. Proper(a) /\ \A x : x # id => SameOf(d, a, x)
  <2>1. Placed(a["favs"])
    BY <1>2, <1>9, WithTables
  <2> QED
    BY <1>2, <1>6, <2>1, TableChanged
<1>11. SameOf(d, e, id) /\ id \in DOMAIN d["favs"] => SameOf(a, b, id)
  BY <1>2, <1>7, TablesChanged
<1>12. a["favs"] = g
  BY <1>2, WithTables
<1>13. PositionsDistinct(d) => PositionsDistinct(a)
  BY <1>5, <1>8, <1>12 DEF PositionsDistinct
<1>14. \A x : SameOf(d, d, x)
  BY SameOfItself
<1> HIDE DEF a, b
<1> QED
  BY <1>1, <1>4, <1>10, <1>11, <1>13, <1>14 DEF Local, Ok, id

LEMMA DeleteEntryLocal ==
  ASSUME NEW s, s.do = "DeleteEntry", NEW d, Proper(d), NEW e, Proper(e)
  PROVE  Local(s, d, e)
<1> DEFINE id == s.id
           a == DeleteRows(d, {id})
           b == DeleteRows(e, {id})
<1>1. Exec(d, s) = Ok(a) /\ Exec(e, s) = Ok(b)
  BY DEF Exec
<1> HIDE DEF id
<1>2. /\ DOMAIN a = Tables /\ IsFunction(a)
      /\ \A tau \in Tables : a[tau] = Drop(d[tau], {id})
      /\ \A tau \in Tables : b[tau] = Drop(e[tau], {id})
  BY DEF DeleteRows, Tables, IsFunction
<1>3. PositionsDistinct(d) => PositionsDistinct(a)
  BY DEF DeleteRows, Drop, PositionsDistinct
<1>4. Placed(d["favs"]) => Placed(Drop(d["favs"], {id}))
  BY DEF Placed, Drop
<1> HIDE DEF a, b
<1>5. \A tau \in Tables : IsFunction(a[tau])
  BY <1>2, DropBeside
<1>6. Proper(a)
  BY <1>2, <1>4, <1>5 DEF Proper, Tables
<1>7. \A x : x # id => SameOf(d, a, x)
  BY <1>2, DropBeside DEF SameOf, Beside
<1>8. SameOf(a, b, id)
  BY <1>2, DropBeside DEF SameOf
<1> QED
  BY <1>1, <1>3, <1>6, <1>7, <1>8 DEF Local, Ok, id

LEMMA EntryLocal ==
  ASSUME NEW s, s.do \in EntryStatements, NEW d, Proper(d), NEW e, Proper(e)
  PROVE  Local(s, d, e)
  BY InsertEntryLocal, InsertContentLocal, DeleteEntryLocal, DeleteContentLocal,
     SetCreationLocal, SetTitleLocal DEF EntryStatements

\* A statement that does not fail.
LEMMA OkRuns ==
  ASSUME NEW d, NEW s, s.do \in EntryStatements, Exec(d, s).ok
  PROVE  Exec(d, s) = Ok(Exec(d, s).disk)
<1>1. \E r : Exec(d, s) = Ok(r) \/ Exec(d, s) = Failed(r)
  BY DEF Exec, EntryStatements
<1> QED
  BY <1>1 DEF Ok, Failed

\* Two statements about different entries lead to the same tables in either order.
LEMMA SwapRuns ==
  ASSUME NEW d, Proper(d), PositionsDistinct(d), NEW s, NEW t, Apart(s, t),
         NEW m, Runs(d, t, m), NEW f, Runs(m, s, f)
  PROVE  \E e : Runs(d, s, e) /\ Runs(e, t, f)
<1> DEFINE e == Exec(d, s).disk
           h == Exec(e, t).disk
<1>1. /\ s.do \in EntryStatements /\ t.do \in EntryStatements /\ s.id # t.id
      /\ Exec(d, t) = Ok(m) /\ Exec(m, s) = Ok(f) /\ PositionsDistinct(f)
  BY DEF Apart, Runs
<1>2. Local(t, d, d) /\ Proper(m) /\ \A x : x # t.id => SameOf(d, m, x)
  <2>1. Local(t, d, d)
    BY <1>1, EntryLocal
  <2> QED
    BY <1>1, <2>1 DEF Local, Ok
<1>3. Proper(f) /\ \A x : x # s.id => SameOf(m, f, x)
  <2>1. Local(s, m, m)
    BY <1>1, <1>2, EntryLocal
  <2> QED
    BY <1>1, <2>1 DEF Local, Ok
<1>4. /\ Proper(e) /\ PositionsDistinct(e) /\ \A x : x # s.id => SameOf(d, e, x)
      /\ Exec(d, s).ok = Exec(m, s).ok /\ SameOf(e, f, s.id)
  <2>1. SameOf(d, m, s.id)
    BY <1>1, <1>2
  <2>2. Local(s, d, m)
    BY <1>1, <1>2, EntryLocal
  <2>3. f = Exec(m, s).disk
    BY <1>1 DEF Ok
  <2> QED
    BY <2>1, <2>2, <2>3 DEF Local
<1>5. /\ Proper(h) /\ \A x : x # t.id => SameOf(e, h, x)
      /\ Exec(e, t).ok = Exec(d, t).ok /\ SameOf(m, h, t.id)
  <2>1. SameOf(d, e, t.id)
    BY <1>1, <1>4
  <2> HIDE DEF e
  <2>2. Local(t, d, e) /\ Local(t, e, e)
    BY <1>1, <1>4, EntryLocal
  <2>3. m = Exec(d, t).disk
    BY <1>1 DEF Ok
  <2> QED
    BY <2>1, <2>2, <2>3 DEF Local
<1>6. Exec(d, s) = Ok(e) /\ Exec(e, t) = Ok(h)
  <2> HIDE DEF e
  <2>1. Exec(d, s).ok /\ Exec(e, t).ok
    BY <1>1, <1>4, <1>5 DEF Ok
  <2> QED
    BY <1>1, <2>1, OkRuns DEF e
<1> HIDE DEF e, h
<1>7. ASSUME NEW x PROVE SameOf(h, f, x)
  <2>1. CASE x = s.id
    BY <1>1, <1>4, <1>5, <2>1 DEF SameOf, Equal
  <2>2. CASE x = t.id
    BY <1>1, <1>3, <1>5, <2>2 DEF SameOf, Equal
  <2>3. CASE x # s.id /\ x # t.id
    <3>1. SameOf(e, h, x) /\ SameOf(d, e, x) /\ SameOf(d, m, x) /\ SameOf(m, f, x)
      BY <1>2, <1>3, <1>4, <1>5, <2>3
    <3> QED
      BY <3>1 DEF SameOf, Equal
  <2> QED
    BY <2>1, <2>2, <2>3
<1>8. h = f
  BY <1>3, <1>5, <1>7, SameEverywhere
<1> QED
  BY <1>1, <1>4, <1>6, <1>8 DEF Runs

\* The tables while statements that conflict with none run.
LEMMA StagesProper ==
  ASSUME NEW d, Proper(d), PositionsDistinct(d), NEW task, Len(task) \in Nat, NEW p, NEW m,
         Stages(p, d, task, m), \A k \in 1 .. Len(task) : task[k].do \in EntryStatements
  PROVE  \A k \in 0 .. Len(task) : Proper(p[k]) /\ PositionsDistinct(p[k])
<1> DEFINE N == Len(task)
           T == {k \in 0 .. N : Proper(p[k]) /\ PositionsDistinct(p[k])}
<1>1. /\ N \in Nat /\ p[0] = d
      /\ \A k \in 1 .. N : Runs(p[k - 1], task[k], p[k])
  BY DEF Stages
<1> HIDE DEF N
<1>2. 0 \in T
  BY <1>1
<1>3. ASSUME NEW k \in 0 .. N - 1, k \in T
      PROVE  k + 1 \in T
  <2>1. k + 1 \in 1 .. N /\ k + 1 \in 0 .. N /\ (k + 1) - 1 = k
    BY <1>1
  <2>2. Runs(p[k], task[k + 1], p[k + 1]) /\ task[k + 1].do \in EntryStatements
    BY <1>1, <2>1 DEF N
  <2>3. Exec(p[k], task[k + 1]).disk = p[k + 1] /\ PositionsDistinct(p[k + 1])
    BY <2>2 DEF Runs, Ok
  <2>4. Local(task[k + 1], p[k], p[k])
    BY <1>3, <2>2, EntryLocal
  <2> QED
    BY <2>1, <2>3, <2>4 DEF Local
<1> HIDE DEF T
<1>4. 0 .. N \subseteq T
  BY <1>1, <1>2, <1>3, Upwards
<1> QED
  BY <1>4 DEF T, N

\* A statement that runs after a task it does not conflict with may run before it.
LEMMA OvertakeTask ==
  ASSUME NEW d, Proper(d), PositionsDistinct(d), NEW task, Len(task) \in Nat,
         DOMAIN task = 1 .. Len(task), NEW m, Leads(d, task, m), Len(task) # 0,
         NEW s, ~Conflicts(s, task), NEW f, Runs(m, s, f)
  PROVE  /\ Proper(m) /\ PositionsDistinct(m)
         /\ \E e : Runs(d, s, e) /\ Leads(e, task, f)
<1> DEFINE N == Len(task)
<1>1. PICK p : Stages(p, d, task, m)
  BY DEF Leads
<1> DEFINE g == [k \in 0 .. N |-> Exec(p[k], s).disk]
           T == {j \in 0 .. N : Runs(p[N - j], s, g[N - j])}
<1>2. /\ N \in Nat /\ p[0] = d /\ p[N] = m
      /\ \A k \in 1 .. N : Runs(p[k - 1], task[k], p[k])
  BY <1>1 DEF Stages
<1>3. \A k \in 1 .. N : Apart(s, task[k])
  BY DEF Conflicts
<1>4. \A k \in 1 .. N : task[k].do \in EntryStatements
  BY <1>3 DEF Apart
<1>5. \A k \in 0 .. N : Proper(p[k]) /\ PositionsDistinct(p[k])
  BY <1>1, <1>4, StagesProper
<1> HIDE DEF N
<1>6. \A k \in 0 .. N : g[k] = Exec(p[k], s).disk
  OBVIOUS
<1> HIDE DEF g
<1>7. ASSUME NEW k \in 0 .. N, NEW e, Runs(p[k], s, e)
      PROVE  e = g[k]
  BY <1>6, <1>7 DEF Runs, Ok
<1>8. ASSUME NEW k \in 1 .. N, Runs(p[k], s, g[k])
      PROVE  Runs(p[k - 1], s, g[k - 1]) /\ Runs(g[k - 1], task[k], g[k])
  <2>1. k - 1 \in 0 .. N
    BY <1>2
  <2>2. \E e : Runs(p[k - 1], s, e) /\ Runs(e, task[k], g[k])
    BY <1>2, <1>3, <1>5, <1>8, <2>1, SwapRuns
  <2> QED
    BY <1>7, <2>1, <2>2
<1>9. 0 \in T
  <2>1. N \in 0 .. N /\ N - 0 = N /\ 0 \in 0 .. N
    BY <1>2
  <2>2. f = g[N]
    BY <1>2, <1>7, <2>1
  <2> QED
    BY <1>2, <2>1, <2>2
<1>10. ASSUME NEW j \in 0 .. N - 1, j \in T
       PROVE  j + 1 \in T
  <2>1. N - j \in 1 .. N /\ N - (j + 1) = (N - j) - 1 /\ j + 1 \in 0 .. N
    BY <1>2
  <2> QED
    BY <1>8, <1>10, <2>1
<1> HIDE DEF T
<1>11. 0 .. N \subseteq T
  BY <1>2, <1>9, <1>10, Upwards
<1>12. ASSUME NEW k \in 0 .. N
       PROVE  Runs(p[k], s, g[k])
  <2>1. N - k \in 0 .. N /\ N - (N - k) = k
    BY <1>2
  <2> QED
    BY <1>11, <2>1 DEF T
<1>13. \A k \in 1 .. N : Runs(g[k - 1], task[k], g[k])
  <2> SUFFICES ASSUME NEW k \in 1 .. N PROVE Runs(g[k - 1], task[k], g[k])
    OBVIOUS
  <2>1. k \in 0 .. N
    BY <1>2
  <2> QED
    BY <1>8, <1>12, <2>1
<1>14. 0 \in 0 .. N /\ N \in 0 .. N
  BY <1>2
<1>15. g[N] = f
  BY <1>2, <1>7, <1>14
<1>16. Leads(g[0], task, f)
  BY <1>13, <1>15 DEF Leads, Stages, N
<1>17. Runs(d, s, g[0])
  BY <1>2, <1>12, <1>14
<1>18. Proper(m) /\ PositionsDistinct(m)
  BY <1>2, <1>5, <1>14
<1> QED
  BY <1>16, <1>17, <1>18

\* ... and before any number of them.
LEMMA OvertakeAll ==
  ASSUME NEW d, Proper(d), PositionsDistinct(d), NEW T, NEW tasks \in Seq(Seq(T) \ {<< >>}),
         NEW m, LeadsAll(d, tasks, m),
         NEW s, \A i \in 1 .. Len(tasks) : ~Conflicts(s, tasks[i]), NEW f, Runs(m, s, f)
  PROVE  \E e : Runs(d, s, e) /\ LeadsAll(e, tasks, f)
<1> DEFINE N == Len(tasks)
<1>1. PICK q : TaskStages(q, d, tasks, m)
  BY DEF LeadsAll
<1>2. /\ N \in Nat /\ q[0] = d /\ q[N] = m
      /\ \A i \in 1 .. N : Leads(q[i - 1], tasks[i], q[i])
  BY <1>1 DEF TaskStages
<1>3. \A i \in 1 .. N : /\ Len(tasks[i]) \in Nat /\ Len(tasks[i]) # 0
                        /\ DOMAIN tasks[i] = 1 .. Len(tasks[i])
                        /\ ~Conflicts(s, tasks[i])
  <2> SUFFICES ASSUME NEW i \in 1 .. N
               PROVE  /\ Len(tasks[i]) \in Nat /\ Len(tasks[i]) # 0
                      /\ DOMAIN tasks[i] = 1 .. Len(tasks[i])
    OBVIOUS
  <2> DEFINE t == tasks[i]
  <2>1. t \in Seq(T) /\ t # << >>
    OBVIOUS
  <2> HIDE DEF t
  <2>2. Len(t) \in Nat /\ Len(t) # 0 /\ DOMAIN t = 1 .. Len(t)
    BY <2>1
  <2> QED
    BY <2>2 DEF t
<1> DEFINE g == [i \in 0 .. N |-> Exec(q[i], s).disk]
           P == {i \in 0 .. N : Proper(q[i]) /\ PositionsDistinct(q[i])}
           R == {j \in 0 .. N : Runs(q[N - j], s, g[N - j])}
<1> HIDE DEF N
<1>4. \A i \in 0 .. N : g[i] = Exec(q[i], s).disk
  OBVIOUS
<1> HIDE DEF g
<1>5. 0 .. N \subseteq P
  <2>1. 0 \in P
    BY <1>2
  <2>2. ASSUME NEW i \in 0 .. N - 1, i \in P
        PROVE  i + 1 \in P
    <3>1. i + 1 \in 1 .. N /\ i + 1 \in 0 .. N /\ (i + 1) - 1 = i
      BY <1>2
    <3>2. PICK p : Stages(p, q[i], tasks[i + 1], q[i + 1])
      BY <1>2, <3>1 DEF Leads
    <3>3. Len(tasks[i + 1]) \in Nat /\ \A k \in 1 .. Len(tasks[i + 1]) : tasks[i + 1][k].do \in EntryStatements
      BY <1>3, <3>1 DEF Conflicts, Apart
    <3>4. \A k \in 0 .. Len(tasks[i + 1]) : Proper(p[k]) /\ PositionsDistinct(p[k])
      BY <2>2, <3>2, <3>3, StagesProper
    <3>5. p[Len(tasks[i + 1])] = q[i + 1] /\ Len(tasks[i + 1]) \in 0 .. Len(tasks[i + 1])
      BY <3>2, <3>3 DEF Stages
    <3> QED
      BY <3>1, <3>4, <3>5
  <2> HIDE DEF P
  <2> QED
    BY <1>2, <2>1, <2>2, Upwards
<1>6. ASSUME NEW i \in 0 .. N, NEW e, Runs(q[i], s, e)
      PROVE  e = g[i]
  BY <1>4, <1>6 DEF Runs, Ok
<1>7. ASSUME NEW i \in 1 .. N, Runs(q[i], s, g[i])
      PROVE  Runs(q[i - 1], s, g[i - 1]) /\ Leads(g[i - 1], tasks[i], g[i])
  <2>1. i - 1 \in 0 .. N
    BY <1>2
  <2>2. Proper(q[i - 1]) /\ PositionsDistinct(q[i - 1])
    BY <1>5, <2>1
  <2>3. \E e : Runs(q[i - 1], s, e) /\ Leads(e, tasks[i], g[i])
    BY <1>2, <1>3, <1>7, <2>2, OvertakeTask
  <2> QED
    BY <1>6, <2>1, <2>3
<1>8. 0 \in R
  <2>1. N \in 0 .. N /\ N - 0 = N /\ 0 \in 0 .. N
    BY <1>2
  <2>2. f = g[N]
    BY <1>2, <1>6, <2>1
  <2> QED
    BY <1>2, <2>1, <2>2
<1>9. ASSUME NEW j \in 0 .. N - 1, j \in R
      PROVE  j + 1 \in R
  <2>1. N - j \in 1 .. N /\ N - (j + 1) = (N - j) - 1 /\ j + 1 \in 0 .. N
    BY <1>2
  <2> QED
    BY <1>7, <1>9, <2>1
<1> HIDE DEF R, P
<1>10. 0 .. N \subseteq R
  BY <1>2, <1>8, <1>9, Upwards
<1>11. ASSUME NEW i \in 0 .. N
       PROVE  Runs(q[i], s, g[i])
  <2>1. N - i \in 0 .. N /\ N - (N - i) = i
    BY <1>2
  <2> QED
    BY <1>10, <2>1 DEF R
<1>12. \A i \in 1 .. N : Leads(g[i - 1], tasks[i], g[i])
  <2> SUFFICES ASSUME NEW i \in 1 .. N PROVE Leads(g[i - 1], tasks[i], g[i])
    OBVIOUS
  <2>1. i \in 0 .. N
    BY <1>2
  <2> QED
    BY <1>7, <1>11, <2>1
<1>13. 0 \in 0 .. N /\ N \in 0 .. N
  BY <1>2
<1>14. g[N] = f
  BY <1>2, <1>6, <1>13
<1>15. LeadsAll(g[0], tasks, f)
  BY <1>12, <1>14 DEF LeadsAll, TaskStages, N
<1>16. Runs(d, s, g[0])
  BY <1>2, <1>11, <1>13
<1> QED
  BY <1>15, <1>16

\* Statement s of task i runs ahead of tasks it does not conflict with; what is
\* left leads where it did.
LEMMA StepLeads ==
  ASSUME NEW d, Proper(d), PositionsDistinct(d), NEW T, NEW tasks \in Seq(Seq(T) \ {<< >>}),
         NEW e, LeadsAll(d, tasks, e), NEW i \in 1 .. Len(tasks),
         \A j \in 1 .. i - 1 : ~Conflicts(Head(tasks[i]), tasks[j])
  PROVE  \E m : /\ Runs(d, Head(tasks[i]), m)
                /\ Len(tasks[i]) > 1 => LeadsAll(m, [tasks EXCEPT ![i] = Tail(@)], e)
                /\ Len(tasks[i]) <= 1 => LeadsAll(m, S!RemoveAt(tasks, i), e)
<1> DEFINE N == Len(tasks)
           task == tasks[i]
           before == SubSeq(tasks, 1, i - 1)
<1>1. PICK q : TaskStages(q, d, tasks, e)
  BY DEF LeadsAll
<1>2. /\ N \in Nat /\ i \in 1 .. N /\ DOMAIN tasks = 1 .. N
      /\ task \in Seq(T) /\ task # << >>
  OBVIOUS
<1>3. q[0] = d /\ q[N] = e /\ \A j \in 1 .. N : Leads(q[j - 1], tasks[j], q[j])
  BY <1>1 DEF TaskStages
<1>4. /\ before \in Seq(Seq(T) \ {<< >>}) /\ Len(before) = i - 1
      /\ \A j \in 1 .. i - 1 : before[j] = tasks[j]
  OBVIOUS
<1> HIDE DEF N, task, before
<1>5. LeadsAll(d, before, q[i - 1])
  <2>1. \A j \in 1 .. i - 1 : j \in 1 .. N
    BY <1>2
  <2>2. TaskStages(q, d, before, q[i - 1])
    BY <1>3, <1>4, <2>1 DEF TaskStages
  <2> QED
    BY <2>2 DEF LeadsAll
<1>6. PICK n : Runs(q[i - 1], Head(task), n) /\ Leads(n, Tail(task), q[i])
  BY <1>2, <1>3, FirstLeads DEF task
<1>7. \A j \in 1 .. Len(before) : ~Conflicts(Head(task), before[j])
  BY <1>4 DEF task
<1>8. PICK m : Runs(d, Head(task), m) /\ LeadsAll(m, before, n)
  BY <1>4, <1>5, <1>6, <1>7, OvertakeAll
<1>9. PICK p : TaskStages(p, m, before, n)
  BY <1>8 DEF LeadsAll
<1>10. p[0] = m /\ p[i - 1] = n /\ \A j \in 1 .. i - 1 : Leads(p[j - 1], tasks[j], p[j])
  BY <1>4, <1>9 DEF TaskStages
<1>11. ASSUME Len(task) > 1
       PROVE  LeadsAll(m, [tasks EXCEPT ![i] = Tail(@)], e)
  <2> DEFINE left == [tasks EXCEPT ![i] = Tail(@)]
             r == [j \in 0 .. N |-> IF j < i THEN p[j] ELSE q[j]]
  <2>1. Len(left) = N /\ \A j \in 1 .. N : left[j] = IF j = i THEN Tail(task) ELSE tasks[j]
    BY <1>2 DEF N, task
  <2>2. \A j \in 0 .. N : r[j] = IF j < i THEN p[j] ELSE q[j]
    OBVIOUS
  <2> HIDE DEF left, r
  <2>3. r[0] = m /\ r[N] = e
    BY <1>2, <1>3, <1>10, <2>2
  <2>4. ASSUME NEW j \in 1 .. N
        PROVE  Leads(r[j - 1], left[j], r[j])
    <3>1. j \in 0 .. N /\ j - 1 \in 0 .. N
      BY <1>2
    <3>2. CASE j < i
      <4>1. r[j - 1] = p[j - 1] /\ r[j] = p[j] /\ left[j] = tasks[j] /\ j \in 1 .. i - 1
        BY <1>2, <2>1, <2>2, <3>1, <3>2
      <4> QED
        BY <1>10, <4>1
    <3>3. CASE j = i
      <4>1. r[j - 1] = n /\ r[j] = q[i] /\ left[j] = Tail(task)
        BY <1>2, <1>10, <2>1, <2>2, <3>1, <3>3
      <4> QED
        BY <1>6, <4>1
    <3>4. CASE j > i
      <4>1. r[j - 1] = q[j - 1] /\ r[j] = q[j] /\ left[j] = tasks[j]
        BY <1>2, <2>1, <2>2, <3>1, <3>4
      <4> QED
        BY <1>3, <4>1
    <3> QED
      BY <1>2, <3>2, <3>3, <3>4
  <2>5. TaskStages(r, m, left, e)
    BY <2>1, <2>3, <2>4 DEF TaskStages
  <2> QED
    BY <2>5 DEF LeadsAll, left
<1>12. ASSUME Len(task) <= 1
       PROVE  LeadsAll(m, S!RemoveAt(tasks, i), e)
  <2>1. Tail(task) = << >>
    <3>1. Len(task) <= 1
      BY <1>12
    <3> QED
      BY ONLY <1>2, <3>1, LastStatement
  <2>2. q[i] = n
    <3> DEFINE x == q[i]
    <3>1. Leads(n, << >>, x)
      BY <1>6, <2>1
    <3> HIDE DEF x
    <3>2. x = n
      BY <3>1, NoneLeads
    <3> QED
      BY <3>2 DEF x
  <2> DEFINE after == SubSeq(tasks, i + 1, N)
             left == S!RemoveAt(tasks, i)
             r == [j \in 0 .. N - 1 |-> IF j < i THEN p[j] ELSE q[j + 1]]
  <2>3. /\ after \in Seq(Seq(T) \ {<< >>}) /\ Len(after) = N - i
        /\ \A j \in 1 .. N - i : after[j] = tasks[i + j]
    <3> DEFINE U == Seq(T) \ {<< >>}
    <3>1. tasks \in Seq(U)
      OBVIOUS
    <3> HIDE DEF U
    <3>2. after \in Seq(U) /\ Len(after) = N - i
      BY ONLY <3>1, i \in 1 .. Len(tasks) DEF N, after
    <3>3. \A j \in 1 .. N - i : after[j] = tasks[i + j]
      BY ONLY <3>1, i \in 1 .. Len(tasks) DEF N, after
    <3> QED
      BY <3>2, <3>3 DEF U
  <2>4. left = before \o after
    BY DEF S!RemoveAt, before, N
  <2> HIDE DEF after, left
  <2>5. /\ Len(left) = N - 1
        /\ \A j \in 1 .. N - 1 : left[j] = IF j < i THEN tasks[j] ELSE tasks[j + 1]
    <3>1. /\ Len(left) = (i - 1) + (N - i)
          /\ \A j \in 1 .. (i - 1) + (N - i) :
               left[j] = IF j <= i - 1 THEN before[j] ELSE after[j - (i - 1)]
      BY <1>4, <2>3, <2>4, Joined
    <3>2. (i - 1) + (N - i) = N - 1
      BY <1>2
    <3>3. ASSUME NEW j \in 1 .. N - 1
          PROVE  left[j] = IF j < i THEN tasks[j] ELSE tasks[j + 1]
      <4>1. CASE j < i
        <5>1. j \in 1 .. i - 1 /\ j <= i - 1
          BY <1>2, <4>1
        <5> QED
          BY <1>4, <3>1, <3>2, <4>1, <5>1
      <4>2. CASE ~(j < i)
        <5>1. ~(j <= i - 1) /\ j - (i - 1) \in 1 .. N - i /\ i + (j - (i - 1)) = j + 1
          BY <1>2, <4>2
        <5> QED
          BY <2>3, <3>1, <3>2, <4>2, <5>1
      <4> QED
        BY <4>1, <4>2
    <3> QED
      BY <3>1, <3>2, <3>3
  <2>6. \A j \in 0 .. N - 1 : r[j] = IF j < i THEN p[j] ELSE q[j + 1]
    OBVIOUS
  <2> HIDE DEF r
  <2>7. r[0] = m
    BY <1>2, <1>10, <2>6
  <2>8. r[N - 1] = e
    <3>1. CASE i = N
      <4>1. N - 1 < i /\ N - 1 \in 0 .. N - 1
        BY <1>2, <3>1
      <4> QED
        BY <1>3, <1>10, <2>2, <2>6, <3>1, <4>1
    <3>2. CASE i # N
      <4>1. ~(N - 1 < i) /\ N - 1 \in 0 .. N - 1 /\ (N - 1) + 1 = N
        BY <1>2, <3>2
      <4> QED
        BY <1>3, <2>6, <4>1
    <3> QED
      BY <3>1, <3>2
  <2>9. ASSUME NEW j \in 1 .. N - 1
        PROVE  Leads(r[j - 1], left[j], r[j])
    <3>1. j \in 0 .. N - 1 /\ j - 1 \in 0 .. N - 1 /\ (j - 1) + 1 = j /\ j + 1 \in 1 .. N /\ (j + 1) - 1 = j
      BY <1>2
    <3>2. CASE j < i
      <4>1. r[j - 1] = p[j - 1] /\ r[j] = p[j] /\ left[j] = tasks[j] /\ j \in 1 .. i - 1
        BY <1>2, <2>5, <2>6, <3>1, <3>2
      <4> QED
        BY <1>10, <4>1
    <3>3. CASE j = i
      <4>1. r[j - 1] = n /\ r[j] = q[i + 1] /\ left[j] = tasks[i + 1]
        BY <1>2, <1>10, <2>5, <2>6, <3>1, <3>3
      <4> QED
        BY <1>3, <2>2, <3>1, <3>3, <4>1
    <3>4. CASE j > i
      <4>1. r[j - 1] = q[j] /\ r[j] = q[j + 1] /\ left[j] = tasks[j + 1]
        BY <1>2, <2>5, <2>6, <3>1, <3>4
      <4> QED
        BY <1>3, <3>1, <4>1
    <3> QED
      BY <1>2, <3>2, <3>3, <3>4
  <2>10. TaskStages(r, m, left, e)
    BY <2>5, <2>7, <2>8, <2>9 DEF TaskStages
  <2> QED
    BY <2>10 DEF LeadsAll, left
<1> QED
  BY <1>8, <1>11, <1>12 DEF task

-----------------------------------------------------------------------------
(* Memory and the tables agree                                             *)

ContentIn(d, id) == IF id \in DOMAIN d.contents THEN d.contents[id] ELSE Blank

\* Memory st holds what the tables d hold: entries, favorites in their order, titles.
Same(st, d) ==
  /\ DOMAIN d = Tables
  /\ DOMAIN d.rows = DOMAIN st.entries
  /\ DOMAIN d.contents \subseteq DOMAIN d.rows
  /\ DOMAIN d.favs = st.favSet
  /\ \A id \in DOMAIN st.entries : /\ st.entries[id].creation = d.rows[id]
                                   /\ st.entries[id].content = ContentIn(d, id)
  /\ \A id \in st.favSet : d.favs[id] \in FavRow /\ st.titles[id] = d.favs[id].title
  /\ \A i \in DOMAIN st.favs : d.favs[st.favs[i]].position = i - 1

\* Where they agree, no two favorites share a position.
LEMMA SameDistinct ==
  ASSUME NEW st, NEW d, Same(st, d), FavsLive(st), NEW T, st.favs \in Seq(T)
  PROVE  PositionsDistinct(d)
<1> SUFFICES ASSUME NEW x \in DOMAIN d.favs, NEW y \in DOMAIN d.favs,
                    d.favs[x].position = d.favs[y].position
             PROVE  x = y
  BY DEF PositionsDistinct
<1>1. x \in Range(st.favs) /\ y \in Range(st.favs)
  BY DEF Same, FavsLive
<1>2. PICK i \in DOMAIN st.favs : st.favs[i] = x
  BY <1>1 DEF Range
<1>3. PICK j \in DOMAIN st.favs : st.favs[j] = y
  BY <1>1 DEF Range
<1>4. i - 1 = j - 1 /\ i \in Nat /\ j \in Nat
  <2>1. d.favs[x].position = i - 1
    BY <1>2 DEF Same
  <2>2. d.favs[y].position = j - 1
    BY <1>3 DEF Same
  <2>3. i \in Nat /\ j \in Nat
    OBVIOUS
  <2> QED
    BY <2>1, <2>2, <2>3
<1>5. i = j
  BY <1>4
<1> QED
  BY <1>2, <1>3, <1>5

\* Two stores that differ in nothing the tables hold.
LEMMA SameAlike ==
  ASSUME NEW st, NEW new, NEW d, Same(st, d),
         DOMAIN new.entries = DOMAIN st.entries,
         \A id \in DOMAIN st.entries :
           /\ new.entries[id].creation = st.entries[id].creation
           /\ new.entries[id].content = st.entries[id].content,
         new.favs = st.favs, new.favSet = st.favSet, new.titles = st.titles
  PROVE  Same(new, d)
  BY DEF Same

LEMMA SearchSame ==
  ASSUME NEW st, DOMAIN st = Fields, NEW d, Same(st, d)
  PROVE  Same(Search(st), d)
<1>1. /\ Search(st).entries = st.entries /\ Search(st).favs = st.favs
      /\ Search(st).favSet = st.favSet /\ Search(st).titles = st.titles
  BY DEF Search, Panic, Fields
<1> HIDE DEF Search
<1> QED
  BY <1>1, SameAlike

\* Entry id has a new time.
LEMMA BumpSame ==
  ASSUME NEW st, NEW n \in Nat, Working(st, n), NEW d, Same(st, d),
         NEW id \in DOMAIN st.entries, NEW now
  PROVE  Same(Bump(st, id, now), [d EXCEPT !.rows[id] = now])
<1> DEFINE new == Bump(st, id, now)
           e == [d EXCEPT !.rows[id] = now]
<1>1. DOMAIN st = Fields /\ IsMap(st.entries, 1 .. n, EntryUpTo(n, AllTitles))
  BY DEF Working, Good, Typed
<1>2. /\ new.entries = [st.entries EXCEPT ![id].creation = now]
      /\ new.favs = st.favs /\ new.favSet = st.favSet /\ new.titles = st.titles
  BY <1>1 DEF Bump, Fields
<1>3. /\ DOMAIN new.entries = DOMAIN st.entries
      /\ \A x \in DOMAIN st.entries :
           /\ new.entries[x].creation = IF x = id THEN now ELSE st.entries[x].creation
           /\ new.entries[x].content = st.entries[x].content
  BY <1>1, <1>2 DEF IsMap, EntryUpTo
<1>4. /\ DOMAIN e = Tables /\ e.contents = d.contents /\ e.favs = d.favs
      /\ DOMAIN e.rows = DOMAIN d.rows
      /\ \A x \in DOMAIN d.rows : e.rows[x] = IF x = id THEN now ELSE d.rows[x]
  BY DEF Same, Tables
<1> HIDE DEF new, e
<1>5. \A x \in DOMAIN st.entries : ContentIn(e, x) = ContentIn(d, x)
  BY <1>4 DEF ContentIn
<1>6. Same(new, e)
  BY <1>2, <1>3, <1>4, <1>5 DEF Same
<1> QED
  BY <1>6 DEF new, e

\* A new entry.
LEMMA GrowSame ==
  ASSUME NEW st, NEW n \in Nat, Working(st, n), NEW d, Same(st, d), NEW c \in Content,
         NEW now \in Nat, n < now
  PROVE  Same(Grow(st, c, now),
              [[d EXCEPT !.rows = Put(@, now, now)] EXCEPT !.contents = Put(@, now, c)])
<1> DEFINE new == Grow(st, c, now)
           e == [[d EXCEPT !.rows = Put(@, now, now)] EXCEPT !.contents = Put(@, now, c)]
<1>1. DOMAIN st = Fields /\ DOMAIN st.entries \subseteq 1 .. n
  BY WorkingFields
<1>2. /\ new.entries = Put(st.entries, now, NewEntry(c, now))
      /\ new.favs = st.favs /\ new.favSet = st.favSet /\ new.titles = st.titles
  BY <1>1 DEF Grow, Fields
<1>3. /\ DOMAIN new.entries = DOMAIN st.entries \cup {now}
      /\ new.entries[now].creation = now /\ new.entries[now].content = c
      /\ \A x \in DOMAIN st.entries : x # now /\ new.entries[x] = st.entries[x]
  BY <1>1, <1>2 DEF Put, NewEntry
<1>4. /\ DOMAIN e = Tables /\ e.favs = d.favs
      /\ DOMAIN e.rows = DOMAIN d.rows \cup {now} /\ e.rows[now] = now
      /\ DOMAIN e.contents = DOMAIN d.contents \cup {now} /\ e.contents[now] = c
      /\ \A x \in DOMAIN d.rows : x # now => e.rows[x] = d.rows[x]
      /\ \A x \in DOMAIN d.contents : x # now => e.contents[x] = d.contents[x]
  BY DEF Same, Tables, Put
<1> HIDE DEF new, e
<1>5. /\ ContentIn(e, now) = c
      /\ \A x \in DOMAIN st.entries : ContentIn(e, x) = ContentIn(d, x)
  BY <1>3, <1>4 DEF ContentIn
<1>6. Same(new, e)
  BY <1>2, <1>3, <1>4, <1>5 DEF Same
<1> QED
  BY <1>6 DEF new, e

-----------------------------------------------------------------------------
(* Entries go                                                              *)

\* Tables e are tables d without the entries ids.
Cut(d, ids, e) ==
  /\ DOMAIN e = Tables
  /\ DOMAIN e.rows = DOMAIN d.rows \ ids
  /\ DOMAIN e.contents = DOMAIN d.contents \ ids
  /\ DOMAIN e.favs = DOMAIN d.favs \ ids
  /\ \A x \in DOMAIN d.rows \ ids : e.rows[x] = d.rows[x]
  /\ \A x \in DOMAIN d.contents \ ids : e.contents[x] = d.contents[x]
  /\ \A x \in DOMAIN d.favs \ ids : e.favs[x] = d.favs[x]

LEMMA DeleteRowsCuts ==
  ASSUME NEW d, NEW ids
  PROVE  /\ Cut(d, ids, DeleteRows(d, ids))
         /\ PositionsDistinct(d) => PositionsDistinct(DeleteRows(d, ids))
<1>1. Cut(d, ids, DeleteRows(d, ids))
  BY DEF Cut, Tables, DeleteRows, Drop
<1>2. PositionsDistinct(d) => PositionsDistinct(DeleteRows(d, ids))
  BY <1>1 DEF Cut, PositionsDistinct
<1> QED
  BY <1>1, <1>2

\* Entries deleted one after the other.
LEMMA DeleteRowsTwice ==
  ASSUME NEW d, NEW A, NEW B
  PROVE  DeleteRows(DeleteRows(d, A), B) = DeleteRows(d, A \cup B)
<1>1. ASSUME NEW f
      PROVE  Drop(Drop(f, A), B) = Drop(f, A \cup B)
  <2>1. DOMAIN Drop(f, A) = DOMAIN f \ A /\ \A x \in DOMAIN f \ A : Drop(f, A)[x] = f[x]
    BY DEF Drop
  <2>2. (DOMAIN f \ A) \ B = DOMAIN f \ (A \cup B)
    OBVIOUS
  <2> QED
    BY <2>1, <2>2 DEF Drop
<1> QED
  BY <1>1 DEF DeleteRows

LEMMA DeleteRuns ==
  ASSUME NEW d, PositionsDistinct(d), NEW id
  PROVE  Runs(d, [do |-> "DeleteEntry", id |-> id], DeleteRows(d, {id}))
<1>1. Exec(d, [do |-> "DeleteEntry", id |-> id]) = Ok(DeleteRows(d, {id}))
  BY DEF Exec
<1> QED
  BY <1>1, DeleteRowsCuts DEF Runs

\* The entries an insertion evicts, in whichever order.
LEMMA DeletesLead ==
  ASSUME NEW d, DOMAIN d = Tables, PositionsDistinct(d), NEW gone, IsFiniteSet(gone)
  PROVE  \E e : /\ Leads(d, S!SetToSeq({[do |-> "DeleteEntry", id |-> g] : g \in gone}), e)
                /\ Cut(d, gone, e)
<1> DEFINE T == {[do |-> "DeleteEntry", id |-> g] : g \in gone}
           s == S!SetToSeq(T)
           N == Len(s)
           A(k) == {s[j].id : j \in 1 .. k}
           p == [k \in 0 .. N |-> IF k = 0 THEN d ELSE DeleteRows(d, A(k))]
<1>1. IsFiniteSet(T)
  <2> DEFINE f == [id \in gone |-> [do |-> "DeleteEntry", id |-> id]]
  <2>1. f \in Surjection(gone, T)
    BY DEF Surjection
  <2> HIDE DEF f, T
  <2> QED
    BY <2>1, FS_Surjection
<1>2. s \in Seq(T) /\ Range(s) = T
  BY <1>1, ListedSet
<1>a. \A y \in T : y.id \in gone /\ y = [do |-> "DeleteEntry", id |-> y.id]
  OBVIOUS
<1>b. \A g \in gone : \E y \in T : y.id = g
  <2> SUFFICES ASSUME NEW g \in gone PROVE \E y \in T : y.id = g
    OBVIOUS
  <2>1. [do |-> "DeleteEntry", id |-> g] \in T /\ [do |-> "DeleteEntry", id |-> g].id = g
    OBVIOUS
  <2> QED
    BY <2>1
<1> HIDE DEF s, T
<1>3. N \in Nat /\ DOMAIN s = 1 .. N /\ \A j \in 1 .. N : s[j] \in T
  BY <1>2
<1>4. A(N) = gone
  BY <1>2, <1>3, <1>a, <1>b DEF Range
<1>5. \A k \in 1 .. N : A(k) = A(k - 1) \cup {s[k].id}
  <2> SUFFICES ASSUME NEW k \in 1 .. N
               PROVE  A(k) = A(k - 1) \cup {s[k].id}
    OBVIOUS
  <2>1. 1 .. k = (1 .. k - 1) \cup {k}
    BY <1>3
  <2> QED
    BY <2>1
<1>6. A(0) = {}
  OBVIOUS
<1>7. \A k \in 0 .. N : p[k] = IF k = 0 THEN d ELSE DeleteRows(d, A(k))
  OBVIOUS
<1> HIDE DEF p, A, N
<1>8. ASSUME NEW k \in 1 .. N
      PROVE  Runs(p[k - 1], s[k], p[k])
  <2> DEFINE x == s[k].id
  <2>1. s[k] = [do |-> "DeleteEntry", id |-> x]
    BY <1>3, <1>a
  <2>2. k \in 0 .. N /\ k - 1 \in 0 .. N /\ k # 0 /\ (k = 1 <=> k - 1 = 0)
    BY <1>3
  <2>3. p[k] = DeleteRows(d, A(k)) /\ A(k) = A(k - 1) \cup {x}
    BY <1>5, <1>7, <2>2
  <2> HIDE DEF x
  <2>4. PositionsDistinct(p[k - 1]) /\ p[k] = DeleteRows(p[k - 1], {x})
    <3>1. CASE k = 1
      <4>1. A(k) = {x} /\ p[k - 1] = d
        BY <1>6, <1>7, <2>2, <2>3, <3>1
      <4> QED
        BY <2>3, <4>1
    <3>2. CASE k # 1
      <4>1. p[k - 1] = DeleteRows(d, A(k - 1))
        BY <1>7, <2>2, <3>2
      <4> QED
        BY <2>3, <4>1, DeleteRowsTwice, DeleteRowsCuts
    <3> QED
      BY <3>1, <3>2
  <2> DEFINE m == p[k - 1]
  <2> HIDE DEF m
  <2>5. Runs(m, [do |-> "DeleteEntry", id |-> x], DeleteRows(m, {x}))
    BY <2>4, DeleteRuns DEF m
  <2> QED
    BY <2>1, <2>4, <2>5 DEF m
<1>9. Stages(p, d, s, p[N])
  <2>1. p[0] = d
    BY <1>3, <1>7
  <2> QED
    BY <1>8, <2>1 DEF Stages, N
<1>10. Cut(d, gone, p[N])
  <2>1. CASE N = 0
    <3>1. gone = {} /\ p[N] = d
      BY <1>4, <1>6, <1>7, <2>1
    <3> QED
      BY <3>1 DEF Cut
  <2>2. CASE N # 0
    <3>1. p[N] = DeleteRows(d, gone)
      BY <1>3, <1>4, <1>7, <2>2
    <3> QED
      BY <3>1, DeleteRowsCuts
  <2> QED
    BY <2>1, <2>2
<1>11. Leads(d, s, p[N])
  BY <1>9 DEF Leads
<1> QED
  BY <1>10, <1>11 DEF s, T

\* Entries that are no favorites go, in memory and in the tables.
LEMMA UnindexSame ==
  ASSUME NEW st, DOMAIN st = Fields, FavsLive(st), NEW d, Same(st, d),
         NEW ids \in SUBSET DOMAIN st.entries, ids \cap st.favSet = {},
         NEW e, Cut(d, ids, e)
  PROVE  Same(Unindex(st, ids), e)
<1> DEFINE new == Unindex(st, ids)
<1>1. /\ new.entries = Drop(st.entries, ids)
      /\ new.favs = st.favs /\ new.favSet = st.favSet /\ new.titles = st.titles
  BY DEF Unindex, Fields
<1>2. /\ DOMAIN new.entries = DOMAIN st.entries \ ids
      /\ \A x \in DOMAIN st.entries \ ids : new.entries[x] = st.entries[x]
  BY <1>1 DEF Drop
<1> HIDE DEF new
<1>3. \A x \in DOMAIN st.entries \ ids : ContentIn(e, x) = ContentIn(d, x)
  BY DEF Cut, ContentIn
<1>4. \A i \in DOMAIN st.favs : st.favs[i] \in st.favSet
  BY DEF FavsLive, Range
<1>5. \A x \in st.favSet : x \in DOMAIN d.favs \ ids /\ e.favs[x] = d.favs[x]
  BY DEF Same, Cut
<1>6. DOMAIN e.favs = st.favSet /\ DOMAIN e.contents \subseteq DOMAIN e.rows
  BY DEF Same, Cut
<1>7. Same(new, e)
  BY <1>1, <1>2, <1>3, <1>4, <1>5, <1>6 DEF Same, Cut
<1> QED
  BY <1>7 DEF new

-----------------------------------------------------------------------------
(* What each operation does to memory, its statements do to the tables     *)

\* A store the handlers work on that agrees with the tables.
Agree(st, n, d) == Working(st, n) /\ Sound(st) /\ Same(st, d)

LEMMA AgreeFacts ==
  ASSUME NEW st, NEW n, NEW d, Agree(st, n, d)
  PROVE  /\ PositionsDistinct(d) /\ DOMAIN d = Tables /\ DOMAIN st = Fields
         /\ DOMAIN d.rows = DOMAIN st.entries /\ DOMAIN d.favs = st.favSet
         /\ DOMAIN d.contents \subseteq DOMAIN d.rows
         /\ DOMAIN st.entries \subseteq 1 .. n /\ st.favSet \subseteq DOMAIN st.entries
         /\ Good(st, n, AllTitles) /\ FavsLive(st) /\ HashsLive(st)
         /\ st.favs \in Seq(1 .. n)
<1>1. DOMAIN st = Fields /\ DOMAIN st.entries \subseteq 1 .. n /\ st.favs \in Seq(1 .. n)
  BY WorkingFields DEF Agree
<1>2. PositionsDistinct(d)
  BY <1>1, SameDistinct DEF Agree, Sound
<1> QED
  BY <1>1, <1>2 DEF Agree, Sound, Same, Working, FavsLive

LEMMA SetCreationRuns ==
  ASSUME NEW d, DOMAIN d = Tables, PositionsDistinct(d), NEW id \in DOMAIN d.rows, NEW now
  PROVE  Runs(d, [do |-> "SetCreation", id |-> id, time |-> now], [d EXCEPT !.rows[id] = now])
<1> DEFINE e == [d EXCEPT !.rows[id] = now]
<1>1. e.favs = d.favs
  BY DEF Tables
<1>2. Exec(d, [do |-> "SetCreation", id |-> id, time |-> now]) = Ok(e)
  BY DEF Exec
<1> HIDE DEF e
<1>3. Runs(d, [do |-> "SetCreation", id |-> id, time |-> now], e)
  BY <1>1, <1>2 DEF Runs, PositionsDistinct
<1> QED
  BY <1>3 DEF e

LEMMA InsertEntryRuns ==
  ASSUME NEW d, DOMAIN d = Tables, PositionsDistinct(d), NEW id, id \notin DOMAIN d.rows, NEW now
  PROVE  Runs(d, [do |-> "InsertEntry", id |-> id, time |-> now],
              [d EXCEPT !.rows = Put(@, id, now)])
<1> DEFINE e == [d EXCEPT !.rows = Put(@, id, now)]
<1>1. e.favs = d.favs
  BY DEF Tables
<1>2. Exec(d, [do |-> "InsertEntry", id |-> id, time |-> now]) = Ok(e)
  BY DEF Exec
<1> HIDE DEF e
<1>3. Runs(d, [do |-> "InsertEntry", id |-> id, time |-> now], e)
  BY <1>1, <1>2 DEF Runs, PositionsDistinct
<1> QED
  BY <1>3 DEF e

LEMMA InsertContentRuns ==
  ASSUME NEW d, DOMAIN d = Tables, PositionsDistinct(d), NEW id \in DOMAIN d.rows,
         id \notin DOMAIN d.contents, NEW c
  PROVE  Runs(d, [do |-> "InsertContent", id |-> id, data |-> c],
              [d EXCEPT !.contents = Put(@, id, c)])
<1> DEFINE e == [d EXCEPT !.contents = Put(@, id, c)]
<1>1. e.favs = d.favs
  BY DEF Tables
<1>2. Exec(d, [do |-> "InsertContent", id |-> id, data |-> c]) = Ok(e)
  BY DEF Exec
<1> HIDE DEF e
<1>3. Runs(d, [do |-> "InsertContent", id |-> id, data |-> c], e)
  BY <1>1, <1>2 DEF Runs, PositionsDistinct
<1> QED
  BY <1>3 DEF e

LEMMA DeleteContentRuns ==
  ASSUME NEW d, DOMAIN d = Tables, PositionsDistinct(d), NEW id
  PROVE  Runs(d, [do |-> "DeleteContent", id |-> id], [d EXCEPT !.contents = Drop(@, {id})])
<1> DEFINE e == [d EXCEPT !.contents = Drop(@, {id})]
<1>1. e.favs = d.favs
  BY DEF Tables
<1>2. Exec(d, [do |-> "DeleteContent", id |-> id]) = Ok(e)
  BY DEF Exec
<1> HIDE DEF e
<1>3. Runs(d, [do |-> "DeleteContent", id |-> id], e)
  BY <1>1, <1>2 DEF Runs, PositionsDistinct
<1> QED
  BY <1>3 DEF e

\* A new entry, and those that make room for it.
LEMMA InsertNewLeads ==
  ASSUME NEW st, NEW n \in Nat, NEW d, Agree(st, n, d), NEW c \in Content,
         Hash[c] \notin DOMAIN st.hashs, NEW now \in Nat, n < now
  PROVE  \E e : /\ Leads(d, Statements(InsertNew(st, c, now).op), e)
                /\ Same(InsertNew(st, c, now).db, e)
<1> DEFINE grown == Grow(st, c, now)
           gone == Evicted(grown)
           op == InsertNew(st, c, now).op
           a == [do |-> "InsertEntry", id |-> now, time |-> now]
           b == [do |-> "InsertContent", id |-> now, data |-> c]
           T == {[do |-> "DeleteEntry", id |-> g] : g \in gone}
           d1 == [d EXCEPT !.rows = Put(@, now, now)]
           d2 == [d1 EXCEPT !.contents = Put(@, now, c)]
<1>1. /\ Statements(op) = << a, b >> \o S!SetToSeq(T)
      /\ InsertNew(st, c, now).db = Search(Unindex(grown, gone))
  BY DEF Statements, InsertNew
<1>2. /\ PositionsDistinct(d) /\ DOMAIN d = Tables /\ DOMAIN st = Fields
      /\ DOMAIN d.rows \subseteq 1 .. n /\ DOMAIN d.contents \subseteq DOMAIN d.rows
      /\ Good(st, n, AllTitles) /\ FavsLive(st)
  BY AgreeFacts
<1>3. now \notin DOMAIN d.rows /\ now \notin DOMAIN d.contents
  BY <1>2
<1>4. Runs(d, a, d1)
  BY <1>2, <1>3, InsertEntryRuns
<1>5. DOMAIN d1 = Tables /\ now \in DOMAIN d1.rows /\ d1.contents = d.contents
  BY <1>2 DEF Tables, Put
<1>6. PositionsDistinct(d1)
  BY <1>4 DEF Runs
<1>7. Same(grown, d2)
  BY GrowSame DEF Agree
<1>8. /\ Good(grown, now, AllTitles) /\ Sound(grown)
  BY <1>2, GrowKeepsGood, GrowKeepsSound DEF Agree
<1> HIDE DEF d1, grown
<1>9. Runs(d1, b, d2)
  BY <1>3, <1>5, <1>6, InsertContentRuns
<1> HIDE DEF d2
<1>10. PositionsDistinct(d2) /\ DOMAIN d2 = Tables
  BY <1>7, <1>9 DEF Runs, Same
<1>11. gone \in SUBSET DOMAIN grown.entries /\ gone \cap grown.favSet = {}
  BY <1>8, EvictedNoFavorite
<1>12. DOMAIN grown = Fields /\ DOMAIN grown.entries \subseteq 1 .. now /\ FavsLive(grown)
  BY <1>8 DEF Good, Typed, IsMap, Sound
<1> HIDE DEF gone, T
<1>13. IsFiniteSet(gone)
  <2>1. gone \subseteq 1 .. now
    BY <1>11, <1>12
  <2>2. IsFiniteSet(1 .. now)
    BY FS_Interval
  <2> QED
    BY <2>1, <2>2, FS_Subset
<1>14. PICK e : Leads(d2, S!SetToSeq(T), e) /\ Cut(d2, gone, e)
  BY <1>10, <1>13, DeletesLead DEF T
<1>15. Same(Unindex(grown, gone), e)
  BY <1>7, <1>11, <1>12, <1>14, UnindexSame
<1>16. DOMAIN Unindex(grown, gone) = Fields
  BY <1>12 DEF Unindex, Fields
<1>17. Same(Search(Unindex(grown, gone)), e)
  BY <1>15, <1>16, SearchSame
<1>18. Leads(d, << a, b >> \o S!SetToSeq(T), e)
  <2> DEFINE K == {a, b} \cup T
             z == S!SetToSeq(T)
  <2>1. IsFiniteSet(T)
    <3> DEFINE f == [id \in gone |-> [do |-> "DeleteEntry", id |-> id]]
    <3>1. f \in Surjection(gone, T)
      BY DEF Surjection, T
    <3> HIDE DEF f
    <3> QED
      BY <1>13, <3>1, FS_Surjection
  <2>2. z \in Seq(K)
    <3>1. z \in Seq(T)
      BY <2>1, ListedSet
    <3> HIDE DEF z
    <3> QED
      BY <3>1
  <2>3. Leads(d, << a, b >>, d2)
    BY <1>4, <1>9, TwoLeads
  <2>4. << a, b >> \in Seq(K)
    OBVIOUS
  <2> HIDE DEF a, b, K, z
  <2>5. Leads(d2, z, e)
    BY <1>14 DEF z
  <2>6. Leads(d, << a, b >> \o z, e)
    BY <2>2, <2>3, <2>4, <2>5, ThenLeads
  <2> QED
    BY <2>6 DEF z
<1> HIDE DEF a, b
<1> QED
  BY <1>1, <1>17, <1>18

\* What a copy may hand to a task.
CopyOp(n) ==
  [type : {"UpdateTimestamp"}, id : 1 .. n, new_time : 1 .. n]
  \cup [type : {"InsertNew"}, id : 1 .. n, time : 1 .. n,
        data : Copyable, evictions : SUBSET (1 .. n)]

\* A copy, refreshed or new.
LEMMA InsertLeads ==
  ASSUME NEW st, NEW n \in Nat, NEW d, Agree(st, n, d), NEW own, Owner(n, own), NEW c \in Copyable
  PROVE  \/ /\ InsertToMemory(st, c, n + 1).op = None
            /\ Agree(InsertToMemory(st, c, n + 1).db, n + 1, d)
         \/ /\ InsertToMemory(st, c, n + 1).op \in CopyOp(n + 1)
            /\ \E e : /\ Leads(d, Statements(InsertToMemory(st, c, n + 1).op), e)
                      /\ Agree(InsertToMemory(st, c, n + 1).db, n + 1, e)
<1> DEFINE now == n + 1
           r == InsertToMemory(st, c, now)
<1>1. now \in Nat /\ n < now /\ c \in Content
  BY DEF Copyable
<1>2. /\ PositionsDistinct(d) /\ DOMAIN d = Tables /\ DOMAIN st = Fields
      /\ DOMAIN d.rows = DOMAIN st.entries
      /\ Good(st, n, AllTitles) /\ HashsLive(st) /\ Working(st, n)
  BY AgreeFacts DEF Agree
<1>3. Working(r.db, now)
  BY <1>2, InsertWorks
<1> HIDE DEF now
<1>4. Sound(r.db)
  BY <1>1, <1>2, InsertKeepsSound DEF Agree
<1>5. CASE ~OwnsLock
  <2>1. r.db = st /\ r.op = None
    BY <1>5 DEF InsertToMemory, NoOp
  <2> HIDE DEF r
  <2>2. Agree(r.db, now, d)
    BY <1>3, <1>4, <2>1 DEF Agree
  <2> QED
    BY <2>1, <2>2 DEF r, now
<1>6. CASE OwnsLock /\ Hash[c] \in DOMAIN st.hashs
  <2> DEFINE id == st.hashs[Hash[c]]
             s == [do |-> "SetCreation", id |-> id, time |-> now]
             e == [d EXCEPT !.rows[id] = now]
  <2>1. id \in DOMAIN st.entries /\ st.entries[id].creation \in DOMAIN st.times
    BY <1>2, <1>6 DEF HashsLive, Good, TimesGood
  <2>2. r = Refresh(st, id, now)
    BY <1>6 DEF InsertToMemory
  <2> HIDE DEF r, id
  <2>3. /\ r.db = Search(Bump(st, id, now))
        /\ r.op = [type |-> "UpdateTimestamp", id |-> id, new_time |-> now]
    BY <2>1, <2>2 DEF Refresh
  <2>4. Statements(r.op) = << s >>
    BY <2>3 DEF Statements
  <2>5. Runs(d, s, e)
    BY <1>2, <2>1, SetCreationRuns
  <2>6. Same(Bump(st, id, now), e)
    BY <2>1, BumpSame DEF Agree
  <2> HIDE DEF s, e
  <2>7. Leads(d, Statements(r.op), e)
    BY <2>4, <2>5, OneLeads
  <2>8. DOMAIN Bump(st, id, now) = Fields
    BY <1>2 DEF Bump, Fields
  <2>9. Same(r.db, e)
    BY <2>3, <2>6, <2>8, SearchSame
  <2>10. Agree(r.db, now, e)
    BY <1>3, <1>4, <2>9 DEF Agree
  <2>11. r.op \in CopyOp(now)
    <3>1. id \in 1 .. now /\ now \in 1 .. now
      BY <1>1, <1>2, <2>1 DEF now, Working, Good, Typed, IsMap
    <3> QED
      BY <2>3, <3>1 DEF CopyOp
  <2> QED
    BY <2>7, <2>10, <2>11 DEF r, now
<1>7. CASE OwnsLock /\ Hash[c] \notin DOMAIN st.hashs
  <2>1. r = InsertNew(st, c, now)
    BY <1>7 DEF InsertToMemory
  <2> HIDE DEF r
  <2>2. PICK e : Leads(d, Statements(r.op), e) /\ Same(r.db, e)
    BY <1>1, <1>7, <2>1, InsertNewLeads
  <2>3. Agree(r.db, now, e)
    BY <1>3, <1>4, <2>2 DEF Agree
  <2>4. r.op \in CopyOp(now)
    <3> DEFINE grown == Grow(st, c, now)
               gone == Evicted(grown)
    <3>1. Good(grown, now, AllTitles)
      BY <1>1, <1>2, <1>7, GrowKeepsGood
    <3>2. gone \in SUBSET DOMAIN grown.entries
      <4> HIDE DEF grown
      <4> QED
        BY <1>1, <3>1, EvictedNoFavorite
    <3>3. DOMAIN grown.entries \subseteq 1 .. now
      BY <3>1 DEF Good, Typed, IsMap
    <3>4. r.op = [type |-> "InsertNew", id |-> now, time |-> now, data |-> c, evictions |-> gone]
      BY <2>1 DEF InsertNew
    <3> HIDE DEF grown, gone
    <3>5. gone \in SUBSET (1 .. now) /\ now \in 1 .. now
      BY <1>1, <3>2, <3>3
    <3> QED
      BY <3>4, <3>5 DEF CopyOp
  <2> QED
    BY <2>2, <2>3, <2>4 DEF r, now
<1> QED
  BY <1>5, <1>6, <1>7

\* The deletion of an entry that is no favorite.
LEMMA DeleteLeads ==
  ASSUME NEW st, NEW n \in Nat, NEW d, Agree(st, n, d), NEW id \in DOMAIN st.entries,
         ~IsFavorite(st, id)
  PROVE  \E e : /\ Leads(d, Statements(DeleteFromMemory(st, id).op), e)
                /\ Agree(DeleteFromMemory(st, id).db, n, e)
<1> DEFINE r == DeleteFromMemory(st, id)
           e == DeleteRows(d, {id})
<1>1. /\ PositionsDistinct(d) /\ DOMAIN st = Fields /\ FavsLive(st) /\ Good(st, n, AllTitles)
      /\ Working(st, n)
  BY AgreeFacts DEF Agree
<1>2. id \notin st.favSet
  BY <1>1 DEF IsFavorite, Good, FavsGood
<1>3. r.db = Search(Unindex(st, {id})) /\ r.op = [type |-> "Delete", id |-> id]
  BY DEF DeleteFromMemory, Remove
<1>4. Working(r.db, n) /\ Sound(r.db)
  BY <1>1, DeleteWorks, DeleteKeepsSound DEF Agree
<1> HIDE DEF r
<1>5. Statements(r.op) = << [do |-> "DeleteEntry", id |-> id] >>
  BY <1>3 DEF Statements
<1>6. Leads(d, Statements(r.op), e)
  BY <1>1, <1>5, DeleteRuns, OneLeads
<1>7. Cut(d, {id}, e)
  BY DeleteRowsCuts
<1> HIDE DEF e
<1>8. Same(Unindex(st, {id}), e)
  <2>1. {id} \in SUBSET DOMAIN st.entries /\ {id} \cap st.favSet = {}
    BY <1>2
  <2> QED
    BY <1>1, <1>7, <2>1, UnindexSame DEF Agree
<1>9. DOMAIN Unindex(st, {id}) = Fields
  BY <1>1 DEF Unindex, Fields
<1>10. Same(r.db, e)
  BY <1>3, <1>8, <1>9, SearchSame
<1>11. Agree(r.db, n, e)
  BY <1>4, <1>10 DEF Agree
<1> QED
  BY <1>6, <1>11 DEF r

\* The deletion of all that are none.
LEMMA ClearLeads ==
  ASSUME NEW st, NEW n \in Nat, NEW d, Agree(st, n, d)
  PROVE  \E e : /\ Leads(d, Statements(ClearMemory(st).op), e)
                /\ Agree(ClearMemory(st).db, n, e)
<1> DEFINE r == ClearMemory(st)
           ids == {id \in DOMAIN st.entries : id \notin st.favSet}
           e == DeleteRows(d, ids)
           s == [do |-> "DeleteNonFavorites"]
<1>1. /\ PositionsDistinct(d) /\ DOMAIN st = Fields /\ FavsLive(st) /\ Good(st, n, AllTitles)
      /\ Working(st, n) /\ DOMAIN d.rows = DOMAIN st.entries /\ DOMAIN d.favs = st.favSet
  BY AgreeFacts DEF Agree
<1>2. r.db = Search(Unindex(st, ids)) /\ r.op = [type |-> "ClearNonFavorites"]
  BY DEF ClearMemory
<1>3. Working(r.db, n) /\ Sound(r.db)
  BY <1>1, ClearWorks, ClearKeepsSound DEF Agree
<1> HIDE DEF r
<1>4. Statements(r.op) = << s >>
  BY <1>2 DEF Statements
<1>5. NonFavorites(d) = ids
  BY <1>1 DEF NonFavorites
<1>6. Exec(d, s) = Ok(e)
  BY <1>5 DEF Exec
<1>7. ids \in SUBSET DOMAIN st.entries /\ ids \cap st.favSet = {}
  OBVIOUS
<1> HIDE DEF ids
<1>8. Cut(d, ids, e) /\ PositionsDistinct(e)
  BY <1>1, DeleteRowsCuts
<1> HIDE DEF e, s
<1>9. Leads(d, Statements(r.op), e)
  BY <1>4, <1>6, <1>8, OneLeads DEF Runs
<1>10. Same(Unindex(st, ids), e)
  BY <1>1, <1>7, <1>8, UnindexSame DEF Agree
<1>11. DOMAIN Unindex(st, ids) = Fields
  BY <1>1 DEF Unindex, Fields
<1>12. Same(r.db, e)
  BY <1>2, <1>10, <1>11, SearchSame
<1>13. Agree(r.db, n, e)
  BY <1>3, <1>12 DEF Agree
<1> QED
  BY <1>9, <1>13 DEF r

\* Entry id has new content, and a new time.
LEMMA UpdateLeads ==
  ASSUME NEW st, NEW n \in Nat, NEW d, Agree(st, n, d), NEW own, Owner(n, own),
         NEW id \in DOMAIN st.entries, NEW c \in Copyable, ~TakenByOther(st, id, c)
  PROVE  \E e : /\ Leads(d, Statements(UpdateContentInMemory(st, id, c, n + 1).op), e)
                /\ Agree(UpdateContentInMemory(st, id, c, n + 1).db, n + 1, e)
<1> DEFINE now == n + 1
           r == UpdateContentInMemory(st, id, c, now)
           mid == [st EXCEPT !.hashs = Rehash(st, id, c)]
           up == Bump(mid, id, now)
           new == [up EXCEPT !.entries[id].content = c]
           a == [do |-> "DeleteContent", id |-> id]
           b == [do |-> "InsertContent", id |-> id, data |-> c]
           z == [do |-> "SetCreation", id |-> id, time |-> now]
           d1 == [d EXCEPT !.contents = Drop(@, {id})]
           d2 == [d1 EXCEPT !.contents = Put(@, id, c)]
           d3 == [d2 EXCEPT !.rows[id] = now]
<1>1. now \in Nat /\ n < now /\ c \in Content
  BY DEF Copyable
<1>2. /\ PositionsDistinct(d) /\ DOMAIN d = Tables /\ DOMAIN st = Fields
      /\ DOMAIN d.rows = DOMAIN st.entries /\ DOMAIN d.contents \subseteq DOMAIN d.rows
      /\ Good(st, n, AllTitles) /\ Working(st, n)
  BY AgreeFacts DEF Agree
<1>3. Working(r.db, now)
  BY <1>2, UpdateWorks
<1> HIDE DEF now
<1>4. Sound(r.db)
  BY <1>1, <1>2, UpdateKeepsSound DEF Agree
<1>5. /\ r.db = Search(new)
      /\ r.op = [type |-> "UpdateContent", id |-> id, data |-> c, new_time |-> now]
  BY DEF UpdateContentInMemory
<1> HIDE DEF r
<1>6. Statements(r.op) = << a, b, z >>
  BY <1>5 DEF Statements
<1>7. Runs(d, a, d1)
  BY <1>2, DeleteContentRuns
<1>8. /\ DOMAIN d1 = Tables /\ d1.rows = d.rows /\ d1.favs = d.favs
      /\ DOMAIN d1.contents = DOMAIN d.contents \ {id}
      /\ \A x \in DOMAIN d.contents \ {id} : d1.contents[x] = d.contents[x]
  BY <1>2 DEF Tables, Drop
<1> HIDE DEF d1
<1>9. Runs(d1, b, d2)
  BY <1>2, <1>7, <1>8, InsertContentRuns DEF Runs
<1>10. /\ DOMAIN d2 = Tables /\ d2.rows = d.rows /\ d2.favs = d.favs
       /\ DOMAIN d2.contents = DOMAIN d.contents \cup {id} /\ d2.contents[id] = c
       /\ \A x \in DOMAIN d.contents \ {id} : d2.contents[x] = d.contents[x]
  BY <1>8 DEF Tables, Put
<1> HIDE DEF d2
<1>11. Runs(d2, z, d3)
  BY <1>2, <1>9, <1>10, SetCreationRuns DEF Runs
<1>12. /\ DOMAIN d3 = Tables /\ d3.contents = d2.contents /\ d3.favs = d.favs
       /\ DOMAIN d3.rows = DOMAIN d.rows
       /\ \A x \in DOMAIN d.rows : d3.rows[x] = IF x = id THEN now ELSE d.rows[x]
  BY <1>10 DEF Tables
<1> HIDE DEF d3, a, b, z
<1>13. Leads(d, Statements(r.op), d3)
  BY <1>6, <1>7, <1>9, <1>11, ThreeLeads
<1>14. /\ DOMAIN mid = Fields /\ mid.entries = st.entries
       /\ mid.favs = st.favs /\ mid.favSet = st.favSet /\ mid.titles = st.titles
  BY <1>2 DEF Fields
<1>15. IsMap(st.entries, 1 .. n, EntryUpTo(n, AllTitles))
  BY <1>2 DEF Good, Typed
<1> HIDE DEF mid
<1>16. /\ DOMAIN up = Fields /\ up.entries = [st.entries EXCEPT ![id].creation = now]
       /\ up.favs = st.favs /\ up.favSet = st.favSet /\ up.titles = st.titles
  BY <1>14 DEF Bump, Fields
<1> HIDE DEF up
<1>17. /\ DOMAIN new = Fields /\ new.entries = [up.entries EXCEPT ![id].content = c]
       /\ new.favs = st.favs /\ new.favSet = st.favSet /\ new.titles = st.titles
  BY <1>16 DEF Fields
<1> HIDE DEF new
<1>18. /\ DOMAIN up.entries = DOMAIN st.entries
       /\ \A x \in DOMAIN st.entries : x # id => up.entries[x] = st.entries[x]
       /\ up.entries[id] = [st.entries[id] EXCEPT !.creation = now]
  BY <1>16
<1>19. /\ DOMAIN new.entries = DOMAIN st.entries
       /\ \A x \in DOMAIN st.entries : x # id => new.entries[x] = st.entries[x]
       /\ new.entries[id] = [up.entries[id] EXCEPT !.content = c]
  BY <1>17, <1>18
<1>20. new.entries[id].creation = now /\ new.entries[id].content = c
  BY <1>15, <1>18, <1>19 DEF IsMap, EntryUpTo
<1>21. \A x \in DOMAIN st.entries : ContentIn(d3, x) = IF x = id THEN c ELSE ContentIn(d, x)
  BY <1>10, <1>12 DEF ContentIn
<1>22. Same(st, d)
  BY DEF Agree
<1>23. Same(new, d3)
  BY <1>2, <1>10, <1>12, <1>17, <1>19, <1>20, <1>21, <1>22 DEF Same
<1>24. Same(r.db, d3)
  BY <1>5, <1>17, <1>23, SearchSame
<1>25. Agree(r.db, now, d3)
  BY <1>3, <1>4, <1>24 DEF Agree
<1> QED
  BY <1>13, <1>25 DEF r, now

\* An edit that makes the entry a duplicate, run on the store's own connection.
LEMMA MergeAgrees ==
  ASSUME NEW st, NEW n \in Nat, NEW d, Agree(st, n, d),
         NEW id \in DOMAIN st.entries, NEW c \in Copyable, TakenByOther(st, id, c),
         ~IsFavorite(st, id)
  PROVE  /\ st.hashs[Hash[c]] \in DOMAIN DeleteRows(d, {id}).rows
         /\ Agree(MergeIntoOther(st, id, c, n + 1), n + 1,
                  [DeleteRows(d, {id}) EXCEPT !.rows[st.hashs[Hash[c]]] = n + 1])
<1> DEFINE now == n + 1
           other == st.hashs[Hash[c]]
           left == Unindex(st, {id})
           cut == DeleteRows(d, {id})
           new == MergeIntoOther(st, id, c, now)
           e == [cut EXCEPT !.rows[other] = now]
<1>1. now \in Nat /\ n < now /\ c \in Content
  BY DEF Copyable
<1>2. /\ DOMAIN st = Fields /\ FavsLive(st) /\ HashsLive(st) /\ Good(st, n, AllTitles)
      /\ Working(st, n) /\ DOMAIN d.rows = DOMAIN st.entries
  BY AgreeFacts DEF Agree
<1>3. id \notin st.favSet
  BY <1>2 DEF IsFavorite, Good, FavsGood
<1>4. other \in DOMAIN st.entries /\ other # id
  BY <1>2 DEF TakenByOther, HashsLive
<1>5. Cut(d, {id}, cut)
  BY DeleteRowsCuts
<1>6. {id} \in SUBSET DOMAIN st.entries /\ {id} \cap st.favSet = {}
  BY <1>3
<1>7. Working(new, now)
  BY <1>2, MergeWorks
<1> HIDE DEF now
<1>8. Sound(new)
  BY <1>1, <1>2, MergeKeepsSound DEF Agree
<1>9. other \in DOMAIN cut.rows
  BY <1>2, <1>4, <1>5 DEF Cut
<1>10. /\ Good(left, n, AllTitles) /\ HashsLive(left)
       /\ DOMAIN left.entries = DOMAIN st.entries \ {id}
  BY <1>2, <1>6, UnindexKeepsGood, UnindexKeepsHashs
<1>11. Unsearched(left) /\ DOMAIN left = Fields
  BY <1>2, UnindexUnsearched DEF Working
<1>12. new = IF other \in DOMAIN left.entries THEN Search(Bump(left, other, now)) ELSE Panic(left)
  BY DEF MergeIntoOther, Remove
<1>13. Same(left, cut)
  BY <1>2, <1>5, <1>6, UnindexSame DEF Agree
<1> HIDE DEF left, cut, new, other
<1>14. Working(left, n)
  BY <1>10, <1>11 DEF Working
<1>15. other \in DOMAIN left.entries
  BY <1>4, <1>10
<1>16. Same(Bump(left, other, now), e)
  BY <1>13, <1>14, <1>15, BumpSame
<1>17. DOMAIN Bump(left, other, now) = Fields
  BY <1>11 DEF Bump, Fields
<1> HIDE DEF e
<1>18. Same(new, e)
  BY <1>12, <1>15, <1>16, <1>17, SearchSame
<1>19. Agree(new, now, e)
  BY <1>7, <1>8, <1>18 DEF Agree
<1> QED
  BY <1>9, <1>19 DEF other, cut, e, new, now

-----------------------------------------------------------------------------
(* What the operations on favorites do                                     *)

\* A new favorite comes last.
LEMMA AddFavoriteLeads ==
  ASSUME NEW st, NEW n \in Nat, NEW d, Agree(st, n, d),
         NEW id \in DOMAIN st.entries, id \notin st.favSet
  PROVE  \E e : /\ Leads(d, Statements(AddFavoriteToMemory(st, id).op), e)
                /\ Agree(AddFavoriteToMemory(st, id).db, n, e)
<1> DEFINE r == AddFavoriteToMemory(st, id)
           N == Len(st.favs)
           push == FavPush(st, id)
           row == [position |-> N, title |-> None]
           s == [do |-> "InsertFavorite", id |-> id, position |-> N]
           e == [d EXCEPT !.favs = Put(@, id, row)]
<1>1. /\ DOMAIN d = Tables /\ DOMAIN st = Fields
      /\ DOMAIN d.rows = DOMAIN st.entries /\ DOMAIN d.favs = st.favSet
      /\ Good(st, n, AllTitles) /\ Working(st, n) /\ FavsLive(st)
      /\ st.favs \in Seq(1 .. n) /\ st.favSet \subseteq 1 .. n /\ id \in 1 .. n
  BY AgreeFacts DEF Agree
<1>2. Working(r.db, n) /\ Sound(r.db)
  BY <1>1, AddFavoriteWorks, AddFavoriteKeepsSound DEF Agree
<1>3. r.db = Mark(push, id, TRUE, None) /\ r.op = [type |-> "AddFavorite", id |-> id, position |-> N]
  BY DEF AddFavoriteToMemory
<1> HIDE DEF r
<1>4. Statements(r.op) = << s >>
  BY <1>3 DEF Statements
<1>5. Exec(d, s) = Ok(e)
  BY <1>1 DEF Exec
<1>6. /\ DOMAIN push = Fields /\ push.entries = st.entries
      /\ push.hashs = st.hashs /\ push.times = st.times
      /\ push.favs = Append(st.favs, id)
      /\ push.favSet = st.favSet \cup {id} /\ push.titles = Put(st.titles, id, None)
  BY <1>1 DEF FavPush, Fields
<1>7. /\ N \in Nat /\ Len(Append(st.favs, id)) = N + 1
      /\ DOMAIN Append(st.favs, id) = 1 .. N + 1
      /\ \A i \in 1 .. N : Append(st.favs, id)[i] = st.favs[i] /\ st.favs[i] \in st.favSet
      /\ Append(st.favs, id)[N + 1] = id
  <2>1. N \in Nat /\ DOMAIN st.favs = 1 .. N
    BY <1>1
  <2>2. \A i \in 1 .. N : st.favs[i] \in st.favSet
    BY <1>1, <2>1 DEF FavsLive, Range
  <2> QED
    BY <1>1, <2>1, <2>2
<1> HIDE DEF push, N
<1>8. None \in AllTitles /\ IsMap(st.titles, 1 .. n, AllTitles)
  BY <1>1 DEF Good, Typed
<1>9. /\ DOMAIN e = Tables /\ e.rows = d.rows /\ e.contents = d.contents
      /\ DOMAIN e.favs = st.favSet \cup {id} /\ e.favs[id] = row
      /\ \A x \in st.favSet : x # id /\ e.favs[x] = d.favs[x]
  BY <1>1 DEF Tables, Put
<1>10. row \in FavRow /\ row.position = N /\ row.title = None
  BY <1>7, <1>8 DEF FavRow
<1> HIDE DEF e, s, row
<1>11. \A x \in DOMAIN st.entries : ContentIn(e, x) = ContentIn(d, x)
  BY <1>9 DEF ContentIn
<1>12. /\ DOMAIN push.titles = DOMAIN st.titles \cup {id} /\ push.titles[id] = None
       /\ \A x \in st.favSet : push.titles[x] = st.titles[x]
  BY <1>1, <1>6 DEF Put, Good, FavsGood
<1>13. Same(push, e)
  <2>1. Same(st, d)
    BY DEF Agree
  <2>2. \A x \in push.favSet : e.favs[x] \in FavRow /\ push.titles[x] = e.favs[x].title
    BY <1>6, <1>9, <1>10, <1>12, <2>1 DEF Same
  <2>3. ASSUME NEW i \in 1 .. N + 1
        PROVE  e.favs[push.favs[i]].position = i - 1
    <3>1. CASE i = N + 1
      BY <1>6, <1>7, <1>9, <1>10, <3>1
    <3>2. CASE i # N + 1
      <4>1. i \in 1 .. N /\ i \in DOMAIN st.favs
        BY <1>1, <1>7, <3>2 DEF N
      <4>2. push.favs[i] = st.favs[i] /\ e.favs[st.favs[i]] = d.favs[st.favs[i]]
        BY <1>6, <1>7, <1>9, <4>1
      <4> QED
        BY <2>1, <4>1, <4>2 DEF Same
    <3> QED
      BY <3>1, <3>2
  <2>4. /\ \A x \in DOMAIN st.entries : /\ st.entries[x].creation = e.rows[x]
                                        /\ st.entries[x].content = ContentIn(e, x)
        /\ DOMAIN e.contents \subseteq DOMAIN e.rows /\ DOMAIN e.rows = DOMAIN st.entries
    BY <1>9, <1>11, <2>1 DEF Same
  <2> QED
    BY <1>6, <1>7, <1>9, <2>2, <2>3, <2>4 DEF Same
<1>14. Same(r.db, e)
  <2>1. Typed(push, n, AllTitles)
    <3>1. push.favs \in Seq(1 .. n)
      BY <1>1, <1>6
    <3>2. IsMap(push.titles, 1 .. n, AllTitles)
      <4> DEFINE f == st.titles
                 A == 1 .. n
      <4>1. IsMap(f, A, AllTitles) /\ id \in A /\ push.titles = Put(f, id, None)
        BY <1>1, <1>6, <1>8
      <4> HIDE DEF f, A
      <4>2. IsMap(Put(f, id, None), A, AllTitles)
        BY <1>8, <4>1, PutIsMap
      <4>3. IsMap(push.titles, A, AllTitles)
        BY <4>1, <4>2
      <4> QED
        BY <4>3 DEF A
    <3> QED
      BY <1>1, <1>6, <3>1, <3>2 DEF Good, Typed
  <2>2. Marked(push, r.db, id, TRUE, None)
    BY <1>3, <1>8, <2>1, MarkEffect
  <2> QED
    BY <1>13, <2>2, SameAlike DEF Marked
<1>15. PositionsDistinct(e)
  <2>1. r.db.favs \in Seq(1 .. n)
    BY <1>2, WorkingFields
  <2> QED
    BY <1>2, <1>14, <2>1, SameDistinct DEF Sound
<1>16. Leads(d, Statements(r.op), e)
  BY <1>4, <1>5, <1>15, OneLeads DEF Runs
<1>17. Agree(r.db, n, e)
  BY <1>2, <1>14 DEF Agree
<1> QED
  BY <1>16, <1>17 DEF r

\* A favorite's title.
LEMMA SetTitleLeads ==
  ASSUME NEW st, NEW n \in Nat, NEW d, Agree(st, n, d),
         NEW id \in st.favSet, NEW title \in AllTitles
  PROVE  \E e : /\ Leads(d, Statements(SetFavoriteTitleInMemory(st, id, title).op), e)
                /\ Agree(SetFavoriteTitleInMemory(st, id, title).db, n, e)
<1> DEFINE r == SetFavoriteTitleInMemory(st, id, title)
           listed == [st EXCEPT !.titles = Put(@, id, title)]
           new == [listed EXCEPT !.entries[id].favorite_title = title]
           s == [do |-> "SetTitle", id |-> id, title |-> title]
           e == [d EXCEPT !.favs[id].title = title]
<1>1. /\ DOMAIN d = Tables /\ DOMAIN st = Fields
      /\ DOMAIN d.rows = DOMAIN st.entries /\ DOMAIN d.favs = st.favSet
      /\ Good(st, n, AllTitles) /\ Working(st, n) /\ FavsLive(st) /\ PositionsDistinct(d)
      /\ id \in 1 .. n /\ id \in DOMAIN st.entries
  BY AgreeFacts DEF Agree
<1>2. Working(r.db, n) /\ Sound(r.db)
  BY <1>1, SetTitleWorks, SetTitleKeepsSound DEF Agree
<1>3. r.db = new /\ r.op = [type |-> "SetFavoriteTitle", id |-> id, title |-> title]
  BY <1>1 DEF SetFavoriteTitleInMemory
<1> HIDE DEF r
<1>4. Statements(r.op) = << s >>
  BY <1>3 DEF Statements
<1>5. Exec(d, s) = Ok(e)
  BY <1>1 DEF Exec
<1>6. Same(st, d) /\ d.favs[id] \in FavRow
  BY DEF Agree, Same
<1>7. /\ DOMAIN e = Tables /\ e.rows = d.rows /\ e.contents = d.contents
      /\ DOMAIN e.favs = st.favSet /\ e.favs[id] = [d.favs[id] EXCEPT !.title = title]
      /\ \A x \in st.favSet : x # id => e.favs[x] = d.favs[x]
  BY <1>1 DEF Tables
<1> HIDE DEF e, s
<1>8. e.favs[id] \in FavRow /\ e.favs[id].title = title /\ e.favs[id].position = d.favs[id].position
  BY <1>6, <1>7 DEF FavRow
<1>9. /\ DOMAIN listed = Fields /\ listed.entries = st.entries
      /\ listed.favs = st.favs /\ listed.favSet = st.favSet
      /\ listed.titles = Put(st.titles, id, title)
  BY <1>1 DEF Fields
<1> HIDE DEF listed
<1>10. /\ new.entries = [st.entries EXCEPT ![id].favorite_title = title]
       /\ new.favs = st.favs /\ new.favSet = st.favSet /\ new.titles = Put(st.titles, id, title)
  BY <1>9 DEF Fields
<1> HIDE DEF new
<1>11. /\ DOMAIN new.entries = DOMAIN st.entries
       /\ \A x \in DOMAIN st.entries : /\ new.entries[x].creation = st.entries[x].creation
                                       /\ new.entries[x].content = st.entries[x].content
  <2>1. IsMap(st.entries, 1 .. n, EntryUpTo(n, AllTitles))
    BY <1>1 DEF Good, Typed
  <2> QED
    BY <1>10, <2>1 DEF IsMap, EntryUpTo
<1>12. \A x \in DOMAIN st.entries : ContentIn(e, x) = ContentIn(d, x)
  BY <1>7 DEF ContentIn
<1>13. \A x \in st.favSet : x \in DOMAIN st.titles
  BY <1>1 DEF Good, FavsGood
<1>14. /\ new.titles[id] = title
       /\ \A x \in st.favSet : x # id => new.titles[x] = st.titles[x]
  BY <1>10, <1>13 DEF Put
<1>15. \A x \in st.favSet : e.favs[x].position = d.favs[x].position
  BY <1>7, <1>8
<1>16. \A i \in DOMAIN st.favs : st.favs[i] \in st.favSet
  BY <1>1 DEF FavsLive, Range
<1>17. Same(new, e)
  <2>1. \A x \in st.favSet : e.favs[x] \in FavRow /\ new.titles[x] = e.favs[x].title
    BY <1>6, <1>7, <1>8, <1>14 DEF Same
  <2>2. \A i \in DOMAIN st.favs : e.favs[st.favs[i]].position = i - 1
    BY <1>6, <1>15, <1>16 DEF Same
  <2>3. /\ \A x \in DOMAIN st.entries : /\ new.entries[x].creation = e.rows[x]
                                        /\ new.entries[x].content = ContentIn(e, x)
        /\ DOMAIN e.contents \subseteq DOMAIN e.rows /\ DOMAIN e.rows = DOMAIN st.entries
    BY <1>6, <1>7, <1>11, <1>12 DEF Same
  <2> QED
    BY <1>7, <1>10, <1>11, <2>1, <2>2, <2>3 DEF Same
<1>18. PositionsDistinct(e)
  <2>1. r.db.favs \in Seq(1 .. n)
    BY <1>2, WorkingFields
  <2> QED
    BY <1>2, <1>3, <1>17, <2>1, SameDistinct DEF Sound
<1>19. Leads(d, Statements(r.op), e)
  BY <1>4, <1>5, <1>18, OneLeads DEF Runs
<1>20. Agree(r.db, n, e)
  BY <1>2, <1>3, <1>17 DEF Agree
<1> QED
  BY <1>19, <1>20 DEF r

\* A favorite goes, and those behind it move up.
LEMMA WithoutFirstElements ==
  ASSUME NEW T, NEW s \in Seq(T), NEW e \in Range(s)
  PROVE  LET k == FirstIndex(s, e)
             r == WithoutFirst(s, e)
         IN  /\ k \in 1 .. Len(s) /\ s[k] = e
             /\ DOMAIN r = 1 .. Len(s) - 1
             /\ \A i \in 1 .. Len(s) - 1 : r[i] = IF i < k THEN s[i] ELSE s[i + 1]
<1> DEFINE k == FirstIndex(s, e)
           a == SubSeq(s, 1, k - 1)
           z == SubSeq(s, k + 1, Len(s))
           r == a \o z
<1>1. k \in 1 .. Len(s) /\ s[k] = e
  BY FirstIndexIn
<1>2. WithoutFirst(s, e) = r
  BY DEF WithoutFirst
<1> HIDE DEF k
<1>3. /\ a \in Seq(T) /\ Len(a) = k - 1
      /\ \A j \in 1 .. k - 1 : a[j] = s[j]
  BY <1>1
<1>4. /\ z \in Seq(T) /\ Len(z) = Len(s) - k
      /\ \A j \in 1 .. Len(s) - k : z[j] = s[k + j]
  BY <1>1
<1> HIDE DEF a, z
<1>5. /\ Len(r) = Len(a) + Len(z)
      /\ DOMAIN r = 1 .. Len(a) + Len(z)
      /\ \A i \in 1 .. Len(a) + Len(z) :
           r[i] = IF i <= Len(a) THEN a[i] ELSE z[i - Len(a)]
  BY <1>3, <1>4, Joined
<1> HIDE DEF r
<1>6. Len(a) + Len(z) = Len(s) - 1
  BY <1>1, <1>3, <1>4
<1>7. ASSUME NEW i \in 1 .. Len(s) - 1
      PROVE  r[i] = IF i < k THEN s[i] ELSE s[i + 1]
  <2>1. CASE i < k
    <3>1. i \in 1 .. k - 1 /\ r[i] = a[i]
      BY <1>1, <1>3, <1>5, <1>6, <2>1
    <3> QED
      BY <1>3, <2>1, <3>1
  <2>2. CASE ~(i < k)
    <3>1. i - Len(a) \in 1 .. Len(s) - k /\ r[i] = z[i - Len(a)]
      BY <1>1, <1>3, <1>5, <1>6, <2>2
    <3>2. k + (i - Len(a)) = i + 1
      BY <1>1, <1>3
    <3> QED
      BY <1>4, <2>2, <3>1, <3>2
  <2> QED
    BY <2>1, <2>2
<1> QED
  BY <1>1, <1>2, <1>5, <1>6, <1>7 DEF k

\* What the shift does to a favorite's row.
LEMMA ShiftedRow ==
  ASSUME NEW favs, NEW pos \in Nat, NEW x \in DOMAIN favs, favs[x] \in FavRow,
         pos = 0 => favs[x].position # 0
  PROVE  /\ Shifted(favs, pos)[x] \in FavRow
         /\ Shifted(favs, pos)[x].title = favs[x].title
         /\ favs[x].position >= pos => Shifted(favs, pos)[x].position = favs[x].position - 1
         /\ ~(favs[x].position >= pos) => Shifted(favs, pos)[x].position = favs[x].position
<1> DEFINE w == favs[x]
           v == Shifted(favs, pos)[x]
<1>1. v = IF w.position >= pos THEN [w EXCEPT !.position = @ - 1] ELSE w
  BY DEF Shifted
<1> HIDE DEF w, v
<1>2. w.position \in Nat /\ (w.position >= pos => w.position - 1 \in Nat)
  BY DEF FavRow, w
<1>3. w \in FavRow
  BY DEF w
<1>4. CASE w.position >= pos
  <2>1. v = [w EXCEPT !.position = w.position - 1]
    BY <1>1, <1>4
  <2>2. v \in FavRow /\ v.title = w.title /\ v.position = w.position - 1
    BY <1>2, <1>3, <1>4, <2>1 DEF FavRow
  <2> QED
    BY <1>4, <2>2 DEF v, w
<1>5. CASE ~(w.position >= pos)
  BY <1>1, <1>3, <1>5 DEF v, w
<1> QED
  BY <1>4, <1>5

LEMMA RemoveFavoriteLeads ==
  ASSUME NEW st, NEW n \in Nat, NEW d, Agree(st, n, d), NEW id \in st.favSet
  PROVE  \E e : /\ Leads(d, Statements(RemoveFavoriteFromMemory(st, id).op), e)
                /\ Agree(RemoveFavoriteFromMemory(st, id).db, n, e)
<1> DEFINE r == RemoveFavoriteFromMemory(st, id)
           mid == FavRemove(st, id)
           k == FirstIndex(st.favs, id)
           N == Len(st.favs)
           w == WithoutFirst(st.favs, id)
           a == [do |-> "DeleteFavorite", id |-> id]
           z == [do |-> "CloseGap", position |-> k - 1]
           d1 == [d EXCEPT !.favs = Drop(@, {id})]
           e == [d1 EXCEPT !.favs = Shifted(@, k - 1)]
<1>1. /\ DOMAIN d = Tables /\ DOMAIN st = Fields
      /\ DOMAIN d.rows = DOMAIN st.entries /\ DOMAIN d.favs = st.favSet
      /\ Good(st, n, AllTitles) /\ Working(st, n) /\ FavsLive(st) /\ PositionsDistinct(d)
      /\ st.favs \in Seq(1 .. n) /\ id \in Range(st.favs) /\ id \in 1 .. n
  BY AgreeFacts DEF Agree, FavsLive
<1>2. Working(r.db, n) /\ Sound(r.db)
  BY <1>1, RemoveFavoriteWorks, RemoveFavoriteKeepsSound DEF Agree
<1>3. r.db = Mark(mid, id, FALSE, None)
  BY DEF RemoveFavoriteFromMemory
<1>4. /\ k \in 1 .. N /\ st.favs[k] = id /\ DOMAIN w = 1 .. N - 1
      /\ \A i \in 1 .. N - 1 : w[i] = IF i < k THEN st.favs[i] ELSE st.favs[i + 1]
  BY <1>1, WithoutFirstElements
<1>5. N \in Nat /\ DOMAIN st.favs = 1 .. N
  BY <1>1
<1>6. Statements(r.op) = << a >> \o << z >>
  <2>1. FavPosition(st, id) = k - 1 /\ k - 1 # None
    BY <1>1, <1>4, <1>5, StoreAssumption DEF FavPosition
  <2>2. r.op = [type |-> "RemoveFavorite", id |-> id, old_position |-> k - 1]
    BY <2>1 DEF RemoveFavoriteFromMemory
  <2> QED
    BY <2>1, <2>2 DEF Statements
<1>7. /\ DOMAIN mid = Fields /\ mid.entries = st.entries
      /\ mid.hashs = st.hashs /\ mid.times = st.times
      /\ mid.favs = w /\ mid.favSet = st.favSet \ {id} /\ mid.titles = Drop(st.titles, {id})
  BY <1>1 DEF FavRemove, Fields
<1>8. w \in Seq(1 .. n)
  BY <1>1, WithoutFirstKeepsOthers
<1> HIDE DEF r, mid, k, w, N
<1>9. /\ DOMAIN d1 = Tables /\ d1.rows = d.rows /\ d1.contents = d.contents
      /\ DOMAIN d1.favs = st.favSet \ {id}
      /\ \A x \in st.favSet \ {id} : d1.favs[x] = d.favs[x]
  BY <1>1 DEF Tables, Drop
<1>10. Exec(d, a) = Ok(d1)
  BY DEF Exec
<1> HIDE DEF d1, a
<1>11. PositionsDistinct(d1)
  BY <1>1, <1>9 DEF PositionsDistinct
<1>12. Same(st, d)
  BY DEF Agree
<1>13. \A i \in 1 .. N : /\ st.favs[i] \in st.favSet /\ d.favs[st.favs[i]].position = i - 1
                         /\ i # k => st.favs[i] # id
  BY <1>1, <1>4, <1>5, <1>12 DEF FavsLive, Range, OnceEach, Same
<1>14. ASSUME k - 1 = 0, NEW x \in DOMAIN d1.favs
       PROVE  d1.favs[x].position # 0
  <2>1. x \in st.favSet /\ x # id /\ d1.favs[x] = d.favs[x]
    BY <1>9
  <2>2. PICK i \in 1 .. N : st.favs[i] = x
    BY <1>1, <1>5, <2>1 DEF FavsLive, Range
  <2>3. i # k /\ d.favs[x].position = i - 1
    BY <1>4, <1>13, <2>1, <2>2
  <2>4. i \in Nat /\ k \in Nat
    BY <1>4, <1>5
  <2>5. i - 1 # 0
    BY <1>14, <2>3, <2>4
  <2> QED
    BY <2>1, <2>3, <2>5
<1>15. k - 1 \in Nat /\ \A x \in DOMAIN d1.favs : d1.favs[x] \in FavRow
  BY <1>4, <1>5, <1>9, <1>12 DEF Same
<1>16. /\ Exec(d1, z) = Ok(e)
       /\ DOMAIN e = Tables /\ e.rows = d1.rows /\ e.contents = d1.contents
       /\ e.favs = Shifted(d1.favs, k - 1) /\ DOMAIN e.favs = DOMAIN d1.favs
  <2>1. CloseGap(d1, k - 1) = Ok(e)
    BY <1>14 DEF CloseGap
  <2>2. Exec(d1, z) = CloseGap(d1, k - 1)
    BY DEF Exec
  <2> QED
    BY <1>9, <2>1, <2>2 DEF Tables, Shifted
<1> HIDE DEF e, z
<1>a. ASSUME NEW x \in DOMAIN d1.favs
      PROVE  /\ e.favs[x] \in FavRow /\ e.favs[x].title = d1.favs[x].title
             /\ d1.favs[x].position >= k - 1 => e.favs[x].position = d1.favs[x].position - 1
             /\ ~(d1.favs[x].position >= k - 1) => e.favs[x].position = d1.favs[x].position
  <2> DEFINE f == d1.favs
             pos == k - 1
  <2>1. pos \in Nat /\ x \in DOMAIN f /\ f[x] \in FavRow /\ (pos = 0 => f[x].position # 0)
    BY <1>14, <1>15
  <2> HIDE DEF f, pos
  <2>2. /\ Shifted(f, pos)[x] \in FavRow
        /\ Shifted(f, pos)[x].title = f[x].title
        /\ f[x].position >= pos => Shifted(f, pos)[x].position = f[x].position - 1
        /\ ~(f[x].position >= pos) => Shifted(f, pos)[x].position = f[x].position
    BY <2>1, ShiftedRow
  <2>3. e.favs = Shifted(f, pos)
    BY <1>16 DEF f, pos
  <2> QED
    BY <2>2, <2>3 DEF f, pos
<1>17. ASSUME NEW i \in DOMAIN w
       PROVE  e.favs[w[i]].position = i - 1
  <2>1. i \in Nat /\ k \in Nat
    BY <1>4, <1>5
  <2>2. CASE i < k
    <3>1. i \in 1 .. N /\ i # k /\ w[i] = st.favs[i] /\ ~(i - 1 >= k - 1)
      BY <1>4, <1>5, <2>1, <2>2
    <3>2. w[i] \in st.favSet \ {id} /\ d.favs[w[i]].position = i - 1
      BY <1>13, <3>1
    <3> QED
      BY <1>9, <1>a, <3>1, <3>2
  <2>3. CASE ~(i < k)
    <3>1. i + 1 \in 1 .. N /\ i + 1 # k /\ w[i] = st.favs[i + 1] /\ i >= k - 1 /\ (i + 1) - 1 = i
      BY <1>4, <1>5, <2>1, <2>3
    <3>2. w[i] \in st.favSet \ {id} /\ d.favs[w[i]].position = i
      BY <1>13, <3>1
    <3> QED
      BY <1>9, <1>a, <3>1, <3>2
  <2> QED
    BY <2>2, <2>3
<1>18. \A x \in mid.favSet : e.favs[x] \in FavRow /\ mid.titles[x] = e.favs[x].title
  <2>1. \A x \in st.favSet : x \in DOMAIN st.titles /\ st.titles[x] = d.favs[x].title
    BY <1>1, <1>12 DEF Good, FavsGood, Same
  <2>2. \A x \in st.favSet \ {id} : mid.titles[x] = st.titles[x]
    BY <1>7, <2>1 DEF Drop
  <2> QED
    BY <1>7, <1>9, <1>a, <2>1, <2>2
<1>19. \A x \in DOMAIN st.entries : ContentIn(e, x) = ContentIn(d, x)
  BY <1>9, <1>16 DEF ContentIn
<1>20. Same(mid, e)
  <2>1. /\ \A x \in DOMAIN st.entries : /\ st.entries[x].creation = e.rows[x]
                                        /\ st.entries[x].content = ContentIn(e, x)
        /\ DOMAIN e.contents \subseteq DOMAIN e.rows /\ DOMAIN e.rows = DOMAIN st.entries
    BY <1>9, <1>12, <1>16, <1>19 DEF Same
  <2> QED
    BY <1>7, <1>9, <1>16, <1>17, <1>18, <2>1 DEF Same
<1>21. Same(r.db, e)
  <2>1. Typed(mid, n, AllTitles)
    <3> DEFINE f == st.titles
               A == 1 .. n
    <3>1. IsMap(f, A, AllTitles) /\ mid.titles = Drop(f, {id})
      BY <1>1, <1>7 DEF Good, Typed
    <3> HIDE DEF f, A
    <3>2. IsMap(mid.titles, A, AllTitles)
      BY <3>1, DropIsMap
    <3> QED
      BY <1>1, <1>7, <1>8, <3>2 DEF Good, Typed, A
  <2>2. None \in AllTitles
    BY DEF AllTitles
  <2>3. Marked(mid, r.db, id, FALSE, None)
    BY <1>1, <1>3, <2>1, <2>2, MarkEffect
  <2> QED
    BY <1>20, <2>3, SameAlike DEF Marked
<1>22. PositionsDistinct(e)
  <2>1. r.db.favs \in Seq(1 .. n)
    BY <1>2, WorkingFields
  <2> QED
    BY <1>2, <1>21, <2>1, SameDistinct DEF Sound
<1>23. Leads(d, Statements(r.op), e)
  <2>1. Leads(d, << a >>, d1) /\ Leads(d1, << z >>, e)
    BY <1>10, <1>11, <1>16, <1>22, OneLeads DEF Runs
  <2>2. << a >> \in Seq({a, z}) /\ << z >> \in Seq({a, z})
    OBVIOUS
  <2> QED
    BY <1>6, <2>1, <2>2, ThenLeads
<1>24. Agree(r.db, n, e)
  BY <1>2, <1>21 DEF Agree
<1> QED
  BY <1>23, <1>24 DEF r

-----------------------------------------------------------------------------
(* What a reload has read so far                                           *)

LEMMA DeleteRowsProper ==
  ASSUME NEW d, Proper(d), NEW ids
  PROVE  Proper(DeleteRows(d, ids))
<1> DEFINE a == DeleteRows(d, ids)
<1>1. /\ DOMAIN a = Tables /\ IsFunction(a)
      /\ \A tau \in Tables : a[tau] = Drop(d[tau], ids)
  BY DEF DeleteRows, Tables, IsFunction
<1>2. \A tau \in Tables : IsFunction(Drop(d[tau], ids))
  BY DEF Drop, IsFunction
<1>3. Placed(Drop(d["favs"], ids))
  BY DEF Proper, Placed, Drop
<1> HIDE DEF a
<1>4. "favs" \in Tables
  BY DEF Tables
<1>5. Proper(a)
  BY <1>1, <1>2, <1>3, <1>4 DEF Proper
<1> QED
  BY <1>5 DEF a

\* Favorites are renumbered, added or removed.
LEMMA FavsProper ==
  ASSUME NEW d, Proper(d), NEW g, IsFunction(g), Placed(g)
  PROVE  Proper([d EXCEPT !.favs = g])
<1>1. "favs" \in Tables
  BY DEF Tables
<1> DEFINE e == With(d, "favs", g)
<1>2. /\ DOMAIN e = Tables /\ IsFunction(e)
      /\ \A tau \in Tables : e[tau] = IF tau = "favs" THEN g ELSE d[tau]
  BY <1>1, WithTables
<1>3. e = [d EXCEPT !.favs = g]
  BY DEF With
<1> HIDE DEF e
<1>4. Proper(e)
  BY <1>1, <1>2 DEF Proper
<1> QED
  BY <1>3, <1>4

LEMMA ExecProper ==
  ASSUME NEW n, NEW own, NEW d, Proper(d), NEW s \in Statement(n, own)
  PROVE  Proper(Exec(d, s).disk)
<1>1. CASE s.do \in EntryStatements
  BY <1>1, EntryLocal DEF Local
<1>2. CASE s.do = "DeleteNonFavorites"
  <2>1. Exec(d, s).disk = DeleteRows(d, NonFavorites(d))
    BY <1>2 DEF Exec, Ok
  <2> QED
    BY <2>1, DeleteRowsProper
<1>3. CASE s.do = "InsertFavorite"
  <2> DEFINE g == Put(d.favs, s.id, [position |-> s.position, title |-> None])
  <2>1. Exec(d, s).disk = d \/ Exec(d, s).disk = [d EXCEPT !.favs = g]
    BY <1>3 DEF Exec, Ok, Failed
  <2>2. IsFunction(g) /\ Placed(g)
    BY DEF Put, IsFunction, Placed, Proper
  <2> HIDE DEF g
  <2> QED
    BY <2>1, <2>2, FavsProper
<1>4. CASE s.do = "DeleteFavorite"
  <2> DEFINE g == Drop(d.favs, {s.id})
  <2>1. Exec(d, s).disk = [d EXCEPT !.favs = g]
    BY <1>4 DEF Exec, Ok
  <2>2. IsFunction(g) /\ Placed(g)
    BY DEF Drop, IsFunction, Placed, Proper
  <2> HIDE DEF g
  <2> QED
    BY <2>1, <2>2, FavsProper
<1>5. CASE s.do = "CloseGap"
  <2> DEFINE g == Shifted(d.favs, s.position)
  <2>1. Exec(d, s) = CloseGap(d, s.position)
    BY <1>5 DEF Exec
  <2>2. Exec(d, s).disk = d \/ Exec(d, s).disk = [d EXCEPT !.favs = g]
    BY <2>1 DEF CloseGap, Ok, Failed
  <2>3. IsFunction(g) /\ Placed(g)
    BY DEF Shifted, IsFunction, Placed, Proper
  <2> HIDE DEF g
  <2> QED
    BY <2>2, <2>3, FavsProper
<1> QED
  BY <1>1, <1>2, <1>3, <1>4, <1>5 DEF Statement, EntryStatements

Selecting == {"favs", "entries", "contents"}

\* As long as nothing was committed, the store is what the file makes of it.
ReadInv ==
  /\ Proper(disk)
  /\ phase = "down" => jobs = << >>
  /\ phase \in Selecting => astray
  /\ phase = "favs" /\ ~db.panicked => db = EmptyStore
  /\ phase = "entries" /\ ~moved /\ ~db.panicked =>
       FavsLoadable(disk) /\ db = WithFavs(EmptyStore, disk)
  /\ phase = "contents" /\ ~moved /\ ~db.panicked =>
       FavsLoadable(disk) /\ db = WithEntries(WithFavs(EmptyStore, disk), disk)

\* Outside a reload only the tables matter.
LEMMA NotReading ==
  ASSUME Proper(disk'), phase' \notin Selecting, phase' = "down" => jobs' = << >>
  PROVE  ReadInv'
  BY DEF ReadInv, Selecting

\* A step beside the reload.
LEMMA BesideReading ==
  ASSUME ReadInv, Proper(disk'), UNCHANGED << db, phase >>,
         phase = "down" => jobs' = << >>, astray => astray',
         phase \in Selecting /\ ~moved' => disk' = disk /\ ~moved
  PROVE  ReadInv'
  BY DEF ReadInv, Selecting

LEMMA CommittedFacts ==
  ASSUME NEW d, Committed(d)
  PROVE  disk' = d /\ (phase \in Selecting /\ ~moved' => disk' = disk /\ ~moved)
  BY DEF Committed, Selecting

LEMMA HandlersReading ==
  ASSUME ReadInv, Handlers
  PROVE  ReadInv'
<1>1. Proper(disk') /\ phase' \in {"idle", "merging"}
  <2>1. ASSUME NEW id, NEW c, EditMerges(id, c)
        PROVE  disk' = DeleteRows(disk, {id}) /\ phase' = "merging"
    BY <2>1 DEF EditMerges
  <2>2. ASSUME NEW id, NEW c, EditMerges(id, c)
        PROVE  Proper(disk') /\ phase' \in {"idle", "merging"}
    BY <2>1, <2>2, DeleteRowsProper DEF ReadInv
  <2>3. (disk' = disk /\ phase' = "idle") \/ \E id, c : EditMerges(id, c)
    BY DEF Handlers, Copy, SelectionToFavorite, EditInPlace, Delete, ConfirmFavorite,
           RemoveFavorite, ClearHistory, WalkList, Handle, Up, Keep
  <2> QED
    BY <2>2, <2>3 DEF ReadInv
<1> QED
  BY <1>1, NotReading DEF Selecting

LEMMA StatementReading ==
  ASSUME PInv, ReadInv, NEW i \in DOMAIN jobs, RunStatement(i)
  PROVE  ReadInv'
<1>1. PICK own : jobs \in Seq(Task(clock, own))
  BY KeptFacts DEF Kept
<1>2. Head(jobs[i]) \in Statement(clock, own)
  <2> DEFINE t == jobs[i]
             T == Statement(clock, own)
  <2>1. t \in Seq(T) /\ t # << >>
    BY <1>1 DEF Task
  <2> HIDE DEF t, T
  <2>2. Head(t) \in T
    BY <2>1
  <2> QED
    BY <2>2 DEF t, T
<1>3. Proper(Exec(disk, Head(jobs[i])).disk)
  BY <1>2, ExecProper DEF ReadInv
<1>4. Committed(Exec(disk, Head(jobs[i])).disk) /\ UNCHANGED << db, phase >> /\ (astray => astray')
  BY DEF RunStatement
<1>5. phase # "down"
  <2>1. DOMAIN << >> = {}
    OBVIOUS
  <2> QED
    BY <2>1 DEF ReadInv
<1> QED
  BY <1>3, <1>4, <1>5, CommittedFacts, BesideReading

LEMMA OtherRunsReading ==
  ASSUME PInv, ReadInv, OtherRuns
  PROVE  ReadInv'
<1>1. PICK own : theirs \in Seq(Statement(clock, own))
  BY KeptFacts DEF Kept
<1>2. Committed(Exec(disk, Head(theirs)).disk) /\ UNCHANGED << db, phase, jobs >> /\ astray'
      /\ theirs # << >>
  BY DEF OtherRuns
<1>3. Head(theirs) \in Statement(clock, own)
  BY <1>1, <1>2
<1>4. Proper(Exec(disk, Head(theirs)).disk)
  BY <1>3, ExecProper DEF ReadInv
<1> QED
  BY <1>2, <1>4, CommittedFacts, BesideReading DEF ReadInv

LEMMA MergeEndsReading ==
  ASSUME PInv, ReadInv, MergeBumps \/ MergeFails
  PROVE  ReadInv'
<1>1. phase = "merging" /\ phase' = "idle"
      /\ (disk' = disk \/ disk' = Exec(disk, MergeStatement).disk)
  BY DEF MergeBumps, MergeFails
<1>2. PICK own : MergeTyped(own)
  BY KeptFacts
<1>3. Proper(disk')
  BY <1>1, <1>2, ExecProper DEF ReadInv, MergeTyped
<1> QED
  BY <1>1, <1>3, NotReading DEF Selecting

LEMMA ReloadReading ==
  ASSUME PInv, ReadInv, Reload
  PROVE  ReadInv'
<1>1. disk' = disk /\ jobs' = jobs /\ Proper(disk)
  BY DEF ReadInv, Reload, StartReload, ReadFavs, ReadEntries, ReadContents
<1>2. CASE StartReload
  <2>1. phase' = "favs" /\ astray'
        /\ db' = [EmptyStore EXCEPT !.query = db.query, !.filtered = db.filtered]
    BY <1>2 DEF StartReload
  <2>2. db.query = None /\ db.filtered = << >>
    BY KeptFacts DEF Kept, Working, Unsearched
  <2>3. db' = EmptyStore
    BY <2>1, <2>2 DEF EmptyStore
  <2> QED
    BY <1>1, <2>1, <2>3 DEF ReadInv, Selecting
<1>3. CASE ReadFavs
  <2>1. /\ phase = "favs" /\ ~db.panicked /\ phase' = "entries" /\ astray' = astray
        /\ db' = IF FavsLoadable(disk) THEN WithFavs(db, disk) ELSE Panic(db)
    BY <1>3 DEF ReadFavs
  <2>2. db = EmptyStore /\ astray
    BY <2>1 DEF ReadInv, Selecting
  <2>3. Panic(EmptyStore).panicked
    BY DEF Panic, EmptyStore
  <2>4. ~db'.panicked => FavsLoadable(disk') /\ db' = WithFavs(EmptyStore, disk')
    BY <1>1, <2>1, <2>2, <2>3
  <2> QED
    BY <1>1, <2>1, <2>2, <2>4 DEF ReadInv, Selecting
<1>4. CASE ReadEntries
  <2>1. /\ phase = "entries" /\ ~db.panicked /\ phase' = "contents" /\ astray' = astray
        /\ db' = WithEntries(db, disk) /\ moved' = moved
    BY <1>4 DEF ReadEntries
  <2>2. ~moved' => FavsLoadable(disk') /\ db' = WithEntries(WithFavs(EmptyStore, disk'), disk')
    BY <1>1, <2>1 DEF ReadInv
  <2> QED
    BY <1>1, <2>1, <2>2 DEF ReadInv, Selecting
<1>5. CASE ReadContents
  BY <1>1, <1>5, NotReading DEF ReadContents, Selecting
<1> QED
  BY <1>2, <1>3, <1>4, <1>5 DEF Reload

LEMMA PrunedProper ==
  ASSUME NEW d, Proper(d), NEW now
  PROVE  Proper(PrunedByNumber(PrunedByAge(d, now)))
<1> DEFINE a == PrunedByAge(d, now)
<1>1. Proper(a)
  BY DeleteRowsProper DEF PrunedByAge
<1> HIDE DEF a
<1>2. Proper(PrunedByNumber(a))
  BY <1>1, DeleteRowsProper DEF PrunedByNumber
<1> QED
  BY <1>2 DEF a

LEMMA StopReading ==
  ASSUME ReadInv, Crash \/ Exit \/ Restart
  PROVE  ReadInv'
<1>1. Proper(disk')
  BY DeleteRowsProper, PrunedProper DEF ReadInv, Crash, Exit, Restart
<1> QED
  BY <1>1, NotReading DEF Crash, Exit, Restart, Selecting

LEMMA NextRead ==
  ASSUME PInv, ReadInv, [Next]_vars
  PROVE  ReadInv'
<1>1. CASE UNCHANGED vars
  BY <1>1 DEF vars, others, ReadInv
<1>2. CASE Handlers
  BY <1>2, HandlersReading
<1>3. ASSUME NEW i \in DOMAIN jobs, RunStatement(i)
      PROVE  ReadInv'
  BY <1>3, StatementReading
<1>4. ASSUME NEW i \in DOMAIN jobs, TaskFails(i)
      PROVE  ReadInv'
  <2>1. phase # "down"
    <3>1. DOMAIN << >> = {}
      OBVIOUS
    <3> QED
      BY <3>1 DEF ReadInv
  <2> QED
    BY <1>4, <2>1, BesideReading DEF TaskFails, ReadInv
<1>5. CASE MergeBumps \/ MergeFails
  BY <1>5, MergeEndsReading
<1>6. CASE OtherActs
  BY <1>6, BesideReading DEF OtherActs, ReadInv
<1>7. CASE OtherRuns
  BY <1>7, OtherRunsReading
<1>8. CASE Reload
  BY <1>8, ReloadReading
<1>9. CASE ReadFails
  BY <1>9, NotReading DEF ReadFails, ReadInv, Selecting
<1>10. CASE Crash \/ Exit \/ Restart
  BY <1>10, StopReading
<1> QED
  BY <1>1, <1>2, <1>3, <1>4, <1>5, <1>6, <1>7, <1>8, <1>9, <1>10 DEF Next

-----------------------------------------------------------------------------
(* What the tables will hold when the tasks in flight have run             *)

\* The tasks in flight, each finishing before the next begins, and then what a merge
\* has left to run, take the tables to what memory holds.
Foreseen ==
  /\ PositionsDistinct(disk)
  /\ \E m, e : /\ LeadsAll(disk, jobs, m)
               /\ IF phase = "merging" THEN Runs(m, MergeStatement, e) ELSE m = e
               /\ Agree(db, clock, e)

SyncInv == phase # "down" /\ ~astray /\ ~db.panicked => Foreseen

\* The tasks after a handler.
Spawn(js, ops) == js \o [i \in DOMAIN ops |-> Statements(ops[i])]

LEMMA SpawnNone ==
  ASSUME NEW T, NEW js \in Seq(T)
  PROVE  Spawn(js, << >>) = js
<1> DEFINE z == [i \in DOMAIN << >> |-> Statements(<< >>[i])]
<1>1. z = << >>
  OBVIOUS
<1> HIDE DEF z
<1>2. js \o z = js
  BY <1>1
<1> QED
  BY <1>2 DEF Spawn, z

LEMMA SameSequence ==
  ASSUME NEW T, NEW s \in Seq(T), NEW t \in Seq(T), Len(s) = Len(t),
         \A i \in 1 .. Len(s) : s[i] = t[i]
  PROVE  s = t
<1>1. s \in [1 .. Len(s) -> T] /\ t \in [1 .. Len(s) -> T]
  OBVIOUS
<1> QED
  BY <1>1

LEMMA ElementsTyped ==
  ASSUME NEW T, NEW s \in Seq(T)
  PROVE  Len(s) \in Nat /\ \A i \in 1 .. Len(s) : s[i] \in T
<1>1. s \in [1 .. Len(s) -> T]
  OBVIOUS
<1> QED
  BY <1>1

LEMMA JoinTyped ==
  ASSUME NEW T, NEW a \in Seq(T), NEW z \in Seq(T)
  PROVE  a \o z \in Seq(T)
  OBVIOUS

\* Appended is joined with a sequence of one.
LEMMA JoinedLast ==
  ASSUME NEW T, NEW a \in Seq(T), NEW z \in Seq(T), Len(z) = 1
  PROVE  a \o z = Append(a, z[1])
<1> DEFINE s == a \o z
           t == Append(a, z[1])
<1>1. /\ z[1] \in T /\ Len(a) \in Nat
      /\ s \in Seq(T) /\ Len(s) = Len(a) + 1
      /\ \A i \in 1 .. Len(a) + 1 : s[i] = IF i <= Len(a) THEN a[i] ELSE z[i - Len(a)]
  <2>1. z[1] \in T /\ Len(a) \in Nat /\ s \in Seq(T)
    <3> HIDE DEF s, t
    <3>1. 1 \in 1 .. Len(z)
      OBVIOUS
    <3>2. z[1] \in T /\ Len(a) \in Nat
      BY <3>1, ElementsTyped
    <3>3. s \in Seq(T)
      BY JoinTyped DEF s
    <3> QED
      BY <3>2, <3>3
  <2>2. /\ Len(s) = Len(a) + Len(z)
        /\ \A i \in 1 .. Len(a) + Len(z) : s[i] = IF i <= Len(a) THEN a[i] ELSE z[i - Len(a)]
    BY Joined
  <2> QED
    BY <2>1, <2>2
<1>2. /\ t \in Seq(T) /\ Len(t) = Len(a) + 1
      /\ \A i \in 1 .. Len(a) + 1 : t[i] = IF i <= Len(a) THEN a[i] ELSE z[1]
  BY <1>1
<1> HIDE DEF s, t
<1>3. \A i \in 1 .. Len(a) + 1 : ~(i <= Len(a)) => i - Len(a) = 1
  BY <1>1
<1>4. \A i \in 1 .. Len(s) : s[i] = t[i]
  BY <1>1, <1>2, <1>3
<1>5. s = t
  BY <1>1, <1>2, <1>4, SameSequence
<1> QED
  BY <1>5 DEF s, t

LEMMA JoinedLastTwo ==
  ASSUME NEW T, NEW a \in Seq(T), NEW z \in Seq(T), Len(z) = 2
  PROVE  a \o z = Append(Append(a, z[1]), z[2])
<1> DEFINE s == a \o z
           m == Append(a, z[1])
           t == Append(m, z[2])
<1>1. /\ z[1] \in T /\ z[2] \in T /\ Len(a) \in Nat
      /\ s \in Seq(T) /\ Len(s) = Len(a) + 2
      /\ \A i \in 1 .. Len(a) + 2 : s[i] = IF i <= Len(a) THEN a[i] ELSE z[i - Len(a)]
  <2>1. z[1] \in T /\ z[2] \in T /\ Len(a) \in Nat /\ s \in Seq(T)
    <3> HIDE DEF s, m, t
    <3>1. 1 \in 1 .. Len(z) /\ 2 \in 1 .. Len(z)
      OBVIOUS
    <3>2. z[1] \in T /\ z[2] \in T /\ Len(a) \in Nat
      BY <3>1, ElementsTyped
    <3>3. s \in Seq(T)
      BY JoinTyped DEF s
    <3> QED
      BY <3>2, <3>3
  <2>2. /\ Len(s) = Len(a) + Len(z)
        /\ \A i \in 1 .. Len(a) + Len(z) : s[i] = IF i <= Len(a) THEN a[i] ELSE z[i - Len(a)]
    BY Joined
  <2> QED
    BY <2>1, <2>2
<1>2. /\ m \in Seq(T) /\ Len(m) = Len(a) + 1
      /\ \A i \in 1 .. Len(a) + 1 : m[i] = IF i <= Len(a) THEN a[i] ELSE z[1]
  BY <1>1
<1> HIDE DEF m
<1>3. /\ t \in Seq(T) /\ Len(t) = Len(a) + 2
      /\ \A i \in 1 .. Len(a) + 1 : t[i] = m[i]
      /\ t[Len(a) + 2] = z[2]
  BY <1>1, <1>2
<1> HIDE DEF s, t
<1>4. ASSUME NEW i \in 1 .. Len(s)
      PROVE  s[i] = t[i]
  <2>1. CASE i <= Len(a)
    <3>1. i \in 1 .. Len(a) + 1 /\ i \in 1 .. Len(a) + 2
      BY <1>1, <2>1
    <3> QED
      BY <1>1, <1>2, <1>3, <2>1, <3>1
  <2>2. CASE i = Len(a) + 1
    <3>1. i \in 1 .. Len(a) + 1 /\ i \in 1 .. Len(a) + 2 /\ ~(i <= Len(a)) /\ i - Len(a) = 1
      BY <1>1, <2>2
    <3> QED
      BY <1>1, <1>2, <1>3, <3>1
  <2>3. CASE i = Len(a) + 2
    <3>1. i \in 1 .. Len(a) + 2 /\ ~(i <= Len(a)) /\ i - Len(a) = 2
      BY <1>1, <2>3
    <3> QED
      BY <1>1, <1>3, <2>3, <3>1
  <2>4. i <= Len(a) \/ i = Len(a) + 1 \/ i = Len(a) + 2
    BY <1>1
  <2> QED
    BY <2>1, <2>2, <2>3, <2>4
<1>5. s = t
  BY <1>1, <1>3, <1>4, SameSequence
<1> QED
  BY <1>5 DEF s, t, m

LEMMA SpawnOne ==
  ASSUME NEW T, NEW js \in Seq(T), NEW a
  PROVE  Spawn(js, << a >>) = Append(js, Statements(a))
<1> DEFINE z == [i \in DOMAIN << a >> |-> Statements(<< a >>[i])]
           t == Statements(a)
           U == T \cup {t}
<1>1. z \in Seq(U) /\ Len(z) = 1 /\ z[1] = t
  OBVIOUS
<1>2. js \in Seq(U) /\ t \in U
  OBVIOUS
<1> HIDE DEF z, t, U
<1>3. js \o z = Append(js, t)
  BY <1>1, <1>2, JoinedLast
<1> QED
  BY <1>3 DEF Spawn, z, t

LEMMA SpawnTwo ==
  ASSUME NEW T, NEW js \in Seq(T), NEW a, NEW b
  PROVE  Spawn(js, << a, b >>) = Append(Append(js, Statements(a)), Statements(b))
<1> DEFINE z == [i \in DOMAIN << a, b >> |-> Statements(<< a, b >>[i])]
           t == Statements(a)
           u == Statements(b)
           U == T \cup {t, u}
<1>1. z \in Seq(U) /\ Len(z) = 2 /\ z[1] = t /\ z[2] = u
  OBVIOUS
<1>2. js \in Seq(U) /\ t \in U /\ u \in U
  OBVIOUS
<1> HIDE DEF z, t, u, U
<1>3. js \o z = Append(Append(js, t), u)
  BY <1>1, <1>2, JoinedLastTwo
<1> QED
  BY <1>3 DEF Spawn, z, t, u

\* Memory and its tasks after operations that agree with each other.
LEMMA SpawnLeads ==
  ASSUME NEW T, NEW js \in Seq(T), NEW d, NEW e, LeadsAll(d, js, e)
  PROVE  /\ LeadsAll(d, Spawn(js, << >>), e)
         /\ \A a, f : Leads(e, Statements(a), f) => LeadsAll(d, Spawn(js, << a >>), f)
         /\ \A a, b, f, g : Leads(e, Statements(a), f) /\ Leads(f, Statements(b), g)
                              => LeadsAll(d, Spawn(js, << a, b >>), g)
<1>1. LeadsAll(d, Spawn(js, << >>), e)
  BY SpawnNone
<1>2. ASSUME NEW a, NEW f, Leads(e, Statements(a), f)
      PROVE  LeadsAll(d, Spawn(js, << a >>), f)
  BY <1>2, AppendLeads, SpawnOne
<1>3. ASSUME NEW a, NEW b, NEW f, NEW g, Leads(e, Statements(a), f), Leads(f, Statements(b), g)
      PROVE  LeadsAll(d, Spawn(js, << a, b >>), g)
  <2> DEFINE t == Statements(a)
             u == Statements(b)
             U == T \cup {t}
             more == Append(js, t)
  <2>1. LeadsAll(d, more, f)
    BY <1>3, AppendLeads
  <2>2. js \in Seq(U) /\ t \in U
    OBVIOUS
  <2> HIDE DEF t, U
  <2>3. more \in Seq(U)
    BY <2>2
  <2> HIDE DEF more, u
  <2>4. LeadsAll(d, Append(more, u), g)
    BY <1>3, <2>1, <2>3, AppendLeads DEF u
  <2>5. Spawn(js, << a, b >>) = Append(more, u)
    BY SpawnTwo DEF more, t, u
  <2> QED
    BY <2>4, <2>5
<1> QED
  BY <1>1, <1>2, <1>3

\* What the invariants say of an instance that is up.
LEMMA SyncFacts ==
  ASSUME PInv, SyncInv, Up, ~astray
  PROVE  /\ PositionsDistinct(disk)
         /\ \E own, e : /\ clock \in Nat /\ Owner(clock, own) /\ phase = "idle"
                        /\ DiskOK(disk, clock, own)
                        /\ jobs \in Seq(Task(clock, own))
                        /\ LeadsAll(disk, jobs, e) /\ Agree(db, clock, e)
<1>1. PICK own : Kept(own, clock, db, disk, jobs, theirs)
  BY KeptFacts
<1>2. phase = "idle" /\ Foreseen
  BY DEF SyncInv, Up
<1>3. PICK e : LeadsAll(disk, jobs, e) /\ Agree(db, clock, e)
  BY <1>2 DEF Foreseen
<1>4. clock \in Nat
  BY KeptFacts
<1> QED
  BY <1>1, <1>2, <1>3, <1>4 DEF Kept, Foreseen

\* What a handler asked for is on its way.
LEMMA HandledSync ==
  ASSUME NEW new, NEW ops, Handle(new, ops), PositionsDistinct(disk'),
         NEW n, clock' = n, NEW e, LeadsAll(disk', Spawn(jobs, ops), e), Agree(new, n, e)
  PROVE  SyncInv'
<1>1. phase' = "idle" /\ db' = new /\ jobs' = Spawn(jobs, ops)
  BY DEF Handle, Up, others, Spawn
<1>2. LeadsAll(disk', jobs', e) /\ Agree(db', clock', e)
  BY <1>1
<1> QED
  BY <1>1, <1>2 DEF SyncInv, Foreseen

LEMMA CopySync ==
  ASSUME PInv, SyncInv, ~astray', NEW c \in Copyable, Copy(c)
  PROVE  SyncInv'
<1> DEFINE r == InsertToMemory(db, c, Now)
           ops == IF r.op = None THEN << >> ELSE << r.op >>
<1>1. /\ Handle(r.db, ops) /\ clock' = Now /\ Now <= MaxTime /\ disk' = disk /\ Up /\ ~astray
  BY DEF Copy, Tick, Handle
<1>2. PICK own, e : /\ clock \in Nat /\ Owner(clock, own) /\ jobs \in Seq(Task(clock, own))
                    /\ LeadsAll(disk, jobs, e) /\ Agree(db, clock, e)
  BY <1>1, SyncFacts
<1>3. Now = clock + 1
  BY DEF Now
<1>4. \/ r.op = None /\ Agree(r.db, Now, e)
      \/ /\ r.op \in CopyOp(Now)
         /\ \E f : Leads(e, Statements(r.op), f) /\ Agree(r.db, Now, f)
  BY <1>2, <1>3, InsertLeads
<1> HIDE DEF r
<1>5. r.op \in CopyOp(Now) => r.op # None
  <2>1. \A t \in 1 .. Now : t \in 1 .. MaxTime
    BY <1>1, <1>2, <1>3, BoundsNatural
  <2>2. CopyOp(Now) \subseteq CopyOp(MaxTime)
    BY <2>1 DEF CopyOp
  <2>3. None \notin CopyOp(MaxTime)
    BY PersistenceAssumption DEF CopyOp
  <2> QED
    BY <2>2, <2>3
<1>6. \E f : LeadsAll(disk, Spawn(jobs, ops), f) /\ Agree(r.db, Now, f)
  <2>1. CASE r.op = None /\ Agree(r.db, Now, e)
    BY <1>2, <2>1, SpawnLeads
  <2>2. CASE r.op \in CopyOp(Now) /\ \E f : Leads(e, Statements(r.op), f) /\ Agree(r.db, Now, f)
    <3>1. ops = << r.op >>
      BY <1>5, <2>2
    <3>2. PICK f : Leads(e, Statements(r.op), f) /\ Agree(r.db, Now, f)
      BY <2>2
    <3>3. LeadsAll(disk, Spawn(jobs, << r.op >>), f)
      BY <1>2, <3>2, SpawnLeads
    <3> QED
      BY <3>1, <3>2, <3>3
  <2> QED
    BY <1>4, <2>1, <2>2
<1> HIDE DEF ops
<1>7. PositionsDistinct(disk')
  BY <1>1, SyncFacts
<1> QED
  BY <1>1, <1>6, <1>7, HandledSync

LEMMA SelectionToFavoriteSync ==
  ASSUME PInv, SyncInv, ~astray', NEW c \in Copyable, SelectionToFavorite(c)
  PROVE  SyncInv'
<1> DEFINE r == InsertToMemory(db, c, Now)
           id == NewestId(r.db)
           add == AddFavoriteToMemory(r.db, id)
<1>1. /\ r.op # None /\ id \notin db.favSet /\ id # None
      /\ Handle(add.db, << r.op, add.op >>) /\ clock' = Now /\ disk' = disk /\ Up /\ ~astray
  BY DEF SelectionToFavorite, Tick, Handle
<1>2. PICK own, e : /\ clock \in Nat /\ Owner(clock, own) /\ jobs \in Seq(Task(clock, own))
                    /\ LeadsAll(disk, jobs, e) /\ Agree(db, clock, e)
  BY <1>1, SyncFacts
<1>3. /\ Now = clock + 1 /\ Now \in Nat /\ clock < Now /\ Working(db, clock) /\ c \in Content
  <2>1. Now = clock + 1
    BY DEF Now
  <2>2. Now \in Nat /\ clock < Now
    BY <1>2, <2>1
  <2>3. Working(db, clock) /\ c \in Content
    BY <1>2 DEF Agree, Copyable
  <2> QED
    BY <2>1, <2>2, <2>3
<1>4. r.db.favSet = db.favSet
  <2>1. Good(db, clock, AllTitles) /\ HashsLive(db)
    BY <1>3 DEF Working
  <2> QED
    BY ONLY <1>2, <1>3, <2>1, InsertKeepsSound
<1>5. \E f : Leads(e, Statements(r.op), f) /\ Agree(r.db, Now, f)
  BY <1>1, <1>2, <1>3, InsertLeads
<1> HIDE DEF r
<1>6. PICK f : Leads(e, Statements(r.op), f) /\ Agree(r.db, Now, f)
  BY <1>5
<1>7. id \in DOMAIN r.db.entries /\ id \notin r.db.favSet
  BY <1>1, <1>3, <1>4, <1>6, NewestIdLive DEF Agree, Working
<1> HIDE DEF id
<1>8. \E g : Leads(f, Statements(add.op), g) /\ Agree(add.db, Now, g)
  BY <1>3, <1>6, <1>7, AddFavoriteLeads
<1> HIDE DEF add
<1>9. PICK g : Leads(f, Statements(add.op), g) /\ Agree(add.db, Now, g)
  BY <1>8
<1>10. LeadsAll(disk, Spawn(jobs, << r.op, add.op >>), g)
  BY <1>2, <1>6, <1>9, SpawnLeads
<1>11. PositionsDistinct(disk')
  BY <1>1, SyncFacts
<1> QED
  BY <1>1, <1>9, <1>10, <1>11, HandledSync

\* A handler that asks for one operation.
LEMMA OneHandledSync ==
  ASSUME PInv, SyncInv, ~astray, NEW new, NEW op, Handle(new, << op >>), disk' = disk,
         NEW n, clock' = n,
         \A own, e : Owner(clock, own) /\ Agree(db, clock, e) =>
           \E f : Leads(e, Statements(op), f) /\ Agree(new, n, f)
  PROVE  SyncInv'
<1>1. Up
  BY DEF Handle
<1>2. PICK own, e : /\ Owner(clock, own) /\ jobs \in Seq(Task(clock, own))
                    /\ LeadsAll(disk, jobs, e) /\ Agree(db, clock, e)
  BY <1>1, SyncFacts
<1>3. PICK f : Leads(e, Statements(op), f) /\ Agree(new, n, f)
  BY <1>2
<1>4. LeadsAll(disk, Spawn(jobs, << op >>), f)
  BY <1>2, <1>3, SpawnLeads
<1>5. PositionsDistinct(disk')
  BY <1>1, SyncFacts
<1> QED
  BY <1>3, <1>4, <1>5, HandledSync

LEMMA EditInPlaceSync ==
  ASSUME PInv, SyncInv, ~astray', NEW id \in Live, NEW c \in Copyable, EditInPlace(id, c)
  PROVE  SyncInv'
<1> DEFINE r == UpdateContentInMemory(db, id, c, Now)
<1>1. /\ ~TakenByOther(db, id, c)
      /\ Handle(r.db, << r.op >>) /\ clock' = Now /\ disk' = disk /\ ~astray
  BY DEF EditInPlace, Tick
<1>2. clock \in Nat /\ Now = clock + 1 /\ id \in DOMAIN db.entries
  BY KeptFacts DEF Now, Live
<1>3. \A own, e : Owner(clock, own) /\ Agree(db, clock, e) =>
        \E f : Leads(e, Statements(r.op), f) /\ Agree(r.db, Now, f)
  BY <1>1, <1>2, UpdateLeads
<1> HIDE DEF r
<1> QED
  BY <1>1, <1>3, OneHandledSync

LEMMA DeleteSync ==
  ASSUME PInv, SyncInv, ~astray', NEW id \in Live, Delete(id)
  PROVE  SyncInv'
<1> DEFINE r == DeleteFromMemory(db, id)
<1>1. /\ ~IsFavorite(db, id) /\ ~astray
      /\ Handle(r.db, << r.op >>) /\ clock' = clock /\ disk' = disk
  BY DEF Delete
<1>2. clock \in Nat /\ id \in DOMAIN db.entries
  BY KeptFacts DEF Live
<1>3. \A own, e : Owner(clock, own) /\ Agree(db, clock, e) =>
        \E f : Leads(e, Statements(r.op), f) /\ Agree(r.db, clock, f)
  BY <1>1, <1>2, DeleteLeads
<1> HIDE DEF r
<1> QED
  BY <1>1, <1>3, OneHandledSync

LEMMA ClearHistorySync ==
  ASSUME PInv, SyncInv, ~astray', ClearHistory
  PROVE  SyncInv'
<1> DEFINE r == ClearMemory(db)
<1>1. Handle(r.db, << r.op >>) /\ clock' = clock /\ disk' = disk /\ ~astray
  BY DEF ClearHistory, Keep
<1>2. clock \in Nat
  BY KeptFacts
<1>3. \A own, e : Owner(clock, own) /\ Agree(db, clock, e) =>
        \E f : Leads(e, Statements(r.op), f) /\ Agree(r.db, clock, f)
  BY <1>1, <1>2, ClearLeads
<1> HIDE DEF r
<1> QED
  BY <1>1, <1>3, OneHandledSync

LEMMA RemoveFavoriteSync ==
  ASSUME PInv, SyncInv, ~astray', NEW id \in db.favSet, RemoveFavorite(id)
  PROVE  SyncInv'
<1> DEFINE r == RemoveFavoriteFromMemory(db, id)
<1>1. Handle(r.db, << r.op >>) /\ clock' = clock /\ disk' = disk /\ ~astray
  BY DEF RemoveFavorite, Keep
<1>2. clock \in Nat
  BY KeptFacts
<1>3. \A own, e : Owner(clock, own) /\ Agree(db, clock, e) =>
        \E f : Leads(e, Statements(r.op), f) /\ Agree(r.db, clock, f)
  BY <1>1, <1>2, RemoveFavoriteLeads
<1> HIDE DEF r
<1> QED
  BY <1>1, <1>3, OneHandledSync

\* A favorite and its title, or a title alone.
LEMMA ConfirmFavoriteSync ==
  ASSUME PInv, SyncInv, ~astray', NEW id \in Live, NEW title \in Titles \cup {None},
         ConfirmFavorite(id, title)
  PROVE  SyncInv'
<1> DEFINE add == AddFavoriteToMemory(db, id)
           starred == IF IsFavorite(db, id) THEN db ELSE add.db
           named == SetFavoriteTitleInMemory(starred, id, title)
           ops == IF IsFavorite(db, id) THEN << named.op >> ELSE << add.op, named.op >>
<1>1. Handle(named.db, ops) /\ clock' = clock /\ disk' = disk /\ Up /\ ~astray
  BY DEF ConfirmFavorite, Keep, Handle
<1>2. PICK own, e : /\ clock \in Nat /\ Owner(clock, own) /\ jobs \in Seq(Task(clock, own))
                    /\ LeadsAll(disk, jobs, e) /\ Agree(db, clock, e)
  BY <1>1, SyncFacts
<1>3. title \in AllTitles /\ id \in DOMAIN db.entries /\ Good(db, clock, AllTitles)
  BY <1>2, AgreeFacts DEF AllTitles, Live
<1>4. IsFavorite(db, id) <=> id \in db.favSet
  BY <1>3 DEF IsFavorite, Good, FavsGood
<1>5. PositionsDistinct(disk')
  BY <1>1, SyncFacts
<1>6. CASE IsFavorite(db, id)
  <2>1. starred = db /\ ops = << named.op >>
    BY <1>6
  <2> HIDE DEF ops, starred
  <2>2. \E f : Leads(e, Statements(named.op), f) /\ Agree(named.db, clock, f)
    BY <1>2, <1>3, <1>4, <1>6, <2>1, SetTitleLeads
  <2> HIDE DEF named
  <2>3. PICK f : Leads(e, Statements(named.op), f) /\ Agree(named.db, clock, f)
    BY <2>2
  <2>4. LeadsAll(disk, Spawn(jobs, ops), f)
    BY <1>2, <2>1, <2>3, SpawnLeads
  <2> QED
    BY <1>1, <1>5, <2>3, <2>4, HandledSync
<1>7. CASE ~IsFavorite(db, id)
  <2>1. starred = add.db /\ ops = << add.op, named.op >>
    BY <1>7
  <2>2. add.db.favSet = db.favSet \cup {id}
    BY <1>2, <1>3 DEF AddFavoriteToMemory, Mark, FavPush, Fields, Agree, Working, Good, Typed
  <2>3. \E f : Leads(e, Statements(add.op), f) /\ Agree(add.db, clock, f)
    BY <1>2, <1>3, <1>4, <1>7, AddFavoriteLeads
  <2> HIDE DEF ops, starred, add
  <2>4. PICK f : Leads(e, Statements(add.op), f) /\ Agree(add.db, clock, f)
    BY <2>3
  <2>5. \E g : Leads(f, Statements(named.op), g) /\ Agree(named.db, clock, g)
    BY <1>2, <1>3, <2>1, <2>2, <2>4, SetTitleLeads
  <2> HIDE DEF named
  <2>6. PICK g : Leads(f, Statements(named.op), g) /\ Agree(named.db, clock, g)
    BY <2>5
  <2>7. LeadsAll(disk, Spawn(jobs, ops), g)
    BY <1>2, <2>1, <2>4, <2>6, SpawnLeads
  <2> QED
    BY <1>1, <1>5, <2>6, <2>7, HandledSync
<1> QED
  BY <1>6, <1>7

\* The first statement of a merge: the second is known to complete it.
LEMMA EditMergesSync ==
  ASSUME PInv, ReadInv, SyncInv, ~astray', NEW id \in Live, NEW c \in Copyable, EditMerges(id, c)
  PROVE  SyncInv'
<1> DEFINE new == MergeIntoOther(db, id, c, Now)
           other == db.hashs[Hash[c]]
           s == [do |-> "DeleteEntry", id |-> id]
           left == DeleteRows(disk, {id})
<1>1. /\ TakenByOther(db, id, c) /\ ~IsFavorite(db, id) /\ ~astray /\ Up
      /\ db' = new /\ clock' = Now /\ disk' = left /\ jobs' = jobs /\ phase' = "merging"
      /\ ~Overtakes(s, Len(jobs))
  BY DEF EditMerges, Tick, others
<1>2. PositionsDistinct(disk)
  BY <1>1, SyncFacts
<1>3. PICK own, e : /\ clock \in Nat /\ Owner(clock, own) /\ jobs \in Seq(Task(clock, own))
                    /\ LeadsAll(disk, jobs, e) /\ Agree(db, clock, e)
  BY <1>1, SyncFacts
<1>4. Now = clock + 1 /\ id \in DOMAIN db.entries
  BY DEF Now, Live
<1> DEFINE f == DeleteRows(e, {id})
           g == [f EXCEPT !.rows[other] = Now]
<1>5. other \in DOMAIN f.rows /\ Agree(new, Now, g)
  BY <1>1, <1>3, <1>4, MergeAgrees
<1>6. NewestId(new) = other /\ new.entries[other].creation = Now
  BY <1>1, <1>3, <1>4, MergeTops DEF Agree
<1>7. PositionsDistinct(e) /\ PositionsDistinct(f) /\ DOMAIN f = Tables
  BY <1>3, AgreeFacts, DeleteRowsCuts DEF Cut
<1>8. Runs(e, s, f)
  BY <1>7, DeleteRuns
<1> HIDE DEF new, other, left, s, f, g
<1>9. LeadsAll(left, jobs, f)
  <2> DEFINE T == Statement(clock, own)
  <2>1. jobs \in Seq(Seq(T) \ {<< >>})
    BY <1>3 DEF Task
  <2> HIDE DEF T
  <2>2. \A i \in 1 .. Len(jobs) : ~Conflicts(s, jobs[i])
    BY <1>1 DEF Overtakes
  <2>3. PICK h : Runs(disk, s, h) /\ LeadsAll(h, jobs, f)
    BY <1>2, <1>3, <1>8, <2>1, <2>2, OvertakeAll DEF ReadInv
  <2>4. Exec(disk, s) = Ok(left)
    BY DEF Exec, s, left
  <2>5. h = left
    BY <2>3, <2>4 DEF Runs, Ok
  <2> QED
    BY <2>3, <2>5
<1>10. PositionsDistinct(left)
  BY <1>2, DeleteRowsCuts DEF left
<1>11. Runs(f, [do |-> "SetCreation", id |-> other, time |-> Now], g)
  BY <1>5, <1>7, SetCreationRuns DEF g
<1>12. MergeStatement' = [do |-> "SetCreation", id |-> other, time |-> Now]
  BY <1>1, <1>6 DEF MergeStatement
<1>13. LeadsAll(disk', jobs', f) /\ Runs(f, MergeStatement', g) /\ Agree(db', clock', g)
       /\ PositionsDistinct(disk')
  BY <1>1, <1>5, <1>9, <1>10, <1>11, <1>12
<1> QED
  BY <1>1, <1>13 DEF SyncInv, Foreseen

\* The second, ahead of tasks that concern other entries.
LEMMA MergeBumpsSync ==
  ASSUME PInv, ReadInv, SyncInv, ~astray', MergeBumps
  PROVE  SyncInv'
<1>1. /\ phase = "merging" /\ phase' = "idle" /\ ~db.panicked /\ ~astray
      /\ disk' = Exec(disk, MergeStatement).disk
      /\ UNCHANGED << db, clock, jobs >>
      /\ ~Overtakes(MergeStatement, Len(jobs))
  BY DEF MergeBumps
<1>2. PositionsDistinct(disk) /\ Proper(disk)
  BY <1>1 DEF SyncInv, Foreseen, ReadInv
<1>3. PICK m, e : LeadsAll(disk, jobs, m) /\ Runs(m, MergeStatement, e) /\ Agree(db, clock, e)
  BY <1>1 DEF SyncInv, Foreseen
<1>4. PICK own : Kept(own, clock, db, disk, jobs, theirs)
  BY KeptFacts
<1> DEFINE T == Statement(clock, own)
           s == MergeStatement
<1>5. jobs \in Seq(Seq(T) \ {<< >>})
  BY <1>4 DEF Kept, Task
<1> HIDE DEF T, s
<1>6. \A i \in 1 .. Len(jobs) : ~Conflicts(s, jobs[i])
  BY <1>1 DEF Overtakes, s
<1>7. PICK h : Runs(disk, s, h) /\ LeadsAll(h, jobs, e)
  BY <1>2, <1>3, <1>5, <1>6, OvertakeAll DEF s
<1>8. disk' = h /\ PositionsDistinct(h)
  BY <1>1, <1>7 DEF Runs, Ok, s
<1>9. LeadsAll(disk', jobs', e) /\ Agree(db', clock', e) /\ PositionsDistinct(disk')
  BY <1>1, <1>3, <1>7, <1>8
<1> QED
  BY <1>1, <1>9 DEF SyncInv, Foreseen

\* The list can be walked.
LEMMA WalkListSync ==
  ASSUME PInv, SyncInv, ~astray', WalkList
  PROVE  FALSE
<1>1. Up /\ IterPanics(db) /\ ~astray
  BY DEF WalkList
<1>2. PICK own, e : clock \in Nat /\ Agree(db, clock, e)
  BY <1>1, SyncFacts
<1>3. Good(db, clock, AllTitles) /\ FavsLive(db)
  BY <1>2, AgreeFacts
<1> QED
  BY <1>1, <1>2, <1>3, SoundWalk

\* The next statement of a task does what was foreseen, though others have yet to run.
LEMMA RunStatementSync ==
  ASSUME PInv, ReadInv, SyncInv, ~astray', NEW i \in DOMAIN jobs, RunStatement(i)
  PROVE  SyncInv'
<1> DEFINE s == Head(jobs[i])
           r == Exec(disk, s)
<1>1. /\ disk' = r.disk
      /\ jobs' = IF r.ok /\ Len(jobs[i]) > 1 THEN [jobs EXCEPT ![i] = Tail(@)]
                 ELSE S!RemoveAt(jobs, i)
      /\ UNCHANGED << db, clock, phase >>
      /\ ~astray /\ ~Overtakes(s, i - 1)
  BY DEF RunStatement, Committed
<1> SUFFICES ASSUME phase # "down", ~db.panicked
             PROVE  Foreseen'
  BY <1>1 DEF SyncInv
<1>2. Foreseen
  BY <1>1 DEF SyncInv
<1>3. PICK m, e : /\ LeadsAll(disk, jobs, m)
                  /\ IF phase = "merging" THEN Runs(m, MergeStatement, e) ELSE m = e
                  /\ Agree(db, clock, e)
  BY <1>2 DEF Foreseen
<1>4. PICK own : Kept(own, clock, db, disk, jobs, theirs)
  BY KeptFacts
<1> DEFINE T == Statement(clock, own)
<1>5. jobs \in Seq(Seq(T) \ {<< >>})
  BY <1>4 DEF Kept, Task
<1> HIDE DEF T
<1>6. i \in 1 .. Len(jobs) /\ Len(jobs[i]) \in Nat
  <2>1. jobs[i] \in Seq(T)
    BY <1>5
  <2> QED
    BY <1>5, <2>1
<1>7. \A j \in 1 .. i - 1 : ~Conflicts(s, jobs[j])
  BY <1>1 DEF Overtakes
<1>8. Proper(disk) /\ PositionsDistinct(disk)
  BY <1>2 DEF ReadInv, Foreseen
<1>9. \E h : /\ Runs(disk, s, h)
             /\ Len(jobs[i]) > 1 => LeadsAll(h, [jobs EXCEPT ![i] = Tail(@)], m)
             /\ Len(jobs[i]) <= 1 => LeadsAll(h, S!RemoveAt(jobs, i), m)
  BY <1>3, <1>5, <1>6, <1>7, <1>8, StepLeads
<1>10. PICK h : /\ Runs(disk, s, h)
                /\ Len(jobs[i]) > 1 => LeadsAll(h, [jobs EXCEPT ![i] = Tail(@)], m)
                /\ Len(jobs[i]) <= 1 => LeadsAll(h, S!RemoveAt(jobs, i), m)
  BY <1>9
<1>11. r = Ok(h) /\ PositionsDistinct(h)
  BY <1>10 DEF Runs
<1> HIDE DEF r
<1>12. disk' = h /\ r.ok
  BY <1>1, <1>11 DEF Ok
<1>13. LeadsAll(disk', jobs', m)
  <2>1. CASE Len(jobs[i]) > 1
    BY <1>1, <1>10, <1>12, <2>1
  <2>2. CASE Len(jobs[i]) <= 1
    <3>1. ~(Len(jobs[i]) > 1)
      BY <1>6, <2>2
    <3> QED
      BY <1>1, <1>10, <1>12, <2>2, <3>1
  <2> QED
    BY <1>6, <2>1, <2>2
<1>14. MergeStatement' = MergeStatement
  BY <1>1 DEF MergeStatement
<1>15. /\ IF phase' = "merging" THEN Runs(m, MergeStatement', e) ELSE m = e
       /\ Agree(db', clock', e) /\ PositionsDistinct(disk')
  BY <1>1, <1>3, <1>11, <1>12, <1>14
<1> QED
  BY <1>13, <1>15 DEF Foreseen

\* The clock is the only thing the second instance's handlers touch.
LEMMA OtherActsSync ==
  ASSUME PInv, SyncInv, OtherActs
  PROVE  SyncInv'
<1>1. /\ UNCHANGED << db, disk, jobs, phase, astray >>
      /\ clock' = clock \/ clock' = clock + 1
  BY DEF OtherActs, Tick, Now
<1> SUFFICES ASSUME phase # "down", ~astray, ~db.panicked
             PROVE  Foreseen'
  BY <1>1 DEF SyncInv
<1>2. PICK m, e : /\ LeadsAll(disk, jobs, m)
                  /\ IF phase = "merging" THEN Runs(m, MergeStatement, e) ELSE m = e
                  /\ Agree(db, clock, e) /\ PositionsDistinct(disk)
  BY DEF SyncInv, Foreseen
<1>3. Agree(db, clock', e)
  BY <1>1, <1>2, KeptFacts, WorkingLater DEF Agree
<1>4. MergeStatement' = MergeStatement
  BY <1>1 DEF MergeStatement
<1>5. /\ LeadsAll(disk', jobs', m) /\ Agree(db', clock', e) /\ PositionsDistinct(disk')
      /\ IF phase' = "merging" THEN Runs(m, MergeStatement', e) ELSE m = e
  BY <1>1, <1>2, <1>3, <1>4
<1> QED
  BY <1>5 DEF Foreseen

-----------------------------------------------------------------------------
(* The positions of the favorites                                          *)

\* What climbs from step to step is nowhere below its step.
LEMMA Climbing ==
  ASSUME NEW N \in Nat, NEW g,
         \A i \in 1 .. N : g[i] \in Nat,
         \A i, j \in 1 .. N : i < j => g[i] < g[j]
  PROVE  \A i \in 1 .. N : i - 1 <= g[i]
<1> DEFINE T == {i \in 1 .. N : ~(i - 1 <= g[i])}
<1>1. SUFFICES ASSUME T # {} PROVE FALSE
  OBVIOUS
<1>2. PICK m \in T : \A k \in T : m <= k
  <2>1. T \in SUBSET Nat
    OBVIOUS
  <2> HIDE DEF T
  <2> QED
    BY <1>1, <2>1, LeastNatural
<1>3. m \in 1 .. N /\ g[m] \in Nat /\ g[m] < m - 1
  OBVIOUS
<1>4. m # 1 /\ m - 1 \in 1 .. N /\ m - 1 < m
  BY <1>3
<1>5. g[m - 1] < g[m] /\ g[m - 1] \in Nat
  BY <1>3, <1>4
<1>6. g[m - 1] < (m - 1) - 1
  BY <1>3, <1>5
<1>7. ~((m - 1) - 1 <= g[m - 1])
  BY <1>4, <1>5, <1>6
<1>8. m - 1 \in T
  BY <1>4, <1>7
<1>9. m <= m - 1
  BY <1>2, <1>8
<1> QED
  BY <1>3, <1>9

\* What climbs and stays below the number of its steps goes up by ones.
LEMMA ClimbingByOnes ==
  ASSUME NEW N \in Nat, NEW g,
         \A i \in 1 .. N : g[i] \in Nat /\ g[i] <= N - 1,
         \A i, j \in 1 .. N : i < j => g[i] < g[j]
  PROVE  \A i \in 1 .. N : g[i] = i - 1
<1> DEFINE h == [i \in 1 .. N |-> (N - 1) - g[(N + 1) - i]]
<1>1. \A i \in 1 .. N : h[i] = (N - 1) - g[(N + 1) - i] /\ (N + 1) - i \in 1 .. N
  OBVIOUS
<1> HIDE DEF h
<1>2. \A i \in 1 .. N : i - 1 <= g[i]
  BY Climbing
<1>3. \A i \in 1 .. N : h[i] \in Nat
  BY <1>1
<1>4. ASSUME NEW i \in 1 .. N, NEW j \in 1 .. N, i < j
      PROVE  h[i] < h[j]
  <2>1. (N + 1) - j < (N + 1) - i
    BY <1>4
  <2>2. g[(N + 1) - j] < g[(N + 1) - i]
    BY <1>1, <2>1
  <2> QED
    BY <1>1, <2>2
<1>5. \A i \in 1 .. N : i - 1 <= h[i]
  BY <1>3, <1>4, Climbing
<1>6. ASSUME NEW i \in 1 .. N
      PROVE  g[i] = i - 1
  <2> DEFINE j == (N + 1) - i
  <2>1. j \in 1 .. N /\ (N + 1) - j = i
    OBVIOUS
  <2>2. j - 1 <= h[j] /\ h[j] = (N - 1) - g[i]
    BY <1>1, <1>5, <2>1
  <2>3. j - 1 = N - i
    OBVIOUS
  <2> HIDE DEF j
  <2>4. N - i <= (N - 1) - g[i]
    BY <2>2, <2>3
  <2>5. i - 1 <= g[i] /\ g[i] \in Nat
    BY <1>2
  <2> QED
    BY <2>4, <2>5
<1> QED
  BY <1>6

\* The rows in their order, where no position is taken twice.
LEMMA PositionsClimb ==
  ASSUME NEW d, NEW n \in Nat, NEW own, DiskOK(d, n, own), PositionsDistinct(d)
  PROVE  /\ Len(FavRows(d)) \in Nat /\ DOMAIN FavRows(d) = 1 .. Len(FavRows(d))
         /\ \A i \in 1 .. Len(FavRows(d)) :
              FavRows(d)[i] \in DOMAIN d.favs /\ d.favs[FavRows(d)[i]].position \in Nat
         /\ \A i, j \in 1 .. Len(FavRows(d)) :
              i < j => d.favs[FavRows(d)[i]].position < d.favs[FavRows(d)[j]].position
<1> DEFINE rows == FavRows(d)
           P(i) == d.favs[rows[i]].position
<1>1. /\ rows \in Seq(DOMAIN d.favs) /\ OnceEach(rows)
      /\ \A i, j \in DOMAIN rows : i < j => P(i) <= P(j)
  BY FavRowsListFavs
<1> HIDE DEF rows
<1>2. /\ Len(rows) \in Nat /\ DOMAIN rows = 1 .. Len(rows)
      /\ \A i \in 1 .. Len(rows) : rows[i] \in DOMAIN d.favs
  BY <1>1
<1>3. \A x \in DOMAIN d.favs : d.favs[x].position \in Nat
  BY DEF DiskOK, IsMap, FavRow
<1>4. ASSUME NEW i \in 1 .. Len(rows), NEW j \in 1 .. Len(rows), i < j
      PROVE  P(i) < P(j)
  <2>1. P(i) <= P(j) /\ P(i) \in Nat /\ P(j) \in Nat
    BY <1>1, <1>2, <1>3, <1>4
  <2>2. rows[i] # rows[j]
    BY <1>1, <1>2, <1>4 DEF OnceEach
  <2>3. P(i) # P(j)
    BY <1>2, <2>2 DEF PositionsDistinct
  <2> QED
    BY <2>1, <2>3
<1> QED
  BY <1>2, <1>3, <1>4 DEF rows

\* A list that reload accepts is numbered without gap, and loaded as it is.
LEMMA LoadedInOrder ==
  ASSUME NEW d, NEW n \in Nat, NEW own, DiskOK(d, n, own), PositionsDistinct(d), FavsLoadable(d)
  PROVE  /\ \A i \in DOMAIN FavRows(d) : d.favs[FavRows(d)[i]].position = i - 1
         /\ LoadedFavs(d) = FavRows(d)
<1> DEFINE rows == FavRows(d)
           N == Len(rows)
           g == [i \in 1 .. N |-> d.favs[rows[i]].position]
<1>1. /\ N \in Nat /\ DOMAIN rows = 1 .. N
      /\ \A i \in 1 .. N : d.favs[rows[i]].position \in Nat
      /\ \A i, j \in 1 .. N : i < j => d.favs[rows[i]].position < d.favs[rows[j]].position
  BY PositionsClimb
<1>2. \A i \in 1 .. N : d.favs[rows[i]].position <= i - 1
  BY <1>1 DEF FavsLoadable
<1> HIDE DEF rows, N
<1>3. \A i \in 1 .. N : g[i] = d.favs[rows[i]].position
  OBVIOUS
<1> HIDE DEF g
<1>4. \A i \in 1 .. N : i - 1 <= g[i]
  BY <1>1, <1>3, Climbing
<1>5. \A i \in 1 .. N : d.favs[rows[i]].position = i - 1
  BY <1>1, <1>2, <1>3, <1>4
<1>6. \A i \in DOMAIN FavRows(d) : d.favs[FavRows(d)[i]].position = i - 1
  BY <1>1, <1>5 DEF rows
<1> QED
  BY <1>6, LoadedFavsListFavs

\* A start that succeeds finds in the file what it then holds in memory.
LEMMA LoadedAgrees ==
  ASSUME NEW d, NEW n \in Nat, NEW own, DiskOK(d, n, own), PositionsDistinct(d),
         NEW st \in Loaded(d), ~st.panicked
  PROVE  Agree(st, n, d)
<1> DEFINE a == WithFavs(EmptyStore, d)
           b == WithEntries(a, d)
           c == WithContents(b, d)
<1>1. FavsLoadable(d)
  BY DEF Loaded, Panic, EmptyStore
<1>2. PICK h \in HashIndexes(c) : st = [c EXCEPT !.hashs = h]
  BY <1>1 DEF Loaded
<1>3. /\ DOMAIN a = Fields /\ a.favs = LoadedFavs(d) /\ a.favSet = DOMAIN d.favs
      /\ a.titles = [id \in DOMAIN d.favs |-> d.favs[id].title]
  BY DEF WithFavs, EmptyStore, Fields
<1> HIDE DEF a
<1>4. /\ DOMAIN b = Fields /\ b.favs = a.favs /\ b.favSet = a.favSet /\ b.titles = a.titles
      /\ DOMAIN b.entries = DOMAIN d.rows
      /\ \A id \in DOMAIN d.rows :
           b.entries[id] = [creation |-> d.rows[id], content |-> Blank,
                            is_favorite |-> id \in a.favSet,
                            favorite_title |-> IF id \in a.favSet THEN a.titles[id] ELSE None]
  BY <1>3 DEF WithEntries, Fields
<1> HIDE DEF b
<1>5. \A id \in DOMAIN d.rows : /\ b.entries[id].creation = d.rows[id]
                                /\ b.entries[id].content = Blank
                                /\ "content" \in DOMAIN b.entries[id]
  <2> SUFFICES ASSUME NEW id \in DOMAIN d.rows
               PROVE  /\ b.entries[id].creation = d.rows[id]
                      /\ b.entries[id].content = Blank
                      /\ "content" \in DOMAIN b.entries[id]
    OBVIOUS
  <2> DEFINE fav == id \in a.favSet
             called == IF fav THEN a.titles[id] ELSE None
             t == d.rows[id]
             y == b.entries[id]
  <2>1. y = [creation |-> t, content |-> Blank, is_favorite |-> fav, favorite_title |-> called]
    BY <1>4
  <2> HIDE DEF fav, called, t, y
  <2>2. y.creation = t /\ y.content = Blank /\ "content" \in DOMAIN y
    BY <2>1
  <2> QED
    BY <2>2 DEF t, y
<1>6. /\ DOMAIN c = Fields /\ c.favs = b.favs /\ c.favSet = b.favSet /\ c.titles = b.titles
      /\ DOMAIN c.entries = DOMAIN d.rows
      /\ \A id \in DOMAIN d.rows :
           c.entries[id] = IF id \in DOMAIN d.contents
                             THEN [b.entries[id] EXCEPT !.content = d.contents[id]]
                             ELSE b.entries[id]
  BY <1>4 DEF WithContents, Fields
<1> HIDE DEF c
<1>7. \A id \in DOMAIN d.rows : /\ c.entries[id].creation = d.rows[id]
                                /\ c.entries[id].content = ContentIn(d, id)
  <2> SUFFICES ASSUME NEW id \in DOMAIN d.rows
               PROVE  /\ c.entries[id].creation = d.rows[id]
                      /\ c.entries[id].content = ContentIn(d, id)
    OBVIOUS
  <2> DEFINE y == b.entries[id]
  <2>1. y.creation = d.rows[id] /\ y.content = Blank /\ "content" \in DOMAIN y
    BY <1>5
  <2>2. c.entries[id] = IF id \in DOMAIN d.contents THEN [y EXCEPT !.content = d.contents[id]]
                        ELSE y
    BY <1>6
  <2> HIDE DEF y
  <2> QED
    BY <2>1, <2>2 DEF ContentIn
<1>8. /\ st.favs = c.favs /\ st.favSet = c.favSet /\ st.titles = c.titles /\ st.entries = c.entries
  BY <1>2, <1>6 DEF Fields
<1>9. /\ LoadedFavs(d) = FavRows(d)
      /\ \A i \in DOMAIN FavRows(d) : d.favs[FavRows(d)[i]].position = i - 1
  BY <1>1, LoadedInOrder
<1>10. Range(FavRows(d)) = DOMAIN d.favs /\ OnceEach(FavRows(d))
  BY FavRowsListFavs
<1>11. /\ DOMAIN d = Tables /\ DOMAIN d.contents \subseteq DOMAIN d.rows
       /\ DOMAIN d.favs \subseteq DOMAIN d.rows
       /\ \A id \in DOMAIN d.favs : d.favs[id] \in FavRow
  BY DEF DiskOK, Tables, IsMap
<1>12. Same(st, d)
  BY <1>3, <1>4, <1>6, <1>7, <1>8, <1>9, <1>11 DEF Same
<1>13. Working(st, n)
  BY LoadedWorks
<1>14. Sound(st)
  <2>1. FavsLive(st)
    BY <1>3, <1>4, <1>6, <1>8, <1>9, <1>10, <1>11 DEF FavsLive
  <2> QED
    BY <1>13, <2>1 DEF Sound, Working
<1> QED
  BY <1>12, <1>13, <1>14 DEF Agree

LEMMA PrunedDistinct ==
  ASSUME NEW d, PositionsDistinct(d), NEW now
  PROVE  PositionsDistinct(PrunedByNumber(PrunedByAge(d, now)))
<1> DEFINE a == PrunedByAge(d, now)
<1>1. PositionsDistinct(a)
  BY DeleteRowsCuts DEF PrunedByAge
<1> HIDE DEF a
<1>2. PositionsDistinct(PrunedByNumber(a))
  BY <1>1, DeleteRowsCuts DEF PrunedByNumber
<1> QED
  BY <1>2 DEF a

LEMMA RestartSync ==
  ASSUME PInv, ReadInv, Restart
  PROVE  SyncInv'
<1>1. /\ phase = "down" /\ phase' = "idle" /\ db' \in Loaded(disk')
      /\ UNCHANGED << clock, jobs >> /\ astray' = ~PositionsDistinct(disk')
      /\ \E now \in Now .. MaxTime + 2 : disk' = PrunedByNumber(PrunedByAge(disk, now))
  BY DEF Restart
<1>2. jobs' = << >>
  BY <1>1 DEF ReadInv
<1>3. PICK own : Kept(own, clock, db, disk, jobs, theirs)
  BY KeptFacts
<1>4. DiskOK(disk', clock, own) /\ clock \in Nat
  BY <1>1, <1>3, KeptFacts, PrunedKeepsDisk DEF Kept
<1>5. ASSUME ~db'.panicked, PositionsDistinct(disk')
      PROVE  LeadsAll(disk', jobs', disk') /\ Agree(db', clock', disk')
  BY <1>1, <1>2, <1>4, <1>5, LoadedAgrees, NoneLeads
<1> QED
  BY <1>1, <1>5 DEF SyncInv, Foreseen

\* A reload that nothing crossed makes memory what a start would make it.
LEMMA ReadContentsSync ==
  ASSUME PInv, ReadInv, ReadContents
  PROVE  SyncInv'
<1> DEFINE with == WithContents(db, disk)
<1> SUFFICES ASSUME ~astray', ~db'.panicked
             PROVE  Foreseen'
  BY DEF SyncInv
<1>1. /\ phase = "contents" /\ phase' = "idle" /\ ~db.panicked
      /\ jobs = << >> /\ ~moved /\ PositionsDistinct(disk)
      /\ UNCHANGED << clock, disk, jobs >>
      /\ db' = Panic(db) \/ \E h \in HashIndexes(with) : db' = Search([with EXCEPT !.hashs = h])
  BY DEF ReadContents, Reread
<1>2. FavsLoadable(disk) /\ db = WithEntries(WithFavs(EmptyStore, disk), disk)
  BY <1>1 DEF ReadInv
<1>3. PICK own : Kept(own, clock, db, disk, jobs, theirs)
  BY KeptFacts
<1>4. DiskOK(disk, clock, own) /\ clock \in Nat /\ DOMAIN db = Fields
  BY <1>3, KeptFacts, WorkingFields DEF Kept
<1>5. Panic(db).panicked
  BY <1>4 DEF Panic, Fields
<1>6. PICK h \in HashIndexes(with) : db' = Search([with EXCEPT !.hashs = h])
  BY <1>1, <1>5
<1> DEFINE st == [with EXCEPT !.hashs = h]
<1>7. st \in Loaded(disk)
  BY <1>2 DEF Loaded
<1>8. st.panicked = db.panicked
  BY <1>4 DEF WithContents, Fields
<1> HIDE DEF st, with
<1>9. Agree(st, clock, disk)
  BY <1>1, <1>4, <1>7, <1>8, LoadedAgrees
<1>10. db' = Search(st)
  BY <1>6 DEF st
<1>11. Same(db', disk) /\ Working(db', clock)
  BY <1>4, <1>9, <1>10, WorkingFields, SearchSame, SearchWorks DEF Agree
<1>12. FavsLive(db')
  <2>1. /\ Search(st).entries = st.entries /\ Search(st).favs = st.favs
        /\ Search(st).favSet = st.favSet
    BY <1>9, WorkingFields DEF Agree, Search, Panic, Fields
  <2> QED
    BY <1>9, <1>10, <2>1 DEF Agree, Sound, FavsLive
<1>13. Agree(db', clock, disk)
  BY <1>11, <1>12 DEF Agree, Sound, Working
<1>14. LeadsAll(disk', jobs', disk') /\ Agree(db', clock', disk') /\ PositionsDistinct(disk')
  BY <1>1, <1>13, NoneLeads
<1> QED
  BY <1>1, <1>14 DEF Foreseen

\* What leaves memory and the tables apart is remembered.
LEMMA AstraySync ==
  ASSUME ReadInv,
         \/ StartReload \/ ReadFavs \/ ReadEntries \/ ReadFails
         \/ MergeFails \/ OtherRuns \/ Crash \/ Exit
         \/ \E i \in DOMAIN jobs : TaskFails(i)
  PROVE  SyncInv'
<1>1. StartReload \/ MergeFails \/ OtherRuns \/ (\E i \in DOMAIN jobs : TaskFails(i)) => astray'
  BY DEF StartReload, MergeFails, OtherRuns, TaskFails
<1>2. ReadFavs \/ ReadEntries \/ ReadFails => astray'
  BY DEF ReadFavs, ReadEntries, ReadFails, ReadInv, Selecting
<1>3. Crash \/ Exit => phase' = "down"
  BY DEF Crash, Exit
<1> QED
  BY <1>1, <1>2, <1>3 DEF SyncInv

LEMMA NextSync ==
  ASSUME PInv, ReadInv, SyncInv, [Next]_vars
  PROVE  SyncInv'
<1>1. CASE UNCHANGED vars
  BY <1>1 DEF vars, others, SyncInv, Foreseen, MergeStatement
<1>2. CASE astray'
  BY <1>2 DEF SyncInv
<1>3. CASE Handlers /\ ~astray'
  BY <1>3, CopySync, SelectionToFavoriteSync, EditInPlaceSync, EditMergesSync, DeleteSync,
     ConfirmFavoriteSync, RemoveFavoriteSync, ClearHistorySync, WalkListSync
     DEF Handlers
<1>4. ASSUME NEW i \in DOMAIN jobs, RunStatement(i), ~astray'
      PROVE  SyncInv'
  BY <1>4, RunStatementSync
<1>5. CASE MergeBumps /\ ~astray'
  BY <1>5, MergeBumpsSync
<1>6. CASE OtherActs
  BY <1>6, OtherActsSync
<1>7. CASE ReadContents \/ Restart
  BY <1>7, ReadContentsSync, RestartSync
<1> QED
  BY <1>1, <1>2, <1>3, <1>4, <1>5, <1>6, <1>7, AstraySync DEF Next, Reload

\* Where no task is left, the tables mirror memory.
LEMMA SameMirrors ==
  ASSUME NEW n \in Nat, NEW own, DiskOK(disk, n, own), Agree(db, n, disk)
  PROVE  Mirrors
<1> DEFINE rows == FavRows(disk)
           N == Len(rows)
           g == [i \in 1 .. N |-> disk.favs[rows[i]].position]
<1>1. /\ PositionsDistinct(disk) /\ DOMAIN disk.rows = DOMAIN db.entries
      /\ DOMAIN disk.favs = db.favSet /\ db.favSet \subseteq DOMAIN db.entries
      /\ Good(db, n, AllTitles) /\ FavsLive(db) /\ db.favs \in Seq(1 .. n)
  BY AgreeFacts
<1>2. Same(db, disk)
  BY DEF Agree
<1>3. /\ N \in Nat /\ DOMAIN rows = 1 .. N
      /\ \A i \in 1 .. N : /\ rows[i] \in DOMAIN disk.favs
                           /\ disk.favs[rows[i]].position \in Nat
      /\ \A i, j \in 1 .. N : i < j => disk.favs[rows[i]].position < disk.favs[rows[j]].position
  BY <1>1, PositionsClimb
<1>4. N = Len(db.favs)
  <2>1. N = Cardinality(db.favSet)
    BY <1>1, FavRowsListFavs
  <2>2. Cardinality(Range(db.favs)) = Len(db.favs)
    BY <1>1, LengthOnce DEF FavsLive
  <2> QED
    BY <1>1, <2>1, <2>2 DEF FavsLive
<1>5. LoadedFavs(disk) = rows \/ ~(\A i \in DOMAIN rows : disk.favs[rows[i]].position = i - 1)
      \/ ~FavsLoadable(disk)
  BY LoadedFavsListFavs
<1> HIDE DEF rows
<1>6. DOMAIN db.favs = 1 .. N
  BY <1>1, <1>4
<1> HIDE DEF N
<1>7. \A i \in 1 .. N : g[i] = disk.favs[rows[i]].position
  OBVIOUS
<1> HIDE DEF g
<1>8. ASSUME NEW i \in 1 .. N
      PROVE  disk.favs[rows[i]].position <= N - 1
  <2>1. rows[i] \in Range(db.favs)
    BY <1>1, <1>3 DEF FavsLive
  <2>2. PICK j \in 1 .. N : db.favs[j] = rows[i]
    BY <1>6, <2>1 DEF Range
  <2>3. disk.favs[rows[i]].position = j - 1
    BY <1>2, <1>6, <2>2 DEF Same
  <2>4. j - 1 <= N - 1
    BY <1>3
  <2> QED
    BY <2>3, <2>4
<1>9. \A i \in 1 .. N : g[i] = i - 1
  BY <1>3, <1>7, <1>8, ClimbingByOnes
<1>10. \A i \in DOMAIN rows : disk.favs[rows[i]].position = i - 1
  BY <1>3, <1>7, <1>9
<1>11. FavsLoadable(disk)
  <2>1. \A i \in DOMAIN rows : disk.favs[rows[i]].position <= i - 1
    BY <1>3, <1>10
  <2> QED
    BY <2>1 DEF FavsLoadable, rows
<1>12. db.favs = rows
  <2>1. \A i \in 1 .. N : db.favs[i] = rows[i]
    <3> SUFFICES ASSUME NEW i \in 1 .. N
                 PROVE  db.favs[i] = rows[i]
      OBVIOUS
    <3>1. disk.favs[db.favs[i]].position = i - 1 /\ db.favs[i] \in DOMAIN disk.favs
      BY <1>1, <1>2, <1>6 DEF Same, FavsLive, Range
    <3>2. disk.favs[rows[i]].position = i - 1 /\ rows[i] \in DOMAIN disk.favs
      BY <1>3, <1>10
    <3> QED
      BY <1>1, <3>1, <3>2 DEF PositionsDistinct
  <2>2. rows \in Seq(DOMAIN disk.favs)
    BY FavRowsListFavs DEF rows
  <2> DEFINE U == (1 .. n) \cup DOMAIN disk.favs
             f == db.favs
  <2>3. f \in Seq(U) /\ rows \in Seq(U) /\ Len(f) = N /\ Len(rows) = N
    BY <1>1, <1>4, <2>2 DEF N
  <2>4. \A i \in 1 .. Len(f) : f[i] = rows[i]
    BY <2>1, <2>3
  <2> HIDE DEF U, f
  <2>5. f = rows
    BY <2>3, <2>4, SameSequence
  <2> QED
    BY <2>5 DEF f
<1>13. db.favs = LoadedFavs(disk)
  BY <1>5, <1>10, <1>11, <1>12
<1>14. ASSUME NEW id \in Live
       PROVE  LET e == db.entries[id]
              IN  /\ e.creation = disk.rows[id]
                  /\ e.content = IF id \in DOMAIN disk.contents THEN disk.contents[id] ELSE Blank
                  /\ e.is_favorite <=> id \in DOMAIN disk.favs
                  /\ e.is_favorite => e.favorite_title = disk.favs[id].title
  <2>1. id \in DOMAIN db.entries
    BY DEF Live
  <2>2. /\ db.entries[id].creation = disk.rows[id]
        /\ db.entries[id].content = ContentIn(disk, id)
    BY <1>2, <2>1 DEF Same
  <2>3. /\ db.entries[id].is_favorite <=> id \in db.favSet
        /\ id \in db.favSet => db.entries[id].favorite_title = db.titles[id]
    BY <1>1, <2>1 DEF Good, FavsGood
  <2>4. id \in db.favSet => db.titles[id] = disk.favs[id].title
    BY <1>2 DEF Same
  <2> QED
    BY <1>1, <2>2, <2>3, <2>4 DEF ContentIn
<1> QED
  BY <1>1, <1>11, <1>13, <1>14 DEF Mirrors, Live

\* What persist_op does to the tables is what the operation did to memory: when the
\* last task is done the file holds the very history memory shows, in its order,
\* favorites and titles included, for any number of entries, operations, crashes,
\* restarts and reloads, and for any order of tasks that concern different entries.
\* What breaks the agreement is therefore a statement that overtakes one about the
\* same entry or about positions, a fault, a second instance, a reload something
\* crossed, or the deletion of a favorite.
THEOREM InSyncHolds == Spec => []InSync
<1>1. Init => ReadInv /\ SyncInv
  <2> SUFFICES ASSUME Init PROVE ReadInv /\ SyncInv
    OBVIOUS
  <2>1. phase = "idle" /\ jobs = << >> /\ disk = EmptyDisk /\ db = EmptyStore /\ clock = 0
    BY DEF Init
  <2>2. PositionsDistinct(disk)
    BY <2>1 DEF PositionsDistinct, EmptyDisk, Empty
  <2>3. Same(db, disk)
    BY <2>1 DEF Same, EmptyDisk, EmptyStore, Empty, Tables
  <2>4. Working(db, clock)
    BY <2>1, EmptyReloading
  <2>5. FavsLive(db)
    BY <2>1 DEF FavsLive, EmptyStore, Empty, Range, OnceEach
  <2>6. Agree(db, clock, disk)
    BY <2>1, <2>3, <2>4, <2>5 DEF Agree, Sound, Working, EmptyStore
  <2>7. Proper(EmptyDisk)
    BY DEF Proper, EmptyDisk, Empty, Tables, IsFunction, Placed
  <2>8. ReadInv
    BY <2>1, <2>7 DEF ReadInv, Selecting
  <2> QED
    BY <2>1, <2>2, <2>6, <2>8, NoneLeads DEF SyncInv, Foreseen
<1>2. PInv /\ ReadInv /\ SyncInv /\ [Next]_vars => (ReadInv /\ SyncInv)'
  BY NextRead, NextSync
<1>3. PInv /\ ReadInv /\ SyncInv => InSync
  <2> SUFFICES ASSUME PInv, SyncInv, Up, jobs = << >>, ~astray
               PROVE  Mirrors
    BY DEF InSync
  <2>1. PICK own, e : /\ clock \in Nat /\ DiskOK(disk, clock, own)
                      /\ LeadsAll(disk, jobs, e) /\ Agree(db, clock, e)
    BY SyncFacts
  <2>2. e = disk
    BY <2>1, NoneLeads
  <2> QED
    BY <2>1, <2>2, SameMirrors
<1> QED
  BY <1>1, <1>2, <1>3, PInvHolds, PTL DEF Spec

-----------------------------------------------------------------------------
(* Without favorites                                                       *)

\* No favorite in memory, in the file or on its way to it.
StarlessStore(st) == st.favs = << >> /\ st.favSet = {}

\* A task that stars nothing.
Plain(t) == \A k \in DOMAIN t : t[k].do # "InsertFavorite"

AllPlain(js) == \A i \in DOMAIN js : Plain(js[i])

Starless ==
  StarlessStore(db) /\ DOMAIN disk.favs = {} /\ AllPlain(jobs) /\ Plain(theirs)

\* The operations that concern no favorite.
PlainTypes == {"UpdateTimestamp", "InsertNew", "Delete", "ClearNonFavorites", "UpdateContent"}

\* What the first statement of each of them is.
Leader(op) ==
  CASE op.type = "UpdateTimestamp" -> [do |-> "SetCreation", id |-> op.id, time |-> op.new_time]
    [] op.type = "InsertNew" -> [do |-> "InsertEntry", id |-> op.id, time |-> op.time]
    [] op.type = "Delete" -> [do |-> "DeleteEntry", id |-> op.id]
    [] op.type = "ClearNonFavorites" -> [do |-> "DeleteNonFavorites"]
    [] op.type = "UpdateContent" -> [do |-> "DeleteContent", id |-> op.id]

LEMMA OnlyOne ==
  ASSUME NEW s, s.do # "InsertFavorite"
  PROVE  Plain(<< s >>) /\ << s >>[1] = s
  BY DEF Plain

LEMMA PlainStatements ==
  ASSUME NEW n \in Nat, NEW own, Owner(n, own), NEW op \in Operation(n, own),
         op.type \in PlainTypes
  PROVE  /\ Plain(Statements(op)) /\ Statements(op)[1] = Leader(op)
         /\ op.type = "UpdateContent" =>
              /\ Len(Statements(op)) > 1
              /\ Statements(op)[2].do = "InsertContent" /\ Statements(op)[2].id = op.id
<1>1. CASE op.type = "UpdateTimestamp"
  <2> DEFINE s == [do |-> "SetCreation", id |-> op.id, time |-> op.new_time]
  <2>1. Statements(op) = << s >> /\ Leader(op) = s
    BY <1>1 DEF Statements, Leader
  <2>2. s.do # "InsertFavorite"
    OBVIOUS
  <2> HIDE DEF s
  <2> QED
    BY <1>1, <2>1, <2>2, OnlyOne
<1>2. CASE op.type = "InsertNew"
  <2>1. PICK t \in 1 .. n, c \in Copyable, gone \in SUBSET (1 .. n) :
          op = [type |-> "InsertNew", id |-> own[t], time |-> t, data |-> c, evictions |-> gone]
    BY <1>2 DEF Operation
  <2> DEFINE a == [do |-> "InsertEntry", id |-> own[t], time |-> t]
             b == [do |-> "InsertContent", id |-> own[t], data |-> c]
             T == {[do |-> "DeleteEntry", id |-> id] : id \in gone}
             U == {s \in Statement(n, own) : s.do # "InsertFavorite"}
  <2>2. Statements(op) = << a, b >> \o S!SetToSeq(T) /\ Leader(op) = a
    BY <1>2, <2>1 DEF Statements, Leader
  <2>3. own[t] \in 1 .. n
    BY DEF Owner
  <2>4. a \in U
    BY DEF Statement
  <2>5. b \in U
    BY <2>3 DEF Statement
  <2>6. T \subseteq U
    <3>1. T \subseteq Statement(n, own)
      BY DEF Statement
    <3>2. \A s \in T : s.do # "InsertFavorite"
      OBVIOUS
    <3> QED
      BY <3>1, <3>2
  <2>7. IsFiniteSet(T)
    <3> DEFINE f == [id \in gone |-> [do |-> "DeleteEntry", id |-> id]]
    <3>1. IsFiniteSet(gone)
      <4>1. IsFiniteSet(1 .. n)
        BY FS_Interval
      <4> QED
        BY <4>1, FS_Subset
    <3>2. f \in Surjection(gone, T)
      BY DEF Surjection
    <3> HIDE DEF f, T
    <3> QED
      BY <3>1, <3>2, FS_Surjection
  <2>8. \A s \in U : s.do # "InsertFavorite"
    OBVIOUS
  <2> HIDE DEF a, b, T, U
  <2>9. S!SetToSeq(T) \in Seq(U)
    BY <2>6, <2>7, ListedSet
  <2> DEFINE p == << a, b >>
             z == S!SetToSeq(T)
             r == p \o z
  <2>10. p \in Seq(U) /\ Len(p) = 2 /\ p[1] = a
    BY <2>4, <2>5
  <2> HIDE DEF p, z
  <2>11. /\ Len(r) = Len(p) + Len(z) /\ DOMAIN r = 1 .. Len(p) + Len(z)
         /\ \A i \in 1 .. Len(p) + Len(z) : r[i] = IF i <= Len(p) THEN p[i] ELSE z[i - Len(p)]
    BY <2>9, <2>10, Joined DEF z
  <2>12. r \in Seq(U)
    BY <2>9, <2>10, JoinTyped DEF z
  <2> HIDE DEF r
  <2>13. Len(z) \in Nat
    BY <2>9 DEF z
  <2>14. r[1] = a
    <3>1. 1 \in 1 .. Len(p) + Len(z) /\ 1 <= Len(p)
      BY <2>10, <2>13
    <3> QED
      BY <2>10, <2>11, <3>1
  <2>15. Plain(r)
    BY <2>8, <2>12 DEF Plain
  <2> QED
    BY <1>2, <2>2, <2>14, <2>15 DEF r, p, z
<1>3. CASE op.type = "Delete"
  <2> DEFINE s == [do |-> "DeleteEntry", id |-> op.id]
  <2>1. Statements(op) = << s >> /\ Leader(op) = s
    BY <1>3 DEF Statements, Leader
  <2>2. s.do # "InsertFavorite"
    OBVIOUS
  <2> HIDE DEF s
  <2> QED
    BY <1>3, <2>1, <2>2, OnlyOne
<1>4. CASE op.type = "ClearNonFavorites"
  <2> DEFINE s == [do |-> "DeleteNonFavorites"]
  <2>1. Statements(op) = << s >> /\ Leader(op) = s
    BY <1>4 DEF Statements, Leader
  <2>2. s.do # "InsertFavorite"
    OBVIOUS
  <2> HIDE DEF s
  <2> QED
    BY <1>4, <2>1, <2>2, OnlyOne
<1>5. CASE op.type = "UpdateContent"
  <2> DEFINE a == [do |-> "DeleteContent", id |-> op.id]
             b == [do |-> "InsertContent", id |-> op.id, data |-> op.data]
             z == [do |-> "SetCreation", id |-> op.id, time |-> op.new_time]
  <2>1. Statements(op) = << a, b, z >> /\ Leader(op) = a
    BY <1>5 DEF Statements, Leader
  <2>2. a.do # "InsertFavorite" /\ b.do # "InsertFavorite" /\ z.do # "InsertFavorite"
        /\ b.do = "InsertContent" /\ b.id = op.id
    OBVIOUS
  <2> HIDE DEF a, b, z
  <2>3. Plain(<< a, b, z >>)
    BY <2>2 DEF Plain
  <2>4. Len(<< a, b, z >>) > 1 /\ << a, b, z >>[1] = a /\ << a, b, z >>[2] = b
    OBVIOUS
  <2> QED
    BY <2>1, <2>2, <2>3, <2>4
<1> QED
  BY <1>1, <1>2, <1>3, <1>4, <1>5 DEF PlainTypes

\* A task among those left is one there was, or what is left of the one that ran.
LEMMA RemovedElements ==
  ASSUME NEW T, NEW s \in Seq(T), NEW i \in 1 .. Len(s)
  PROVE  /\ DOMAIN S!RemoveAt(s, i) = 1 .. Len(s) - 1
         /\ \A k \in 1 .. Len(s) - 1 : S!RemoveAt(s, i)[k] = IF k < i THEN s[k] ELSE s[k + 1]
<1> DEFINE a == SubSeq(s, 1, i - 1)
           z == SubSeq(s, i + 1, Len(s))
           r == a \o z
<1>1. i \in 1 .. Len(s) /\ Len(s) \in Nat
  OBVIOUS
<1>2. S!RemoveAt(s, i) = r
  BY DEF S!RemoveAt
<1>3. /\ a \in Seq(T) /\ Len(a) = i - 1
      /\ \A j \in 1 .. i - 1 : a[j] = s[j]
  BY <1>1
<1>4. /\ z \in Seq(T) /\ Len(z) = Len(s) - i
      /\ \A j \in 1 .. Len(s) - i : z[j] = s[i + j]
  BY <1>1
<1> HIDE DEF a, z
<1>5. /\ DOMAIN r = 1 .. Len(a) + Len(z)
      /\ \A k \in 1 .. Len(a) + Len(z) :
           r[k] = IF k <= Len(a) THEN a[k] ELSE z[k - Len(a)]
  BY <1>3, <1>4, Joined
<1> HIDE DEF r
<1>6. Len(a) + Len(z) = Len(s) - 1
  BY <1>1, <1>3, <1>4
<1>7. ASSUME NEW k \in 1 .. Len(s) - 1
      PROVE  r[k] = IF k < i THEN s[k] ELSE s[k + 1]
  <2>1. CASE k < i
    <3>1. k \in 1 .. i - 1 /\ r[k] = a[k]
      BY <1>1, <1>3, <1>5, <1>6, <2>1
    <3> QED
      BY <1>3, <2>1, <3>1
  <2>2. CASE ~(k < i)
    <3>1. k - Len(a) \in 1 .. Len(s) - i /\ r[k] = z[k - Len(a)]
      BY <1>1, <1>3, <1>5, <1>6, <2>2
    <3>2. i + (k - Len(a)) = k + 1
      BY <1>1, <1>3
    <3> QED
      BY <1>4, <2>2, <3>1, <3>2
  <2> QED
    BY <2>1, <2>2
<1> QED
  BY <1>2, <1>5, <1>6, <1>7

-----------------------------------------------------------------------------
(* What the handlers do to a history without favorites                     *)

\* Entry x stands in new as in st, or in neither.
Alike(st, new, x) ==
  /\ x \in DOMAIN new.entries <=> x \in DOMAIN st.entries
  /\ x \in DOMAIN new.entries => /\ new.entries[x].creation = st.entries[x].creation
                                 /\ new.entries[x].content = st.entries[x].content

LEMMA RefreshPlain ==
  ASSUME NEW st, NEW n \in Nat, Working(st, n), StarlessStore(st),
         NEW id \in DOMAIN st.entries, NEW now
  PROVE  /\ StarlessStore(Refresh(st, id, now).db)
         /\ Refresh(st, id, now).op = [type |-> "UpdateTimestamp", id |-> id, new_time |-> now]
         /\ id \in DOMAIN Refresh(st, id, now).db.entries
         /\ \A x : x # id => Alike(st, Refresh(st, id, now).db, x)
<1> DEFINE b == Bump(st, id, now)
<1>1. st.entries[id].creation \in DOMAIN st.times
  BY DEF Working, Good, TimesGood
<1>2. /\ Refresh(st, id, now).db = Search(b)
      /\ Refresh(st, id, now).op = [type |-> "UpdateTimestamp", id |-> id, new_time |-> now]
  BY <1>1 DEF Refresh
<1>3. /\ DOMAIN b = Fields /\ b.favs = st.favs /\ b.favSet = st.favSet
      /\ DOMAIN b.entries = DOMAIN st.entries
      /\ \A x \in DOMAIN st.entries \ {id} : b.entries[x] = st.entries[x]
  BY WorkingFields, EntryFields, BumpLooks
<1> HIDE DEF b
<1>4. Search(b).entries = b.entries /\ Search(b).favs = b.favs /\ Search(b).favSet = b.favSet
  BY <1>3, SearchLooks
<1> DEFINE new == Search(b)
<1> HIDE DEF new
<1>5. \A x : x # id => Alike(st, new, x)
  BY <1>3, <1>4 DEF Alike, new
<1> QED
  BY <1>2, <1>3, <1>4, <1>5 DEF StarlessStore, new

LEMMA InsertNewPlain ==
  ASSUME NEW st, DOMAIN st = Fields, StarlessStore(st), NEW c, NEW now
  PROVE  /\ StarlessStore(InsertNew(st, c, now).db)
         /\ InsertNew(st, c, now).op.type = "InsertNew" /\ InsertNew(st, c, now).op.id = now
<1> DEFINE g == Grow(st, c, now)
           gone == Evicted(g)
<1>1. DOMAIN g = Fields /\ g.favs = st.favs /\ g.favSet = st.favSet
  BY DEF Grow, Fields
<1>2. /\ InsertNew(st, c, now).db = Search(Unindex(g, gone))
      /\ InsertNew(st, c, now).op.type = "InsertNew" /\ InsertNew(st, c, now).op.id = now
  BY DEF InsertNew
<1> HIDE DEF g, gone
<1> DEFINE u == Unindex(g, gone)
<1>3. DOMAIN u = Fields /\ u.favs = g.favs /\ u.favSet = g.favSet
  BY <1>1, UnindexLooks
<1> HIDE DEF u
<1>4. Search(u).favs = u.favs /\ Search(u).favSet = u.favSet
  BY <1>3, SearchLooks
<1> QED
  BY <1>1, <1>2, <1>3, <1>4 DEF StarlessStore, u

LEMMA DeletePlain ==
  ASSUME NEW st, NEW n \in Nat, Working(st, n), StarlessStore(st), NEW id \in DOMAIN st.entries
  PROVE  /\ StarlessStore(DeleteFromMemory(st, id).db)
         /\ DeleteFromMemory(st, id).op = [type |-> "Delete", id |-> id]
         /\ id \notin DOMAIN DeleteFromMemory(st, id).db.entries
         /\ \A x : x # id => Alike(st, DeleteFromMemory(st, id).db, x)
<1> DEFINE u == Unindex(st, {id})
<1>1. ~IsFavorite(st, id)
  BY DEF IsFavorite, Working, Good, FavsGood, StarlessStore
<1>2. /\ DeleteFromMemory(st, id).db = Search(u)
      /\ DeleteFromMemory(st, id).op = [type |-> "Delete", id |-> id]
  BY <1>1 DEF DeleteFromMemory, Remove
<1>3. /\ DOMAIN u = Fields /\ u.favs = st.favs /\ u.favSet = st.favSet
      /\ DOMAIN u.entries = DOMAIN st.entries \ {id}
      /\ \A x \in DOMAIN st.entries \ {id} : u.entries[x] = st.entries[x]
  BY WorkingFields, UnindexLooks
<1> HIDE DEF u
<1>4. Search(u).entries = u.entries /\ Search(u).favs = u.favs /\ Search(u).favSet = u.favSet
  BY <1>3, SearchLooks
<1> DEFINE new == Search(u)
<1> HIDE DEF new
<1>5. \A x : x # id => Alike(st, new, x)
  BY <1>3, <1>4 DEF Alike, new
<1> QED
  BY <1>2, <1>3, <1>4, <1>5 DEF StarlessStore, new

LEMMA ClearPlain ==
  ASSUME NEW st, DOMAIN st = Fields, StarlessStore(st)
  PROVE  /\ StarlessStore(ClearMemory(st).db)
         /\ ClearMemory(st).op = [type |-> "ClearNonFavorites"]
         /\ DOMAIN ClearMemory(st).db.entries = {}
<1> DEFINE ids == {id \in DOMAIN st.entries : id \notin st.favSet}
           u == Unindex(st, ids)
<1>1. ClearMemory(st).db = Search(u) /\ ClearMemory(st).op = [type |-> "ClearNonFavorites"]
  BY DEF ClearMemory
<1>2. ids = DOMAIN st.entries
  BY DEF StarlessStore
<1> HIDE DEF ids
<1>3. /\ DOMAIN u = Fields /\ u.favs = st.favs /\ u.favSet = st.favSet
      /\ DOMAIN u.entries = DOMAIN st.entries \ ids
  BY UnindexLooks
<1> HIDE DEF u
<1>4. Search(u).entries = u.entries /\ Search(u).favs = u.favs /\ Search(u).favSet = u.favSet
  BY <1>3, SearchLooks
<1> QED
  BY <1>1, <1>2, <1>3, <1>4 DEF StarlessStore

LEMMA UpdatePlain ==
  ASSUME NEW st, NEW n \in Nat, Working(st, n), StarlessStore(st),
         NEW id \in DOMAIN st.entries, NEW c, NEW now, ~TakenByOther(st, id, c)
  PROVE  /\ StarlessStore(UpdateContentInMemory(st, id, c, now).db)
         /\ UpdateContentInMemory(st, id, c, now).op.type = "UpdateContent"
         /\ UpdateContentInMemory(st, id, c, now).op.id = id
         /\ \A x : x # id => Alike(st, UpdateContentInMemory(st, id, c, now).db, x)
<1> DEFINE h == [st EXCEPT !.hashs = Rehash(st, id, c)]
           b == Bump(h, id, now)
           v == [b EXCEPT !.entries[id].content = c]
           op == [type |-> "UpdateContent", id |-> id, data |-> c, new_time |-> now]
<1>1. /\ UpdateContentInMemory(st, id, c, now).db = Search(v)
      /\ UpdateContentInMemory(st, id, c, now).op = op
  <2>1. UpdateContentInMemory(st, id, c, now) = [db |-> Search(v), op |-> op]
    BY DEF UpdateContentInMemory
  <2> HIDE DEF v, op
  <2> QED
    BY <2>1
<1>2. /\ DOMAIN h = Fields /\ h.favs = st.favs /\ h.favSet = st.favSet /\ h.entries = st.entries
  BY WorkingFields DEF Fields
<1> HIDE DEF h
<1>3. /\ DOMAIN b = Fields /\ b.favs = h.favs /\ b.favSet = h.favSet
      /\ DOMAIN b.entries = DOMAIN h.entries
      /\ \A x \in DOMAIN h.entries \ {id} : b.entries[x] = h.entries[x]
  <2>1. /\ id \in DOMAIN h.entries
        /\ "creation" \in DOMAIN h.entries[id] /\ "content" \in DOMAIN h.entries[id]
    BY <1>2, EntryFields
  <2> QED
    BY <1>2, <2>1, BumpLooks
<1> HIDE DEF b
<1>4. /\ DOMAIN v = Fields /\ v.favs = b.favs /\ v.favSet = b.favSet
      /\ DOMAIN v.entries = DOMAIN b.entries
      /\ \A x \in DOMAIN b.entries \ {id} : v.entries[x] = b.entries[x]
  BY <1>3 DEF Fields
<1> HIDE DEF v
<1>5. Search(v).entries = v.entries /\ Search(v).favs = v.favs /\ Search(v).favSet = v.favSet
  BY <1>4, SearchLooks
<1> DEFINE new == Search(v)
<1> HIDE DEF new
<1>6. \A x : x # id => Alike(st, new, x)
  BY <1>2, <1>3, <1>4, <1>5 DEF Alike, new
<1> QED
  BY <1>1, <1>2, <1>3, <1>4, <1>5, <1>6 DEF StarlessStore, new

LEMMA MergePlain ==
  ASSUME NEW st, NEW n \in Nat, Working(st, n), StarlessStore(st),
         NEW id \in DOMAIN st.entries, NEW c, NEW now, TakenByOther(st, id, c),
         NEW other, other = st.hashs[Hash[c]], NEW new, new = MergeIntoOther(st, id, c, now)
  PROVE  /\ StarlessStore(new)
         /\ other # id /\ other \in DOMAIN st.entries
         /\ DOMAIN new.entries = DOMAIN st.entries \ {id}
         /\ new.entries[other].creation = now
         /\ new.entries[other].content = st.entries[other].content
         /\ \A x : x # id /\ x # other => Alike(st, new, x)
<1>1. other # id /\ other \in DOMAIN st.entries
  BY DEF TakenByOther, Working, HashsLive
<1>2. ~IsFavorite(st, id)
  BY DEF IsFavorite, Working, Good, FavsGood, StarlessStore
<1> DEFINE u == Unindex(st, {id})
           b == Bump(u, other, now)
<1>3. /\ DOMAIN u = Fields /\ u.favs = st.favs /\ u.favSet = st.favSet
      /\ DOMAIN u.entries = DOMAIN st.entries \ {id}
      /\ \A x \in DOMAIN st.entries \ {id} : u.entries[x] = st.entries[x]
  BY WorkingFields, UnindexLooks
<1>4. new = Search(b)
  <2>1. Remove(st, id) = u
    BY <1>2 DEF Remove
  <2> HIDE DEF u
  <2>2. other \in DOMAIN u.entries
    BY <1>1, <1>3
  <2> QED
    BY <2>1, <2>2 DEF MergeIntoOther
<1> HIDE DEF u
<1>5. /\ other \in DOMAIN u.entries
      /\ "creation" \in DOMAIN u.entries[other] /\ "content" \in DOMAIN u.entries[other]
  BY <1>1, <1>3, EntryFields
<1>6. /\ DOMAIN b = Fields /\ b.favs = u.favs /\ b.favSet = u.favSet
      /\ DOMAIN b.entries = DOMAIN u.entries
      /\ b.entries[other].creation = now
      /\ b.entries[other].content = u.entries[other].content
      /\ \A x \in DOMAIN u.entries \ {other} : b.entries[x] = u.entries[x]
  BY <1>3, <1>5, BumpLooks
<1> HIDE DEF b
<1>7. Search(b).entries = b.entries /\ Search(b).favs = b.favs /\ Search(b).favSet = b.favSet
  BY <1>6, SearchLooks
<1> DEFINE z == Search(b)
<1> HIDE DEF z
<1>8. \A x : x # id /\ x # other => Alike(st, z, x)
  BY <1>3, <1>6, <1>7 DEF Alike, z
<1> QED
  BY <1>1, <1>3, <1>4, <1>5, <1>6, <1>7, <1>8 DEF StarlessStore, z

-----------------------------------------------------------------------------
(* No favorite comes to be where none is allowed                           *)

LEMMA SpawnElements ==
  ASSUME NEW n \in Nat, NEW own, Owner(n, own), NEW js \in Seq(Task(n, own)),
         NEW ops \in Seq(Operation(n, own))
  PROVE  /\ Len(js) \in Nat /\ Len(ops) \in Nat
         /\ DOMAIN Spawn(js, ops) = 1 .. Len(js) + Len(ops)
         /\ \A i \in 1 .. Len(js) : Spawn(js, ops)[i] = js[i]
         /\ \A k \in 1 .. Len(ops) : Spawn(js, ops)[Len(js) + k] = Statements(ops[k])
<1> DEFINE z == [i \in DOMAIN ops |-> Statements(ops[i])]
           T == Task(n, own)
<1>1. \A i \in 1 .. Len(ops) : Statements(ops[i]) \in T
  BY OperationIsTask
<1> HIDE DEF T
<1>2. z \in Seq(T) /\ Len(z) = Len(ops) /\ \A k \in 1 .. Len(ops) : z[k] = Statements(ops[k])
  BY <1>1
<1>3. Len(js) \in Nat /\ Len(ops) \in Nat
  OBVIOUS
<1>4. Spawn(js, ops) = js \o z
  BY DEF Spawn
<1> HIDE DEF z
<1>5. js \in Seq(T)
  BY DEF T
<1>6. /\ DOMAIN (js \o z) = 1 .. Len(js) + Len(z)
      /\ \A i \in 1 .. Len(js) + Len(z) :
           (js \o z)[i] = IF i <= Len(js) THEN js[i] ELSE z[i - Len(js)]
  BY <1>2, <1>5, Joined
<1>7. \A i \in 1 .. Len(js) : (js \o z)[i] = js[i]
  BY <1>2, <1>3, <1>6
<1>8. ASSUME NEW k \in 1 .. Len(ops)
      PROVE  (js \o z)[Len(js) + k] = Statements(ops[k])
  <2>1. /\ Len(js) + k \in 1 .. Len(js) + Len(ops) /\ ~(Len(js) + k <= Len(js))
        /\ (Len(js) + k) - Len(js) = k
    BY <1>3
  <2> QED
    BY <1>2, <1>6, <2>1
<1> QED
  BY <1>2, <1>3, <1>4, <1>6, <1>7, <1>8

LEMMA SpawnPlain ==
  ASSUME NEW n \in Nat, NEW own, Owner(n, own), NEW js \in Seq(Task(n, own)), AllPlain(js),
         NEW ops \in Seq(Operation(n, own)), \A k \in DOMAIN ops : ops[k].type \in PlainTypes
  PROVE  AllPlain(Spawn(js, ops))
<1> DEFINE sp == Spawn(js, ops)
<1>1. /\ Len(js) \in Nat /\ Len(ops) \in Nat
      /\ DOMAIN sp = 1 .. Len(js) + Len(ops)
      /\ \A i \in 1 .. Len(js) : sp[i] = js[i]
      /\ \A k \in 1 .. Len(ops) : sp[Len(js) + k] = Statements(ops[k])
  BY SpawnElements
<1>2. \A k \in 1 .. Len(ops) : Plain(Statements(ops[k]))
  <2> SUFFICES ASSUME NEW k \in 1 .. Len(ops) PROVE Plain(Statements(ops[k]))
    OBVIOUS
  <2>1. ops[k] \in Operation(n, own) /\ ops[k].type \in PlainTypes
    OBVIOUS
  <2> QED
    BY <2>1, PlainStatements
<1> HIDE DEF sp
<1> SUFFICES ASSUME NEW i \in 1 .. Len(js) + Len(ops) PROVE Plain(sp[i])
  BY <1>1 DEF AllPlain, sp
<1>3. CASE i <= Len(js)
  <2>1. i \in 1 .. Len(js) /\ i \in DOMAIN js
    BY <1>1, <1>3
  <2> QED
    BY <1>1, <2>1 DEF AllPlain
<1>4. CASE ~(i <= Len(js))
  <2>1. i - Len(js) \in 1 .. Len(ops) /\ Len(js) + (i - Len(js)) = i
    BY <1>1, <1>4
  <2> QED
    BY <1>1, <1>2, <2>1
<1> QED
  BY <1>3, <1>4

\* The last two facts of most steps, for the tasks after a handler.
LEMMA HandledStarless ==
  ASSUME Starless, NEW n \in Nat, NEW own, Owner(n, own), jobs \in Seq(Task(n, own)),
         NEW new, StarlessStore(new),
         NEW ops \in Seq(Operation(n, own)), \A k \in DOMAIN ops : ops[k].type \in PlainTypes,
         Handle(new, ops), DOMAIN disk'.favs = {}
  PROVE  Starless'
<1>1. db' = new /\ jobs' = Spawn(jobs, ops) /\ theirs' = theirs
  BY DEF Handle, Spawn, others
<1>2. AllPlain(jobs) /\ Plain(theirs)
  BY DEF Starless
<1>3. AllPlain(Spawn(jobs, ops))
  BY <1>2, SpawnPlain
<1> HIDE DEF Spawn
<1>4. AllPlain(jobs')
  BY <1>1, <1>3
<1>5. StarlessStore(db') /\ Plain(theirs') /\ DOMAIN disk'.favs = {}
  BY <1>1, <1>2
<1> QED
  BY <1>4, <1>5 DEF Starless

LEMMA CopyStarless ==
  ASSUME PInv, Starless, NEW c \in Copyable, Copy(c)
  PROVE  Starless'
<1>1. PICK own : Kept(own, clock, db, disk, jobs, theirs)
  BY KeptFacts
<1> DEFINE r == InsertToMemory(db, c, Now)
           ops == IF r.op = None THEN << >> ELSE << r.op >>
<1>2. Handle(r.db, ops) /\ disk' = disk
  BY DEF Copy
<1>3. clock \in Nat /\ Now = clock + 1 /\ Now \in Nat /\ Working(db, clock) /\ Owner(clock, own)
  BY <1>1, KeptFacts DEF Kept, Now
<1>4. \E x \in 1 .. Now : r.op \in Operation(Now, Stamped(own, clock, x)) \cup {None}
  BY <1>3, InsertWorks
<1>5. StarlessStore(r.db) /\ (r.op # None => r.op.type \in PlainTypes)
  <2>1. CASE ~OwnsLock
    BY <2>1 DEF InsertToMemory, NoOp, Starless
  <2>2. CASE OwnsLock /\ Hash[c] \in DOMAIN db.hashs
    <3> DEFINE id == db.hashs[Hash[c]]
    <3>1. id \in DOMAIN db.entries
      BY <1>3, <2>2 DEF Working, HashsLive
    <3>2. r = Refresh(db, id, Now)
      BY <2>2 DEF InsertToMemory
    <3> HIDE DEF id, r
    <3>3. StarlessStore(db)
      BY DEF Starless
    <3>4. /\ StarlessStore(Refresh(db, id, Now).db)
          /\ Refresh(db, id, Now).op = [type |-> "UpdateTimestamp", id |-> id, new_time |-> Now]
      BY <1>3, <3>1, <3>3, RefreshPlain
    <3>5. r.op.type = "UpdateTimestamp"
      BY <3>2, <3>4
    <3> QED
      BY <3>2, <3>4, <3>5 DEF PlainTypes
  <2>3. CASE OwnsLock /\ Hash[c] \notin DOMAIN db.hashs
    <3>1. r = InsertNew(db, c, Now)
      BY <2>3 DEF InsertToMemory
    <3> QED
      BY <1>3, <3>1, WorkingFields, InsertNewPlain DEF Starless, PlainTypes
  <2> QED
    BY <2>1, <2>2, <2>3
<1> HIDE DEF r
<1>6. PICK x \in 1 .. Now : r.op \in Operation(Now, Stamped(own, clock, x)) \cup {None}
  BY <1>4
<1>7. ops \in Seq(Operation(Now, Stamped(own, clock, x)))
      /\ \A k \in DOMAIN ops : ops[k].type \in PlainTypes
  BY <1>5, <1>6
<1> HIDE DEF ops
<1>8. DOMAIN disk'.favs = {}
  BY <1>2 DEF Starless
<1>9. Owner(Now, Stamped(own, clock, x)) /\ jobs \in Seq(Task(Now, Stamped(own, clock, x)))
  BY <1>1, <1>6, NowKept
<1> QED
  BY <1>2, <1>3, <1>5, <1>7, <1>8, <1>9, HandledStarless

LEMMA EditInPlaceStarless ==
  ASSUME PInv, Starless, NEW id \in Live, NEW c \in Copyable, EditInPlace(id, c)
  PROVE  Starless'
<1>1. PICK own : Kept(own, clock, db, disk, jobs, theirs)
  BY KeptFacts
<1> DEFINE r == UpdateContentInMemory(db, id, c, Now)
<1>2. ~TakenByOther(db, id, c) /\ Handle(r.db, << r.op >>) /\ disk' = disk
  BY DEF EditInPlace
<1>3. clock \in Nat /\ Now = clock + 1 /\ Now \in Nat /\ Working(db, clock) /\ Owner(clock, own)
  BY <1>1, KeptFacts DEF Kept, Now
<1>4. id \in 1 .. Now /\ r.op \in Operation(Now, Stamped(own, clock, id))
  BY <1>2, <1>3, UpdateWorks DEF Live
<1>5. StarlessStore(r.db) /\ r.op.type \in PlainTypes
  BY <1>2, <1>3, UpdatePlain DEF Live, Starless, PlainTypes
<1> HIDE DEF r
<1>6. << r.op >> \in Seq(Operation(Now, Stamped(own, clock, id)))
      /\ \A k \in DOMAIN << r.op >> : << r.op >>[k].type \in PlainTypes
  BY <1>4, <1>5
<1>7. DOMAIN disk'.favs = {}
  BY <1>2 DEF Starless
<1>8. Owner(Now, Stamped(own, clock, id)) /\ jobs \in Seq(Task(Now, Stamped(own, clock, id)))
  BY <1>1, <1>4, NowKept
<1> QED
  BY <1>2, <1>3, <1>5, <1>6, <1>7, <1>8, HandledStarless

LEMMA EditMergesStarless ==
  ASSUME PInv, Starless, NEW id \in Live, NEW c \in Copyable, EditMerges(id, c)
  PROVE  Starless'
<1>1. PICK own : Kept(own, clock, db, disk, jobs, theirs)
  BY KeptFacts
<1>2. /\ TakenByOther(db, id, c) /\ db' = MergeIntoOther(db, id, c, Now)
      /\ disk' = DeleteRows(disk, {id}) /\ jobs' = jobs /\ theirs' = theirs
  BY DEF EditMerges, others
<1>3. clock \in Nat /\ Working(db, clock)
  BY <1>1, KeptFacts DEF Kept
<1>4. StarlessStore(db')
  BY <1>2, <1>3, MergePlain DEF Live, Starless
<1>5. DOMAIN disk'.favs = {}
  BY <1>2 DEF Starless, DeleteRows, Drop
<1> QED
  BY <1>2, <1>4, <1>5 DEF Starless

LEMMA ExecStarless ==
  ASSUME NEW d, NEW n \in Nat, NEW own, DiskOK(d, n, own), DOMAIN d.favs = {},
         NEW s \in Statement(n, own), s.do # "InsertFavorite"
  PROVE  DOMAIN Exec(d, s).disk.favs = {}
<1> DEFINE r == Exec(d, s).disk
<1>1. DOMAIN d = Tables
  BY DEF DiskOK, Tables
<1>2. CASE s.do = "InsertEntry"
  BY <1>1, <1>2 DEF Exec, Ok, Failed, Tables
<1>3. CASE s.do = "InsertContent"
  BY <1>1, <1>3 DEF Exec, Ok, Failed, Tables
<1>4. CASE s.do = "DeleteEntry"
  BY <1>4 DEF Exec, Ok, DeleteRows, Drop
<1>5. CASE s.do = "DeleteNonFavorites"
  BY <1>5 DEF Exec, Ok, DeleteRows, Drop
<1>6. CASE s.do = "DeleteContent"
  BY <1>1, <1>6 DEF Exec, Ok, Tables
<1>7. CASE s.do = "SetCreation"
  BY <1>1, <1>7 DEF Exec, Ok, Tables
<1>8. CASE s.do = "DeleteFavorite"
  BY <1>1, <1>8 DEF Exec, Ok, Drop, Tables
<1>9. CASE s.do = "CloseGap"
  BY <1>1, <1>9 DEF Exec, CloseGap, Ok, Failed, Shifted, Tables
<1>10. CASE s.do = "SetTitle"
  BY <1>1, <1>10 DEF Exec, Ok, Tables
<1>11. s.do \in {"InsertEntry", "InsertContent", "DeleteEntry", "DeleteNonFavorites",
                 "DeleteContent", "SetCreation", "InsertFavorite", "DeleteFavorite",
                 "CloseGap", "SetTitle"}
  BY DEF Statement
<1> QED
  BY <1>2, <1>3, <1>4, <1>5, <1>6, <1>7, <1>8, <1>9, <1>10, <1>11

LEMMA MergeEndsStarless ==
  ASSUME PInv, Starless, MergeBumps \/ MergeFails
  PROVE  Starless'
<1>1. PICK own : Kept(own, clock, db, disk, jobs, theirs) /\ MergeTyped(own)
  BY KeptFacts
<1> DEFINE s == MergeStatement
<1>2. /\ phase = "merging" /\ UNCHANGED << db, jobs, theirs >>
      /\ disk' = disk \/ disk' = Exec(disk, s).disk
  BY DEF MergeBumps, MergeFails, others
<1>3. clock \in Nat /\ DiskOK(disk, clock, own) /\ DOMAIN disk.favs = {}
  BY <1>1, KeptFacts DEF Kept, Starless
<1>4. s \in Statement(clock, own) /\ s.do # "InsertFavorite"
  BY <1>1, <1>2 DEF MergeTyped, MergeStatement
<1> HIDE DEF s
<1>5. DOMAIN disk'.favs = {}
  BY <1>2, <1>3, <1>4, ExecStarless
<1> QED
  BY <1>2, <1>5 DEF Starless

LEMMA DeleteStarless ==
  ASSUME PInv, Starless, NEW id \in Live, Delete(id)
  PROVE  Starless'
<1>1. PICK own : Kept(own, clock, db, disk, jobs, theirs)
  BY KeptFacts
<1> DEFINE r == DeleteFromMemory(db, id)
<1>2. Handle(r.db, << r.op >>) /\ disk' = disk
  BY DEF Delete, Keep
<1>3. clock \in Nat /\ Working(db, clock) /\ Owner(clock, own) /\ jobs \in Seq(Task(clock, own))
  BY <1>1, KeptFacts DEF Kept
<1>4. r.op \in Operation(clock, own)
  BY <1>3, DeleteWorks DEF Live
<1>5. StarlessStore(r.db) /\ r.op.type \in PlainTypes
  <2>1. StarlessStore(db) /\ id \in DOMAIN db.entries
    BY DEF Starless, Live
  <2>2. /\ StarlessStore(r.db)
        /\ r.op = [type |-> "Delete", id |-> id]
    BY <1>3, <2>1, DeletePlain
  <2> HIDE DEF r
  <2>3. r.op.type = "Delete"
    BY <2>2
  <2> QED
    BY <2>2, <2>3 DEF PlainTypes
<1> HIDE DEF r
<1>6. << r.op >> \in Seq(Operation(clock, own))
      /\ \A k \in DOMAIN << r.op >> : << r.op >>[k].type \in PlainTypes
  BY <1>4, <1>5
<1>7. DOMAIN disk'.favs = {}
  BY <1>2 DEF Starless
<1> QED
  BY <1>2, <1>3, <1>5, <1>6, <1>7, HandledStarless

LEMMA ClearHistoryStarless ==
  ASSUME PInv, Starless, ClearHistory
  PROVE  Starless'
<1>1. PICK own : Kept(own, clock, db, disk, jobs, theirs)
  BY KeptFacts
<1> DEFINE r == ClearMemory(db)
<1>2. Handle(r.db, << r.op >>) /\ disk' = disk
  BY DEF ClearHistory, Keep
<1>3. clock \in Nat /\ Working(db, clock) /\ Owner(clock, own) /\ jobs \in Seq(Task(clock, own))
  BY <1>1, KeptFacts DEF Kept
<1>4. r.op \in Operation(clock, own)
  BY <1>3, ClearWorks
<1>5. StarlessStore(r.db) /\ r.op.type \in PlainTypes
  BY <1>3, WorkingFields, ClearPlain DEF Starless, PlainTypes
<1> HIDE DEF r
<1>6. << r.op >> \in Seq(Operation(clock, own))
      /\ \A k \in DOMAIN << r.op >> : << r.op >>[k].type \in PlainTypes
  BY <1>4, <1>5
<1>7. DOMAIN disk'.favs = {}
  BY <1>2 DEF Starless
<1> QED
  BY <1>2, <1>3, <1>5, <1>6, <1>7, HandledStarless

\* A statement that stars nothing leaves a file without favorites without them.
\* A task that goes on, and the tasks that are left when one ends.
LEMMA TasksLeftPlain ==
  ASSUME NEW n \in Nat, NEW own, NEW js \in Seq(Task(n, own)), AllPlain(js), NEW i \in DOMAIN js
  PROVE  /\ Head(js[i]).do # "InsertFavorite"
         /\ AllPlain(S!RemoveAt(js, i))
         /\ Len(js[i]) > 1 => AllPlain([js EXCEPT ![i] = Tail(@)])
<1> DEFINE T == Task(n, own)
<1>1. i \in 1 .. Len(js) /\ Len(js) \in Nat
  OBVIOUS
<1>2. js[i] \in Seq(Statement(n, own)) /\ js[i] # << >>
  BY DEF Task
<1>3. Plain(js[i])
  BY DEF AllPlain
<1>4. Head(js[i]).do # "InsertFavorite"
  <2>1. 1 \in DOMAIN js[i] /\ Head(js[i]) = js[i][1]
    BY <1>2
  <2> QED
    BY <1>3, <2>1 DEF Plain
<1>5. AllPlain(S!RemoveAt(js, i))
  <2> HIDE DEF T
  <2>1. js \in Seq(T)
    BY DEF T
  <2>2. /\ DOMAIN S!RemoveAt(js, i) = 1 .. Len(js) - 1
        /\ \A k \in 1 .. Len(js) - 1 :
             S!RemoveAt(js, i)[k] = IF k < i THEN js[k] ELSE js[k + 1]
    BY <1>1, <2>1, RemovedElements
  <2>3. \A k \in 1 .. Len(js) - 1 : k \in DOMAIN js /\ k + 1 \in DOMAIN js
    BY <1>1, <2>1
  <2> QED
    BY <2>2, <2>3 DEF AllPlain
<1>6. ASSUME Len(js[i]) > 1
      PROVE  AllPlain([js EXCEPT ![i] = Tail(@)])
  <2> DEFINE t == js[i]
  <2>1. Plain(Tail(t))
    <3>1. t \in Seq(Statement(n, own)) /\ t # << >> /\ Plain(t)
      BY <1>2, <1>3
    <3> HIDE DEF t
    <3>2. \A k \in DOMAIN Tail(t) : Tail(t)[k] = t[k + 1] /\ k + 1 \in DOMAIN t
      BY <3>1
    <3> QED
      BY <3>1, <3>2 DEF Plain
  <2> QED
    BY <2>1 DEF AllPlain
<1> QED
  BY <1>4, <1>5, <1>6

LEMMA RunStatementStarless ==
  ASSUME PInv, Starless, NEW i \in DOMAIN jobs, RunStatement(i)
  PROVE  Starless'
<1>1. PICK own : Kept(own, clock, db, disk, jobs, theirs)
  BY KeptFacts
<1> DEFINE s == Head(jobs[i])
           r == Exec(disk, s)
<1>2. /\ disk' = r.disk
      /\ jobs' = IF r.ok /\ Len(jobs[i]) > 1 THEN [jobs EXCEPT ![i] = Tail(@)]
                 ELSE S!RemoveAt(jobs, i)
      /\ db' = db /\ theirs' = theirs
  BY DEF RunStatement, Committed, others
<1>3. /\ clock \in Nat /\ DiskOK(disk, clock, own) /\ jobs \in Seq(Task(clock, own))
  BY <1>1, KeptFacts DEF Kept
<1>4. s \in Statement(clock, own)
  BY <1>3, TasksLeft
<1>5. AllPlain(jobs) /\ DOMAIN disk.favs = {} /\ StarlessStore(db) /\ Plain(theirs)
  BY DEF Starless
<1>6. /\ s.do # "InsertFavorite"
      /\ AllPlain(S!RemoveAt(jobs, i))
      /\ Len(jobs[i]) > 1 => AllPlain([jobs EXCEPT ![i] = Tail(@)])
  BY <1>3, <1>5, TasksLeftPlain
<1> HIDE DEF s
<1>7. DOMAIN r.disk.favs = {}
  BY <1>3, <1>4, <1>5, <1>6, ExecStarless
<1> HIDE DEF r
<1> QED
  BY <1>2, <1>5, <1>6, <1>7 DEF Starless

LEMMA TaskFailsStarless ==
  ASSUME PInv, Starless, NEW i \in DOMAIN jobs, TaskFails(i)
  PROVE  Starless'
<1>1. PICK own : Kept(own, clock, db, disk, jobs, theirs)
  BY KeptFacts
<1>2. clock \in Nat /\ jobs \in Seq(Task(clock, own)) /\ AllPlain(jobs)
  BY <1>1, KeptFacts DEF Kept, Starless
<1>3. jobs' = S!RemoveAt(jobs, i) /\ db' = db /\ disk' = disk /\ theirs' = theirs
  BY DEF TaskFails, others
<1>4. AllPlain(S!RemoveAt(jobs, i))
  BY <1>2, TasksLeftPlain
<1> QED
  BY <1>3, <1>4 DEF Starless

LEMMA OtherRunsStarless ==
  ASSUME PInv, Starless, OtherRuns
  PROVE  Starless'
<1>1. PICK own : Kept(own, clock, db, disk, jobs, theirs)
  BY KeptFacts
<1> DEFINE s == Head(theirs)
           r == Exec(disk, s)
<1>2. /\ disk' = r.disk /\ db' = db /\ jobs' = jobs /\ theirs # << >>
      /\ theirs' = IF r.ok THEN Tail(theirs) ELSE << >>
  BY DEF OtherRuns, Committed
<1>3. /\ clock \in Nat /\ DiskOK(disk, clock, own) /\ theirs \in Seq(Statement(clock, own))
  BY <1>1, KeptFacts DEF Kept
<1>4. AllPlain(jobs) /\ DOMAIN disk.favs = {} /\ StarlessStore(db) /\ Plain(theirs)
  BY DEF Starless
<1>5. s \in Statement(clock, own) /\ s = theirs[1] /\ 1 \in DOMAIN theirs
  BY <1>2, <1>3
<1>6. \A k \in DOMAIN Tail(theirs) : Tail(theirs)[k] = theirs[k + 1] /\ k + 1 \in DOMAIN theirs
  BY <1>2, <1>3
<1>7. Plain(Tail(theirs)) /\ Plain(<< >>) /\ s.do # "InsertFavorite"
  BY <1>4, <1>5, <1>6 DEF Plain
<1> HIDE DEF s
<1>8. DOMAIN r.disk.favs = {}
  BY <1>3, <1>4, <1>5, <1>7, ExecStarless
<1> HIDE DEF r
<1> QED
  BY <1>2, <1>4, <1>7, <1>8 DEF Starless

LEMMA NothingListed ==
  ASSUME NEW T, NEW s \in Seq(T), Range(s) = {}
  PROVE  s = << >>
<1>1. DOMAIN s = 1 .. Len(s) /\ Len(s) \in Nat
  OBVIOUS
<1>2. DOMAIN s = {}
  BY DEF Range
<1>3. ~(1 \in 1 .. Len(s))
  BY <1>1, <1>2
<1>4. Len(s) = 0
  BY <1>1, <1>3
<1> QED
  BY <1>4

\* A start from a file without favorites.
LEMMA LoadedStarless ==
  ASSUME NEW d, NEW n \in Nat, NEW own, DiskOK(d, n, own), DOMAIN d.favs = {},
         NEW st \in Loaded(d)
  PROVE  /\ StarlessStore(st)
         /\ ~st.panicked => Agree(st, n, d)
<1>1. PositionsDistinct(d)
  BY DEF PositionsDistinct
<1>2. CASE ~st.panicked
  <2>1. Agree(st, n, d)
    BY <1>1, <1>2, LoadedAgrees
  <2>2. st.favSet = {} /\ Range(st.favs) = st.favSet
    BY <2>1 DEF Agree, Same, Sound, FavsLive
  <2>3. st.favs \in Seq(1 .. n)
    BY <2>1, WorkingFields DEF Agree
  <2>4. st.favs = << >>
    BY <2>2, <2>3, NothingListed
  <2> QED
    BY <2>1, <2>2, <2>4 DEF StarlessStore
<1>3. CASE st.panicked
  <2>1. CASE FavsLoadable(d)
    <3> DEFINE c == WithContents(WithEntries(WithFavs(EmptyStore, d), d), d)
    <3>1. PICK h \in HashIndexes(c) : st = [c EXCEPT !.hashs = h]
      BY <2>1 DEF Loaded
    <3>2. c.panicked = FALSE /\ DOMAIN c = Fields
      BY DEF WithContents, WithEntries, WithFavs, EmptyStore, Fields
    <3> HIDE DEF c
    <3>3. st.panicked = FALSE
      BY <3>1, <3>2 DEF Fields
    <3> QED
      BY <1>3, <3>3
  <2>2. CASE ~FavsLoadable(d)
    BY <1>3, <2>2 DEF Loaded, Panic, EmptyStore, StarlessStore
  <2> QED
    BY <2>1, <2>2
<1> QED
  BY <1>2, <1>3

\* What the second instance spawns, when there is no favorite to begin with.
LEMMA UntimedOpsStarless ==
  ASSUME MaxFavs = 0, NEW n \in Nat, NEW own, Owner(n, own), NEW st, Working(st, n),
         StarlessStore(st), NEW op \in UntimedOps(st)
  PROVE  Plain(Statements(op))
<1>1. op \in Operation(n, own)
  BY UntimedOpTyped
<1>2. \/ op = ClearMemory(st).op
      \/ \E id \in DOMAIN st.entries : op = DeleteFromMemory(st, id).op
  <2>1. st.favSet = {} /\ ~(Len(st.favs) < MaxFavs)
    BY DEF StarlessStore
  <2> QED
    BY <2>1 DEF UntimedOps
<1>3. op.type \in PlainTypes
  <2>1. CASE op = ClearMemory(st).op
    <3>1. op = [type |-> "ClearNonFavorites"]
      BY <2>1 DEF ClearMemory
    <3> QED
      BY <3>1 DEF PlainTypes
  <2>2. ASSUME NEW id \in DOMAIN st.entries, op = DeleteFromMemory(st, id).op
        PROVE  op.type \in PlainTypes
    <3>1. op = [type |-> "Delete", id |-> id]
      BY <2>2, DeletePlain
    <3>2. op.type = "Delete"
      BY <3>1
    <3> QED
      BY <3>2 DEF PlainTypes
  <2> QED
    BY <1>2, <2>1, <2>2
<1> QED
  BY <1>1, <1>3, PlainStatements

LEMMA EditStatementsStarless ==
  ASSUME clock \in Nat, NEW own, Owner(clock, own), NEW st, Working(st, clock), StarlessStore(st),
         NEW id \in DOMAIN st.entries, NEW c \in Copyable
  PROVE  Plain(EditStatements(st, id, c))
<1>1. CASE TakenByOther(st, id, c)
  <2> DEFINE a == [do |-> "DeleteEntry", id |-> id]
             b == [do |-> "SetCreation", id |-> st.hashs[Hash[c]], time |-> Now]
  <2>1. EditStatements(st, id, c) = << a, b >>
    BY <1>1 DEF EditStatements
  <2>2. a.do # "InsertFavorite" /\ b.do # "InsertFavorite"
    OBVIOUS
  <2> HIDE DEF a, b
  <2>3. Plain(<< a, b >>)
    BY <2>2 DEF Plain
  <2> QED
    BY <2>1, <2>3
<1>2. CASE ~TakenByOther(st, id, c)
  <2> DEFINE op == UpdateContentInMemory(st, id, c, Now).op
             own2 == Stamped(own, clock, id)
  <2>1. EditStatements(st, id, c) = Statements(op)
    BY <1>2 DEF EditStatements
  <2>2. Now = clock + 1 /\ Now \in Nat /\ id \in 1 .. clock + 1
    BY WorkingFields DEF Now
  <2>3. op \in Operation(Now, own2)
    BY <1>2, <2>2, UpdateWorks
  <2>4. Owner(Now, own2)
    BY <2>2, StampedKeeps
  <2>5. op.type = "UpdateContent"
    BY <1>2, UpdatePlain
  <2>6. op.type \in PlainTypes
    BY <2>5 DEF PlainTypes
  <2> HIDE DEF op, own2
  <2>7. Plain(Statements(op))
    BY <2>2, <2>3, <2>4, <2>6, PlainStatements
  <2> QED
    BY <2>1, <2>7
<1> QED
  BY <1>1, <1>2

LEMMA OtherActsStarless ==
  ASSUME MaxFavs = 0, PInv, Starless, OtherActs
  PROVE  Starless'
<1>1. PICK own : Kept(own, clock, db, disk, jobs, theirs)
  BY KeptFacts
<1>2. /\ clock \in Nat /\ Owner(clock, own) /\ DiskOK(disk, clock, own)
      /\ AllPlain(jobs) /\ DOMAIN disk.favs = {} /\ StarlessStore(db)
  BY <1>1, KeptFacts DEF Kept, Starless
<1>3. db' = db /\ disk' = disk /\ jobs' = jobs
  BY DEF OtherActs
<1>4. PICK st \in Loaded(disk) :
        \/ \E op \in UntimedOps(st) : theirs' = Statements(op)
        \/ \E id \in DOMAIN st.entries, c \in Copyable : theirs' = EditStatements(st, id, c)
  BY DEF OtherActs
<1>5. Working(st, clock) /\ StarlessStore(st)
  BY <1>2, LoadedWorks, LoadedStarless
<1>6. ASSUME NEW op \in UntimedOps(st), theirs' = Statements(op)
      PROVE  Plain(theirs')
  BY <1>2, <1>5, <1>6, UntimedOpsStarless
<1>7. ASSUME NEW id \in DOMAIN st.entries, NEW c \in Copyable, theirs' = EditStatements(st, id, c)
      PROVE  Plain(theirs')
  BY <1>2, <1>5, <1>7, EditStatementsStarless
<1>8. Plain(theirs')
  BY <1>4, <1>6, <1>7
<1> QED
  BY <1>2, <1>3, <1>8 DEF Starless

\* The handlers of favorites have nothing to work on.
LEMMA NoFavoriteHandlers ==
  ASSUME MaxFavs = 0, PInv, Starless
  PROVE  /\ \A c \in Copyable : ~SelectionToFavorite(c)
         /\ \A id \in Live, title \in Titles \cup {None} : ~ConfirmFavorite(id, title)
         /\ \A id \in db.favSet : ~RemoveFavorite(id)
<1>1. PICK own : Kept(own, clock, db, disk, jobs, theirs)
  BY KeptFacts
<1>2. ~(Len(db.favs) < MaxFavs) /\ db.favSet = {}
  BY DEF Starless, StarlessStore
<1>3. \A id \in Live : ~IsFavorite(db, id)
  BY <1>1, <1>2 DEF Kept, Working, Good, FavsGood, IsFavorite, Live
<1>4. \A c \in Copyable : ~SelectionToFavorite(c)
  BY <1>2 DEF SelectionToFavorite
<1>5. \A id \in Live, title \in Titles \cup {None} : ~ConfirmFavorite(id, title)
  BY <1>2, <1>3 DEF ConfirmFavorite
<1> QED
  BY <1>2, <1>4, <1>5

LEMMA WalkListStarless ==
  ASSUME PInv, Starless, WalkList
  PROVE  Starless'
<1>1. PICK own : Kept(own, clock, db, disk, jobs, theirs)
  BY KeptFacts
<1>2. db' = Panic(db) /\ disk' = disk /\ jobs' = jobs /\ theirs' = theirs
  BY DEF WalkList, others
<1>3. DOMAIN db = Fields
  BY <1>1, WorkingFields DEF Kept
<1>4. Panic(db).favs = db.favs /\ Panic(db).favSet = db.favSet
  BY <1>3 DEF Panic, Fields
<1> QED
  BY <1>2, <1>4 DEF Starless, StarlessStore

\* The reads of a reload find no favorite.
LEMMA ReloadStarless ==
  ASSUME PInv, Starless, Reload \/ ReadFails
  PROVE  Starless'
<1>1. PICK own : Kept(own, clock, db, disk, jobs, theirs)
  BY KeptFacts
<1>2. /\ DOMAIN db = Fields /\ clock \in Nat /\ DiskOK(disk, clock, own)
  BY <1>1, KeptFacts, WorkingFields DEF Kept
<1>3. /\ AllPlain(jobs) /\ DOMAIN disk.favs = {} /\ Plain(theirs)
      /\ db.favs = << >> /\ db.favSet = {}
  BY DEF Starless, StarlessStore
<1>4. disk' = disk /\ jobs' = jobs /\ theirs' = theirs
  BY DEF Reload, StartReload, ReadFavs, ReadEntries, ReadContents, ReadFails, others
<1> SUFFICES StarlessStore(db')
  BY <1>3, <1>4 DEF Starless
<1>5. DOMAIN Panic(db) = Fields /\ Panic(db).favs = db.favs /\ Panic(db).favSet = db.favSet
  BY <1>2 DEF Panic, Fields
<1>6. CASE StartReload
  BY <1>6 DEF StartReload, EmptyStore, StarlessStore
<1>7. CASE ReadFavs
  <2>1. CASE FavsLoadable(disk)
    <3>1. LoadedFavs(disk) \in Seq(DOMAIN disk.favs) /\ Range(LoadedFavs(disk)) = DOMAIN disk.favs
      BY <1>2, <2>1, LoadedFavsListFavs
    <3>2. LoadedFavs(disk) = << >>
      BY <1>3, <3>1, NothingListed
    <3>3. db' = WithFavs(db, disk)
      BY <1>7, <2>1 DEF ReadFavs
    <3>4. db'.favs = LoadedFavs(disk) /\ db'.favSet = DOMAIN disk.favs
      BY <1>2, <3>3 DEF WithFavs, Fields
    <3> QED
      BY <1>3, <3>2, <3>4 DEF StarlessStore
  <2>2. CASE ~FavsLoadable(disk)
    BY <1>3, <1>5, <1>7, <2>2 DEF ReadFavs, StarlessStore
  <2> QED
    BY <2>1, <2>2
<1>8. CASE ReadEntries
  <2>1. WithEntries(db, disk).favs = db.favs /\ WithEntries(db, disk).favSet = db.favSet
    BY <1>2 DEF WithEntries, Fields
  <2> QED
    BY <1>3, <1>8, <2>1 DEF ReadEntries, StarlessStore
<1>9. CASE ReadContents
  <2> DEFINE st == WithContents(db, disk)
  <2>1. DOMAIN st = Fields /\ st.favs = db.favs /\ st.favSet = db.favSet
    BY <1>2 DEF WithContents, Fields
  <2>2. \/ \E h \in HashIndexes(st) : db' = Search([st EXCEPT !.hashs = h])
        \/ db' = Panic(db)
    BY <1>9 DEF ReadContents
  <2> HIDE DEF st
  <2>3. ASSUME NEW h \in HashIndexes(st), db' = Search([st EXCEPT !.hashs = h])
        PROVE  StarlessStore(db')
    <3> DEFINE z == [st EXCEPT !.hashs = h]
    <3>1. DOMAIN z = Fields /\ z.favs = st.favs /\ z.favSet = st.favSet
      BY <2>1 DEF Fields
    <3> HIDE DEF z
    <3>2. Search(z).favs = z.favs /\ Search(z).favSet = z.favSet
      BY <3>1, SearchLooks
    <3>3. db' = Search(z)
      BY <2>3 DEF z
    <3> QED
      BY <1>3, <2>1, <3>1, <3>2, <3>3 DEF StarlessStore
  <2> QED
    BY <1>3, <1>5, <2>2, <2>3 DEF StarlessStore
<1>10. CASE ReadFails
  BY <1>3, <1>10 DEF ReadFails, StarlessStore
<1> QED
  BY <1>6, <1>7, <1>8, <1>9, <1>10 DEF Reload

LEMMA StopStarless ==
  ASSUME PInv, Starless, Crash \/ Exit
  PROVE  Starless'
<1>1. db' = EmptyStore /\ jobs' = << >> /\ theirs' = theirs
  BY DEF Crash, Exit, others
<1>2. DOMAIN disk'.favs = {}
  BY DEF Starless, Crash, Exit, DeleteRows, Drop
<1> QED
  BY <1>1, <1>2 DEF Starless, StarlessStore, EmptyStore, AllPlain

LEMMA RestartStarless ==
  ASSUME PInv, Starless, Restart
  PROVE  Starless'
<1>1. PICK own : Kept(own, clock, db, disk, jobs, theirs)
  BY KeptFacts
<1>2. /\ db' \in Loaded(disk') /\ jobs' = jobs /\ theirs' = theirs
      /\ \E now \in Now .. MaxTime + 2 : disk' = PrunedByNumber(PrunedByAge(disk, now))
  BY DEF Restart, others
<1>3. DiskOK(disk', clock, own) /\ clock \in Nat
  BY <1>1, <1>2, KeptFacts, PrunedKeepsDisk DEF Kept
<1>4. DOMAIN disk'.favs = {}
  <2>1. PICK now : disk' = PrunedByNumber(PrunedByAge(disk, now))
    BY <1>2
  <2>2. DOMAIN PrunedByAge(disk, now).favs = {}
    BY DEF Starless, PrunedByAge, DeleteRows, Drop
  <2> DEFINE a == PrunedByAge(disk, now)
  <2> HIDE DEF a
  <2>3. DOMAIN a.favs = {} => DOMAIN PrunedByNumber(a).favs = {}
    BY DEF PrunedByNumber, DeleteRows, Drop
  <2> QED
    BY <2>1, <2>2, <2>3 DEF a
<1>5. StarlessStore(db')
  BY <1>2, <1>3, <1>4, LoadedStarless
<1> QED
  BY <1>2, <1>4, <1>5 DEF Starless

LEMMA NextStarless ==
  ASSUME MaxFavs = 0, PInv, Starless, [Next]_vars
  PROVE  Starless'
<1>1. CASE UNCHANGED vars
  BY <1>1 DEF vars, others, Starless
<1>2. CASE Handlers
  BY <1>2, CopyStarless, EditInPlaceStarless, EditMergesStarless, DeleteStarless,
     ClearHistoryStarless, WalkListStarless, NoFavoriteHandlers DEF Handlers
<1>3. ASSUME NEW i \in DOMAIN jobs, RunStatement(i) \/ TaskFails(i)
      PROVE  Starless'
  BY <1>3, RunStatementStarless, TaskFailsStarless
<1>4. CASE OtherActs \/ OtherRuns \/ MergeBumps \/ MergeFails
  BY <1>4, OtherActsStarless, OtherRunsStarless, MergeEndsStarless
<1>5. CASE Reload \/ ReadFails
  BY <1>5, ReloadStarless
<1>6. CASE Crash \/ Exit \/ Restart
  BY <1>6, StopStarless, RestartStarless
<1> QED
  BY <1>1, <1>2, <1>3, <1>4, <1>5, <1>6 DEF Next

-----------------------------------------------------------------------------
(* Memory agrees with the file, or a task is about to tell the store       *)

\* Memory st and the tables d agree on entry id.
SameAt(st, d, id) ==
  /\ id \in DOMAIN st.entries <=> id \in DOMAIN d.rows
  /\ id \in DOMAIN st.entries => /\ st.entries[id].creation = d.rows[id]
                                 /\ st.entries[id].content = ContentIn(d, id)

\* Whatever commits first, task t will change the tables: if not by its next
\* statement, which finds no content of entry id to delete, then by the one after.
Changes(t, d, id) ==
  \/ t[1].do = "InsertEntry" /\ t[1].id \notin DOMAIN d.rows
  \/ t[1].do = "DeleteNonFavorites" /\ id \in DOMAIN d.rows
  \/ t[1].do = "DeleteEntry" /\ t[1].id = id /\ id \in DOMAIN d.rows
  \/ t[1].do = "SetCreation" /\ t[1].id = id /\ id \in DOMAIN d.rows /\ d.rows[id] # t[1].time
  \/ t[1].do = "InsertContent" /\ t[1].id = id /\ id \in DOMAIN d.rows \ DOMAIN d.contents
  \/ /\ t[1].do = "DeleteContent" /\ t[1].id = id /\ id \in DOMAIN d.rows
     /\ Len(t) > 1 /\ t[2].do = "InsertContent" /\ t[2].id = id

Pending(js, d, id) == \E i \in DOMAIN js : Changes(js[i], d, id)

\* A store that believes itself current is, or a commit to come will end the belief.
Known ==
  phase = "idle" /\ ~db.panicked /\ ~behind /\ faults = 0 =>
    \A id \in 1 .. MaxTime : SameAt(db, disk, id) \/ Pending(jobs, disk, id)

\* The tables once the merge under way is complete.
Merged == Exec(disk, MergeStatement).disk

\* The same between the statements of a merge, whichever of a task's and the merge's
\* next one commits first.
KnownMerging ==
  phase = "merging" /\ ~db.panicked /\ ~behind /\ faults = 0 =>
    \A id \in 1 .. MaxTime :
      \/ SameAt(db, Merged, id)
      \/ \E i \in DOMAIN jobs : Changes(jobs[i], disk, id) /\ Changes(jobs[i], Merged, id)

\* The entries a reload has read are those of the tables, as long as nothing commits.
Reading ==
  phase = "contents" /\ ~moved /\ ~db.panicked =>
    /\ DOMAIN db.entries = DOMAIN disk.rows
    /\ \A id \in DOMAIN db.entries : /\ db.entries[id].creation = disk.rows[id]
                                     /\ db.entries[id].content = Blank

\* A handler changes an entry only along with a task that changes its rows.
LEMMA HandledKnown ==
  ASSUME Known, NEW n \in Nat, NEW own, Owner(n, own), jobs \in Seq(Task(n, own)),
         NEW new, NEW ops \in Seq(Operation(n, own)), Handle(new, ops),
         disk' = disk, behind' = behind,
         ~behind /\ faults = 0 =>
           \A x \in 1 .. MaxTime :
             \/ Alike(db, new, x)
             \/ SameAt(new, disk, x)
             \/ \E k \in DOMAIN ops : Changes(Statements(ops[k]), disk, x)
             \/ Pending(jobs, disk, x)
  PROVE  Known'
<1>1. /\ db' = new /\ jobs' = Spawn(jobs, ops) /\ phase = "idle" /\ ~db.panicked
      /\ faults' = faults
  BY DEF Handle, Spawn, Up
<1>2. /\ Len(jobs) \in Nat /\ Len(ops) \in Nat
      /\ DOMAIN jobs' = 1 .. Len(jobs) + Len(ops)
      /\ \A i \in 1 .. Len(jobs) : jobs'[i] = jobs[i]
      /\ \A k \in 1 .. Len(ops) : jobs'[Len(jobs) + k] = Statements(ops[k])
  BY <1>1, SpawnElements
<1>3. DOMAIN jobs = 1 .. Len(jobs) /\ DOMAIN ops = 1 .. Len(ops)
  OBVIOUS
<1> SUFFICES ASSUME ~behind, faults = 0, NEW x \in 1 .. MaxTime
             PROVE  SameAt(db', disk, x) \/ Pending(jobs', disk, x)
  BY <1>1 DEF Known
<1>4. SameAt(db, disk, x) \/ Pending(jobs, disk, x)
  BY <1>1 DEF Known
<1>5. CASE Pending(jobs, disk, x)
  <2>1. PICK i \in 1 .. Len(jobs) : Changes(jobs[i], disk, x)
    BY <1>3, <1>5 DEF Pending
  <2>2. i \in DOMAIN jobs' /\ jobs'[i] = jobs[i]
    BY <1>2
  <2> QED
    BY <2>1, <2>2 DEF Pending
<1>6. CASE SameAt(db, disk, x) /\ Alike(db, new, x)
  BY <1>1, <1>6 DEF SameAt, Alike
<1>7. ASSUME NEW k \in DOMAIN ops, Changes(Statements(ops[k]), disk, x)
      PROVE  Pending(jobs', disk, x)
  <2>1. Len(jobs) + k \in DOMAIN jobs' /\ jobs'[Len(jobs) + k] = Statements(ops[k])
    BY <1>2, <1>3
  <2> QED
    BY <1>7, <2>1 DEF Pending
<1> QED
  BY <1>1, <1>4, <1>5, <1>6, <1>7

LEMMA RowsPast ==
  ASSUME NEW d, NEW n \in Nat, NEW own, DiskOK(d, n, own)
  PROVE  /\ n + 1 \notin DOMAIN d.rows
         /\ \A id \in DOMAIN d.rows : d.rows[id] # n + 1 /\ d.rows[id] < n + 1
<1>1. DOMAIN d.rows \subseteq 1 .. n /\ \A id \in DOMAIN d.rows : d.rows[id] \in 1 .. n
  BY DiskFinite
<1> QED
  BY <1>1

\* What a copy does: nothing without the lock, a refresh, or a new entry.
LEMMA CopyCases ==
  ASSUME NEW st, NEW n \in Nat, Working(st, n), StarlessStore(st), NEW c \in Copyable,
         n + 1 <= MaxTime, NEW r, r = InsertToMemory(st, c, n + 1)
  PROVE  \/ r.op = None /\ r.db = st
         \/ \E id \in DOMAIN st.entries : r.op # None /\ r = Refresh(st, id, n + 1)
         \/ r.op # None /\ r = InsertNew(st, c, n + 1)
<1> DEFINE now == n + 1
<1>1. now \in Nat /\ n < now /\ c \in Content /\ \A t \in 1 .. now : t \in 1 .. MaxTime
  BY BoundsNatural DEF Copyable
<1>2. r = InsertToMemory(st, c, now)
  OBVIOUS
<1> HIDE DEF now
<1>3. None \notin CopyOp(now)
  <2>1. CopyOp(now) \subseteq CopyOp(MaxTime)
    BY <1>1 DEF CopyOp
  <2>2. None \notin CopyOp(MaxTime)
    BY PersistenceAssumption DEF CopyOp
  <2> QED
    BY <2>1, <2>2
<1>4. CASE ~OwnsLock
  BY <1>2, <1>4 DEF InsertToMemory, NoOp
<1>5. CASE OwnsLock /\ Hash[c] \in DOMAIN st.hashs
  <2> DEFINE id == st.hashs[Hash[c]]
             op == [type |-> "UpdateTimestamp", id |-> id, new_time |-> now]
  <2>1. id \in DOMAIN st.entries /\ id \in 1 .. n
    BY <1>5, WorkingFields DEF Working, HashsLive
  <2>2. r = Refresh(st, id, now)
    BY <1>2, <1>5 DEF InsertToMemory
  <2> HIDE DEF id
  <2>3. Refresh(st, id, now).op = op
    BY <2>1, RefreshPlain
  <2>4. id \in 1 .. now /\ now \in 1 .. now
    BY <1>1, <2>1 DEF now
  <2>5. op \in CopyOp(now)
    BY <2>4 DEF CopyOp
  <2> HIDE DEF op
  <2> QED
    BY <1>3, <2>1, <2>2, <2>3, <2>5 DEF now
<1>6. CASE OwnsLock /\ Hash[c] \notin DOMAIN st.hashs
  <2> DEFINE grown == Grow(st, c, now)
             gone == Evicted(grown)
             op == [type |-> "InsertNew", id |-> now, time |-> now, data |-> c, evictions |-> gone]
  <2>1. r = InsertNew(st, c, now)
    BY <1>2, <1>6 DEF InsertToMemory
  <2>2. InsertNew(st, c, now).op = op
    BY DEF InsertNew
  <2>3. Good(grown, now, AllTitles)
    BY <1>1, <1>6, GrowKeepsGood DEF Working
  <2>4. gone \in SUBSET DOMAIN grown.entries
    <3> HIDE DEF grown
    <3> QED
      BY <1>1, <2>3, EvictedNoFavorite
  <2>5. DOMAIN grown.entries \subseteq 1 .. now
    BY <2>3 DEF Good, Typed, IsMap
  <2> HIDE DEF grown, gone
  <2>6. gone \in SUBSET (1 .. now) /\ now \in 1 .. now
    BY <1>1, <2>4, <2>5
  <2>7. op \in CopyOp(now)
    BY <2>6 DEF CopyOp
  <2> HIDE DEF op
  <2> QED
    BY <1>3, <2>1, <2>2, <2>7 DEF now
<1> QED
  BY <1>4, <1>5, <1>6

LEMMA CopyKnown ==
  ASSUME PInv, Starless, Known, NEW c \in Copyable, Copy(c)
  PROVE  Known'
<1>1. PICK own : Kept(own, clock, db, disk, jobs, theirs)
  BY KeptFacts
<1> DEFINE r == InsertToMemory(db, c, Now)
           ops == IF r.op = None THEN << >> ELSE << r.op >>
<1>2. Handle(r.db, ops) /\ disk' = disk /\ behind' = behind /\ Now <= MaxTime
  BY DEF Copy, Tick
<1>3. /\ clock \in Nat /\ Now = clock + 1 /\ Now \in Nat /\ Working(db, clock)
      /\ Owner(clock, own) /\ DiskOK(disk, clock, own)
  BY <1>1, KeptFacts DEF Kept, Now
<1>4. \E y \in 1 .. Now : r.op \in Operation(Now, Stamped(own, clock, y)) \cup {None}
  BY <1>3, InsertWorks
<1>5. StarlessStore(db) /\ phase = "idle" /\ ~db.panicked
  BY <1>2 DEF Starless, Handle, Up
<1>6. /\ Now \notin DOMAIN disk.rows
      /\ \A id \in DOMAIN disk.rows : disk.rows[id] # Now
  BY <1>3, RowsPast
<1>7. PICK y \in 1 .. Now : r.op \in Operation(Now, Stamped(own, clock, y)) \cup {None}
  BY <1>4
<1> DEFINE own2 == Stamped(own, clock, y)
<1>8. Owner(Now, own2) /\ jobs \in Seq(Task(Now, own2))
  BY <1>1, <1>7, NowKept
<1>9. r.op \in Operation(Now, own2) \cup {None}
  BY <1>7
<1>10. \/ r.op = None /\ r.db = db
       \/ \E id \in DOMAIN db.entries : r.op # None /\ r = Refresh(db, id, Now)
       \/ r.op # None /\ r = InsertNew(db, c, Now)
  BY <1>2, <1>3, <1>5, CopyCases
<1> HIDE DEF own2, r
<1>11. ops \in Seq(Operation(Now, own2))
  BY <1>9
<1>12. ASSUME ~behind, faults = 0, NEW x \in 1 .. MaxTime
       PROVE  \/ Alike(db, r.db, x)
              \/ SameAt(r.db, disk, x)
              \/ \E k \in DOMAIN ops : Changes(Statements(ops[k]), disk, x)
              \/ Pending(jobs, disk, x)
  <2>1. SameAt(db, disk, x) \/ Pending(jobs, disk, x)
    BY <1>5, <1>12 DEF Known
  <2>2. CASE r.op = None /\ r.db = db
    BY <2>2 DEF Alike
  <2>3. ASSUME NEW id \in DOMAIN db.entries, r.op # None, r = Refresh(db, id, Now)
        PROVE  \/ Alike(db, r.db, x)
               \/ \E k \in DOMAIN ops : Changes(Statements(ops[k]), disk, x)
               \/ Pending(jobs, disk, x)
    <3>1. /\ r.op = [type |-> "UpdateTimestamp", id |-> id, new_time |-> Now]
          /\ \A z : z # id => Alike(db, r.db, z)
      BY <1>3, <1>5, <2>3, RefreshPlain
    <3>2. CASE x = id /\ id \in DOMAIN disk.rows
      <4>1. r.op.type = "UpdateTimestamp" /\ r.op.id = id /\ r.op.new_time = Now
        BY <3>1
      <4>2. r.op \in Operation(Now, own2) /\ r.op.type \in PlainTypes
        BY <1>9, <2>3, <4>1 DEF PlainTypes
      <4>3. Statements(r.op)[1] = Leader(r.op)
        BY <1>3, <1>8, <4>2, PlainStatements
      <4>4. Leader(r.op) = [do |-> "SetCreation", id |-> id, time |-> Now]
        BY <4>1 DEF Leader
      <4>5. Changes(Statements(r.op), disk, x)
        BY <1>6, <3>2, <4>3, <4>4 DEF Changes
      <4>6. 1 \in DOMAIN ops /\ ops[1] = r.op
        BY <2>3
      <4> QED
        BY <4>5, <4>6
    <3>3. CASE x = id /\ id \notin DOMAIN disk.rows
      BY <2>1, <2>3, <3>3 DEF SameAt
    <3> QED
      BY <3>1, <3>2, <3>3
  <2>4. CASE r.op # None /\ r = InsertNew(db, c, Now)
    <3>1. r.op.type = "InsertNew" /\ r.op.id = Now
      BY <1>3, <1>5, <2>4, WorkingFields, InsertNewPlain
    <3>2. r.op \in Operation(Now, own2) /\ r.op.type \in PlainTypes
      BY <1>9, <2>4, <3>1 DEF PlainTypes
    <3>3. Statements(r.op)[1] = Leader(r.op)
      BY <1>3, <1>8, <3>2, PlainStatements
    <3>4. Leader(r.op) = [do |-> "InsertEntry", id |-> Now, time |-> r.op.time]
      BY <3>1 DEF Leader
    <3>5. Changes(Statements(r.op), disk, x)
      BY <1>6, <3>3, <3>4 DEF Changes
    <3>6. 1 \in DOMAIN ops /\ ops[1] = r.op
      BY <2>4
    <3> QED
      BY <3>5, <3>6
  <2> QED
    BY <1>10, <2>2, <2>3, <2>4
<1> HIDE DEF ops
<1> QED
  BY <1>2, <1>3, <1>8, <1>11, <1>12, HandledKnown

\* A handler with one operation, which concerns no favorite.
LEMMA OneHandledKnown ==
  ASSUME Known, NEW n \in Nat, NEW own, Owner(n, own), jobs \in Seq(Task(n, own)),
         NEW new, NEW op \in Operation(n, own), op.type \in PlainTypes, Handle(new, << op >>),
         disk' = disk, behind' = behind,
         ~behind /\ faults = 0 =>
           \A x \in 1 .. MaxTime :
             \/ Alike(db, new, x)
             \/ SameAt(new, disk, x)
             \/ Changes(Statements(op), disk, x)
             \/ Pending(jobs, disk, x)
  PROVE  Known'
<1> DEFINE ops == << op >>
<1>1. ops \in Seq(Operation(n, own)) /\ 1 \in DOMAIN ops /\ ops[1] = op
  OBVIOUS
<1>2. Handle(new, ops)
  OBVIOUS
<1> HIDE DEF ops
<1>3. ASSUME ~behind, faults = 0, NEW x \in 1 .. MaxTime
      PROVE  \/ Alike(db, new, x)
             \/ SameAt(new, disk, x)
             \/ \E k \in DOMAIN ops : Changes(Statements(ops[k]), disk, x)
             \/ Pending(jobs, disk, x)
  <2>1. \/ Alike(db, new, x)
        \/ SameAt(new, disk, x)
        \/ Changes(Statements(op), disk, x)
        \/ Pending(jobs, disk, x)
    BY <1>3
  <2>2. Changes(Statements(op), disk, x) =>
          \E k \in DOMAIN ops : Changes(Statements(ops[k]), disk, x)
    BY <1>1
  <2> QED
    BY <2>1, <2>2
<1> QED
  BY <1>1, <1>2, <1>3, HandledKnown

LEMMA DeleteKnown ==
  ASSUME PInv, Starless, Known, NEW id \in Live, Delete(id)
  PROVE  Known'
<1>1. PICK own : Kept(own, clock, db, disk, jobs, theirs)
  BY KeptFacts
<1> DEFINE r == DeleteFromMemory(db, id)
<1>2. Handle(r.db, << r.op >>) /\ disk' = disk /\ behind' = behind
  BY DEF Delete, Keep
<1>3. clock \in Nat /\ Working(db, clock) /\ Owner(clock, own) /\ jobs \in Seq(Task(clock, own))
  BY <1>1, KeptFacts DEF Kept
<1>4. r.op \in Operation(clock, own)
  BY <1>3, DeleteWorks DEF Live
<1>5. StarlessStore(db) /\ id \in DOMAIN db.entries
  BY DEF Starless, Live
<1>6. /\ r.op = [type |-> "Delete", id |-> id]
      /\ id \notin DOMAIN r.db.entries
      /\ \A x : x # id => Alike(db, r.db, x)
  BY <1>3, <1>5, DeletePlain
<1> HIDE DEF r
<1>7. r.op.type = "Delete" /\ r.op.id = id
  BY <1>6
<1>8. r.op.type \in PlainTypes
  BY <1>7 DEF PlainTypes
<1>9. Statements(r.op)[1] = [do |-> "DeleteEntry", id |-> id]
  BY <1>3, <1>4, <1>7, <1>8, PlainStatements DEF Leader
<1>10. ASSUME NEW x \in 1 .. MaxTime
       PROVE  \/ Alike(db, r.db, x)
              \/ SameAt(r.db, disk, x)
              \/ Changes(Statements(r.op), disk, x)
  BY <1>6, <1>9 DEF SameAt, Changes
<1> QED
  BY <1>2, <1>3, <1>4, <1>8, <1>10, OneHandledKnown

LEMMA ClearHistoryKnown ==
  ASSUME PInv, Starless, Known, ClearHistory
  PROVE  Known'
<1>1. PICK own : Kept(own, clock, db, disk, jobs, theirs)
  BY KeptFacts
<1> DEFINE r == ClearMemory(db)
<1>2. Handle(r.db, << r.op >>) /\ disk' = disk /\ behind' = behind
  BY DEF ClearHistory, Keep
<1>3. clock \in Nat /\ Working(db, clock) /\ Owner(clock, own) /\ jobs \in Seq(Task(clock, own))
  BY <1>1, KeptFacts DEF Kept
<1>4. r.op \in Operation(clock, own)
  BY <1>3, ClearWorks
<1>5. StarlessStore(db) /\ DOMAIN db = Fields
  BY <1>3, WorkingFields DEF Starless
<1>6. /\ r.op = [type |-> "ClearNonFavorites"]
      /\ DOMAIN r.db.entries = {}
  BY <1>5, ClearPlain
<1> HIDE DEF r
<1>7. r.op.type = "ClearNonFavorites"
  BY <1>6
<1>8. r.op.type \in PlainTypes
  BY <1>7 DEF PlainTypes
<1>9. Statements(r.op)[1] = [do |-> "DeleteNonFavorites"]
  BY <1>3, <1>4, <1>7, <1>8, PlainStatements DEF Leader
<1>10. ASSUME NEW x \in 1 .. MaxTime
       PROVE  SameAt(r.db, disk, x) \/ Changes(Statements(r.op), disk, x)
  BY <1>6, <1>9 DEF SameAt, Changes
<1> QED
  BY <1>2, <1>3, <1>4, <1>8, <1>10, OneHandledKnown

LEMMA EditInPlaceKnown ==
  ASSUME PInv, Starless, Known, NEW id \in Live, NEW c \in Copyable, EditInPlace(id, c)
  PROVE  Known'
<1>1. PICK own : Kept(own, clock, db, disk, jobs, theirs)
  BY KeptFacts
<1> DEFINE r == UpdateContentInMemory(db, id, c, Now)
           own2 == Stamped(own, clock, id)
<1>2. /\ ~TakenByOther(db, id, c) /\ Handle(r.db, << r.op >>)
      /\ disk' = disk /\ behind' = behind
  BY DEF EditInPlace
<1>3. clock \in Nat /\ Now = clock + 1 /\ Now \in Nat /\ Working(db, clock) /\ Owner(clock, own)
  BY <1>1, KeptFacts DEF Kept, Now
<1>4. StarlessStore(db) /\ id \in DOMAIN db.entries /\ phase = "idle" /\ ~db.panicked
  BY <1>2 DEF Starless, Live, Handle, Up
<1>5. id \in 1 .. Now /\ r.op \in Operation(Now, own2)
  BY <1>2, <1>3, <1>4, UpdateWorks
<1>6. Owner(Now, own2) /\ jobs \in Seq(Task(Now, own2))
  BY <1>1, <1>5, NowKept
<1>7. /\ r.op.type = "UpdateContent" /\ r.op.id = id
      /\ \A x : x # id => Alike(db, r.db, x)
  <2> HIDE DEF own2
  <2>1. ~TakenByOther(db, id, c)
    BY <1>2
  <2>2. r.op.type = "UpdateContent" /\ r.op.id = id
    BY <1>3, <1>4, <2>1, UpdatePlain
  <2>3. ASSUME NEW x, x # id
        PROVE  Alike(db, r.db, x)
    BY <1>3, <1>4, <2>1, <2>3, UpdatePlain
  <2> QED
    BY <2>2, <2>3
<1> HIDE DEF r, own2
<1>8. r.op.type \in PlainTypes
  BY <1>7 DEF PlainTypes
<1>9. /\ Statements(r.op)[1] = [do |-> "DeleteContent", id |-> id]
      /\ Len(Statements(r.op)) > 1
      /\ Statements(r.op)[2].do = "InsertContent" /\ Statements(r.op)[2].id = id
  BY <1>3, <1>5, <1>6, <1>7, <1>8, PlainStatements DEF Leader
<1>10. ASSUME ~behind, faults = 0, NEW x \in 1 .. MaxTime
       PROVE  \/ Alike(db, r.db, x)
              \/ SameAt(r.db, disk, x)
              \/ Changes(Statements(r.op), disk, x)
              \/ Pending(jobs, disk, x)
  <2>1. CASE x = id /\ id \in DOMAIN disk.rows
    BY <1>9, <2>1 DEF Changes
  <2>2. CASE x = id /\ id \notin DOMAIN disk.rows
    <3>1. SameAt(db, disk, x) \/ Pending(jobs, disk, x)
      BY <1>4, <1>10 DEF Known
    <3> QED
      BY <1>4, <2>2, <3>1 DEF SameAt
  <2> QED
    BY <1>7, <2>1, <2>2
<1> QED
  BY <1>2, <1>3, <1>5, <1>6, <1>8, <1>10, OneHandledKnown

\* Entry id leaves both, and the one that has the content is new in both, unless
\* its row is gone or still to come.
\* A merge that is under way touches only the time of the entry it keeps.
LEMMA MergedLooks ==
  ASSUME NEW d, DOMAIN d = Tables, NEW s, s.do = "SetCreation", NEW e, e = Exec(d, s).disk
  PROVE  /\ DOMAIN e.rows = DOMAIN d.rows /\ e.contents = d.contents
         /\ \A x \in DOMAIN d.rows : e.rows[x] = IF x = s.id THEN s.time ELSE d.rows[x]
<1>1. e = IF s.id \in DOMAIN d.rows THEN [d EXCEPT !.rows[s.id] = s.time] ELSE d
  BY DEF Exec, Ok
<1> QED
  BY <1>1 DEF Tables

LEMMA EditMergesKnown ==
  ASSUME PInv, Starless, Known, NEW id \in Live, NEW c \in Copyable, EditMerges(id, c)
  PROVE  KnownMerging'
<1>1. PICK own : Kept(own, clock, db, disk, jobs, theirs)
  BY KeptFacts
<1> DEFINE new == MergeIntoOther(db, id, c, Now)
           other == db.hashs[Hash[c]]
           left == DeleteRows(disk, {id})
           s == [do |-> "SetCreation", id |-> other, time |-> Now]
           end == Exec(left, s).disk
<1>2. /\ TakenByOther(db, id, c) /\ db' = new /\ disk' = left
      /\ UNCHANGED << jobs, behind, faults >>
      /\ phase = "idle" /\ ~db.panicked
  BY DEF EditMerges, Up
<1>3. /\ clock \in Nat /\ Now = clock + 1 /\ Working(db, clock) /\ Owner(clock, own)
      /\ DiskOK(disk, clock, own) /\ jobs \in Seq(Task(clock, own))
  BY <1>1, KeptFacts DEF Kept, Now
<1>4. StarlessStore(db) /\ id \in DOMAIN db.entries
  BY DEF Starless, Live
<1>5. /\ other # id /\ other \in DOMAIN db.entries
      /\ DOMAIN new.entries = DOMAIN db.entries \ {id}
      /\ new.entries[other].creation = Now
      /\ new.entries[other].content = db.entries[other].content
      /\ \A x : x # id /\ x # other => Alike(db, new, x)
  BY <1>2, <1>3, <1>4, MergePlain
<1>6. MergeStatement' = s
  <2>1. NewestId(new) = other
    BY <1>2, <1>3, <1>4, MergeTops
  <2> QED
    BY <1>2, <1>5, <2>1 DEF MergeStatement
<1>7. /\ DOMAIN left = Tables
      /\ DOMAIN left.rows = DOMAIN disk.rows \ {id}
      /\ \A x \in DOMAIN disk.rows \ {id} : left.rows[x] = disk.rows[x]
      /\ DOMAIN left.contents = DOMAIN disk.contents \ {id}
      /\ \A x \in DOMAIN disk.contents \ {id} : left.contents[x] = disk.contents[x]
  BY DEF DeleteRows, Drop, Tables
<1>8. s.do = "SetCreation" /\ s.id = other /\ s.time = Now
  OBVIOUS
<1>9. Merged' = end
  BY <1>2, <1>6 DEF Merged
<1> HIDE DEF left, new, other, s
<1>10. /\ DOMAIN end.rows = DOMAIN disk.rows \ {id}
       /\ \A x \in DOMAIN disk.rows \ {id} :
            end.rows[x] = IF x = other THEN Now ELSE disk.rows[x]
       /\ DOMAIN end.contents = DOMAIN disk.contents \ {id}
       /\ \A x \in DOMAIN disk.contents \ {id} : end.contents[x] = disk.contents[x]
  BY <1>7, <1>8, MergedLooks
<1> HIDE DEF end
<1> SUFFICES ASSUME ~behind, faults = 0, NEW x \in 1 .. MaxTime
             PROVE  \/ SameAt(db', end, x)
                    \/ \E i \in DOMAIN jobs' : Changes(jobs'[i], left, x) /\ Changes(jobs'[i], end, x)
  BY <1>2, <1>9 DEF KnownMerging
<1>11. SameAt(db, disk, x) \/ Pending(jobs, disk, x)
  BY <1>2 DEF Known
<1>12. CASE x = id
  BY <1>2, <1>5, <1>10, <1>12 DEF SameAt
<1>13. CASE x # id /\ Pending(jobs, disk, x)
  <2>1. PICK i \in DOMAIN jobs : Changes(jobs[i], disk, x)
    BY <1>13 DEF Pending
  <2> DEFINE head == jobs[i][1]
  <2>2. head.do = "SetCreation" => head.time # Now
    <3>1. head \in Statement(clock, own)
      <4>1. jobs[i] \in Task(clock, own) /\ head = Head(jobs[i])
        BY <1>3 DEF Task
      <4> QED
        BY <1>3, <4>1, TasksLeft
    <3> HIDE DEF head
    <3>2. head.do = "SetCreation" => head.time \in 1 .. clock
      BY <3>1 DEF Statement
    <3> QED
      BY <1>3, <3>2
  <2>3. Changes(jobs[i], left, x)
    BY <1>7, <1>13, <2>1 DEF Changes
  <2>4. Changes(jobs[i], end, x)
    BY <1>10, <1>13, <2>1, <2>2 DEF Changes
  <2> QED
    BY <1>2, <2>3, <2>4
<1>14. CASE x # id /\ SameAt(db, disk, x)
  <2>1. x \in DOMAIN end.rows <=> x \in DOMAIN disk.rows
    BY <1>10, <1>14
  <2>2. ContentIn(end, x) = ContentIn(disk, x)
    BY <1>10, <1>14 DEF ContentIn
  <2>3. CASE x = other
    BY <1>2, <1>5, <1>10, <1>14, <2>1, <2>2, <2>3 DEF SameAt
  <2>4. CASE x # other
    BY <1>2, <1>5, <1>10, <1>14, <2>1, <2>2, <2>4 DEF SameAt, Alike
  <2> QED
    BY <2>3, <2>4
<1> QED
  BY <1>11, <1>12, <1>13, <1>14

\* The end of the merge brings about what was known of it.
LEMMA MergeBumpsKnown ==
  ASSUME KnownMerging, MergeBumps
  PROVE  Known'
<1>1. /\ phase = "merging" /\ ~db.panicked /\ disk' = Merged
      /\ UNCHANGED << db, jobs, behind, faults >>
  BY DEF MergeBumps, Merged
<1> SUFFICES ASSUME ~behind, faults = 0, NEW x \in 1 .. MaxTime
             PROVE  SameAt(db, Merged, x) \/ Pending(jobs, Merged, x)
  BY <1>1 DEF Known
<1> QED
  BY <1>1 DEF KnownMerging, Pending

\* A statement that makes a task Change the tables does so when it runs, except for
\* the deletion of a content that is not there.
GoesOn(t, d, id) ==
  /\ Exec(d, t[1]).ok /\ Len(t) > 1
  /\ t[2].do = "InsertContent" /\ t[2].id = id /\ id \in DOMAIN d.rows \ DOMAIN d.contents

InVain(t, d) == Exec(d, t[1]).disk = d

LEMMA HeadWrites ==
  ASSUME NEW d, NEW n \in Nat, NEW own, DiskOK(d, n, own), DOMAIN d.favs = {},
         NEW t, NEW x, Changes(t, d, x), InVain(t, d)
  PROVE  GoesOn(t, d, x)
<1> DEFINE s == t[1]
           r == Exec(d, t[1])
<1>1. r.disk = d
  BY DEF InVain
<1>2. /\ DOMAIN d = Tables
      /\ \A id \in DOMAIN d.rows : d.rows[id] \in 1 .. n
  BY DiskFinite DEF DiskOK, Tables
<1>3. CASE s.do = "InsertEntry" /\ s.id \notin DOMAIN d.rows
  <2>1. r.disk = [d EXCEPT !.rows = Put(@, s.id, s.time)]
    BY <1>3 DEF Exec, Ok
  <2>2. s.id \in DOMAIN r.disk.rows
    BY <1>2, <2>1 DEF Put, Tables
  <2> QED
    BY <1>1, <1>3, <2>2
<1>4. CASE s.do = "DeleteNonFavorites" /\ x \in DOMAIN d.rows
  <2>1. r.disk = DeleteRows(d, NonFavorites(d))
    BY <1>4 DEF Exec, Ok
  <2>2. x \notin DOMAIN r.disk.rows
    BY <1>4, <2>1 DEF DeleteRows, Drop, NonFavorites
  <2> QED
    BY <1>1, <1>4, <2>2
<1>5. CASE s.do = "DeleteEntry" /\ s.id = x /\ x \in DOMAIN d.rows
  <2>1. r.disk = DeleteRows(d, {x})
    BY <1>5 DEF Exec, Ok
  <2>2. x \notin DOMAIN r.disk.rows
    BY <2>1 DEF DeleteRows, Drop
  <2> QED
    BY <1>1, <1>5, <2>2
<1>6. CASE s.do = "SetCreation" /\ s.id = x /\ x \in DOMAIN d.rows /\ d.rows[x] # s.time
  <2>1. r.disk = [d EXCEPT !.rows[x] = s.time]
    BY <1>6 DEF Exec, Ok
  <2>2. r.disk.rows[x] = s.time
    BY <1>2, <1>6, <2>1 DEF Tables
  <2> QED
    BY <1>1, <1>6, <2>2
<1>7. CASE s.do = "InsertContent" /\ s.id = x /\ x \in DOMAIN d.rows \ DOMAIN d.contents
  <2>1. r.disk = [d EXCEPT !.contents = Put(@, x, s.data)]
    BY <1>7 DEF Exec, Ok
  <2>2. x \in DOMAIN r.disk.contents
    BY <1>2, <2>1 DEF Put, Tables
  <2> QED
    BY <1>1, <1>7, <2>2
<1>8. CASE /\ s.do = "DeleteContent" /\ s.id = x /\ x \in DOMAIN d.rows
           /\ Len(t) > 1 /\ t[2].do = "InsertContent" /\ t[2].id = x
  <2>1. r.disk = [d EXCEPT !.contents = Drop(@, {x})] /\ r.ok
    BY <1>8 DEF Exec, Ok
  <2>2. x \notin DOMAIN r.disk.contents
    BY <1>2, <2>1 DEF Drop, Tables
  <2>3. r.ok /\ x \in DOMAIN d.rows \ DOMAIN d.contents
    BY <1>1, <1>8, <2>1, <2>2
  <2> QED
    BY <1>8, <2>3 DEF GoesOn
<1> QED
  BY <1>3, <1>4, <1>5, <1>6, <1>7, <1>8 DEF Changes

\* As long as no commit changes the tables, whoever was about to still is: a task that
\* ran in vain without ending it goes on to insert a content.
LEMMA StillThere ==
  ASSUME PInv, Starless, NEW i \in DOMAIN jobs, RunStatement(i), disk' = disk,
         NEW k \in DOMAIN jobs, NEW x, Changes(jobs[k], disk, x)
  PROVE  \E j \in DOMAIN jobs' :
           \/ jobs'[j] = jobs[k]
           \/ /\ jobs'[j][1].do = "InsertContent" /\ jobs'[j][1].id = x
              /\ x \in DOMAIN disk.rows \ DOMAIN disk.contents
<1>1. PICK own : Kept(own, clock, db, disk, jobs, theirs)
  BY KeptFacts
<1> DEFINE r == Exec(disk, Head(jobs[i]))
<1>2. /\ r.disk = disk
      /\ jobs' = IF r.ok /\ Len(jobs[i]) > 1 THEN [jobs EXCEPT ![i] = Tail(@)]
                 ELSE S!RemoveAt(jobs, i)
  BY DEF RunStatement, Committed
<1>3. /\ clock \in Nat /\ DiskOK(disk, clock, own) /\ jobs \in Seq(Task(clock, own))
      /\ DOMAIN disk.favs = {}
  BY <1>1, KeptFacts DEF Kept, Starless
<1> DEFINE T == Task(clock, own)
           t == jobs[i]
<1>4. /\ i \in 1 .. Len(jobs) /\ Len(jobs) \in Nat /\ DOMAIN jobs = 1 .. Len(jobs)
      /\ t \in Seq(Statement(clock, own)) /\ t # << >>
  BY <1>3 DEF Task
<1>5. Head(jobs[i]) = t[1]
  BY <1>4
<1>6. r = Exec(disk, t[1])
  BY <1>5
<1>7. jobs \in Seq(T)
  BY <1>3
<1> HIDE DEF r, T
<1>8. CASE k # i
  <2>1. CASE r.ok /\ Len(jobs[i]) > 1
    <3>1. k \in DOMAIN jobs' /\ jobs'[k] = jobs[k]
      BY <1>2, <1>8, <2>1
    <3> QED
      BY <3>1
  <2>2. CASE ~(r.ok /\ Len(jobs[i]) > 1)
    <3>1. jobs' = S!RemoveAt(jobs, i)
      BY <1>2, <2>2
    <3>2. /\ DOMAIN jobs' = 1 .. Len(jobs) - 1
          /\ \A j \in 1 .. Len(jobs) - 1 : jobs'[j] = IF j < i THEN jobs[j] ELSE jobs[j + 1]
      BY <1>4, <1>7, <3>1, RemovedElements
    <3>3. CASE k < i
      <4>1. k \in 1 .. Len(jobs) - 1
        BY <1>4, <1>8, <3>3
      <4>2. k \in DOMAIN jobs' /\ jobs'[k] = jobs[k]
        BY <3>2, <3>3, <4>1
      <4> QED
        BY <4>2
    <3>4. CASE ~(k < i)
      <4>1. k - 1 \in 1 .. Len(jobs) - 1 /\ ~(k - 1 < i) /\ (k - 1) + 1 = k
        BY <1>4, <1>8, <3>4
      <4>2. k - 1 \in DOMAIN jobs' /\ jobs'[k - 1] = jobs[k]
        BY <3>2, <4>1
      <4> QED
        BY <4>2
    <3> QED
      BY <3>3, <3>4
  <2> QED
    BY <2>1, <2>2
<1>9. CASE k = i
  <2>1. Changes(t, disk, x)
    BY <1>9
  <2> HIDE DEF t
  <2>2. /\ r.ok /\ Len(t) > 1
        /\ t[2].do = "InsertContent" /\ t[2].id = x
        /\ x \in DOMAIN disk.rows \ DOMAIN disk.contents
    <3>1. clock \in Nat /\ DiskOK(disk, clock, own) /\ DOMAIN disk.favs = {}
      BY <1>3
    <3>2. InVain(t, disk)
      BY <1>2, <1>6 DEF InVain
    <3>3. GoesOn(t, disk, x)
      BY ONLY <2>1, <3>1, <3>2, HeadWrites
    <3> QED
      BY <1>6, <3>3 DEF GoesOn
  <2>3. Tail(t)[1] = t[2]
    BY <1>4, <2>2
  <2>4. i \in DOMAIN jobs' /\ jobs'[i] = Tail(t)
    BY <1>2, <2>2 DEF t
  <2> QED
    BY <2>2, <2>3, <2>4
<1> QED
  BY <1>8, <1>9

LEMMA RunStatementKnown ==
  ASSUME PInv, Starless, Known, KnownMerging, NEW i \in DOMAIN jobs, RunStatement(i)
  PROVE  Known' /\ KnownMerging'
<1>1. /\ Committed(Exec(disk, Head(jobs[i])).disk)
      /\ UNCHANGED << db, phase, faults >>
  BY DEF RunStatement
<1>2. phase \in {"idle", "merging"} /\ ~behind' => ~behind /\ disk' = disk
  BY <1>1 DEF Committed
<1>3. MergeStatement' = MergeStatement
  BY <1>1 DEF MergeStatement
<1>4. ASSUME phase = "idle", ~db.panicked, ~behind', faults = 0, NEW x \in 1 .. MaxTime
      PROVE  SameAt(db', disk', x) \/ Pending(jobs', disk', x)
  <2>1. SameAt(db, disk, x) \/ Pending(jobs, disk, x)
    BY <1>2, <1>4 DEF Known
  <2>2. ASSUME NEW k \in DOMAIN jobs, Changes(jobs[k], disk, x)
        PROVE  Pending(jobs', disk, x)
    <3>1. PICK j \in DOMAIN jobs' :
            \/ jobs'[j] = jobs[k]
            \/ /\ jobs'[j][1].do = "InsertContent" /\ jobs'[j][1].id = x
               /\ x \in DOMAIN disk.rows \ DOMAIN disk.contents
      BY <1>2, <1>4, <2>2, StillThere
    <3>2. Changes(jobs'[j], disk, x)
      BY <2>2, <3>1 DEF Changes
    <3> QED
      BY <3>2 DEF Pending
  <2> QED
    BY <1>1, <1>2, <1>4, <2>1, <2>2 DEF Pending
<1>5. ASSUME phase = "merging", ~db.panicked, ~behind', faults = 0, NEW x \in 1 .. MaxTime
      PROVE  \/ SameAt(db', Merged', x)
             \/ \E j \in DOMAIN jobs' : Changes(jobs'[j], disk', x) /\ Changes(jobs'[j], Merged', x)
  <2>1. disk' = disk /\ ~behind
    BY <1>2, <1>5
  <2>2. Merged' = Merged
    BY <1>3, <2>1 DEF Merged
  <2>3. CASE SameAt(db, Merged, x)
    BY <1>1, <2>2, <2>3
  <2>4. ASSUME NEW k \in DOMAIN jobs, Changes(jobs[k], disk, x), Changes(jobs[k], Merged, x)
        PROVE  \E j \in DOMAIN jobs' : Changes(jobs'[j], disk, x) /\ Changes(jobs'[j], Merged, x)
    <3>1. PICK j \in DOMAIN jobs' :
            \/ jobs'[j] = jobs[k]
            \/ /\ jobs'[j][1].do = "InsertContent" /\ jobs'[j][1].id = x
               /\ x \in DOMAIN disk.rows \ DOMAIN disk.contents
      BY <2>1, <2>4, StillThere
    <3>2. DOMAIN Merged.rows = DOMAIN disk.rows /\ Merged.contents = disk.contents
      <4> DEFINE s == MergeStatement
      <4>1. DOMAIN disk = Tables
        BY KeptFacts DEF Kept, DiskOK, Tables
      <4>2. s.do = "SetCreation" /\ Merged = Exec(disk, s).disk
        BY DEF MergeStatement, Merged
      <4> HIDE DEF s
      <4> QED
        BY <4>1, <4>2, MergedLooks
    <3>3. Changes(jobs'[j], disk, x) /\ Changes(jobs'[j], Merged, x)
      BY <2>4, <3>1, <3>2 DEF Changes
    <3> QED
      BY <3>3
  <2> QED
    BY <1>5, <2>1, <2>2, <2>3, <2>4 DEF KnownMerging
<1> QED
  BY <1>1, <1>4, <1>5 DEF Known, KnownMerging

\* A step that leaves memory and the tasks alone, and the tables unless it says so.
LEMMA IdleKnown ==
  ASSUME Known, KnownMerging, db' = db, jobs' = jobs, phase' = phase, faults' = faults,
         phase \in {"idle", "merging"} /\ ~behind' => ~behind /\ disk' = disk
  PROVE  Known' /\ KnownMerging'
<1>1. MergeStatement' = MergeStatement
  BY DEF MergeStatement
<1>2. disk' = disk => Merged' = Merged
  BY <1>1 DEF Merged
<1>3. Known'
  BY DEF Known
<1>4. KnownMerging'
  BY <1>2 DEF KnownMerging
<1> QED
  BY <1>3, <1>4

LEMMA OthersKnown ==
  ASSUME Known, KnownMerging, OtherActs \/ OtherRuns
  PROVE  Known' /\ KnownMerging'
<1>1. CASE OtherActs
  BY <1>1, IdleKnown DEF OtherActs
<1>2. CASE OtherRuns
  BY <1>2, IdleKnown DEF OtherRuns, Committed
<1> QED
  BY <1>1, <1>2

\* A statement or a SELECT that failed.
LEMMA FaultKnown ==
  ASSUME PInv, faults' = faults + 1
  PROVE  Known' /\ KnownMerging'
<1>1. faults' # 0
  BY DEF PInv, Control
<1> QED
  BY <1>1 DEF Known, KnownMerging

LEMMA WalkListKnown ==
  ASSUME PInv, WalkList
  PROVE  Known'
<1>1. PICK own : Kept(own, clock, db, disk, jobs, theirs)
  BY KeptFacts
<1>2. db'.panicked
  BY <1>1, WorkingFields DEF WalkList, Panic, Kept, Fields
<1> QED
  BY <1>2 DEF Known

\* What the last SELECT of a reload adds to entries that are those of the tables.
LEMMA ReadContentsKnown ==
  ASSUME PInv, Reading, ReadContents
  PROVE  Known'
<1>1. PICK own : Kept(own, clock, db, disk, jobs, theirs)
  BY KeptFacts
<1> DEFINE st == WithContents(db, disk)
<1>2. DOMAIN db = Fields
  BY <1>1, WorkingFields DEF Kept
<1>3. /\ phase = "contents" /\ ~db.panicked /\ disk' = disk /\ behind' = moved
      /\ \/ \E h \in HashIndexes(st) : db' = Search([st EXCEPT !.hashs = h])
         \/ db' = Panic(db)
  BY DEF ReadContents
<1>4. Panic(db).panicked
  BY <1>2 DEF Panic, Fields
<1>5. /\ DOMAIN st = Fields
      /\ DOMAIN st.entries = DOMAIN db.entries
      /\ \A id \in DOMAIN db.entries :
           st.entries[id] = IF id \in DOMAIN disk.contents
                              THEN [db.entries[id] EXCEPT !.content = disk.contents[id]]
                              ELSE db.entries[id]
  BY <1>2 DEF WithContents, Fields
<1> HIDE DEF st
<1> SUFFICES ASSUME ~db'.panicked, ~behind', NEW x \in 1 .. MaxTime
             PROVE  SameAt(db', disk', x)
  BY DEF Known
<1>6. PICK h \in HashIndexes(st) : db' = Search([st EXCEPT !.hashs = h])
  BY <1>3, <1>4
<1>7. db'.entries = st.entries
  <2> DEFINE z == [st EXCEPT !.hashs = h]
  <2>1. DOMAIN z = Fields /\ z.entries = st.entries
    BY <1>5 DEF Fields
  <2>2. db' = Search(z)
    BY <1>6
  <2> HIDE DEF z
  <2>3. Search(z).entries = z.entries
    BY <2>1, SearchLooks
  <2> QED
    BY <2>1, <2>2, <2>3
<1>8. /\ DOMAIN db.entries = DOMAIN disk.rows
      /\ \A id \in DOMAIN db.entries : /\ db.entries[id].creation = disk.rows[id]
                                       /\ db.entries[id].content = Blank
  BY <1>3 DEF Reading
<1>9. ASSUME x \in DOMAIN db.entries
      PROVE  st.entries[x].creation = disk.rows[x] /\ st.entries[x].content = ContentIn(disk, x)
  <2> DEFINE e == db.entries[x]
  <2>1. /\ "creation" \in DOMAIN e /\ "content" \in DOMAIN e
        /\ e.creation = disk.rows[x] /\ e.content = Blank
    BY <1>1, <1>8, <1>9, EntryFields DEF Kept
  <2>2. st.entries[x] = IF x \in DOMAIN disk.contents THEN [e EXCEPT !.content = disk.contents[x]]
                        ELSE e
    BY <1>5, <1>9
  <2> HIDE DEF e
  <2> QED
    BY <2>1, <2>2 DEF ContentIn
<1> QED
  BY <1>3, <1>5, <1>7, <1>8, <1>9 DEF SameAt

\* A start loads what is in the tables, and there are no tasks yet.
LEMMA RestartKnown ==
  ASSUME PInv, Starless, Restart
  PROVE  Known'
<1>1. PICK own : Kept(own, clock, db, disk, jobs, theirs)
  BY KeptFacts
<1>2. /\ db' \in Loaded(disk')
      /\ \E now \in Now .. MaxTime + 2 : disk' = PrunedByNumber(PrunedByAge(disk, now))
  BY DEF Restart
<1>3. DiskOK(disk', clock, own) /\ clock \in Nat
  BY <1>1, <1>2, KeptFacts, PrunedKeepsDisk DEF Kept
<1>4. DOMAIN disk'.favs = {}
  BY RestartStarless DEF Starless
<1> SUFFICES ASSUME ~db'.panicked, NEW x \in 1 .. MaxTime
             PROVE  SameAt(db', disk', x)
  BY DEF Known
<1>5. Same(db', disk')
  BY <1>2, <1>3, <1>4, LoadedStarless DEF Agree
<1> QED
  BY <1>5 DEF Same, SameAt

\* The facts about a reload hold until the tables change under it.
LEMMA NextReading ==
  ASSUME PInv, Reading, [Next]_vars
  PROVE  Reading'
<1>1. CASE UNCHANGED vars
  BY <1>1 DEF vars, others, Reading
<1>2. CASE Handlers \/ MergeBumps \/ MergeFails
  <2>1. phase' \in {"idle", "merging"}
    BY <1>2 DEF MergeBumps, MergeFails, Handlers, Copy, SelectionToFavorite, EditInPlace, EditMerges, Delete,
       ConfirmFavorite, RemoveFavorite, ClearHistory, WalkList, Handle, Up
  <2> QED
    BY <2>1 DEF Reading
<1>3. ASSUME NEW i \in DOMAIN jobs, RunStatement(i)
      PROVE  Reading'
  BY <1>3 DEF RunStatement, Committed, Reading
<1>4. ASSUME NEW i \in DOMAIN jobs, TaskFails(i)
      PROVE  Reading'
  BY <1>4 DEF TaskFails, Reading
<1>5. CASE OtherActs
  BY <1>5 DEF OtherActs, Reading
<1>6. CASE OtherRuns
  BY <1>6 DEF OtherRuns, Committed, Reading
<1>7. CASE ReadEntries
  <2>1. PICK own : Kept(own, clock, db, disk, jobs, theirs)
    BY KeptFacts
  <2>2. db' = WithEntries(db, disk) /\ disk' = disk
    BY <1>7 DEF ReadEntries
  <2>3. DOMAIN db = Fields
    BY <2>1, WorkingFields DEF Kept
  <2>4. /\ DOMAIN db'.entries = DOMAIN disk.rows
        /\ \A id \in DOMAIN disk.rows :
             db'.entries[id] = [creation |-> disk.rows[id], content |-> Blank,
                                is_favorite |-> id \in db.favSet,
                                favorite_title |-> IF id \in db.favSet THEN db.titles[id]
                                                   ELSE None]
    BY <2>2, <2>3 DEF WithEntries, Fields
  <2>5. ASSUME NEW id \in DOMAIN disk.rows
        PROVE  db'.entries[id].creation = disk.rows[id] /\ db'.entries[id].content = Blank
    <3> DEFINE fav == id \in db.favSet
               called == IF fav THEN db.titles[id] ELSE None
               at == disk.rows[id]
               e == db'.entries[id]
    <3>1. e = [creation |-> at, content |-> Blank, is_favorite |-> fav, favorite_title |-> called]
      BY <2>4
    <3> HIDE DEF fav, called, at, e
    <3>2. e.creation = at /\ e.content = Blank
      BY <3>1
    <3> QED
      BY <3>2 DEF e, at
  <2> QED
    BY <2>2, <2>4, <2>5 DEF Reading
<1>8. CASE StartReload \/ ReadFavs \/ ReadContents \/ ReadFails \/ Crash \/ Exit \/ Restart
  <2>1. phase' # "contents"
    BY <1>8 DEF StartReload, ReadFavs, ReadContents, ReadFails, Crash, Exit, Restart
  <2> QED
    BY <2>1 DEF Reading
<1> QED
  BY <1>1, <1>2, <1>3, <1>4, <1>5, <1>6, <1>7, <1>8 DEF Next, Reload

LEMMA NextKnown ==
  ASSUME MaxFavs = 0, PInv, Starless, Reading, Known, KnownMerging, [Next]_vars
  PROVE  Known' /\ KnownMerging'
<1>1. CASE UNCHANGED vars
  BY <1>1, IdleKnown DEF vars
<1>2. CASE Handlers
  <2>1. ASSUME NEW id \in Live, NEW c \in Copyable, EditMerges(id, c)
        PROVE  Known' /\ KnownMerging'
    <3>1. phase' = "merging"
      BY <2>1 DEF EditMerges
    <3> QED
      BY <2>1, <3>1, EditMergesKnown DEF Known
  <2>2. CASE ~\E id \in Live, c \in Copyable : EditMerges(id, c)
    <3>1. phase' = "idle"
      BY <1>2, <2>2 DEF Handlers, Copy, SelectionToFavorite, EditInPlace, Delete,
         ConfirmFavorite, RemoveFavorite, ClearHistory, WalkList, Handle, Up
    <3>2. Known'
      BY <1>2, <2>2, CopyKnown, EditInPlaceKnown, DeleteKnown, ClearHistoryKnown,
         WalkListKnown, NoFavoriteHandlers DEF Handlers
    <3> QED
      BY <3>1, <3>2 DEF KnownMerging
  <2> QED
    BY <2>1, <2>2
<1>3. ASSUME NEW i \in DOMAIN jobs, RunStatement(i) \/ TaskFails(i)
      PROVE  Known' /\ KnownMerging'
  BY <1>3, RunStatementKnown, FaultKnown DEF TaskFails
<1>4. CASE OtherActs \/ OtherRuns
  BY <1>4, OthersKnown
<1>5. CASE StartReload \/ ReadFavs \/ ReadEntries \/ Crash \/ Exit
  <2>1. phase' \notin {"idle", "merging"}
    BY <1>5 DEF StartReload, ReadFavs, ReadEntries, Crash, Exit
  <2> QED
    BY <2>1 DEF Known, KnownMerging
<1>6. CASE ReadFails \/ MergeFails
  BY <1>6, FaultKnown DEF ReadFails, MergeFails
<1>7. CASE ReadContents \/ Restart \/ MergeBumps
  <2>1. phase' = "idle"
    BY <1>7 DEF ReadContents, Restart, MergeBumps
  <2> QED
    BY <1>7, <2>1, ReadContentsKnown, RestartKnown, MergeBumpsKnown DEF KnownMerging
<1> QED
  BY <1>1, <1>2, <1>3, <1>4, <1>5, <1>6, <1>7 DEF Next, Reload

\* Memory that agrees with the tables on every entry mirrors them.
LEMMA KnownMirrors ==
  ASSUME PInv, Starless, Known, Up, jobs = << >>, ~behind, faults = 0
  PROVE  Mirrors
<1>1. PICK own : Kept(own, clock, db, disk, jobs, theirs)
  BY KeptFacts
<1>2. /\ clock \in Nat /\ clock <= MaxTime /\ DiskOK(disk, clock, own) /\ Working(db, clock)
  BY <1>1, KeptFacts DEF Kept
<1>3. \A x \in 1 .. MaxTime : SameAt(db, disk, x)
  BY DEF Known, Pending, Up
<1>4. /\ DOMAIN db.entries \subseteq 1 .. MaxTime
      /\ DOMAIN disk.rows \subseteq 1 .. MaxTime
  <2>1. DOMAIN db.entries \subseteq 1 .. clock /\ DOMAIN disk.rows \subseteq 1 .. clock
    BY <1>2, WorkingFields, DiskFinite
  <2>2. 1 .. clock \subseteq 1 .. MaxTime
    BY <1>2, BoundsNatural
  <2> QED
    BY <2>1, <2>2
<1>5. DOMAIN db.entries = DOMAIN disk.rows
  BY <1>3, <1>4 DEF SameAt
<1>6. db.favs = << >> /\ db.favSet = {} /\ DOMAIN disk.favs = {}
  BY DEF Starless, StarlessStore
<1>7. DOMAIN disk = Tables /\ DOMAIN disk.contents \subseteq DOMAIN disk.rows
  BY <1>2 DEF DiskOK, IsMap, Tables
<1>8. Same(db, disk)
  <2>1. \A id \in DOMAIN db.entries : /\ db.entries[id].creation = disk.rows[id]
                                      /\ db.entries[id].content = ContentIn(disk, id)
    BY <1>3, <1>4 DEF SameAt
  <2>2. DOMAIN db.favs = {}
    BY <1>6
  <2> QED
    BY <1>5, <1>6, <1>7, <2>1, <2>2 DEF Same
<1>9. FavsLive(db)
  BY <1>6 DEF FavsLive, Range, OnceEach
<1>10. Agree(db, clock, disk)
  BY <1>2, <1>8, <1>9 DEF Agree, Sound, Working, Up
<1> QED
  BY <1>2, <1>10, SameMirrors

\* Without favorites no update is missed: in whichever order the tasks of both
\* instances commit, between whichever SELECTs of a reload, with whatever edits that
\* merge past data_version, crashes and restarts, a memory that the store believes
\* to be current is current once no task is left, unless one of them failed.
THEOREM NoMissedUpdateHolds ==
  ASSUME MaxFavs = 0
  PROVE  Spec => []NoMissedUpdate
<1>1. Init => Starless /\ Reading /\ Known /\ KnownMerging
  <2> SUFFICES ASSUME Init PROVE Starless /\ Reading /\ Known /\ KnownMerging
    OBVIOUS
  <2>1. /\ db = EmptyStore /\ disk = EmptyDisk /\ jobs = << >> /\ theirs = << >>
        /\ phase = "idle"
    BY DEF Init
  <2>2. Starless
    BY <2>1 DEF Starless, StarlessStore, EmptyStore, EmptyDisk, Empty, AllPlain, Plain
  <2>3. Reading /\ KnownMerging
    BY <2>1 DEF Reading, KnownMerging
  <2>4. Known
    BY <2>1 DEF Known, SameAt, EmptyStore, EmptyDisk, Empty
  <2> QED
    BY <2>2, <2>3, <2>4
<1>2. PInv /\ Starless /\ Reading /\ Known /\ KnownMerging /\ [Next]_vars => (Starless /\ Reading /\ Known /\ KnownMerging)'
  BY NextStarless, NextReading, NextKnown
<1>3. PInv /\ Starless /\ Reading /\ Known /\ KnownMerging => NoMissedUpdate
  BY KnownMirrors DEF NoMissedUpdate
<1> QED
  BY <1>1, <1>2, <1>3, PInvHolds, PTL DEF Spec
=============================================================================
