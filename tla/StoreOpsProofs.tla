--------------------------- MODULE StoreOpsProofs ---------------------------
(***************************************************************************)
(* What the operations of StoreOps keep, for every set of contents, every  *)
(* limit and every store they may be called on.  The theorems about the    *)
(* state machines built from these operations (HistoryProofs,              *)
(* PersistenceProofs) rest on these lemmas.                                *)
(***************************************************************************)
EXTENDS StoreOps, FiniteSetTheorems, WellFoundedInduction, TLAPS

Fields == {"entries", "hashs", "times", "favs", "favSet", "titles",
           "query", "filtered", "panicked"}

EntryUpTo(n, Title) ==
  [creation : 1 .. n, content : Content,
   is_favorite : BOOLEAN, favorite_title : Title]

\* st is a store all of whose ids and times are in 1 .. n and whose titles, None
\* included, are in Title.
Typed(st, n, Title) ==
  /\ None \in Title
  /\ DOMAIN st = Fields
  /\ IsMap(st.entries, 1 .. n, EntryUpTo(n, Title))
  /\ IsMap(st.hashs, Hashes, 1 .. n)
  /\ IsMap(st.times, 1 .. n, 1 .. n)
  /\ st.favs \in Seq(1 .. n)
  /\ st.favSet \subseteq 1 .. n
  /\ IsMap(st.titles, 1 .. n, Title)

TimesGood(st) ==
  /\ \A id \in DOMAIN st.entries :
       /\ st.entries[id].creation \in DOMAIN st.times
       /\ st.times[st.entries[id].creation] = id
  /\ \A t \in DOMAIN st.times :
       /\ st.times[t] \in DOMAIN st.entries
       /\ st.entries[st.times[t]].creation = t

HashsGood(st) ==
  \A id \in DOMAIN st.entries :
    /\ Hash[st.entries[id].content] \in DOMAIN st.hashs
    /\ st.hashs[Hash[st.entries[id].content]] = id

FavsGood(st) ==
  /\ st.favSet \subseteq Range(st.favs)
  /\ \A id \in st.favSet : id \in DOMAIN st.titles
  /\ \A id \in DOMAIN st.entries :
       /\ st.entries[id].is_favorite <=> id \in st.favSet
       /\ id \in st.favSet => st.entries[id].favorite_title = st.titles[id]

Good(st, n, Title) == Typed(st, n, Title) /\ TimesGood(st) /\ FavsGood(st)

-----------------------------------------------------------------------------
(* Operators of StoreOps                                                   *)

\* Put keeps the type of a map.
LEMMA PutIsMap ==
  ASSUME NEW f, NEW K, NEW V, NEW k \in K, NEW v \in V, IsMap(f, K, V)
  PROVE  IsMap(Put(f, k, v), K, V)
  BY DEF IsMap, Put

\* Drop keeps the type of a map.
LEMMA DropIsMap ==
  ASSUME NEW f, NEW K, NEW V, NEW S, IsMap(f, K, V)
  PROVE  IsMap(Drop(f, S), K, V)
  BY DEF IsMap, Drop

\* A search changes nothing but its own result.
LEMMA SearchKeepsGood ==
  ASSUME NEW st, NEW n \in Nat, NEW Title, Good(st, n, Title)
  PROVE  /\ Good(Search(st), n, Title)
         /\ HashsGood(st) => HashsGood(Search(st))
<1>1. DOMAIN Search(st) = DOMAIN st
  BY DEF Search, Panic
<1>2. /\ Search(st).entries = st.entries
      /\ Search(st).hashs = st.hashs
      /\ Search(st).times = st.times
      /\ Search(st).favs = st.favs
      /\ Search(st).favSet = st.favSet
      /\ Search(st).titles = st.titles
  BY DEF Search, Panic, Good, Typed, Fields
<1> QED
  BY <1>1, <1>2 DEF Good, Typed, TimesGood, HashsGood, FavsGood

\* Marking the store as dead changes nothing else.
LEMMA PanicKeepsGood ==
  ASSUME NEW st, NEW n \in Nat, NEW Title, Good(st, n, Title)
  PROVE  /\ Good(Panic(st), n, Title)
         /\ HashsGood(st) => HashsGood(Panic(st))
  BY DEF Panic, Good, Typed, TimesGood, HashsGood, FavsGood, Fields

\* A store that is good up to n is good up to any later time.
LEMMA GoodLater ==
  ASSUME NEW st, NEW n \in Nat, NEW Title, NEW m \in Nat, n <= m, Good(st, n, Title)
  PROVE  Good(st, m, Title)
<1>1. 1 .. n \subseteq 1 .. m
  OBVIOUS
<1>2. EntryUpTo(n, Title) \subseteq EntryUpTo(m, Title)
  BY <1>1 DEF EntryUpTo
<1>3. IsMap(st.entries, 1 .. m, EntryUpTo(m, Title))
  BY <1>1, <1>2 DEF IsMap, Good, Typed
<1>4. IsMap(st.hashs, Hashes, 1 .. m) /\ IsMap(st.times, 1 .. m, 1 .. m)
  BY <1>1 DEF IsMap, Good, Typed
<1>5. st.favs \in Seq(1 .. m)
  BY <1>1 DEF Good, Typed
<1>6. IsMap(st.titles, 1 .. m, Title)
  BY <1>1 DEF IsMap, Good, Typed
<1> QED
  BY <1>1, <1>3, <1>4, <1>5, <1>6 DEF Good, Typed

\* Removing entries from the three maps.
LEMMA UnindexKeepsGood ==
  ASSUME NEW st, NEW n \in Nat, NEW Title, Good(st, n, Title),
         NEW ids \in SUBSET DOMAIN st.entries
  PROVE  /\ Good(Unindex(st, ids), n, Title)
         /\ HashsGood(st) => HashsGood(Unindex(st, ids))
         /\ DOMAIN Unindex(st, ids).entries = DOMAIN st.entries \ ids
<1> DEFINE left == Unindex(st, ids)
           hs == {Hash[st.entries[id].content] : id \in ids}
           ts == {st.entries[id].creation : id \in ids}
<1>1. /\ DOMAIN left = Fields
      /\ left.entries = Drop(st.entries, ids)
      /\ left.hashs = Drop(st.hashs, hs)
      /\ left.times = Drop(st.times, ts)
      /\ left.favs = st.favs
      /\ left.favSet = st.favSet
      /\ left.titles = st.titles
  BY DEF Unindex, Good, Typed, Fields
<1>2. DOMAIN left.entries = DOMAIN st.entries \ ids
  BY <1>1 DEF Drop
<1>3. Typed(left, n, Title)
  <2>0. /\ IsMap(st.entries, 1 .. n, EntryUpTo(n, Title))
        /\ IsMap(st.hashs, Hashes, 1 .. n)
        /\ IsMap(st.times, 1 .. n, 1 .. n)
    BY DEF Good, Typed
  <2>1. IsMap(Drop(st.entries, ids), 1 .. n, EntryUpTo(n, Title))
    BY <2>0, DropIsMap
  <2>2. IsMap(Drop(st.hashs, hs), Hashes, 1 .. n)
    BY <2>0, DropIsMap
  <2>3. IsMap(Drop(st.times, ts), 1 .. n, 1 .. n)
    BY <2>0, DropIsMap
  <2> HIDE DEF left
  <2> QED
    BY <1>1, <2>1, <2>2, <2>3 DEF Good, Typed
<1>4. \A id \in DOMAIN left.entries : left.entries[id] = st.entries[id]
  BY <1>1, <1>2 DEF Drop
<1>5. \A id \in DOMAIN left.entries : st.entries[id].creation \notin ts
  BY <1>2 DEF Good, TimesGood
<1>7. TimesGood(left)
  <2>1. \A id \in DOMAIN left.entries :
          /\ left.entries[id].creation \in DOMAIN left.times
          /\ left.times[left.entries[id].creation] = id
    BY <1>1, <1>2, <1>4, <1>5 DEF Good, TimesGood, Drop
  <2>2. \A t \in DOMAIN left.times :
          /\ left.times[t] = st.times[t]
          /\ t \in DOMAIN st.times
          /\ t \notin ts
    BY <1>1 DEF Drop
  <2>3. \A t \in DOMAIN left.times : left.times[t] \in DOMAIN left.entries
    BY <1>2, <2>2 DEF Good, TimesGood
  <2> QED
    BY <1>4, <2>1, <2>2, <2>3 DEF Good, TimesGood
<1>8. ASSUME HashsGood(st)
      PROVE  HashsGood(left)
  <2> SUFFICES ASSUME NEW id \in DOMAIN left.entries
               PROVE  /\ Hash[left.entries[id].content] \in DOMAIN left.hashs
                      /\ left.hashs[Hash[left.entries[id].content]] = id
    BY DEF HashsGood
  <2> DEFINE h == Hash[st.entries[id].content]
  <2>1. h \in DOMAIN st.hashs /\ st.hashs[h] = id /\ h \notin hs
    BY <1>2, <1>8 DEF HashsGood
  <2>2. h \in DOMAIN left.hashs /\ left.hashs[h] = id
    BY <1>1, <2>1 DEF Drop
  <2> QED
    BY <1>4, <2>2
<1>9. FavsGood(left)
  BY <1>1, <1>2, <1>4 DEF Good, FavsGood
<1> HIDE DEF left
<1> QED
  BY <1>2, <1>3, <1>7, <1>8, <1>9 DEF Good, left

\* An entry moved to a time later than all others.
LEMMA BumpKeepsGood ==
  ASSUME NEW st, NEW n \in Nat, NEW Title, Good(st, n, Title), NEW id \in DOMAIN st.entries,
         NEW now \in Nat, n < now
  PROVE  /\ Good(Bump(st, id, now), now, Title)
         /\ HashsGood(st) => HashsGood(Bump(st, id, now))
         /\ DOMAIN Bump(st, id, now).entries = DOMAIN st.entries
<1> DEFINE new == Bump(st, id, now)
           old == st.entries[id].creation
           rest == Drop(st.times, {old})
<1>0. Good(st, now, Title)
  BY GoodLater
<1>1. /\ IsMap(st.entries, 1 .. now, EntryUpTo(now, Title))
      /\ IsMap(st.times, 1 .. now, 1 .. now)
      /\ id \in 1 .. now /\ now \in 1 .. now
  BY <1>0 DEF Good, Typed, IsMap
<1>2. /\ DOMAIN new = Fields
      /\ new.entries = [st.entries EXCEPT ![id].creation = now]
      /\ new.times = Put(rest, now, id)
      /\ new.hashs = st.hashs
      /\ new.favs = st.favs
      /\ new.favSet = st.favSet
      /\ new.titles = st.titles
  BY DEF Bump, Good, Typed, Fields
<1>3. /\ DOMAIN new.entries = DOMAIN st.entries
      /\ \A x \in DOMAIN st.entries : x # id => new.entries[x] = st.entries[x]
      /\ new.entries[id] = [st.entries[id] EXCEPT !.creation = now]
  BY <1>1, <1>2 DEF IsMap
<1>4. st.entries[id] \in EntryUpTo(now, Title)
  BY <1>1 DEF IsMap
<1>5. /\ new.entries[id] \in EntryUpTo(now, Title)
      /\ new.entries[id].creation = now
      /\ new.entries[id].content = st.entries[id].content
      /\ new.entries[id].is_favorite = st.entries[id].is_favorite
      /\ new.entries[id].favorite_title = st.entries[id].favorite_title
  BY <1>1, <1>3, <1>4 DEF EntryUpTo
<1>6. IsMap(new.entries, 1 .. now, EntryUpTo(now, Title))
  BY <1>1, <1>2, <1>3, <1>5 DEF IsMap
<1>7. /\ IsMap(rest, 1 .. now, 1 .. now)
      /\ DOMAIN rest = DOMAIN st.times \ {old}
      /\ \A x \in DOMAIN st.times \ {old} : rest[x] = st.times[x]
  BY <1>1, DropIsMap DEF Drop
<1>8. /\ IsMap(new.times, 1 .. now, 1 .. now)
      /\ DOMAIN new.times = DOMAIN rest \cup {now}
      /\ new.times[now] = id
      /\ \A x \in DOMAIN rest : x # now => new.times[x] = rest[x]
  <2>1. IsMap(rest, 1 .. now, 1 .. now) /\ id \in 1 .. now /\ now \in 1 .. now
    BY <1>1, <1>7
  <2>2. IsMap(Put(rest, now, id), 1 .. now, 1 .. now)
    BY ONLY <2>1, PutIsMap
  <2> HIDE DEF rest
  <2> QED
    BY <1>2, <2>2 DEF Put
<1>9. now \notin DOMAIN st.times
  <2>1. DOMAIN st.times \subseteq 1 .. n
    BY DEF Good, Typed, IsMap
  <2> QED
    BY <2>1
<1> HIDE DEF new, rest
<1>10. Typed(new, now, Title)
  BY <1>0, <1>2, <1>6, <1>8 DEF Good, Typed
<1>11. TimesGood(new)
  <2>1. \A x \in DOMAIN st.entries :
          /\ st.entries[x].creation \in DOMAIN st.times
          /\ st.times[st.entries[x].creation] = x
    BY DEF Good, TimesGood
  <2>2. \A x \in DOMAIN new.entries :
          /\ new.entries[x].creation \in DOMAIN new.times
          /\ new.times[new.entries[x].creation] = x
    <3> SUFFICES ASSUME NEW x \in DOMAIN st.entries
                 PROVE  /\ new.entries[x].creation \in DOMAIN new.times
                        /\ new.times[new.entries[x].creation] = x
      BY <1>3
    <3>1. CASE x = id
      BY <1>5, <1>8, <3>1
    <3>2. CASE x # id
      <4>1. st.entries[x].creation # old
        BY <2>1, <3>2
      <4>2. /\ st.entries[x].creation \in DOMAIN rest
            /\ rest[st.entries[x].creation] = x
            /\ st.entries[x].creation # now
        BY <1>7, <1>9, <2>1, <4>1
      <4> QED
        BY <1>3, <1>8, <3>2, <4>2
    <3> QED
      BY <3>1, <3>2
  <2>3. \A t \in DOMAIN st.times :
          st.times[t] \in DOMAIN st.entries /\ st.entries[st.times[t]].creation = t
    BY DEF Good, TimesGood
  <2>4. \A t \in DOMAIN new.times :
          new.times[t] \in DOMAIN new.entries /\ new.entries[new.times[t]].creation = t
    <3> SUFFICES ASSUME NEW t \in DOMAIN new.times
                 PROVE  /\ new.times[t] \in DOMAIN new.entries
                        /\ new.entries[new.times[t]].creation = t
      OBVIOUS
    <3>1. CASE t = now
      BY <1>3, <1>5, <1>8, <3>1
    <3>2. CASE t # now
      <4>1. /\ t \in DOMAIN st.times /\ t # old
            /\ new.times[t] = st.times[t]
        BY <1>7, <1>8, <3>2
      <4>2. st.times[t] # id
        BY <2>3, <4>1
      <4> QED
        BY <1>3, <2>3, <4>1, <4>2
    <3> QED
      BY <3>1, <3>2
  <2> QED
    BY <2>2, <2>4 DEF TimesGood
<1>12. HashsGood(st) => HashsGood(new)
  BY <1>2, <1>3, <1>5 DEF HashsGood
<1>13. FavsGood(new)
  BY <1>2, <1>3, <1>5 DEF Good, FavsGood
<1> QED
  BY <1>3, <1>10, <1>11, <1>12, <1>13 DEF Good, new

\* A new entry, under a hash no entry has.
LEMMA GrowKeepsGood ==
  ASSUME NEW st, NEW n \in Nat, NEW Title, Good(st, n, Title), NEW c \in Content,
         Hash[c] \notin DOMAIN st.hashs, NEW now \in Nat, n < now
  PROVE  /\ Good(Grow(st, c, now), now, Title)
         /\ HashsGood(st) => HashsGood(Grow(st, c, now))
         /\ DOMAIN Grow(st, c, now).entries = DOMAIN st.entries \cup {now}
<1> DEFINE new == Grow(st, c, now)
<1>0. Good(st, now, Title)
  BY GoodLater
<1>1. /\ IsMap(st.entries, 1 .. now, EntryUpTo(now, Title))
      /\ IsMap(st.hashs, Hashes, 1 .. now)
      /\ IsMap(st.times, 1 .. now, 1 .. now)
      /\ now \in 1 .. now
      /\ Hash[c] \in Hashes
  BY <1>0 DEF Good, Typed, Hashes
<1>2. NewEntry(c, now) \in EntryUpTo(now, Title)
  BY DEF NewEntry, EntryUpTo, Good, Typed
<1>3. /\ DOMAIN new = Fields
      /\ new.entries = Put(st.entries, now, NewEntry(c, now))
      /\ new.hashs = Put(st.hashs, Hash[c], now)
      /\ new.times = Put(st.times, now, now)
      /\ new.favs = st.favs
      /\ new.favSet = st.favSet
      /\ new.titles = st.titles
  BY DEF Grow, Good, Typed, Fields
<1> HIDE DEF new
<1>4. /\ now \notin DOMAIN st.entries
      /\ now \notin DOMAIN st.times
      /\ now \notin st.favSet
  <2>1. /\ DOMAIN st.entries \subseteq 1 .. n
        /\ DOMAIN st.times \subseteq 1 .. n
        /\ st.favSet \subseteq 1 .. n
    BY DEF Good, Typed, IsMap
  <2> QED
    BY <2>1
<1>5. Typed(new, now, Title)
  <2>1. IsMap(Put(st.entries, now, NewEntry(c, now)), 1 .. now, EntryUpTo(now, Title))
    BY ONLY <1>1, <1>2, PutIsMap
  <2>2. IsMap(Put(st.hashs, Hash[c], now), Hashes, 1 .. now)
    BY ONLY <1>1, PutIsMap
  <2>3. IsMap(Put(st.times, now, now), 1 .. now, 1 .. now)
    BY ONLY <1>1, PutIsMap
  <2> QED
    BY <1>0, <1>3, <2>1, <2>2, <2>3 DEF Good, Typed
<1>6. /\ DOMAIN new.entries = DOMAIN st.entries \cup {now}
      /\ new.entries[now].creation = now
      /\ new.entries[now].content = c
      /\ new.entries[now].is_favorite = FALSE
      /\ \A id \in DOMAIN st.entries : id # now /\ new.entries[id] = st.entries[id]
  BY <1>3, <1>4 DEF Put, NewEntry
<1>7. /\ DOMAIN new.times = DOMAIN st.times \cup {now}
      /\ new.times[now] = now
      /\ \A t \in DOMAIN st.times : t # now /\ new.times[t] = st.times[t]
  BY <1>3, <1>4 DEF Put
<1>8. /\ DOMAIN new.hashs = DOMAIN st.hashs \cup {Hash[c]}
      /\ new.hashs[Hash[c]] = now
      /\ \A h \in DOMAIN st.hashs : h # Hash[c] /\ new.hashs[h] = st.hashs[h]
  BY <1>3 DEF Put
<1>9. TimesGood(new)
  BY <1>6, <1>7 DEF Good, TimesGood
<1>10. HashsGood(st) => HashsGood(new)
  BY <1>6, <1>8 DEF HashsGood
<1>11. FavsGood(new)
  BY <1>3, <1>4, <1>6 DEF Good, FavsGood
<1> QED
  BY <1>5, <1>6, <1>9, <1>10, <1>11 DEF Good, new

\* insert_to_memory, on every path: locked, duplicate, new with evictions.
LEMMA InsertKeepsGood ==
  ASSUME NEW st, NEW n \in Nat, NEW Title, Good(st, n, Title), NEW c \in Content,
         NEW now \in Nat, n < now
  PROVE  /\ Good(InsertToMemory(st, c, now).db, now, Title)
         /\ HashsGood(st) => HashsGood(InsertToMemory(st, c, now).db)
<1>1. CASE ~OwnsLock
  BY <1>1, GoodLater DEF InsertToMemory, NoOp
<1>2. CASE OwnsLock /\ Hash[c] \in DOMAIN st.hashs
  <2> DEFINE id == st.hashs[Hash[c]]
  <2>1. InsertToMemory(st, c, now) = Refresh(st, id, now)
    BY <1>2 DEF InsertToMemory
  <2>2. CASE id \notin DOMAIN st.entries \/ st.entries[id].creation \notin DOMAIN st.times
    <3>1. InsertToMemory(st, c, now).db = Panic(st)
      BY <2>1, <2>2 DEF Refresh, NoOp
    <3> QED
      BY <3>1, PanicKeepsGood, GoodLater
  <2>3. CASE ~(id \notin DOMAIN st.entries \/ st.entries[id].creation \notin DOMAIN st.times)
    <3>1. InsertToMemory(st, c, now).db = Search(Bump(st, id, now))
      BY <2>1, <2>3 DEF Refresh
    <3>2. /\ Good(Bump(st, id, now), now, Title)
          /\ HashsGood(st) => HashsGood(Bump(st, id, now))
      BY <2>3, BumpKeepsGood
    <3> QED
      BY <3>1, <3>2, SearchKeepsGood
  <2> QED
    BY <2>2, <2>3
<1>3. CASE OwnsLock /\ Hash[c] \notin DOMAIN st.hashs
  <2> DEFINE grown == Grow(st, c, now)
             gone == Evicted(grown)
  <2>1. Good(grown, now, Title) /\ (HashsGood(st) => HashsGood(grown))
    BY <1>3, GrowKeepsGood
  <2>2. gone \in SUBSET DOMAIN grown.entries
    <3>1. \A t \in DOMAIN grown.times : grown.times[t] \in DOMAIN grown.entries
      BY <2>1 DEF Good, TimesGood
    <3> HIDE DEF grown
    <3> QED
      BY <3>1 DEF Evicted, Oldest, Evictable
  <2>3. InsertToMemory(st, c, now).db = Search(Unindex(grown, gone))
    BY <1>3 DEF InsertToMemory, InsertNew
  <2> HIDE DEF grown, gone
  <2>4. /\ Good(Unindex(grown, gone), now, Title)
        /\ HashsGood(st) => HashsGood(Unindex(grown, gone))
    BY <2>1, <2>2, UnindexKeepsGood
  <2> QED
    BY <2>3, <2>4, SearchKeepsGood
<1> QED
  BY <1>1, <1>2, <1>3

-----------------------------------------------------------------------------
(* The favorites                                                           *)

\* A set of naturals that has an element has a least one.
LEMMA LeastNatural ==
  ASSUME NEW T \in SUBSET Nat, T # {}
  PROVE  \E m \in T : \A k \in T : m <= k
<1> DEFINE R == OpToRel(<, Nat)
<1>1. IsWellFoundedOn(R, Nat)
  BY NatLessThanWellFounded
<1>2. \A x, y \in Nat : y < x => << y, x >> \in R
  BY DEF OpToRel
<1> HIDE DEF R
<1>3. PICK m \in T : \A k \in T : ~ (<< k, m >> \in R)
  BY <1>1, WFMin
<1>4. \A k \in T : ~(k < m)
  BY <1>2, <1>3
<1> QED
  BY <1>4

\* Removing an element's first occurrence loses no other element.
LEMMA WithoutFirstKeepsOthers ==
  ASSUME NEW S, NEW s \in Seq(S), NEW e
  PROVE  /\ WithoutFirst(s, e) \in Seq(S)
         /\ \A x \in Range(s) : x # e => x \in Range(WithoutFirst(s, e))
<1>1. CASE e \notin Range(s)
  BY <1>1 DEF WithoutFirst
<1>2. CASE e \in Range(s)
  <2> DEFINE k == FirstIndex(s, e)
             r == SubSeq(s, 1, k - 1) \o SubSeq(s, k + 1, Len(s))
  <2>1. k \in 1 .. Len(s) /\ s[k] = e
    <3> DEFINE T == {i \in DOMAIN s : s[i] = e}
    <3>1. T \in SUBSET Nat /\ T # {}
      BY <1>2 DEF Range
    <3>2. PICK m \in T : \A j \in T : m <= j
      BY <3>1, LeastNatural
    <3>3. m \in DOMAIN s /\ s[m] = e /\ \A j \in 1 .. m - 1 : s[j] # e
      BY <3>2
    <3> QED
      BY <3>3 DEF FirstIndex
  <2>2. WithoutFirst(s, e) = r
    BY <1>2 DEF WithoutFirst
  <2>3. r \in Seq(S)
    BY <2>1
  <2>4. ASSUME NEW x \in Range(s), x # e
        PROVE  x \in Range(r)
    <3>1. PICK i \in 1 .. Len(s) : s[i] = x
      BY DEF Range
    <3> DEFINE a == SubSeq(s, 1, k - 1)
               z == SubSeq(s, k + 1, Len(s))
    <3>a. /\ a \in Seq(S) /\ Len(a) = k - 1
          /\ \A j \in 1 .. k - 1 : a[j] = s[j]
      BY <2>1
    <3>z. /\ z \in Seq(S) /\ Len(z) = Len(s) - k
          /\ \A j \in 1 .. Len(s) - k : z[j] = s[k + j]
      BY <2>1
    <3> HIDE DEF a, z
    <3>2. CASE i < k
      <4>1. i \in 1 .. Len(a) /\ a[i] = x
        BY <2>1, <3>1, <3>2, <3>a
      <4>2. i \in DOMAIN (a \o z) /\ (a \o z)[i] = x
        BY <4>1, <3>a, <3>z
      <4> QED
        BY <4>2 DEF Range, a, z
    <3>3. CASE i > k
      <4>1. i - k \in 1 .. Len(z) /\ z[i - k] = x
        BY <2>1, <3>1, <3>3, <3>z
      <4>2. i - 1 \in DOMAIN (a \o z) /\ (a \o z)[i - 1] = x
        BY <2>1, <4>1, <3>a, <3>z
      <4> QED
        BY <4>2 DEF Range, a, z
    <3> QED
      BY <2>1, <2>4, <3>1, <3>2, <3>3
  <2> QED
    BY <2>2, <2>3, <2>4
<1> QED
  BY <1>1, <1>2

\* Forgetting a favorite whose entry is gone.
LEMMA FavRemoveKeepsGood ==
  ASSUME NEW st, NEW n \in Nat, NEW Title, Good(st, n, Title), NEW id, id \notin DOMAIN st.entries
  PROVE  /\ Good(FavRemove(st, id), n, Title)
         /\ HashsGood(st) => HashsGood(FavRemove(st, id))
<1> DEFINE new == FavRemove(st, id)
<1>1. /\ DOMAIN new = Fields
      /\ new.favs = WithoutFirst(st.favs, id)
      /\ new.favSet = st.favSet \ {id}
      /\ new.titles = Drop(st.titles, {id})
      /\ new.entries = st.entries
      /\ new.hashs = st.hashs
      /\ new.times = st.times
  BY DEF FavRemove, Good, Typed, Fields
<1> HIDE DEF new
<1>2. /\ st.favs \in Seq(1 .. n)
      /\ IsMap(st.titles, 1 .. n, Title)
  BY DEF Good, Typed
<1>3. /\ WithoutFirst(st.favs, id) \in Seq(1 .. n)
      /\ \A x \in Range(st.favs) : x # id => x \in Range(WithoutFirst(st.favs, id))
  BY <1>2, WithoutFirstKeepsOthers
<1>4. IsMap(Drop(st.titles, {id}), 1 .. n, Title)
  BY ONLY <1>2, DropIsMap
<1>5. Typed(new, n, Title)
  BY <1>1, <1>3, <1>4 DEF Good, Typed
<1>6. FavsGood(new)
  BY <1>1, <1>3 DEF Good, FavsGood, Drop
<1> QED
  BY <1>1, <1>5, <1>6 DEF Good, TimesGood, HashsGood, new

\* The removal of an entry, favorite or not.
LEMMA RemoveKeepsGood ==
  ASSUME NEW st, NEW n \in Nat, NEW Title, Good(st, n, Title), NEW id \in DOMAIN st.entries
  PROVE  /\ Good(Remove(st, id), n, Title)
         /\ HashsGood(st) => HashsGood(Remove(st, id))
         /\ DOMAIN Remove(st, id).entries = DOMAIN st.entries \ {id}
<1> DEFINE left == Unindex(st, {id})
<1>1. /\ Good(left, n, Title) /\ DOMAIN left.entries = DOMAIN st.entries \ {id}
      /\ HashsGood(st) => HashsGood(left)
  BY UnindexKeepsGood
<1>2. Remove(st, id) = left \/ Remove(st, id) = FavRemove(left, id)
  BY DEF Remove
<1> HIDE DEF left
<1>3. /\ Good(FavRemove(left, id), n, Title)
      /\ HashsGood(left) => HashsGood(FavRemove(left, id))
  BY <1>1, FavRemoveKeepsGood
<1>4. FavRemove(left, id).entries = left.entries
  BY <1>1 DEF FavRemove, Good, Typed, Fields
<1> QED
  BY <1>1, <1>2, <1>3, <1>4

\* new differs from st in the favorite fields of entry id only.
Marked(st, new, id, fav, title) ==
  /\ DOMAIN new.entries = DOMAIN st.entries
  /\ \A x \in DOMAIN st.entries :
       /\ new.entries[x].creation = st.entries[x].creation
       /\ new.entries[x].content = st.entries[x].content
       /\ x # id => new.entries[x] = st.entries[x]
       /\ x = id => /\ new.entries[x].is_favorite = fav
                    /\ new.entries[x].favorite_title = title
  /\ new.hashs = st.hashs /\ new.times = st.times
  /\ new.favs = st.favs /\ new.favSet = st.favSet
  /\ new.titles = st.titles

\* What Mark does.
LEMMA MarkEffect ==
  ASSUME NEW st, NEW n \in Nat, NEW Title, NEW id, NEW fav \in BOOLEAN,
         NEW title \in Title, Typed(st, n, Title)
  PROVE  /\ Typed(Mark(st, id, fav, title), n, Title)
         /\ Marked(st, Mark(st, id, fav, title), id, fav, title)
<1> DEFINE new == Mark(st, id, fav, title)
           e == [st.entries[id] EXCEPT !.is_favorite = fav, !.favorite_title = title]
<1>1. CASE id \notin DOMAIN st.entries
  BY <1>1 DEF Mark, Marked
<1>2. CASE id \in DOMAIN st.entries
  <2>1. /\ DOMAIN new = Fields
        /\ new.entries = [st.entries EXCEPT ![id] = e]
        /\ new.hashs = st.hashs /\ new.times = st.times
        /\ new.favs = st.favs /\ new.favSet = st.favSet
        /\ new.titles = st.titles
    BY <1>2 DEF Mark, Typed, Fields, IsMap
  <2>2. /\ DOMAIN st.entries \subseteq 1 .. n
        /\ st.entries \in [DOMAIN st.entries -> EntryUpTo(n, Title)]
        /\ st.entries[id] \in EntryUpTo(n, Title)
    BY <1>2 DEF Typed, IsMap
  <2>3. /\ e \in EntryUpTo(n, Title)
        /\ e.creation = st.entries[id].creation
        /\ e.content = st.entries[id].content
        /\ e.is_favorite = fav
        /\ e.favorite_title = title
    BY <2>2 DEF EntryUpTo
  <2> HIDE DEF new, e
  <2>4. IsMap(new.entries, 1 .. n, EntryUpTo(n, Title))
    BY <1>2, <2>1, <2>2, <2>3 DEF IsMap
  <2> QED
    BY <1>2, <2>1, <2>2, <2>3, <2>4 DEF Typed, Marked, new
<1> QED
  BY <1>1, <1>2

\* add_favorite_to_memory, also for an entry that is gone or listed already.
LEMMA AddFavoriteKeepsGood ==
  ASSUME NEW st, NEW n \in Nat, NEW Title, Good(st, n, Title), NEW id \in 1 .. n
  PROVE  /\ Good(AddFavoriteToMemory(st, id).db, n, Title)
         /\ HashsGood(st) => HashsGood(AddFavoriteToMemory(st, id).db)
<1> DEFINE mid == FavPush(st, id)
           new == Mark(mid, id, TRUE, None)
<1>1. /\ DOMAIN mid = Fields
      /\ mid.favs = Append(st.favs, id)
      /\ mid.favSet = st.favSet \cup {id}
      /\ mid.titles = Put(st.titles, id, None)
      /\ mid.entries = st.entries
      /\ mid.hashs = st.hashs
      /\ mid.times = st.times
  BY DEF FavPush, Good, Typed, Fields
<1>2. IsMap(Put(st.titles, id, None), 1 .. n, Title)
  <2>1. IsMap(st.titles, 1 .. n, Title) /\ None \in Title
    BY DEF Good, Typed
  <2> QED
    BY ONLY <2>1, id \in 1 .. n, PutIsMap
<1> HIDE DEF mid
<1>3. Typed(mid, n, Title) /\ None \in Title
  BY <1>1, <1>2 DEF Good, Typed
<1>4. Typed(new, n, Title) /\ Marked(mid, new, id, TRUE, None)
  BY <1>3, MarkEffect
<1> HIDE DEF new
<1>5. new.favs = Append(st.favs, id) /\ new.favSet = st.favSet \cup {id}
  BY <1>1, <1>4 DEF Marked
<1>6. /\ id \in Range(new.favs)
      /\ Range(st.favs) \subseteq Range(new.favs)
  <2>1. st.favs \in Seq(1 .. n) /\ new.favs = Append(st.favs, id)
    BY <1>1, <1>5 DEF Good, Typed
  <2>2. /\ DOMAIN new.favs = 1 .. Len(st.favs) + 1
        /\ new.favs[Len(st.favs) + 1] = id
        /\ \A i \in 1 .. Len(st.favs) : new.favs[i] = st.favs[i]
    BY <2>1
  <2>3. id \in Range(new.favs)
    <3>1. Len(st.favs) + 1 \in DOMAIN new.favs
      BY <2>1, <2>2
    <3> QED
      BY ONLY <2>2, <3>1 DEF Range
  <2>4. ASSUME NEW i \in 1 .. Len(st.favs)
        PROVE  st.favs[i] \in Range(new.favs)
    <3>1. i \in DOMAIN new.favs
      BY <2>1, <2>2
    <3>2. new.favs[i] = st.favs[i]
      BY <2>2
    <3> QED
      BY ONLY <3>1, <3>2 DEF Range
  <2>5. Range(st.favs) = {st.favs[i] : i \in 1 .. Len(st.favs)}
    BY <2>1 DEF Range
  <2> QED
    BY <2>3, <2>4, <2>5
<1>7. FavsGood(new)
  BY <1>1, <1>4, <1>5, <1>6 DEF Good, FavsGood, Put, Marked
<1>8. TimesGood(new) /\ (HashsGood(st) => HashsGood(new))
  BY <1>1, <1>4 DEF Good, TimesGood, HashsGood, Marked
<1> QED
  BY <1>4, <1>7, <1>8 DEF Good, AddFavoriteToMemory, new, mid

\* remove_favorite_from_memory, for any id.
LEMMA RemoveFavoriteKeepsGood ==
  ASSUME NEW st, NEW n \in Nat, NEW Title, Good(st, n, Title), NEW id
  PROVE  /\ Good(RemoveFavoriteFromMemory(st, id).db, n, Title)
         /\ HashsGood(st) => HashsGood(RemoveFavoriteFromMemory(st, id).db)
<1> DEFINE mid == FavRemove(st, id)
           new == Mark(mid, id, FALSE, None)
<1>1. /\ DOMAIN mid = Fields
      /\ mid.favs = WithoutFirst(st.favs, id)
      /\ mid.favSet = st.favSet \ {id}
      /\ mid.titles = Drop(st.titles, {id})
      /\ mid.entries = st.entries
      /\ mid.hashs = st.hashs
      /\ mid.times = st.times
  BY DEF FavRemove, Good, Typed, Fields
<1> HIDE DEF mid
<1>2. /\ st.favs \in Seq(1 .. n)
      /\ IsMap(st.titles, 1 .. n, Title)
  BY DEF Good, Typed
<1>3. /\ WithoutFirst(st.favs, id) \in Seq(1 .. n)
      /\ \A x \in Range(st.favs) : x # id => x \in Range(WithoutFirst(st.favs, id))
  BY <1>2, WithoutFirstKeepsOthers
<1>4. IsMap(Drop(st.titles, {id}), 1 .. n, Title)
  BY ONLY <1>2, DropIsMap
<1>5. Typed(mid, n, Title) /\ None \in Title
  BY <1>1, <1>3, <1>4 DEF Good, Typed
<1>7. Typed(new, n, Title) /\ Marked(mid, new, id, FALSE, None)
  BY <1>5, MarkEffect
<1> HIDE DEF new
<1>8. FavsGood(new)
  BY <1>1, <1>3, <1>7 DEF Good, FavsGood, Drop, Marked
<1>9. TimesGood(new) /\ (HashsGood(st) => HashsGood(new))
  BY <1>1, <1>7 DEF Good, TimesGood, HashsGood, Marked
<1> QED
  BY <1>7, <1>8, <1>9 DEF Good, RemoveFavoriteFromMemory, new, mid

\* set_favorite_title_in_memory, for any id.
LEMMA SetTitleKeepsGood ==
  ASSUME NEW st, NEW n \in Nat, NEW Title, Good(st, n, Title), NEW id \in 1 .. n,
         NEW title \in Title
  PROVE  /\ Good(SetFavoriteTitleInMemory(st, id, title).db, n, Title)
         /\ HashsGood(st) => HashsGood(SetFavoriteTitleInMemory(st, id, title).db)
<1> DEFINE new == SetFavoriteTitleInMemory(st, id, title).db
           e == [st.entries[id] EXCEPT !.favorite_title = title]
<1>0. /\ IsMap(st.entries, 1 .. n, EntryUpTo(n, Title))
      /\ IsMap(st.titles, 1 .. n, Title)
  BY DEF Good, Typed
<1>1. /\ DOMAIN new = Fields
      /\ new.titles = Put(st.titles, id, title)
      /\ new.entries = IF id \in DOMAIN st.entries
                         THEN [st.entries EXCEPT ![id] = e] ELSE st.entries
      /\ new.hashs = st.hashs /\ new.times = st.times
      /\ new.favs = st.favs /\ new.favSet = st.favSet
  BY DEF SetFavoriteTitleInMemory, Good, Typed, Fields
<1> HIDE DEF new
<1>2. IsMap(Put(st.titles, id, title), 1 .. n, Title)
  BY ONLY <1>0, id \in 1 .. n, title \in Title, PutIsMap
<1>3. ASSUME id \in DOMAIN st.entries
      PROVE  /\ e \in EntryUpTo(n, Title)
             /\ e.creation = st.entries[id].creation
             /\ e.content = st.entries[id].content
             /\ e.is_favorite = st.entries[id].is_favorite
             /\ e.favorite_title = title
  <2>1. st.entries[id] \in EntryUpTo(n, Title)
    BY <1>0, <1>3 DEF IsMap
  <2> QED
    BY <2>1 DEF EntryUpTo
<1> HIDE DEF e
<1>4. /\ IsMap(new.entries, 1 .. n, EntryUpTo(n, Title))
      /\ DOMAIN new.entries = DOMAIN st.entries
      /\ \A x \in DOMAIN st.entries :
           /\ new.entries[x].creation = st.entries[x].creation
           /\ new.entries[x].content = st.entries[x].content
           /\ new.entries[x].is_favorite = st.entries[x].is_favorite
           /\ x # id => new.entries[x] = st.entries[x]
           /\ x = id => new.entries[x].favorite_title = title
  BY <1>0, <1>1, <1>3 DEF IsMap
<1>5. Typed(new, n, Title)
  BY <1>1, <1>2, <1>4 DEF Good, Typed
<1>6. TimesGood(new) /\ (HashsGood(st) => HashsGood(new))
  BY <1>1, <1>4 DEF Good, TimesGood, HashsGood
<1>7. FavsGood(new)
  BY <1>1, <1>4 DEF Good, FavsGood, Put
<1> QED
  BY <1>5, <1>6, <1>7 DEF Good, new

-----------------------------------------------------------------------------
(* Edits                                                                   *)

\* update_content_in_memory when no other entry has the content, also for an
\* entry that is gone.
LEMMA UpdateKeepsGood ==
  ASSUME NEW st, NEW n \in Nat, NEW Title, Good(st, n, Title), NEW id \in 1 .. n,
         NEW c \in Content, ~TakenByOther(st, id, c), NEW now \in Nat, n < now
  PROVE  /\ Good(UpdateContentInMemory(st, id, c, now).db, now, Title)
         /\ HashsGood(st) => HashsGood(UpdateContentInMemory(st, id, c, now).db)
<1> DEFINE mid == [st EXCEPT !.hashs = Rehash(st, id, c)]
           up == Bump(st, id, now)
           new == IF id \in DOMAIN st.entries
                    THEN [Bump(mid, id, now) EXCEPT !.entries[id].content = c]
                    ELSE mid
<1>0. /\ Good(st, now, Title)
      /\ id \in 1 .. now
      /\ Hash[c] \in Hashes
  BY GoodLater DEF Hashes
<1>1. UpdateContentInMemory(st, id, c, now).db = Search(new)
  BY DEF UpdateContentInMemory
<1>2. IsMap(Rehash(st, id, c), Hashes, 1 .. now)
  <2>1. IsMap(st.hashs, Hashes, 1 .. now)
    BY <1>0 DEF Good, Typed
  <2>2. \A S : IsMap(Drop(st.hashs, S), Hashes, 1 .. now)
    BY ONLY <2>1, DropIsMap
  <2>3. \A f : IsMap(f, Hashes, 1 .. now) => IsMap(Put(f, Hash[c], id), Hashes, 1 .. now)
    BY ONLY <1>0, PutIsMap
  <2> QED
    BY <2>1, <2>2, <2>3 DEF Rehash
<1>3. /\ Rehash(st, id, c)[Hash[c]] = id
      /\ Hash[c] \in DOMAIN Rehash(st, id, c)
      /\ HashsGood(st) => \A x \in DOMAIN st.entries : x # id =>
           LET h == Hash[st.entries[x].content]
           IN  h # Hash[c] /\ h \in DOMAIN Rehash(st, id, c) /\ Rehash(st, id, c)[h] = x
  <2>1. ASSUME HashsGood(st), NEW x \in DOMAIN st.entries, x # id
        PROVE  LET h == Hash[st.entries[x].content]
               IN  /\ h # Hash[c]
                   /\ h \in DOMAIN Rehash(st, id, c)
                   /\ Rehash(st, id, c)[h] = x
    <3> DEFINE h == Hash[st.entries[x].content]
    <3>1. h \in DOMAIN st.hashs /\ st.hashs[h] = x
      BY <2>1 DEF HashsGood
    <3>2. h # Hash[c]
      BY <2>1, <3>1 DEF TakenByOther
    <3>3. id \in DOMAIN st.entries => h # Hash[st.entries[id].content]
      BY <2>1, <3>1 DEF HashsGood
    <3> HIDE DEF h
    <3>4. h \in DOMAIN Rehash(st, id, c) /\ Rehash(st, id, c)[h] = x
      BY <3>1, <3>2, <3>3 DEF Rehash, Put, Drop
    <3> QED
      BY <3>2, <3>4 DEF h
  <2>2. Rehash(st, id, c)[Hash[c]] = id /\ Hash[c] \in DOMAIN Rehash(st, id, c)
    BY DEF Rehash, Put
  <2> QED
    BY <2>1, <2>2
<1>4. CASE id \notin DOMAIN st.entries
  <2>1. /\ new = mid
        /\ DOMAIN mid = Fields
        /\ mid.hashs = Rehash(st, id, c)
        /\ mid.entries = st.entries /\ mid.times = st.times
        /\ mid.favs = st.favs /\ mid.favSet = st.favSet /\ mid.titles = st.titles
    BY <1>4 DEF Good, Typed, Fields
  <2> HIDE DEF mid
  <2>2. Typed(mid, now, Title)
    BY <1>0, <1>2, <2>1 DEF Good, Typed
  <2>3. HashsGood(st) => HashsGood(mid)
    BY <1>3, <1>4, <2>1 DEF HashsGood
  <2>4. TimesGood(mid) /\ FavsGood(mid)
    BY <2>1 DEF Good, TimesGood, FavsGood
  <2> QED
    BY <1>1, <2>1, <2>2, <2>3, <2>4, SearchKeepsGood DEF Good
<1>5. CASE id \in DOMAIN st.entries
  <2> DEFINE e == [up.entries[id] EXCEPT !.content = c]
  <2>1. Good(up, now, Title) /\ DOMAIN up.entries = DOMAIN st.entries
    BY <1>5, BumpKeepsGood
  <2>2. /\ DOMAIN new = Fields
        /\ new.entries = [up.entries EXCEPT ![id] = e]
        /\ new.hashs = Rehash(st, id, c)
        /\ new.times = up.times
        /\ new.favs = up.favs /\ new.favSet = up.favSet /\ new.titles = up.titles
    BY <1>5 DEF Good, Typed, Fields, Bump
  <2>3. /\ \A x \in DOMAIN st.entries : x # id => up.entries[x] = st.entries[x]
    BY <1>5 DEF Good, Typed, Fields, Bump, IsMap
  <2> HIDE DEF up, new
  <2>4. IsMap(up.entries, 1 .. now, EntryUpTo(now, Title))
    BY <2>1 DEF Good, Typed
  <2>5. /\ e \in EntryUpTo(now, Title)
        /\ e.content = c
        /\ e.creation = up.entries[id].creation
        /\ e.is_favorite = up.entries[id].is_favorite
        /\ e.favorite_title = up.entries[id].favorite_title
    <3>1. up.entries[id] \in EntryUpTo(now, Title)
      BY <1>5, <2>1, <2>4 DEF IsMap
    <3> QED
      BY <3>1 DEF EntryUpTo
  <2> HIDE DEF e
  <2>6. /\ IsMap(new.entries, 1 .. now, EntryUpTo(now, Title))
        /\ DOMAIN new.entries = DOMAIN up.entries
        /\ new.entries[id] = e
        /\ \A x \in DOMAIN up.entries : x # id => new.entries[x] = up.entries[x]
    BY <1>5, <2>1, <2>2, <2>4, <2>5 DEF IsMap
  <2>7. Typed(new, now, Title)
    BY <1>2, <2>1, <2>2, <2>6 DEF Good, Typed
  <2>8. \A x \in DOMAIN up.entries : new.entries[x].creation = up.entries[x].creation
    BY <2>5, <2>6
  <2>9. TimesGood(new)
    BY <2>1, <2>2, <2>6, <2>8 DEF Good, TimesGood
  <2>10. HashsGood(st) => HashsGood(new)
    BY <1>3, <2>1, <2>2, <2>3, <2>5, <2>6 DEF HashsGood
  <2>11. FavsGood(new)
    BY <2>1, <2>2, <2>5, <2>6 DEF Good, FavsGood
  <2> QED
    BY <1>1, <2>7, <2>9, <2>10, <2>11, SearchKeepsGood DEF Good
<1> QED
  BY <1>4, <1>5

\* The merge of an edited entry into the one that has the content.
LEMMA MergeKeepsGood ==
  ASSUME NEW st, NEW n \in Nat, NEW Title, Good(st, n, Title), NEW id, NEW c \in Content,
         NEW now \in Nat, n < now
  PROVE  /\ Good(MergeIntoOther(st, id, c, now), now, Title)
         /\ HashsGood(st) => HashsGood(MergeIntoOther(st, id, c, now))
<1> DEFINE other == st.hashs[Hash[c]]
           left == IF id \in DOMAIN st.entries THEN Remove(st, id) ELSE st
<1>1. Good(left, n, Title) /\ (HashsGood(st) => HashsGood(left))
  BY RemoveKeepsGood
<1>2. CASE other \in DOMAIN left.entries
  <2>1. MergeIntoOther(st, id, c, now) = Search(Bump(left, other, now))
    BY <1>2 DEF MergeIntoOther
  <2> HIDE DEF left, other
  <2>2. /\ Good(Bump(left, other, now), now, Title)
        /\ HashsGood(left) => HashsGood(Bump(left, other, now))
    BY <1>1, <1>2, BumpKeepsGood
  <2> QED
    BY <1>1, <2>1, <2>2, SearchKeepsGood
<1>3. CASE other \notin DOMAIN left.entries
  <2>1. MergeIntoOther(st, id, c, now) = Panic(left)
    BY <1>3 DEF MergeIntoOther
  <2> HIDE DEF left, other
  <2>2. Good(left, now, Title)
    BY <1>1, GoodLater
  <2> QED
    BY <1>1, <2>1, <2>2, PanicKeepsGood
<1> QED
  BY <1>2, <1>3

-----------------------------------------------------------------------------
(* Deleting, clearing, searching                                           *)

\* delete_from_memory, for any id.
LEMMA DeleteKeepsGood ==
  ASSUME NEW st, NEW n \in Nat, NEW Title, Good(st, n, Title), NEW id
  PROVE  /\ Good(DeleteFromMemory(st, id).db, n, Title)
         /\ HashsGood(st) => HashsGood(DeleteFromMemory(st, id).db)
<1>1. CASE id \notin DOMAIN st.entries
  BY <1>1 DEF DeleteFromMemory, NoOp
<1>2. CASE id \in DOMAIN st.entries
  <2>1. DeleteFromMemory(st, id).db = Search(Remove(st, id))
    BY <1>2 DEF DeleteFromMemory
  <2>2. Good(Remove(st, id), n, Title) /\ (HashsGood(st) => HashsGood(Remove(st, id)))
    BY <1>2, RemoveKeepsGood
  <2> QED
    BY <2>1, <2>2, SearchKeepsGood
<1> QED
  BY <1>1, <1>2

\* clear_memory.
LEMMA ClearKeepsGood ==
  ASSUME NEW st, NEW n \in Nat, NEW Title, Good(st, n, Title)
  PROVE  /\ Good(ClearMemory(st).db, n, Title)
         /\ HashsGood(st) => HashsGood(ClearMemory(st).db)
<1> DEFINE ids == {id \in DOMAIN st.entries : id \notin st.favSet}
<1>1. ClearMemory(st).db = Search(Unindex(st, ids))
  BY DEF ClearMemory
<1>2. Good(Unindex(st, ids), n, Title) /\ (HashsGood(st) => HashsGood(Unindex(st, ids)))
  <2>1. ids \in SUBSET DOMAIN st.entries
    OBVIOUS
  <2> HIDE DEF ids
  <2> QED
    BY <2>1, UnindexKeepsGood
<1> HIDE DEF ids
<1> QED
  BY <1>1, <1>2, SearchKeepsGood

\* set_query_and_search.
LEMMA SetQueryKeepsGood ==
  ASSUME NEW st, NEW n \in Nat, NEW Title, Good(st, n, Title), NEW q
  PROVE  /\ Good(SetQueryAndSearch(st, q), n, Title)
         /\ HashsGood(st) => HashsGood(SetQueryAndSearch(st, q))
<1> DEFINE new == [st EXCEPT !.query = q]
<1>1. Good(new, n, Title) /\ (HashsGood(st) => HashsGood(new))
  BY DEF Good, Typed, TimesGood, HashsGood, FavsGood, Fields
<1> HIDE DEF new
<1> QED
  BY <1>1, SearchKeepsGood DEF SetQueryAndSearch, new

\* The most recent of a bounded set of times is one of them.
LEMMA NewestInSet ==
  ASSUME NEW n \in Nat, NEW T \in SUBSET (1 .. n), T # {}
  PROVE  Newest(T, 1) \in T
<1> DEFINE D == {n - t : t \in T}
<1>0. \A t \in T : t \in Nat /\ t <= n /\ n - t \in Nat
  OBVIOUS
<1>1. D \in SUBSET Nat /\ D # {}
  <2>1. \A d \in D : d \in Nat
    BY <1>0
  <2>2. D # {}
    OBVIOUS
  <2> QED
    BY <2>1, <2>2
<1>2. PICK d \in D : \A k \in D : d <= k
  BY <1>1, LeastNatural
<1>3. PICK t \in T : d = n - t
  BY <1>2
<1>4. \A u \in T : u <= t
  <2> SUFFICES ASSUME NEW u \in T PROVE u <= t
    OBVIOUS
  <2>1. d <= n - u
    BY <1>2
  <2> QED
    BY <1>0, <1>3, <2>1
<1>5. {u \in T : u >= t} = {t}
  <2>1. \A u \in T : u >= t => u = t
    BY <1>0, <1>4
  <2>2. t >= t
    BY <1>0
  <2> QED
    BY <2>1, <2>2
<1>6. Cardinality({u \in T : u >= t}) = 1
  BY <1>5, FS_Singleton
<1> QED
  BY <1>3, <1>6 DEF Newest

\* The newest entry, when there is one, has an id that was issued.
LEMMA NewestIdIssued ==
  ASSUME NEW st, NEW n \in Nat, NEW Title, Good(st, n, Title), DOMAIN st.times # {}
  PROVE  NewestId(st) \in 1 .. n
<1> DEFINE T == DOMAIN st.times
<1>1. T \in SUBSET (1 .. n) /\ \A t \in T : st.times[t] \in 1 .. n
  BY DEF Good, Typed, IsMap
<1>2. Newest(T, 1) \in T
  BY <1>1, NewestInSet
<1> QED
  BY <1>1, <1>2 DEF NewestId

\* AddFavorite after an insert, the two steps of SelectionToFavorite.
LEMMA StarNewestKeepsGood ==
  ASSUME NEW st, NEW n \in Nat, NEW Title, Good(st, n, Title), NewestId(st) # None
  PROVE  /\ Good(AddFavoriteToMemory(st, NewestId(st)).db, n, Title)
         /\ HashsGood(st) => HashsGood(AddFavoriteToMemory(st, NewestId(st)).db)
<1>1. DOMAIN st.times # {}
  BY DEF NewestId
<1>2. NewestId(st) \in 1 .. n
  BY <1>1, NewestIdIssued
<1> HIDE DEF NewestId
<1> QED
  BY <1>2, AddFavoriteKeepsGood

-----------------------------------------------------------------------------
HashsLive(st) ==
  \A h \in DOMAIN st.hashs :
    /\ st.hashs[h] \in DOMAIN st.entries
    /\ Hash[st.entries[st.hashs[h]].content] = h

\* No element stands twice in a sequence.
OnceEach(s) == \A i, j \in DOMAIN s : s[i] = s[j] => i = j

FavsLive(st) ==
  /\ Range(st.favs) = st.favSet
  /\ st.favSet \subseteq DOMAIN st.entries
  /\ OnceEach(st.favs)

Sound(st) == HashsLive(st) /\ FavsLive(st) /\ ~st.panicked

-----------------------------------------------------------------------------
(* Operators of StoreOps                                                   *)

\* A walk of the list finds an entry for every favorite and every time.
LEMMA SoundWalk ==
  ASSUME NEW st, NEW n \in Nat, NEW Title, Good(st, n, Title), FavsLive(st)
  PROVE  ~IterPanics(st)
<1>1. \A i \in DOMAIN st.favs : st.favs[i] \in DOMAIN st.entries
  BY DEF FavsLive, Range
<1>2. \A t \in DOMAIN st.times : st.times[t] \in DOMAIN st.entries
  BY DEF Good, TimesGood
<1> QED
  BY <1>1, <1>2 DEF IterPanics

\* A search changes no index, and does not die where the favorites are live.
LEMMA SearchKeepsSound ==
  ASSUME NEW st, NEW n \in Nat, NEW Title, Good(st, n, Title)
  PROVE  /\ HashsLive(st) => HashsLive(Search(st))
         /\ Sound(st) => Sound(Search(st))
<1>1. /\ Search(st).entries = st.entries
      /\ Search(st).hashs = st.hashs
      /\ Search(st).favs = st.favs
      /\ Search(st).favSet = st.favSet
  BY DEF Search, Panic, Good, Typed, Fields
<1>2. FavsLive(st) => Search(st).panicked = st.panicked
  BY SoundWalk DEF Search, Good, Typed, Fields
<1> QED
  BY <1>1, <1>2 DEF Sound, HashsLive, FavsLive

LEMMA PanicKeepsHashs ==
  ASSUME NEW st, NEW n \in Nat, NEW Title, Good(st, n, Title), HashsLive(st)
  PROVE  HashsLive(Panic(st))
  BY DEF Panic, Good, Typed, Fields, HashsLive

\* With entries go the hashes of their contents, and no others.
LEMMA UnindexKeepsHashs ==
  ASSUME NEW st, NEW n \in Nat, NEW Title, Good(st, n, Title),
         NEW ids \in SUBSET DOMAIN st.entries
  PROVE  /\ HashsLive(st) => HashsLive(Unindex(st, ids))
         /\ Unindex(st, ids).favs = st.favs
         /\ Unindex(st, ids).favSet = st.favSet
         /\ Unindex(st, ids).panicked = st.panicked
         /\ \A id \in DOMAIN st.entries \ ids :
              Unindex(st, ids).entries[id] = st.entries[id]
<1> DEFINE left == Unindex(st, ids)
           hs == {Hash[st.entries[id].content] : id \in ids}
<1>1. /\ left.entries = Drop(st.entries, ids)
      /\ left.hashs = Drop(st.hashs, hs)
      /\ left.favs = st.favs
      /\ left.favSet = st.favSet
      /\ left.panicked = st.panicked
  BY DEF Unindex, Good, Typed, Fields
<1>2. /\ DOMAIN left.entries = DOMAIN st.entries \ ids
      /\ \A id \in DOMAIN st.entries \ ids : left.entries[id] = st.entries[id]
  BY <1>1 DEF Drop
<1>3. /\ DOMAIN left.hashs = DOMAIN st.hashs \ hs
      /\ \A h \in DOMAIN st.hashs \ hs : left.hashs[h] = st.hashs[h]
  BY <1>1 DEF Drop
<1>4. HashsLive(st) =>
        \A h \in DOMAIN st.hashs \ hs : st.hashs[h] \in DOMAIN st.entries \ ids
  BY DEF HashsLive
<1> HIDE DEF left, hs
<1>5. HashsLive(st) => HashsLive(left)
  BY <1>2, <1>3, <1>4 DEF HashsLive
<1> QED
  BY <1>1, <1>2, <1>5 DEF left

\* Entries that are no favorites may go.
LEMMA UnindexKeepsSound ==
  ASSUME NEW st, NEW n \in Nat, NEW Title, Good(st, n, Title), Sound(st),
         NEW ids \in SUBSET DOMAIN st.entries, ids \cap st.favSet = {}
  PROVE  Sound(Unindex(st, ids))
<1>1. DOMAIN Unindex(st, ids).entries = DOMAIN st.entries \ ids
  BY UnindexKeepsGood
<1>2. /\ HashsLive(Unindex(st, ids))
      /\ Unindex(st, ids).favs = st.favs
      /\ Unindex(st, ids).favSet = st.favSet
      /\ Unindex(st, ids).panicked = st.panicked
  BY UnindexKeepsHashs DEF Sound
<1> QED
  BY <1>1, <1>2 DEF Sound, FavsLive

LEMMA BumpKeepsSound ==
  ASSUME NEW st, NEW n \in Nat, NEW Title, Good(st, n, Title),
         NEW id \in DOMAIN st.entries, NEW now
  PROVE  /\ HashsLive(st) => HashsLive(Bump(st, id, now))
         /\ Sound(st) => Sound(Bump(st, id, now))
<1> DEFINE new == Bump(st, id, now)
<1>1. /\ new.entries = [st.entries EXCEPT ![id].creation = now]
      /\ new.hashs = st.hashs
      /\ new.favs = st.favs
      /\ new.favSet = st.favSet
      /\ new.panicked = st.panicked
  BY DEF Bump, Good, Typed, Fields
<1>2. st.entries[id] \in EntryUpTo(n, Title)
  BY DEF Good, Typed, IsMap
<1>3. /\ DOMAIN new.entries = DOMAIN st.entries
      /\ \A x \in DOMAIN st.entries : x # id => new.entries[x] = st.entries[x]
      /\ new.entries[id] = [st.entries[id] EXCEPT !.creation = now]
  BY <1>1 DEF Good, Typed, IsMap
<1>4. \A x \in DOMAIN st.entries : new.entries[x].content = st.entries[x].content
  BY <1>2, <1>3 DEF EntryUpTo
<1> HIDE DEF new
<1> QED
  BY <1>1, <1>3, <1>4 DEF Sound, HashsLive, FavsLive, new

LEMMA GrowKeepsSound ==
  ASSUME NEW st, NEW n \in Nat, NEW Title, Good(st, n, Title), NEW c \in Content,
         Hash[c] \notin DOMAIN st.hashs, NEW now \in Nat, n < now
  PROVE  /\ HashsLive(st) => HashsLive(Grow(st, c, now))
         /\ Sound(st) => Sound(Grow(st, c, now))
         /\ Grow(st, c, now).favSet = st.favSet
         /\ now \notin st.favSet
<1> DEFINE new == Grow(st, c, now)
<1>1. /\ new.entries = Put(st.entries, now, NewEntry(c, now))
      /\ new.hashs = Put(st.hashs, Hash[c], now)
      /\ new.favs = st.favs
      /\ new.favSet = st.favSet
      /\ new.panicked = st.panicked
  BY DEF Grow, Good, Typed, Fields
<1>2. now \notin DOMAIN st.entries /\ now \notin st.favSet
  <2>1. DOMAIN st.entries \subseteq 1 .. n /\ st.favSet \subseteq 1 .. n
    BY DEF Good, Typed, IsMap
  <2> QED
    BY <2>1
<1> HIDE DEF new
<1>3. /\ DOMAIN new.entries = DOMAIN st.entries \cup {now}
      /\ new.entries[now].content = c
      /\ \A id \in DOMAIN st.entries : new.entries[id] = st.entries[id]
  BY <1>1, <1>2 DEF Put, NewEntry
<1>4. /\ DOMAIN new.hashs = DOMAIN st.hashs \cup {Hash[c]}
      /\ new.hashs[Hash[c]] = now
      /\ \A h \in DOMAIN st.hashs : new.hashs[h] = st.hashs[h]
  BY <1>1 DEF Put
<1>5. HashsLive(st) => HashsLive(new)
  BY <1>3, <1>4 DEF HashsLive
<1>6. Sound(st) => FavsLive(new) /\ ~new.panicked
  BY <1>1, <1>3 DEF Sound, FavsLive
<1> QED
  BY <1>1, <1>2, <1>5, <1>6 DEF Sound, new

\* What the limit takes is no favorite.
LEMMA EvictedNoFavorite ==
  ASSUME NEW st, NEW n \in Nat, NEW Title, Good(st, n, Title)
  PROVE  Evicted(st) \in SUBSET DOMAIN st.entries /\ Evicted(st) \cap st.favSet = {}
<1>1. \A t \in DOMAIN st.times : st.times[t] \in DOMAIN st.entries
  BY DEF Good, TimesGood
<1> QED
  BY <1>1 DEF Evicted, Oldest, Evictable

LEMMA InsertKeepsSound ==
  ASSUME NEW st, NEW n \in Nat, NEW Title, Good(st, n, Title), NEW c \in Content,
         NEW now \in Nat, n < now
  PROVE  /\ HashsLive(st) => HashsLive(InsertToMemory(st, c, now).db)
         /\ Sound(st) => Sound(InsertToMemory(st, c, now).db)
         /\ HashsLive(st) => InsertToMemory(st, c, now).db.favSet = st.favSet
<1>1. CASE ~OwnsLock
  BY <1>1 DEF InsertToMemory, NoOp
<1>2. CASE OwnsLock /\ Hash[c] \in DOMAIN st.hashs
  <2> DEFINE id == st.hashs[Hash[c]]
  <2> SUFFICES ASSUME HashsLive(st)
               PROVE  /\ HashsLive(InsertToMemory(st, c, now).db)
                      /\ Sound(st) => Sound(InsertToMemory(st, c, now).db)
                      /\ InsertToMemory(st, c, now).db.favSet = st.favSet
    BY DEF Sound
  <2>1. id \in DOMAIN st.entries /\ st.entries[id].creation \in DOMAIN st.times
    BY <1>2 DEF HashsLive, Good, TimesGood
  <2>2. InsertToMemory(st, c, now).db = Search(Bump(st, id, now))
    BY <1>2, <2>1 DEF InsertToMemory, Refresh
  <2>3. Bump(st, id, now).favSet = st.favSet
    BY DEF Bump, Good, Typed, Fields
  <2> HIDE DEF id
  <2>4. /\ Good(Bump(st, id, now), now, Title)
        /\ HashsLive(Bump(st, id, now))
        /\ Sound(st) => Sound(Bump(st, id, now))
    BY <2>1, BumpKeepsGood, BumpKeepsSound
  <2>5. Search(Bump(st, id, now)).favSet = Bump(st, id, now).favSet
    BY <2>4 DEF Search, Panic, Good, Typed, Fields
  <2> QED
    BY <2>2, <2>3, <2>4, <2>5, SearchKeepsSound
<1>3. CASE OwnsLock /\ Hash[c] \notin DOMAIN st.hashs
  <2> DEFINE grown == Grow(st, c, now)
             gone == Evicted(grown)
             left == Unindex(grown, gone)
  <2>1. /\ Good(grown, now, Title)
        /\ HashsLive(st) => HashsLive(grown)
        /\ Sound(st) => Sound(grown)
        /\ grown.favSet = st.favSet
    BY <1>3, GrowKeepsGood, GrowKeepsSound
  <2>2. InsertToMemory(st, c, now).db = Search(left)
    BY <1>3 DEF InsertToMemory, InsertNew
  <2> HIDE DEF grown
  <2>3. gone \in SUBSET DOMAIN grown.entries /\ gone \cap grown.favSet = {}
    BY <2>1, EvictedNoFavorite
  <2> HIDE DEF gone
  <2>4. /\ Good(left, now, Title)
        /\ HashsLive(grown) => HashsLive(left)
        /\ Sound(grown) => Sound(left)
        /\ left.favSet = grown.favSet
    BY <2>1, <2>3, UnindexKeepsGood, UnindexKeepsSound, UnindexKeepsHashs
  <2> HIDE DEF left
  <2>5. Search(left).favSet = left.favSet
    BY <2>4 DEF Search, Panic, Good, Typed, Fields
  <2> QED
    BY <2>1, <2>2, <2>4, <2>5, SearchKeepsSound
<1> QED
  BY <1>1, <1>2, <1>3

-----------------------------------------------------------------------------
(* The favorites                                                           *)

\* The elements of two sequences put together.
LEMMA Joined ==
  ASSUME NEW S, NEW a \in Seq(S), NEW z \in Seq(S)
  PROVE  /\ Len(a \o z) = Len(a) + Len(z)
         /\ DOMAIN (a \o z) = 1 .. Len(a) + Len(z)
         /\ \A i \in 1 .. Len(a) + Len(z) :
              (a \o z)[i] = IF i <= Len(a) THEN a[i] ELSE z[i - Len(a)]
<1>1. \A i \in 1 .. Len(a) + Len(z) :
        (a \o z)[i] = IF i <= Len(a) THEN a[i] ELSE z[i - Len(a)]
  OBVIOUS
<1>2. Len(a \o z) = Len(a) + Len(z) /\ a \o z \in Seq(S)
  OBVIOUS
<1> QED
  BY <1>1, <1>2

\* Removing the first occurrence of an element that stands once removes it.
LEMMA WithoutFirstOnce ==
  ASSUME NEW S, NEW s \in Seq(S), NEW e, OnceEach(s)
  PROVE  /\ OnceEach(WithoutFirst(s, e))
         /\ Range(WithoutFirst(s, e)) = Range(s) \ {e}
<1>1. CASE e \notin Range(s)
  BY <1>1 DEF WithoutFirst
<1>2. CASE e \in Range(s)
  <2> DEFINE k == FirstIndex(s, e)
             a == SubSeq(s, 1, k - 1)
             z == SubSeq(s, k + 1, Len(s))
             r == a \o z
  <2>1. k \in 1 .. Len(s) /\ s[k] = e
    <3>1. PICK m \in DOMAIN s : s[m] = e
      BY <1>2 DEF Range
    <3>2. \A j \in 1 .. m - 1 : s[j] # e
      BY <3>1 DEF OnceEach
    <3> QED
      BY <3>1, <3>2 DEF FirstIndex
  <2>2. WithoutFirst(s, e) = r
    BY <1>2 DEF WithoutFirst
  <2> HIDE DEF k
  <2>3. /\ a \in Seq(S) /\ Len(a) = k - 1
        /\ \A j \in 1 .. k - 1 : a[j] = s[j]
    BY <2>1
  <2>4. /\ z \in Seq(S) /\ Len(z) = Len(s) - k
        /\ \A j \in 1 .. Len(s) - k : z[j] = s[k + j]
    BY <2>1
  <2> HIDE DEF a, z
  <2>5. /\ DOMAIN r = 1 .. Len(s) - 1
        /\ \A i \in 1 .. Len(s) - 1 : r[i] = IF i < k THEN s[i] ELSE s[i + 1]
    <3>1. /\ Len(r) = Len(a) + Len(z)
          /\ DOMAIN r = 1 .. Len(a) + Len(z)
          /\ \A i \in 1 .. Len(a) + Len(z) :
               r[i] = IF i <= Len(a) THEN a[i] ELSE z[i - Len(a)]
      BY <2>3, <2>4, Joined
    <3> HIDE DEF r
    <3>2. Len(a) + Len(z) = Len(s) - 1
      BY <2>1, <2>3, <2>4
    <3>3. ASSUME NEW i \in 1 .. Len(s) - 1
          PROVE  r[i] = IF i < k THEN s[i] ELSE s[i + 1]
      <4>1. CASE i < k
        <5>1. i \in 1 .. k - 1 /\ r[i] = a[i]
          BY <2>1, <2>3, <3>1, <3>2, <4>1
        <5> QED
          BY <2>3, <4>1, <5>1
      <4>2. CASE ~(i < k)
        <5>1. i - Len(a) \in 1 .. Len(s) - k /\ r[i] = z[i - Len(a)]
          BY <2>1, <2>3, <3>1, <3>2, <4>2
        <5>2. k + (i - Len(a)) = i + 1
          BY <2>1, <2>3
        <5> QED
          BY <2>4, <4>2, <5>1, <5>2
      <4> QED
        BY <4>1, <4>2
    <3> QED
      BY <3>1, <3>2, <3>3
  <2> HIDE DEF r
  <2>6. OnceEach(r)
    <3> SUFFICES ASSUME NEW i \in 1 .. Len(s) - 1, NEW j \in 1 .. Len(s) - 1, r[i] = r[j]
                 PROVE  i = j
      BY <2>5 DEF OnceEach
    <3> DEFINE p(x) == IF x < k THEN x ELSE x + 1
    <3>1. p(i) \in DOMAIN s /\ p(j) \in DOMAIN s /\ s[p(i)] = s[p(j)]
      BY <2>5
    <3>2. p(i) = p(j)
      BY ONLY <3>1, OnceEach(s) DEF OnceEach
    <3> QED
      BY <2>1, <3>2
  <2>7. Range(r) \subseteq Range(s) \ {e}
    <3> SUFFICES ASSUME NEW i \in 1 .. Len(s) - 1
                 PROVE  r[i] \in Range(s) /\ r[i] # e
      BY <2>5 DEF Range
    <3>1. PICK j \in DOMAIN s : j # k /\ r[i] = s[j]
      <4>1. CASE i < k
        BY <2>1, <2>5, <4>1
      <4>2. CASE ~(i < k)
        <5>1. i + 1 \in DOMAIN s /\ i + 1 # k /\ r[i] = s[i + 1]
          BY <2>1, <2>5, <4>2
        <5> QED
          BY <5>1
      <4> QED
        BY <4>1, <4>2
    <3> QED
      BY <2>1, <3>1 DEF Range, OnceEach
  <2>8. Range(s) \ {e} \subseteq Range(r)
    BY <2>2, WithoutFirstKeepsOthers
  <2> QED
    BY <2>2, <2>6, <2>7, <2>8
<1> QED
  BY <1>1, <1>2

\* An entry leaves the maps and, if it is one, the favorites.
LEMMA RemoveKeepsSound ==
  ASSUME NEW st, NEW n \in Nat, NEW Title, Good(st, n, Title), NEW id \in DOMAIN st.entries
  PROVE  /\ HashsLive(st) => HashsLive(Remove(st, id))
         /\ Sound(st) => Sound(Remove(st, id))
<1> DEFINE left == Unindex(st, {id})
           new == FavRemove(left, id)
<1>1. Good(left, n, Title) /\ DOMAIN left.entries = DOMAIN st.entries \ {id}
  BY UnindexKeepsGood
<1>2. /\ HashsLive(st) => HashsLive(left)
      /\ left.panicked = st.panicked
      /\ left.favs = st.favs /\ left.favSet = st.favSet
  BY UnindexKeepsHashs
<1>3. CASE ~st.entries[id].is_favorite
  <2>1. id \notin st.favSet
    BY <1>3 DEF Good, FavsGood
  <2>2. Remove(st, id) = left
    BY <1>3 DEF Remove, IsFavorite
  <2> HIDE DEF left
  <2> QED
    BY <1>1, <1>2, <2>1, <2>2 DEF Sound, FavsLive, left
<1>4. CASE st.entries[id].is_favorite
  <2>1. Remove(st, id) = new
    BY <1>4 DEF Remove, IsFavorite
  <2> HIDE DEF left
  <2>2. /\ new.favs = WithoutFirst(left.favs, id)
        /\ new.favSet = left.favSet \ {id}
        /\ new.entries = left.entries
        /\ new.hashs = left.hashs
        /\ new.panicked = left.panicked
    BY <1>1 DEF FavRemove, Good, Typed, Fields
  <2> HIDE DEF new
  <2>3. HashsLive(st) => HashsLive(new)
    BY <1>2, <2>2 DEF HashsLive
  <2>4. ASSUME Sound(st)
        PROVE  FavsLive(new) /\ ~new.panicked
    <3>1. st.favs \in Seq(1 .. n) /\ OnceEach(st.favs)
      BY <2>4 DEF Good, Typed, Sound, FavsLive
    <3>2. OnceEach(new.favs) /\ Range(new.favs) = Range(st.favs) \ {id}
      BY <1>2, <2>2, <3>1, WithoutFirstOnce
    <3> QED
      BY <1>1, <1>2, <2>2, <2>4, <3>2 DEF Sound, FavsLive
  <2> QED
    BY <2>1, <2>3, <2>4 DEF Sound
<1> QED
  BY <1>3, <1>4

\* What Mark leaves alone besides.
LEMMA MarkKeepsSound ==
  ASSUME NEW st, NEW n \in Nat, NEW Title, Typed(st, n, Title), NEW id,
         NEW fav \in BOOLEAN, NEW title \in Title
  PROVE  /\ HashsLive(st) => HashsLive(Mark(st, id, fav, title))
         /\ Sound(st) => Sound(Mark(st, id, fav, title))
<1> DEFINE new == Mark(st, id, fav, title)
<1>1. Marked(st, new, id, fav, title)
  BY MarkEffect
<1>2. new.panicked = st.panicked
  BY DEF Mark, Typed, Fields
<1> HIDE DEF new
<1> QED
  BY <1>1, <1>2 DEF Sound, HashsLive, FavsLive, Marked, new

\* A live entry that is no favorite yet becomes one.
LEMMA AddFavoriteKeepsSound ==
  ASSUME NEW st, NEW n \in Nat, NEW Title, Good(st, n, Title),
         NEW id \in DOMAIN st.entries, id \notin st.favSet
  PROVE  /\ HashsLive(st) => HashsLive(AddFavoriteToMemory(st, id).db)
         /\ Sound(st) => Sound(AddFavoriteToMemory(st, id).db)
<1> DEFINE mid == FavPush(st, id)
<1>0. id \in 1 .. n
  BY DEF Good, Typed, IsMap
<1>1. /\ DOMAIN mid = Fields
      /\ mid.favs = Append(st.favs, id)
      /\ mid.favSet = st.favSet \cup {id}
      /\ mid.titles = Put(st.titles, id, None)
      /\ mid.entries = st.entries
      /\ mid.hashs = st.hashs
      /\ mid.times = st.times
      /\ mid.panicked = st.panicked
  BY DEF FavPush, Good, Typed, Fields
<1> HIDE DEF mid
<1>2. IsMap(Put(st.titles, id, None), 1 .. n, Title)
  <2>1. IsMap(st.titles, 1 .. n, Title) /\ None \in Title
    BY DEF Good, Typed
  <2> QED
    BY ONLY <1>0, <2>1, PutIsMap
<1>3. Typed(mid, n, Title) /\ None \in Title
  BY <1>0, <1>1, <1>2 DEF Good, Typed
<1>4. HashsLive(st) => HashsLive(mid)
  BY <1>1 DEF HashsLive
<1>5. ASSUME Sound(st)
      PROVE  Sound(mid)
  <2>1. st.favs \in Seq(1 .. n) /\ OnceEach(st.favs) /\ id \notin Range(st.favs)
    BY <1>5 DEF Good, Typed, Sound, FavsLive
  <2>2. /\ DOMAIN mid.favs = 1 .. Len(st.favs) + 1
        /\ mid.favs[Len(st.favs) + 1] = id
        /\ \A i \in 1 .. Len(st.favs) : mid.favs[i] = st.favs[i]
    BY <1>0, <1>1, <2>1
  <2>3. DOMAIN st.favs = 1 .. Len(st.favs) /\ Len(st.favs) \in Nat
    BY <2>1
  <2>4. OnceEach(mid.favs)
    <3>1. \A i \in 1 .. Len(st.favs) : st.favs[i] # id
      BY <2>1, <2>3 DEF Range
    <3>2. ASSUME NEW i \in DOMAIN mid.favs, NEW j \in DOMAIN mid.favs, mid.favs[i] = mid.favs[j]
          PROVE  i = j
      <4>1. CASE i <= Len(st.favs) /\ j <= Len(st.favs)
        <5>1. i \in DOMAIN st.favs /\ j \in DOMAIN st.favs /\ st.favs[i] = st.favs[j]
          BY <2>2, <2>3, <3>2, <4>1
        <5> QED
          BY <2>1, <5>1 DEF OnceEach
      <4>2. CASE i = Len(st.favs) + 1 \/ j = Len(st.favs) + 1
        BY <2>2, <2>3, <3>1, <3>2, <4>2
      <4> QED
        BY <2>2, <2>3, <4>1, <4>2
    <3> QED
      BY <3>2 DEF OnceEach
  <2>5. Range(mid.favs) = Range(st.favs) \cup {id}
    BY <2>2, <2>3 DEF Range
  <2> QED
    BY <1>1, <1>5, <2>4, <2>5 DEF Sound, HashsLive, FavsLive
<1> QED
  BY <1>3, <1>4, <1>5, MarkKeepsSound DEF AddFavoriteToMemory, mid

LEMMA RemoveFavoriteKeepsSound ==
  ASSUME NEW st, NEW n \in Nat, NEW Title, Good(st, n, Title), NEW id
  PROVE  /\ HashsLive(st) => HashsLive(RemoveFavoriteFromMemory(st, id).db)
         /\ Sound(st) => Sound(RemoveFavoriteFromMemory(st, id).db)
<1> DEFINE mid == FavRemove(st, id)
<1>1. /\ DOMAIN mid = Fields
      /\ mid.favs = WithoutFirst(st.favs, id)
      /\ mid.favSet = st.favSet \ {id}
      /\ mid.titles = Drop(st.titles, {id})
      /\ mid.entries = st.entries
      /\ mid.hashs = st.hashs
      /\ mid.times = st.times
      /\ mid.panicked = st.panicked
  BY DEF FavRemove, Good, Typed, Fields
<1> HIDE DEF mid
<1>2. /\ st.favs \in Seq(1 .. n)
      /\ IsMap(st.titles, 1 .. n, Title)
  BY DEF Good, Typed
<1>3. WithoutFirst(st.favs, id) \in Seq(1 .. n)
  BY <1>2, WithoutFirstKeepsOthers
<1>4. IsMap(Drop(st.titles, {id}), 1 .. n, Title)
  BY ONLY <1>2, DropIsMap
<1>5. Typed(mid, n, Title) /\ None \in Title
  BY <1>1, <1>3, <1>4 DEF Good, Typed
<1>6. HashsLive(st) => HashsLive(mid)
  BY <1>1 DEF HashsLive
<1>7. ASSUME Sound(st)
      PROVE  Sound(mid)
  <2>1. OnceEach(mid.favs) /\ Range(mid.favs) = Range(st.favs) \ {id}
    BY <1>1, <1>2, <1>7, WithoutFirstOnce DEF Sound, FavsLive
  <2> QED
    BY <1>1, <1>7, <2>1 DEF Sound, HashsLive, FavsLive
<1> QED
  BY <1>5, <1>6, <1>7, MarkKeepsSound DEF RemoveFavoriteFromMemory, mid

LEMMA SetTitleKeepsSound ==
  ASSUME NEW st, NEW n \in Nat, NEW Title, Good(st, n, Title), NEW id, NEW title
  PROVE  /\ HashsLive(st) => HashsLive(SetFavoriteTitleInMemory(st, id, title).db)
         /\ Sound(st) => Sound(SetFavoriteTitleInMemory(st, id, title).db)
<1> DEFINE new == SetFavoriteTitleInMemory(st, id, title).db
           e == [st.entries[id] EXCEPT !.favorite_title = title]
<1>1. /\ new.entries = IF id \in DOMAIN st.entries
                         THEN [st.entries EXCEPT ![id] = e] ELSE st.entries
      /\ new.hashs = st.hashs
      /\ new.favs = st.favs /\ new.favSet = st.favSet
      /\ new.panicked = st.panicked
  BY DEF SetFavoriteTitleInMemory, Good, Typed, Fields
<1> HIDE DEF new
<1>2. ASSUME id \in DOMAIN st.entries
      PROVE  e.content = st.entries[id].content
  <2>1. st.entries[id] \in EntryUpTo(n, Title)
    BY <1>2 DEF Good, Typed, IsMap
  <2> QED
    BY <2>1 DEF EntryUpTo
<1> HIDE DEF e
<1>3. /\ DOMAIN new.entries = DOMAIN st.entries
      /\ \A x \in DOMAIN st.entries : new.entries[x].content = st.entries[x].content
  BY <1>1, <1>2 DEF Good, Typed, IsMap
<1> QED
  BY <1>1, <1>3 DEF Sound, HashsLive, FavsLive, new

-----------------------------------------------------------------------------
(* Edits, deletions, searches                                              *)

\* The edit of a live entry: its old hash goes, its new one leads to it.
LEMMA UpdateKeepsSound ==
  ASSUME NEW st, NEW n \in Nat, NEW Title, Good(st, n, Title),
         NEW id \in DOMAIN st.entries, NEW c \in Content,
         ~TakenByOther(st, id, c), NEW now \in Nat, n < now
  PROVE  /\ HashsLive(st) => HashsLive(UpdateContentInMemory(st, id, c, now).db)
         /\ Sound(st) => Sound(UpdateContentInMemory(st, id, c, now).db)
         /\ DOMAIN UpdateContentInMemory(st, id, c, now).db.entries = DOMAIN st.entries
<1> DEFINE mid == [st EXCEPT !.hashs = Rehash(st, id, c)]
           new == [Bump(mid, id, now) EXCEPT !.entries[id].content = c]
           old == Hash[st.entries[id].content]
           e == [st.entries[id] EXCEPT !.creation = now, !.content = c]
<1>1. UpdateContentInMemory(st, id, c, now).db = Search(new)
  BY DEF UpdateContentInMemory
<1>2. /\ DOMAIN new = Fields
      /\ new.entries = [st.entries EXCEPT ![id] = e]
      /\ new.hashs = Rehash(st, id, c)
      /\ new.favs = st.favs /\ new.favSet = st.favSet
      /\ new.panicked = st.panicked
  BY DEF Bump, Good, Typed, Fields, IsMap
<1>3. e.content = c
  <2>1. st.entries[id] \in EntryUpTo(n, Title)
    BY DEF Good, Typed, IsMap
  <2> QED
    BY <2>1 DEF EntryUpTo
<1> HIDE DEF new, mid, e
<1>4. /\ DOMAIN new.entries = DOMAIN st.entries
      /\ new.entries[id].content = c
      /\ \A x \in DOMAIN st.entries : x # id => new.entries[x] = st.entries[x]
  BY <1>2, <1>3 DEF Good, Typed, IsMap
<1>5. /\ DOMAIN new.hashs = (DOMAIN st.hashs \ {old}) \cup {Hash[c]}
      /\ new.hashs[Hash[c]] = id
      /\ \A h \in DOMAIN st.hashs \ {old} : h # Hash[c] => new.hashs[h] = st.hashs[h]
  BY <1>2 DEF Rehash, Put, Drop
<1>6. HashsLive(st) => \A h \in DOMAIN st.hashs \ {old} : st.hashs[h] # id
  BY DEF HashsLive
<1> HIDE DEF old
<1>7. HashsLive(st) => HashsLive(new)
  BY <1>4, <1>5, <1>6 DEF HashsLive
<1>8. Sound(st) => FavsLive(new) /\ ~new.panicked
  BY <1>2, <1>4 DEF Sound, FavsLive
<1>9. \A t \in DOMAIN new.times : new.times[t] \in DOMAIN new.entries
  <2>1. new.times = Bump(st, id, now).times /\ DOMAIN Bump(st, id, now).entries = DOMAIN st.entries
    BY BumpKeepsGood DEF new, mid, Bump, Good, Typed, Fields
  <2>2. \A t \in DOMAIN Bump(st, id, now).times :
          Bump(st, id, now).times[t] \in DOMAIN Bump(st, id, now).entries
    BY BumpKeepsGood DEF Good, TimesGood
  <2> QED
    BY <1>4, <2>1, <2>2
<1>10. FavsLive(new) => ~IterPanics(new)
  BY <1>8, <1>9 DEF IterPanics, FavsLive, Range
<1>11. /\ Search(new).entries = new.entries
       /\ Search(new).hashs = new.hashs
       /\ Search(new).favs = new.favs
       /\ Search(new).favSet = new.favSet
       /\ FavsLive(new) => Search(new).panicked = new.panicked
  BY <1>2, <1>10 DEF Search, Panic, Fields
<1> QED
  BY <1>1, <1>4, <1>7, <1>8, <1>11 DEF Sound, HashsLive, FavsLive

\* The merge of a live entry into the one that has the content.
LEMMA MergeKeepsSound ==
  ASSUME NEW st, NEW n \in Nat, NEW Title, Good(st, n, Title), HashsLive(st),
         NEW id \in DOMAIN st.entries, NEW c \in Content,
         TakenByOther(st, id, c), NEW now \in Nat, n < now
  PROVE  /\ HashsLive(MergeIntoOther(st, id, c, now))
         /\ Sound(st) => Sound(MergeIntoOther(st, id, c, now))
<1> DEFINE other == st.hashs[Hash[c]]
           left == Remove(st, id)
<1>1. other \in DOMAIN st.entries /\ other # id
  BY DEF TakenByOther, HashsLive
<1>2. /\ Good(left, n, Title) /\ HashsLive(left)
      /\ Sound(st) => Sound(left)
      /\ DOMAIN left.entries = DOMAIN st.entries \ {id}
  BY RemoveKeepsGood, RemoveKeepsSound
<1>3. other \in DOMAIN left.entries
  BY <1>1, <1>2
<1>4. MergeIntoOther(st, id, c, now) = Search(Bump(left, other, now))
  BY <1>3 DEF MergeIntoOther
<1> HIDE DEF other, left
<1>5. /\ Good(Bump(left, other, now), now, Title)
      /\ HashsLive(Bump(left, other, now))
      /\ Sound(left) => Sound(Bump(left, other, now))
  BY <1>2, <1>3, BumpKeepsGood, BumpKeepsSound
<1> QED
  BY <1>2, <1>4, <1>5, SearchKeepsSound

LEMMA DeleteKeepsSound ==
  ASSUME NEW st, NEW n \in Nat, NEW Title, Good(st, n, Title), NEW id
  PROVE  /\ HashsLive(st) => HashsLive(DeleteFromMemory(st, id).db)
         /\ Sound(st) => Sound(DeleteFromMemory(st, id).db)
<1>1. CASE id \notin DOMAIN st.entries
  BY <1>1 DEF DeleteFromMemory, NoOp
<1>2. CASE id \in DOMAIN st.entries
  <2>1. DeleteFromMemory(st, id).db = Search(Remove(st, id))
    BY <1>2 DEF DeleteFromMemory
  <2>2. /\ Good(Remove(st, id), n, Title)
        /\ HashsLive(st) => HashsLive(Remove(st, id))
        /\ Sound(st) => Sound(Remove(st, id))
    BY <1>2, RemoveKeepsGood, RemoveKeepsSound
  <2> QED
    BY <2>1, <2>2, SearchKeepsSound
<1> QED
  BY <1>1, <1>2

LEMMA ClearKeepsSound ==
  ASSUME NEW st, NEW n \in Nat, NEW Title, Good(st, n, Title)
  PROVE  /\ HashsLive(st) => HashsLive(ClearMemory(st).db)
         /\ Sound(st) => Sound(ClearMemory(st).db)
<1> DEFINE ids == {id \in DOMAIN st.entries : id \notin st.favSet}
<1>1. ClearMemory(st).db = Search(Unindex(st, ids))
  BY DEF ClearMemory
<1>2. ids \in SUBSET DOMAIN st.entries /\ ids \cap st.favSet = {}
  OBVIOUS
<1> HIDE DEF ids
<1>3. /\ Good(Unindex(st, ids), n, Title)
      /\ HashsLive(st) => HashsLive(Unindex(st, ids))
      /\ Sound(st) => Sound(Unindex(st, ids))
  BY <1>2, UnindexKeepsGood, UnindexKeepsSound, UnindexKeepsHashs
<1> QED
  BY <1>1, <1>3, SearchKeepsSound

LEMMA SetQueryKeepsSound ==
  ASSUME NEW st, NEW n \in Nat, NEW Title, Good(st, n, Title), Sound(st), NEW q
  PROVE  Sound(SetQueryAndSearch(st, q))
<1> DEFINE new == [st EXCEPT !.query = q]
<1>1. Good(new, n, Title)
  BY DEF Good, Typed, TimesGood, HashsGood, FavsGood, Fields
<1>2. Sound(new)
  BY DEF Good, Typed, Fields, Sound, HashsLive, FavsLive
<1> HIDE DEF new
<1> QED
  BY <1>1, <1>2, SearchKeepsSound DEF SetQueryAndSearch, new

\* The newest entry is live.
LEMMA NewestIdLive ==
  ASSUME NEW st, NEW n \in Nat, NEW Title, Good(st, n, Title), NewestId(st) # None
  PROVE  NewestId(st) \in DOMAIN st.entries
<1>1. DOMAIN st.times # {} /\ DOMAIN st.times \subseteq 1 .. n
  BY DEF NewestId, Good, Typed, IsMap
<1>2. Newest(DOMAIN st.times, 1) \in DOMAIN st.times
  BY <1>1, NewestInSet
<1> QED
  BY <1>1, <1>2 DEF NewestId, Good, TimesGood

\* Where the last time given is indexed, it is the newest.
LEMMA NewestLast ==
  ASSUME NEW n \in Nat, NEW T \in SUBSET (1 .. n), n \in T
  PROVE  Newest(T, 1) = n
<1> DEFINE Above(t) == {u \in T : u >= t}
<1>1. IsFiniteSet(T)
  <2>1. IsFiniteSet(1 .. n)
    BY FS_Interval
  <2> QED
    BY <2>1, FS_Subset
<1>2. \A t \in T : t \in Nat /\ t <= n
  OBVIOUS
<1>3. Above(n) = {n}
  <2>1. \A u \in T : u >= n <=> u = n
    BY <1>2
  <2>2. \A u : u \in Above(n) <=> u \in {n}
    BY <2>1
  <2> HIDE DEF Above
  <2> QED
    BY <2>2
<1>4. Cardinality(Above(n)) = 1
  <2>1. Cardinality({n}) = 1
    BY FS_Singleton
  <2> QED
    BY <1>3, <2>1
<1>5. ASSUME NEW t \in T, Cardinality(Above(t)) = 1
      PROVE  t = n
  <2>1. IsFiniteSet(Above(t)) /\ t \in Above(t) /\ n \in Above(t)
    BY <1>1, <1>2, FS_Subset
  <2> HIDE DEF Above
  <2>2. \E x : Above(t) = {x}
    BY <1>5, <2>1, FS_Singleton
  <2> QED
    BY <2>1, <2>2
<1>6. Newest(T, 1) = CHOOSE t \in T : Cardinality(Above(t)) = 1
  BY DEF Newest
<1> HIDE DEF Above
<1>7. \E t \in T : Cardinality(Above(t)) = 1
  BY <1>4
<1>8. Newest(T, 1) \in T /\ Cardinality(Above(Newest(T, 1))) = 1
  BY <1>6, <1>7
<1> QED
  BY <1>5, <1>8

LEMMA TopIsLast ==
  ASSUME NEW st, NEW now \in Nat, NEW Title, Good(st, now, Title), now \in DOMAIN st.times
  PROVE  NewestId(st) = st.times[now] /\ NewestId(st) # None
<1>1. DOMAIN st.times \in SUBSET (1 .. now) /\ st.times[now] \in 1 .. now
  BY DEF Good, Typed, IsMap
<1>2. Newest(DOMAIN st.times, 1) = now
  BY <1>1, NewestLast
<1> QED
  BY <1>1, <1>2, StoreAssumption DEF NewestId

-----------------------------------------------------------------------------
(* Favorites stay                                                          *)

\* No favorite of st is missing from new.
KeepsFavorites(st, new) ==
  \A id \in DOMAIN st.entries \ DOMAIN new.entries : ~st.entries[id].is_favorite

LEMMA SearchEntries ==
  ASSUME NEW st, DOMAIN st = Fields
  PROVE  Search(st).entries = st.entries
  BY DEF Search, Panic, Fields

LEMMA InsertKeepsFavorites ==
  ASSUME NEW st, NEW n \in Nat, NEW Title, Good(st, n, Title), NEW c \in Content,
         NEW now \in Nat, n < now
  PROVE  KeepsFavorites(st, InsertToMemory(st, c, now).db)
<1>1. CASE ~OwnsLock
  BY <1>1 DEF InsertToMemory, NoOp, KeepsFavorites
<1>2. CASE OwnsLock /\ Hash[c] \in DOMAIN st.hashs
  <2> DEFINE id == st.hashs[Hash[c]]
  <2>1. CASE id \notin DOMAIN st.entries \/ st.entries[id].creation \notin DOMAIN st.times
    <3>1. InsertToMemory(st, c, now).db = Panic(st)
      BY <1>2, <2>1 DEF InsertToMemory, Refresh, NoOp
    <3>2. Panic(st).entries = st.entries
      BY DEF Panic, Good, Typed, Fields
    <3> QED
      BY <3>1, <3>2 DEF KeepsFavorites
  <2>2. CASE ~(id \notin DOMAIN st.entries \/ st.entries[id].creation \notin DOMAIN st.times)
    <3>1. InsertToMemory(st, c, now).db = Search(Bump(st, id, now))
      BY <1>2, <2>2 DEF InsertToMemory, Refresh
    <3> HIDE DEF id
    <3>2. /\ Good(Bump(st, id, now), now, Title)
          /\ DOMAIN Bump(st, id, now).entries = DOMAIN st.entries
      BY <2>2, BumpKeepsGood
    <3>3. Search(Bump(st, id, now)).entries = Bump(st, id, now).entries
      BY <3>2, SearchEntries DEF Good, Typed
    <3> QED
      BY <3>1, <3>2, <3>3 DEF KeepsFavorites
  <2> QED
    BY <2>1, <2>2
<1>3. CASE OwnsLock /\ Hash[c] \notin DOMAIN st.hashs
  <2> DEFINE grown == Grow(st, c, now)
             gone == Evicted(grown)
             left == Unindex(grown, gone)
  <2>1. /\ Good(grown, now, Title)
        /\ DOMAIN grown.entries = DOMAIN st.entries \cup {now}
    BY <1>3, GrowKeepsGood
  <2>2. grown.favSet = st.favSet
    BY DEF Grow, Good, Typed, Fields
  <2>3. InsertToMemory(st, c, now).db = Search(left)
    BY <1>3 DEF InsertToMemory, InsertNew
  <2> HIDE DEF grown
  <2>4. gone \in SUBSET DOMAIN grown.entries /\ gone \cap grown.favSet = {}
    BY <2>1, EvictedNoFavorite
  <2> HIDE DEF gone
  <2>5. Good(left, now, Title) /\ DOMAIN left.entries = DOMAIN grown.entries \ gone
    BY <2>1, <2>4, UnindexKeepsGood
  <2> HIDE DEF left
  <2>6. Search(left).entries = left.entries
    BY <2>5, SearchEntries DEF Good, Typed
  <2>7. \A id \in DOMAIN st.entries : st.entries[id].is_favorite => id \in st.favSet
    BY DEF Good, FavsGood
  <2> QED
    BY <2>1, <2>2, <2>3, <2>4, <2>5, <2>6, <2>7 DEF KeepsFavorites
<1> QED
  BY <1>1, <1>2, <1>3

LEMMA ClearKeepsFavorites ==
  ASSUME NEW st, NEW n \in Nat, NEW Title, Good(st, n, Title)
  PROVE  KeepsFavorites(st, ClearMemory(st).db)
<1> DEFINE ids == {id \in DOMAIN st.entries : id \notin st.favSet}
           left == Unindex(st, ids)
<1>1. ClearMemory(st).db = Search(left)
  BY DEF ClearMemory
<1>2. ids \in SUBSET DOMAIN st.entries
  OBVIOUS
<1>3. Good(left, n, Title) /\ DOMAIN left.entries = DOMAIN st.entries \ ids
  <2> HIDE DEF ids
  <2> QED
    BY <1>2, UnindexKeepsGood
<1>4. Search(left).entries = left.entries
  <2> HIDE DEF left
  <2> QED
    BY <1>3, SearchEntries DEF Good, Typed
<1> QED
  BY <1>1, <1>3, <1>4 DEF KeepsFavorites, Good, FavsGood

\* Starring, unstarring and titling remove no entry.
LEMMA TitlesKeepEntries ==
  ASSUME NEW st, DOMAIN st = Fields, NEW id
  PROVE  /\ DOMAIN AddFavoriteToMemory(st, id).db.entries = DOMAIN st.entries
         /\ DOMAIN RemoveFavoriteFromMemory(st, id).db.entries = DOMAIN st.entries
         /\ \A title : DOMAIN SetFavoriteTitleInMemory(st, id, title).db.entries
                         = DOMAIN st.entries
<1>1. DOMAIN AddFavoriteToMemory(st, id).db.entries = DOMAIN st.entries
  BY DEF AddFavoriteToMemory, Mark, FavPush, Fields
<1>2. DOMAIN RemoveFavoriteFromMemory(st, id).db.entries = DOMAIN st.entries
  BY DEF RemoveFavoriteFromMemory, Mark, FavRemove, Fields
<1>3. \A title : DOMAIN SetFavoriteTitleInMemory(st, id, title).db.entries = DOMAIN st.entries
  BY DEF SetFavoriteTitleInMemory, Fields
<1> QED
  BY <1>1, <1>2, <1>3

\* From st to new no entry but id may have gone, and none came.
TakesOnly(st, new, id) ==
  /\ DOMAIN st.entries \ DOMAIN new.entries \subseteq {id}
  /\ DOMAIN new.entries \subseteq DOMAIN st.entries

\* Of an edit and a deletion only the entry they are about may go.
LEMMA EditTakesOne ==
  ASSUME NEW st, NEW n \in Nat, NEW Title, Good(st, n, Title), NEW id, NEW c \in Content,
         NEW now \in Nat, n < now
  PROVE  /\ TakesOnly(st, MergeIntoOther(st, id, c, now), id)
         /\ TakesOnly(st, UpdateContentInMemory(st, id, c, now).db, id)
<1>1. /\ DOMAIN st.entries \ DOMAIN MergeIntoOther(st, id, c, now).entries \subseteq {id}
      /\ DOMAIN MergeIntoOther(st, id, c, now).entries \subseteq DOMAIN st.entries
  <2> DEFINE other == st.hashs[Hash[c]]
             left == IF id \in DOMAIN st.entries THEN Remove(st, id) ELSE st
  <2>1. /\ Good(left, n, Title) /\ DOMAIN st.entries \ DOMAIN left.entries \subseteq {id}
        /\ DOMAIN left.entries \subseteq DOMAIN st.entries
    BY RemoveKeepsGood
  <2>2. CASE other \in DOMAIN left.entries
    <3>1. MergeIntoOther(st, id, c, now) = Search(Bump(left, other, now))
      BY <2>2 DEF MergeIntoOther
    <3> HIDE DEF left, other
    <3>2. /\ Good(Bump(left, other, now), now, Title)
          /\ DOMAIN Bump(left, other, now).entries = DOMAIN left.entries
      BY <2>1, <2>2, BumpKeepsGood
    <3>3. Search(Bump(left, other, now)).entries = Bump(left, other, now).entries
      BY <3>2, SearchEntries DEF Good, Typed
    <3> QED
      BY <2>1, <3>1, <3>2, <3>3
  <2>3. CASE other \notin DOMAIN left.entries
    <3>1. MergeIntoOther(st, id, c, now) = Panic(left)
      BY <2>3 DEF MergeIntoOther
    <3> HIDE DEF left, other
    <3>2. Panic(left).entries = left.entries
      BY <2>1 DEF Panic, Good, Typed, Fields
    <3> QED
      BY <2>1, <3>1, <3>2
  <2> QED
    BY <2>2, <2>3
<1>2. DOMAIN UpdateContentInMemory(st, id, c, now).db.entries = DOMAIN st.entries
  <2> DEFINE mid == [st EXCEPT !.hashs = Rehash(st, id, c)]
             new == IF id \in DOMAIN st.entries
                      THEN [Bump(mid, id, now) EXCEPT !.entries[id].content = c]
                      ELSE mid
  <2>1. CASE TakenByOther(st, id, c)
    BY <2>1 DEF UpdateContentInMemory, NoOp
  <2>2. CASE ~TakenByOther(st, id, c)
    <3>1. UpdateContentInMemory(st, id, c, now).db = Search(new)
      BY <2>2 DEF UpdateContentInMemory
    <3>2. DOMAIN new = Fields /\ DOMAIN new.entries = DOMAIN st.entries
      BY DEF Bump, Good, Typed, Fields, IsMap
    <3> HIDE DEF new
    <3>3. Search(new).entries = new.entries
      BY <3>2 DEF Search, Panic, Fields
    <3> QED
      BY <3>1, <3>2, <3>3
  <2> QED
    BY <2>1, <2>2
<1> QED
  BY <1>1, <1>2 DEF TakesOnly

LEMMA DeleteTakesOne ==
  ASSUME NEW st, NEW n \in Nat, NEW Title, Good(st, n, Title), NEW id
  PROVE  TakesOnly(st, DeleteFromMemory(st, id).db, id)
<1>1. CASE id \notin DOMAIN st.entries
  BY <1>1 DEF DeleteFromMemory, NoOp, TakesOnly
<1>2. CASE id \in DOMAIN st.entries
  <2>1. Good(Remove(st, id), n, Title) /\ DOMAIN Remove(st, id).entries = DOMAIN st.entries \ {id}
    BY <1>2, RemoveKeepsGood
  <2>2. DeleteFromMemory(st, id).db = Search(Remove(st, id))
    BY <1>2 DEF DeleteFromMemory
  <2>3. Search(Remove(st, id)).entries = Remove(st, id).entries
    BY <2>1, SearchEntries DEF Good, Typed
  <2> QED
    BY <2>1, <2>2, <2>3 DEF TakesOnly
<1> QED
  BY <1>1, <1>2

-----------------------------------------------------------------------------
(* The limit                                                               *)

\* The store is not over its limit.
Limited(st) == MaxEntries # None => Cardinality(DOMAIN st.entries) <= MaxEntries

\* From st to new only the oldest evictable entry went, if the limit asked for it.
TakesOldest(st, new) ==
  /\ \A gone \in DOMAIN st.entries \ DOMAIN new.entries,
       kept \in DOMAIN st.entries \cap DOMAIN new.entries :
         \/ st.entries[kept].is_favorite
         \/ st.entries[gone].creation < st.entries[kept].creation
  /\ ~(DOMAIN st.entries \subseteq DOMAIN new.entries)
       => Cardinality(DOMAIN new.entries) = MaxEntries

\* A store one over its limit evicts exactly the oldest evictable time.
LEMMA OldestIsOne ==
  ASSUME NEW st, NEW n \in Nat, NEW Title, Good(st, n, Title), MaxEntries # None,
         Cardinality(DOMAIN st.entries) = MaxEntries + 1, Evictable(st) # {}
  PROVE  \E t \in Evictable(st) : Oldest(st) = {t} /\ \A u \in Evictable(st) : t <= u
<1> DEFINE E == Evictable(st)
<1>1. MaxEntries \in Nat
  BY StoreAssumption
<1>2. E \subseteq 1 .. n /\ \A u \in E : u \in Nat
  BY DEF Good, Typed, IsMap, Evictable
<1>3. IsFiniteSet(E)
  <2>1. IsFiniteSet(1 .. n)
    BY FS_Interval
  <2> QED
    BY <1>2, <2>1, FS_Subset
<1>4. Oldest(st) = {t \in E : Cardinality({u \in E : u <= t}) <= 1}
  <2>1. Cardinality(DOMAIN st.entries) - MaxEntries = 1
    BY <1>1
  <2> QED
    BY <2>1 DEF Oldest
<1> HIDE DEF E
<1>5. PICK m \in E : \A k \in E : m <= k
  <2>1. E # {}
    BY DEF E
  <2> QED
    BY <1>2, <2>1, LeastNatural
<1>6. Cardinality({u \in E : u <= m}) <= 1
  <2>1. \A u \in E : u <= m <=> u = m
    BY <1>2, <1>5
  <2>2. {u \in E : u <= m} = {m}
    BY <1>5, <2>1
  <2>3. Cardinality({m}) = 1
    BY FS_Singleton
  <2> QED
    BY <2>2, <2>3
<1>7. ASSUME NEW t \in E, t # m
      PROVE  ~(Cardinality({u \in E : u <= t}) <= 1)
  <2> DEFINE upTo == {u \in E : u <= t}
  <2>1. upTo \subseteq E /\ IsFiniteSet(upTo)
    BY <1>3, FS_Subset
  <2>2. m \in upTo /\ t \in upTo
    BY <1>2, <1>5
  <2> HIDE DEF upTo
  <2>3. IsFiniteSet(upTo \ {m}) /\ Cardinality(upTo \ {m}) = Cardinality(upTo) - 1
    BY <2>1, <2>2, FS_RemoveElement
  <2>4. Cardinality(upTo \ {m}) # 0 /\ Cardinality(upTo \ {m}) \in Nat
    <3>1. t \in upTo \ {m}
      BY <1>7, <2>2
    <3> QED
      BY <2>3, <3>1, FS_EmptySet, FS_CardinalityType
  <2>5. Cardinality(upTo) \in Nat
    BY <2>1, FS_CardinalityType
  <2>6. ~(Cardinality(upTo) <= 1)
    BY <2>3, <2>4, <2>5
  <2> QED
    BY <2>6 DEF upTo
<1>8. Oldest(st) = {m}
  BY <1>4, <1>5, <1>6, <1>7
<1> QED
  BY <1>5, <1>8 DEF E

\* A store within its limit evicts nothing.
LEMMA LimitedKeepsAll ==
  ASSUME NEW st, NEW n \in Nat, NEW Title, Good(st, n, Title), Limited(st)
  PROVE  Evicted(st) = {}
<1>1. Oldest(st) = {}
  <2>1. CASE MaxEntries = None
    BY <2>1 DEF Oldest
  <2>2. CASE MaxEntries # None
    <3> DEFINE E == Evictable(st)
    <3>1. E \subseteq 1 .. n /\ IsFiniteSet(E) /\ IsFiniteSet(DOMAIN st.entries)
      <4>1. IsFiniteSet(1 .. n)
        BY FS_Interval
      <4>2. E \subseteq 1 .. n /\ DOMAIN st.entries \subseteq 1 .. n
        BY DEF Good, Typed, IsMap, Evictable
      <4> QED
        BY <4>1, <4>2, FS_Subset
    <3>2. MaxEntries \in Nat /\ Cardinality(DOMAIN st.entries) \in Nat
          /\ Cardinality(DOMAIN st.entries) <= MaxEntries
      BY <2>2, <3>1, StoreAssumption, FS_CardinalityType DEF Limited
    <3>3. ASSUME NEW t \in E
          PROVE  ~(Cardinality({u \in E : u <= t}) <= Cardinality(DOMAIN st.entries) - MaxEntries)
      <4>1. t \in {u \in E : u <= t} /\ IsFiniteSet({u \in E : u <= t})
        BY <3>1, FS_Subset
      <4>2. Cardinality({u \in E : u <= t}) \in Nat /\ Cardinality({u \in E : u <= t}) # 0
        BY <4>1, FS_CardinalityType, FS_EmptySet
      <4> QED
        BY <3>2, <4>2
    <3> QED
      BY <3>3 DEF Oldest
  <2> QED
    BY <2>1, <2>2
<1> QED
  BY <1>1 DEF Evicted

\* A copy keeps the store within its limit, and what it evicts for that is the
\* oldest entry that is no favorite.
LEMMA InsertTakesOldest ==
  ASSUME NEW st, NEW n \in Nat, NEW Title, Good(st, n, Title), NEW c \in Content,
         NEW now \in Nat, n < now, Limited(st)
  PROVE  /\ Limited(InsertToMemory(st, c, now).db)
         /\ TakesOldest(st, InsertToMemory(st, c, now).db)
<1>1. CASE ~OwnsLock
  BY <1>1 DEF InsertToMemory, NoOp, TakesOldest
<1>2. CASE OwnsLock /\ Hash[c] \in DOMAIN st.hashs
  <2> DEFINE id == st.hashs[Hash[c]]
  <2>1. CASE id \notin DOMAIN st.entries \/ st.entries[id].creation \notin DOMAIN st.times
    <3>1. InsertToMemory(st, c, now).db = Panic(st)
      BY <1>2, <2>1 DEF InsertToMemory, Refresh, NoOp
    <3>2. Panic(st).entries = st.entries
      BY DEF Panic, Good, Typed, Fields
    <3> QED
      BY <3>1, <3>2 DEF TakesOldest, Limited
  <2>2. CASE ~(id \notin DOMAIN st.entries \/ st.entries[id].creation \notin DOMAIN st.times)
    <3>1. InsertToMemory(st, c, now).db = Search(Bump(st, id, now))
      BY <1>2, <2>2 DEF InsertToMemory, Refresh
    <3> HIDE DEF id
    <3>2. /\ Good(Bump(st, id, now), now, Title)
          /\ DOMAIN Bump(st, id, now).entries = DOMAIN st.entries
      BY <2>2, BumpKeepsGood
    <3>3. Search(Bump(st, id, now)).entries = Bump(st, id, now).entries
      BY <3>2, SearchEntries DEF Good, Typed
    <3> QED
      BY <3>1, <3>2, <3>3 DEF TakesOldest, Limited
  <2> QED
    BY <2>1, <2>2
<1>3. CASE OwnsLock /\ Hash[c] \notin DOMAIN st.hashs
  <2> DEFINE grown == Grow(st, c, now)
             gone == Evicted(grown)
             left == Unindex(grown, gone)
             new == InsertToMemory(st, c, now).db
  <2>1. /\ Good(grown, now, Title)
        /\ DOMAIN grown.entries = DOMAIN st.entries \cup {now}
    BY <1>3, GrowKeepsGood
  <2>2. /\ grown.favSet = st.favSet /\ now \notin st.favSet
        /\ now \in DOMAIN grown.times /\ grown.times[now] = now
        /\ now \notin DOMAIN st.entries
        /\ \A id \in DOMAIN st.entries : grown.entries[id] = st.entries[id]
    <3>1. now \notin 1 .. n
      OBVIOUS
    <3> QED
      BY <3>1 DEF Grow, Put, Good, Typed, Fields, IsMap
  <2>3. new = Search(left)
    BY <1>3 DEF InsertToMemory, InsertNew
  <2> HIDE DEF grown, new
  <2>4. gone \in SUBSET DOMAIN grown.entries
    BY <2>1, EvictedNoFavorite
  <2>5. Good(left, now, Title) /\ DOMAIN left.entries = DOMAIN grown.entries \ gone
    <3> HIDE DEF gone
    <3> QED
      BY <2>1, <2>4, UnindexKeepsGood
  <2> HIDE DEF left
  <2>6. DOMAIN new.entries = (DOMAIN st.entries \cup {now}) \ gone
    <3>1. Search(left).entries = left.entries
      BY <2>5, SearchEntries DEF Good, Typed
    <3> QED
      BY <2>1, <2>3, <2>5, <3>1
  <2>7. /\ IsFiniteSet(DOMAIN st.entries) /\ Cardinality(DOMAIN st.entries) \in Nat
        /\ IsFiniteSet(DOMAIN grown.entries)
        /\ Cardinality(DOMAIN grown.entries) = Cardinality(DOMAIN st.entries) + 1
    <3>1. DOMAIN st.entries \subseteq 1 .. n
      BY DEF Good, Typed, IsMap
    <3>2. IsFiniteSet(DOMAIN st.entries)
      BY <3>1, FS_Interval, FS_Subset
    <3> QED
      BY <2>1, <2>2, <3>2, FS_CardinalityType, FS_AddElement
  <2>8. CASE Limited(grown)
    <3>1. gone = {}
      BY <2>1, <2>8, LimitedKeepsAll
    <3>2. DOMAIN new.entries = DOMAIN grown.entries
      BY <2>1, <2>6, <3>1
    <3> QED
      BY <2>1, <2>8, <3>2 DEF TakesOldest, Limited, new
  <2>9. CASE ~Limited(grown)
    <3>1. MaxEntries # None /\ MaxEntries \in Nat
          /\ Cardinality(DOMAIN grown.entries) = MaxEntries + 1
      BY <2>7, <2>9, StoreAssumption DEF Limited
    <3>2. now \in Evictable(grown)
      BY <2>2 DEF Evictable
    <3>3. PICK t \in Evictable(grown) :
            Oldest(grown) = {t} /\ \A u \in Evictable(grown) : t <= u
      BY <2>1, <3>1, <3>2, OldestIsOne
    <3> DEFINE old == grown.times[t]
    <3>4. gone = {old} /\ old \in DOMAIN grown.entries /\ grown.entries[old].creation = t
      BY <2>1, <3>3 DEF Evicted, Evictable, Good, TimesGood
    <3>5. ASSUME NEW kept \in DOMAIN grown.entries, kept # old, ~grown.entries[kept].is_favorite
          PROVE  t < grown.entries[kept].creation
      <4>1. /\ grown.entries[kept].creation \in DOMAIN grown.times
            /\ grown.times[grown.entries[kept].creation] = kept
        BY <2>1 DEF Good, TimesGood
      <4>2. kept \notin grown.favSet
        BY <2>1, <3>5 DEF Good, FavsGood
      <4>3. grown.entries[kept].creation \in Evictable(grown) /\ grown.entries[kept].creation # t
        BY <3>5, <4>1, <4>2 DEF Evictable
      <4>4. t \in Nat /\ grown.entries[kept].creation \in Nat
        <5>1. DOMAIN grown.times \subseteq 1 .. now
          BY <2>1 DEF Good, Typed, IsMap
        <5> QED
          BY <4>1, <5>1 DEF Evictable
      <4> QED
        BY <3>3, <4>3, <4>4
    <3> HIDE DEF old, gone
    <3>6. Cardinality(DOMAIN new.entries) = MaxEntries
      <4>1. DOMAIN new.entries = DOMAIN grown.entries \ {old}
        BY <2>1, <2>6, <3>4
      <4>2. Cardinality(DOMAIN grown.entries \ {old}) = Cardinality(DOMAIN grown.entries) - 1
        BY <2>7, <3>4, FS_RemoveElement
      <4> QED
        BY <3>1, <4>1, <4>2
    <3>7. ASSUME NEW lost \in DOMAIN st.entries \ DOMAIN new.entries,
                 NEW kept \in DOMAIN st.entries \cap DOMAIN new.entries,
                 ~st.entries[kept].is_favorite
          PROVE  st.entries[lost].creation < st.entries[kept].creation
      <4>1. lost = old /\ kept # old /\ kept \in DOMAIN grown.entries
        BY <2>1, <2>6, <3>4
      <4>2. grown.entries[lost] = st.entries[lost] /\ grown.entries[kept] = st.entries[kept]
        BY <2>2
      <4> QED
        BY <3>4, <3>5, <3>7, <4>1, <4>2
    <3>8. Limited(new)
      BY <3>1, <3>6 DEF Limited
    <3>9. TakesOldest(st, new)
      BY <3>6, <3>7 DEF TakesOldest
    <3> QED
      BY <3>8, <3>9 DEF new
  <2> QED
    BY <2>8, <2>9
<1> QED
  BY <1>1, <1>2, <1>3

-----------------------------------------------------------------------------
(* Ranks in an order, by which NewestFirst and the reads of reload sort    *)

StrictOrder(R, D) ==
  /\ \A x, y \in D : x # y => << x, y >> \in R \/ << y, x >> \in R
  /\ \A x, y \in D : ~(<< x, y >> \in R /\ << y, x >> \in R)
  /\ \A x, y, z \in D : << x, y >> \in R /\ << y, z >> \in R => << x, z >> \in R

Rank(x, D, R) == Cardinality({y \in D : << y, x >> \in R})

\* What comes earlier has a lower rank, and no rank reaches the size of the set.
LEMMA RanksFollow ==
  ASSUME NEW D, IsFiniteSet(D), NEW R, StrictOrder(R, D), NEW x \in D
  PROVE  /\ Rank(x, D, R) \in 0 .. Cardinality(D) - 1
         /\ \A y \in D : << x, y >> \in R => Rank(x, D, R) < Rank(y, D, R)
<1> DEFINE L(z) == {y \in D : << y, z >> \in R}
<1>1. ASSUME NEW z \in D
      PROVE  /\ IsFiniteSet(L(z)) /\ Cardinality(L(z)) \in Nat
             /\ z \notin L(z) /\ Cardinality(L(z)) < Cardinality(D)
  <2>1. z \notin L(z) /\ L(z) \in SUBSET D
    BY DEF StrictOrder
  <2> HIDE DEF L
  <2>2. /\ IsFiniteSet(L(z)) /\ Cardinality(L(z)) <= Cardinality(D)
        /\ Cardinality(L(z)) # Cardinality(D)
    BY <2>1, FS_Subset
  <2>3. Cardinality(L(z)) \in Nat /\ Cardinality(D) \in Nat
    BY <2>2, FS_CardinalityType
  <2> QED
    BY <2>1, <2>2, <2>3
<1>2. ASSUME NEW y \in D, << x, y >> \in R
      PROVE  Cardinality(L(x)) < Cardinality(L(y))
  <2>1. L(x) \in SUBSET L(y) /\ x \in L(y) /\ x \notin L(x)
    BY <1>2 DEF StrictOrder
  <2>2. IsFiniteSet(L(y)) /\ Cardinality(L(y)) \in Nat /\ Cardinality(L(x)) \in Nat
    BY <1>1
  <2> HIDE DEF L
  <2>3. Cardinality(L(x)) <= Cardinality(L(y)) /\ Cardinality(L(x)) # Cardinality(L(y))
    BY <2>1, <2>2, FS_Subset
  <2> QED
    BY <2>2, <2>3
<1>3. Cardinality(D) \in Nat
  BY FS_CardinalityType
<1>4. \A z \in D : Rank(z, D, R) = Cardinality(L(z))
  BY DEF Rank
<1> HIDE DEF L
<1>5. Rank(x, D, R) \in 0 .. Cardinality(D) - 1
  BY <1>1, <1>3, <1>4
<1> QED
  BY <1>2, <1>4, <1>5

\* Each rank below the size of the set is that of exactly one element.
LEMMA EachRankOnce ==
  ASSUME NEW D, IsFiniteSet(D), NEW R, StrictOrder(R, D)
  PROVE  /\ \A k \in 1 .. Cardinality(D) : \E x \in D : Rank(x, D, R) = k - 1
         /\ \A x, y \in D : Rank(x, D, R) = Rank(y, D, R) => x = y
<1> DEFINE K == 0 .. Cardinality(D) - 1
           f == [x \in D |-> Rank(x, D, R)]
<1>0. Cardinality(D) \in Nat
  BY FS_CardinalityType
<1>1. \A x \in D : Rank(x, D, R) \in K
  BY RanksFollow
<1>2. ASSUME NEW x \in D, NEW y \in D, Rank(x, D, R) = Rank(y, D, R)
      PROVE  x = y
  <2>1. /\ << x, y >> \in R => Rank(x, D, R) < Rank(y, D, R)
        /\ << y, x >> \in R => Rank(y, D, R) < Rank(x, D, R)
    BY RanksFollow
  <2>2. Rank(x, D, R) \in Nat
    BY <1>0, <1>1
  <2> QED
    BY <1>2, <2>1, <2>2 DEF StrictOrder
<1>3. IsFiniteSet(K) /\ Cardinality(K) = Cardinality(D)
  BY <1>0, FS_Interval
<1>4. f \in Injection(D, K)
  <2>1. f \in [D -> K]
    BY <1>1
  <2>2. \A x, y \in D : f[x] = f[y] => x = y
    BY <1>2
  <2> QED
    BY <2>1, <2>2 DEF Injection, IsInjective
<1>5. f \in Surjection(D, K)
  BY ONLY <1>3, <1>4, FS_Injection
<1>6. \A k \in K : \E x \in D : Rank(x, D, R) = k
  BY <1>5 DEF Surjection
<1>7. \A k \in 1 .. Cardinality(D) : k - 1 \in K
  BY <1>0
<1> QED
  BY <1>2, <1>6, <1>7

\* The first index of what a sequence holds is one of its indexes.
LEMMA FirstIndexIn ==
  ASSUME NEW S, NEW s \in Seq(S), NEW e \in Range(s)
  PROVE  FirstIndex(s, e) \in 1 .. Len(s) /\ s[FirstIndex(s, e)] = e
<1> DEFINE T == {i \in DOMAIN s : s[i] = e}
<1>1. T \in SUBSET Nat /\ T # {}
  BY DEF Range
<1>2. PICK m \in T : \A j \in T : m <= j
  BY <1>1, LeastNatural
<1>3. m \in DOMAIN s /\ s[m] = e /\ \A j \in 1 .. m - 1 : s[j] # e
  BY <1>2
<1> QED
  BY <1>3 DEF FirstIndex
-----------------------------------------------------------------------------
(* Selected takes from a sequence                                          *)

\* Induction up to n.
LEMMA UpTo ==
  ASSUME NEW n \in Nat, NEW G, 0 \in G, \A k \in 0 .. n : k # n /\ k \in G => k + 1 \in G
  PROVE  0 .. n \subseteq G
<1> DEFINE Bad == 0 .. n \ G
<1> SUFFICES ASSUME Bad # {}
             PROVE  FALSE
  OBVIOUS
<1>1. Bad \in SUBSET Nat
  OBVIOUS
<1>2. PICK m \in Bad : \A k \in Bad : m <= k
  <2> HIDE DEF Bad
  <2> QED
    BY <1>1, LeastNatural
<1>3. m \in 0 .. n /\ m \notin G
  OBVIOUS
<1>4. m - 1 \in 0 .. n /\ m - 1 # n /\ (m - 1) + 1 = m /\ ~(m <= m - 1)
  BY <1>3
<1>5. m - 1 \in G
  BY <1>2, <1>4
<1> QED
  BY <1>3, <1>4, <1>5

\* The elements are taken one after another: what holds before the first and is
\* kept by each of them holds after the last.
LEMMA SelectedInTurn ==
  ASSUME NEW X, NEW s \in Seq(X), NEW S, NEW G,
         << 0, << >> >> \in G,
         \A k \in 0 .. Len(s) : \A r : k # Len(s) /\ << k, r >> \in G =>
           << k + 1, IF s[k + 1] \in S THEN Append(r, s[k + 1]) ELSE r >> \in G
  PROVE  << Len(s), Selected(s, S) >> \in G
<1> DEFINE n == Len(s)
           Take(r, i) == IF s[i] \in S THEN Append(r, s[i]) ELSE r
           Step(g, i) == IF i = 0 THEN << >> ELSE Take(g[i - 1], i)
           IsRec(g, m) == g = [i \in 0 .. m |-> Step(g, i)]
<1>1. n \in Nat
  OBVIOUS
<1>2. \A k \in 0 .. n : \A r : k # n /\ << k, r >> \in G => << k + 1, Take(r, k + 1) >> \in G
  OBVIOUS
<1>3. Selected(s, S) = (CHOOSE g : IsRec(g, n))[n]
  BY DEF Selected
<1> HIDE DEF n, Take
<1>4. \A m \in 0 .. n : \E g : IsRec(g, m)
  <2> DEFINE K == {m \in 0 .. n : \E g : IsRec(g, m)}
  <2>1. 0 \in K
    <3>1. IsRec([i \in 0 .. 0 |-> << >>], 0)
      OBVIOUS
    <3>2. \E g : IsRec(g, 0)
      BY <3>1
    <3> HIDE DEF IsRec
    <3> QED
      BY <1>1, <3>2
  <2>2. ASSUME NEW m \in 0 .. n, m # n, m \in K
        PROVE  m + 1 \in K
    <3>1. m \in Nat /\ m + 1 \in 0 .. n
      BY <1>1, <2>2
    <3>2. PICK g : IsRec(g, m)
      BY <2>2
    <3> DEFINE h == [i \in 0 .. m + 1 |-> IF i = m + 1 THEN Take(g[m], m + 1) ELSE g[i]]
    <3>3. ASSUME NEW i \in 0 .. m + 1
          PROVE  h[i] = Step(h, i)
      <4>1. CASE i = m + 1
        <5>1. i - 1 = m /\ m \in 0 .. m + 1 /\ m # m + 1 /\ i # 0
          BY <3>1, <4>1
        <5>2. h[i - 1] = g[m]
          BY <5>1
        <5>3. h[i] = Take(g[m], i)
          BY <4>1
        <5> HIDE DEF h
        <5> QED
          BY <5>1, <5>2, <5>3
      <4>2. CASE i # m + 1
        <5>1. i \in 0 .. m
          BY <3>1, <4>2
        <5>2. g[i] = Step(g, i)
          BY <3>2, <5>1
        <5>3. h[i] = g[i]
          BY <4>2
        <5>4. i # 0 => h[i - 1] = g[i - 1]
          BY <3>1, <5>1
        <5> HIDE DEF h
        <5> QED
          BY <5>2, <5>3, <5>4
      <4> QED
        BY <4>1, <4>2
    <3>4. h = [i \in 0 .. m + 1 |-> h[i]]
      OBVIOUS
    <3> HIDE DEF h, Step
    <3>5. IsRec(h, m + 1)
      BY <3>3, <3>4
    <3> QED
      BY <3>1, <3>5
  <2> HIDE DEF K
  <2>3. 0 .. n \subseteq K
    BY <1>1, <2>1, <2>2, UpTo
  <2> QED
    BY <2>3 DEF K
<1> DEFINE f == CHOOSE g : IsRec(g, n)
<1>5. IsRec(f, n)
  <2> HIDE DEF IsRec
  <2>1. n \in 0 .. n
    BY <1>1
  <2>2. \E g : IsRec(g, n)
    BY <1>4, <2>1
  <2> QED
    BY <2>2
<1>6. Selected(s, S) = f[n]
  BY <1>3
<1> HIDE DEF f
<1>7. ASSUME NEW i \in 0 .. n
      PROVE  f[i] = Step(f, i)
  <2> DEFINE g == [j \in 0 .. n |-> Step(f, j)]
  <2>1. f = g
    BY <1>5
  <2>2. g[i] = Step(f, i)
    OBVIOUS
  <2> HIDE DEF g, Step
  <2> QED
    BY <2>1, <2>2
<1> DEFINE K == {k \in 0 .. n : << k, f[k] >> \in G}
<1>8. 0 \in K
  <2>1. f[0] = << >>
    BY <1>1, <1>7
  <2> QED
    BY <1>1, <2>1
<1>9. ASSUME NEW k \in 0 .. n, k # n, k \in K
      PROVE  k + 1 \in K
  <2>1. k + 1 \in 0 .. n /\ k + 1 # 0 /\ (k + 1) - 1 = k
    BY <1>1, <1>9
  <2>2. f[k + 1] = Take(f[k], k + 1)
    BY <1>7, <2>1
  <2>3. << k + 1, Take(f[k], k + 1) >> \in G
    BY <1>2, <1>9
  <2> QED
    BY <2>1, <2>2, <2>3
<1> HIDE DEF K
<1>10. 0 .. n \subseteq K
  BY <1>1, <1>8, <1>9, UpTo
<1>11. n \in K
  BY <1>1, <1>10
<1> QED
  BY <1>6, <1>11 DEF K, n

\* What an appended element adds.
LEMMA AppendAdds ==
  ASSUME NEW X, NEW r \in Seq(X), NEW e \in X
  PROVE  /\ Append(r, e) \in Seq(X) /\ Len(Append(r, e)) = Len(r) + 1
         /\ \A i \in 1 .. Len(r) : Append(r, e)[i] = r[i]
         /\ Append(r, e)[Len(r) + 1] = e
         /\ Range(Append(r, e)) = Range(r) \cup {e}
         /\ OnceEach(r) /\ e \notin Range(r) => OnceEach(Append(r, e))
<1> DEFINE new == Append(r, e)
           m == Len(r)
<1>1. /\ m \in Nat /\ DOMAIN r = 1 .. m
      /\ new \in Seq(X) /\ Len(new) = m + 1 /\ DOMAIN new = 1 .. m + 1
      /\ \A i \in 1 .. m : new[i] = r[i]
      /\ new[m + 1] = e
  OBVIOUS
<1> HIDE DEF new, m
<1>2. \A i \in 1 .. m + 1 : i \in 1 .. m \/ i = m + 1
  BY <1>1
<1>3. \A i \in 1 .. m : i \in 1 .. m + 1
  BY <1>1
<1>4. m + 1 \in 1 .. m + 1
  BY <1>1
<1>5. Range(new) = Range(r) \cup {e}
  BY <1>1, <1>2, <1>3, <1>4 DEF Range
<1>6. OnceEach(r) /\ e \notin Range(r) => OnceEach(new)
  BY <1>1, <1>2 DEF OnceEach, Range
<1> QED
  BY <1>1, <1>5, <1>6 DEF new, m

\* Selected keeps the elements that are in S, each as often as it stood.
LEMMA SelectedKeeps ==
  ASSUME NEW X, NEW s \in Seq(X), NEW S
  PROVE  /\ Selected(s, S) \in Seq(X)
         /\ Range(Selected(s, S)) = Range(s) \cap S
         /\ OnceEach(s) => OnceEach(Selected(s, S))
<1> DEFINE n == Len(s)
           Taken(k) == {s[i] : i \in 1 .. k}
           Keeps(k, r) == Range(r) = Taken(k) \cap S /\ (OnceEach(s) => OnceEach(r))
           G == {p \in (0 .. n) \X Seq(X) : Keeps(p[1], p[2])}
<1>1. n \in Nat /\ DOMAIN s = 1 .. n /\ \A i \in 1 .. n : s[i] \in X
  OBVIOUS
<1> HIDE DEF n
<1>2. << 0, << >> >> \in G
  <2>1. Range(<< >>) = {} /\ OnceEach(<< >>) /\ << >> \in Seq(X)
    BY DEF Range, OnceEach
  <2>2. Taken(0) = {}
    OBVIOUS
  <2> HIDE DEF Taken
  <2>3. Keeps(0, << >>) /\ 0 \in 0 .. n
    BY <1>1, <2>1, <2>2
  <2> HIDE DEF Keeps
  <2> QED
    BY <2>1, <2>3
<1>3. ASSUME NEW k \in 0 .. n, NEW r, k # n, << k, r >> \in G
      PROVE  << k + 1, IF s[k + 1] \in S THEN Append(r, s[k + 1]) ELSE r >> \in G
  <2>1. r \in Seq(X) /\ Range(r) = Taken(k) \cap S /\ (OnceEach(s) => OnceEach(r))
    BY <1>3
  <2>2. k + 1 \in 1 .. n /\ k + 1 \in 0 .. n /\ s[k + 1] \in X
    BY <1>1, <1>3
  <2>3. Taken(k + 1) = Taken(k) \cup {s[k + 1]}
    <3>1. \A i \in 1 .. k + 1 : i \in 1 .. k \/ i = k + 1
      BY <1>1
    <3>2. k + 1 \in 1 .. k + 1 /\ \A i \in 1 .. k : i \in 1 .. k + 1
      BY <1>1
    <3> QED
      BY <3>1, <3>2
  <2>4. OnceEach(s) => s[k + 1] \notin Taken(k)
    <3>1. \A i \in 1 .. k : i \in DOMAIN s /\ i # k + 1
      BY <1>1, <2>2
    <3> QED
      BY <1>1, <2>2, <3>1 DEF OnceEach
  <2> HIDE DEF Taken
  <2>5. CASE s[k + 1] \in S
    <3>1. /\ Append(r, s[k + 1]) \in Seq(X)
          /\ Range(Append(r, s[k + 1])) = Range(r) \cup {s[k + 1]}
          /\ OnceEach(r) /\ s[k + 1] \notin Range(r) => OnceEach(Append(r, s[k + 1]))
      BY <2>1, <2>2, AppendAdds
    <3> QED
      BY <2>1, <2>2, <2>3, <2>4, <2>5, <3>1
  <2>6. CASE s[k + 1] \notin S
    BY <2>1, <2>2, <2>3, <2>6
  <2> QED
    BY <2>5, <2>6
<1> HIDE DEF G
<1>4. << n, Selected(s, S) >> \in G
  BY <1>2, <1>3, SelectedInTurn DEF n
<1>5. Range(s) = Taken(n)
  BY <1>1 DEF Range
<1> HIDE DEF Taken
<1> QED
  BY <1>4, <1>5 DEF G, Keeps

\* Selected takes a prefix that is in S, and nothing after it when the rest is
\* not.
LEMMA SelectedPrefix ==
  ASSUME NEW X, NEW a \in Seq(X), NEW z \in Seq(X), NEW S,
         Range(a) \subseteq S, Range(z) \cap S = {}
  PROVE  Selected(a \o z, S) = a
<1> DEFINE s == a \o z
           n == Len(s)
           m == Len(a)
           Cut(k) == IF k <= m THEN k ELSE m
           Keeps(k, r) == Len(r) = Cut(k) /\ \A i \in 1 .. Cut(k) : r[i] = a[i]
           G == {p \in (0 .. n) \X Seq(X) : Keeps(p[1], p[2])}
<1>1. /\ n \in Nat /\ m \in Nat /\ m <= n /\ DOMAIN a = 1 .. m
      /\ DOMAIN z = 1 .. n - m /\ s \in Seq(X)
  BY Joined
<1>2. \A i \in 1 .. n : s[i] = IF i <= m THEN a[i] ELSE z[i - m]
  BY Joined
<1>3. \A i \in 1 .. m : a[i] \in S /\ a[i] \in X
  BY <1>1 DEF Range
<1>4. \A i \in 1 .. n - m : z[i] \notin S
  BY <1>1 DEF Range
<1> HIDE DEF s, n, m
<1>5. << 0, << >> >> \in G
  <2>1. Cut(0) = 0
    BY <1>1
  <2> HIDE DEF Cut
  <2>2. Keeps(0, << >>) /\ 0 \in 0 .. n /\ << >> \in Seq(X)
    BY <1>1, <2>1
  <2> HIDE DEF Keeps
  <2> QED
    BY <2>2
<1>6. ASSUME NEW k \in 0 .. n, NEW r, k # n, << k, r >> \in G
      PROVE  << k + 1, IF s[k + 1] \in S THEN Append(r, s[k + 1]) ELSE r >> \in G
  <2>1. r \in Seq(X) /\ Len(r) = Cut(k) /\ \A i \in 1 .. Cut(k) : r[i] = a[i]
    BY <1>6
  <2>2. k + 1 \in 1 .. n /\ k + 1 \in 0 .. n /\ k \in Nat
    BY <1>1, <1>6
  <2>3. CASE k < m
    <3>1. Cut(k) = k /\ Cut(k + 1) = k + 1 /\ k + 1 \in 1 .. m
      BY <1>1, <2>2, <2>3
    <3>2. s[k + 1] = a[k + 1] /\ s[k + 1] \in S /\ s[k + 1] \in X
      BY <1>1, <1>2, <1>3, <2>2, <3>1
    <3> DEFINE new == Append(r, s[k + 1])
    <3>3. /\ new \in Seq(X) /\ Len(new) = k + 1 /\ new[k + 1] = a[k + 1]
          /\ \A i \in 1 .. k : new[i] = a[i]
      BY <2>1, <3>1, <3>2, AppendAdds
    <3>4. \A i \in 1 .. k + 1 : i \in 1 .. k \/ i = k + 1
      BY <2>2
    <3> HIDE DEF new, Cut
    <3>5. << k + 1, new >> \in G
      BY <2>2, <3>1, <3>3, <3>4
    <3> HIDE DEF G
    <3> QED
      BY <3>2, <3>5 DEF new
  <2>4. CASE ~(k < m)
    <3>1. Cut(k) = m /\ Cut(k + 1) = m /\ (k + 1) - m \in 1 .. n - m /\ ~(k + 1 <= m)
      BY <1>1, <2>2, <2>4
    <3>2. s[k + 1] = z[(k + 1) - m] /\ s[k + 1] \notin S
      BY <1>2, <1>4, <2>2, <3>1
    <3> HIDE DEF Cut
    <3>3. << k + 1, r >> \in G
      BY <2>1, <2>2, <3>1
    <3> HIDE DEF G
    <3> QED
      BY <3>2, <3>3
  <2> QED
    BY <2>3, <2>4
<1> HIDE DEF G
<1>7. << n, Selected(s, S) >> \in G
  BY <1>1, <1>5, <1>6, SelectedInTurn DEF n
<1>8. Selected(s, S) \in Seq(X) /\ Len(Selected(s, S)) = m /\ \A i \in 1 .. m : Selected(s, S)[i] = a[i]
  <2>1. Cut(n) = m
    BY <1>1
  <2> HIDE DEF Cut
  <2> QED
    BY <1>7, <2>1 DEF G, Keeps
<1>9. \A q \in Seq(X) : Len(q) = m /\ (\A i \in 1 .. m : q[i] = a[i]) => q = a
  BY <1>1 DEF m
<1> QED
  BY <1>8, <1>9 DEF s

-----------------------------------------------------------------------------
(* The lists of the store                                                  *)

\* A sequence without repetition is as long as what it holds is large.
LEMMA LengthOnce ==
  ASSUME NEW X, NEW r \in Seq(X), OnceEach(r)
  PROVE  IsFiniteSet(Range(r)) /\ Cardinality(Range(r)) = Len(r)
<1> DEFINE K == 1 .. Len(r)
<1>1. Len(r) \in Nat /\ DOMAIN r = K
  OBVIOUS
<1>2. IsFiniteSet(K) /\ Cardinality(K) = Len(r)
  BY <1>1, FS_Interval
<1>3. r \in [K -> Range(r)]
  <2>1. r = [i \in K |-> r[i]]
    BY <1>1
  <2>2. \A i \in K : r[i] \in Range(r)
    BY <1>1 DEF Range
  <2> HIDE DEF K
  <2> QED
    BY <2>1, <2>2
<1> HIDE DEF K
<1>4. r \in Surjection(K, Range(r))
  BY <1>1, <1>3 DEF Surjection, Range
<1>5. r \in Injection(K, Range(r))
  BY <1>1, <1>3 DEF Injection, IsInjective, OnceEach
<1> QED
  BY <1>2, <1>4, <1>5, FS_Surjection

\* Newest numbers the times of a set, each once.
LEMMA NewestNumbers ==
  ASSUME NEW n \in Nat, NEW T \in SUBSET (1 .. n)
  PROVE  /\ IsFiniteSet(T) /\ Cardinality(T) \in Nat
         /\ \A i \in 1 .. Cardinality(T) : Newest(T, i) \in T
         /\ \A t \in T : \E i \in 1 .. Cardinality(T) : Newest(T, i) = t
         /\ \A i, j \in 1 .. Cardinality(T) : Newest(T, i) = Newest(T, j) => i = j
<1> DEFINE R == {p \in T \X T : p[1] > p[2]}
           N == Cardinality(T)
           Up(t) == {u \in T : u >= t}
<1>1. IsFiniteSet(T) /\ N \in Nat /\ \A t \in T : t \in Nat
  <2>1. IsFiniteSet(1 .. n)
    BY FS_Interval
  <2>2. IsFiniteSet(T)
    BY <2>1, FS_Subset
  <2>3. \A t \in T : t \in Nat
    OBVIOUS
  <2> QED
    BY <2>2, <2>3, FS_CardinalityType
<1>2. \A x, y \in T : << x, y >> \in R <=> x > y
  OBVIOUS
<1> HIDE DEF R
<1>3. StrictOrder(R, T)
  BY <1>1, <1>2 DEF StrictOrder
<1>4. \A t \in T : Rank(t, T, R) \in 0 .. N - 1
  BY <1>1, <1>3, RanksFollow
<1>5. ASSUME NEW t \in T
      PROVE  Cardinality(Up(t)) = Rank(t, T, R) + 1
  <2> DEFINE L == {u \in T : << u, t >> \in R}
  <2>1. Up(t) = L \cup {t} /\ t \notin L
    <3>1. \A u \in T : u >= t <=> << u, t >> \in R \/ u = t
      BY <1>1, <1>2
    <3>2. << t, t >> \notin R
      BY <1>1, <1>2
    <3> QED
      BY <3>1, <3>2
  <2>2. IsFiniteSet(L) /\ Cardinality(L) = Rank(t, T, R)
    <3>1. L \in SUBSET T /\ Cardinality(L) = Rank(t, T, R)
      BY DEF Rank
    <3> HIDE DEF L
    <3> QED
      BY <1>1, <3>1, FS_Subset
  <2> HIDE DEF L, Up
  <2> QED
    BY <2>1, <2>2, FS_AddElement
<1>6. /\ \A k \in 1 .. N : \E x \in T : Rank(x, T, R) = k - 1
      /\ \A x, y \in T : Rank(x, T, R) = Rank(y, T, R) => x = y
  BY <1>1, <1>3, EachRankOnce
<1>7. ASSUME NEW i \in 1 .. N
      PROVE  Newest(T, i) \in T /\ Cardinality(Up(Newest(T, i))) = i
  <2>1. PICK x \in T : Rank(x, T, R) = i - 1
    BY <1>6
  <2>2. Cardinality(Up(x)) = i
    BY <1>1, <1>5, <2>1
  <2>3. Newest(T, i) = CHOOSE t \in T : Cardinality(Up(t)) = i
    BY DEF Newest
  <2> HIDE DEF Up
  <2> QED
    BY <2>2, <2>3
<1> HIDE DEF N, Up
<1>8. \A i, j \in 1 .. N : Newest(T, i) = Newest(T, j) => i = j
  BY <1>7
<1>9. ASSUME NEW t \in T
      PROVE  \E i \in 1 .. N : Newest(T, i) = t
  <2> DEFINE i == Rank(t, T, R) + 1
  <2>1. i \in 1 .. N /\ Rank(t, T, R) \in Int
    BY <1>1, <1>4
  <2>2. Rank(Newest(T, i), T, R) + 1 = i /\ Newest(T, i) \in T
    <3>1. Newest(T, i) \in T /\ Cardinality(Up(Newest(T, i))) = i
      BY <1>7, <2>1
    <3> HIDE DEF i
    <3>2. Cardinality(Up(Newest(T, i))) = Rank(Newest(T, i), T, R) + 1
      BY <1>5, <3>1
    <3> QED
      BY <3>1, <3>2
  <2>3. Rank(Newest(T, i), T, R) \in Int
    <3> HIDE DEF i
    <3>1. Newest(T, i) \in T
      BY <2>2
    <3>2. Rank(Newest(T, i), T, R) \in 0 .. N - 1
      BY <1>4, <3>1
    <3> QED
      BY <3>2
  <2>4. Rank(Newest(T, i), T, R) = Rank(t, T, R)
    BY <2>1, <2>2, <2>3
  <2>5. Newest(T, i) = t
    BY <1>6, <2>2, <2>4
  <2> QED
    BY <2>1, <2>5
<1> QED
  BY <1>1, <1>7, <1>8, <1>9 DEF N

\* NewestFirst lists the entries of the times T, each once.
LEMMA NewestFirstLists ==
  ASSUME NEW st, NEW n \in Nat, NEW Title, Good(st, n, Title), NEW T \in SUBSET DOMAIN st.times
  PROVE  /\ NewestFirst(st, T) \in Seq(DOMAIN st.entries)
         /\ Len(NewestFirst(st, T)) = Cardinality(T)
         /\ Range(NewestFirst(st, T)) = {st.times[t] : t \in T}
         /\ OnceEach(NewestFirst(st, T))
<1> DEFINE N == Cardinality(T)
           list == NewestFirst(st, T)
<1>1. T \in SUBSET (1 .. n)
  BY DEF Good, Typed, IsMap
<1>2. /\ IsFiniteSet(T) /\ N \in Nat
      /\ \A i \in 1 .. N : Newest(T, i) \in T
      /\ \A t \in T : \E i \in 1 .. N : Newest(T, i) = t
      /\ \A i, j \in 1 .. N : Newest(T, i) = Newest(T, j) => i = j
  BY <1>1, NewestNumbers
<1>3. \A t \in T : st.times[t] \in DOMAIN st.entries /\ st.entries[st.times[t]].creation = t
  BY DEF Good, TimesGood
<1>4. list = [i \in 1 .. N |-> st.times[Newest(T, i)]]
  BY DEF NewestFirst
<1> HIDE DEF N, list
<1>5. list \in Seq(DOMAIN st.entries) /\ Len(list) = N
  BY <1>2, <1>3, <1>4
<1>6. Range(list) = {st.times[t] : t \in T}
  <2>1. \A t \in T : \E i \in 1 .. N : list[i] = st.times[t]
    BY <1>2, <1>4
  <2>2. \A i \in 1 .. N : list[i] = st.times[Newest(T, i)] /\ Newest(T, i) \in T
    BY <1>2, <1>4
  <2>3. DOMAIN list = 1 .. N
    BY <1>4
  <2> QED
    BY <2>1, <2>2, <2>3 DEF Range
<1>7. OnceEach(list)
  <2>1. \A t, u \in T : st.times[t] = st.times[u] => t = u
    BY <1>3
  <2> QED
    BY <1>2, <1>4, <2>1 DEF OnceEach
<1> QED
  BY <1>5, <1>6, <1>7 DEF N, list

\* What stands before and after in two sequences put together.
LEMMA JoinedOnce ==
  ASSUME NEW X, NEW a \in Seq(X), NEW z \in Seq(X)
  PROVE  /\ a \o z \in Seq(X)
         /\ Range(a \o z) = Range(a) \cup Range(z)
         /\ OnceEach(a) /\ OnceEach(z) /\ Range(a) \cap Range(z) = {} => OnceEach(a \o z)
<1> DEFINE s == a \o z
           m == Len(a)
           k == Len(z)
<1>1. /\ s \in Seq(X) /\ m \in Nat /\ k \in Nat
      /\ DOMAIN s = 1 .. m + k /\ DOMAIN a = 1 .. m /\ DOMAIN z = 1 .. k
  BY Joined
<1>2. \A i \in 1 .. m + k : s[i] = IF i <= m THEN a[i] ELSE z[i - m]
  BY Joined
<1> HIDE DEF s, m, k
<1>3. \A i \in 1 .. m + k : \/ i \in 1 .. m /\ s[i] = a[i]
                            \/ i > m /\ i - m \in 1 .. k /\ s[i] = z[i - m]
  BY <1>1, <1>2
<1>4. \A i \in 1 .. m : i \in 1 .. m + k /\ s[i] = a[i]
  BY <1>1, <1>2
<1>5. \A i \in 1 .. k : m + i \in 1 .. m + k /\ s[m + i] = z[i]
  <2>1. \A i \in 1 .. k : m + i \in 1 .. m + k /\ ~(m + i <= m) /\ (m + i) - m = i
    BY <1>1
  <2> QED
    BY <1>2, <2>1
<1>6. Range(s) = Range(a) \cup Range(z)
  <2>1. Range(s) \subseteq Range(a) \cup Range(z)
    BY <1>1, <1>3 DEF Range
  <2>2. Range(a) \subseteq Range(s)
    BY <1>1, <1>4 DEF Range
  <2>3. Range(z) \subseteq Range(s)
    BY <1>1, <1>5 DEF Range
  <2> QED
    BY <2>1, <2>2, <2>3
<1>7. ASSUME OnceEach(a), OnceEach(z), Range(a) \cap Range(z) = {},
             NEW i \in 1 .. m + k, NEW j \in 1 .. m + k, s[i] = s[j]
      PROVE  i = j
  <2>1. \A x \in 1 .. m, y \in 1 .. k : a[x] # z[y]
    BY <1>1, <1>7 DEF Range
  <2>2. \A x, y \in 1 .. m : a[x] = a[y] => x = y
    BY <1>1, <1>7 DEF OnceEach
  <2>3. \A x, y \in 1 .. k : z[x] = z[y] => x = y
    BY <1>1, <1>7 DEF OnceEach
  <2>4. CASE i \in 1 .. m /\ j \in 1 .. m
    BY <1>4, <1>7, <2>2, <2>4
  <2>5. CASE i > m /\ j > m
    <3>1. /\ i - m \in 1 .. k /\ s[i] = z[i - m]
          /\ j - m \in 1 .. k /\ s[j] = z[j - m]
      BY <1>1, <1>3, <2>5
    <3>2. i - m = j - m
      BY <1>7, <2>3, <3>1
    <3> QED
      BY <1>1, <3>2
  <2>6. ~(i <= m /\ j > m)
    BY <1>1, <1>3, <1>4, <1>7, <2>1
  <2>7. ~(i > m /\ j <= m)
    BY <1>1, <1>3, <1>4, <1>7, <2>1
  <2> QED
    BY <1>1, <2>4, <2>5, <2>6, <2>7
<1>8. OnceEach(a) /\ OnceEach(z) /\ Range(a) \cap Range(z) = {} => OnceEach(s)
  BY <1>1, <1>7 DEF OnceEach
<1> QED
  BY <1>1, <1>6, <1>8 DEF s

\* Where no favorite is missing, iter walks entries only.
LEMMA IterTyped ==
  ASSUME NEW st, NEW n \in Nat, NEW Title, Good(st, n, Title), ~IterPanics(st)
  PROVE  Iter(st) \in Seq(DOMAIN st.entries)
<1> DEFINE E == DOMAIN st.entries
           T == {t \in DOMAIN st.times : ~st.entries[st.times[t]].is_favorite}
<1>1. T \in SUBSET DOMAIN st.times
  OBVIOUS
<1>2. Iter(st) = st.favs \o NewestFirst(st, T)
  BY DEF Iter
<1> HIDE DEF T
<1>3. NewestFirst(st, T) \in Seq(E)
  BY <1>1, NewestFirstLists
<1>4. st.favs \in Seq(E)
  <2>1. st.favs \in Seq(1 .. n) /\ \A i \in DOMAIN st.favs : st.favs[i] \in DOMAIN st.entries
    BY DEF Good, Typed, IterPanics
  <2>2. \A X : \A q \in Seq(1 .. n) : (\A i \in DOMAIN q : q[i] \in X) => q \in Seq(X)
    OBVIOUS
  <2> QED
    BY <2>1, <2>2
<1> HIDE DEF E
<1>5. st.favs \o NewestFirst(st, T) \in Seq(E)
  BY <1>3, <1>4
<1> QED
  BY <1>2, <1>5 DEF E

\* In a good store whose favorites are live, iter lists every entry once.
LEMMA IterLists ==
  ASSUME NEW st, NEW n \in Nat, NEW Title, Good(st, n, Title), FavsLive(st)
  PROVE  /\ Iter(st) \in Seq(DOMAIN st.entries)
         /\ Range(Iter(st)) = DOMAIN st.entries
         /\ OnceEach(Iter(st))
         /\ Len(Iter(st)) = Cardinality(DOMAIN st.entries)
<1> DEFINE E == DOMAIN st.entries
           T == {t \in DOMAIN st.times : ~st.entries[st.times[t]].is_favorite}
           rest == NewestFirst(st, T)
<1>1. ~IterPanics(st)
  BY SoundWalk
<1>2. T \in SUBSET DOMAIN st.times
  OBVIOUS
<1>3. Iter(st) = st.favs \o rest
  BY DEF Iter
<1>4. Range(rest) = E \ st.favSet
  <2>1. Range(rest) = {st.times[t] : t \in T}
    <3> HIDE DEF T
    <3> QED
      BY <1>2, NewestFirstLists
  <2>2. ASSUME NEW id \in E \ st.favSet
        PROVE  id \in {st.times[t] : t \in T}
    <3>1. /\ st.entries[id].creation \in DOMAIN st.times
          /\ st.times[st.entries[id].creation] = id
          /\ ~st.entries[id].is_favorite
      BY DEF Good, TimesGood, FavsGood
    <3>2. st.entries[id].creation \in T
      BY <3>1
    <3> QED
      BY <3>1, <3>2
  <2>3. ASSUME NEW t \in T
        PROVE  st.times[t] \in E \ st.favSet
    BY DEF Good, TimesGood, FavsGood
  <2> HIDE DEF T, E
  <2> QED
    BY <2>1, <2>2, <2>3
<1>5. rest \in Seq(E) /\ OnceEach(rest)
  <2> HIDE DEF T
  <2> QED
    BY <1>2, NewestFirstLists
<1>6. st.favs \in Seq(E)
  <2>1. st.favs \in Seq(1 .. n) /\ \A i \in DOMAIN st.favs : st.favs[i] \in E
    BY <1>1 DEF Good, Typed, IterPanics
  <2>2. \A X : \A q \in Seq(1 .. n) : (\A i \in DOMAIN q : q[i] \in X) => q \in Seq(X)
    OBVIOUS
  <2> QED
    BY <2>1, <2>2
<1>7. Range(st.favs) = st.favSet /\ OnceEach(st.favs) /\ st.favSet \subseteq E
  BY DEF FavsLive
<1> HIDE DEF rest, T, E
<1>8. /\ Iter(st) \in Seq(E)
      /\ Range(Iter(st)) = st.favSet \cup (E \ st.favSet)
      /\ OnceEach(Iter(st))
  <2>1. Range(st.favs) \cap Range(rest) = {}
    BY <1>4, <1>7
  <2> QED
    BY <1>3, <1>4, <1>5, <1>6, <1>7, <2>1, JoinedOnce
<1>9. Range(Iter(st)) = E
  BY <1>7, <1>8
<1>10. Len(Iter(st)) = Cardinality(E)
  BY <1>8, <1>9, LengthOnce
<1> QED
  BY <1>8, <1>9, <1>10 DEF E

-----------------------------------------------------------------------------
(* Searches                                                                *)

\* The cached result is the entries that match the query, each once.
Fresh(st) ==
  st.query # None =>
    /\ Range(st.filtered) = {id \in DOMAIN st.entries : st.entries[id].content \in st.query}
    /\ OnceEach(st.filtered)

\* The query is one of Q and its result a list of ids.
Answered(st, n, Q) ==
  /\ st.query \in Q \cup {None}
  /\ st.filtered \in Seq(1 .. n)
  /\ st.panicked \in BOOLEAN

\* new is what a search makes of a store with the query of st.
Searched(st, new) ==
  \E x : /\ DOMAIN x = Fields
         /\ x.query = st.query /\ x.filtered = st.filtered /\ x.panicked = st.panicked
         /\ new = Search(x)

\* new has the contents, the query and the result of st, or the program died.
SameContents(st, new) ==
  /\ new.query = st.query /\ new.filtered = st.filtered
  /\ \/ new.panicked = TRUE
     \/ /\ new.panicked = st.panicked
        /\ DOMAIN new.entries = DOMAIN st.entries
        /\ \A id \in DOMAIN st.entries : new.entries[id].content = st.entries[id].content

\* No operation changes what a search finds without searching again.
UpToSearch(st, new) == Searched(st, new) \/ SameContents(st, new)

\* A sequence over a set is one over a larger set.
LEMMA SeqOfMore ==
  ASSUME NEW S, NEW T, S \subseteq T, NEW q \in Seq(S)
  PROVE  q \in Seq(T)
<1>1. \A i \in 1 .. Len(q) : q[i] \in S
  OBVIOUS
<1>2. \A i \in 1 .. Len(q) : q[i] \in T
  BY <1>1
<1> QED
  BY <1>2

\* What a search leaves alone, and what it finds.
LEMMA SearchEffect ==
  ASSUME NEW x, DOMAIN x = Fields
  PROVE  /\ DOMAIN Search(x) = Fields /\ Search(x).query = x.query
         /\ \A f \in Fields \ {"filtered", "panicked"} : Search(x)[f] = x[f]
         /\ \/ x.query = None /\ Search(x).filtered = << >> /\ Search(x).panicked = x.panicked
            \/ Search(x).filtered = x.filtered /\ Search(x).panicked = TRUE
            \/ /\ x.query # None /\ ~IterPanics(x) /\ Search(x).panicked = x.panicked
               /\ Search(x).filtered = Selected(Iter(x), Matching(x))
<1>1. CASE x.query = None
  BY <1>1 DEF Search, Fields
<1>2. CASE x.query # None /\ IterPanics(x)
  BY <1>2 DEF Search, Panic, Fields
<1>3. CASE x.query # None /\ ~IterPanics(x)
  <2> DEFINE found == Selected(Iter(x), Matching(x))
  <2>1. Search(x) = [x EXCEPT !.filtered = found]
    BY <1>3 DEF Search
  <2> HIDE DEF found
  <2>2. /\ Search(x).filtered = found /\ DOMAIN Search(x) = Fields
        /\ \A f \in Fields \ {"filtered"} : Search(x)[f] = x[f]
    BY <2>1 DEF Fields
  <2> QED
    BY <1>3, <2>2 DEF found, Fields
<1> QED
  BY <1>1, <1>2, <1>3

\* A search needs no more than a good store to leave one.
LEMMA SearchedGood ==
  ASSUME NEW x, DOMAIN x = Fields, NEW n \in Nat, NEW Title, Good(Search(x), n, Title)
  PROVE  Good(x, n, Title) /\ (FavsLive(Search(x)) => FavsLive(x))
<1>1. \A f \in Fields \ {"filtered", "panicked"} : Search(x)[f] = x[f]
  BY SearchEffect
<1>2. /\ Search(x).entries = x.entries /\ Search(x).hashs = x.hashs
      /\ Search(x).times = x.times /\ Search(x).favs = x.favs
      /\ Search(x).favSet = x.favSet /\ Search(x).titles = x.titles
  BY <1>1 DEF Fields
<1> QED
  BY <1>2 DEF Good, Typed, TimesGood, FavsGood, FavsLive

\* A search of a sound store is fresh.
LEMMA SearchFreshens ==
  ASSUME NEW x, DOMAIN x = Fields, NEW n \in Nat, NEW Title, Good(Search(x), n, Title),
         Sound(Search(x))
  PROVE  Fresh(Search(x))
<1> DEFINE new == Search(x)
<1>1. new.query = x.query /\ new.entries = x.entries /\ ~new.panicked
  BY SearchEffect DEF Fields, Sound
<1>2. new.query # None => new.filtered = Selected(Iter(x), Matching(x))
  BY <1>1, SearchEffect
<1>3. Good(x, n, Title) /\ FavsLive(x)
  BY SearchedGood DEF Sound
<1>4. Iter(x) \in Seq(DOMAIN x.entries) /\ Range(Iter(x)) = DOMAIN x.entries /\ OnceEach(Iter(x))
  BY <1>3, IterLists
<1>5. /\ Range(Selected(Iter(x), Matching(x))) = DOMAIN x.entries \cap Matching(x)
      /\ OnceEach(Selected(Iter(x), Matching(x)))
  BY <1>4, SelectedKeeps
<1>6. DOMAIN x.entries \cap Matching(x) = {id \in DOMAIN x.entries : x.entries[id].content \in x.query}
  BY DEF Matching
<1> HIDE DEF new
<1>7. Fresh(new)
  BY <1>1, <1>2, <1>5, <1>6 DEF Fresh
<1> QED
  BY <1>7 DEF new

\* A search finds ids.
LEMMA SearchAnswers ==
  ASSUME NEW x, DOMAIN x = Fields, NEW n \in Nat, NEW Title, Good(Search(x), n, Title),
         NEW m \in Nat, m <= n, NEW Q, Answered(x, m, Q)
  PROVE  Answered(Search(x), n, Q)
<1> DEFINE new == Search(x)
<1>1. x.filtered \in Seq(1 .. n) /\ x.query \in Q \cup {None} /\ x.panicked \in BOOLEAN
  <2>1. \A q \in Seq(1 .. m) : q \in Seq(1 .. n)
    OBVIOUS
  <2> QED
    BY <2>1 DEF Answered
<1>2. Good(x, n, Title)
  BY SearchedGood
<1>3. ~IterPanics(x) => Selected(Iter(x), Matching(x)) \in Seq(1 .. n)
  <2> DEFINE E == DOMAIN x.entries
  <2>1. E \subseteq 1 .. n
    BY <1>2 DEF Good, Typed, IsMap
  <2>2. ~IterPanics(x) => Iter(x) \in Seq(E)
    BY <1>2, IterTyped
  <2> HIDE DEF E
  <2>3. ~IterPanics(x) => Selected(Iter(x), Matching(x)) \in Seq(E)
    BY <2>2, SelectedKeeps
  <2>4. ASSUME NEW q \in Seq(E)
        PROVE  q \in Seq(1 .. n)
    BY <2>1, SeqOfMore
  <2> QED
    BY <2>1, <2>3, <2>4
<1>4. << >> \in Seq(1 .. n)
  OBVIOUS
<1>5. new.query = x.query /\ (new.panicked = x.panicked \/ new.panicked = TRUE)
  BY SearchEffect
<1>6. new.filtered \in Seq(1 .. n)
  BY <1>1, <1>3, <1>4, SearchEffect
<1> HIDE DEF new
<1>7. Answered(new, n, Q)
  BY <1>1, <1>5, <1>6 DEF Answered
<1> QED
  BY <1>7 DEF new

\* What is so up to a search stays fresh.
LEMMA FreshKept ==
  ASSUME NEW st, NEW new, UpToSearch(st, new), NEW n \in Nat, NEW Title,
         Good(new, n, Title), Sound(new), Fresh(st)
  PROVE  Fresh(new)
<1>1. CASE Searched(st, new)
  BY <1>1, SearchFreshens DEF Searched
<1>2. CASE SameContents(st, new)
  <2>1. /\ new.query = st.query /\ new.filtered = st.filtered
        /\ DOMAIN new.entries = DOMAIN st.entries
        /\ \A id \in DOMAIN st.entries : new.entries[id].content = st.entries[id].content
    BY <1>2 DEF SameContents, Sound
  <2>2. {id \in DOMAIN new.entries : new.entries[id].content \in new.query}
          = {id \in DOMAIN st.entries : st.entries[id].content \in st.query}
    BY <2>1
  <2> QED
    BY <2>1, <2>2 DEF Fresh
<1> QED
  BY <1>1, <1>2 DEF UpToSearch

\* And the query keeps its type.
LEMMA AnsweredKept ==
  ASSUME NEW st, NEW new, UpToSearch(st, new), NEW n \in Nat, NEW Title,
         Good(new, n, Title), NEW m \in Nat, m <= n, NEW Q, Answered(st, m, Q)
  PROVE  Answered(new, n, Q)
<1>1. CASE Searched(st, new)
  <2>1. PICK x : /\ DOMAIN x = Fields
                 /\ x.query = st.query /\ x.filtered = st.filtered /\ x.panicked = st.panicked
                 /\ new = Search(x)
    BY <1>1 DEF Searched
  <2>2. Answered(x, m, Q)
    BY <2>1 DEF Answered
  <2> QED
    BY <2>1, <2>2, SearchAnswers
<1>2. CASE SameContents(st, new)
  <2>1. \A q \in Seq(1 .. m) : q \in Seq(1 .. n)
    OBVIOUS
  <2> QED
    BY <1>2, <2>1 DEF SameContents, Answered
<1> QED
  BY <1>1, <1>2 DEF UpToSearch

\* An insert searches again, unless nothing is inserted.
LEMMA InsertUpToSearch ==
  ASSUME NEW st, NEW n \in Nat, NEW Title, Good(st, n, Title), NEW c, NEW now
  PROVE  UpToSearch(st, InsertToMemory(st, c, now).db)
<1>0. DOMAIN st = Fields
  BY DEF Good, Typed
<1>1. CASE ~OwnsLock
  BY <1>1 DEF InsertToMemory, NoOp, UpToSearch, SameContents
<1>2. CASE OwnsLock /\ Hash[c] \in DOMAIN st.hashs
  <2> DEFINE id == st.hashs[Hash[c]]
             x == Bump(st, id, now)
  <2>1. CASE id \notin DOMAIN st.entries \/ st.entries[id].creation \notin DOMAIN st.times
    <3>1. InsertToMemory(st, c, now).db = Panic(st)
      BY <1>2, <2>1 DEF InsertToMemory, Refresh, NoOp
    <3>2. /\ Panic(st).query = st.query /\ Panic(st).filtered = st.filtered
          /\ Panic(st).panicked = TRUE
      BY <1>0 DEF Panic, Fields
    <3> QED
      BY <3>1, <3>2 DEF UpToSearch, SameContents
  <2>2. CASE ~(id \notin DOMAIN st.entries \/ st.entries[id].creation \notin DOMAIN st.times)
    <3>1. InsertToMemory(st, c, now).db = Search(x)
      BY <1>2, <2>2 DEF InsertToMemory, Refresh
    <3>2. /\ DOMAIN x = Fields
          /\ x.query = st.query /\ x.filtered = st.filtered /\ x.panicked = st.panicked
      BY <1>0 DEF Bump, Fields
    <3> HIDE DEF x, id
    <3> QED
      BY <3>1, <3>2 DEF UpToSearch, Searched
  <2> QED
    BY <2>1, <2>2
<1>3. CASE OwnsLock /\ Hash[c] \notin DOMAIN st.hashs
  <2> DEFINE gone == Evicted(Grow(st, c, now))
             x == Unindex(Grow(st, c, now), gone)
  <2>1. InsertToMemory(st, c, now).db = Search(x)
    BY <1>3 DEF InsertToMemory, InsertNew
  <2> HIDE DEF gone
  <2>2. /\ DOMAIN x = Fields
        /\ x.query = st.query /\ x.filtered = st.filtered /\ x.panicked = st.panicked
    BY <1>0 DEF Unindex, Grow, Fields
  <2> HIDE DEF x
  <2> QED
    BY <2>1, <2>2 DEF UpToSearch, Searched
<1> QED
  BY <1>1, <1>2, <1>3

\* Removing an entry leaves the query alone.
LEMMA RemoveKeepsQuery ==
  ASSUME NEW st, DOMAIN st = Fields, NEW id
  PROVE  /\ DOMAIN Remove(st, id) = Fields
         /\ Remove(st, id).query = st.query /\ Remove(st, id).filtered = st.filtered
         /\ Remove(st, id).panicked = st.panicked
<1> DEFINE left == Unindex(st, {id})
<1>1. /\ DOMAIN left = Fields
      /\ left.query = st.query /\ left.filtered = st.filtered /\ left.panicked = st.panicked
  BY DEF Unindex, Fields
<1>2. Remove(st, id) = IF IsFavorite(st, id) THEN FavRemove(left, id) ELSE left
  BY DEF Remove
<1> HIDE DEF left
<1>3. /\ DOMAIN FavRemove(left, id) = Fields
      /\ FavRemove(left, id).query = left.query /\ FavRemove(left, id).filtered = left.filtered
      /\ FavRemove(left, id).panicked = left.panicked
  BY <1>1 DEF FavRemove, Fields
<1> QED
  BY <1>1, <1>2, <1>3

\* So does every other operation but a new search, up to a search.
LEMMA DeleteUpToSearch ==
  ASSUME NEW st, DOMAIN st = Fields, NEW id
  PROVE  UpToSearch(st, DeleteFromMemory(st, id).db)
<1>1. CASE id \in DOMAIN st.entries
  <2>1. DeleteFromMemory(st, id).db = Search(Remove(st, id))
    BY <1>1 DEF DeleteFromMemory
  <2> QED
    BY <2>1, RemoveKeepsQuery DEF UpToSearch, Searched
<1>2. CASE id \notin DOMAIN st.entries
  BY <1>2 DEF DeleteFromMemory, NoOp, UpToSearch, SameContents
<1> QED
  BY <1>1, <1>2

LEMMA ClearUpToSearch ==
  ASSUME NEW st, DOMAIN st = Fields
  PROVE  UpToSearch(st, ClearMemory(st).db)
<1> DEFINE ids == {id \in DOMAIN st.entries : id \notin st.favSet}
           x == Unindex(st, ids)
<1>1. ClearMemory(st).db = Search(x)
  BY DEF ClearMemory
<1> HIDE DEF ids
<1>2. /\ DOMAIN x = Fields
      /\ x.query = st.query /\ x.filtered = st.filtered /\ x.panicked = st.panicked
  BY DEF Unindex, Fields
<1> HIDE DEF x
<1> QED
  BY <1>1, <1>2 DEF UpToSearch, Searched

LEMMA MarkKeepsContents ==
  ASSUME NEW st, DOMAIN st = Fields, NEW id, NEW fav, NEW title
  PROVE  DOMAIN Mark(st, id, fav, title) = Fields /\ SameContents(st, Mark(st, id, fav, title))
<1> DEFINE new == Mark(st, id, fav, title)
<1>1. /\ DOMAIN new = Fields
      /\ new.query = st.query /\ new.filtered = st.filtered /\ new.panicked = st.panicked
      /\ DOMAIN new.entries = DOMAIN st.entries
  BY DEF Mark, Fields
<1>2. \A x \in DOMAIN st.entries : new.entries[x].content = st.entries[x].content
  BY DEF Mark, Fields
<1> QED
  BY <1>1, <1>2 DEF SameContents

LEMMA AddFavoriteUpToSearch ==
  ASSUME NEW st, DOMAIN st = Fields, NEW id
  PROVE  UpToSearch(st, AddFavoriteToMemory(st, id).db)
<1> DEFINE mid == FavPush(st, id)
<1>1. /\ DOMAIN mid = Fields /\ mid.entries = st.entries
      /\ mid.query = st.query /\ mid.filtered = st.filtered /\ mid.panicked = st.panicked
  BY DEF FavPush, Fields
<1>2. AddFavoriteToMemory(st, id).db = Mark(mid, id, TRUE, None)
  BY DEF AddFavoriteToMemory
<1> HIDE DEF mid
<1>3. SameContents(mid, Mark(mid, id, TRUE, None))
  BY <1>1, MarkKeepsContents
<1> QED
  BY <1>1, <1>2, <1>3 DEF UpToSearch, SameContents

LEMMA RemoveFavoriteUpToSearch ==
  ASSUME NEW st, DOMAIN st = Fields, NEW id
  PROVE  UpToSearch(st, RemoveFavoriteFromMemory(st, id).db)
<1> DEFINE mid == FavRemove(st, id)
<1>1. /\ DOMAIN mid = Fields /\ mid.entries = st.entries
      /\ mid.query = st.query /\ mid.filtered = st.filtered /\ mid.panicked = st.panicked
  BY DEF FavRemove, Fields
<1>2. RemoveFavoriteFromMemory(st, id).db = Mark(mid, id, FALSE, None)
  BY DEF RemoveFavoriteFromMemory
<1> HIDE DEF mid
<1>3. SameContents(mid, Mark(mid, id, FALSE, None))
  BY <1>1, MarkKeepsContents
<1> QED
  BY <1>1, <1>2, <1>3 DEF UpToSearch, SameContents

LEMMA SetTitleUpToSearch ==
  ASSUME NEW st, DOMAIN st = Fields, NEW id, NEW title
  PROVE  UpToSearch(st, SetFavoriteTitleInMemory(st, id, title).db)
<1> DEFINE new == SetFavoriteTitleInMemory(st, id, title).db
<1>1. /\ new.query = st.query /\ new.filtered = st.filtered /\ new.panicked = st.panicked
      /\ DOMAIN new.entries = DOMAIN st.entries
  BY DEF SetFavoriteTitleInMemory, Fields
<1>2. \A x \in DOMAIN st.entries : new.entries[x].content = st.entries[x].content
  BY DEF SetFavoriteTitleInMemory, Fields
<1> QED
  BY <1>1, <1>2 DEF UpToSearch, SameContents

LEMMA UpdateUpToSearch ==
  ASSUME NEW st, DOMAIN st = Fields, NEW id, NEW c, NEW now
  PROVE  UpToSearch(st, UpdateContentInMemory(st, id, c, now).db)
<1> DEFINE mid == [st EXCEPT !.hashs = Rehash(st, id, c)]
           up == Bump(mid, id, now)
           x == IF id \in DOMAIN st.entries
                  THEN [up EXCEPT !.entries[id].content = c]
                  ELSE mid
<1>1. CASE TakenByOther(st, id, c)
  BY <1>1 DEF UpdateContentInMemory, NoOp, UpToSearch, SameContents
<1>2. CASE ~TakenByOther(st, id, c)
  <2>1. UpdateContentInMemory(st, id, c, now).db = Search(x)
    BY <1>2 DEF UpdateContentInMemory
  <2>2. /\ DOMAIN mid = Fields
        /\ mid.query = st.query /\ mid.filtered = st.filtered /\ mid.panicked = st.panicked
    BY DEF Fields
  <2> HIDE DEF mid
  <2>3. /\ DOMAIN up = Fields
        /\ up.query = st.query /\ up.filtered = st.filtered /\ up.panicked = st.panicked
    BY <2>2 DEF Bump, Fields
  <2> HIDE DEF up
  <2>4. /\ DOMAIN x = Fields
        /\ x.query = st.query /\ x.filtered = st.filtered /\ x.panicked = st.panicked
    BY <2>2, <2>3 DEF Fields
  <2> HIDE DEF x
  <2> QED
    BY <2>1, <2>4 DEF UpToSearch, Searched
<1> QED
  BY <1>1, <1>2

LEMMA MergeUpToSearch ==
  ASSUME NEW st, DOMAIN st = Fields, NEW id, NEW c, NEW now
  PROVE  UpToSearch(st, MergeIntoOther(st, id, c, now))
<1> DEFINE other == st.hashs[Hash[c]]
           left == IF id \in DOMAIN st.entries THEN Remove(st, id) ELSE st
           x == Bump(left, other, now)
<1>1. /\ DOMAIN left = Fields
      /\ left.query = st.query /\ left.filtered = st.filtered /\ left.panicked = st.panicked
  BY RemoveKeepsQuery
<1>2. MergeIntoOther(st, id, c, now) = IF other \in DOMAIN left.entries THEN Search(x) ELSE Panic(left)
  BY DEF MergeIntoOther
<1> HIDE DEF other, left
<1>3. /\ DOMAIN x = Fields
      /\ x.query = st.query /\ x.filtered = st.filtered /\ x.panicked = st.panicked
  BY <1>1 DEF Bump, Fields
<1>4. /\ Panic(left).query = st.query /\ Panic(left).filtered = st.filtered
      /\ Panic(left).panicked = TRUE
  BY <1>1 DEF Panic, Fields
<1> HIDE DEF x
<1> QED
  BY <1>2, <1>3, <1>4 DEF UpToSearch, Searched, SameContents
=============================================================================
