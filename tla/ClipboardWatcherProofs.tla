----------------------- MODULE ClipboardWatcherProofs -----------------------
(***************************************************************************)
(* Proofs about ClipboardWatcher, for every set of MIME types, capacity of *)
(* the channel and of the stream, and any number of copies, hotplugs and   *)
(* changes of the configuration.                                           *)
(*                                                                         *)
(* The watcher takes events in pieces: what it knows is described together *)
(* with the events it has not taken yet, so that taking one more keeps the *)
(* description true.                                                       *)
(***************************************************************************)
EXTENDS ClipboardWatcher, FiniteSetTheorems, WellFoundedInduction, TLAPS

-----------------------------------------------------------------------------
(* The wire and what the watcher knows of it                               *)

StateFields == {"offers", "offer", "primary_offer", "got_primary_selection"}
Kind == {"clipboard", "primary"}

\* What the compositor writes, of n offers.
EventUpTo(n) ==
  [type : {"DataOffer"}, id : 1 .. n]
    \cup [type : Kind, id : 1 .. n \cup {None}]
    \cup [type : {"Global"}, id : {None}]
    \cup [type : {"Offer"}, id : 1 .. n, mime_type : Mimes]

\* Announcements follow each other in the order of the offers, each from its
\* DataOffer to the selection; the first may have been taken in part.
WireOK(w, n) ==
  /\ w \in Seq(EventUpTo(n))
  /\ \A i, j \in DOMAIN w : i < j /\ w[i].id # None /\ w[j].id # None =>
       /\ w[i].id <= w[j].id
       /\ w[i].type \in Kind \/ w[j].type = "DataOffer" => w[i].id < w[j].id
  /\ \A i \in DOMAIN w : w[i].type \in {"DataOffer", "Offer"} =>
       i + 1 \in DOMAIN w /\ w[i + 1].id = w[i].id /\ w[i + 1].type # "DataOffer"

StateOK(st, n) ==
  /\ DOMAIN st = StateFields
  /\ DOMAIN st.offers \subseteq 1 .. n
  /\ st.offers \in [DOMAIN st.offers -> SUBSET Mimes]
  /\ st.offer \in 1 .. n \cup {None} /\ st.primary_offer \in 1 .. n \cup {None}

\* What is said below of a state st holds when the first k events of w have
\* been taken.

\* The selections are older than whatever comes.
Ahead(st, w, k) ==
  \A i \in DOMAIN w : i > k /\ w[i].id # None =>
    \A o \in {st.offer, st.primary_offer} : o # None => o < w[i].id

\* What was given or is on its way is not read again, and is older than what
\* will be read.
Fresh(st, w, k, gone) ==
  \A g \in gone :
    /\ g \notin DOMAIN st.offers
    /\ Current(st) \in DOMAIN st.offers => g < Current(st)
    /\ \A i \in DOMAIN w : i > k /\ w[i].id # None => g < w[i].id

\* The MIME types of an offer that are still to come.
Rest(w, k, o) == {w[i].mime_type : i \in {j \in DOMAIN w : j > k /\ w[j].type = "Offer" /\ w[j].id = o}}

\* With those still to come the watcher knows all of an offer.
Whole(st, w, k, ms) ==
  /\ \A o \in DOMAIN st.offers : st.offers[o] \cup Rest(w, k, o) = ms[o]
  /\ \A i \in DOMAIN w : i > k /\ w[i].type = "DataOffer" => Rest(w, k, w[i].id) = ms[w[i].id]

\* It remembers the selections and an offer that the next event completes.
Few(st, w, k) ==
  \A o \in DOMAIN st.offers :
    \/ o \in {st.offer, st.primary_offer}
    \/ k + 1 \in DOMAIN w /\ w[k + 1].id = o /\ w[k + 1].type # "DataOffer"

Follows(st, w, k, ms, gone) ==
  /\ StateOK(st, Len(ms)) /\ Ahead(st, w, k) /\ Fresh(st, w, k, gone)
  /\ Few(st, w, k) /\ Whole(st, w, k, ms)

Given(f) == {o \in DOMAIN f : f[o] = "given"}
Carried(q) == {q[i].offer : i \in {j \in DOMAIN q : Carries(q[j])}}

\* The offers given or on their way.
Gone == Given(fate) \cup Carried(Queue)

\* What is on its way is in the order of the offers, and newer than what was given.
Ordered(q, given) ==
  \A i \in DOMAIN q : Carries(q[i]) =>
    /\ \A j \in DOMAIN q : i < j /\ Carries(q[j]) => q[i].offer < q[j].offer
    /\ \A o \in given : o < q[i].offer

WatcherInv ==
  /\ WireOK(wire, Len(mimes))
  /\ IF thread # "dropped" THEN Follows(seen, wire, 0, mimes, Gone)
     ELSE StateOK(seen, Len(mimes)) /\ Ahead(seen, wire, 0) /\ Fresh(seen, wire, 0, Gone)

\* The inductive invariant.
WInv ==
  /\ TypeOK /\ primary \in BOOLEAN
  /\ WatcherInv /\ Ordered(Queue, Given(fate)) /\ AsksForWhole
  /\ thread = "dropped" => channel = << >>

-----------------------------------------------------------------------------
(* Announcements                                                           *)

LEMMA SetListed ==
  ASSUME NEW T, IsFiniteSet(T)
  PROVE  /\ SetToSeq(T) \in Seq(T)
         /\ Len(SetToSeq(T)) \in Nat /\ DOMAIN SetToSeq(T) = 1 .. Len(SetToSeq(T))
         /\ \A x \in T : \E i \in DOMAIN SetToSeq(T) : SetToSeq(T)[i] = x
<1> DEFINE n == Cardinality(T)
           g == SetToSeq(T)
<1>1. n \in Nat /\ ExistsBijection(1 .. n, T)
  BY FS_CardinalityType
<1>2. \E f \in [1 .. n -> T] : IsInjective(f)
  BY <1>1 DEF ExistsBijection, Bijection, Injection
<1>3. g \in [1 .. n -> T] /\ IsInjective(g)
  BY <1>2 DEF SetToSeq
<1> HIDE DEF g
<1>4. g \in Injection(1 .. n, T)
  BY <1>3 DEF Injection
<1>5. Cardinality(1 .. n) = n
  BY <1>1, FS_Interval
<1>6. g \in Surjection(1 .. n, T)
  <2> HIDE DEF n
  <2>1. Cardinality(1 .. n) = Cardinality(T)
    BY <1>5 DEF n
  <2> QED
    BY <1>4, <2>1, FS_Injection
<1>7. \A x \in T : \E i \in 1 .. n : g[i] = x
  BY <1>6 DEF Surjection
<1> HIDE DEF n
<1>8. g \in Seq(T) /\ DOMAIN g = 1 .. n /\ Len(g) = n
  BY <1>1, <1>3
<1> QED
  BY <1>1, <1>7, <1>8 DEF g

\* An announcement is a DataOffer, the types and the selection, all of one offer.
LEMMA AnnouncementIs ==
  ASSUME NEW kind \in Kind, NEW n \in Nat, NEW o \in 1 .. n, NEW ms \in Contents
  PROVE  LET a == Announcement(kind, o, ms)
         IN  /\ a \in Seq(EventUpTo(n))
             /\ Len(a) \in Nat /\ Len(a) >= 2 /\ DOMAIN a = 1 .. Len(a)
             /\ a[1].type = "DataOffer" /\ a[Len(a)].type = kind
             /\ \A i \in 1 .. Len(a) : a[i].id = o
             /\ \A i \in 2 .. Len(a) - 1 : a[i].type = "Offer"
             /\ {a[i].mime_type : i \in {j \in DOMAIN a : a[j].type = "Offer"}} = ms
<1> DEFINE each == SetToSeq(ms)
           m == [i \in DOMAIN each |-> MimeEvent(o, each[i])]
           a == << Event("DataOffer", o) >> \o m \o << Event(kind, o) >>
           n0 == Len(each)
<1>1. IsFiniteSet(ms)
  BY WatcherAssumption
<1>2. /\ each \in Seq(ms) /\ n0 \in Nat /\ DOMAIN each = 1 .. n0
      /\ \A x \in ms : \E i \in 1 .. n0 : each[i] = x
  BY <1>1, SetListed
<1> HIDE DEF each
<1>3. \A i \in 1 .. n0 : each[i] \in ms /\ each[i] \in Mimes
  BY <1>2 DEF Mimes
<1>4. /\ Event("DataOffer", o) \in EventUpTo(n) /\ Event(kind, o) \in EventUpTo(n)
      /\ \A x \in Mimes : MimeEvent(o, x) \in EventUpTo(n)
  BY DEF Event, MimeEvent, EventUpTo
<1>5. m \in Seq(EventUpTo(n)) /\ Len(m) = n0 /\ \A i \in 1 .. n0 : m[i] = MimeEvent(o, each[i])
  <2>1. m \in [1 .. n0 -> EventUpTo(n)]
    BY <1>2, <1>3, <1>4
  <2> QED
    BY <1>2, <2>1
<1> HIDE DEF m, n0
<1>6. a \in Seq(EventUpTo(n))
  BY <1>4, <1>5
<1>7. /\ Len(a) = n0 + 2
      /\ a[1] = Event("DataOffer", o) /\ a[n0 + 2] = Event(kind, o)
      /\ \A i \in 1 .. n0 : a[i + 1] = MimeEvent(o, each[i])
  BY <1>2, <1>4, <1>5
<1> HIDE DEF a
<1>8. \A i \in 2 .. n0 + 1 : a[i] = MimeEvent(o, each[i - 1])
  <2> SUFFICES ASSUME NEW i \in 2 .. n0 + 1
               PROVE  a[i] = MimeEvent(o, each[i - 1])
    OBVIOUS
  <2>1. i - 1 \in 1 .. n0 /\ (i - 1) + 1 = i
    BY <1>2
  <2> QED
    BY <1>7, <2>1
<1>9. \A i \in 1 .. n0 + 2 : i = 1 \/ i = n0 + 2 \/ i \in 2 .. n0 + 1
  BY <1>2
<1>10. /\ a[1].type = "DataOffer" /\ a[n0 + 2].type = kind
       /\ \A i \in 1 .. n0 + 2 : a[i].id = o
       /\ \A i \in 2 .. n0 + 1 : a[i].type = "Offer" /\ a[i].mime_type = each[i - 1]
  <2>1. /\ Event("DataOffer", o).type = "DataOffer" /\ Event("DataOffer", o).id = o
        /\ Event(kind, o).type = kind /\ Event(kind, o).id = o
        /\ \A x : /\ MimeEvent(o, x).type = "Offer" /\ MimeEvent(o, x).id = o
                 /\ MimeEvent(o, x).mime_type = x
    BY DEF Event, MimeEvent
  <2>2. \A i \in 2 .. n0 + 1 : a[i].type = "Offer" /\ a[i].id = o /\ a[i].mime_type = each[i - 1]
    BY <1>8, <2>1
  <2> QED
    BY <1>7, <1>9, <2>1, <2>2
<1>11. DOMAIN a = 1 .. n0 + 2
  BY <1>6, <1>7
<1>12. {j \in DOMAIN a : a[j].type = "Offer"} = 2 .. n0 + 1
  <2>1. kind # "Offer"
    BY DEF Kind
  <2>2. \A j \in 2 .. n0 + 1 : j \in 1 .. n0 + 2
    BY <1>2
  <2> QED
    BY <1>9, <1>10, <1>11, <2>1, <2>2
<1>13. {a[i].mime_type : i \in 2 .. n0 + 1} = ms
  <2>1. \A i \in 2 .. n0 + 1 : a[i].mime_type \in ms
    <3> SUFFICES ASSUME NEW i \in 2 .. n0 + 1
                 PROVE  a[i].mime_type \in ms
      OBVIOUS
    <3>1. i - 1 \in 1 .. n0
      BY <1>2
    <3> QED
      BY <1>3, <1>10, <3>1
  <2>2. \A x \in ms : \E i \in 2 .. n0 + 1 : a[i].mime_type = x
    <3> SUFFICES ASSUME NEW x \in ms
                 PROVE  \E i \in 2 .. n0 + 1 : a[i].mime_type = x
      OBVIOUS
    <3>1. PICK k \in 1 .. n0 : each[k] = x
      BY <1>2
    <3>2. k + 1 \in 2 .. n0 + 1 /\ (k + 1) - 1 = k
      BY <1>2
    <3> QED
      BY <1>10, <3>1, <3>2
  <2> QED
    BY <2>1, <2>2
<1>14. Announcement(kind, o, ms) = a
  BY DEF Announcement, a, m, each
<1>15. Len(a) - 1 = n0 + 1 /\ Len(a) \in Nat /\ Len(a) >= 2
  BY <1>2, <1>7
<1> HIDE DEF Announcement
<1> QED
  BY <1>6, <1>7, <1>10, <1>11, <1>12, <1>13, <1>14, <1>15

LEMMA EventsWiden ==
  ASSUME NEW n \in Nat
  PROVE  EventUpTo(n) \subseteq EventUpTo(n + 1)
<1>1. 1 .. n \subseteq 1 .. n + 1
  OBVIOUS
<1> QED
  BY <1>1 DEF EventUpTo

LEMMA WireEvents ==
  ASSUME NEW n \in Nat, NEW w, WireOK(w, n)
  PROVE  /\ w \in Seq(EventUpTo(n)) /\ Len(w) \in Nat /\ DOMAIN w = 1 .. Len(w)
         /\ \A i \in DOMAIN w : /\ w[i] \in EventUpTo(n) /\ w[i].id \in 1 .. n \cup {None}
                                /\ w[i].type \in {"DataOffer", "Offer"} => w[i].id \in 1 .. n
<1>1. /\ w \in Seq(EventUpTo(n)) /\ Len(w) \in Nat /\ DOMAIN w = 1 .. Len(w)
      /\ \A i \in DOMAIN w : w[i] \in EventUpTo(n)
  BY DEF WireOK
<1>2. \A e \in EventUpTo(n) : /\ e.id \in 1 .. n \cup {None}
                              /\ e.type \in {"DataOffer", "Offer"} => e.id \in 1 .. n
  BY DEF EventUpTo, Kind
<1> QED
  BY <1>1, <1>2

\* The wire v is w and the announcement of the offer n + 1, with the types ms.
Announces(w, v, n, ms) ==
  /\ WireOK(v, n + 1)
  /\ DOMAIN w \subseteq DOMAIN v /\ \A i \in DOMAIN w : v[i] = w[i]
  /\ \A i \in DOMAIN v \ DOMAIN w : v[i].id = n + 1
  /\ {v[i].mime_type : i \in {j \in DOMAIN v : v[j].type = "Offer" /\ v[j].id = n + 1}} = ms

\* The wire after the announcement of a new offer.
LEMMA WireGrows ==
  ASSUME NEW n \in Nat, NEW w, WireOK(w, n), NEW kind \in Kind, NEW ms \in Contents
  PROVE  Announces(w, w \o Announcement(kind, n + 1, ms), n, ms)
<1> DEFINE a == Announcement(kind, n + 1, ms)
           v == w \o a
           L == Len(w)
           N == n + 1
<1>1. /\ a \in Seq(EventUpTo(N)) /\ Len(a) \in Nat /\ Len(a) >= 2 /\ DOMAIN a = 1 .. Len(a)
      /\ a[1].type = "DataOffer" /\ a[Len(a)].type = kind
      /\ \A i \in 1 .. Len(a) : a[i].id = N
      /\ \A i \in 2 .. Len(a) - 1 : a[i].type = "Offer"
      /\ {a[i].mime_type : i \in {j \in DOMAIN a : a[j].type = "Offer"}} = ms
  BY AnnouncementIs
<1>2. /\ w \in Seq(EventUpTo(N)) /\ L \in Nat /\ DOMAIN w = 1 .. L
      /\ \A i \in 1 .. L : /\ w[i].id \in 1 .. n \cup {None}
                           /\ w[i].type \in {"DataOffer", "Offer"} => w[i].id \in 1 .. n
  BY WireEvents, EventsWiden
<1>3. None \notin Nat
  BY WatcherAssumption
<1> HIDE DEF a
<1>4. /\ v \in Seq(EventUpTo(N)) /\ DOMAIN v = 1 .. L + Len(a)
      /\ \A i \in 1 .. L : v[i] = w[i] /\ i \in DOMAIN v
      /\ \A i \in 1 .. L + Len(a) : i > L => v[i] = a[i - L] /\ i - L \in 1 .. Len(a)
  BY <1>1, <1>2
<1>5. \A i \in 1 .. Len(a) : L + i \in DOMAIN v /\ L + i > L /\ (L + i) - L = i
  BY <1>1, <1>2, <1>4
<1>6. \A i \in 1 .. Len(a) : i = 1 \/ i = Len(a) \/ i \in 2 .. Len(a) - 1
  <2>1. Len(a) \in Nat
    BY <1>1
  <2> QED
    BY ONLY <2>1
<1> HIDE DEF v
<1>7. ASSUME NEW i \in DOMAIN v, NEW j \in DOMAIN v, i < j, v[i].id # None, v[j].id # None
      PROVE  /\ v[i].id <= v[j].id
             /\ v[i].type \in Kind \/ v[j].type = "DataOffer" => v[i].id < v[j].id
  <2>1. CASE j \in 1 .. L
    <3>1. i \in 1 .. L
      BY <1>2, <1>4, <1>7, <2>1
    <3> QED
      BY <1>2, <1>4, <1>7, <2>1, <3>1 DEF WireOK
  <2>2. CASE i \in 1 .. L /\ j \notin 1 .. L
    <3>1. v[i].id \in 1 .. n
      BY <1>2, <1>4, <1>7, <2>2
    <3>2. j > L
      BY <1>2, <1>4, <2>2
    <3>3. v[j].id = N
      BY <1>1, <1>4, <3>2
    <3> QED
      BY <3>1, <3>3
  <2>3. CASE i \notin 1 .. L
    <3>1. i > L /\ j > L
      BY <1>2, <1>4, <1>7, <2>3
    <3>2. /\ v[i] = a[i - L] /\ i - L \in 1 .. Len(a) /\ v[j] = a[j - L] /\ j - L \in 1 .. Len(a)
          /\ i - L < j - L
      BY <1>2, <1>4, <1>7, <3>1
    <3>3. i - L # Len(a) /\ j - L # 1
      BY <1>1, <1>2, <3>2
    <3>4. v[i].id = N /\ v[j].id = N
      BY <1>1, <3>2
    <3>5. v[i].type \in {"DataOffer", "Offer"}
      BY <1>1, <1>6, <3>2, <3>3
    <3>6. v[j].type \in {"Offer", kind}
      BY <1>1, <1>6, <3>2, <3>3
    <3> QED
      BY <3>4, <3>5, <3>6 DEF Kind
  <2> QED
    BY <2>1, <2>2, <2>3
<1>8. ASSUME NEW i \in DOMAIN v, v[i].type \in {"DataOffer", "Offer"}
      PROVE  i + 1 \in DOMAIN v /\ v[i + 1].id = v[i].id /\ v[i + 1].type # "DataOffer"
  <2>1. CASE i \in 1 .. L
    BY <1>2, <1>4, <1>8, <2>1 DEF WireOK
  <2>2. CASE i \notin 1 .. L
    <3>1. i > L
      BY <1>2, <1>4, <2>2
    <3>2. v[i] = a[i - L] /\ i - L \in 1 .. Len(a)
      BY <1>4, <3>1
    <3>3. i - L # Len(a)
      BY <1>1, <1>8, <3>2 DEF Kind
    <3>4. (i - L) + 1 \in 2 .. Len(a) /\ L + ((i - L) + 1) = i + 1
      BY <1>1, <1>2, <1>4, <3>2, <3>3
    <3>5. i + 1 \in DOMAIN v /\ v[i + 1] = a[(i - L) + 1]
      BY <1>2, <1>4, <3>4
    <3>6. a[(i - L) + 1].type \in {"Offer", kind}
      <4>1. \A k \in 2 .. Len(a) : k # 1 /\ k \in 1 .. Len(a)
        OBVIOUS
      <4>2. \A k \in 2 .. Len(a) : a[k].type \in {"Offer", kind}
        BY <1>1, <1>6, <4>1
      <4> QED
        BY <3>4, <4>2
    <3> QED
      BY <1>1, <3>2, <3>4, <3>5, <3>6 DEF Kind
  <2> QED
    BY <2>1, <2>2
<1>9. WireOK(v, N)
  BY <1>4, <1>7, <1>8 DEF WireOK
<1>10. ASSUME NEW i \in DOMAIN v \ DOMAIN w
       PROVE  i > L /\ v[i].id = N
  <2>1. i > L
    BY <1>2, <1>4
  <2>2. v[i] = a[i - L] /\ i - L \in 1 .. Len(a)
    BY <1>4, <2>1
  <2> QED
    BY <1>1, <2>1, <2>2
<1>11. {v[i].mime_type : i \in {j \in DOMAIN v : v[j].type = "Offer" /\ v[j].id = N}} = ms
  <2> DEFINE A == {j \in DOMAIN a : a[j].type = "Offer"}
             B == {j \in DOMAIN v : v[j].type = "Offer" /\ v[j].id = N}
  <2>1. \A i \in A : L + i \in B /\ v[L + i].mime_type = a[i].mime_type
    BY <1>1, <1>4, <1>5
  <2>2. \A j \in B : j - L \in A /\ v[j].mime_type = a[j - L].mime_type
    <3> SUFFICES ASSUME NEW j \in B
                 PROVE  j - L \in A /\ v[j].mime_type = a[j - L].mime_type
      OBVIOUS
    <3>1. j \notin 1 .. L
      BY <1>2, <1>3, <1>4
    <3>2. j > L
      BY <1>2, <1>4, <3>1
    <3> QED
      BY <1>1, <1>4, <3>2
  <2> HIDE DEF A, B
  <2>3. {v[i].mime_type : i \in B} = {a[i].mime_type : i \in A}
    BY <2>1, <2>2
  <2> QED
    BY <1>1, <2>3 DEF A, B
<1>12. DOMAIN w \subseteq DOMAIN v /\ \A i \in DOMAIN w : v[i] = w[i]
  BY <1>2, <1>4
<1>13. Announces(w, v, n, ms)
  BY <1>9, <1>10, <1>11, <1>12 DEF Announces, N
<1> QED
  BY <1>13 DEF v, a, N

\* Another event may come after an announcement, never within it.
LEMMA WireGrowsByOther ==
  ASSUME NEW n \in Nat, NEW w, WireOK(w, n),
         NEW e \in [type : Kind \cup {"Global"}, id : {None}]
  PROVE  /\ WireOK(Append(w, e), n)
         /\ DOMAIN w \subseteq DOMAIN Append(w, e)
         /\ \A i \in DOMAIN w : Append(w, e)[i] = w[i]
         /\ \A i \in DOMAIN Append(w, e) \ DOMAIN w : Append(w, e)[i] = e
<1> DEFINE v == Append(w, e)
<1>1. e \in EventUpTo(n)
  BY DEF EventUpTo
<1>2. w \in Seq(EventUpTo(n)) /\ Len(w) \in Nat /\ DOMAIN w = 1 .. Len(w)
  BY WireEvents
<1>3. /\ v \in Seq(EventUpTo(n)) /\ DOMAIN v = 1 .. Len(w) + 1
      /\ \A i \in 1 .. Len(w) : v[i] = w[i]
      /\ v[Len(w) + 1] = e
  BY <1>1, <1>2
<1> HIDE DEF v
<1>4. \A i \in DOMAIN v : i \in 1 .. Len(w) \/ i = Len(w) + 1
  BY <1>2, <1>3
<1>5. ASSUME NEW i \in DOMAIN v, NEW j \in DOMAIN v, i < j, v[i].id # None, v[j].id # None
      PROVE  /\ v[i].id <= v[j].id
             /\ v[i].type \in Kind \/ v[j].type = "DataOffer" => v[i].id < v[j].id
  <2>1. i \in 1 .. Len(w) /\ j \in 1 .. Len(w)
    BY <1>3, <1>4, <1>5
  <2> QED
    BY <1>2, <1>3, <1>5, <2>1 DEF WireOK
<1>6. ASSUME NEW i \in DOMAIN v, v[i].type \in {"DataOffer", "Offer"}
      PROVE  i + 1 \in DOMAIN v /\ v[i + 1].id = v[i].id /\ v[i + 1].type # "DataOffer"
  <2>1. i \in 1 .. Len(w)
    BY <1>3, <1>4, <1>6 DEF Kind
  <2>2. i + 1 \in 1 .. Len(w)
    BY <1>2, <1>3, <1>6, <2>1 DEF WireOK
  <2> QED
    BY <1>2, <1>3, <1>6, <2>1, <2>2 DEF WireOK
<1>7. WireOK(v, n)
  BY <1>3, <1>5, <1>6 DEF WireOK
<1> QED
  BY <1>2, <1>3, <1>4, <1>7 DEF v

-----------------------------------------------------------------------------
(* What is said of the watcher stays true when events are written ...       *)

LEMMA DescriptionGrows ==
  ASSUME NEW n \in Nat, NEW w, WireOK(w, n), NEW v, WireOK(v, n + 1),
         DOMAIN w \subseteq DOMAIN v, \A i \in DOMAIN w : v[i] = w[i],
         \A i \in DOMAIN v \ DOMAIN w :
           (v[i].id = None /\ v[i].type \in Kind \cup {"Global"}) \/ v[i].id = n + 1,
         NEW ms, NEW ms2, \A o \in 1 .. n : ms2[o] = ms[o],
         (\E i \in DOMAIN v : v[i].id = n + 1) =>
           {v[i].mime_type : i \in {j \in DOMAIN v : v[j].type = "Offer" /\ v[j].id = n + 1}}
             = ms2[n + 1],
         NEW st, StateOK(st, n), NEW gone \in SUBSET (1 .. n)
  PROVE  /\ StateOK(st, n + 1)
         /\ Ahead(st, w, 0) => Ahead(st, v, 0)
         /\ Fresh(st, w, 0, gone) => Fresh(st, v, 0, gone)
         /\ Few(st, w, 0) => Few(st, v, 0)
         /\ Whole(st, w, 0, ms) => Whole(st, v, 0, ms2)
<1>1. /\ 1 .. n \subseteq 1 .. n + 1 /\ \A o \in 1 .. n : o < n + 1 /\ o # n + 1
      /\ None \notin Nat
  BY WatcherAssumption
<1>2. StateOK(st, n + 1)
  BY <1>1 DEF StateOK
<1>3. \A i \in DOMAIN w : i > 0
  BY WireEvents
<1>4. \A i \in DOMAIN v : /\ v[i].id # None => i \in DOMAIN w \/ v[i].id = n + 1
                          /\ i > 0
  BY WireEvents
<1>5. Ahead(st, w, 0) => Ahead(st, v, 0)
  <2> SUFFICES ASSUME Ahead(st, w, 0), NEW i \in DOMAIN v, v[i].id # None,
                      NEW o \in {st.offer, st.primary_offer}, o # None
               PROVE  o < v[i].id
    BY DEF Ahead
  <2>1. o \in 1 .. n
    BY DEF StateOK
  <2> QED
    BY <1>1, <1>3, <1>4, <2>1 DEF Ahead
<1>6. Fresh(st, w, 0, gone) => Fresh(st, v, 0, gone)
  <2> SUFFICES ASSUME Fresh(st, w, 0, gone), NEW g \in gone, NEW i \in DOMAIN v, v[i].id # None
               PROVE  g < v[i].id
    BY DEF Fresh
  <2>1. g \in 1 .. n
    OBVIOUS
  <2> QED
    BY <1>1, <1>3, <1>4, <2>1 DEF Fresh
<1>7. Few(st, w, 0) => Few(st, v, 0)
  BY DEF Few
<1>8. \A o \in 1 .. n : Rest(v, 0, o) = Rest(w, 0, o)
  <2> SUFFICES ASSUME NEW o \in 1 .. n
               PROVE  Rest(v, 0, o) = Rest(w, 0, o)
    OBVIOUS
  <2> DEFINE A == {j \in DOMAIN v : j > 0 /\ v[j].type = "Offer" /\ v[j].id = o}
             B == {j \in DOMAIN w : j > 0 /\ w[j].type = "Offer" /\ w[j].id = o}
  <2>1. o # None /\ o # n + 1
    BY <1>1
  <2>2. A = B
    BY <1>4, <2>1
  <2>3. \A j \in B : v[j] = w[j]
    OBVIOUS
  <2> QED
    BY <2>2, <2>3 DEF Rest
<1>9. Whole(st, w, 0, ms) => Whole(st, v, 0, ms2)
  <2> SUFFICES ASSUME Whole(st, w, 0, ms)
               PROVE  Whole(st, v, 0, ms2)
    OBVIOUS
  <2>1. \A o \in DOMAIN st.offers : st.offers[o] \cup Rest(v, 0, o) = ms2[o]
    BY <1>8 DEF StateOK, Whole
  <2>2. ASSUME NEW i \in DOMAIN v, v[i].type = "DataOffer"
        PROVE  Rest(v, 0, v[i].id) = ms2[v[i].id]
    <3>1. CASE i \in DOMAIN w
      <4>1. w[i].id \in 1 .. n /\ w[i].type = "DataOffer" /\ i > 0
        BY <1>3, <2>2, <3>1, WireEvents
      <4>2. Rest(w, 0, w[i].id) = ms[w[i].id]
        BY <3>1, <4>1 DEF Whole
      <4> QED
        BY <1>8, <3>1, <4>1, <4>2
    <3>2. CASE i \notin DOMAIN w
      <4>1. v[i].id = n + 1
        BY <2>2, <3>2 DEF Kind
      <4>2. {j \in DOMAIN v : v[j].type = "Offer" /\ v[j].id = n + 1}
              = {j \in DOMAIN v : j > 0 /\ v[j].type = "Offer" /\ v[j].id = n + 1}
        BY <1>4
      <4> QED
        BY <4>1, <4>2 DEF Rest
    <3> QED
      BY <3>1, <3>2
  <2> QED
    BY <2>1, <2>2 DEF Whole
<1> QED
  BY <1>2, <1>5, <1>6, <1>7, <1>9

\* ... and when the events taken are cut off.
LEMMA WireCut ==
  ASSUME NEW n \in Nat, NEW w, WireOK(w, n), NEW k \in 0 .. Len(w)
  PROVE  LET v == SubSeq(w, k + 1, Len(w))
         IN  /\ WireOK(v, n)
             /\ DOMAIN v = 1 .. Len(w) - k
             /\ \A i \in DOMAIN v : i + k \in DOMAIN w /\ v[i] = w[i + k]
             /\ \A i \in DOMAIN w : i > k => i - k \in DOMAIN v /\ w[i] = v[i - k]
<1> DEFINE v == SubSeq(w, k + 1, Len(w))
<1>1. w \in Seq(EventUpTo(n)) /\ Len(w) \in Nat /\ DOMAIN w = 1 .. Len(w)
  BY WireEvents
<1>2. /\ v \in Seq(EventUpTo(n)) /\ DOMAIN v = 1 .. Len(w) - k
      /\ \A i \in 1 .. Len(w) - k : v[i] = w[i + k]
  BY <1>1
<1> HIDE DEF v
<1>3. \A i \in DOMAIN v : i + k \in DOMAIN w /\ v[i] = w[i + k]
  BY <1>1, <1>2
<1>4. \A i \in DOMAIN w : i > k => i - k \in DOMAIN v /\ (i - k) + k = i
  BY <1>1, <1>2
<1>5. ASSUME NEW i \in DOMAIN v, NEW j \in DOMAIN v, i < j, v[i].id # None, v[j].id # None
      PROVE  /\ v[i].id <= v[j].id
             /\ v[i].type \in Kind \/ v[j].type = "DataOffer" => v[i].id < v[j].id
  <2>1. i + k < j + k
    BY <1>2, <1>5
  <2> QED
    BY <1>3, <1>5, <2>1 DEF WireOK
<1>6. ASSUME NEW i \in DOMAIN v, v[i].type \in {"DataOffer", "Offer"}
      PROVE  i + 1 \in DOMAIN v /\ v[i + 1].id = v[i].id /\ v[i + 1].type # "DataOffer"
  <2>1. /\ (i + k) + 1 \in DOMAIN w /\ w[(i + k) + 1].id = w[i + k].id
        /\ w[(i + k) + 1].type # "DataOffer"
    BY <1>3, <1>6 DEF WireOK
  <2>2. (i + k) + 1 = (i + 1) + k /\ i + 1 \in DOMAIN v
    BY <1>1, <1>2, <2>1
  <2> QED
    BY <1>3, <2>1, <2>2
<1>7. WireOK(v, n)
  BY <1>2, <1>5, <1>6 DEF WireOK
<1> QED
  BY <1>2, <1>3, <1>4, <1>7 DEF v

LEMMA DescriptionCut ==
  ASSUME NEW n \in Nat, NEW w, WireOK(w, n), NEW k \in 0 .. Len(w),
         NEW st, NEW ms, NEW gone
  PROVE  LET v == SubSeq(w, k + 1, Len(w))
         IN  /\ Ahead(st, w, k) => Ahead(st, v, 0)
             /\ Fresh(st, w, k, gone) => Fresh(st, v, 0, gone)
             /\ Few(st, w, k) => Few(st, v, 0)
             /\ Whole(st, w, k, ms) => Whole(st, v, 0, ms)
<1> DEFINE v == SubSeq(w, k + 1, Len(w))
<1>1. /\ DOMAIN v = 1 .. Len(w) - k
      /\ \A i \in DOMAIN v : i + k \in DOMAIN w /\ v[i] = w[i + k]
      /\ \A i \in DOMAIN w : i > k => i - k \in DOMAIN v /\ w[i] = v[i - k]
  BY WireCut
<1>2. Len(w) \in Nat /\ DOMAIN w = 1 .. Len(w)
  BY WireEvents
<1> HIDE DEF v
<1>3. \A i \in DOMAIN v : i > 0 /\ i + k > k
  BY <1>1, <1>2
<1>4. Ahead(st, w, k) => Ahead(st, v, 0)
  BY <1>1, <1>3 DEF Ahead
<1>5. Fresh(st, w, k, gone) => Fresh(st, v, 0, gone)
  BY <1>1, <1>3 DEF Fresh
<1>6. Few(st, w, k) => Few(st, v, 0)
  <2>1. k + 1 \in DOMAIN w => 0 + 1 \in DOMAIN v /\ v[0 + 1] = w[k + 1]
    BY <1>1, <1>2
  <2> QED
    BY <2>1 DEF Few
<1>7. \A o : Rest(v, 0, o) = Rest(w, k, o)
  <2> SUFFICES ASSUME NEW o
               PROVE  Rest(v, 0, o) = Rest(w, k, o)
    OBVIOUS
  <2> DEFINE A == {j \in DOMAIN v : j > 0 /\ v[j].type = "Offer" /\ v[j].id = o}
             B == {j \in DOMAIN w : j > k /\ w[j].type = "Offer" /\ w[j].id = o}
  <2>1. \A i \in A : i + k \in B /\ w[i + k] = v[i]
    BY <1>1, <1>3
  <2>2. \A j \in B : j - k \in A /\ v[j - k] = w[j]
    BY <1>1, <1>3
  <2>3. Rest(v, 0, o) = {v[i].mime_type : i \in A} /\ Rest(w, k, o) = {w[i].mime_type : i \in B}
    BY DEF Rest
  <2> HIDE DEF A, B
  <2> QED
    BY <2>1, <2>2, <2>3
<1>8. Whole(st, w, k, ms) => Whole(st, v, 0, ms)
  BY <1>1, <1>3, <1>7 DEF Whole
<1> QED
  BY <1>4, <1>5, <1>6, <1>8 DEF v

-----------------------------------------------------------------------------
(* Taking events                                                           *)

\* What an event adds to what is known of an offer is no longer to come.
LEMMA RestShrinks ==
  ASSUME NEW n \in Nat, NEW w, WireOK(w, n), NEW k \in Nat, k + 1 \in DOMAIN w, NEW o
  PROVE  /\ w[k + 1].type = "Offer" /\ w[k + 1].id = o =>
              Rest(w, k, o) = {w[k + 1].mime_type} \cup Rest(w, k + 1, o)
         /\ ~(w[k + 1].type = "Offer" /\ w[k + 1].id = o) => Rest(w, k, o) = Rest(w, k + 1, o)
<1> DEFINE A == {j \in DOMAIN w : j > k /\ w[j].type = "Offer" /\ w[j].id = o}
           B == {j \in DOMAIN w : j > k + 1 /\ w[j].type = "Offer" /\ w[j].id = o}
<1>1. \A j \in DOMAIN w : j > k <=> j > k + 1 \/ j = k + 1
  BY WireEvents
<1>2. Rest(w, k, o) = {w[j].mime_type : j \in A} /\ Rest(w, k + 1, o) = {w[j].mime_type : j \in B}
  BY DEF Rest
<1>3. w[k + 1].type = "Offer" /\ w[k + 1].id = o => A = {k + 1} \cup B
  BY <1>1
<1>4. ~(w[k + 1].type = "Offer" /\ w[k + 1].id = o) => A = B
  BY <1>1
<1> HIDE DEF A, B
<1> QED
  BY <1>2, <1>3, <1>4

\* The selection is the last event of an announcement.
LEMMA NothingRests ==
  ASSUME NEW n \in Nat, NEW w, WireOK(w, n), NEW k \in Nat, k + 1 \in DOMAIN w,
         w[k + 1].type \in Kind, w[k + 1].id # None
  PROVE  Rest(w, k + 1, w[k + 1].id) = {}
<1>1. ASSUME NEW j \in DOMAIN w, j > k + 1, w[j].id = w[k + 1].id
      PROVE  FALSE
  <2>1. w[k + 1].id < w[j].id
    BY <1>1 DEF WireOK
  <2>2. w[k + 1].id \in Nat
    BY WireEvents
  <2> QED
    BY <1>1, <2>1, <2>2
<1> QED
  BY <1>1 DEF Rest

\* The state after each kind of event.
LEMMA DataOfferTaken ==
  ASSUME NEW n, NEW st, StateOK(st, n), NEW o, NEW e, e.type = "DataOffer", e.id = o
  PROVE  LET new == Dispatch(st, e)
         IN  /\ DOMAIN new = StateFields
             /\ DOMAIN new.offers = DOMAIN st.offers \cup {o}
             /\ new.offers[o] = {} /\ \A p \in DOMAIN st.offers : p # o => new.offers[p] = st.offers[p]
             /\ new.offers \in [DOMAIN new.offers -> SUBSET Mimes]
             /\ new.offer = st.offer /\ new.primary_offer = st.primary_offer
<1> DEFINE f == [p \in DOMAIN st.offers \cup {o} |-> IF p = o THEN {} ELSE st.offers[p]]
<1>1. Dispatch(st, e) = [st EXCEPT !.offers = f]
  BY DEF Dispatch
<1>2. /\ DOMAIN f = DOMAIN st.offers \cup {o} /\ f[o] = {}
      /\ \A p \in DOMAIN st.offers : p # o => f[p] = st.offers[p]
      /\ f \in [DOMAIN f -> SUBSET Mimes]
  BY DEF StateOK
<1> HIDE DEF f
<1> QED
  BY <1>1, <1>2 DEF StateOK, StateFields

LEMMA OfferTaken ==
  ASSUME NEW n, NEW st, StateOK(st, n), NEW e, e.type = "Offer", e.mime_type \in Mimes
  PROVE  LET new == Dispatch(st, e)
         IN  /\ DOMAIN new = StateFields
             /\ DOMAIN new.offers = DOMAIN st.offers
             /\ e.id \in DOMAIN st.offers =>
                  new.offers[e.id] = st.offers[e.id] \cup {e.mime_type}
             /\ \A p \in DOMAIN st.offers : p # e.id => new.offers[p] = st.offers[p]
             /\ new.offers \in [DOMAIN new.offers -> SUBSET Mimes]
             /\ new.offer = st.offer /\ new.primary_offer = st.primary_offer
<1> DEFINE f == [st.offers EXCEPT ![e.id] = @ \cup {e.mime_type}]
<1>1. Dispatch(st, e) = [st EXCEPT !.offers = f]
  BY DEF Dispatch, StateOK, StateFields
<1>2. /\ DOMAIN f = DOMAIN st.offers
      /\ e.id \in DOMAIN st.offers => f[e.id] = st.offers[e.id] \cup {e.mime_type}
      /\ \A p \in DOMAIN st.offers : p # e.id => f[p] = st.offers[p]
      /\ f \in [DOMAIN f -> SUBSET Mimes]
  BY DEF StateOK
<1> HIDE DEF f
<1> QED
  BY <1>1, <1>2 DEF StateOK, StateFields

LEMMA SelectionTaken ==
  ASSUME NEW n, NEW st, StateOK(st, n), NEW o, NEW e, e.type \in Kind, e.id = o
  PROVE  LET new == Dispatch(st, e)
             old == IF e.type = "clipboard" THEN st.offer ELSE st.primary_offer
         IN  /\ DOMAIN new = StateFields
             /\ DOMAIN new.offers = DOMAIN st.offers \ {old}
             /\ \A p \in DOMAIN new.offers : new.offers[p] = st.offers[p]
             /\ new.offers \in [DOMAIN new.offers -> SUBSET Mimes]
             /\ e.type = "clipboard" => new.offer = o /\ new.primary_offer = st.primary_offer
             /\ e.type = "primary" => new.offer = st.offer /\ new.primary_offer = o
<1> DEFINE f(p0) == [p \in DOMAIN st.offers \ {p0} |-> st.offers[p]]
<1>1. \A p0 : /\ DOMAIN f(p0) = DOMAIN st.offers \ {p0}
              /\ \A p \in DOMAIN f(p0) : f(p0)[p] = st.offers[p]
              /\ f(p0) \in [DOMAIN f(p0) -> SUBSET Mimes]
  BY DEF StateOK
<1>2. CASE e.type = "clipboard"
  <2>1. Dispatch(st, e) = [st EXCEPT !.offer = o, !.offers = f(st.offer)]
    BY <1>2 DEF Dispatch, Selected, StateOK, StateFields
  <2> HIDE DEF f
  <2> QED
    BY <1>1, <1>2, <2>1 DEF StateOK, StateFields
<1>3. CASE e.type = "primary"
  <2>1. Dispatch(st, e) = [st EXCEPT !.primary_offer = o, !.offers = f(st.primary_offer),
                                     !.got_primary_selection = TRUE]
    BY <1>3 DEF Dispatch, Selected, StateOK, StateFields
  <2> HIDE DEF f
  <2> QED
    BY <1>1, <1>3, <2>1 DEF StateOK, StateFields
<1> QED
  BY <1>2, <1>3 DEF Kind

\* One event more leaves what is said of the watcher true.
LEMMA TakenOneMore ==
  ASSUME NEW ms, Len(ms) \in Nat, NEW w, WireOK(w, Len(ms)), NEW k \in Nat, k + 1 \in DOMAIN w,
         NEW gone \in SUBSET Nat, NEW st, Follows(st, w, k, ms, gone)
  PROVE  Follows(Dispatch(st, w[k + 1]), w, k + 1, ms, gone)
<1> DEFINE n == Len(ms)
           e == w[k + 1]
           new == Dispatch(st, e)
           D == DOMAIN st.offers
<1>1. /\ \A i \in DOMAIN w : /\ w[i] \in EventUpTo(n) /\ w[i].id \in 1 .. n \cup {None}
                             /\ i \in Nat
      /\ DOMAIN w = 1 .. Len(w) /\ Len(w) \in Nat
      /\ e.type \in {"DataOffer", "Offer"} => e.id \in 1 .. n
  BY WireEvents
<1>2. None \notin Nat /\ \A i \in DOMAIN w : i > k + 1 => i > k
  BY <1>1, WatcherAssumption
<1>3. StateOK(st, n) /\ Ahead(st, w, k) /\ Fresh(st, w, k, gone) /\ Few(st, w, k) /\ Whole(st, w, k, ms)
  BY DEF Follows
<1>4. /\ \A i \in DOMAIN w : i > k + 1 /\ w[i].id # None /\ e.id # None =>
           /\ e.id <= w[i].id
           /\ e.type \in Kind \/ w[i].type = "DataOffer" => e.id < w[i].id
      /\ e.type \in {"DataOffer", "Offer"} =>
           (k + 1) + 1 \in DOMAIN w /\ w[(k + 1) + 1].id = e.id /\ w[(k + 1) + 1].type # "DataOffer"
  BY DEF WireOK
<1>5. e.id # None =>
        /\ \A g \in gone : g < e.id
        /\ \A o \in {st.offer, st.primary_offer} : o # None => o < e.id
  <2>1. k + 1 > k
    OBVIOUS
  <2> QED
    BY <1>3, <2>1 DEF Fresh, Ahead
<1>6. D \subseteq 1 .. n /\ {st.offer, st.primary_offer} \subseteq 1 .. n \cup {None}
  BY <1>3 DEF StateOK
<1>7. \A o : /\ e.type = "Offer" /\ e.id = o => Rest(w, k, o) = {e.mime_type} \cup Rest(w, k + 1, o)
             /\ ~(e.type = "Offer" /\ e.id = o) => Rest(w, k, o) = Rest(w, k + 1, o)
  BY RestShrinks
<1>8. \A i \in DOMAIN w : i > k + 1 /\ w[i].type = "DataOffer" =>
        Rest(w, k + 1, w[i].id) = ms[w[i].id]
  <2> SUFFICES ASSUME NEW i \in DOMAIN w, i > k + 1, w[i].type = "DataOffer"
               PROVE  Rest(w, k + 1, w[i].id) = ms[w[i].id]
    OBVIOUS
  <2>1. Rest(w, k, w[i].id) = ms[w[i].id]
    BY <1>2, <1>3 DEF Whole
  <2>2. w[i].id \in 1 .. n
    BY WireEvents
  <2>3. ~(e.type = "Offer" /\ e.id = w[i].id)
    BY <1>1, <1>2, <1>4, <2>2
  <2> QED
    BY <1>7, <2>1, <2>3
<1> HIDE DEF new, n
<1>9. CASE e.type = "DataOffer"
  <2>1. /\ DOMAIN new = StateFields /\ DOMAIN new.offers = D \cup {e.id}
        /\ new.offers[e.id] = {} /\ \A p \in D : p # e.id => new.offers[p] = st.offers[p]
        /\ new.offers \in [DOMAIN new.offers -> SUBSET Mimes]
        /\ new.offer = st.offer /\ new.primary_offer = st.primary_offer
    BY <1>3, <1>9, DataOfferTaken DEF new
  <2>2. e.id \in 1 .. n /\ e.id # None
    BY <1>1, <1>2, <1>9
  <2>3. StateOK(new, n)
    BY <1>3, <1>6, <2>1, <2>2 DEF StateOK
  <2>4. Ahead(new, w, k + 1)
    BY <1>2, <1>3, <2>1 DEF Ahead
  <2>5. Fresh(new, w, k + 1, gone)
    <3>1. Current(new) = Current(st) /\ Current(st) \in {st.offer, st.primary_offer}
      BY <2>1 DEF Current
    <3>2. Current(st) # e.id
      BY <1>5, <1>6, <2>2, <3>1
    <3>3. \A g \in gone : g # e.id
      BY <1>5, <2>2
    <3> QED
      BY <1>2, <1>3, <2>1, <3>1, <3>2, <3>3 DEF Fresh
  <2>6. Few(new, w, k + 1)
    BY <1>3, <1>4, <1>9, <2>1 DEF Few
  <2>7. Whole(new, w, k + 1, ms)
    <3>1. Rest(w, k, e.id) = ms[e.id]
      <4>1. k + 1 > k
        OBVIOUS
      <4> QED
        BY <1>3, <1>9, <4>1 DEF Whole
    <3>2. \A o : Rest(w, k, o) = Rest(w, k + 1, o)
      BY <1>7, <1>9
    <3> QED
      BY <1>3, <1>8, <2>1, <3>1, <3>2 DEF Whole
  <2> QED
    BY <2>3, <2>4, <2>5, <2>6, <2>7 DEF Follows, n, new
<1>10. CASE e.type = "Offer"
  <2>1. e.mime_type \in Mimes
    BY <1>1, <1>10 DEF EventUpTo, Kind
  <2>2. /\ DOMAIN new = StateFields /\ DOMAIN new.offers = D
        /\ e.id \in D => new.offers[e.id] = st.offers[e.id] \cup {e.mime_type}
        /\ \A p \in D : p # e.id => new.offers[p] = st.offers[p]
        /\ new.offers \in [DOMAIN new.offers -> SUBSET Mimes]
        /\ new.offer = st.offer /\ new.primary_offer = st.primary_offer
    <3> HIDE DEF e
    <3> QED
      BY <1>3, <1>10, <2>1, OfferTaken DEF new
  <2>3. StateOK(new, n)
    BY <1>3, <2>2 DEF StateOK
  <2>4. Ahead(new, w, k + 1)
    BY <1>2, <1>3, <2>2 DEF Ahead
  <2>5. Fresh(new, w, k + 1, gone)
    <3>1. Current(new) = Current(st)
      BY <2>2 DEF Current
    <3> QED
      BY <1>2, <1>3, <2>2, <3>1 DEF Fresh
  <2>6. Few(new, w, k + 1)
    BY <1>3, <1>4, <1>10, <2>2 DEF Few
  <2>7. \A o \in D : new.offers[o] \cup Rest(w, k + 1, o) = ms[o]
    <3> SUFFICES ASSUME NEW o \in D
                 PROVE  new.offers[o] \cup Rest(w, k + 1, o) = ms[o]
      OBVIOUS
    <3>1. st.offers[o] \cup Rest(w, k, o) = ms[o]
      BY <1>3 DEF Whole
    <3>2. CASE o = e.id
      BY <1>7, <1>10, <2>2, <3>1, <3>2
    <3>3. CASE o # e.id
      BY <1>7, <2>2, <3>1, <3>3
    <3> QED
      BY <3>2, <3>3
  <2>8. Whole(new, w, k + 1, ms)
    BY <1>8, <2>2, <2>7 DEF Whole
  <2> QED
    BY <2>3, <2>4, <2>5, <2>6, <2>8 DEF Follows, n, new
<1>11. CASE e.type \in Kind
  <2> DEFINE old == IF e.type = "clipboard" THEN st.offer ELSE st.primary_offer
  <2>1. /\ DOMAIN new = StateFields /\ DOMAIN new.offers = D \ {old}
        /\ \A p \in DOMAIN new.offers : new.offers[p] = st.offers[p]
        /\ new.offers \in [DOMAIN new.offers -> SUBSET Mimes]
        /\ e.type = "clipboard" => new.offer = e.id /\ new.primary_offer = st.primary_offer
        /\ e.type = "primary" => new.offer = st.offer /\ new.primary_offer = e.id
    BY <1>3, <1>11, SelectionTaken DEF new
  <2>2. e.type = "clipboard" \/ e.type = "primary"
    BY <1>11 DEF Kind
  <2>3. e.id \in 1 .. n \cup {None}
    BY <1>1
  <2>4. StateOK(new, n)
    BY <1>3, <1>6, <2>1, <2>2, <2>3 DEF StateOK
  <2>5. Ahead(new, w, k + 1)
    <3> SUFFICES ASSUME NEW i \in DOMAIN w, i > k + 1, w[i].id # None,
                        NEW o \in {new.offer, new.primary_offer}, o # None
                 PROVE  o < w[i].id
      BY DEF Ahead
    <3>1. CASE o = e.id
      BY <1>4, <1>11, <3>1
    <3>2. CASE o \in {st.offer, st.primary_offer}
      BY <1>2, <1>3, <3>2 DEF Ahead
    <3> QED
      BY <2>1, <2>2, <3>1, <3>2
  <2>6. Fresh(new, w, k + 1, gone)
    <3>1. Current(new) = Current(st) \/ Current(new) = e.id
      BY <2>1, <2>2 DEF Current
    <3>2. DOMAIN new.offers \subseteq D /\ None \notin D
      BY <1>2, <1>6, <2>1
    <3>3. Current(new) \in DOMAIN new.offers => \A g \in gone : g < Current(new)
      BY <1>3, <1>5, <3>1, <3>2 DEF Fresh
    <3> QED
      BY <1>2, <1>3, <3>2, <3>3 DEF Fresh
  <2>7. Few(new, w, k + 1)
    <3> SUFFICES ASSUME NEW o \in D, o # old
                 PROVE  o \in {new.offer, new.primary_offer}
      BY <2>1 DEF Few
    <3>1. o \in {st.offer, st.primary_offer} \/ o = e.id
      BY <1>3 DEF Few
    <3> QED
      BY <2>1, <2>2, <3>1
  <2>8. Whole(new, w, k + 1, ms)
    <3>1. \A o : Rest(w, k, o) = Rest(w, k + 1, o)
      BY <1>7, <1>11 DEF Kind
    <3> QED
      BY <1>3, <1>8, <2>1, <3>1 DEF Whole
  <2> QED
    BY <2>4, <2>5, <2>6, <2>7, <2>8 DEF Follows, n, new
<1>12. CASE e.type = "Global"
  <2>1. new = st
    BY <1>12 DEF new, Dispatch
  <2>2. e.id = None
    BY <1>1, <1>12 DEF EventUpTo, Kind
  <2>3. Few(st, w, k + 1)
    BY <1>2, <1>3, <1>6, <2>2 DEF Few
  <2>4. \A o : Rest(w, k, o) = Rest(w, k + 1, o)
    BY <1>7, <1>12
  <2>5. Whole(st, w, k + 1, ms)
    BY <1>3, <1>8, <2>4 DEF Whole
  <2>6. Ahead(st, w, k + 1) /\ Fresh(st, w, k + 1, gone)
    BY <1>2, <1>3 DEF Ahead, Fresh
  <2> QED
    BY <1>3, <2>1, <2>3, <2>5, <2>6 DEF Follows, n, new
<1>13. e.type \in {"DataOffer", "Offer", "Global"} \cup Kind
  BY <1>1 DEF EventUpTo
<1> QED
  BY <1>9, <1>10, <1>11, <1>12, <1>13 DEF new

\* Induction up to n.
LEMMA UpTo ==
  ASSUME NEW n \in Nat, NEW G, 0 \in G, \A k \in 0 .. n : k # n /\ k \in G => k + 1 \in G
  PROVE  0 .. n \subseteq G
<1> DEFINE R == OpToRel(<, Nat)
           Bad == 0 .. n \ G
<1>1. IsWellFoundedOn(R, Nat)
  BY NatLessThanWellFounded
<1>2. \A x, y \in Nat : y < x => << y, x >> \in R
  BY DEF OpToRel
<1> HIDE DEF R
<1> SUFFICES ASSUME Bad # {}
             PROVE  FALSE
  OBVIOUS
<1>3. PICK m \in Bad : \A k \in Bad : ~ (<< k, m >> \in R)
  <2>1. Bad \in SUBSET Nat
    OBVIOUS
  <2> HIDE DEF Bad
  <2> QED
    BY <1>1, <2>1, WFMin
<1>4. m - 1 \in 0 .. n /\ m - 1 < m /\ m - 1 # n /\ (m - 1) + 1 = m
  OBVIOUS
<1>5. m \in Nat /\ m - 1 \in Nat
  OBVIOUS
<1>6. << m - 1, m >> \in R
  BY <1>2, <1>4, <1>5
<1>7. m - 1 \notin Bad
  BY <1>3, <1>6
<1> QED
  BY <1>4, <1>7

\* The events are taken one after another.
LEMMA DispatchedFollows ==
  ASSUME NEW ms, Len(ms) \in Nat, WireOK(wire, Len(ms)), NEW n \in 0 .. Len(wire),
         NEW gone \in SUBSET Nat, Follows(seen, wire, 0, ms, gone)
  PROVE  Follows(Dispatched(n), wire, n, ms, gone)
<1> DEFINE Step(g, i) == IF i = 0 THEN seen ELSE Dispatch(g[i - 1], wire[i])
           IsRec(g, m) == g = [i \in 0 .. m |-> Step(g, i)]
<1>1. n \in Nat /\ Len(wire) \in Nat /\ DOMAIN wire = 1 .. Len(wire)
  BY WireEvents
<1>2. \A m \in 0 .. n : \E g : IsRec(g, m)
  <2> DEFINE G == {m \in 0 .. n : \E g : IsRec(g, m)}
  <2>1. 0 \in G
    <3>1. IsRec([i \in 0 .. 0 |-> seen], 0)
      OBVIOUS
    <3>2. \E g : IsRec(g, 0)
      BY <3>1
    <3> HIDE DEF IsRec
    <3> QED
      BY <1>1, <3>2
  <2>2. ASSUME NEW m \in 0 .. n, m # n, m \in G
        PROVE  m + 1 \in G
    <3>1. m \in Nat /\ m + 1 \in 0 .. n
      BY <1>1, <2>2
    <3>2. PICK g : IsRec(g, m)
      BY <2>2
    <3> DEFINE h == [i \in 0 .. m + 1 |-> IF i = m + 1 THEN Dispatch(g[m], wire[m + 1]) ELSE g[i]]
    <3>3. ASSUME NEW i \in 0 .. m + 1
          PROVE  h[i] = Step(h, i)
      <4>1. CASE i = m + 1
        <5>1. i - 1 = m /\ m \in 0 .. m + 1 /\ m # m + 1 /\ i # 0
          BY <3>1, <4>1
        <5>2. h[i - 1] = g[m]
          BY <5>1
        <5>3. h[i] = Dispatch(g[m], wire[i])
          BY <4>1
        <5> HIDE DEF h
        <5> QED
          BY <5>1, <5>2, <5>3
      <4>2. CASE i # m + 1
        <5>1. i \in 0 .. m
          BY <3>1, <4>2
        <5>2. g[i] = Step(g, i)
          BY <3>2, <5>1
        <5>3. h[i] = g[i]
          BY <4>2
        <5>4. i # 0 => h[i - 1] = g[i - 1]
          BY <3>1, <5>1
        <5> HIDE DEF h
        <5> QED
          BY <5>2, <5>3, <5>4
      <4> QED
        BY <4>1, <4>2
    <3>4. h = [i \in 0 .. m + 1 |-> h[i]]
      OBVIOUS
    <3> HIDE DEF h, Step
    <3>5. IsRec(h, m + 1)
      BY <3>3, <3>4
    <3> QED
      BY <3>1, <3>5
  <2> HIDE DEF G
  <2>3. 0 .. n \subseteq G
    BY <1>1, <2>1, <2>2, UpTo
  <2> QED
    BY <2>3 DEF G
<1> DEFINE f == CHOOSE g : IsRec(g, n)
<1>3. Dispatched(n) = f[n]
  BY DEF Dispatched
<1>4. IsRec(f, n)
  <2>1. \E g : IsRec(g, n)
    BY <1>1, <1>2
  <2> HIDE DEF IsRec
  <2> QED
    BY <2>1
<1> HIDE DEF f
<1>5. ASSUME NEW i \in 0 .. n
      PROVE  f[i] = Step(f, i)
  <2> DEFINE g == [j \in 0 .. n |-> Step(f, j)]
  <2>1. f = g
    BY <1>4
  <2>2. g[i] = Step(f, i)
    OBVIOUS
  <2> HIDE DEF g, Step
  <2> QED
    BY <2>1, <2>2
<1> DEFINE G == {m \in 0 .. n : Follows(f[m], wire, m, ms, gone)}
<1>6. 0 \in G
  <2>1. f[0] = seen
    BY <1>1, <1>5
  <2> QED
    BY <1>1, <2>1
<1>7. ASSUME NEW m \in 0 .. n, m # n, m \in G
      PROVE  m + 1 \in G
  <2>1. m \in Nat /\ m + 1 \in 0 .. n /\ m + 1 # 0 /\ (m + 1) - 1 = m /\ m + 1 \in DOMAIN wire
    BY <1>1, <1>7
  <2>2. f[m + 1] = Dispatch(f[m], wire[m + 1])
    BY <1>5, <2>1
  <2>3. Follows(f[m], wire, m, ms, gone)
    BY <1>7
  <2>4. Follows(Dispatch(f[m], wire[m + 1]), wire, m + 1, ms, gone)
    BY <2>1, <2>3, TakenOneMore
  <2> QED
    BY <2>1, <2>2, <2>4
<1> HIDE DEF G
<1>8. 0 .. n \subseteq G
  BY <1>1, <1>6, <1>7, UpTo
<1> QED
  BY <1>1, <1>3, <1>8 DEF G

-----------------------------------------------------------------------------
(* The queue to the applet                                                 *)

\* A newer offer follows the rest.
LEMMA OrderAppended ==
  ASSUME NEW S, NEW q \in Seq(S), NEW given, Ordered(q, given), NEW x,
         Carries(x) => \A g \in given \cup Carried(q) : g < x.offer
  PROVE  /\ Ordered(Append(q, x), given)
         /\ Carries(x) => Carried(Append(q, x)) = Carried(q) \cup {x.offer}
         /\ ~Carries(x) => Carried(Append(q, x)) = Carried(q)
<1> DEFINE r == Append(q, x)
<1>1. /\ Len(q) \in Nat /\ DOMAIN q = 1 .. Len(q) /\ DOMAIN r = 1 .. Len(q) + 1
      /\ \A i \in 1 .. Len(q) : r[i] = q[i]
      /\ r[Len(q) + 1] = x
  OBVIOUS
<1>2. \A i \in DOMAIN r : i \in DOMAIN q \/ i = Len(q) + 1
  BY <1>1
<1> HIDE DEF r
<1>3. \A i \in DOMAIN q : i \in DOMAIN r /\ r[i] = q[i] /\ i < Len(q) + 1
  BY <1>1
<1>4. Ordered(r, given)
  <2> SUFFICES ASSUME NEW i \in DOMAIN r, Carries(r[i])
               PROVE  /\ \A j \in DOMAIN r : i < j /\ Carries(r[j]) => r[i].offer < r[j].offer
                      /\ \A o \in given : o < r[i].offer
    BY DEF Ordered
  <2>1. CASE i \in DOMAIN q
    <3>1. /\ Carries(q[i]) /\ r[i] = q[i] /\ q[i].offer \in Carried(q)
          /\ \A o \in given : o < q[i].offer
          /\ \A j \in DOMAIN q : i < j /\ Carries(q[j]) => q[i].offer < q[j].offer
      BY <1>3, <2>1 DEF Ordered, Carried
    <3>2. Carries(x) => q[i].offer < x.offer
      BY <3>1
    <3> QED
      BY <1>1, <1>2, <1>3, <3>1, <3>2
  <2>2. CASE i = Len(q) + 1
    <3>1. \A j \in DOMAIN r : ~(i < j)
      BY <1>1, <2>2
    <3> QED
      BY <1>1, <2>2, <3>1
  <2> QED
    BY <1>2, <2>1, <2>2
<1>5. /\ Carries(x) => Carried(r) = Carried(q) \cup {x.offer}
      /\ ~Carries(x) => Carried(r) = Carried(q)
  <2> DEFINE A == {j \in DOMAIN q : Carries(q[j])}
             B == {j \in DOMAIN r : Carries(r[j])}
  <2>1. Carries(x) => B = A \cup {Len(q) + 1}
    BY <1>1, <1>2, <1>3
  <2>2. ~Carries(x) => B = A
    BY <1>1, <1>2, <1>3
  <2>3. \A j \in A : r[j] = q[j]
    BY <1>3
  <2>4. Carried(q) = {q[j].offer : j \in A} /\ Carried(r) = {r[j].offer : j \in B}
    BY DEF Carried
  <2> HIDE DEF A, B
  <2> QED
    BY <1>1, <2>1, <2>2, <2>3, <2>4
<1> QED
  BY <1>4, <1>5 DEF r

\* The queue of a state.
LEMMA QueueIs ==
  ASSUME TypeOK
  PROVE  /\ Sent \in Seq(Results) /\ Queue \in Seq(Messages \cup Results)
         /\ Len(stream) \in Nat /\ Len(channel) \in Nat
         /\ Len(Sent) = Len(channel) + (IF thread = "sending" THEN 1 ELSE 0)
         /\ Len(Queue) = Len(stream) + Len(Sent)
         /\ \A i \in 1 .. Len(channel) : Sent[i] = channel[i]
         /\ thread = "sending" => Sent[Len(channel) + 1] = out
         /\ \A i \in 1 .. Len(stream) : Queue[i] = stream[i]
         /\ \A i \in 1 .. Len(Sent) : Queue[Len(stream) + i] = Sent[i]
<1>1. channel \in Seq(Results) /\ stream \in Seq(Messages) /\ (thread = "sending" => out \in Results)
  BY DEF TypeOK
<1>2. /\ Sent \in Seq(Results)
      /\ Len(Sent) = Len(channel) + (IF thread = "sending" THEN 1 ELSE 0)
      /\ \A i \in 1 .. Len(channel) : Sent[i] = channel[i]
      /\ thread = "sending" => Sent[Len(channel) + 1] = out
  <2>1. CASE thread = "sending"
    BY <1>1, <2>1 DEF Sent
  <2>2. CASE thread # "sending"
    BY <1>1, <2>2 DEF Sent
  <2> QED
    BY <2>1, <2>2
<1>3. stream \in Seq(Messages \cup Results) /\ Sent \in Seq(Messages \cup Results)
  BY <1>1, <1>2
<1> QED
  BY <1>1, <1>2, <1>3 DEF Queue

\* What is given or on its way was offered.
LEMMA GoneOffered ==
  ASSUME TypeOK
  PROVE  /\ Len(mimes) \in Nat /\ Offers = 1 .. Len(mimes)
         /\ Given(fate) \subseteq Offers /\ Carried(Queue) \subseteq Offers
         /\ Gone \subseteq Offers /\ Gone \in SUBSET Nat
<1>1. Len(mimes) \in Nat /\ Offers = 1 .. Len(mimes)
  BY DEF TypeOK, Offers
<1>2. Given(fate) \subseteq Offers
  BY DEF TypeOK, Given
<1>3. \A x \in Messages \cup Results : Carries(x) => x.offer \in Offers
  BY DEF Messages, Results, Carries
<1>4. \A i \in DOMAIN Queue : Queue[i] \in Messages \cup Results
  BY QueueIs
<1>5. Carried(Queue) \subseteq Offers
  BY <1>3, <1>4 DEF Carried
<1> QED
  BY <1>1, <1>2, <1>5 DEF Gone

\* Primed, the description is that of the next state.
LEMMA DescriptionPrimed ==
  ASSUME primary' = primary, WireOK(wire', Len(mimes')),
         thread' # "dropped" => Follows(seen', wire', 0, mimes', Gone'),
         thread' = "dropped" =>
           StateOK(seen', Len(mimes')) /\ Ahead(seen', wire', 0) /\ Fresh(seen', wire', 0, Gone')
  PROVE  WatcherInv'
<1>1. Fresh(seen', wire', 0, Gone') => Fresh(seen, wire, 0, Gone)'
  BY DEF Fresh, Current
<1>2. StateOK(seen', Len(mimes')) => StateOK(seen, Len(mimes))'
  BY DEF StateOK
<1>3. Ahead(seen', wire', 0) => Ahead(seen, wire, 0)'
  BY DEF Ahead
<1>4. Few(seen', wire', 0) => Few(seen, wire, 0)'
  BY DEF Few
<1>5. Whole(seen', wire', 0, mimes') => Whole(seen, wire, 0, mimes)'
  BY DEF Whole, Rest
<1>6. WireOK(wire', Len(mimes')) => WireOK(wire, Len(mimes))'
  BY DEF WireOK
<1>7. Follows(seen', wire', 0, mimes', Gone') => Follows(seen, wire, 0, mimes, Gone)'
  BY <1>1, <1>2, <1>3, <1>4, <1>5 DEF Follows
<1> QED
  BY <1>1, <1>2, <1>3, <1>6, <1>7 DEF WatcherInv

LEMMA OrderedPrimed == Ordered(Queue', Given(fate')) => Ordered(Queue, Given(fate))'
  BY DEF Ordered, Given, Carries

LEMMA GonePrimed == Gone' = Given(fate') \cup Carried(Queue')
  BY DEF Gone, Given, Carried, Carries

\* The state of a watcher that has just connected.
LEMMA ConnectedFollows ==
  ASSUME NEW ms \in Seq(Contents), NEW c \in [clipboard : DOMAIN ms \cup {None}, primary : DOMAIN ms \cup {None}],
         NEW gone, \A g \in gone : \A o \in {c.clipboard, c.primary} \ {None} : g < o /\ g # o
  PROVE  WireOK(<< >>, Len(ms)) /\ Follows(Connected(c, ms), << >>, 0, ms, gone)
<1> DEFINE st == Connected(c, ms)
           D == {c.clipboard, c.primary} \ {None}
<1>1. /\ DOMAIN st = StateFields /\ st.offers = [o \in D |-> ms[o]]
      /\ st.offer = c.clipboard /\ st.primary_offer = c.primary
  BY DEF Connected, StateFields
<1>2. DOMAIN ms = 1 .. Len(ms) /\ D \subseteq 1 .. Len(ms)
  OBVIOUS
<1>3. \A o \in D : ms[o] \in SUBSET Mimes
  BY <1>2 DEF Mimes
<1> HIDE DEF st
<1>4. /\ DOMAIN st.offers = D /\ \A o \in D : st.offers[o] = ms[o]
      /\ st.offers \in [DOMAIN st.offers -> SUBSET Mimes]
  BY <1>1, <1>3
<1>5. StateOK(st, Len(ms))
  BY <1>1, <1>2, <1>4 DEF StateOK
<1>6. \A o : Rest(<< >>, 0, o) = {}
  BY DEF Rest
<1>7. Whole(st, << >>, 0, ms)
  BY <1>4, <1>6 DEF Whole
<1>8. Fresh(st, << >>, 0, gone)
  <2>1. \A i : i \notin DOMAIN << >>
    OBVIOUS
  <2>2. \A g \in gone : g \notin D /\ \A o \in D : g < o
    OBVIOUS
  <2> HIDE DEF D
  <2> QED
    BY <1>4, <2>1, <2>2 DEF Fresh
<1>9. Few(st, << >>, 0) /\ Ahead(st, << >>, 0)
  BY <1>1, <1>4 DEF Few, Ahead
<1>10. WireOK(<< >>, Len(ms))
  BY DEF WireOK
<1> QED
  BY <1>5, <1>7, <1>8, <1>9, <1>10 DEF Follows, st

LEMMA WInvInit == Init => WInv
<1> SUFFICES ASSUME Init
             PROVE  WInv
  OBVIOUS
<1>1. mimes \in Seq(Contents) /\ Len(mimes) \in 0 .. 1 /\ DOMAIN mimes = 1 .. Len(mimes)
  <2>1. \A ms \in Contents :
          << ms >> \in Seq(Contents) /\ Len(<< ms >>) = 1 /\ DOMAIN << ms >> = 1 .. 1
    OBVIOUS
  <2>2. << >> \in Seq(Contents) /\ Len(<< >>) = 0 /\ DOMAIN << >> = 1 .. 0
    OBVIOUS
  <2>3. mimes = << >> \/ \E ms \in Contents : mimes = << ms >>
    BY DEF Init
  <2>4. CASE mimes = << >>
    BY <2>2, <2>4
  <2>5. CASE \E ms \in Contents : mimes = << ms >>
    <3>1. PICK ms \in Contents : mimes = << ms >>
      BY <2>5
    <3>2. mimes \in Seq(Contents) /\ Len(mimes) = 1
      BY <3>1
    <3> QED
      BY <3>2
  <2> QED
    BY <2>3, <2>4, <2>5
<1>2. clip \in [clipboard : DOMAIN mimes \cup {None}, primary : DOMAIN mimes \cup {None}]
  <2>1. CASE mimes = << >>
    BY <2>1 DEF Init
  <2>2. CASE mimes # << >>
    <3>1. Len(mimes) = 1
      BY <2>2 DEF Init
    <3> QED
      BY <1>1, <2>2, <3>1 DEF Init
  <2> QED
    BY <2>1, <2>2
<1>3. WireOK(<< >>, Len(mimes)) /\ Follows(Connected(clip, mimes), << >>, 0, mimes, {})
  BY <1>1, <1>2, ConnectedFollows
<1>4. Queue = << >> /\ Sent = << >>
  BY DEF Init, Queue, Sent
<1>5. Given(fate) = {} /\ Carried(Queue) = {}
  BY <1>4 DEF Init, Given, Carried
<1>6. WatcherInv
  BY <1>3, <1>5 DEF Init, WatcherInv, Gone
<1>7. TypeOK
  <2>1. Len(mimes) <= MaxOffers
    BY <1>1, WatcherAssumption
  <2>2. DOMAIN seen.offers \subseteq Offers /\ {seen.offer, seen.primary_offer} \subseteq Offers \cup {None}
    BY <1>1, <1>3 DEF Init, Follows, StateOK, Offers
  <2>3. fate \in [Offers -> {"new", "given", "lost"}]
    BY DEF Init
  <2>4. /\ channel \in Seq(Results) /\ Len(channel) <= MaxChannel
        /\ stream \in Seq(Messages) /\ Len(stream) <= MaxStream
    BY WatcherAssumption DEF Init
  <2> QED
    BY <1>1, <1>2, <2>1, <2>2, <2>3, <2>4 DEF Init, TypeOK, Offers
<1>8. Ordered(Queue, Given(fate)) /\ AsksForWhole
  BY <1>4 DEF Ordered, AsksForWhole
<1> QED
  BY <1>6, <1>7, <1>8 DEF WInv, Init

-----------------------------------------------------------------------------
(* The compositor and the configuration                                    *)

\* New offers leave what is on its way as it was.
LEMMA OffersGrow ==
  ASSUME WInv, Queue' = Queue, Sent' = Sent, UNCHANGED << channel, stream >>,
         mimes' \in Seq(Contents), Len(mimes') >= Len(mimes),
         \A o \in 1 .. Len(mimes) : mimes'[o] = mimes[o],
         fate' \in [1 .. Len(mimes') -> {"new", "given", "lost"}],
         \A o \in 1 .. Len(mimes) : fate'[o] = fate[o],
         \A o \in 1 .. Len(mimes') : o > Len(mimes) => fate'[o] = "new"
  PROVE  /\ Offers' = 1 .. Len(mimes') /\ Offers \subseteq Offers' /\ Gone' = Gone
         /\ Ordered(Queue, Given(fate))' /\ AsksForWhole'
         /\ \A x \in Results : x \in Results'
         /\ channel' \in Seq(Results') /\ stream' \in Seq(Messages')
<1>1. Len(mimes) \in Nat /\ Len(mimes') \in Nat /\ Offers = 1 .. Len(mimes)
  BY GoneOffered DEF WInv
<1>2. Offers' = 1 .. Len(mimes') /\ Offers \subseteq Offers'
  BY <1>1 DEF Offers
<1>3. Given(fate') = Given(fate)
  <2>1. DOMAIN fate = 1 .. Len(mimes) /\ DOMAIN fate' = 1 .. Len(mimes')
    BY <1>1 DEF WInv, TypeOK
  <2>2. \A o \in 1 .. Len(mimes') : o \in 1 .. Len(mimes) \/ fate'[o] = "new"
    BY <1>1
  <2> QED
    BY <1>1, <1>2, <2>1, <2>2 DEF Given
<1>4. Gone' = Gone
  BY <1>3, GonePrimed DEF Gone
<1>5. Ordered(Queue, Given(fate))'
  BY <1>3, OrderedPrimed DEF WInv
<1>6. \A x \in Results : x \in Results' /\ (x.type = "Some" => x.offer \in Offers)
  BY <1>2 DEF Results
<1>7. \A x \in Messages : x \in Messages'
  BY <1>2 DEF Messages
<1>8. channel' \in Seq(Results') /\ stream' \in Seq(Messages')
  BY <1>6, <1>7 DEF WInv, TypeOK
<1>9. AsksForWhole'
  <2> SUFFICES ASSUME NEW i \in DOMAIN Sent, Sent[i].type = "Some"
               PROVE  Sent[i].mimes = mimes'[Sent[i].offer] \ Skipped
    BY DEF AsksForWhole
  <2>1. Sent[i] \in Results
    BY QueueIs DEF WInv
  <2>2. Sent[i].offer \in 1 .. Len(mimes)
    BY <1>1, <1>6, <2>1
  <2> QED
    BY <2>2 DEF WInv, AsksForWhole
<1> QED
  BY <1>2, <1>4, <1>5, <1>6, <1>8, <1>9

LEMMA KindsAre == Kinds \subseteq Kind
  BY DEF Kinds, Kind

LEMMA SelectKeeps ==
  ASSUME WInv, NEW kind \in Kinds, NEW ms \in Contents, Select(kind, ms)
  PROVE  WInv'
<1> DEFINE n == Len(mimes)
           v == wire \o Announcement(kind, n + 1, ms)
<1>1. /\ n \in Nat /\ Offers = 1 .. n /\ Gone \in SUBSET (1 .. n)
      /\ kind \in Kind /\ WireOK(wire, n) /\ mimes \in Seq(Contents) /\ n + 1 <= MaxOffers
      /\ DOMAIN mimes = 1 .. n
  BY GoneOffered, KindsAre DEF WInv, WatcherInv, Select, TypeOK
<1>2. /\ wire' = v /\ mimes' = Append(mimes, ms) /\ fate' = Append(fate, "new")
      /\ clip' = [clip EXCEPT ![kind] = n + 1]
      /\ UNCHANGED << primary, seen, thread, out, channel, stream, conf, tally >>
  BY DEF Select, watcher
<1>3. /\ WireOK(v, n + 1)
      /\ DOMAIN wire \subseteq DOMAIN v /\ \A i \in DOMAIN wire : v[i] = wire[i]
      /\ \A i \in DOMAIN v \ DOMAIN wire : v[i].id = n + 1
      /\ {v[i].mime_type : i \in {j \in DOMAIN v : v[j].type = "Offer" /\ v[j].id = n + 1}} = ms
  <2>1. Announces(wire, v, n, ms)
    BY <1>1, WireGrows
  <2> QED
    BY <2>1 DEF Announces
<1>4. /\ mimes' \in Seq(Contents) /\ Len(mimes') = n + 1 /\ mimes'[n + 1] = ms
      /\ \A o \in 1 .. n : mimes'[o] = mimes[o]
  BY <1>1, <1>2
<1>5. /\ fate' \in [1 .. n + 1 -> {"new", "given", "lost"}]
      /\ \A o \in 1 .. n : fate'[o] = fate[o]
      /\ fate'[n + 1] = "new"
  <2> DEFINE Fates == {"new", "given", "lost"}
  <2>1. fate \in [1 .. n -> Fates] /\ "new" \in Fates
    BY <1>1 DEF WInv, TypeOK
  <2> HIDE DEF Fates, n
  <2>2. fate \in Seq(Fates) /\ Len(fate) = n
    BY <1>1, <2>1
  <2>3. /\ Append(fate, "new") \in Seq(Fates) /\ Len(Append(fate, "new")) = n + 1
        /\ \A o \in 1 .. n : Append(fate, "new")[o] = fate[o]
        /\ Append(fate, "new")[n + 1] = "new"
    BY <1>1, <2>1, <2>2
  <2>4. fate' \in Seq(Fates) /\ Len(fate') = n + 1
    BY <1>2, <2>3
  <2>5. fate' \in [1 .. n + 1 -> Fates]
    BY <1>1, <2>4
  <2> QED
    BY <1>2, <2>3, <2>5 DEF Fates
<1>6. Queue' = Queue /\ Sent' = Sent
  BY <1>2 DEF Queue, Sent
<1>7. /\ Offers' = 1 .. n + 1 /\ Offers \subseteq Offers' /\ Gone' = Gone
      /\ Ordered(Queue, Given(fate))' /\ AsksForWhole'
      /\ \A x \in Results : x \in Results'
      /\ channel' \in Seq(Results') /\ stream' \in Seq(Messages')
  <2>1. n + 1 >= n /\ \A o \in 1 .. n + 1 : o > n => o = n + 1
    BY <1>1
  <2> QED
    BY <1>2, <1>4, <1>5, <1>6, <2>1, OffersGrow
<1> HIDE DEF v
<1>8. StateOK(seen, n)
  BY DEF WInv, WatcherInv, Follows
<1>9. /\ StateOK(seen, n + 1)
      /\ Ahead(seen, wire, 0) => Ahead(seen, v, 0)
      /\ Fresh(seen, wire, 0, Gone) => Fresh(seen, v, 0, Gone)
      /\ Few(seen, wire, 0) => Few(seen, v, 0)
      /\ Whole(seen, wire, 0, mimes) => Whole(seen, v, 0, mimes')
  BY <1>1, <1>3, <1>4, <1>8, DescriptionGrows
<1>10. WatcherInv'
  <2>1. thread # "dropped" => Follows(seen, v, 0, mimes', Gone)
    BY <1>4, <1>9 DEF WInv, WatcherInv, Follows
  <2>2. thread = "dropped" => Ahead(seen, v, 0) /\ Fresh(seen, v, 0, Gone)
    BY <1>9 DEF WInv, WatcherInv
  <2>3. WireOK(wire', Len(mimes')) /\ StateOK(seen', Len(mimes'))
    BY <1>2, <1>3, <1>4, <1>9
  <2> QED
    BY <1>2, <1>7, <2>1, <2>2, <2>3, DescriptionPrimed
<1>11. TypeOK'
  <2>1. clip' \in [clipboard : Offers' \cup {None}, primary : Offers' \cup {None}]
    BY <1>1, <1>2, <1>7 DEF WInv, TypeOK, Kind
  <2> QED
    BY <1>2, <1>4, <1>5, <1>7, <1>1, <2>1 DEF WInv, TypeOK
<1> QED
  BY <1>2, <1>7, <1>10, <1>11 DEF WInv

LEMMA OtherKeeps ==
  ASSUME WInv, NEW e \in [type : Kind \cup {"Global"}, id : {None}], Other(e),
         clip' \in [clipboard : Offers \cup {None}, primary : Offers \cup {None}]
  PROVE  WInv'
<1> DEFINE n == Len(mimes)
           v == Append(wire, e)
<1>1. /\ n \in Nat /\ Offers = 1 .. n /\ Gone \in SUBSET (1 .. n) /\ WireOK(wire, n)
  BY GoneOffered DEF WInv, WatcherInv
<1>2. wire' = v /\ UNCHANGED << primary, mimes, seen, thread, out, channel, stream, conf, fate >>
  BY DEF Other, watcher
<1>3. /\ WireOK(v, n) /\ DOMAIN wire \subseteq DOMAIN v /\ \A i \in DOMAIN wire : v[i] = wire[i]
      /\ \A i \in DOMAIN v \ DOMAIN wire : v[i] = e
  BY <1>1, WireGrowsByOther
<1>4. WireOK(v, n + 1) /\ \A i \in DOMAIN v : v[i].id # n + 1
  <2>1. v \in Seq(EventUpTo(n)) /\ \A i \in DOMAIN v : v[i].id \in 1 .. n \cup {None}
    BY <1>1, <1>3, WireEvents
  <2>2. v \in Seq(EventUpTo(n + 1))
    BY <1>1, <2>1, EventsWiden
  <2> QED
    BY <1>1, <1>3, <2>1, <2>2, WatcherAssumption DEF WireOK
<1> HIDE DEF v
<1>5. Queue' = Queue /\ Sent' = Sent /\ Gone' = Gone /\ Offers' = Offers
  BY <1>2 DEF Queue, Sent, Gone, Given, Carried, Carries, Offers
<1>6. StateOK(seen, n)
  BY DEF WInv, WatcherInv, Follows
<1>7. /\ Ahead(seen, wire, 0) => Ahead(seen, v, 0)
      /\ Fresh(seen, wire, 0, Gone) => Fresh(seen, v, 0, Gone)
      /\ Few(seen, wire, 0) => Few(seen, v, 0)
      /\ Whole(seen, wire, 0, mimes) => Whole(seen, v, 0, mimes)
  <2>1. \A i \in DOMAIN v \ DOMAIN wire : v[i].id = None /\ v[i].type \in Kind \cup {"Global"}
    BY <1>3
  <2> QED
    BY <1>1, <1>3, <1>4, <1>6, <2>1, DescriptionGrows
<1>8. WatcherInv'
  <2>1. thread # "dropped" => Follows(seen, v, 0, mimes, Gone)
    BY <1>7 DEF WInv, WatcherInv, Follows
  <2>2. thread = "dropped" => Ahead(seen, v, 0) /\ Fresh(seen, v, 0, Gone)
    BY <1>7 DEF WInv, WatcherInv
  <2> QED
    BY <1>2, <1>3, <1>5, <1>6, <2>1, <2>2, DescriptionPrimed
<1>9. TypeOK'
  BY <1>2, <1>5 DEF WInv, TypeOK, Results, Messages
<1>10. Ordered(Queue, Given(fate))' /\ AsksForWhole'
  BY <1>2, <1>5, OrderedPrimed DEF WInv, AsksForWhole
<1> QED
  BY <1>2, <1>8, <1>9, <1>10 DEF WInv

LEMMA UnselectKeeps ==
  ASSUME WInv, NEW kind \in Kinds, Unselect(kind)
  PROVE  WInv'
<1>1. Event(kind, None) \in [type : Kind \cup {"Global"}, id : {None}]
  BY KindsAre DEF Event
<1>2. clip' \in [clipboard : Offers \cup {None}, primary : Offers \cup {None}]
  BY KindsAre DEF Unselect, WInv, TypeOK, Kind
<1> QED
  BY <1>1, <1>2, OtherKeeps DEF Unselect

LEMMA HotplugKeeps == WInv /\ Hotplug => WInv'
<1> SUFFICES ASSUME WInv, Hotplug
             PROVE  WInv'
  OBVIOUS
<1>1. Event("Global", None) \in [type : Kind \cup {"Global"}, id : {None}]
  BY DEF Event
<1>2. clip' \in [clipboard : Offers \cup {None}, primary : Offers \cup {None}]
  BY DEF Hotplug, WInv, TypeOK
<1> QED
  BY <1>1, <1>2, OtherKeeps DEF Hotplug

\* The configuration alone changes.
LEMMA ConfKeeps ==
  ASSUME WInv, UNCHANGED << primary, compositor, watcher, channel, stream, fate >>,
         conf' \in [private : BOOLEAN, enabled : BOOLEAN]
  PROVE  WInv'
<1>1. UNCHANGED << primary, clip, mimes, wire, seen, thread, out, channel, stream, fate >>
  BY DEF compositor, watcher
<1>2. Queue' = Queue /\ Sent' = Sent /\ Gone' = Gone /\ Offers' = Offers
  BY <1>1 DEF Queue, Sent, Gone, Given, Carried, Carries, Offers
<1>3. WatcherInv'
  BY <1>1, <1>2, DescriptionPrimed DEF WInv, WatcherInv
<1>4. TypeOK'
  BY <1>1, <1>2 DEF WInv, TypeOK, Results, Messages
<1>5. Ordered(Queue, Given(fate))' /\ AsksForWhole'
  BY <1>1, <1>2, OrderedPrimed DEF WInv, AsksForWhole
<1> QED
  BY <1>1, <1>3, <1>4, <1>5 DEF WInv

-----------------------------------------------------------------------------
(* The watcher thread                                                      *)

LEMMA ConcatAppend ==
  ASSUME NEW S, NEW s \in Seq(S), NEW t \in Seq(S), NEW x \in S
  PROVE  s \o (t \o << x >>) = Append(s \o t, x)
<1> DEFINE l == s \o (t \o << x >>)
           r == Append(s \o t, x)
<1>1. t \o << x >> \in Seq(S) /\ Len(t \o << x >>) = Len(t) + 1
  OBVIOUS
<1>2. l \in Seq(S) /\ Len(l) = Len(s) + Len(t) + 1 /\ r \in Seq(S) /\ Len(r) = Len(s) + Len(t) + 1
  BY <1>1
<1>3. \A i \in 1 .. Len(s) + Len(t) + 1 : l[i] = r[i]
  BY <1>1
<1> HIDE DEF l, r
<1> QED
  BY <1>2, <1>3 DEF l, r

\* The thread blocks with a result: it goes to the end of the queue.
LEMMA BlocksKeeps ==
  ASSUME WInv, thread = "watching", NEW res \in Results, thread' = "sending", out' = res,
         UNCHANGED << primary, clip, mimes, channel, stream, conf, fate >>,
         NEW gone, Gone \subseteq gone, res.type = "Some" => res.offer \in gone,
         WireOK(wire', Len(mimes)), Follows(seen', wire', 0, mimes, gone),
         res.type = "Some" => /\ \A g \in Gone : g < res.offer
                              /\ res.mimes = mimes[res.offer] \ Skipped
  PROVE  WInv'
<1>1. res.type # "Data" /\ (Carries(res) <=> res.type = "Some")
  BY DEF Results, Carries
<1>2. /\ channel \in Seq(Messages \cup Results) /\ stream \in Seq(Messages \cup Results)
      /\ channel \in Seq(Results) /\ res \in Messages \cup Results
  BY DEF WInv, TypeOK
<1>3. /\ Sent = channel /\ Queue = stream \o channel
      /\ Sent' = channel \o << res >> /\ Queue' = stream \o (channel \o << res >>)
  BY <1>2 DEF Queue, Sent
<1>4. Queue' = Append(Queue, res)
  BY <1>2, <1>3, ConcatAppend
<1>5. Queue \in Seq(Messages \cup Results)
  BY QueueIs DEF WInv
<1>6. Given(fate') = Given(fate)
  OBVIOUS
<1>7. /\ Ordered(Append(Queue, res), Given(fate))
      /\ Carries(res) => Carried(Append(Queue, res)) = Carried(Queue) \cup {res.offer}
      /\ ~Carries(res) => Carried(Append(Queue, res)) = Carried(Queue)
  <2>1. Carries(res) => \A g \in Given(fate) \cup Carried(Queue) : g < res.offer
    BY <1>1 DEF Gone
  <2>2. Ordered(Queue, Given(fate))
    BY DEF WInv
  <2> HIDE DEF Results, Messages
  <2> QED
    BY <1>5, <2>1, <2>2, OrderAppended
<1>8. Gone' \subseteq gone
  BY <1>1, <1>4, <1>6, <1>7, GonePrimed DEF Gone
<1>9. Follows(seen', wire', 0, mimes', Gone')
  <2>1. Fresh(seen', wire', 0, gone) => Fresh(seen', wire', 0, Gone')
    BY <1>8 DEF Fresh
  <2> QED
    BY <2>1 DEF Follows
<1>10. WatcherInv'
  BY <1>9, DescriptionPrimed
<1>11. Offers' = Offers /\ Results' = Results /\ Messages' = Messages
  BY DEF Offers, Results, Messages
<1>12. DOMAIN seen'.offers \subseteq Offers /\ {seen'.offer, seen'.primary_offer} \subseteq Offers \cup {None}
  <2>1. Offers = 1 .. Len(mimes)
    BY GoneOffered DEF WInv
  <2> QED
    BY <2>1 DEF Follows, StateOK
<1>13. TypeOK'
  BY <1>11, <1>12 DEF WInv, TypeOK
<1>14. Ordered(Queue, Given(fate))'
  BY <1>4, <1>6, <1>7, OrderedPrimed
<1>15. AsksForWhole'
  <2> SUFFICES ASSUME NEW i \in DOMAIN Sent', Sent'[i].type = "Some"
               PROVE  Sent'[i].mimes = mimes[Sent'[i].offer] \ Skipped
    BY DEF AsksForWhole
  <2>1. /\ i \in 1 .. Len(channel) => i \in DOMAIN Sent /\ Sent'[i] = Sent[i]
        /\ i \notin 1 .. Len(channel) => Sent'[i] = res
    BY <1>2, <1>3
  <2> QED
    BY <2>1 DEF WInv, AsksForWhole
<1> QED
  BY <1>10, <1>13, <1>14, <1>15 DEF WInv

LEMMA WatchFailsKeeps == WInv /\ WatchFails => WInv'
<1> SUFFICES ASSUME WInv, WatchFails
             PROVE  WInv'
  OBVIOUS
<1> DEFINE res == [type |-> "Err"]
<1>1. /\ thread = "watching" /\ thread' = "sending" /\ out' = res /\ seen' = seen
      /\ UNCHANGED << primary, clip, mimes, wire, channel, stream, conf, fate >>
  BY DEF WatchFails, Blocks, compositor
<1>2. res \in Results /\ res.type # "Some"
  BY DEF Results
<1>3. WireOK(wire', Len(mimes)) /\ Follows(seen', wire', 0, mimes, Gone)
  BY <1>1 DEF WInv, WatcherInv
<1> HIDE DEF res
<1> QED
  BY <1>1, <1>2, <1>3, BlocksKeeps

\* The state after the offer has been forgotten that is read.
LEMMA ReceivedFollows ==
  ASSUME NEW n \in Nat, NEW st, NEW w, WireOK(w, n), NEW ms, Len(ms) = n,
         NEW gone \in SUBSET Nat, Follows(st, w, 0, ms, gone), Current(st) \in DOMAIN st.offers,
         NEW rest, rest = [st EXCEPT !.offers = [p \in DOMAIN @ \ {Current(st)} |-> @[p]]]
  PROVE  /\ Follows(rest, w, 0, ms, gone \cup {Current(st)})
         /\ \A g \in gone : g < Current(st)
         /\ st.offers[Current(st)] = ms[Current(st)]
         /\ Current(st) \in 1 .. n
<1> DEFINE o == Current(st)
           f == [p \in DOMAIN st.offers \ {o} |-> st.offers[p]]
<1>1. StateOK(st, n) /\ Ahead(st, w, 0) /\ Fresh(st, w, 0, gone) /\ Few(st, w, 0) /\ Whole(st, w, 0, ms)
  BY DEF Follows
<1>2. rest = [st EXCEPT !.offers = f]
  BY <1>1 DEF StateOK, StateFields
<1>3. DOMAIN f = DOMAIN st.offers \ {o} /\ \A p \in DOMAIN f : f[p] = st.offers[p]
  OBVIOUS
<1>4. f \in [DOMAIN f -> SUBSET Mimes]
  BY <1>1 DEF StateOK
<1> HIDE DEF f
<1>5. /\ DOMAIN rest = StateFields /\ rest.offers = f
      /\ rest.offer = st.offer /\ rest.primary_offer = st.primary_offer
  BY <1>1, <1>2 DEF StateOK, StateFields
<1>6. o \in 1 .. n /\ o # None /\ o \in {st.offer, st.primary_offer}
  BY <1>1, WatcherAssumption DEF StateOK, Current
<1>7. StateOK(rest, n)
  BY <1>1, <1>3, <1>4, <1>5 DEF StateOK
<1>8. Ahead(rest, w, 0)
  BY <1>1, <1>5 DEF Ahead
<1>9. Fresh(rest, w, 0, gone \cup {o})
  <2>1. Current(rest) = o
    BY <1>5 DEF Current
  <2>2. \A i \in DOMAIN w : i > 0 /\ w[i].id # None => o < w[i].id
    BY <1>1, <1>6 DEF Ahead
  <2> QED
    BY <1>1, <1>3, <1>5, <2>1, <2>2 DEF Fresh
<1>10. Few(rest, w, 0)
  BY <1>1, <1>3, <1>5 DEF Few
<1>11. Whole(rest, w, 0, ms)
  BY <1>1, <1>3, <1>5 DEF Whole
<1>12. Rest(w, 0, o) = {}
  <2>1. \A i \in DOMAIN w : i > 0 /\ w[i].id = o => FALSE
    BY <1>1, <1>6 DEF Ahead
  <2> QED
    BY <2>1 DEF Rest
<1>13. st.offers[o] = ms[o]
  BY <1>1, <1>12 DEF Whole
<1>14. \A g \in gone : g < o
  BY <1>1 DEF Fresh
<1> QED
  BY <1>6, <1>7, <1>8, <1>9, <1>10, <1>11, <1>13, <1>14 DEF Follows

\* The description holds of fewer offers that are gone.
LEMMA LessGone ==
  ASSUME WInv, UNCHANGED << primary, mimes, seen, wire >>, Gone' \subseteq Gone,
         thread' = "dropped" <=> thread = "dropped"
  PROVE  WatcherInv'
<1>1. Fresh(seen, wire, 0, Gone) => Fresh(seen', wire', 0, Gone')
  BY DEF Fresh
<1>2. WatcherInv
  BY DEF WInv
<1>3. thread' # "dropped" => Follows(seen', wire', 0, mimes', Gone')
  BY <1>1, <1>2 DEF WatcherInv, Follows
<1>4. thread' = "dropped" =>
        StateOK(seen', Len(mimes')) /\ Ahead(seen', wire', 0) /\ Fresh(seen', wire', 0, Gone')
  BY <1>1, <1>2 DEF WatcherInv
<1>5. WireOK(wire', Len(mimes'))
  BY <1>2 DEF WatcherInv
<1> QED
  BY <1>3, <1>4, <1>5, DescriptionPrimed

\* An offer that is dropped is not given.
LEMMA LostNotGiven ==
  ASSUME NEW o, fate' = [fate EXCEPT ![o] = "lost"]
  PROVE  Given(fate') \subseteq Given(fate)
<1>1. DOMAIN fate' = DOMAIN fate /\ \A p \in DOMAIN fate : p # o => fate'[p] = fate[p]
  OBVIOUS
<1>2. o \in DOMAIN fate => fate'[o] # "given"
  OBVIOUS
<1> QED
  BY <1>1, <1>2 DEF Given

LEMMA StartWatchingKeeps == WInv /\ StartWatching => WInv'
<1> SUFFICES ASSUME WInv, StartWatching
             PROVE  WInv'
  OBVIOUS
<1> DEFINE N == Len(mimes)
<1>1. /\ N \in Nat /\ Offers = 1 .. N /\ Gone \in SUBSET Nat /\ Gone \subseteq Offers
      /\ thread = "watching" /\ WireOK(wire, N) /\ Follows(seen, wire, 0, mimes, Gone)
      /\ UNCHANGED << primary, clip, mimes, channel, stream, conf, tally >>
  BY GoneOffered DEF WInv, WatcherInv, StartWatching
<1>2. PICK n \in 1 .. Len(wire) :
        LET st == Dispatched(n)
        IN  /\ wire' = SubSeq(wire, n + 1, Len(wire))
            /\ \/ /\ primary /\ ~st.got_primary_selection
                  /\ Blocks(st, [type |-> "Err"])
                  /\ UNCHANGED fate
               \/ /\ primary => st.got_primary_selection
                  /\ Current(st) \in DOMAIN st.offers
                  /\ Receive(st)
               \/ /\ primary => st.got_primary_selection
                  /\ Current(st) \notin DOMAIN st.offers
                  /\ Blocks(st, [type |-> "None"])
                  /\ UNCHANGED fate
  BY DEF StartWatching
<1> DEFINE st == Dispatched(n)
           o == Current(st)
<1>3. n \in 0 .. Len(wire)
  BY <1>1, WireEvents
<1>4. Follows(st, wire, n, mimes, Gone)
  BY <1>1, <1>3, DispatchedFollows
<1>5. WireOK(wire', N)
  BY <1>1, <1>2, <1>3, WireCut
<1> HIDE DEF st
<1>6. Follows(st, wire', 0, mimes, Gone)
  <2>1. /\ Ahead(st, wire, n) => Ahead(st, wire', 0)
        /\ Fresh(st, wire, n, Gone) => Fresh(st, wire', 0, Gone)
        /\ Few(st, wire, n) => Few(st, wire', 0)
        /\ Whole(st, wire, n, mimes) => Whole(st, wire', 0, mimes)
    BY <1>1, <1>2, <1>3, DescriptionCut
  <2> QED
    BY <1>4, <2>1 DEF Follows
<1>7. ASSUME NEW res \in Results, res.type # "Some", Blocks(st, res), UNCHANGED fate
      PROVE  WInv'
  <2>1. seen' = st /\ thread' = "sending" /\ out' = res
    BY <1>7 DEF Blocks
  <2> QED
    BY <1>1, <1>5, <1>6, <1>7, <2>1, BlocksKeeps
<1>8. CASE Current(st) \in DOMAIN st.offers /\ Receive(st)
  <2> DEFINE rest == [st EXCEPT !.offers = [p \in DOMAIN @ \ {o} |-> @[p]]]
             res == [type |-> "Some", offer |-> o, mimes |-> st.offers[o] \ Skipped]
  <2>1. /\ Follows(rest, wire', 0, mimes, Gone \cup {o})
        /\ \A g \in Gone : g < o
        /\ st.offers[o] = mimes[o]
        /\ o \in 1 .. N
    BY <1>1, <1>5, <1>6, <1>8, ReceivedFollows
  <2>2. \/ Hidden /\ Watches(rest) /\ fate' = [fate EXCEPT ![o] = "lost"]
        \/ Blocks(rest, res) /\ UNCHANGED fate
    BY <1>8 DEF Receive
  <2> HIDE DEF rest
  <2>3. CASE Watches(rest) /\ fate' = [fate EXCEPT ![o] = "lost"]
    <3>1. seen' = rest /\ thread' = "watching" /\ out' = None
      BY <2>3 DEF Watches
    <3>2. Queue' = Queue /\ Sent' = Sent
      BY <1>1, <3>1 DEF Queue, Sent
    <3>3. Given(fate') \subseteq Given(fate)
      BY <2>3, LostNotGiven
    <3>4. Gone' \subseteq Gone
      BY <3>2, <3>3, GonePrimed DEF Gone
    <3>5. Follows(seen', wire', 0, mimes', Gone')
      <4>1. Fresh(rest, wire', 0, Gone \cup {o}) => Fresh(rest, wire', 0, Gone')
        BY <3>4 DEF Fresh
      <4> QED
        BY <1>1, <2>1, <3>1, <4>1 DEF Follows
    <3>6. WatcherInv'
      BY <1>1, <1>5, <3>1, <3>5, DescriptionPrimed
    <3>7. DOMAIN rest.offers \subseteq Offers /\ {rest.offer, rest.primary_offer} \subseteq Offers \cup {None}
      BY <1>1, <2>1 DEF Follows, StateOK
    <3>8. fate' \in [Offers -> {"new", "given", "lost"}]
      BY <2>3 DEF WInv, TypeOK
    <3>9. TypeOK'
      BY <1>1, <3>1, <3>7, <3>8 DEF WInv, TypeOK, Offers, Results, Messages
    <3>10. Ordered(Queue, Given(fate))'
      <4>1. Ordered(Queue, Given(fate)) => Ordered(Queue', Given(fate'))
        BY <3>2, <3>3 DEF Ordered
      <4> QED
        BY <4>1, OrderedPrimed DEF WInv
    <3>11. AsksForWhole'
      BY <1>1, <3>2 DEF WInv, AsksForWhole
    <3> QED
      BY <1>1, <3>1, <3>6, <3>9, <3>10, <3>11 DEF WInv
  <2>4. CASE Blocks(rest, res) /\ UNCHANGED fate
    <3>1. seen' = rest /\ thread' = "sending" /\ out' = res
      BY <2>4 DEF Blocks
    <3>2. st.offers[o] \subseteq Mimes
      BY <1>6, <1>8 DEF Follows, StateOK
    <3>3. res \in Results
      BY <1>1, <2>1, <3>2 DEF Results
    <3>4. res.offer = o /\ res.mimes = mimes[res.offer] \ Skipped
      BY <2>1
    <3> HIDE DEF res
    <3> DEFINE gone == Gone \cup {o}
    <3>5. Gone \subseteq gone /\ o \in gone
      OBVIOUS
    <3>6. Follows(seen', wire', 0, mimes, gone)
      BY <2>1, <3>1
    <3> HIDE DEF gone
    <3> QED
      BY <1>1, <1>5, <2>1, <2>4, <3>1, <3>3, <3>4, <3>5, <3>6, BlocksKeeps
  <2> QED
    BY <2>2, <2>3, <2>4
<1>9. [type |-> "Err"] \in Results /\ [type |-> "None"] \in Results
  BY DEF Results
<1> QED
  BY <1>2, <1>7, <1>8, <1>9 DEF st

LEMMA SendKeeps == WInv /\ Send => WInv'
<1> SUFFICES ASSUME WInv, Send
             PROVE  WInv'
  OBVIOUS
<1>1. /\ thread = "sending" /\ Len(channel) < MaxChannel /\ channel' = Append(channel, out)
      /\ thread' \in {"ended", "watching"} /\ out' = None
      /\ UNCHANGED << primary, clip, mimes, wire, seen, stream, conf, fate >>
  BY DEF Send, compositor
<1>2. out \in Results /\ channel \in Seq(Results)
  BY <1>1 DEF WInv, TypeOK
<1>3. Sent' = Sent /\ Queue' = Queue
  <2>1. channel \o << out >> = Append(channel, out) /\ Append(channel, out) \o << >> = Append(channel, out)
    BY <1>2
  <2> QED
    BY <1>1, <2>1 DEF Sent, Queue
<1>4. Given(fate') = Given(fate) /\ Gone' = Gone
  BY <1>1, <1>3, GonePrimed DEF Gone
<1>5. WatcherInv'
  BY <1>1, <1>4, LessGone
<1>6. channel' \in Seq(Results) /\ Len(channel') <= MaxChannel
  BY <1>1, <1>2, WatcherAssumption
<1>7. TypeOK'
  BY <1>1, <1>6 DEF WInv, TypeOK, Offers, Results, Messages
<1>8. Ordered(Queue, Given(fate))' /\ AsksForWhole'
  BY <1>1, <1>3, <1>4, OrderedPrimed DEF WInv, AsksForWhole
<1> QED
  BY <1>1, <1>5, <1>7, <1>8 DEF WInv

-----------------------------------------------------------------------------
(* The applet                                                              *)

\* The queue when something of what is sent is taken from it.
LEMMA ThinnedKeeps ==
  ASSUME WInv, UNCHANGED << primary, clip, mimes, wire, seen, thread, out, conf >>,
         channel' \in Seq(Results), Len(channel') <= MaxChannel, channel = << >> => channel' = << >>,
         stream' \in Seq(Messages), Len(stream') <= MaxStream,
         fate' \in [Offers -> {"new", "given", "lost"}],
         \A i \in DOMAIN Sent' : \E j \in DOMAIN Sent : Sent'[i] = Sent[j],
         NEW at \in [DOMAIN Queue' -> DOMAIN Queue],
         \A i, j \in DOMAIN Queue' : i < j => at[i] < at[j],
         \A i \in DOMAIN Queue' : Carries(Queue'[i]) =>
           Carries(Queue[at[i]]) /\ Queue'[i].offer = Queue[at[i]].offer,
         \A g \in Given(fate') : g \notin Given(fate) =>
           \E d \in DOMAIN Queue : /\ Carries(Queue[d]) /\ g = Queue[d].offer
                                   /\ \A i \in DOMAIN Queue' : d < at[i]
  PROVE  WInv'
<1> DEFINE q == Queue
           r == Queue'
           given == Given(fate)
           given2 == Given(fate')
<1>1. Ordered(q, given)
  BY DEF WInv
<1> HIDE DEF q, r, given, given2
<1>2. Ordered(r, given2) /\ given2 \cup Carried(r) \subseteq given \cup Carried(q)
  <2>1. at \in [DOMAIN r -> DOMAIN q] /\ \A i, j \in DOMAIN r : i < j => at[i] < at[j]
    BY DEF q, r
  <2>2. \A i \in DOMAIN r : Carries(r[i]) => Carries(q[at[i]]) /\ r[i].offer = q[at[i]].offer
    BY DEF q, r
  <2>3. \A g \in given2 : g \notin given =>
           \E d \in DOMAIN q : /\ Carries(q[d]) /\ g = q[d].offer
                               /\ \A i \in DOMAIN r : d < at[i]
    BY DEF q, r, given, given2
  <2>4. ASSUME NEW i \in DOMAIN r, Carries(r[i])
        PROVE  /\ \A j \in DOMAIN r : i < j /\ Carries(r[j]) => r[i].offer < r[j].offer
               /\ \A o \in given2 : o < r[i].offer
               /\ r[i].offer \in Carried(q)
    <3>1. at[i] \in DOMAIN q /\ Carries(q[at[i]]) /\ r[i].offer = q[at[i]].offer
      BY <2>1, <2>2, <2>4
    <3>2. ASSUME NEW j \in DOMAIN r, i < j, Carries(r[j])
          PROVE  r[i].offer < r[j].offer
      <4>1. at[j] \in DOMAIN q /\ Carries(q[at[j]]) /\ r[j].offer = q[at[j]].offer /\ at[i] < at[j]
        BY <2>1, <2>2, <3>2
      <4> QED
        BY <1>1, <3>1, <4>1 DEF Ordered
    <3>3. ASSUME NEW o \in given2
          PROVE  o < r[i].offer
      <4>1. CASE o \in given
        BY <1>1, <3>1, <4>1 DEF Ordered
      <4>2. CASE o \notin given
        BY <1>1, <2>3, <3>1, <3>3, <4>2 DEF Ordered
      <4> QED
        BY <4>1, <4>2
    <3> QED
      BY <3>1, <3>2, <3>3 DEF Carried
  <2>5. \A g \in given2 : g \in given \cup Carried(q)
    BY <2>3 DEF Carried
  <2>6. \A g \in Carried(r) : g \in Carried(q)
    BY <2>4 DEF Carried
  <2> QED
    BY <2>4, <2>5, <2>6 DEF Ordered
<1>3. Gone' \subseteq Gone
  BY <1>2, GonePrimed DEF Gone, q, r, given, given2
<1>4. WatcherInv'
  BY <1>3, LessGone
<1>5. Ordered(Queue, Given(fate))'
  BY <1>2, OrderedPrimed DEF r, given2
<1>6. TypeOK'
  BY DEF WInv, TypeOK, Offers, Results, Messages
<1>7. AsksForWhole'
  <2> SUFFICES ASSUME NEW i \in DOMAIN Sent', Sent'[i].type = "Some"
               PROVE  Sent'[i].mimes = mimes[Sent'[i].offer] \ Skipped
    BY DEF AsksForWhole
  <2>1. PICK j \in DOMAIN Sent : Sent'[i] = Sent[j]
    OBVIOUS
  <2> QED
    BY <2>1 DEF WInv, AsksForWhole
<1> QED
  BY <1>4, <1>5, <1>6, <1>7 DEF WInv

\* The sequences the queue is joined of.
LEMMA JoinIs ==
  ASSUME NEW S, NEW s \in Seq(S), NEW c \in Seq(S), NEW o \in Seq(S)
  PROVE  /\ c \o o \in Seq(S) /\ s \o (c \o o) \in Seq(S)
         /\ Len(s) \in Nat /\ Len(c) \in Nat /\ Len(o) \in Nat
         /\ DOMAIN (c \o o) = 1 .. Len(c) + Len(o)
         /\ DOMAIN (s \o (c \o o)) = 1 .. Len(s) + Len(c) + Len(o)
         /\ \A i \in 1 .. Len(c) : (c \o o)[i] = c[i]
         /\ \A i \in 1 .. Len(o) : (c \o o)[Len(c) + i] = o[i]
         /\ \A i \in 1 .. Len(s) : (s \o (c \o o))[i] = s[i]
         /\ \A i \in 1 .. Len(c) + Len(o) : (s \o (c \o o))[Len(s) + i] = (c \o o)[i]
<1>1. /\ c \o o \in Seq(S) /\ Len(c \o o) = Len(c) + Len(o)
      /\ \A i \in 1 .. Len(c) : (c \o o)[i] = c[i]
      /\ \A i \in 1 .. Len(o) : (c \o o)[Len(c) + i] = o[i]
      /\ Len(s) \in Nat /\ Len(c) \in Nat /\ Len(o) \in Nat
  OBVIOUS
<1> DEFINE t == c \o o
<1> HIDE DEF t
<1>2. /\ t \in Seq(S) => /\ s \o t \in Seq(S) /\ Len(s \o t) = Len(s) + Len(t)
                         /\ \A i \in 1 .. Len(s) : (s \o t)[i] = s[i]
                         /\ \A i \in 1 .. Len(t) : (s \o t)[Len(s) + i] = t[i]
  OBVIOUS
<1>3. t \in Seq(S) /\ Len(t) = Len(c) + Len(o)
  BY <1>1 DEF t
<1>4. Len(s) + (Len(c) + Len(o)) = Len(s) + Len(c) + Len(o)
  BY <1>1
<1>5. DOMAIN t = 1 .. Len(c) + Len(o) /\ DOMAIN (s \o t) = 1 .. Len(s) + Len(c) + Len(o)
  BY <1>2, <1>3, <1>4
<1> QED
  BY <1>1, <1>2, <1>3, <1>5 DEF t

\* The first of the channel and what is left of it.
LEMMA TailIs ==
  ASSUME NEW S, NEW s \in Seq(S), s # << >>
  PROVE  /\ Head(s) = s[1] /\ Head(s) \in S /\ Tail(s) \in Seq(S)
         /\ Len(s) \in Nat /\ Len(s) >= 1 /\ Len(Tail(s)) = Len(s) - 1
         /\ \A i \in 1 .. Len(s) - 1 : Tail(s)[i] = s[i + 1]
  OBVIOUS

LEMMA RecvLoopKeeps == WInv /\ RecvLoop => WInv'
<1> SUFFICES ASSUME WInv, RecvLoop
             PROVE  WInv'
  OBVIOUS
<1> DEFINE S == Messages \cup Results
           O == IF thread = "sending" THEN << out >> ELSE << >>
           h == Head(channel)
           t == Tail(channel)
           a == Len(stream)
           m == Len(channel) - 1
           b == Len(O)
<1>1. /\ channel # << >> /\ channel' = t /\ a < MaxStream
      /\ UNCHANGED << primary, clip, mimes, wire, seen, thread, out, conf >>
      /\ \/ h.type = "Some" /\ \E got \in SUBSET h.mimes : ReadPipes(h, got)
         \/ /\ h.type # "Some"
            /\ stream' = Append(stream, [type |-> IF h.type = "None" THEN "EmptyKeyboard"
                                                  ELSE "Error"])
            /\ UNCHANGED fate
  BY DEF RecvLoop, compositor, watcher
<1>2. /\ channel \in Seq(Results) /\ stream \in Seq(Messages) /\ O \in Seq(Results)
      /\ Len(channel) <= MaxChannel /\ fate \in [Offers -> {"new", "given", "lost"}]
  BY DEF WInv, TypeOK
<1>3. Sent = channel \o O /\ Queue = stream \o Sent /\ Sent' = t \o O /\ Queue' = stream' \o Sent'
  BY <1>1 DEF Sent, Queue
<1> HIDE DEF O
<1>4. /\ h = channel[1] /\ h \in Results /\ t \in Seq(Results) /\ Len(channel) >= 1
      /\ Len(t) = m /\ m \in Nat /\ Len(channel) = m + 1
      /\ \A i \in 1 .. m : t[i] = channel[i + 1]
  BY <1>1, <1>2, TailIs
<1>5. \A s : s \in Seq(Messages) \/ s \in Seq(Results) => s \in Seq(S)
  OBVIOUS
<1> HIDE DEF S, h, t, m
<1>6. /\ DOMAIN Sent = 1 .. m + 1 + b /\ DOMAIN Queue = 1 .. a + (m + 1) + b
      /\ a \in Nat /\ b \in Nat
      /\ \A i \in 1 .. m + 1 : Sent[i] = channel[i]
      /\ \A i \in 1 .. b : Sent[m + 1 + i] = O[i]
      /\ \A i \in 1 .. a : Queue[i] = stream[i]
      /\ \A i \in 1 .. m + 1 + b : Queue[a + i] = Sent[i]
  <2>1. stream \in Seq(S) /\ channel \in Seq(S) /\ O \in Seq(S)
    BY <1>2, <1>5
  <2>2. /\ a \in Nat /\ b \in Nat
        /\ DOMAIN (channel \o O) = 1 .. Len(channel) + b
        /\ DOMAIN (stream \o (channel \o O)) = 1 .. a + Len(channel) + b
        /\ \A i \in 1 .. Len(channel) : (channel \o O)[i] = channel[i]
        /\ \A i \in 1 .. b : (channel \o O)[Len(channel) + i] = O[i]
        /\ \A i \in 1 .. a : (stream \o (channel \o O))[i] = stream[i]
        /\ \A i \in 1 .. Len(channel) + b :
             (stream \o (channel \o O))[a + i] = (channel \o O)[i]
    BY <2>1, JoinIs
  <2> QED
    BY <1>3, <1>4, <2>2
<1>7. /\ DOMAIN Sent' = 1 .. m + b
      /\ \A i \in 1 .. m : Sent'[i] = t[i]
      /\ \A i \in 1 .. b : Sent'[m + i] = O[i]
      /\ \A s \in Seq(Messages) : /\ DOMAIN (s \o Sent') = 1 .. Len(s) + m + b
                                  /\ \A i \in 1 .. Len(s) : (s \o Sent')[i] = s[i]
                                  /\ \A i \in 1 .. m + b : (s \o Sent')[Len(s) + i] = Sent'[i]
  <2> SUFFICES ASSUME NEW s \in Seq(Messages)
               PROVE  /\ DOMAIN Sent' = 1 .. m + b
                      /\ \A i \in 1 .. m : Sent'[i] = t[i]
                      /\ \A i \in 1 .. b : Sent'[m + i] = O[i]
                      /\ DOMAIN (s \o Sent') = 1 .. Len(s) + m + b
                      /\ \A i \in 1 .. Len(s) : (s \o Sent')[i] = s[i]
                      /\ \A i \in 1 .. m + b : (s \o Sent')[Len(s) + i] = Sent'[i]
    BY <1>2
  <2>1. s \in Seq(S) /\ t \in Seq(S) /\ O \in Seq(S)
    BY <1>2, <1>4, <1>5
  <2>2. /\ DOMAIN (t \o O) = 1 .. Len(t) + b
        /\ DOMAIN (s \o (t \o O)) = 1 .. Len(s) + Len(t) + b
        /\ \A i \in 1 .. Len(t) : (t \o O)[i] = t[i]
        /\ \A i \in 1 .. b : (t \o O)[Len(t) + i] = O[i]
        /\ \A i \in 1 .. Len(s) : (s \o (t \o O))[i] = s[i]
        /\ \A i \in 1 .. Len(t) + b : (s \o (t \o O))[Len(s) + i] = (t \o O)[i]
    BY <2>1, JoinIs
  <2> QED
    BY <1>3, <1>4, <2>2
<1>8. \A i \in 1 .. m + b : Sent'[i] = Sent[i + 1] /\ i + 1 \in 1 .. m + 1 + b
  <2> SUFFICES ASSUME NEW i \in 1 .. m + b
               PROVE  Sent'[i] = Sent[i + 1] /\ i + 1 \in 1 .. m + 1 + b
    OBVIOUS
  <2>1. CASE i \in 1 .. m
    BY <1>4, <1>6, <1>7, <2>1
  <2>2. CASE i \notin 1 .. m
    <3>1. i - m \in 1 .. b /\ m + (i - m) = i /\ (m + 1) + (i - m) = i + 1
      BY <1>4, <1>6, <2>2
    <3>2. Sent'[m + (i - m)] = O[i - m] /\ Sent[(m + 1) + (i - m)] = O[i - m]
      BY <1>6, <1>7, <3>1
    <3> QED
      BY <1>4, <1>6, <3>1, <3>2
  <2> QED
    BY <2>1, <2>2
<1>9. \A i \in DOMAIN Sent' : \E j \in DOMAIN Sent : Sent'[i] = Sent[j]
  BY <1>6, <1>7, <1>8
<1>10. Queue[a + 1] = h /\ a + 1 \in DOMAIN Queue
  BY <1>4, <1>6
<1>11. /\ channel' \in Seq(Results) /\ Len(channel') <= MaxChannel
  BY <1>1, <1>2, <1>4, WatcherAssumption
<1>12. ASSUME h.type = "Some", stream' = stream, fate' = [fate EXCEPT ![h.offer] = "lost"]
       PROVE  WInv'
  <2> DEFINE at == [i \in DOMAIN Queue' |-> IF i <= a THEN i ELSE i + 1]
  <2>1. /\ DOMAIN Queue' = 1 .. a + m + b
        /\ \A i \in 1 .. a : Queue'[i] = stream[i]
        /\ \A i \in 1 .. m + b : Queue'[a + i] = Sent'[i]
    BY <1>2, <1>3, <1>7, <1>12
  <2>2. at \in [DOMAIN Queue' -> DOMAIN Queue]
    BY <1>4, <1>6, <2>1
  <2>3. \A i, j \in DOMAIN Queue' : i < j => at[i] < at[j]
    BY <1>4, <1>6, <2>1
  <2>4. \A i \in DOMAIN Queue' : Queue'[i] = Queue[at[i]]
    <3> SUFFICES ASSUME NEW i \in DOMAIN Queue'
                 PROVE  Queue'[i] = Queue[at[i]]
      OBVIOUS
    <3>1. CASE i <= a
      BY <1>4, <1>6, <2>1, <3>1
    <3>2. CASE ~(i <= a)
      <4>1. i - a \in 1 .. m + b /\ a + (i - a) = i /\ a + ((i - a) + 1) = i + 1
        BY <1>4, <1>6, <2>1, <3>2
      <4>2. Queue'[a + (i - a)] = Sent'[i - a] /\ Queue[a + ((i - a) + 1)] = Sent[(i - a) + 1]
        BY <1>6, <1>8, <2>1, <4>1
      <4>3. at[i] = i + 1
        BY <3>2
      <4> HIDE DEF at
      <4> QED
        BY <1>8, <4>1, <4>2, <4>3
    <3> QED
      BY <1>6, <2>1, <3>1, <3>2
  <2>5. Given(fate') \subseteq Given(fate)
    BY <1>12, LostNotGiven
  <2>6. stream' \in Seq(Messages) /\ Len(stream') <= MaxStream
    BY <1>1, <1>2, <1>12 DEF WInv, TypeOK
  <2>7. fate' \in [Offers -> {"new", "given", "lost"}]
    BY <1>2, <1>12
  <2> HIDE DEF at
  <2> QED
    BY <1>1, <1>9, <1>11, <2>2, <2>3, <2>4, <2>5, <2>6, <2>7, ThinnedKeeps
<1>13. ASSUME NEW x \in Messages, stream' = Append(stream, x), UNCHANGED fate,
              Carries(x) => Carries(h) /\ x.offer = h.offer
       PROVE  WInv'
  <2> DEFINE at == [i \in DOMAIN Queue' |-> i]
  <2>1. /\ stream' \in Seq(Messages) /\ Len(stream') = a + 1 /\ stream'[a + 1] = x
        /\ \A i \in 1 .. a : stream'[i] = stream[i]
    BY <1>2, <1>13
  <2>2. /\ DOMAIN Queue' = 1 .. (a + 1) + m + b
        /\ \A i \in 1 .. a : Queue'[i] = stream[i]
        /\ Queue'[a + 1] = x
        /\ \A i \in 1 .. m + b : Queue'[(a + 1) + i] = Sent'[i]
    <3> DEFINE r == stream' \o Sent'
    <3>1. /\ DOMAIN r = 1 .. Len(stream') + m + b
          /\ \A i \in 1 .. Len(stream') : r[i] = stream'[i]
          /\ \A i \in 1 .. m + b : r[Len(stream') + i] = Sent'[i]
      BY <1>7, <2>1
    <3>2. Queue' = r
      BY <1>3
    <3> HIDE DEF r
    <3>3. \A i \in 1 .. a : i \in 1 .. a + 1
      BY <1>6
    <3>4. a + 1 \in 1 .. a + 1
      BY <1>6
    <3> QED
      BY <2>1, <3>1, <3>2, <3>3, <3>4
  <2>3. DOMAIN Queue' = DOMAIN Queue
    BY <1>4, <1>6, <2>2
  <2>4. \A i \in DOMAIN Queue' : i # a + 1 => Queue'[i] = Queue[i]
    <3> SUFFICES ASSUME NEW i \in DOMAIN Queue', i # a + 1
                 PROVE  Queue'[i] = Queue[i]
      OBVIOUS
    <3>1. CASE i <= a
      BY <1>4, <1>6, <2>2, <3>1
    <3>2. CASE ~(i <= a)
      <4> DEFINE k == i - (a + 1)
      <4>1. k \in 1 .. m + b /\ (a + 1) + k = i /\ a + (k + 1) = i
        BY <1>4, <1>6, <2>2, <3>2
      <4> HIDE DEF k
      <4>2. Queue'[(a + 1) + k] = Sent'[k] /\ Queue[a + (k + 1)] = Sent[k + 1]
        BY <1>6, <1>8, <2>2, <4>1
      <4> QED
        BY <1>8, <4>1, <4>2
    <3> QED
      BY <1>6, <2>2, <3>1, <3>2
  <2>5. /\ at \in [DOMAIN Queue' -> DOMAIN Queue]
        /\ \A i, j \in DOMAIN Queue' : i < j => at[i] < at[j]
        /\ \A i \in DOMAIN Queue' : at[i] = i
    BY <2>3
  <2>6. \A i \in DOMAIN Queue' : Carries(Queue'[i]) =>
          Carries(Queue[at[i]]) /\ Queue'[i].offer = Queue[at[i]].offer
    BY <1>10, <1>13, <2>2, <2>4, <2>5
  <2>7. Given(fate') = Given(fate) /\ fate' \in [Offers -> {"new", "given", "lost"}]
    BY <1>2, <1>13
  <2>8. Len(stream') <= MaxStream
    BY <1>1, <1>6, <2>1, WatcherAssumption
  <2> HIDE DEF at
  <2> QED
    BY <1>1, <1>9, <1>11, <2>1, <2>5, <2>6, <2>7, <2>8, ThinnedKeeps
<1>14. CASE h.type = "Some"
  <2>1. h.offer \in Offers /\ h.mimes \subseteq Mimes /\ Carries(h)
    BY <1>4, <1>14 DEF Results, Carries
  <2>2. PICK got \in SUBSET h.mimes : ReadPipes(h, got)
    BY <1>1, <1>14
  <2> DEFINE x == [type |-> "Data", offer |-> h.offer, mimes |-> got]
  <2>3. x \in Messages /\ x.offer = h.offer
    BY <2>1, <2>2 DEF Messages
  <2>4. \/ stream' = stream /\ fate' = [fate EXCEPT ![h.offer] = "lost"]
        \/ stream' = Append(stream, x) /\ UNCHANGED fate
    BY <2>2 DEF ReadPipes
  <2> HIDE DEF x
  <2> QED
    BY <1>12, <1>13, <1>14, <2>1, <2>3, <2>4
<1>15. CASE h.type # "Some"
  <2> DEFINE x == [type |-> IF h.type = "None" THEN "EmptyKeyboard" ELSE "Error"]
  <2>1. x \in Messages /\ ~Carries(x)
    BY DEF Messages, Carries
  <2>2. stream' = Append(stream, x) /\ UNCHANGED fate
    BY <1>1, <1>15
  <2> HIDE DEF x
  <2> QED
    BY <1>13, <2>1, <2>2
<1> QED
  BY <1>14, <1>15

LEMMA HandleKeeps == WInv /\ Handle => WInv'
<1> SUFFICES ASSUME WInv, Handle
             PROVE  WInv'
  OBVIOUS
<1> DEFINE h == Head(stream)
           t == Tail(stream)
           a == Len(stream)
           b == Len(Sent)
           at == [i \in DOMAIN Queue' |-> i + 1]
<1>1. /\ stream # << >> /\ stream' = t
      /\ fate' = (IF h.type = "Data" THEN [fate EXCEPT ![h.offer] = "given"] ELSE fate)
      /\ UNCHANGED << primary, clip, mimes, wire, seen, thread, out, channel, conf >>
  BY DEF Handle, compositor, watcher
<1>2. /\ stream \in Seq(Messages) /\ a <= MaxStream /\ channel \in Seq(Results)
      /\ Len(channel) <= MaxChannel /\ fate \in [Offers -> {"new", "given", "lost"}]
  BY DEF WInv, TypeOK
<1>3. Sent' = Sent /\ Queue = stream \o Sent /\ Queue' = t \o Sent
  BY <1>1 DEF Sent, Queue
<1>4. /\ h = stream[1] /\ h \in Messages /\ t \in Seq(Messages)
      /\ a \in Nat /\ a >= 1 /\ Len(t) = a - 1
      /\ \A i \in 1 .. a - 1 : t[i] = stream[i + 1]
  BY <1>1, <1>2, TailIs
<1>5. Sent \in Seq(Results) /\ b \in Nat
  BY QueueIs DEF WInv
<1> HIDE DEF h, t, at
<1>6. /\ DOMAIN Queue = 1 .. a + b
      /\ \A i \in 1 .. a : Queue[i] = stream[i]
      /\ \A i \in 1 .. b : Queue[a + i] = Sent[i]
  BY QueueIs DEF WInv
<1>7. /\ DOMAIN Queue' = 1 .. (a - 1) + b
      /\ \A i \in 1 .. a - 1 : Queue'[i] = t[i]
      /\ \A i \in 1 .. b : Queue'[(a - 1) + i] = Sent[i]
  <2> DEFINE S == Messages \cup Results
  <2>1. t \in Seq(S) /\ Sent \in Seq(S)
    BY <1>4, <1>5
  <2> HIDE DEF S
  <2> QED
    BY <1>3, <1>4, <1>5, <2>1
<1>8. \A i \in DOMAIN Queue' : Queue'[i] = Queue[i + 1] /\ i + 1 \in DOMAIN Queue
  <2> SUFFICES ASSUME NEW i \in DOMAIN Queue'
               PROVE  Queue'[i] = Queue[i + 1] /\ i + 1 \in DOMAIN Queue
    OBVIOUS
  <2>1. CASE i <= a - 1
    BY <1>4, <1>5, <1>6, <1>7, <2>1
  <2>2. CASE ~(i <= a - 1)
    <3> DEFINE k == i - (a - 1)
    <3>1. k \in 1 .. b /\ (a - 1) + k = i /\ a + k = i + 1
      BY <1>4, <1>5, <1>7, <2>2
    <3> HIDE DEF k
    <3> QED
      BY <1>4, <1>5, <1>6, <1>7, <3>1
  <2> QED
    BY <2>1, <2>2
<1>9. /\ at \in [DOMAIN Queue' -> DOMAIN Queue]
      /\ \A i, j \in DOMAIN Queue' : i < j => at[i] < at[j]
      /\ \A i \in DOMAIN Queue' : at[i] = i + 1
  BY <1>4, <1>5, <1>7, <1>8 DEF at
<1>10. Queue[1] = h /\ 1 \in DOMAIN Queue /\ \A i \in DOMAIN Queue' : 1 < at[i]
  BY <1>4, <1>5, <1>6, <1>7, <1>9
<1>11. fate' \in [Offers -> {"new", "given", "lost"}]
  BY <1>1, <1>2
<1>12. \A g \in Given(fate') : g \notin Given(fate) => Carries(h) /\ g = h.offer
  <2>1. CASE h.type = "Data"
    <3>1. \A g \in DOMAIN fate' : g # h.offer => g \in DOMAIN fate /\ fate'[g] = fate[g]
      BY <1>1, <1>2, <2>1
    <3> QED
      BY <2>1, <3>1 DEF Given, Carries
  <2>2. CASE h.type # "Data"
    BY <1>1, <2>2
  <2> QED
    BY <2>1, <2>2
<1>13. \A g \in Given(fate') : g \notin Given(fate) =>
         \E d \in DOMAIN Queue : /\ Carries(Queue[d]) /\ g = Queue[d].offer
                                 /\ \A i \in DOMAIN Queue' : d < at[i]
  BY <1>10, <1>12
<1>14. stream' \in Seq(Messages) /\ Len(stream') <= MaxStream
  BY <1>1, <1>2, <1>4, WatcherAssumption
<1>15. channel' \in Seq(Results) /\ Len(channel') <= MaxChannel /\ (channel = << >> => channel' = << >>)
  BY <1>1, <1>2
<1>16. \A i \in DOMAIN Queue' : Carries(Queue'[i]) =>
         Carries(Queue[at[i]]) /\ Queue'[i].offer = Queue[at[i]].offer
  BY <1>8, <1>9
<1>17. \A i \in DOMAIN Sent' : \E j \in DOMAIN Sent : Sent'[i] = Sent[j]
  BY <1>3
<1> QED
  BY <1>1, <1>9, <1>11, <1>13, <1>14, <1>15, <1>16, <1>17, ThinnedKeeps

-----------------------------------------------------------------------------
(* Connecting                                                              *)

LEMMA UnsubscribeKeeps == WInv /\ Unsubscribe => WInv'
<1> SUFFICES ASSUME WInv, Unsubscribe
             PROVE  WInv'
  OBVIOUS
<1>1. /\ thread' = "dropped" /\ out' = None /\ wire' = << >> /\ channel' = << >>
      /\ stream' \in {<< >>, stream} /\ thread # "dropped"
      /\ UNCHANGED << primary, clip, mimes, seen, conf, fate >>
  BY DEF Unsubscribe
<1>2. stream \in Seq(Messages) /\ Len(stream) <= MaxStream
  BY DEF WInv, TypeOK
<1>3. Sent' = << >> /\ Queue' = stream'
  BY <1>1, <1>2 DEF Sent, Queue
<1>4. Ordered(Queue, Given(fate)) /\ Follows(seen, wire, 0, mimes, Gone)
  BY <1>1 DEF WInv, WatcherInv
<1>5. \A i \in DOMAIN Queue' : i \in DOMAIN Queue /\ Queue'[i] = Queue[i]
  <2>1. /\ Len(stream) \in Nat /\ Len(Queue) = Len(stream) + Len(Sent) /\ Len(Sent) \in Nat
        /\ DOMAIN Queue = 1 .. Len(Queue)
        /\ \A i \in 1 .. Len(stream) : Queue[i] = stream[i]
    BY QueueIs DEF WInv
  <2> QED
    BY <1>1, <1>2, <1>3, <2>1
<1>6. Given(fate') = Given(fate)
  BY <1>1
<1>7. Ordered(Queue, Given(fate))'
  <2>1. Ordered(Queue', Given(fate'))
    BY <1>4, <1>5, <1>6 DEF Ordered
  <2> QED
    BY <2>1, OrderedPrimed
<1>8. Gone' \subseteq Gone
  <2>1. Carried(Queue') \subseteq Carried(Queue)
    BY <1>5 DEF Carried
  <2> QED
    BY <1>6, <2>1, GonePrimed DEF Gone
<1>9. WatcherInv'
  <2>1. Fresh(seen', wire', 0, Gone')
    BY <1>1, <1>4, <1>8 DEF Follows, Fresh
  <2>2. Ahead(seen', wire', 0) /\ WireOK(wire', Len(mimes'))
    BY <1>1 DEF Ahead, WireOK
  <2>3. StateOK(seen', Len(mimes'))
    BY <1>1, <1>4 DEF Follows
  <2> QED
    BY <1>1, <2>1, <2>2, <2>3, DescriptionPrimed
<1>10. TypeOK'
  <2>1. /\ channel' \in Seq(Results) /\ Len(channel') <= MaxChannel
        /\ stream' \in Seq(Messages) /\ Len(stream') <= MaxStream
    <3>1. /\ << >> \in Seq(Results) /\ << >> \in Seq(Messages) /\ Len(<< >>) = 0
          /\ 0 <= MaxChannel /\ 0 <= MaxStream
      BY WatcherAssumption
    <3>2. stream' = << >> \/ stream' = stream
      BY <1>1
    <3> QED
      BY <1>1, <1>2, <3>1, <3>2
  <2> QED
    BY <1>1, <2>1 DEF WInv, TypeOK, Offers, Results, Messages
<1>11. AsksForWhole'
  BY <1>3 DEF AsksForWhole
<1> QED
  BY <1>1, <1>7, <1>9, <1>10, <1>11 DEF WInv

\* A new connection is told of the selections as offers of its own.
LEMMA OfferedIs ==
  ASSUME TypeOK
  PROVE  LET n == Len(mimes)
             k == Len(Offered.mimes)
         IN  /\ Offered.mimes \in Seq(Contents) /\ k \in Nat
             /\ Offered.clip \in [clipboard : n + 1 .. n + k \cup {None},
                                  primary : n + 1 .. n + k \cup {None}]
<1> DEFINE n == Len(mimes)
           R(o) == /\ o.mimes \in Seq(Contents) /\ Len(o.mimes) \in Nat
                   /\ o.clip \in [clipboard : n + 1 .. n + Len(o.mimes) \cup {None},
                                  primary : n + 1 .. n + Len(o.mimes) \cup {None}]
<1>1. /\ n \in Nat /\ Offers = 1 .. n /\ clip \in [clipboard : Offers \cup {None}, primary : Offers \cup {None}]
      /\ \A o \in Offers : mimes[o] \in Contents
  BY GoneOffered DEF TypeOK, Offers
<1> HIDE DEF n
<1>2. CASE clip.clipboard # None /\ clip.primary # None
  <2> DEFINE c == [clipboard |-> n + 1, primary |-> n + 2]
             s == << mimes[clip.clipboard], mimes[clip.primary] >>
  <2>1. Offered = [clip |-> c, mimes |-> s]
    BY <1>2 DEF Offered, n
  <2>2. s \in Seq(Contents) /\ Len(s) = 2
    BY <1>1, <1>2
  <2>3. c \in [clipboard : n + 1 .. n + 2 \cup {None}, primary : n + 1 .. n + 2 \cup {None}]
    BY <1>1
  <2> HIDE DEF c, s
  <2>4. Offered.clip = c /\ Offered.mimes = s
    BY <2>1
  <2>5. Len(Offered.mimes) = 2 /\ Offered.mimes \in Seq(Contents)
    BY <2>2, <2>4
  <2>6. Offered.clip \in [clipboard : n + 1 .. n + Len(Offered.mimes) \cup {None},
                          primary : n + 1 .. n + Len(Offered.mimes) \cup {None}]
    BY ONLY <2>3, <2>4, <2>5
  <2> HIDE DEF n
  <2>7. R(Offered)
    BY <2>5, <2>6
  <2> QED
    BY <2>7 DEF n
<1>3. ASSUME NEW c, NEW x \in Contents, Offered = [clip |-> c, mimes |-> << x >>],
             c \in [clipboard : {n + 1, None}, primary : {n + 1, None}]
      PROVE  R(Offered)
  <2>1. << x >> \in Seq(Contents) /\ Len(<< x >>) = 1 /\ n + 1 \in n + 1 .. n + 1
    BY <1>1
  <2>2. c \in [clipboard : n + 1 .. n + 1 \cup {None}, primary : n + 1 .. n + 1 \cup {None}]
    BY <1>3, <2>1
  <2> QED
    BY <1>3, <2>1, <2>2
<1>4. CASE clip.clipboard # None /\ clip.primary = None
  <2>1. Offered = [clip |-> [clip EXCEPT !.clipboard = n + 1], mimes |-> << mimes[clip.clipboard] >>]
    BY <1>4 DEF Offered, n
  <2>2. [clip EXCEPT !.clipboard = n + 1] \in [clipboard : {n + 1, None}, primary : {n + 1, None}]
    BY <1>1, <1>4
  <2>3. mimes[clip.clipboard] \in Contents
    BY <1>1, <1>4
  <2> QED
    BY <1>3, <2>1, <2>2, <2>3 DEF n
<1>5. CASE clip.clipboard = None /\ clip.primary # None
  <2>1. Offered = [clip |-> [clip EXCEPT !.primary = n + 1], mimes |-> << mimes[clip.primary] >>]
    BY <1>5 DEF Offered, n
  <2>2. [clip EXCEPT !.primary = n + 1] \in [clipboard : {n + 1, None}, primary : {n + 1, None}]
    BY <1>1, <1>5
  <2>3. mimes[clip.primary] \in Contents
    BY <1>1, <1>5
  <2> QED
    BY <1>3, <2>1, <2>2, <2>3 DEF n
<1>6. CASE clip.clipboard = None /\ clip.primary = None
  <2>1. Offered = [clip |-> clip, mimes |-> << >>]
    BY <1>6 DEF Offered
  <2>2. clip \in [clipboard : n + 1 .. n + 0 \cup {None}, primary : n + 1 .. n + 0 \cup {None}]
    BY <1>1, <1>6
  <2>3. << >> \in Seq(Contents) /\ Len(<< >>) = 0
    OBVIOUS
  <2> QED
    BY <2>1, <2>2, <2>3 DEF n
<1> QED
  BY <1>2, <1>4, <1>5, <1>6 DEF n

LEMMA SubscribeKeeps == WInv /\ Subscribe => WInv'
<1> SUFFICES ASSUME WInv, Subscribe
             PROVE  WInv'
  OBVIOUS
<1> DEFINE n == Len(mimes)
           ms == Offered.mimes
           k == Len(ms)
           f == [i \in DOMAIN ms |-> "new"]
           Fates == {"new", "given", "lost"}
<1>1. /\ thread = "dropped" /\ n + k <= MaxOffers /\ clip' = Offered.clip
      /\ mimes' = mimes \o ms /\ fate' = fate \o f /\ wire' = << >>
      /\ seen' = Connected(clip', mimes') /\ thread' = "watching" /\ out' = None
      /\ UNCHANGED << primary, channel, stream, conf >>
  BY DEF Subscribe, Watches
<1>2. /\ n \in Nat /\ Offers = 1 .. n /\ Gone \in SUBSET (1 .. n) /\ mimes \in Seq(Contents)
      /\ fate \in [1 .. n -> Fates]
  BY GoneOffered DEF WInv, TypeOK
<1>3. /\ ms \in Seq(Contents) /\ k \in Nat
      /\ clip' \in [clipboard : n + 1 .. n + k \cup {None}, primary : n + 1 .. n + k \cup {None}]
  BY <1>1, OfferedIs DEF WInv
<1> HIDE DEF ms
<1>4. /\ mimes' \in Seq(Contents) /\ Len(mimes') = n + k
      /\ \A o \in 1 .. n : mimes'[o] = mimes[o]
  BY <1>1, <1>2, <1>3
<1>5. /\ fate' \in [1 .. n + k -> Fates]
      /\ \A o \in 1 .. n : fate'[o] = fate[o]
      /\ \A o \in 1 .. n + k : o > n => fate'[o] = "new"
  <2>1. f \in [1 .. k -> Fates] /\ \A i \in 1 .. k : f[i] = "new"
    BY <1>3
  <2> HIDE DEF f, Fates, n, k
  <2>2. f \in Seq(Fates) /\ Len(f) = k /\ fate \in Seq(Fates) /\ Len(fate) = n
    BY <1>2, <1>3, <2>1
  <2> DEFINE g == fate \o f
  <2>3. /\ g \in Seq(Fates) /\ Len(g) = n + k
        /\ \A o \in 1 .. n : g[o] = fate[o]
        /\ \A o \in 1 .. n + k : o > n => g[o] = f[o - n]
    BY <1>2, <1>3, <2>2
  <2>4. fate' = g
    BY <1>1
  <2> HIDE DEF g
  <2>5. \A o \in 1 .. n + k : o > n => o - n \in 1 .. k
    BY <1>2, <1>3 DEF k
  <2>6. g \in [1 .. n + k -> Fates]
    BY <2>3
  <2> QED
    BY <2>1, <2>3, <2>4, <2>5, <2>6
<1>6. Queue' = Queue /\ Sent' = Sent
  BY <1>1 DEF Queue, Sent
<1> HIDE DEF k, Fates
<1>7. /\ Offers' = 1 .. n + k /\ Offers \subseteq Offers' /\ Gone' = Gone
      /\ Ordered(Queue, Given(fate))' /\ AsksForWhole'
      /\ channel' \in Seq(Results') /\ stream' \in Seq(Messages')
  <2>1. n + k >= n
    BY <1>2, <1>3 DEF k
  <2> QED
    BY <1>1, <1>4, <1>5, <1>6, <2>1, OffersGrow DEF Fates
<1>8. DOMAIN mimes' = 1 .. n + k
  BY <1>4
<1>9. clip' \in [clipboard : DOMAIN mimes' \cup {None}, primary : DOMAIN mimes' \cup {None}]
  <2>1. n + 1 .. n + k \subseteq DOMAIN mimes'
    BY <1>2, <1>3, <1>8 DEF k
  <2> QED
    BY <1>3, <2>1 DEF k
<1>10. \A g \in Gone : \A o \in {clip'.clipboard, clip'.primary} \ {None} : g < o /\ g # o
  <2>1. \A o \in {clip'.clipboard, clip'.primary} \ {None} : o \in n + 1 .. n + k
    BY <1>3 DEF k
  <2>2. \A g \in 1 .. n : \A o \in n + 1 .. n + k : g < o /\ g # o
    BY <1>2, <1>3 DEF k
  <2> QED
    BY <1>2, <2>1, <2>2
<1>11. WireOK(<< >>, Len(mimes')) /\ Follows(seen', << >>, 0, mimes', Gone)
  BY <1>1, <1>4, <1>9, <1>10, ConnectedFollows
<1>12. WatcherInv'
  BY <1>1, <1>7, <1>11, DescriptionPrimed
<1>13. TypeOK'
  <2>1. DOMAIN seen'.offers \subseteq Offers' /\ {seen'.offer, seen'.primary_offer} \subseteq Offers' \cup {None}
    BY <1>4, <1>7, <1>11 DEF Follows, StateOK
  <2>2. clip' \in [clipboard : Offers' \cup {None}, primary : Offers' \cup {None}]
    BY <1>7, <1>8, <1>9
  <2>3. Len(mimes') <= MaxOffers
    BY <1>1, <1>4 DEF k
  <2> QED
    BY <1>1, <1>4, <1>5, <1>7, <2>1, <2>2, <2>3 DEF WInv, TypeOK, Fates
<1> QED
  BY <1>1, <1>7, <1>12, <1>13 DEF WInv

-----------------------------------------------------------------------------
(* The theorems                                                            *)

LEMMA WInvNext == WInv /\ [Next]_vars => WInv'
<1> SUFFICES ASSUME WInv, [Next]_vars
             PROVE  WInv'
  OBVIOUS
<1>1. CASE UNCHANGED vars
  <2>1. UNCHANGED << primary, compositor, watcher, channel, stream, conf, fate >>
    BY <1>1 DEF vars
  <2> QED
    BY <2>1, ConfKeeps DEF WInv, TypeOK
<1>2. CASE \E kind \in Kinds, ms \in Contents : Select(kind, ms)
  BY <1>2, SelectKeeps
<1>3. CASE \E kind \in Kinds : Unselect(kind)
  BY <1>3, UnselectKeeps
<1>4. CASE ToggleBuffer
  BY <1>4, ConfKeeps DEF ToggleBuffer, WInv, TypeOK
<1>5. CASE TogglePrivate
  BY <1>5, ConfKeeps DEF TogglePrivate, WInv, TypeOK
<1> QED
  BY <1>1, <1>2, <1>3, <1>4, <1>5, HotplugKeeps, StartWatchingKeeps, WatchFailsKeeps, SendKeeps,
     RecvLoopKeeps, HandleKeeps, UnsubscribeKeeps, SubscribeKeeps DEF Next

LEMMA WInvHolds == Spec => []WInv
  BY WInvInit, WInvNext, PTL DEF Spec

\* Offers, the watcher's State and what is in the channels have their types, and
\* neither the channel nor the stream is ever over its capacity.
THEOREM TypeOKHolds == Spec => []TypeOK
<1>1. WInv => TypeOK
  BY DEF WInv
<1> QED
  BY <1>1, WInvHolds, PTL

\* A copy reaches the applet at most once and never after a later one, however
\* the announcements are cut into pieces and whatever waits in the channels.
THEOREM InOrderHolds == Spec => []InOrder
<1>1. WInv => InOrder
  <2> SUFFICES ASSUME WInv
               PROVE  InOrder
    OBVIOUS
  <2>1. Ordered(Queue, Given(fate)) /\ Fresh(seen, wire, 0, Gone) /\ DOMAIN fate = Offers
    BY DEF WInv, WatcherInv, Follows, TypeOK
  <2>2. \A i \in DOMAIN Queue : Carries(Queue[i]) => Queue[i].offer \in Gone
    BY DEF Gone, Carried
  <2>3. \A i \in DOMAIN Queue : Carries(Queue[i]) => Queue[i].offer \notin DOMAIN seen.offers
    BY <2>1, <2>2 DEF Fresh
  <2>4. \A o \in Offers : fate[o] = "given" => o \in Given(fate)
    BY <2>1 DEF Given
  <2> QED
    BY <2>1, <2>3, <2>4 DEF InOrder, Ordered
<1> QED
  BY <1>1, WInvHolds, PTL

\* State.offers never grows beyond the selections and the offer being announced.
THEOREM OffersBoundedHolds == Spec => []OffersBounded
<1>1. WInv => OffersBounded
  <2> SUFFICES ASSUME WInv, thread # "dropped", NEW o \in DOMAIN seen.offers
               PROVE  o \in {seen.offer, seen.primary_offer} \cup TakenInPart
    BY DEF OffersBounded
  <2>1. Few(seen, wire, 0) /\ o \in Offers
    BY GoneOffered DEF WInv, WatcherInv, Follows, StateOK
  <2>2. 0 + 1 \in DOMAIN wire => wire # << >> /\ Head(wire) = wire[0 + 1]
    <3>1. wire \in Seq(EventUpTo(Len(mimes)))
      BY DEF WInv, WatcherInv, WireOK
    <3> QED
      BY <3>1
  <2> QED
    BY <2>1, <2>2 DEF Few, TakenInPart
<1> QED
  BY <1>1, WInvHolds, PTL

\* No part of an offer is ever asked for: what is sent is all its MIME types but
\* SKIP_MIME_TYPES, wherever blocking_dispatch cut its announcement.
THEOREM AsksForWholeHolds == Spec => []AsksForWhole
<1>1. WInv => AsksForWhole
  BY DEF WInv
<1> QED
  BY <1>1, WInvHolds, PTL
=============================================================================
