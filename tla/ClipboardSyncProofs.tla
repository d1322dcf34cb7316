------------------------- MODULE ClipboardSyncProofs -------------------------
(***************************************************************************)
(* Proofs about the buffer of selections and about ClipboardSync, for      *)
(* every set of texts, searches and limits.                                *)
(*                                                                         *)
(* The applet uses the buffer through its operations only, so what is      *)
(* proved of SelectionBuffer holds of it; the debounce and the cost of     *)
(* SKIP_NEXT_CLIPBOARD follow from SyncInv, in which an upright flag       *)
(* counts as a copy already lost; what that flag hides, from EchoInv,      *)
(* which says where the echo it stands for is.                             *)
(***************************************************************************)
EXTENDS ClipboardSync, TLAPS

-----------------------------------------------------------------------------
(* The buffer.  Keep cuts a sequence at its end.                           *)

\* What Keep leaves is a prefix.
LEMMA KeepPrefix ==
  ASSUME NEW es \in Seq(Entry), NEW n \in Nat
  PROVE  /\ Keep(es, n) \in Seq(Entry)
         /\ Len(Keep(es, n)) <= n
         /\ DOMAIN Keep(es, n) \subseteq DOMAIN es
         /\ Len(Keep(es, n)) <= Len(es)
         /\ \A i \in DOMAIN Keep(es, n) : Keep(es, n)[i] = es[i]
<1>1. CASE Len(es) > n
  <2>1. Keep(es, n) = SubSeq(es, 1, n)
    BY <1>1 DEF Keep
  <2>2. \A i \in 1 .. n : es[i] \in Entry
    BY <1>1
  <2>. QED
    BY <1>1, <2>1, <2>2
<1>2. CASE ~(Len(es) > n)
  BY <1>2 DEF Keep
<1>. QED
  BY <1>1, <1>2

\* Putting an entry in front moves the others by one position.
LEMMA PushShifts ==
  ASSUME NEW es \in Seq(Entry), NEW e \in Entry
  PROVE  /\ << e >> \o es \in Seq(Entry)
         /\ Len(<< e >> \o es) = Len(es) + 1
         /\ (<< e >> \o es)[1] = e
         /\ \A i \in DOMAIN (<< e >> \o es) : i # 1 => /\ i - 1 \in DOMAIN es
                                                       /\ (<< e >> \o es)[i] = es[i - 1]
  OBVIOUS

\* The entries that a search finds among a prefix are the ones it finds in
\* the whole, cut to the prefix.
LEMMA FoundInPrefix ==
  ASSUME NEW es \in Seq(Entry), NEW n \in Nat, NEW q
  PROVE  Found(es, q) \cap DOMAIN Keep(es, n) = Found(Keep(es, n), q)
  BY KeepPrefix DEF Found

-----------------------------------------------------------------------------
(* Types                                                                   *)

LEMMA BufferTypeStep ==
  BufferTypeOK /\ [BufferNext]_buffer => BufferTypeOK'
<1>. SUFFICES ASSUME BufferTypeOK, [BufferNext]_buffer
              PROVE  BufferTypeOK'
  OBVIOUS
<1>. USE BufferAssumption DEF BufferTypeOK
<1>1. ASSUME NEW text \in Text, Push(text)
      PROVE  BufferTypeOK'
  <2>1. CASE Ignored(text)
    BY <1>1, <2>1 DEF Push, buffer
  <2>2. CASE ~Ignored(text)
    <3>. DEFINE e == [id |-> next_id, text |-> text]
    <3>1. e \in Entry
      BY DEF Entry
    <3>2. << e >> \o entries \in Seq(Entry)
      BY <3>1, PushShifts
    <3>3. entries' = Keep(<< e >> \o entries, max_entries)
      BY <1>1, <2>2 DEF Push
    <3>4. entries' \in Seq(Entry)
      BY <3>2, <3>3, KeepPrefix
    <3>5. Found(entries', query) \subseteq Nat \ {0}
      BY <3>4 DEF Found
    <3>6. /\ next_id' = next_id + 1
          /\ filtered' = filtered \/ filtered' = Found(entries', query)
          /\ max_entries' = max_entries /\ query' = query
      BY <1>1, <2>2 DEF Push
    <3>7. filtered' \subseteq Nat \ {0}
      BY <3>5, <3>6
    <3>. QED
      BY <3>4, <3>6, <3>7
  <2>. QED
    BY <2>1, <2>2
<1>2. ASSUME NEW q \in Searches \cup {None}, SelectionSearch(q)
      PROVE  BufferTypeOK'
  <2>1. Found(entries, q) \subseteq Nat \ {0}
    BY DEF Found
  <2>. QED
    BY <1>2, <2>1 DEF SelectionSearch
<1>3. CASE ClearSelections
  BY <1>3 DEF ClearSelections
<1>4. ASSUME NEW n \in Limits, SetMax(n)
      PROVE  BufferTypeOK'
  <2>1. Keep(entries, n) \in Seq(Entry)
    BY KeepPrefix
  <2>. QED
    BY <1>4, <2>1 DEF SetMax
<1>5. CASE UNCHANGED buffer
  BY <1>5 DEF buffer
<1>. QED
  BY <1>1, <1>2, <1>3, <1>4, <1>5 DEF BufferNext

\* The fields of SelectionBuffer keep their types.
THEOREM BufferTypeOKHolds == BufferSpec => []BufferTypeOK
<1>1. BufferInit => BufferTypeOK
  BY DEF BufferInit, BufferTypeOK
<1>. QED
  BY <1>1, BufferTypeStep, PTL DEF BufferSpec

-----------------------------------------------------------------------------
(* The search                                                              *)

LEMMA ResultsStep ==
  BufferTypeOK /\ ResultsExact /\ [BufferNext]_buffer => ResultsExact'
<1>. SUFFICES ASSUME BufferTypeOK, ResultsExact, [BufferNext]_buffer,
                     query' # None
              PROVE  SearchIter' = Found(entries', query')
  BY DEF ResultsExact
<1>1. ASSUME NEW text \in Text, Push(text)
      PROVE  SearchIter' = Found(entries', query')
  <2>1. CASE Ignored(text)
    BY <1>1, <2>1 DEF Push, buffer, ResultsExact, SearchIter
  <2>2. CASE ~Ignored(text)
    <3>1. filtered' = Found(entries', query')
      BY <1>1, <2>2 DEF Push
    <3>. QED
      BY <3>1 DEF SearchIter, Found
  <2>. QED
    BY <2>1, <2>2
<1>2. ASSUME NEW q \in Searches \cup {None}, SelectionSearch(q)
      PROVE  SearchIter' = Found(entries', query')
  BY <1>2 DEF SelectionSearch, SearchIter, Found
<1>3. CASE ClearSelections
  BY <1>3 DEF ClearSelections
<1>4. ASSUME NEW n \in Limits, SetMax(n)
      PROVE  SearchIter' = Found(entries', query')
  <2>1. n \in Nat /\ entries \in Seq(Entry)
    BY BufferAssumption DEF BufferTypeOK
  <2>2. entries' = Keep(entries, n) /\ filtered' = filtered /\ query' = query
    BY <1>4 DEF SetMax
  <2>3. filtered \cap DOMAIN entries = Found(entries, query)
    BY <2>2 DEF ResultsExact, SearchIter
  <2>4. DOMAIN Keep(entries, n) \subseteq DOMAIN entries
    BY <2>1, KeepPrefix
  <2>5. Found(entries, query) \cap DOMAIN Keep(entries, n) = Found(Keep(entries, n), query)
    BY <2>1, FoundInPrefix
  <2>. QED
    BY <2>2, <2>3, <2>4, <2>5 DEF SearchIter
<1>5. CASE UNCHANGED buffer
  BY <1>5 DEF buffer, ResultsExact, SearchIter
<1>. QED
  BY <1>1, <1>2, <1>3, <1>4, <1>5 DEF BufferNext

\* The cached search result is exact after any sequence of pushes, searches,
\* clears and changes of the limit.
THEOREM ResultsExactHolds == BufferSpec => []ResultsExact
<1>1. BufferInit => ResultsExact
  BY DEF BufferInit, ResultsExact
<1>. QED
  BY <1>1, BufferTypeOKHolds, ResultsStep, PTL DEF BufferSpec

-----------------------------------------------------------------------------
(* The entries                                                             *)

\* What is true of the entries and survives a cut.
Ordered(es) == \A i, j \in DOMAIN es : i < j => es[i].id > es[j].id
Apart(es) == \A i \in 1 .. Len(es) - 1 : es[i].text # es[i + 1].text

LEMMA KeepKeeps ==
  ASSUME NEW es \in Seq(Entry), NEW n \in Nat, Ordered(es), Apart(es),
         NEW b \in Nat, \A i \in DOMAIN es : es[i].id < b
  PROVE  /\ Ordered(Keep(es, n)) /\ Apart(Keep(es, n))
         /\ \A i \in DOMAIN Keep(es, n) : Keep(es, n)[i].id < b
<1>. DEFINE k == Keep(es, n)
<1>1. /\ k \in Seq(Entry)
      /\ DOMAIN k \subseteq DOMAIN es
      /\ \A i \in DOMAIN k : k[i] = es[i]
  BY KeepPrefix
<1>2. Len(k) <= Len(es)
  BY KeepPrefix
<1>3. Ordered(k)
  BY <1>1 DEF Ordered
<1>4. Apart(k)
  <2>. SUFFICES ASSUME NEW i \in 1 .. Len(k) - 1
                PROVE  k[i].text # k[i + 1].text
    BY DEF Apart
  <2>1. i \in DOMAIN k /\ i + 1 \in DOMAIN k /\ i \in 1 .. Len(es) - 1
    BY <1>1, <1>2
  <2>. QED
    BY <1>1, <2>1 DEF Apart
<1>. QED
  BY <1>1, <1>3, <1>4

LEMMA EntriesStep ==
  BufferTypeOK /\ EntriesInv /\ [BufferNext]_buffer => EntriesInv'
<1>. SUFFICES ASSUME BufferTypeOK, EntriesInv, [BufferNext]_buffer
              PROVE  EntriesInv'
  OBVIOUS
<1>. USE BufferAssumption DEF BufferTypeOK, EntriesInv, IdsDescend, NoRepeat, WithinLimit
<1>1. ASSUME NEW text \in Text, Push(text)
      PROVE  EntriesInv'
  <2>1. CASE Ignored(text)
    BY <1>1, <2>1 DEF Push, buffer
  <2>2. CASE ~Ignored(text)
    <3>. DEFINE e == [id |-> next_id, text |-> text]
                es == << e >> \o entries
    <3>1. e \in Entry
      BY DEF Entry
    <3>2. /\ es \in Seq(Entry)
          /\ Len(es) = Len(entries) + 1
          /\ es[1] = e
          /\ \A i \in DOMAIN es : i # 1 => i - 1 \in DOMAIN entries /\ es[i] = entries[i - 1]
      BY <3>1, PushShifts
    <3>3. \A i \in DOMAIN es : es[i].id < next_id + 1
      <4>1. \A i \in DOMAIN entries : entries[i] \in Entry
        OBVIOUS
      <4>2. \A i \in DOMAIN entries : entries[i].id \in Nat
        BY <4>1 DEF Entry
      <4>. QED
        BY <3>2, <4>2
    <3>4. Ordered(es)
      BY <3>2 DEF Ordered
    <3>5. Apart(es)
      <4>. SUFFICES ASSUME NEW i \in 1 .. Len(es) - 1
                    PROVE  es[i].text # es[i + 1].text
        BY DEF Apart
      <4>1. i + 1 \in DOMAIN es /\ es[i + 1] = entries[i]
        BY <3>2
      <4>2. CASE i = 1
        BY <2>2, <3>2, <4>1, <4>2 DEF Ignored
      <4>3. CASE i # 1
        <5>1. es[i] = entries[i - 1] /\ i - 1 \in 1 .. Len(entries) - 1
          BY <3>2, <4>3
        <5>. QED
          BY <4>1, <5>1
      <4>. QED
        BY <4>2, <4>3
    <3>6. /\ entries' = Keep(es, max_entries)
          /\ next_id' = next_id + 1
          /\ max_entries' = max_entries
      BY <1>1, <2>2 DEF Push
    <3>7. /\ Ordered(entries') /\ Apart(entries')
          /\ \A i \in DOMAIN entries' : entries'[i].id < next_id'
      <4>. HIDE DEF es
      <4>1. max_entries \in Nat /\ next_id + 1 \in Nat
        OBVIOUS
      <4>2. /\ Ordered(Keep(es, max_entries)) /\ Apart(Keep(es, max_entries))
            /\ \A i \in DOMAIN Keep(es, max_entries) : Keep(es, max_entries)[i].id < next_id + 1
        BY <3>2, <3>3, <3>4, <3>5, <4>1, KeepKeeps
      <4>. QED
        BY <3>6, <4>2
    <3>8. Len(entries') <= max_entries'
      BY <3>2, <3>6, KeepPrefix
    <3>. QED
      BY <3>7, <3>8 DEF Ordered, Apart
  <2>. QED
    BY <2>1, <2>2
<1>2. ASSUME NEW q \in Searches \cup {None}, SelectionSearch(q)
      PROVE  EntriesInv'
  BY <1>2 DEF SelectionSearch
<1>3. CASE ClearSelections
  BY <1>3 DEF ClearSelections
<1>4. ASSUME NEW n \in Limits, SetMax(n)
      PROVE  EntriesInv'
  <2>1. Ordered(entries) /\ Apart(entries)
    BY DEF Ordered, Apart
  <2>2. entries' = Keep(entries, n) /\ next_id' = next_id /\ max_entries' = n
    BY <1>4 DEF SetMax
  <2>3. /\ Ordered(entries') /\ Apart(entries')
        /\ \A i \in DOMAIN entries' : entries'[i].id < next_id'
    BY <2>1, <2>2, KeepKeeps
  <2>4. Len(entries') <= max_entries'
    BY <2>2, KeepPrefix
  <2>. QED
    BY <2>3, <2>4 DEF Ordered, Apart
<1>5. CASE UNCHANGED buffer
  BY <1>5 DEF buffer
<1>. QED
  BY <1>1, <1>2, <1>3, <1>4, <1>5 DEF BufferNext

\* Whatever the sequence of operations, newer entries have greater ids, no
\* text stands next to itself and the limit holds.
THEOREM EntriesInvHolds == BufferSpec => []EntriesInv
<1>1. BufferInit => EntriesInv
  BY BufferAssumption DEF BufferInit, EntriesInv, IdsDescend, NoRepeat, WithinLimit
<1>. QED
  BY <1>1, BufferTypeOKHolds, EntriesStep, PTL DEF BufferSpec

LEMMA StableStep ==
  BufferTypeOK /\ [BufferNext]_buffer =>
    \/ UNCHANGED buffer
    \/ /\ next_id' >= next_id
       /\ \A i \in DOMAIN entries' :
            entries'[i].id < next_id => \E j \in DOMAIN entries : entries[j] = entries'[i]
<1>. SUFFICES ASSUME BufferTypeOK, BufferNext
              PROVE  /\ next_id' >= next_id
                     /\ \A i \in DOMAIN entries' :
                          entries'[i].id < next_id =>
                            \E j \in DOMAIN entries : entries[j] = entries'[i]
  OBVIOUS
<1>. USE BufferAssumption DEF BufferTypeOK
<1>1. ASSUME NEW text \in Text, Push(text), ~Ignored(text)
      PROVE  /\ next_id' >= next_id
             /\ \A i \in DOMAIN entries' :
                  entries'[i].id < next_id => \E j \in DOMAIN entries : entries[j] = entries'[i]
  <2>. DEFINE e == [id |-> next_id, text |-> text]
              es == << e >> \o entries
  <2>1. e \in Entry
    BY DEF Entry
  <2>2. /\ es \in Seq(Entry)
        /\ es[1] = e
        /\ \A i \in DOMAIN es : i # 1 => i - 1 \in DOMAIN entries /\ es[i] = entries[i - 1]
    BY <2>1, PushShifts
  <2>3. entries' = Keep(es, max_entries) /\ next_id' = next_id + 1
    BY <1>1 DEF Push
  <2>4. \A i \in DOMAIN entries' : i \in DOMAIN es /\ entries'[i] = es[i]
    BY <2>2, <2>3, KeepPrefix
  <2>5. ASSUME NEW i \in DOMAIN entries', entries'[i].id < next_id
        PROVE  \E j \in DOMAIN entries : entries[j] = entries'[i]
    <3>1. i # 1
      BY <2>2, <2>4, <2>5
    <3>2. i - 1 \in DOMAIN entries /\ entries[i - 1] = entries'[i]
      BY <2>2, <2>4, <3>1
    <3>. QED
      BY <3>2
  <2>. QED
    BY <2>3, <2>5
<1>2. ASSUME UNCHANGED << entries, next_id >>
      PROVE  /\ next_id' >= next_id
             /\ \A i \in DOMAIN entries' :
                  entries'[i].id < next_id => \E j \in DOMAIN entries : entries[j] = entries'[i]
  BY <1>2
<1>3. CASE ClearSelections
  BY <1>3 DEF ClearSelections
<1>4. ASSUME NEW n \in Limits, SetMax(n)
      PROVE  /\ next_id' >= next_id
             /\ \A i \in DOMAIN entries' :
                  entries'[i].id < next_id => \E j \in DOMAIN entries : entries[j] = entries'[i]
  <2>1. entries' = Keep(entries, n) /\ next_id' = next_id
    BY <1>4 DEF SetMax
  <2>2. \A i \in DOMAIN Keep(entries, n) :
          i \in DOMAIN entries /\ entries[i] = Keep(entries, n)[i]
    BY KeepPrefix
  <2>3. next_id' >= next_id
    BY <2>1
  <2>. QED
    BY <2>1, <2>2, <2>3
<1>. QED
  BY <1>1, <1>2, <1>3, <1>4 DEF BufferNext, Push, SelectionSearch, buffer

\* An id is given once, for every number of pushes and clears.
THEOREM IdsStableHolds == BufferSpec => IdsStable
  BY BufferTypeOKHolds, StableStep, PTL DEF BufferSpec, IdsStable

\* Entries and search are exact for every text, search and limit.
THEOREM BufferExactHolds == BufferSpec => []BufferExact
  BY ResultsExactHolds, EntriesInvHolds, PTL DEF BufferExact

-----------------------------------------------------------------------------
(* The applet: what its invariant says                                     *)

Fields == {"copies", "toggles", "synced", "lost", "leaked", "raced", "hidden"}

Waiting ==
  /\ seq \in Nat /\ timers \subseteq 1 .. seq
  /\ pending \in Text \cup {None}
  /\ WaitsForLast

Counting ==
  /\ tally = [f \in Fields |-> tally[f]]
  /\ tally.lost \in Nat /\ tally.synced \in Nat
  /\ skip \in BOOLEAN
  /\ tally.lost + (IF skip THEN 1 ELSE 0) <= tally.synced

SyncInv == Waiting /\ Counting

-----------------------------------------------------------------------------
(* The debounce                                                            *)

LEMMA WaitingStep == Waiting /\ [Next]_vars => Waiting'
<1>. SUFFICES ASSUME Waiting, [Next]_vars
              PROVE  Waiting'
  OBVIOUS
<1>. USE BufferAssumption DEF Waiting, WaitsForLast, debounce
<1>1. ASSUME NEW text \in Text, PrimaryEvent(text)
      PROVE  Waiting'
  <2>1. CASE conf.enabled
    <3>1. /\ pending' = text /\ latest' = text /\ seq' = seq + 1
          /\ timers' = timers \cup {seq + 1}
      BY <1>1, <2>1 DEF PrimaryEvent
    <3>. QED
      BY <3>1
  <2>2. CASE ~conf.enabled
    <3>1. UNCHANGED debounce
      BY <1>1, <2>2 DEF PrimaryEvent
    <3>. QED
      BY <3>1
  <2>. QED
    BY <2>1, <2>2
<1>2. ASSUME NEW s \in timers, Flush(s)
      PROVE  Waiting'
  <2>1. timers' = timers \ {s} /\ seq' = seq /\ latest' = latest
    BY <1>2 DEF Flush
  <2>2. CASE s = seq /\ pending # None
    <3>1. pending' = None
      BY <1>2, <2>2 DEF Flush
    <3>. QED
      BY <2>1, <2>2, <3>1
  <2>3. CASE ~(s = seq /\ pending # None)
    <3>1. pending' = pending
      BY <1>2, <2>3 DEF Flush
    <3>. QED
      BY <2>1, <2>3, <3>1
  <2>. QED
    BY <2>2, <2>3
<1>3. CASE UNCHANGED debounce
  BY <1>3
<1>4. \/ UNCHANGED debounce
      \/ \E text \in Text : PrimaryEvent(text)
      \/ \E s \in timers : Flush(s)
  BY DEF Next, vars, UserCopies, SourceCloses, Watch, SpuriousWake, ClipboardData,
         EmptyKeyboard, Pick, SelectionCopy, UseSelections, ChangeConfig
<1>. QED
  BY <1>1, <1>2, <1>3, <1>4

-----------------------------------------------------------------------------
(* The flag                                                                *)

\* What WriteSelection does to the flag and the counts.
LEMMA WriteSelectionCounts ==
  ASSUME Counting, WriteSelection
  PROVE  Counting'
<1>. USE DEF Counting, Fields
<1>1. CASE /\ skip' = TRUE
           /\ tally' = [tally EXCEPT !.synced = @ + 1, !.raced = @ \/ skip \/ ~Quiet]
  <2>1. /\ tally'.lost = tally.lost /\ tally'.synced = tally.synced + 1
        /\ tally' = [f \in Fields |-> tally'[f]]
    BY <1>1 DEF Quiet
  <2>. QED
    BY <1>1, <2>1
<1>2. CASE skip' = FALSE /\ tally' = [tally EXCEPT !.raced = @ \/ skip]
  <2>1. PICK r : tally' = [tally EXCEPT !.raced = r]
    BY <1>2
  <2>2. /\ tally'.lost = tally.lost /\ tally'.synced = tally.synced
        /\ tally' = [f \in Fields |-> tally'[f]]
    BY <2>1
  <2>3. tally.lost <= tally.synced
    OBVIOUS
  <2>4. skip' = FALSE
    BY <1>2
  <2>5. /\ tally'.lost \in Nat /\ tally'.synced \in Nat
        /\ tally'.lost + 0 <= tally'.synced
    BY <2>2, <2>3
  <2>. HIDE DEF Fields
  <2>. QED
    BY <2>2, <2>4, <2>5
<1>. QED
  BY <1>1, <1>2 DEF WriteSelection

LEMMA CountingStep == Counting /\ [Next]_vars => Counting'
<1>. SUFFICES ASSUME Counting, [Next]_vars
              PROVE  Counting'
  OBVIOUS
<1>1. ASSUME skip' = skip, tally' = [f \in Fields |-> tally'[f]],
             tally'.lost = tally.lost, tally'.synced = tally.synced
      PROVE  Counting'
  BY <1>1 DEF Counting
<1>2. CASE UNCHANGED << skip, tally >>
  BY <1>2 DEF Counting
<1>3. CASE Copied /\ UNCHANGED skip
  BY <1>1, <1>3 DEF Copied, Counting, Fields
<1>4. CASE Watch
  <2>1. CASE tally' = [tally EXCEPT !.hidden = TRUE, !.raced = @ \/ skip]
    BY <1>1, <1>4, <2>1 DEF Watch, Counting, Fields
  <2>. QED
    BY <1>2, <1>4, <2>1 DEF Watch
<1>5. CASE ClipboardData
  <2>1. CASE skip /\ Skip
    <3>1. PICK n \in {0, 1} : tally' = [tally EXCEPT !.lost = @ + n]
      BY <2>1 DEF Skip
    <3>2. /\ tally'.lost = tally.lost + n /\ tally'.synced = tally.synced
          /\ tally' = [f \in Fields |-> tally'[f]]
      BY <3>1 DEF Counting, Fields
    <3>3. tally.lost + 1 <= tally.synced
      BY <2>1 DEF Counting
    <3>4. skip' = FALSE
      BY <2>1 DEF Skip
    <3>5. /\ tally'.lost \in Nat /\ tally'.synced \in Nat
          /\ tally'.lost + 0 <= tally'.synced
      BY <3>2, <3>3 DEF Counting
    <3>. QED
      BY <3>2, <3>4, <3>5 DEF Counting
  <2>2. CASE Store
    <3>1. PICK n \in {0, 1} : tally' = [tally EXCEPT !.leaked = @ + n]
      BY <2>2 DEF Store
    <3>. QED
      BY <1>1, <2>2, <3>1 DEF Store, Counting, Fields
  <2>. QED
    BY <1>5, <2>1, <2>2 DEF ClipboardData
<1>6. CASE EmptyKeyboard
  <2>1. CASE tally' = [tally EXCEPT !.raced = @ \/ skip]
    BY <1>1, <1>6, <2>1 DEF EmptyKeyboard, Counting, Fields
  <2>. QED
    BY <1>2, <1>6, <2>1 DEF EmptyKeyboard
<1>7. ASSUME NEW text \in Text, PrimaryEvent(text)
      PROVE  Counting'
  BY <1>2, <1>3, <1>7 DEF PrimaryEvent
<1>8. ASSUME NEW s \in timers, Flush(s)
      PROVE  Counting'
  BY <1>2, <1>8, WriteSelectionCounts DEF Flush
<1>9. CASE ChangeConfig
  BY <1>1, <1>9 DEF ChangeConfig, Counting, Fields
<1>10. CASE UNCHANGED vars
  BY <1>2, <1>10 DEF vars
<1>. QED
  <2>1. ASSUME NEW text, NEW secret, UserCopies(text, secret)
        PROVE  Counting'
    BY <1>3, <2>1 DEF UserCopies
  <2>2. CASE SourceCloses
    BY <1>3, <2>2 DEF SourceCloses
  <2>3. ASSUME NEW text, Pick(text)
        PROVE  Counting'
    BY <1>3, <2>3 DEF Pick
  <2>4. CASE UseSelections
    BY <1>2, <2>4 DEF UseSelections
  <2>5. CASE SpuriousWake
    BY <1>3, <2>5 DEF SpuriousWake
  <2>. QED
    BY <1>4, <1>5, <1>6, <1>7, <1>8, <1>9, <1>10, <2>1, <2>2, <2>3, <2>4, <2>5
       DEF Next, SelectionCopy

-----------------------------------------------------------------------------
LEMMA SyncInvHolds == Spec => []SyncInv
<1>1. SyncInit => SyncInv
  <2>. SUFFICES ASSUME SyncInit
                PROVE  SyncInv
    OBVIOUS
  <2>1. Waiting
    BY BufferAssumption DEF SyncInit, Waiting, WaitsForLast
  <2>2. /\ tally.lost = 0 /\ tally.synced = 0 /\ skip = FALSE
        /\ tally = [f \in Fields |-> tally[f]]
    BY DEF SyncInit, Fields
  <2>3. /\ tally.lost \in Nat /\ tally.synced \in Nat
        /\ tally.lost + 0 <= tally.synced
    BY <2>2
  <2>4. Counting
    BY <2>2, <2>3 DEF Counting
  <2>. QED
    BY <2>1, <2>4 DEF SyncInv
<1>2. SyncInv /\ [Next]_vars => SyncInv'
  BY WaitingStep, CountingStep DEF SyncInv
<1>. QED
  BY <1>1, <1>2, PTL DEF Spec

\* For every number of texts, events and timers, in whatever order the timers
\* fire: a selected text waits for the last timer of its burst.
THEOREM WaitsForLastHolds == Spec => []WaitsForLast
  BY SyncInvHolds, PTL DEF SyncInv, Waiting

\* A written selection costs at most one copy, however events overlap.
THEOREM LossBoundedHolds == Spec => []LossBounded
<1>1. SyncInv => LossBounded
  BY DEF SyncInv, Counting, Fields, LossBounded
<1>. QED
  BY <1>1, SyncInvHolds, PTL

-----------------------------------------------------------------------------
(* The applet uses the buffer                                              *)

\* A step of the applet is an operation of the buffer or leaves it alone.
LEMMA StepUsesBuffer == SyncInv /\ [Next]_vars => [BufferNext]_buffer
<1>. SUFFICES ASSUME SyncInv, Next, ~UNCHANGED buffer
              PROVE  BufferNext
  BY DEF vars, buffer
<1>1. CASE UseSelections
  BY <1>1 DEF UseSelections, BufferNext
<1>2. CASE ChangeConfig
  BY <1>2 DEF ChangeConfig, BufferNext
<1>3. ASSUME NEW s \in timers, Flush(s)
      PROVE  BufferNext
  <2>1. pending \in Text /\ Push(pending)
    BY <1>3 DEF Flush, SyncInv, Waiting
  <2>. QED
    BY <2>1 DEF BufferNext
<1>. QED
  BY <1>1, <1>2, <1>3
     DEF Next, UserCopies, SourceCloses, Watch, SpuriousWake, ClipboardData,
         EmptyKeyboard, Pick, SelectionCopy, PrimaryEvent

\* The applet implements the buffer's own specification, so the buffer's
\* theorems hold in it.
THEOREM AppletImplementsBuffer == Spec => BufferSpec
<1>1. SyncInit => BufferInit
  BY DEF SyncInit
<1>. QED
  BY <1>1, SyncInvHolds, StepUsesBuffer, PTL DEF Spec, BufferSpec

\* The selections the applet holds and shows are exact in every interleaving of
\* the watcher, the timers and the user.
THEOREM AppletBufferExact == Spec => []BufferExact
  BY AppletImplementsBuffer, BufferExactHolds, PTL

-----------------------------------------------------------------------------
(* The types                                                               *)

\* What TypeOK says beyond the buffer and the debounce.
Typing ==
  /\ clip \in Clip \cup {None} /\ unread \in BOOLEAN
  /\ events \in Seq(Clip \cup {None}) /\ Len(events) <= MaxQueue
  /\ skip \in BOOLEAN /\ sensitive \in BOOLEAN
  /\ history \subseteq Text
  /\ latest \in Text \cup {None} /\ seq \in 0 .. MaxSelects
  /\ conf \in [private : BOOLEAN, enabled : BOOLEAN, sync : BOOLEAN]

\* A new offer of a text is a clip, whoever made it.
LEMMA OfferTypes ==
  ASSUME NEW text \in Text, NEW who \in {"user", "sync", "applet"}, NEW secret \in BOOLEAN,
         Offer([text |-> text, by |-> who, secret |-> secret])
  PROVE  clip' \in Clip \cup {None} /\ unread' \in BOOLEAN /\ events' = events
  BY DEF Offer, Clip

LEMMA ByIdIsText ==
  ASSUME BufferTypeOK, NEW id
  PROVE  ById(id) \subseteq Text
<1>1. \A i \in DOMAIN entries : entries[i] \in Entry
  BY DEF BufferTypeOK
<1>. QED
  BY <1>1 DEF ById, Entry

LEMMA TypingStep ==
  ASSUME Typing, SyncInv, BufferTypeOK, [Next]_vars
  PROVE  Typing'
<1>. USE DEF Typing
<1>0. MaxQueue \in Nat /\ MaxSelects \in Nat
  BY SyncAssumption
<1>1. ASSUME NEW text \in Text, NEW secret \in BOOLEAN, UserCopies(text, secret)
      PROVE  Typing'
  BY <1>1, OfferTypes DEF UserCopies, debounce
<1>2. CASE SourceCloses
  BY <1>2 DEF SourceCloses, Offer, debounce
<1>3. CASE Watch \/ SpuriousWake
  <2>1. UNCHANGED << debounce, clip, skip, sensitive, history, conf >>
    BY <1>3 DEF Watch, SpuriousWake
  <2>2. /\ events' = Append(events, clip) \/ events' = Append(events, None) \/ events' = events
        /\ Len(events) < MaxQueue /\ unread' \in BOOLEAN
    BY <1>3 DEF Watch, SpuriousWake
  <2>3. events' \in Seq(Clip \cup {None}) /\ Len(events') <= MaxQueue
    BY <1>0, <2>2
  <2>. QED
    BY <2>1, <2>2, <2>3 DEF debounce
<1>4. CASE ClipboardData
  <2>1. /\ Head(events) \in Clip /\ events' = Tail(events)
        /\ UNCHANGED << buffer, debounce, clip, unread, conf >>
        /\ Skip \/ Store
    BY <1>4 DEF ClipboardData
  <2>2. sensitive' \in BOOLEAN /\ skip' \in BOOLEAN /\ history' \subseteq Text
    BY <2>1 DEF Skip, Store, Clip
  <2>3. Tail(events) \in Seq(Clip \cup {None}) /\ Len(Tail(events)) <= MaxQueue
    BY <1>0, <1>4 DEF ClipboardData
  <2>. QED
    BY <2>1, <2>2, <2>3 DEF debounce
<1>5. CASE EmptyKeyboard
  <2>1. Tail(events) \in Seq(Clip \cup {None}) /\ Len(Tail(events)) <= MaxQueue
    BY <1>0, <1>5 DEF EmptyKeyboard
  <2>2. CASE UNCHANGED << clip, unread >>
    BY <1>5, <2>1, <2>2 DEF EmptyKeyboard, debounce
  <2>3. ASSUME NEW text \in history,
               clip' = [text |-> text, by |-> "applet", secret |-> FALSE], unread' = TRUE
        PROVE  Typing'
    <3>1. clip' \in Clip
      BY <2>3 DEF Clip
    <3>. QED
      BY <1>5, <2>1, <2>3, <3>1 DEF EmptyKeyboard, debounce
  <2>. QED
    BY <1>5, <2>2, <2>3 DEF EmptyKeyboard
<1>6. ASSUME NEW text \in Text, Pick(text)
      PROVE  Typing'
  BY <1>6, OfferTypes DEF Pick, debounce
<1>7. ASSUME NEW text \in Text, PrimaryEvent(text)
      PROVE  Typing'
  <2>1. CASE conf.enabled
    BY <1>0, <1>7, <2>1 DEF PrimaryEvent, watching
  <2>2. CASE ~conf.enabled /\ UNCHANGED watching
    BY <1>0, <1>7, <2>2 DEF PrimaryEvent, watching, debounce
  <2>3. CASE ~conf.enabled /\ Offer([text |-> text, by |-> "applet", secret |-> FALSE])
    BY <1>7, <2>3, OfferTypes DEF PrimaryEvent, debounce
  <2>. QED
    BY <1>7, <2>1, <2>2, <2>3 DEF PrimaryEvent
<1>8. ASSUME NEW s \in timers, Flush(s)
      PROVE  Typing'
  <2>1. /\ seq' = seq /\ latest' = latest /\ sensitive' = sensitive
        /\ history' = history /\ conf' = conf
    BY <1>8 DEF Flush
  <2>2. CASE s = seq /\ pending # None /\ conf.sync
    <3>1. pending \in Text /\ WriteSelection
      BY <1>8, <2>2 DEF Flush, SyncInv, Waiting
    <3>. QED
      BY <2>1, <3>1, OfferTypes DEF WriteSelection, watching
  <2>3. CASE ~(s = seq /\ pending # None /\ conf.sync)
    BY <1>8, <2>1, <2>3 DEF Flush, watching
  <2>. QED
    BY <2>2, <2>3
<1>9. CASE ChangeConfig
  BY <1>9 DEF ChangeConfig, watching, debounce
<1>10. CASE UseSelections
  BY <1>10 DEF UseSelections, watching, debounce
<1>11. CASE UNCHANGED vars
  BY <1>11 DEF vars, watching, debounce
<1>12. ASSUME NEW id, SelectionCopy(id)
       PROVE  Typing'
  <2>1. PICK text \in ById(id) : Pick(text)
    BY <1>12 DEF SelectionCopy
  <2>. QED
    BY <1>6, <2>1, ByIdIsText
<1>. QED
  BY <1>1, <1>2, <1>3, <1>4, <1>5, <1>6, <1>7, <1>8, <1>9, <1>10, <1>11, <1>12 DEF Next

\* Everything a variable holds is of its kind; the channel and the debounce
\* counter stay within their bounds.
THEOREM TypeOKHolds == Spec => []TypeOK
<1>1. SyncInit => Typing
  <2>. SUFFICES ASSUME SyncInit
                PROVE  Typing
    OBVIOUS
  <2>1. conf \in [private : BOOLEAN, enabled : BOOLEAN, sync : BOOLEAN]
    BY DEF SyncInit
  <2>2. events \in Seq(Clip \cup {None}) /\ Len(events) <= MaxQueue /\ seq \in 0 .. MaxSelects
    BY SyncAssumption DEF SyncInit
  <2>. QED
    BY <2>1, <2>2 DEF SyncInit, Typing
<1>2. SyncInv /\ BufferTypeOK /\ Typing => TypeOK
  BY DEF SyncInv, Waiting, Typing, TypeOK
<1>3. Spec => []BufferTypeOK
  BY AppletImplementsBuffer, BufferTypeOKHolds, PTL
<1>4. Typing /\ SyncInv /\ BufferTypeOK /\ [Next]_vars => Typing'
  BY TypingStep
<1>. QED
  BY <1>1, <1>2, <1>3, <1>4, SyncInvHolds, PTL DEF Spec

-----------------------------------------------------------------------------
(* The echo                                                                *)

IsEcho(c) == c # None /\ c.by = "sync"
Wanted(c) == c # None /\ c.by = "user" /\ ~c.secret

\* The only change on its way to the applet is a selection it wrote itself.
Echoing ==
  /\ IsEcho(clip)
  /\ IF unread THEN events = << >> ELSE events = << clip >>

\* None of the changes on their way is.
NoEcho ==
  /\ unread => ~IsEcho(clip)
  /\ \A i \in DOMAIN events : ~IsEcho(events[i])

\* What the user copied last is stored or on its way.
Coming ==
  Wanted(clip) =>
    \/ unread
    \/ clip.text \in history
    \/ \E i \in DOMAIN events : events[i] = clip

\* As long as nothing overlapped, the flag is up exactly while an echo is on
\* its way, alone.
EchoInv ==
  ~tally.raced =>
    /\ tally.lost = 0 /\ tally.leaked = 0
    /\ skip => Echoing
    /\ ~skip => NoEcho
    /\ ~tally.hidden => Coming

\* A step that counts nothing but copies, and one that overlaps an echo.
Marked ==
  /\ tally'.lost = tally.lost /\ tally'.leaked = tally.leaked
  /\ tally'.hidden = tally.hidden
  /\ ~tally'.raced => ~tally.raced /\ ~skip

LEMMA CopiedMarks ==
  ASSUME Counting, Copied
  PROVE  Marked
<1>1. tally'.raced = (tally.raced \/ skip)
  BY Zenon DEF Copied, Counting, Fields
<1>. QED
  BY <1>1 DEF Copied, Counting, Fields, Marked

\* Somebody's copy, unless it overlaps an echo, is the last change on its way.
LEMMA OfferKeepsEcho ==
  ASSUME EchoInv, Marked, NEW c, Offer(c), ~IsEcho(c), skip' = skip
  PROVE  EchoInv'
<1>. SUFFICES ASSUME ~tally'.raced
              PROVE  NoEcho' /\ Coming' /\ ~skip' /\ tally'.lost = 0 /\ tally'.leaked = 0
  BY DEF EchoInv
<1>1. ~tally.raced /\ ~skip
  BY DEF Marked
<1>2. NoEcho /\ tally.lost = 0 /\ tally.leaked = 0
  BY <1>1 DEF EchoInv
<1>3. NoEcho' /\ Coming'
  BY <1>2 DEF Offer, NoEcho, Coming, IsEcho
<1>. QED
  BY <1>1, <1>2, <1>3 DEF Marked

LEMMA EchoStays ==
  ASSUME EchoInv, UNCHANGED << clip, unread, events, skip, history >>,
         UNCHANGED tally \/ Marked
  PROVE  EchoInv'
  BY DEF EchoInv, Marked, Echoing, NoEcho, Coming, IsEcho, Wanted

\* What is appended to the channel comes after what was in it.
LEMMA AppendedIs ==
  ASSUME events \in Seq(Clip \cup {None}), NEW c, events' = Append(events, c)
  PROVE  /\ Len(events') = Len(events) + 1 /\ Len(events) \in Nat
         /\ DOMAIN events = 1 .. Len(events) /\ DOMAIN events' = 1 .. Len(events) + 1
         /\ \A i \in DOMAIN events : i \in DOMAIN events' /\ events'[i] = events[i]
         /\ events'[Len(events) + 1] = c
         /\ \A i \in DOMAIN events' : i \in DOMAIN events \/ events'[i] = c
  OBVIOUS

LEMMA WatchKeepsEcho ==
  ASSUME EchoInv, Typing, Counting, Watch
  PROVE  EchoInv'
<1>1. /\ unread /\ unread' = FALSE
      /\ UNCHANGED << clip, skip, history >>
      /\ events \in Seq(Clip \cup {None})
  BY DEF Watch, Typing
<1>2. CASE conf.private /\ clip # None
  <2>1. tally' = [tally EXCEPT !.hidden = TRUE, !.raced = @ \/ skip] /\ events' = events
    BY <1>2 DEF Watch
  <2>2. tally'.raced = (tally.raced \/ skip)
    BY <2>1, Zenon DEF Counting, Fields
  <2>3. tally'.lost = tally.lost /\ tally'.leaked = tally.leaked /\ tally'.hidden
    BY <2>1 DEF Counting, Fields
  <2>. QED
    BY <1>1, <2>1, <2>2, <2>3 DEF EchoInv, NoEcho
<1>3. CASE ~(conf.private /\ clip # None)
  <2>1. events' = Append(events, clip) /\ tally' = tally
    BY <1>3 DEF Watch
  <2>. SUFFICES ASSUME ~tally.raced
                PROVE  /\ skip => Echoing'
                       /\ ~skip => NoEcho'
                       /\ Coming'
    BY <1>1, <2>1 DEF EchoInv
  <2>2. ASSUME skip
        PROVE  Echoing'
    <3>1. events = << >> /\ IsEcho(clip)
      BY <1>1, <2>2 DEF EchoInv, Echoing
    <3>2. events' = << clip >>
      BY <2>1, <3>1
    <3>. QED
      BY <1>1, <3>1, <3>2 DEF Echoing, IsEcho
  <2>3. ASSUME ~skip
        PROVE  NoEcho'
    <3>1. NoEcho /\ ~IsEcho(clip)
      BY <1>1, <2>3 DEF EchoInv, NoEcho
    <3>. QED
      BY <1>1, <2>1, <3>1, AppendedIs DEF NoEcho, IsEcho
  <2>4. Coming'
    <3>1. Len(events) + 1 \in DOMAIN events' /\ events'[Len(events) + 1] = clip
      BY <1>1, <2>1, AppendedIs
    <3>. QED
      BY <1>1, <3>1 DEF Coming
  <2>. QED
    BY <2>2, <2>3, <2>4
<1>. QED
  BY <1>2, <1>3

LEMMA SpuriousWakeKeepsEcho ==
  ASSUME EchoInv, Typing, Counting, SpuriousWake
  PROVE  EchoInv'
<1>1. /\ UNCHANGED << clip, unread, skip, history >> /\ events' = Append(events, None)
      /\ events \in Seq(Clip \cup {None}) /\ Marked
  BY CopiedMarks DEF SpuriousWake, Typing
<1>. SUFFICES ASSUME ~tally'.raced
              PROVE  /\ ~skip /\ NoEcho' /\ tally'.lost = 0 /\ tally'.leaked = 0
                     /\ ~tally'.hidden => Coming'
  BY <1>1 DEF EchoInv
<1>2. ~skip /\ NoEcho /\ tally.lost = 0 /\ tally.leaked = 0 /\ (~tally.hidden => Coming)
  BY <1>1 DEF EchoInv, Marked
<1>3. NoEcho'
  BY <1>1, <1>2, AppendedIs DEF NoEcho, IsEcho
<1>4. Coming => Coming'
  BY <1>1, AppendedIs DEF Coming, Wanted
<1>. QED
  BY <1>1, <1>2, <1>3, <1>4 DEF Marked

\* What is left of the channel when its head is taken.
LEMMA TakenIs ==
  ASSUME events \in Seq(Clip \cup {None}), events # << >>, events' = Tail(events)
  PROVE  /\ Head(events) = events[1] /\ 1 \in DOMAIN events
         /\ \A i \in DOMAIN events : i # 1 => i - 1 \in DOMAIN events' /\ events'[i - 1] = events[i]
         /\ \A i \in DOMAIN events' : i + 1 \in DOMAIN events /\ events'[i] = events[i + 1]
<1>1. Len(events) \in Nat /\ Len(events) # 0 /\ DOMAIN events = 1 .. Len(events)
  OBVIOUS
<1>2. /\ DOMAIN events' = 1 .. Len(events) - 1
      /\ \A i \in 1 .. Len(events) - 1 : events'[i] = events[i + 1]
  OBVIOUS
<1>3. ASSUME NEW i \in DOMAIN events, i # 1
      PROVE  i - 1 \in DOMAIN events' /\ events'[i - 1] = events[i]
  <2>1. i - 1 \in 1 .. Len(events) - 1 /\ (i - 1) + 1 = i
    BY <1>1, <1>3
  <2>. QED
    BY <1>2, <2>1
<1>4. ASSUME NEW i \in DOMAIN events'
      PROVE  i + 1 \in DOMAIN events /\ events'[i] = events[i + 1]
  BY <1>1, <1>2
<1>5. Head(events) = events[1] /\ 1 \in DOMAIN events
  BY <1>1
<1>. QED
  BY <1>3, <1>4, <1>5

LEMMA ClipboardDataKeepsEcho ==
  ASSUME EchoInv, Typing, Counting, ClipboardData
  PROVE  EchoInv'
<1>1. /\ UNCHANGED << clip, unread >> /\ events' = Tail(events) /\ events # << >>
      /\ Head(events) # None
      /\ events \in Seq(Clip \cup {None})
  BY DEF ClipboardData, Typing
<1>2. CASE skip /\ Skip
  <2>1. /\ skip' = FALSE /\ history' = history
        /\ tally' = [tally EXCEPT !.lost = @ + (IF Head(events).by = "user" THEN 1 ELSE 0)]
    BY <1>2 DEF Skip
  <2>. SUFFICES ASSUME ~tally'.raced
                PROVE  /\ NoEcho' /\ tally'.lost = 0 /\ tally'.leaked = 0
                       /\ Coming'
    BY <2>1 DEF EchoInv
  <2>2. tally'.raced = tally.raced /\ tally'.leaked = tally.leaked
    BY <2>1 DEF Counting, Fields
  <2>3. IsEcho(clip) /\ ~unread /\ events = << clip >> /\ tally.lost = 0 /\ tally.leaked = 0
    BY <1>1, <1>2, <2>2 DEF EchoInv, Echoing
  <2>4. events' = << >> /\ Head(events).by = "sync"
    BY <1>1, <2>3 DEF IsEcho
  <2>5. tally'.lost = 0
    BY <2>1, <2>3, <2>4 DEF Counting, Fields
  <2>6. NoEcho'
    BY <1>1, <2>3, <2>4 DEF NoEcho
  <2>7. Coming'
    BY <1>1, <2>3 DEF Coming, Wanted, IsEcho
  <2>. QED
    BY <2>2, <2>3, <2>5, <2>6, <2>7
<1>3. CASE ~skip /\ Store
  <2>1. /\ skip' = skip
        /\ history' = IF Head(events).secret THEN history ELSE history \cup {Head(events).text}
        /\ tally' = [tally EXCEPT !.leaked = @ + (IF Head(events).by = "sync" THEN 1 ELSE 0)]
    BY <1>3 DEF Store
  <2>. SUFFICES ASSUME ~tally'.raced
                PROVE  /\ NoEcho' /\ tally'.lost = 0 /\ tally'.leaked = 0
                       /\ ~tally'.hidden => Coming'
    BY <1>3, <2>1 DEF EchoInv
  <2>2. tally'.raced = tally.raced /\ tally'.lost = tally.lost /\ tally'.hidden = tally.hidden
    BY <2>1 DEF Counting, Fields
  <2>3. NoEcho /\ tally.lost = 0 /\ tally.leaked = 0 /\ (~tally.hidden => Coming)
    BY <1>3, <2>2 DEF EchoInv
  <2>4. Head(events).by # "sync"
    BY <1>1, <2>3, TakenIs DEF NoEcho, IsEcho
  <2>5. tally'.leaked = 0
    BY <2>1, <2>3, <2>4 DEF Counting, Fields
  <2>6. NoEcho'
    BY <1>1, <2>3, TakenIs DEF NoEcho, IsEcho
  <2>7. ASSUME Coming
        PROVE  Coming'
    <3>. SUFFICES ASSUME Wanted(clip), ~unread, clip.text \notin history'
                  PROVE  \E i \in DOMAIN events' : events'[i] = clip
      BY <1>1 DEF Coming, Wanted
    <3>1. PICK i \in DOMAIN events : events[i] = clip
      BY <2>1, <2>7 DEF Coming
    <3>2. i # 1
      BY <1>1, <2>1, <3>1, TakenIs DEF Wanted
    <3>. QED
      BY <1>1, <3>1, <3>2, TakenIs
  <2>. QED
    BY <2>2, <2>3, <2>5, <2>6, <2>7
<1>. QED
  BY <1>2, <1>3 DEF ClipboardData

LEMMA EmptyKeyboardKeepsEcho ==
  ASSUME EchoInv, Typing, Counting, EmptyKeyboard
  PROVE  EchoInv'
<1>1. /\ UNCHANGED << skip, history >> /\ events' = Tail(events) /\ events # << >>
      /\ Head(events) = None
      /\ events \in Seq(Clip \cup {None})
  BY DEF EmptyKeyboard, Typing
<1>2. CASE UNCHANGED << clip, unread, tally >>
  <2>. SUFFICES ASSUME ~tally.raced
                PROVE  /\ ~skip /\ NoEcho'
                       /\ ~tally.hidden => Coming'
    BY <1>1, <1>2 DEF EchoInv
  <2>1. ~skip
    <3>1. events # << clip >> \/ clip = None
      BY <1>1
    <3>. QED
      BY <1>1, <3>1 DEF EchoInv, Echoing, IsEcho
  <2>2. NoEcho'
    BY <1>1, <1>2, <2>1, TakenIs DEF EchoInv, NoEcho, IsEcho
  <2>3. ASSUME Coming
        PROVE  Coming'
    <3>. SUFFICES ASSUME Wanted(clip), ~unread, clip.text \notin history
                  PROVE  \E i \in DOMAIN events' : events'[i] = clip
      BY <1>1, <1>2 DEF Coming, Wanted
    <3>1. PICK i \in DOMAIN events : events[i] = clip
      BY <2>3 DEF Coming
    <3>2. i # 1
      BY <1>1, <3>1, TakenIs DEF Wanted
    <3>. QED
      BY <1>1, <3>1, <3>2, TakenIs
  <2>. QED
    BY <2>1, <2>2, <2>3 DEF EchoInv
<1>3. ASSUME NEW text \in history,
             clip' = [text |-> text, by |-> "applet", secret |-> FALSE], unread' = TRUE,
             tally' = [tally EXCEPT !.raced = @ \/ skip]
      PROVE  EchoInv'
  <2>1. tally'.raced = (tally.raced \/ skip)
    BY <1>3, Zenon DEF Counting, Fields
  <2>2. tally'.lost = tally.lost /\ tally'.leaked = tally.leaked
    BY <1>3 DEF Counting, Fields
  <2>3. ~IsEcho(clip')
    BY <1>3 DEF IsEcho
  <2>. SUFFICES ASSUME ~tally'.raced
                PROVE  ~skip /\ NoEcho' /\ Coming' /\ tally.lost = 0 /\ tally.leaked = 0
    BY <1>1, <2>2 DEF EchoInv
  <2>4. ~skip /\ NoEcho /\ tally.lost = 0 /\ tally.leaked = 0
    BY <2>1 DEF EchoInv
  <2>5. NoEcho'
    BY <1>1, <2>3, <2>4, TakenIs DEF NoEcho, IsEcho
  <2>6. Coming'
    BY <1>3 DEF Coming
  <2>. QED
    BY <2>4, <2>5, <2>6
<1>. QED
  BY <1>2, <1>3 DEF EmptyKeyboard

LEMMA WriteSelectionKeepsEcho ==
  ASSUME EchoInv, Counting, pending \in Text, WriteSelection, history' = history
  PROVE  EchoInv'
<1>1. CASE /\ skip' = TRUE
           /\ Offer([text |-> pending, by |-> "sync", secret |-> FALSE])
           /\ tally' = [tally EXCEPT !.synced = @ + 1, !.raced = @ \/ skip \/ ~Quiet]
  <2>1. tally'.raced = (tally.raced \/ skip \/ ~Quiet)
    BY <1>1, Zenon DEF Counting, Fields
  <2>2. tally'.lost = tally.lost /\ tally'.leaked = tally.leaked
    BY <1>1 DEF Counting, Fields
  <2>3. clip' = [text |-> pending, by |-> "sync", secret |-> FALSE] /\ unread' /\ events' = events
    BY <1>1 DEF Offer
  <2>4. clip' \in Clip
    BY <2>3 DEF Clip
  <2>5. IsEcho(clip')
    BY <2>3, <2>4, SyncAssumption DEF IsEcho
  <2>. SUFFICES ASSUME ~tally'.raced
                PROVE  Echoing' /\ Coming' /\ tally.lost = 0 /\ tally.leaked = 0
    BY <1>1, <2>2 DEF EchoInv
  <2>6. events = << >> /\ tally.lost = 0 /\ tally.leaked = 0
    BY <2>1 DEF EchoInv, Quiet
  <2>7. Echoing' /\ Coming'
    BY <2>3, <2>5, <2>6 DEF Echoing, Coming, IsEcho
  <2>. QED
    BY <2>6, <2>7
<1>2. CASE /\ skip' = FALSE
           /\ tally' = [tally EXCEPT !.raced = @ \/ skip]
           /\ UNCHANGED watching
  <2>1. tally'.raced = (tally.raced \/ skip)
    BY <1>2, Zenon DEF Counting, Fields
  <2>2. tally'.lost = tally.lost /\ tally'.leaked = tally.leaked /\ tally'.hidden = tally.hidden
    BY <1>2 DEF Counting, Fields
  <2>. SUFFICES ASSUME ~tally'.raced
                PROVE  EchoInv'
    BY DEF EchoInv
  <2>3. ~tally.raced /\ ~skip
    BY <2>1
  <2>4. NoEcho' = NoEcho /\ Coming' = Coming
    BY <1>2 DEF watching, NoEcho, Coming, IsEcho, Wanted
  <2>. QED
    BY <1>2, <2>2, <2>3, <2>4 DEF EchoInv
<1>. QED
  BY <1>1, <1>2 DEF WriteSelection

LEMMA EchoStep ==
  ASSUME EchoInv, Typing, SyncInv, [Next]_vars
  PROVE  EchoInv'
<1>0. Counting
  BY DEF SyncInv
<1>1. ASSUME NEW text, NEW secret, UserCopies(text, secret)
      PROVE  EchoInv'
  BY <1>0, <1>1, CopiedMarks, OfferKeepsEcho DEF UserCopies, IsEcho
<1>2. CASE SourceCloses
  BY <1>0, <1>2, CopiedMarks, OfferKeepsEcho DEF SourceCloses, IsEcho
<1>3. ASSUME NEW text, Pick(text)
      PROVE  EchoInv'
  BY <1>0, <1>3, CopiedMarks, OfferKeepsEcho DEF Pick, IsEcho
<1>4. ASSUME NEW text \in Text, PrimaryEvent(text)
      PROVE  EchoInv'
  <2>1. CASE conf.enabled
    BY <1>4, <2>1, EchoStays DEF PrimaryEvent, watching
  <2>2. CASE ~conf.enabled /\ UNCHANGED << watching, tally >>
    BY <1>4, <2>2, EchoStays DEF PrimaryEvent, watching
  <2>3. CASE /\ ~conf.enabled /\ Copied
             /\ Offer([text |-> text, by |-> "applet", secret |-> FALSE])
    BY <1>0, <1>4, <2>3, CopiedMarks, OfferKeepsEcho DEF PrimaryEvent, IsEcho
  <2>. QED
    BY <1>4, <2>1, <2>2, <2>3 DEF PrimaryEvent
<1>5. ASSUME NEW s \in timers, Flush(s)
      PROVE  EchoInv'
  <2>1. CASE s = seq /\ pending # None /\ conf.sync
    <3>1. pending \in Text /\ WriteSelection /\ history' = history
      BY <1>5, <2>1 DEF Flush, SyncInv, Waiting
    <3>. QED
      BY <1>0, <3>1, WriteSelectionKeepsEcho
  <2>2. CASE ~(s = seq /\ pending # None /\ conf.sync)
    BY <1>5, <2>2, EchoStays DEF Flush, watching
  <2>. QED
    BY <2>1, <2>2
<1>6. CASE ChangeConfig
  <2>1. tally' = [tally EXCEPT !.toggles = @ + 1] /\ UNCHANGED << watching, skip, history >>
    BY <1>6 DEF ChangeConfig
  <2>2. /\ tally'.lost = tally.lost /\ tally'.leaked = tally.leaked
        /\ tally'.hidden = tally.hidden /\ tally'.raced = tally.raced
    BY <1>0, <2>1 DEF Counting, Fields
  <2>. QED
    BY <2>1, <2>2 DEF watching, EchoInv, Echoing, NoEcho, Coming, IsEcho, Wanted
<1>7. CASE UseSelections \/ UNCHANGED vars
  BY <1>7, EchoStays DEF UseSelections, vars, watching
<1>8. ASSUME NEW id, SelectionCopy(id)
      PROVE  EchoInv'
  BY <1>3, <1>8 DEF SelectionCopy
<1>. QED
  BY <1>0, <1>1, <1>2, <1>3, <1>4, <1>5, <1>6, <1>7, <1>8,
     WatchKeepsEcho, SpuriousWakeKeepsEcho, ClipboardDataKeepsEcho, EmptyKeyboardKeepsEcho
     DEF Next

\* For every number of copies, clears, selections and timers, and with private
\* mode and the buffer switched on and off: unless changes of the clipboard
\* overlap, the flag hides the echo of a written selection and nothing else,
\* and the last copy of the user ends up in the history.
THEOREM SkipsOnlyEchoHolds == Spec => []SkipsOnlyEcho
<1>1. SyncInit => EchoInv
  BY DEF SyncInit, EchoInv, NoEcho, Coming, Wanted
<1>2. EchoInv => SkipsOnlyEcho
  <2>1. Quiet => ~Echoing
    BY DEF Quiet, Echoing
  <2>2. Quiet /\ Coming /\ Wanted(clip) => clip.text \in history
    BY DEF Quiet, Coming
  <2>. QED
    BY <2>1, <2>2 DEF EchoInv, SkipsOnlyEcho, Wanted
<1>3. TypeOK /\ SyncInv => Typing
  BY DEF TypeOK, Typing
<1>4. EchoInv /\ Typing /\ SyncInv /\ [Next]_vars => EchoInv'
  BY EchoStep
<1>. QED
  BY <1>1, <1>2, <1>3, <1>4, TypeOKHolds, SyncInvHolds, PTL DEF Spec
=============================================================================
