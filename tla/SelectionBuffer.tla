--------------------------- MODULE SelectionBuffer ---------------------------
(***************************************************************************)
(* The buffer of primary selections (src/src/selection_buffer.rs): the     *)
(* most recent texts, newest first, and the cached result of a search.     *)
(*                                                                         *)
(* run_search stores positions in the buffer, and a push moves every entry *)
(* by one position.  The positions are always collected in ascending order,*)
(* so filtered is the set of them.                                         *)
(***************************************************************************)
EXTENDS Integers, Sequences

CONSTANTS
  Text,         \* what can be selected
  Blanks,       \* the texts made of white space
  Searches,     \* searches, each the set of texts it matches
  Limits,       \* values of config.selection_buffer_max_entries
  None          \* no search

ASSUME BufferAssumption ==
  /\ Blanks \subseteq Text
  /\ Searches \subseteq SUBSET Text
  /\ Limits \subseteq Nat
  /\ None \notin Searches /\ None \notin Text

VARIABLES
  entries,      \* entries: the kept [id, text], newest first
  max_entries,
  next_id,
  query,
  filtered      \* the positions in entries that the search found

buffer == << entries, max_entries, next_id, query, filtered >>

Entry == [id : Nat, text : Text]

\* The empty query is contained in every text.
Matched(q) == IF q = None THEN Text ELSE q

Found(es, q) == {i \in DOMAIN es : es[i].text \in Matched(q)}

Keep(es, n) == IF Len(es) > n THEN SubSeq(es, 1, n) ELSE es

BufferInit ==
  /\ entries = << >>
  /\ max_entries \in Limits
  /\ next_id = 1
  /\ query = None
  /\ filtered = {}

\* Seeded bug: the text on top may be pushed again.
IgnoredBlank(text) == text \in Blanks

\* push does nothing for white space and for the text that is on top already.
Ignored(text) ==
  \/ text \in Blanks
  \/ entries # << >> /\ Head(entries).text = text

\* Seeded bug: the result of the search is not refreshed.
PushWithoutSearch(text) ==
  IF Ignored(text) THEN UNCHANGED buffer
  ELSE /\ entries' = Keep(<< [id |-> next_id, text |-> text] >> \o entries, max_entries)
       /\ next_id' = next_id + 1
       /\ UNCHANGED << max_entries, query, filtered >>

Push(text) ==
  IF Ignored(text) THEN UNCHANGED buffer
  ELSE /\ entries' = Keep(<< [id |-> next_id, text |-> text] >> \o entries, max_entries)
       /\ next_id' = next_id + 1
       /\ filtered' = IF query = None THEN filtered ELSE Found(entries', query)
       /\ UNCHANGED << max_entries, query >>

\* search, of the text input and of close_popup
SelectionSearch(q) ==
  /\ query' = q
  /\ filtered' = Found(entries, q)
  /\ UNCHANGED << entries, max_entries, next_id >>

\* clear
ClearSelections ==
  /\ entries' = << >> /\ filtered' = {} /\ query' = None
  /\ UNCHANGED << max_entries, next_id >>

\* set_max leaves the positions alone: the ones past the end are skipped.
SetMax(n) ==
  /\ max_entries' = n
  /\ entries' = Keep(entries, n)
  /\ UNCHANGED << next_id, query, filtered >>

\* get_by_id
ById(id) == {entries[i].text : i \in {j \in DOMAIN entries : entries[j].id = id}}

\* search_iter
SearchIter == filtered \cap DOMAIN entries

BufferNext ==
  \/ \E text \in Text : Push(text)
  \/ \E q \in Searches \cup {None} : SelectionSearch(q)
  \/ ClearSelections
  \/ \E n \in Limits : SetMax(n)

BufferSpec == BufferInit /\ [][BufferNext]_buffer

-----------------------------------------------------------------------------
\* The fields of SelectionBuffer.
BufferTypeOK ==
  /\ entries \in Seq(Entry)
  /\ max_entries \in Limits
  /\ next_id \in Nat \ {0}
  /\ query \in Searches \cup {None}
  /\ filtered \subseteq Nat \ {0}

\* The search shows exactly the entries that match, though it stores
\* positions that a push shifts and that set_max leaves dangling.
ResultsExact == query # None => SearchIter = Found(entries, query)

\* Newer entries have greater ids: get_by_id has one answer.
IdsDescend ==
  /\ \A i \in DOMAIN entries : entries[i].id < next_id
  /\ \A i, j \in DOMAIN entries : i < j => entries[i].id > entries[j].id

NoRepeat == \A i \in 1 .. Len(entries) - 1 : entries[i].text # entries[i + 1].text
WithinLimit == Len(entries) <= max_entries

\* Whatever is pushed, cleared or cut off, ids stay in order, no operation
\* brings two equal texts together and a lowered limit holds at once.
EntriesInv == IdsDescend /\ NoRepeat /\ WithinLimit

\* The buffer keeps what it promises, and a search of it shows just that.
BufferExact == ResultsExact /\ EntriesInv

\* An id is given once: the one a view or a favorite request carries never
\* comes to mean another text, whatever was pushed or cleared meanwhile.
IdsStable ==
  [][/\ next_id' >= next_id
     /\ \A i \in DOMAIN entries' :
          entries'[i].id < next_id => \E j \in DOMAIN entries : entries[j] = entries'[i]]_buffer
=============================================================================
