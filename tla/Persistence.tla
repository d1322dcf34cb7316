---------------------------- MODULE Persistence ----------------------------
(***************************************************************************)
(* The history in memory, the SQLite file behind it, and what joins them.  *)
(*                                                                         *)
(* A handler changes memory at once and spawns a task that writes the same *)
(* change to the file on a connection of its own (spawn_db_persist and     *)
(* persist_op).  Tasks run concurrently, each statement commits by itself, *)
(* and nothing orders two tasks.  Every five seconds handle_message asks   *)
(* the store's own connection whether another one committed, and if so     *)
(* reload rebuilds memory from three SELECTs while the tasks go on.  The   *)
(* process may die anywhere and starts again from the file.                *)
(*                                                                         *)
(* PRAGMA data_version is only ever compared for equality, so two booleans *)
(* stand for it: whether anything was committed since the version stored   *)
(* in DbSqlite was read, and since the version held by a running           *)
(* handle_message was read.                                                *)
(*                                                                         *)
(* A second instance, started beside this one without the lock, may write  *)
(* to the same file.                                                       *)
(***************************************************************************)
EXTENDS StoreOps

S == INSTANCE SequencesExt

CONSTANTS
  Blank,             \* the content of an entry without a content row
  Titles,            \* what a user may call a favorite
  MaxTime,           \* bound on the clock, which every new time advances
  MaxFavs,           \* bound on the length of the favorites list
  MaxJobs,           \* bound on the tasks in flight
  MaxCrashes,        \* bound on crashes and exits
  MaxOthers,         \* bound on what a second instance does to the same file
  MaxFaults,         \* bound on statements failing for no fault of their own
  UniqueSession,     \* config.unique_session
  Lifetime           \* config.maximum_entries_lifetime, None when unlimited

Copyable == Content \ {Blank}

ASSUME PersistenceAssumption ==
  /\ Blank \in Content
  /\ None \notin Titles
  \* None is no operation.
  /\ None \notin [type : {"UpdateTimestamp"}, id : 1 .. MaxTime, new_time : 1 .. MaxTime]
  /\ None \notin [type : {"InsertNew"}, id : 1 .. MaxTime, time : 1 .. MaxTime,
                  data : Copyable, evictions : SUBSET (1 .. MaxTime)]
  /\ Lifetime \in Nat \cup {None}
  /\ {MaxTime, MaxFavs, MaxJobs, MaxCrashes, MaxFaults, MaxOthers} \subseteq Nat
  /\ MaxOthers > 0 => OwnsLock
  /\ UniqueSession \in BOOLEAN

VARIABLES
  db,       \* DbSqlite in memory
  clock,    \* the last time handed out
  disk,     \* the tables: [rows, contents, favs]
  jobs,     \* the statements each task in flight has left to run
  phase,    \* "idle", "merging", what reload reads next, or "down"
  behind,   \* data_version differs from the one stored
  moved,    \* ... from the one the running handle_message fetched
  crashes, faults,
  theirs,   \* the statements a task of the second instance has left to run
  begun,    \* how many operations that instance began
  astray    \* history: did a write since the last load go otherwise than memory took for granted?

others == << theirs, begun >>

vars == << db, clock, disk, jobs, phase, behind, moved, crashes, faults, others, astray >>

Live == DOMAIN db.entries

-----------------------------------------------------------------------------
(* The tables.  rows: id -> creation; contents: id -> content (the rows of *)
(* one entry's MIME types taken together); favs: id -> [position, title].  *)

EmptyDisk == [rows |-> Empty, contents |-> Empty, favs |-> Empty]

Ok(d) == [ok |-> TRUE, disk |-> d]
Failed(d) == [ok |-> FALSE, disk |-> d]

\* Seeded bug: the foreign keys do not cascade.
DeleteRowsOnly(d, ids) == [d EXCEPT !.rows = Drop(@, ids)]

\* DELETE FROM ClipboardEntries; the foreign keys cascade.
DeleteRows(d, ids) ==
  [rows |-> Drop(d.rows, ids), contents |-> Drop(d.contents, ids),
   favs |-> Drop(d.favs, ids)]

NonFavorites(d) == DOMAIN d.rows \ DOMAIN d.favs

\* Seeded bug: the shift forgets the favorite right after the removed one.
CloseGapOffByOne(d, pos) ==
  Ok([d EXCEPT !.favs = [id \in DOMAIN @ |->
       IF @[id].position > pos + 1 THEN [@[id] EXCEPT !.position = @ - 1] ELSE @[id]]])

Shifted(favs, pos) ==
  [id \in DOMAIN favs |->
    IF favs[id].position >= pos THEN [favs[id] EXCEPT !.position = @ - 1] ELSE favs[id]]

\* UPDATE position = position - 1 WHERE position >= pos, under
\* CHECK (position >= 0).
CloseGap(d, pos) ==
  IF pos = 0 /\ \E id \in DOMAIN d.favs : d.favs[id].position = 0 THEN Failed(d)
  ELSE Ok([d EXCEPT !.favs = Shifted(@, pos)])

\* One statement, with the constraints of the schema.
Exec(d, s) ==
  CASE s.do = "InsertEntry" ->
         IF s.id \in DOMAIN d.rows THEN Failed(d)
         ELSE Ok([d EXCEPT !.rows = Put(@, s.id, s.time)])
    [] s.do = "InsertContent" ->
         IF s.id \notin DOMAIN d.rows \/ s.id \in DOMAIN d.contents THEN Failed(d)
         ELSE Ok([d EXCEPT !.contents = Put(@, s.id, s.data)])
    [] s.do = "DeleteEntry" -> Ok(DeleteRows(d, {s.id}))
    [] s.do = "DeleteNonFavorites" -> Ok(DeleteRows(d, NonFavorites(d)))
    [] s.do = "DeleteContent" -> Ok([d EXCEPT !.contents = Drop(@, {s.id})])
    [] s.do = "SetCreation" ->
         Ok(IF s.id \in DOMAIN d.rows THEN [d EXCEPT !.rows[s.id] = s.time] ELSE d)
    [] s.do = "InsertFavorite" ->
         IF s.id \notin DOMAIN d.rows \/ s.id \in DOMAIN d.favs THEN Failed(d)
         ELSE Ok([d EXCEPT !.favs =
                    Put(@, s.id, [position |-> s.position, title |-> None])])
    [] s.do = "DeleteFavorite" -> Ok([d EXCEPT !.favs = Drop(@, {s.id})])
    [] s.do = "CloseGap" -> CloseGap(d, s.position)
    [] s.do = "SetTitle" ->
         Ok(IF s.id \in DOMAIN d.favs THEN [d EXCEPT !.favs[s.id].title = s.title] ELSE d)

\* The statements persist_op runs for an operation.
Statements(op) ==
  CASE op.type = "UpdateTimestamp" ->
         << [do |-> "SetCreation", id |-> op.id, time |-> op.new_time] >>
    [] op.type = "InsertNew" ->
         << [do |-> "InsertEntry", id |-> op.id, time |-> op.time],
            [do |-> "InsertContent", id |-> op.id, data |-> op.data] >>
         \o S!SetToSeq({[do |-> "DeleteEntry", id |-> gone] : gone \in op.evictions})
    [] op.type = "Delete" -> << [do |-> "DeleteEntry", id |-> op.id] >>
    [] op.type = "ClearNonFavorites" -> << [do |-> "DeleteNonFavorites"] >>
    [] op.type = "AddFavorite" ->
         << [do |-> "InsertFavorite", id |-> op.id, position |-> op.position] >>
    [] op.type = "RemoveFavorite" ->
         << [do |-> "DeleteFavorite", id |-> op.id] >>
         \o IF op.old_position = None THEN << >>
            ELSE << [do |-> "CloseGap", position |-> op.old_position] >>
    [] op.type = "SetFavoriteTitle" ->
         << [do |-> "SetTitle", id |-> op.id, title |-> op.title] >>
    [] op.type = "UpdateContent" ->
         << [do |-> "DeleteContent", id |-> op.id],
            [do |-> "InsertContent", id |-> op.id, data |-> op.data],
            [do |-> "SetCreation", id |-> op.id, time |-> op.new_time] >>

-----------------------------------------------------------------------------
(* When the order of two statements matters: not where each is about the   *)
(* row, the content or the title of one entry, and not of the same.        *)

EntryStatements ==
  {"InsertEntry", "InsertContent", "DeleteEntry", "DeleteContent", "SetCreation", "SetTitle"}

Apart(s, t) == {s.do, t.do} \subseteq EntryStatements /\ s.id # t.id

Conflicts(s, task) == \E k \in DOMAIN task : ~Apart(s, task[k])

\* Statement s runs ahead of one of the first n tasks that it conflicts with.
Overtakes(s, n) == \E j \in 1 .. n : Conflicts(s, jobs[j])

\* No two favorites claim one place.
PositionsDistinct(d) ==
  \A x, y \in DOMAIN d.favs : x # y => d.favs[x].position # d.favs[y].position

-----------------------------------------------------------------------------
(* What reload makes of the tables                                         *)

\* The favorites by position, ties in the order of the table.
FavRows(d) ==
  LET before(x, y) == \/ d.favs[x].position < d.favs[y].position
                      \/ d.favs[x].position = d.favs[y].position /\ x < y
  IN  [i \in 1 .. Cardinality(DOMAIN d.favs) |->
        CHOOSE x \in DOMAIN d.favs : Cardinality({y \in DOMAIN d.favs : before(y, x)}) = i - 1]

\* Vec::insert panics past the end of the list.
FavsLoadable(d) ==
  \A i \in DOMAIN FavRows(d) : d.favs[FavRows(d)[i]].position <= i - 1

\* insert_at_with_title for each row, at its position.
LoadedFavs(d) ==
  LET insert[i \in 0 .. Len(FavRows(d))] ==
        IF i = 0 THEN << >>
        ELSE S!InsertAt(insert[i - 1], d.favs[FavRows(d)[i]].position + 1, FavRows(d)[i])
  IN  insert[Len(FavRows(d))]

WithFavs(st, d) ==
  [st EXCEPT !.favs = LoadedFavs(d),
             !.favSet = DOMAIN d.favs,
             !.titles = [id \in DOMAIN d.favs |-> d.favs[id].title]]

\* Seeded bug: the index is keyed by the time an entry was first inserted.
WithEntriesById(st, d) ==
  [st EXCEPT !.entries = [id \in DOMAIN d.rows |->
       [creation |-> d.rows[id], content |-> Blank,
        is_favorite |-> id \in st.favSet,
        favorite_title |-> IF id \in st.favSet THEN st.titles[id] ELSE None]],
             !.times = [t \in DOMAIN d.rows |-> t]]

WithEntries(st, d) ==
  [st EXCEPT !.entries = [id \in DOMAIN d.rows |->
       [creation |-> d.rows[id], content |-> Blank,
        is_favorite |-> id \in st.favSet,
        favorite_title |-> IF id \in st.favSet THEN st.titles[id] ELSE None]],
             !.times = [t \in {d.rows[id] : id \in DOMAIN d.rows} |->
                          CHOOSE id \in DOMAIN d.rows : d.rows[id] = t]]

WithContents(st, d) ==
  [st EXCEPT !.entries = [id \in DOMAIN @ |->
     IF id \in DOMAIN d.contents THEN [@[id] EXCEPT !.content = d.contents[id]] ELSE @[id]]]

\* The indexes by hash that reload may build: where entries share a hash it
\* keeps the one the HashMap iterates last.
HashIndexes(st) ==
  LET ids == DOMAIN st.entries
      hs == {Hash[st.entries[id].content] : id \in ids}
  IN  {f \in [hs -> ids] : \A h \in hs : Hash[st.entries[f[h]].content] = h}

\* The stores a start of the program may load.
Loaded(d) ==
  LET st == WithContents(WithEntries(WithFavs(EmptyStore, d), d), d)
  IN  IF FavsLoadable(d) THEN {[st EXCEPT !.hashs = h] : h \in HashIndexes(st)}
      ELSE {Panic(EmptyStore)}

-----------------------------------------------------------------------------
(* The handlers of the applet.  While handle_message runs (block_on on the *)
(* UI thread) there is none.                                               *)

Init ==
  /\ db = EmptyStore
  /\ clock = 0
  /\ disk = EmptyDisk
  /\ jobs = << >>
  /\ phase = "idle"
  /\ behind = FALSE /\ moved = FALSE
  /\ crashes = 0 /\ faults = 0
  /\ theirs = << >> /\ begun = 0
  /\ astray = FALSE

Up == phase = "idle" /\ ~db.panicked

Now == clock + 1

\* The tasks of both instances.
InFlight == Len(jobs) + (IF theirs = << >> THEN 0 ELSE 1)

\* Memory becomes new; each operation gets a task of its own.
Handle(new, ops) ==
  /\ Up
  /\ InFlight + Len(ops) <= MaxJobs
  /\ db' = new
  /\ jobs' = jobs \o [i \in DOMAIN ops |-> Statements(ops[i])]
  /\ UNCHANGED << phase, moved, crashes, faults, others >>

Tick == Now <= MaxTime /\ clock' = Now

Keep == UNCHANGED << clock, disk, behind, astray >>

\* ClipboardEvent(Data) and EditorEvent(SaveAsNew)
Copy(c) ==
  LET r == InsertToMemory(db, c, Now)
  IN  /\ Handle(r.db, IF r.op = None THEN << >> ELSE << r.op >>)
      /\ Tick /\ UNCHANGED << disk, behind, astray >>

\* The file keeps the positions of the other favorites, where memory closes the gap.
Delete(id) ==
  LET r == DeleteFromMemory(db, id)
  IN  /\ Handle(r.db, << r.op >>)
      /\ astray' = (astray \/ IsFavorite(db, id))
      /\ UNCHANGED << clock, disk, behind >>

ClearHistory ==
  LET r == ClearMemory(db) IN Handle(r.db, << r.op >>) /\ Keep

EditInPlace(id, c) ==
  LET r == UpdateContentInMemory(db, id, c, Now)
  IN  /\ ~TakenByOther(db, id, c)
      /\ Handle(r.db, << r.op >>) /\ Tick /\ UNCHANGED << disk, behind, astray >>

\* The fallback of UpdateExisting runs update_content on the store's own
\* connection, whose commits data_version does not report: the edited entry goes
\* from the file, then from memory, where the other one moves to the top.  If that
\* first statement fails, nothing changes.
EditMerges(id, c) ==
  /\ Up
  /\ TakenByOther(db, id, c)
  /\ phase' = "merging"
  /\ disk' = DeleteRows(disk, {id})
  /\ db' = MergeIntoOther(db, id, c, Now)
  /\ Tick
  /\ astray' = (astray \/ IsFavorite(db, id)
                 \/ Overtakes([do |-> "DeleteEntry", id |-> id], Len(jobs)))
  /\ UNCHANGED << jobs, behind, moved, crashes, faults, others >>

\* The statement a merge has left to run: the time of the entry now on top.
MergeStatement ==
  [do |-> "SetCreation", id |-> NewestId(db), time |-> db.entries[NewestId(db)].creation]

\* The second statement, while tasks go on and no other handler runs.
MergeBumps ==
  /\ phase = "merging" /\ ~db.panicked
  /\ phase' = "idle"
  /\ disk' = Exec(disk, MergeStatement).disk
  /\ astray' = (astray \/ Overtakes(MergeStatement, Len(jobs)))
  /\ UNCHANGED << db, clock, jobs, behind, moved, crashes, faults, others >>

\* It fails: the handler logs it, and memory keeps the time the file has not.
MergeFails ==
  /\ phase = "merging" /\ ~db.panicked
  /\ faults < MaxFaults
  /\ faults' = faults + 1
  /\ phase' = "idle"
  /\ astray' = TRUE
  /\ UNCHANGED << db, clock, disk, jobs, behind, moved, crashes, others >>

\* Two tasks: nothing makes the title wait for the favorite.
ConfirmFavorite(id, title) ==
  LET add == AddFavoriteToMemory(db, id)
      starred == IF IsFavorite(db, id) THEN db ELSE add.db
      named == SetFavoriteTitleInMemory(starred, id, title)
  IN  /\ IsFavorite(db, id) \/ Len(db.favs) < MaxFavs
      /\ Handle(named.db, IF IsFavorite(db, id) THEN << named.op >> ELSE << add.op, named.op >>)
      /\ Keep

RemoveFavorite(id) ==
  LET r == RemoveFavoriteFromMemory(db, id) IN Handle(r.db, << r.op >>) /\ Keep

\* Two tasks: nothing makes the favorite wait for its entry.
SelectionToFavorite(c) ==
  LET r == InsertToMemory(db, c, Now)
      id == NewestId(r.db)
      add == AddFavoriteToMemory(r.db, id)
  IN  /\ r.op # None /\ id \notin db.favSet \cup {None} /\ Len(db.favs) < MaxFavs
      /\ Handle(add.db, << r.op, add.op >>) /\ Tick /\ UNCHANGED << disk, behind, astray >>

\* list_view walks iter().
WalkList ==
  /\ Up /\ IterPanics(db)
  /\ db' = Panic(db)
  /\ UNCHANGED << clock, disk, jobs, phase, behind, moved, crashes, faults, others, astray >>

-----------------------------------------------------------------------------
(* The background tasks                                                    *)

\* What a commit of another connection does to the file and the versions; a
\* connection yet to be opened starts with the file's version.
Committed(d) ==
  /\ disk' = d
  /\ behind' = (phase # "down" /\ (behind \/ d # disk))
  /\ moved' = (phase \in {"favs", "entries", "contents"} /\ (moved \/ d # disk))

\* Task i runs its next statement; a failed one ends the task.
RunStatement(i) ==
  LET r == Exec(disk, Head(jobs[i]))
  IN  /\ Committed(r.disk)
      /\ astray' = (astray \/ Overtakes(Head(jobs[i]), i - 1))
      /\ jobs' = IF r.ok /\ Len(jobs[i]) > 1 THEN [jobs EXCEPT ![i] = Tail(@)]
                 ELSE S!RemoveAt(jobs, i)
      /\ UNCHANGED << db, clock, phase, crashes, faults, others >>

\* A statement, or the opening of the connection, fails for an outside reason;
\* DbPersistComplete only logs it.
TaskFails(i) ==
  /\ faults < MaxFaults
  /\ faults' = faults + 1
  /\ jobs' = S!RemoveAt(jobs, i)
  /\ astray' = TRUE
  /\ UNCHANGED << db, clock, disk, phase, behind, moved, crashes, others >>

-----------------------------------------------------------------------------
(* A second instance on the same file, without the lock.  It never inserts *)
(* nor prunes, but deletes, edits and stars like this one, on a memory     *)
(* loaded from the file before.                                            *)

\* What its handlers spawn: the operations that read no clock.
UntimedOps(st) ==
  {ClearMemory(st).op}
  \cup {DeleteFromMemory(st, id).op : id \in DOMAIN st.entries}
  \cup {AddFavoriteToMemory(st, id).op :
          id \in {x \in DOMAIN st.entries \ st.favSet : Len(st.favs) < MaxFavs}}
  \cup {RemoveFavoriteFromMemory(st, id).op : id \in st.favSet}
  \cup {SetFavoriteTitleInMemory(st, id, t).op : id \in st.favSet, t \in Titles \cup {None}}

\* What an edit in place spawns, or the statements of an edit that merges.
EditStatements(st, id, c) ==
  IF TakenByOther(st, id, c)
    THEN << [do |-> "DeleteEntry", id |-> id],
            [do |-> "SetCreation", id |-> st.hashs[Hash[c]], time |-> Now] >>
    ELSE Statements(UpdateContentInMemory(st, id, c, Now).op)

\* A handler of the second instance; its task has yet to run.
OtherActs ==
  /\ theirs = << >> /\ begun < MaxOthers /\ InFlight < MaxJobs
  /\ begun' = begun + 1
  /\ \E st \in Loaded(disk) :
       /\ ~st.panicked
       /\ \/ /\ \E op \in UntimedOps(st) : theirs' = Statements(op)
             /\ UNCHANGED clock
          \/ /\ \E id \in DOMAIN st.entries, c \in Copyable : theirs' = EditStatements(st, id, c)
             /\ Tick
  /\ UNCHANGED << db, disk, jobs, phase, behind, moved, crashes, faults, astray >>

\* Its task goes on, whether this instance is up or down.
OtherRuns ==
  LET r == Exec(disk, Head(theirs))
  IN  /\ theirs # << >>
      /\ theirs' = IF r.ok THEN Tail(theirs) ELSE << >>
      /\ Committed(r.disk)
      /\ astray' = TRUE
      /\ UNCHANGED << db, clock, jobs, phase, crashes, faults, begun >>

-----------------------------------------------------------------------------
(* handle_message(CheckUpdate) and reload                                  *)

\* The version is fetched, differs, and reload empties the maps.
StartReload ==
  /\ Up /\ behind
  /\ phase' = "favs"
  /\ astray' = TRUE
  /\ moved' = FALSE
  /\ db' = [EmptyStore EXCEPT !.query = db.query, !.filtered = db.filtered]
  /\ UNCHANGED << clock, disk, jobs, behind, crashes, faults, others >>

ReadFavs ==
  /\ phase = "favs" /\ ~db.panicked
  /\ phase' = "entries"
  /\ db' = IF FavsLoadable(disk) THEN WithFavs(db, disk) ELSE Panic(db)
  /\ UNCHANGED << clock, disk, jobs, behind, moved, crashes, faults, others, astray >>

ReadEntries ==
  /\ phase = "entries" /\ ~db.panicked
  /\ phase' = "contents"
  /\ db' = WithEntries(db, disk)
  /\ UNCHANGED << clock, disk, jobs, behind, moved, crashes, faults, others, astray >>

\* Nothing was on its way while the three SELECTs ran, and the favorites can be
\* numbered as they were.
Reread == jobs = << >> /\ ~moved /\ PositionsDistinct(disk)

\* Seeded bug: the stored version is the one after the reload.
ReadContentsLateVersion ==
  /\ phase = "contents" /\ ~db.panicked
  /\ phase' = "idle"
  /\ \E h \in HashIndexes(WithContents(db, disk)) :
       db' = Search([WithContents(db, disk) EXCEPT !.hashs = h])
  /\ behind' = FALSE /\ moved' = FALSE
  /\ astray' = ~Reread
  /\ UNCHANGED << clock, disk, jobs, crashes, faults, others >>

\* The contents, a content whose entry was not read being fatal, then the
\* hashes, the search, and the version fetched before it all.
ReadContents ==
  /\ phase = "contents" /\ ~db.panicked
  /\ phase' = "idle"
  /\ IF DOMAIN disk.contents \subseteq Live
       THEN \E h \in HashIndexes(WithContents(db, disk)) :
              db' = Search([WithContents(db, disk) EXCEPT !.hashs = h])
       ELSE db' = Panic(db)
  /\ behind' = moved /\ moved' = FALSE
  /\ astray' = ~Reread
  /\ UNCHANGED << clock, disk, jobs, crashes, faults, others >>

\* A failed SELECT leaves what was read so far, and the version as it was.
ReadFails ==
  /\ phase \in {"favs", "entries", "contents"} /\ ~db.panicked
  /\ faults < MaxFaults
  /\ faults' = faults + 1
  /\ phase' = "idle"
  /\ moved' = FALSE
  /\ UNCHANGED << db, clock, disk, jobs, behind, crashes, others, astray >>

-----------------------------------------------------------------------------
(* Stopping and starting                                                   *)

\* The process dies, and its tasks with it.
Crash ==
  /\ phase # "down" /\ crashes < MaxCrashes
  /\ crashes' = crashes + 1
  /\ phase' = "down"
  /\ db' = EmptyStore /\ jobs' = << >>
  /\ behind' = FALSE /\ moved' = FALSE
  /\ UNCHANGED << clock, disk, faults, others, astray >>

\* on_app_exit: tasks still running are abandoned, too.
Exit ==
  /\ Up /\ crashes < MaxCrashes
  /\ disk' = IF UniqueSession THEN DeleteRows(disk, NonFavorites(disk)) ELSE disk
  /\ crashes' = crashes + 1
  /\ phase' = "down"
  /\ db' = EmptyStore /\ jobs' = << >>
  /\ behind' = FALSE /\ moved' = FALSE
  /\ UNCHANGED << clock, faults, others, astray >>

\* with_path: the entries that are too old go.
PrunedByAge(d, now) ==
  IF Lifetime = None \/ ~OwnsLock THEN d
  ELSE DeleteRows(d, {id \in NonFavorites(d) : now - d.rows[id] >= Lifetime})

\* Seeded bug: the offset skips one entry more.
PrunedByLaterOffset(d) ==
  LET newer(t) == {id \in DOMAIN d.rows : d.rows[id] > t}
  IN  IF MaxEntries = None \/ ~OwnsLock THEN d
      ELSE DeleteRows(d, {id \in NonFavorites(d) : Cardinality(newer(d.rows[id])) > MaxEntries + 1})

\* with_path: the entries older than the one LIMIT 1 OFFSET max finds go.
PrunedByNumber(d) ==
  LET newer(t) == {id \in DOMAIN d.rows : d.rows[id] > t}
  IN  IF MaxEntries = None \/ ~OwnsLock THEN d
      ELSE DeleteRows(d, {id \in NonFavorites(d) : Cardinality(newer(d.rows[id])) > MaxEntries})

Restart ==
  /\ phase = "down"
  /\ phase' = "idle"
  /\ \E now \in Now .. MaxTime + 2 :
       disk' = PrunedByNumber(PrunedByAge(disk, now))
  /\ db' \in Loaded(disk')
  /\ astray' = ~PositionsDistinct(disk')
  /\ UNCHANGED << clock, jobs, behind, moved, crashes, faults, others >>

Handlers ==
  \/ \E c \in Copyable : Copy(c)
  \/ \E c \in Copyable : SelectionToFavorite(c)
  \/ \E id \in Live, c \in Copyable : EditInPlace(id, c)
  \/ \E id \in Live, c \in Copyable : EditMerges(id, c)
  \/ \E id \in Live : Delete(id)
  \/ \E id \in Live, title \in Titles \cup {None} : ConfirmFavorite(id, title)
  \/ \E id \in db.favSet : RemoveFavorite(id)
  \/ ClearHistory
  \/ WalkList

Reload == StartReload \/ ReadFavs \/ ReadEntries \/ ReadContents

Next ==
  \/ Handlers
  \/ MergeBumps
  \/ MergeFails
  \/ \E i \in DOMAIN jobs : RunStatement(i)
  \/ \E i \in DOMAIN jobs : TaskFails(i)
  \/ OtherActs
  \/ OtherRuns
  \/ Reload
  \/ ReadFails
  \/ Crash
  \/ Exit
  \/ Restart

Spec == Init /\ [][Next]_vars

\* The executor runs every task, the timer fires, the session starts the
\* applet again.  The user may stop at any time; nothing makes a crash happen.
Fairness ==
  /\ WF_vars(\E i \in DOMAIN jobs : RunStatement(i))
  /\ WF_vars(MergeBumps)
  /\ WF_vars(OtherRuns)
  /\ WF_vars(Reload)
  /\ WF_vars(Restart)

FairSpec == Spec /\ Fairness

-----------------------------------------------------------------------------
(* Properties                                                              *)

Store == INSTANCE ClipboardStore
  WITH Queries <- {}, Ticks <- {1}, StaleEdits <- FALSE, StaleConfirms <- FALSE,
       Refavorites <- FALSE

DiskTypeOK ==
  /\ IsMap(disk.rows, 1 .. MaxTime, 1 .. MaxTime)
  /\ IsMap(disk.contents, DOMAIN disk.rows, Copyable)
  /\ DOMAIN disk.favs \subseteq DOMAIN disk.rows
  /\ \A id \in DOMAIN disk.favs : /\ disk.favs[id].position \in Nat
                                  /\ disk.favs[id].title \in Titles \cup {None}

\* The types of all variables; the tables also obey the schema, foreign keys
\* and CHECK included.
TypeOK ==
  /\ Store!TypeOK
  /\ DiskTypeOK
  /\ Len(jobs) <= MaxJobs /\ \A i \in DOMAIN jobs : jobs[i] # << >>
  /\ phase \in {"idle", "merging", "favs", "entries", "contents", "down"}
  /\ {behind, moved, astray} \subseteq BOOLEAN
  /\ crashes \in 0 .. MaxCrashes /\ faults \in 0 .. MaxFaults
  /\ begun \in 0 .. MaxOthers /\ (theirs # << >> => begun > 0)

\* Memory and the file hold the same history: entries, order, favorites, titles.
Mirrors ==
  /\ DOMAIN disk.rows = Live
  /\ \A id \in Live :
       LET e == db.entries[id]
       IN  /\ e.creation = disk.rows[id]
           /\ e.content = IF id \in DOMAIN disk.contents THEN disk.contents[id] ELSE Blank
           /\ e.is_favorite <=> id \in DOMAIN disk.favs
           /\ e.is_favorite => e.favorite_title = disk.favs[id].title
  /\ FavsLoadable(disk) /\ db.favs = LoadedFavs(disk)

\* When no task is left the file holds what memory holds, so a crash then
\* loses nothing: persist_op does to the tables exactly what the operation
\* did to memory, position shifts and evictions included, and tasks of different
\* entries may run in any order.  Since the last load that nothing crossed, no
\* statement overtook one it conflicts with, none failed, no second instance
\* wrote, and no favorite was deleted.
InSync == Up /\ jobs = << >> /\ ~astray => Mirrors

\* Whatever tasks, of this instance or of another, commit between the statements
\* of a reload, memory that the store believes to be current is current once no
\* task is left, provided none of them failed for an outside reason.  With favorites
\* a task may fail for a reason of the program's own: CloseGap onto a taken position.
NoMissedUpdate == Up /\ jobs = << >> /\ theirs = << >> /\ ~behind /\ faults = 0 => Mirrors

\* A reload amid running tasks, even one that fails halfway, leaves the indexes on which
\* the assert! and unwrap of insert_to_memory rely.
IndexesExact ==
  Up => Store!TimesExact /\ Store!HashesLive /\ Store!FavoritesAgree

\* Nothing dies on a missing key, a failed assert! or an insert out of range.
NoPanic == ~db.panicked


\* However many evictions a crash cut off, the next start leaves at most one
\* entry more than maximum_entries_number, the favorites not counted.
StartPrunes ==
  [][Restart /\ OwnsLock /\ MaxEntries # None =>
       Cardinality({id \in Live' : ~db'.entries[id].is_favorite}) <= MaxEntries + 1]_vars

\* A handler ran: it changed memory or spawned a task.
UserActs == phase = "idle" /\ phase' \in {"idle", "merging"} /\ (db' # db \/ Len(jobs') > Len(jobs))

\* Once the user stops, memory and file agree for good, unless the applet
\* died: no order of task completions and reloads leaves the two
\* apart for ever.
Converges == <>[][~UserActs]_vars => <>[](db.panicked \/ Mirrors)
=============================================================================
