---------------------------- MODULE SchemaUpgrade ----------------------------
(***************************************************************************)
(* connect(): every process that opens a database first brings its schema  *)
(* up to date.  The connection is in autocommit mode, so that every SQL    *)
(* statement is a transaction of its own: other processes that open the    *)
(* same database interleave between any two of them, and a process may die *)
(* there.  Which statements a process executes depends on the version it   *)
(* read at the start, and on nothing it could read later.                  *)
(*                                                                         *)
(* A script between BEGIN and COMMIT is one statement here.  The text of a *)
(* memory is its identity; the full-text index is the set of the           *)
(* <<rowid, memory>> pairs it would find.                                  *)
(***************************************************************************)
EXTENDS Integers, FiniteSets, FiniteSetsExt, Functions, Sequences

CONSTANTS
  Procs,       \* processes that open the database
  Mems,        \* memories
  Old,         \* a sequence of memories: those the database starts with
  Starts,      \* the schema versions it may start with; 0 is no database
  MaxRowid,    \* bound: no rows beyond this one
  MaxCrashes   \* bound: processes that die while they open the database

ASSUME UpgradeAssumption ==
  /\ Old \in Seq(Mems) /\ Starts \subseteq 0..7
  /\ MaxRowid \in Nat /\ MaxCrashes \in Nat

VARIABLES
  disk,      \* the database file
  mode,      \* what each process has of it
  todo,      \* the statements its connect() has still to execute
  crashes    \* processes that have died so far

vars == <<disk, mode, todo, crashes>>

Current == 6   \* SCHEMA_VERSION

MetaKeys == {"schema_version", "min_reader_version", "min_writer_version", "upgrade_hint"}
Objects == {"memories", "memories_fts", "triggers", "indexes", "memory_labels"}

\* A row's project is "none" before there is such a column.
ProjectIds == {"none", "default", "own"}

TypeOK ==
  /\ disk \in [meta : [MetaKeys -> Nat],        \* 0 is no such key
               objects : SUBSET Objects,
               project : BOOLEAN,               \* memories has project_id
               fleet : BOOLEAN,                 \* its CHECK knows fleet_member
               rows : SUBSET [rowid : Nat, mem : Mems, project : ProjectIds],
               fts : SUBSET (Nat \X Mems)]
  /\ mode \in [Procs -> {"closed", "opening", "opening_read_only",
                         "ready", "read_only", "refused"}]
  /\ \A p \in Procs : mode[p] \notin {"opening", "opening_read_only"} => todo[p] = <<>>
  /\ crashes \in 0..MaxCrashes

Version == disk.meta["schema_version"]

-----------------------------------------------------------------------------
\* Databases as earlier versions left them.  Before version 3 there was no
\* full-text index; in version 3 deletions have left a gap in the rowids.
MetaOf(version, reader, writer) ==
  [k \in MetaKeys |-> CASE k = "schema_version" -> version
                        [] k = "min_reader_version" -> reader
                        [] k = "min_writer_version" -> writer
                        [] k = "upgrade_hint" -> IF reader = 0 THEN 0 ELSE 1]

OldRows(version) ==
  {[rowid |-> 2 * i, mem |-> Old[i], project |-> IF version < 3 THEN "none" ELSE "own"]
     : i \in DOMAIN Old}

Indexed(rows) == {<<m.rowid, m.mem>> : m \in rows}

OldDatabase(version, reader, writer) ==
  [meta |-> MetaOf(version, reader, writer),
   objects |-> CASE version = 0 -> {}
                 [] version \in {1, 2} -> {"memories"}
                 [] version \in 3..5 -> Objects \ {"memory_labels"}
                 [] version = 6 -> Objects,
   project |-> version >= 3, fleet |-> version >= 4,
   rows |-> IF version = 0 THEN {} ELSE OldRows(version),
   fts |-> IF version < 3 THEN {} ELSE Indexed(OldRows(version))]

\* A newer database need not have what version 6 has: it may have other tables
\* under other names.  What it has is usable: triggers and indexes come with
\* their table.  A table it calls memories has the columns of this version.
NewerObjects ==
  {objects \in SUBSET Objects :
     /\ "triggers" \in objects => {"memories", "memories_fts"} \subseteq objects
     /\ "indexes" \in objects => "memories" \in objects}

NewerDatabase(reader, writer, objects) ==
  LET rows == IF "memories" \in objects THEN OldRows(7) ELSE {} IN
  [meta |-> MetaOf(7, reader, writer), objects |-> objects,
   project |-> "memories" \in objects, fleet |-> "memories" \in objects,
   rows |-> rows, fts |-> IF "memories_fts" \in objects THEN Indexed(rows) ELSE {}]

\* Version 6 was once created with min_writer_version 6; a newer database may
\* ask for anything, or have lost the keys.
LeftBy(v) ==
  CASE v \in 0..4 -> {OldDatabase(v, 0, 0)}
    [] v = 5 -> {OldDatabase(5, 1, 5)}
    [] v = 6 -> {OldDatabase(6, 1, w) : w \in {5, 6}}
    [] v = 7 -> {NewerDatabase(r, w, o) : r \in {0, 1, 7}, w \in {0, 5, 7}, o \in NewerObjects}

Databases == UNION {LeftBy(v) : v \in Starts}

Init ==
  /\ disk \in Databases
  /\ mode = [p \in Procs |-> "closed"]
  /\ todo = [p \in Procs |-> <<>>]
  /\ crashes = 0

-----------------------------------------------------------------------------
\* The statements.

Set(key, value) == [op |-> "set", key |-> key, value |-> value]
SetVersion(v) == Set("schema_version", v)
AddProject == [op |-> "add_project"]
RebuildTable == [op |-> "rebuild_table"]
RebuildIndex == [op |-> "rebuild_index"]
Create(object) == [op |-> "create", object |-> object]

\* INSERT INTO memories_new SELECT: rowids are given out anew, without gaps.
Renumbered(rows) ==
  {[m EXCEPT !.rowid = Cardinality({o \in rows : o.rowid <= m.rowid})] : m \in rows}

\* Mutant: SELECT *, which puts the second column, the kind, into project_id.
EffectOfRebuildByPosition(d) ==
  [d EXCEPT !.fleet = TRUE, !.objects = @ \union {"triggers", "indexes"},
            !.rows = {[m EXCEPT !.project = "kind"] : m \in Renumbered(@)}]

EffectOfRebuild(d) ==
  [d EXCEPT !.fleet = TRUE, !.objects = @ \union {"triggers", "indexes"}, !.rows = Renumbered(@)]

\* CREATE ... IF NOT EXISTS: a new memories table has its present form.
EffectOfCreate(d, object) ==
  IF object = "memories" /\ object \notin d.objects
  THEN [d EXCEPT !.objects = @ \union {object}, !.project = TRUE, !.fleet = TRUE]
  ELSE [d EXCEPT !.objects = @ \union {object}]

Effect(d, s) ==
  CASE s.op = "set" -> [d EXCEPT !.meta[s.key] = s.value]
    [] s.op = "add_project" ->
         [d EXCEPT !.project = TRUE,
                   !.rows = {[m EXCEPT !.project = "default"] : m \in @}]
    [] s.op = "rebuild_table" -> EffectOfRebuild(d)
    [] s.op = "create" -> EffectOfCreate(d, s.object)
    [] s.op = "rebuild_index" -> [d EXCEPT !.fts = Indexed(d.rows)]

\* "duplicate column name" and "no such column".
Raises(d, s) ==
  \/ s.op = "add_project" /\ d.project
  \/ s.op = "rebuild_table" /\ ~d.project
  \/ s.op = "create" /\ s.object = "indexes" /\ ~d.project

-----------------------------------------------------------------------------
\* The statements of a connect() that has read these _meta values.

Seed == << Set("min_reader_version", 1), Set("min_writer_version", 5),
           Set("upgrade_hint", 1) >>

\* Mutant: the version is written before the step it stands for.
VersionBeforeStep(v) ==
  CASE v = 1 -> << SetVersion(2) >>
    [] v = 2 -> << AddProject, SetVersion(3) >>
    [] v = 3 -> << SetVersion(4), RebuildTable >>
    [] v = 4 -> Append(Seed, SetVersion(5))
    [] v = 5 -> << SetVersion(6), Create("memory_labels") >>

\* _migrate_v1_to_v2 ... _migrate_v5_to_v6
MigrationStep(v) ==
  CASE v = 1 -> << SetVersion(2) >>
    [] v = 2 -> << AddProject, SetVersion(3) >>
    [] v = 3 -> << RebuildTable, SetVersion(4) >>
    [] v = 4 -> Append(Seed, SetVersion(5))
    [] v = 5 -> << Create("memory_labels"), SetVersion(6) >>

\* One `if current_version == n` after the other.
From(v, n) == IF v <= n THEN MigrationStep(n) ELSE <<>>
Chain(v) == From(v, 1) \o From(v, 2) \o From(v, 3) \o From(v, 4) \o From(v, 5)

\* Mutant: the schema is not created for databases that needed no migration.
InitSchemaOfNone == << >>

InitSchema ==
  << Create("memories"), Create("memories_fts"), Create("triggers"),
     Create("indexes"), Create("memory_labels") >>

RunMigrations(meta) ==
  CASE meta["schema_version"] = 0 -> << SetVersion(Current) >> \o Seed
    [] meta["schema_version"] = Current ->
         IF meta["min_writer_version"] = 6 THEN << Set("min_writer_version", 5) >> ELSE <<>>
    [] meta["schema_version"] \in 1..(Current - 1) -> Chain(meta["schema_version"])
    [] OTHER -> <<>>

\* Mutant: only databases that had an index before need a new one.
NeedsRebuildOf3(meta) == meta["schema_version"] = 3

NeedsRebuild(meta) == meta["schema_version"] \in 1..3

\* Mutant: the schema script before the migration chain.
SchemaFirst(meta) ==
  InitSchema \o RunMigrations(meta) \o IF NeedsRebuild(meta) THEN << RebuildIndex >> ELSE <<>>

Statements(meta) ==
  RunMigrations(meta) \o InitSchema \o IF NeedsRebuild(meta) THEN << RebuildIndex >> ELSE <<>>

\* _handle_newer_than_code_schema: when one of the two keys cannot be read,
\* both count as the database's version.
Demands(meta) ==
  LET known == meta["min_reader_version"] # 0 /\ meta["min_writer_version"] # 0
  IN  [reader |-> IF known THEN meta["min_reader_version"] ELSE meta["schema_version"],
       writer |-> IF known THEN meta["min_writer_version"] ELSE meta["schema_version"]]

Refused(meta) ==
  /\ meta["schema_version"] > Current
  /\ Current < Demands(meta).writer /\ Current < Demands(meta).reader

ReadOnly(meta) ==
  /\ meta["schema_version"] > Current
  /\ Current < Demands(meta).writer /\ Current >= Demands(meta).reader

-----------------------------------------------------------------------------
Goto(p, m) == mode' = [mode EXCEPT ![p] = m]

Open(p) ==
  /\ mode[p] = "closed"
  /\ IF Refused(disk.meta)
     THEN Goto(p, "refused") /\ UNCHANGED todo
     ELSE /\ Goto(p, IF ReadOnly(disk.meta) THEN "opening_read_only" ELSE "opening")
          /\ todo' = [todo EXCEPT ![p] = Statements(disk.meta)]
  /\ UNCHANGED <<disk, crashes>>

\* A statement raises: so does connect(), and the connection is dropped.
Fail(p) ==
  /\ todo[p] # <<>> /\ Raises(disk, Head(todo[p]))
  /\ Goto(p, "closed")
  /\ todo' = [todo EXCEPT ![p] = <<>>]
  /\ UNCHANGED <<disk, crashes>>

Execute(p) ==
  /\ todo[p] # <<>> /\ ~Raises(disk, Head(todo[p]))
  /\ disk' = Effect(disk, Head(todo[p]))
  /\ todo' = [todo EXCEPT ![p] = Tail(@)]
  /\ UNCHANGED <<mode, crashes>>

Opened(p) ==
  /\ mode[p] \in {"opening", "opening_read_only"} /\ todo[p] = <<>>
  /\ Goto(p, IF mode[p] = "opening" THEN "ready" ELSE "read_only")
  /\ UNCHANGED <<disk, todo, crashes>>

Close(p) ==
  /\ mode[p] \in {"ready", "read_only", "refused"}
  /\ Goto(p, "closed")
  /\ UNCHANGED <<disk, todo, crashes>>

\* The process dies, or a statement cannot get the write lock in time.
Crash(p) ==
  /\ mode[p] \in {"opening", "opening_read_only"}
  /\ crashes < MaxCrashes /\ crashes' = crashes + 1
  /\ Goto(p, "closed")
  /\ todo' = [todo EXCEPT ![p] = <<>>]
  /\ UNCHANGED disk

\* INSERT, with memories_ai.
Insert(p, m) ==
  LET rowid == IF disk.rows = {} THEN 1 ELSE Max({o.rowid : o \in disk.rows}) + 1 IN
  /\ mode[p] = "ready"
  /\ rowid <= MaxRowid /\ \A o \in disk.rows : o.mem # m
  /\ disk' = [disk EXCEPT
                !.rows = @ \union {[rowid |-> rowid, mem |-> m, project |-> "own"]},
                !.fts = @ \union {<<rowid, m>>}]
  /\ UNCHANGED <<mode, todo, crashes>>

\* Mutant: maintenance does not ask whether its connection is read-only.
DeleteUnchecked(p, m) ==
  /\ mode[p] \in {"ready", "read_only"}
  /\ disk' = [disk EXCEPT !.rows = @ \ {m}, !.fts = @ \ {<<m.rowid, m.mem>>}]
  /\ UNCHANGED <<mode, todo, crashes>>

\* The DELETE of maintenance, with memories_ad.
Delete(p, m) ==
  /\ mode[p] = "ready"
  /\ disk' = [disk EXCEPT !.rows = @ \ {m}, !.fts = @ \ {<<m.rowid, m.mem>>}]
  /\ UNCHANGED <<mode, todo, crashes>>

Progress(p) == Open(p) \/ Fail(p) \/ Execute(p) \/ Opened(p)

Next ==
  \E p \in Procs :
    \/ Progress(p)
    \/ Close(p)
    \/ Crash(p)
    \/ \E m \in Mems : Insert(p, m)
    \/ \E m \in disk.rows : Delete(p, m)

Spec == Init /\ [][Next]_vars

\* A process that could not open the database is started again (the next
\* command, hook or tool call), and one that runs is not stopped for ever.
FairSpec == Spec /\ \A p \in Procs : WF_vars(Progress(p))

-----------------------------------------------------------------------------
(***************************************************************************)
(* Properties.                                                             *)
(***************************************************************************)
NobodyOpens == \A p \in Procs : mode[p] # "opening"

\* n is the memory o, with its project.  (Rows of versions without projects belong
\* to "default".)
SameMemory(o, n) ==
  n.mem = o.mem /\ (n.project = o.project \/ (o.project = "none" /\ n.project = "default"))

\* Every statement of connect() leaves each memory exactly once and in its project,
\* whatever version the database starts from and however often and by whomever
\* a step is repeated.
UpgradeKeepsRows ==
  [][todo' # todo =>
       \E f \in Bijection(disk.rows, disk'.rows) : \A o \in disk.rows : SameMemory(o, f[o])]_vars

\* An up-to-date database has all its tables, and tells other versions of the
\* program whether they may read and write it, unless somebody died upgrading.
UpgradeFinished ==
  crashes = 0 /\ NobodyOpens /\ Version = Current =>
    disk.objects = Objects /\ \A k \in MetaKeys : disk.meta[k] # 0

\* A new database: connect() writes its version before it creates a table, and
\* there is no memory in it before it has all of them.
BeingCreated == Version = Current /\ disk.rows = {} /\ disk.objects # Objects

\* The version on disk never promises a table or a column that the file lacks,
\* unless the database is being created: also when a slow process repeats steps
\* that others have taken, and also when one died on the way.
VersionTruthful ==
  /\ Version <= Current => BeingCreated \/
       /\ Version >= 1 => "memories" \in disk.objects
       /\ Version >= 3 => disk.project
       /\ Version >= 4 => disk.fleet
       /\ Version >= 6 => "memory_labels" \in disk.objects
  /\ UpgradeFinished

\* A process that has opened the database finds the whole schema.
ReadyComplete ==
  \A p \in Procs : mode[p] = "ready" =>
    disk.project /\ disk.fleet /\ disk.objects = Objects

\* The full-text index finds the memories there are, each under its row, once
\* those who are upgrading are done and while nobody has died upgrading.  (Of a
\* newer database without memories_fts, nobody rebuilds the index.)
IndexAligned ==
  crashes = 0 /\ NobodyOpens /\ Version <= Current /\ (\E p \in Procs : mode[p] = "ready") =>
    disk.fts = Indexed(disk.rows)

\* No sequence of openings leaves a database that cannot be opened any more.
Reopenable == NobodyOpens /\ Version \in 1..2 => ~disk.project

\* The tier on which a database is opened to read only.
AsksForNewer == Version > Current /\ Demands(disk.meta).writer > Current

\* Of a database that asks for a newer writer this program keeps the memories, the
\* index, the columns and what _meta says, whoever stores, maintains or dies at
\* the time; all it may do is to create what version 6 has and the newer lacks.
NewerKept ==
  [][AsksForNewer =>
       /\ disk'.meta = disk.meta /\ disk'.rows = disk.rows /\ disk'.fts = disk.fts
       /\ disk.objects \subseteq disk'.objects
       /\ "memories" \in disk.objects =>
            disk'.project = disk.project /\ disk'.fleet = disk.fleet]_vars

\* Who keeps trying opens the database, whatever the others left half done: when
\* it starts from version 2, only if nobody dies; when it starts from version 1, a
\* slow second process is enough to prevent it (see Reopenable).
OpensEventually ==
  Version \in {0} \union 2..Current /\ (Version = 2 => [](crashes = 0)) =>
    \A p \in Procs : mode[p] = "closed" ~> mode[p] = "ready"
=============================================================================
