---------------------------- MODULE Maintenance ----------------------------
(***************************************************************************)
(* run_maintenance, which every connect() for a project runs on the        *)
(* project's database before it returns: a sequence of statements, each    *)
(* committed on its own, while other processes store and migrate.  What    *)
(* fails stops the sequence; connect() writes that to the audit log and    *)
(* goes on.                                                                *)
(*                                                                         *)
(* Of the statements only the pruning changes what is modelled here: the   *)
(* memories, their labels and, through SELECT MAX, the ids that the next   *)
(* stores will get.                                                        *)
(***************************************************************************)
EXTENDS Naturals, FiniteSets, FiniteSetsExt

CONSTANTS
  Procs,
  Projects,     \* projects with memories in this database
  Serves,       \* the project of each process
  ReadOnly,     \* the processes whose connections are read-only
  AgeDays,      \* prune_superseded_age_days
  MaxPerTask,   \* prune_superseded_max_per_task
  MaxDate,      \* bound: days
  MaxRows,      \* bound: ids ever given, and the number in an id
  MaxArrivals,  \* bound: memories that migrations insert
  MaxFailures   \* bound: statements that fail and processes that die

ASSUME MaintenanceAssumption ==
  /\ Serves \in [Procs -> Projects] /\ ReadOnly \subseteq Procs
  /\ AgeDays \in Nat \ {0} /\ MaxPerTask \in Nat \ {0}
  /\ MaxDate \in Nat /\ MaxRows \in Nat
  /\ MaxArrivals \in Nat /\ MaxFailures \in Nat

VARIABLES
  rows,      \* memories, with "has a row in memory_labels" and "was migrated"
  date,      \* today
  given,     \* the ids ever borne by a memory of this database (history)
  arrivals,  \* memories inserted by migrations
  pc,        \* the statement a process is about to execute
  pruned,    \* stats["pruned_count"]
  failures

vars == <<rows, date, given, arrivals, pc, pruned, failures>>

Ids == (0..MaxDate) \X (1..MaxRows)
Memory == [id : Ids, project : Projects, active : BOOLEAN, labelled : BOOLEAN,
           arrived : BOOLEAN]

\* "optimize" stands for the FTS optimize, VACUUM and ANALYZE.
Steps == {"checkpoint", "prune", "optimize", "check"}

TypeOK ==
  /\ rows \subseteq Memory
  /\ date \in 0..MaxDate
  /\ given \subseteq Ids
  /\ arrivals \in 0..MaxArrivals
  /\ pc \in [Procs -> Steps \union {"idle"}]
  /\ pruned \in [Procs -> 0..MaxPerTask]
  /\ failures \in 0..MaxFailures

Init ==
  /\ rows = {} /\ date = 0 /\ given = {} /\ arrivals = 0 /\ failures = 0
  /\ pc = [p \in Procs |-> "idle"] /\ pruned = [p \in Procs |-> 0]

-----------------------------------------------------------------------------
\* What other calls do to the database meanwhile.

\* generate_memory_id
NextId(d) ==
  <<d, 1 + Max({0} \union {m.id[2] : m \in {m \in rows : m.id[1] = d}})>>

\* A store, in one transaction: it may retire an active memory of its project,
\* and its date is yesterday's if it began before midnight.
Store(q, stamp, labelled, retired) ==
  /\ Cardinality(given) < MaxRows /\ NextId(stamp) \in Ids
  /\ rows' = { [m EXCEPT !.active = m.active /\ m \notin retired] : m \in rows }
               \union {[id |-> NextId(stamp), project |-> q, active |-> TRUE,
                        labelled |-> labelled, arrived |-> FALSE]}
  /\ given' = given \union {NextId(stamp)}
  /\ UNCHANGED <<date, arrivals, pc, pruned, failures>>

InUse(i) == \E m \in rows : m.id = i

\* _remap_collided_memory_id
TargetId(i) == IF InUse(i) THEN NextId(i[1]) ELSE i

\* A migration into this database: the memory keeps the id and the created_at
\* it has in its own, whatever has become of that id here, and the status.
MigrateIn(q, i, active, labelled) ==
  /\ arrivals < MaxArrivals
  /\ i[1] <= date /\ TargetId(i) \in Ids
  /\ TargetId(i) \in given \/ Cardinality(given) < MaxRows
  /\ rows' = rows \union {[id |-> TargetId(i), project |-> q, active |-> active,
                           labelled |-> labelled, arrived |-> TRUE]}
  /\ given' = given \union {TargetId(i)}
  /\ arrivals' = arrivals + 1
  /\ UNCHANGED <<date, pc, pruned, failures>>

\* A repeated migration finds its memory here and adds the labels.
MigrateAgain(m) ==
  /\ rows' = (rows \ {m}) \union {[m EXCEPT !.labelled = TRUE]}
  /\ UNCHANGED <<date, given, arrivals, pc, pruned, failures>>

\* A migration out of this database invalidates the memory here.
MigrateOut(m) ==
  /\ rows' = (rows \ {m}) \union {[m EXCEPT !.active = FALSE]}
  /\ UNCHANGED <<date, given, arrivals, pc, pruned, failures>>

NextDay ==
  /\ date < MaxDate /\ date' = date + 1
  /\ UNCHANGED <<rows, given, arrivals, pc, pruned, failures>>

-----------------------------------------------------------------------------
\* The maintenance.

Goto(p, step) == pc' = [pc EXCEPT ![p] = step]

\* The call returns its stats, or raises; connect() goes on in either case.
End(p) == Goto(p, "idle") /\ pruned' = [pruned EXCEPT ![p] = 0]

\* Mutant: a memory is old once its day is over.
OldTomorrow(m) == m.id[1] < date

\* created_at < datetime('now', '-N days') compares "2020-01-01T..." with
\* "2020-01-01 ...": a memory of that very day is not smaller.
Old(m) == m.id[1] + AgeDays < date

\* Mutant: the status is not looked at.
PrunableActive(q) == {m \in rows : m.project = q /\ Old(m)}

\* The rows the subquery of _prune_superseded selects from.
Prunable(q) == {m \in rows : m.project = q /\ ~m.active /\ Old(m)}

\* Mutant: the LIMIT is applied before the status and the age are looked at.
LimitFirst(q) ==
  LET ofProject == {m \in rows : m.project = q}
  IN  {S \cap Prunable(q) : S \in {R \in SUBSET ofProject :
         Cardinality(R) = Min({MaxPerTask, Cardinality(ofProject)})}}

\* LIMIT without ORDER BY: any of them, but as many as it allows.
Selections(q) ==
  {S \in SUBSET Prunable(q) :
     Cardinality(S) = Min({MaxPerTask, Cardinality(Prunable(q))})}

\* connect() for a project, up to the first statement of the maintenance.
Connect(p) ==
  /\ pc[p] = "idle"
  /\ IF p \in ReadOnly THEN End(p) ELSE Goto(p, "checkpoint") /\ UNCHANGED pruned
  /\ UNCHANGED <<rows, date, given, arrivals, failures>>

After == [checkpoint |-> "prune", prune |-> "optimize", optimize |-> "check"]

\* Done or skipped, as _should_checkpoint finds; it leaves memories alone.
Checkpoint(p) ==
  /\ pc[p] = "checkpoint"
  /\ Goto(p, After[pc[p]])
  /\ UNCHANGED <<rows, date, given, arrivals, pruned, failures>>

\* _prune_superseded, one DELETE.
Prune(p) ==
  /\ pc[p] = "prune"
  /\ \E S \in Selections(Serves[p]) :
       /\ \A m \in S : ~m.labelled
       /\ rows' = rows \ S
       /\ pruned' = [pruned EXCEPT ![p] = Cardinality(S)]
  /\ Goto(p, After[pc[p]])
  /\ UNCHANGED <<date, given, arrivals, failures>>

\* memory_labels refers to memories without ON DELETE: one labelled row among
\* those selected undoes the whole DELETE, and the exception ends the rest.
PruneRefused(p) ==
  /\ pc[p] = "prune"
  /\ \E S \in Selections(Serves[p]) : \E m \in S : m.labelled
  /\ End(p)
  /\ UNCHANGED <<rows, date, given, arrivals, failures>>

\* FTS optimize, VACUUM when the file has grown enough, ANALYZE: they change how
\* memories are laid out and none of the memories.
Compact(p) ==
  /\ pc[p] = "optimize"
  /\ Goto(p, After[pc[p]])
  /\ UNCHANGED <<rows, date, given, arrivals, pruned, failures>>

\* quick_check, the last one.
IntegrityCheck(p) ==
  /\ pc[p] = "check"
  /\ End(p)
  /\ UNCHANGED <<rows, date, given, arrivals, failures>>

\* A statement meets another process's lock, or the process dies: nothing is
\* open between two statements.
Stop(p) ==
  /\ pc[p] # "idle" /\ failures < MaxFailures
  /\ failures' = failures + 1
  /\ End(p)
  /\ UNCHANGED <<rows, date, given, arrivals>>

Continue(p) ==
  Checkpoint(p) \/ Prune(p) \/ PruneRefused(p) \/ Compact(p) \/ IntegrityCheck(p)

\* What the other processes do: stores, and the migrations into and out of
\* this database, one memory at a time.
Others ==
  \/ \E q \in Projects, stamp \in {date} \union {Max({date, 1}) - 1}, labelled \in BOOLEAN :
       \E retired \in {{}} \union {{m} : m \in {m \in rows : m.active /\ m.project = q}} :
         Store(q, stamp, labelled, retired)
  \/ \E q \in Projects, i \in Ids, active \in BOOLEAN, labelled \in BOOLEAN :
       MigrateIn(q, i, active, labelled)
  \/ \E m \in rows : MigrateAgain(m) \/ MigrateOut(m)

Next ==
  \/ Others
  \/ NextDay
  \/ \E p \in Procs : Connect(p) \/ Continue(p) \/ Stop(p)

Spec == Init /\ [][Next]_vars

\* Commands of every project keep coming, and none is stopped for ever.
FairSpec == Spec /\ \A p \in Procs : WF_vars(Connect(p)) /\ WF_vars(Continue(p))

-----------------------------------------------------------------------------
\* Properties.

\* Maintenance takes only what its own project has and has retired, however
\* recently, and what was created more than AgeDays ago: no active memory, no
\* young one, and none of a project that shares the database.
OnlyStalePruned ==
  [][\A m \in rows : (\A n \in rows' : n.id # m.id) =>
       /\ ~m.active /\ m.id[1] + AgeDays < date
       /\ \E p \in Procs : pc[p] = "prune" /\ Serves[p] = m.project]_vars

\* Although the next id is the largest of its day plus one and pruning deletes
\* rows, a store never gives an id that a memory of this database has borne,
\* also if it began before midnight.  An id comes back only with a migration,
\* and then for a memory that is as old as the one that was pruned.
OnlyMigrationsReuseIds ==
  [][\A m \in rows' : m.id \in given /\ ~InUse(m.id) => m.arrived /\ Old(m)]_vars

\* The projects some process may maintain.
Maintained == {Serves[p] : p \in Procs \ ReadOnly}

Stale(i) == \E q \in Maintained : \E m \in Prunable(q) : m.id = i

\* _prune_superseded deletes what is retired and old, as its docstring says: now
\* or in a later connect(), and however many memories there are.
StalePruned == \A i \in Ids : Stale(i) ~> ~InUse(i)

\* It does as long as no memory that can be pruned has a label.
UnlabelledPruned ==
  [](\A q \in Projects : \A m \in Prunable(q) : ~m.labelled) => StalePruned
=============================================================================
