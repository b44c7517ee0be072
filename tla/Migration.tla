------------------------------ MODULE Migration ------------------------------
(***************************************************************************)
(* migrate_project_memories: memories that mention another project are     *)
(* copied to that project's database and invalidated in their own.  The    *)
(* two databases are separate SQLite files: two write locks, taken one     *)
(* after the other, and two COMMITs, the target's first.                   *)
(*                                                                         *)
(* The rows to move are read before any lock is held.  What happens to one *)
(* row in the loop is one step, for nothing of it is visible to others     *)
(* before the COMMITs.  Other processes store meanwhile; a store is the    *)
(* one step that MemoryStore is shown to implement.                        *)
(***************************************************************************)
EXTENDS MemoryRows

CONSTANTS
  Procs,        \* processes that migrate
  NoProc,       \* "nobody holds the write lock"
  Responsive,   \* processes assumed to keep running (liveness only)
  Routes,       \* the <<from_project, to_project>> pairs that are asked for
  Mentions,     \* <<content, project>>: the texts of the memory name the project
  Requests,     \* what other processes store, in the database of its project
  Dates,        \* the dates on which they store
  LockRetries,  \* _STORE_LOCK_RETRIES
  MaxRows       \* bound: a database with this many rows is full

ASSUME MigrationAssumption ==
  /\ NoProc \notin Procs /\ Responsive \subseteq Procs
  /\ Routes # {}
  /\ Routes \subseteq {rt \in Projects \X Projects : rt[1] # rt[2]}
  /\ Requests \subseteq Request
  /\ Dates \subseteq Nat /\ LockRetries \in Nat /\ MaxRows \in Nat

VARIABLES
  db,        \* the committed rows of each project's database
  lock,      \* the holder of each database's write lock, or NoProc
  pc,        \* where each process is in migrate_project_memories
  route,     \* <<from_project, to_project>> of its migration
  todo,      \* the rows it has read and not yet dealt with
  skipped,   \* skipped_ids
  attempts,  \* failed attempts at the BEGIN IMMEDIATE under way
  tgt, src   \* the rows its two transactions see

vars == <<db, lock, pc, route, todo, skipped, attempts, tgt, src>>

From(p) == route[p][1]
To(p) == route[p][2]

Steps == {"idle", "read", "lock_target", "lock_source", "rows", "commit_source"}
HoldsTarget == {"lock_source", "rows"}
HoldsSource == {"rows", "commit_source"}

TypeOK ==
  /\ db \in [Projects -> SUBSET Row]
  /\ lock \in [Projects -> Procs \union {NoProc}]
  /\ pc \in [Procs -> Steps]
  /\ route \in [Procs -> Routes]
  /\ todo \in [Procs -> SUBSET Row]
  /\ skipped \in [Procs -> SUBSET Ids]
  /\ attempts \in [Procs -> 0..LockRetries]
  /\ tgt \in [Procs -> SUBSET Row]
  /\ src \in [Procs -> SUBSET Row]

AnyRoute == CHOOSE rt \in Routes : TRUE

Init ==
  /\ db = [d \in Projects |-> {}]
  /\ lock = [d \in Projects |-> NoProc]
  /\ pc = [p \in Procs |-> "idle"]
  /\ route = [p \in Procs |-> AnyRoute]
  /\ todo = [p \in Procs |-> {}]
  /\ skipped = [p \in Procs |-> {}]
  /\ attempts = [p \in Procs |-> 0]
  /\ tgt = [p \in Procs |-> {}]
  /\ src = [p \in Procs |-> {}]

-----------------------------------------------------------------------------
\* A store by some other process, as MemoryStore shows it to behave.  Each
\* content is stored once, so that it names the memory.
Store(d, r, date) ==
  /\ lock[d] = NoProc
  /\ Cardinality(db[d]) < MaxRows
  /\ \A e \in Projects : \A m \in db[e] : m.content # r.content
  /\ ~InvalidatesRefused(SupersedeForKind(db[d], r), r)
  /\ db' = [db EXCEPT ![d] = Settled(@, r) \union
                {NewRow(NextId(@, date), r, TRUE, date, r.labels)}]
  /\ UNCHANGED <<lock, pc, route, todo, skipped, attempts, tgt, src>>

Goto(p, step) == pc' = [pc EXCEPT ![p] = step]

Migrate(p, rt) ==
  /\ pc[p] = "idle"
  /\ Goto(p, "read")
  /\ route' = [route EXCEPT ![p] = rt]
  /\ UNCHANGED <<db, lock, todo, skipped, attempts, tgt, src>>

\* _MIGRATE_MATCH_WHERE: superseded rows are moved too.
Matching(rows, project) ==
  {m \in rows : <<m.content, project>> \in Mentions /\ m.status # "invalidated"}

\* SELECT outside any transaction, then the checks that may end the call.
ReadRows(p) ==
  /\ pc[p] = "read"
  /\ Goto(p, "lock_target")
  /\ todo' = [todo EXCEPT ![p] = Matching(db[From(p)], To(p))]
  /\ skipped' = [skipped EXCEPT ![p] = {}]
  /\ attempts' = [attempts EXCEPT ![p] = 0]
  /\ UNCHANGED <<db, lock, route, tgt, src>>

\* _begin_immediate_with_retry(conn_tgt), then the same on conn_src.
LockTarget(p) ==
  /\ pc[p] = "lock_target"
  /\ lock[To(p)] = NoProc
  /\ Goto(p, "lock_source")
  /\ lock' = [lock EXCEPT ![To(p)] = p]
  /\ tgt' = [tgt EXCEPT ![p] = db[To(p)]]
  /\ attempts' = [attempts EXCEPT ![p] = 0]
  /\ UNCHANGED <<db, route, todo, skipped, src>>

LockSource(p) ==
  /\ pc[p] = "lock_source"
  /\ lock[From(p)] = NoProc
  /\ Goto(p, "rows")
  /\ lock' = [lock EXCEPT ![From(p)] = p]
  /\ src' = [src EXCEPT ![p] = db[From(p)]]
  /\ UNCHANGED <<db, route, todo, skipped, attempts, tgt>>

\* Mutant: only the target's connection is closed.
EndTargetOnly(p) ==
  /\ Goto(p, "idle")
  /\ lock' = [d \in Projects |-> IF lock[d] = p /\ d = To(p) THEN NoProc ELSE lock[d]]
  /\ todo' = [todo EXCEPT ![p] = {}]
  /\ tgt' = [tgt EXCEPT ![p] = {}]
  /\ src' = [src EXCEPT ![p] = {}]

\* The call is over: both transactions that are still open are rolled back,
\* by ROLLBACK, by closing the connections, or by the death of the process.
End(p) ==
  /\ Goto(p, "idle")
  /\ lock' = [d \in Projects |-> IF lock[d] = p THEN NoProc ELSE lock[d]]
  /\ todo' = [todo EXCEPT ![p] = {}]
  /\ tgt' = [tgt EXCEPT ![p] = {}]
  /\ src' = [src EXCEPT ![p] = {}]

LockBusyForever(p) ==
  /\ pc[p] \in {"lock_target", "lock_source"}
  /\ lock[IF pc[p] = "lock_target" THEN To(p) ELSE From(p)] # NoProc
  /\ UNCHANGED vars

LockBusy(p) ==
  LET d == IF pc[p] = "lock_target" THEN To(p) ELSE From(p) IN
  /\ pc[p] \in {"lock_target", "lock_source"}
  /\ lock[d] # NoProc
  /\ \/ /\ attempts[p] < LockRetries
        /\ attempts' = [attempts EXCEPT ![p] = @ + 1]
        /\ UNCHANGED <<lock, pc, todo, tgt, src>>
     \/ /\ attempts[p] = LockRetries
        /\ End(p)
        /\ UNCHANGED attempts
  /\ UNCHANGED <<db, route, skipped>>

-----------------------------------------------------------------------------
\* The four columns that make a row of the target the same memory.
SameRecord(m, o) == m.task = o.task /\ m.content = o.content /\ m.created = o.created

\* Mutant: an id that exists is always taken for another memory.
ArrivedNever(rows, m) == FALSE

\* The row is in the target already, from an earlier migration.
Arrived(rows, m) == \E o \in rows : o.id = m.id /\ SameRecord(o, m)

\* INSERT OR IGNORE: when the id belongs to another memory, the next free id
\* of the same date (_remap_collided_memory_id).
TargetId(rows, m) == IF m.id \in IdsOf(rows) THEN NextId(rows, m.id[1]) ELSE m.id

\* Mutant: INSERT OR IGNORE alone, without a look at the row that is there.
CopiedOrIgnored(rows, m, project, labels) ==
  IF m.id \in IdsOf(rows)
  THEN {IF o.id = m.id THEN [o EXCEPT !.labels = @ \union labels] ELSE o : o \in rows}
  ELSE rows \union {[m EXCEPT !.project = project, !.labels = labels]}

\* The target with the row and these labels in it.
Copied(rows, m, project, labels) ==
  IF Arrived(rows, m)
  THEN {IF o.id = m.id THEN [o EXCEPT !.labels = @ \union labels] ELSE o : o \in rows}
  ELSE rows \union
         {[m EXCEPT !.id = TargetId(rows, m), !.project = project, !.labels = labels]}

LabelsOf(rows, id) == UNION {o.labels : o \in {n \in rows : n.id = id}}

Invalidated(rows, id) ==
  {IF o.id = id THEN [o EXCEPT !.status = "invalidated"] ELSE o : o \in rows}

\* The INSERT finds room.
Fits(p, m) == Arrived(tgt[p], m) \/ Cardinality(tgt[p]) < MaxRows

\* The row is inserted, its labels follow, the source is marked.
MoveRow(p, m) ==
  /\ Fits(p, m)
  /\ tgt' = [tgt EXCEPT ![p] = Copied(@, m, To(p), LabelsOf(src[p], m.id))]
  /\ src' = [src EXCEPT ![p] = Invalidated(@, m.id)]
  /\ UNCHANGED skipped

\* Mutant: the source is marked before the INSERT that fails.
SkipRowMarked(p, m) ==
  /\ skipped' = [skipped EXCEPT ![p] = @ \union {m.id}]
  /\ src' = [src EXCEPT ![p] = Invalidated(@, m.id)]
  /\ UNCHANGED tgt

\* An exception in the loop only skips the row.  It may come before the INSERT
\* (learnings that are not JSON), in the UPDATE of the source, which undoes the
\* INSERT, or between the two, which leaves the copy and some of its labels.
SkipRow(p, m) ==
  /\ \/ UNCHANGED tgt
     \/ /\ Fits(p, m)
        /\ \E labels \in SUBSET LabelsOf(src[p], m.id) :
             tgt' = [tgt EXCEPT ![p] = Copied(@, m, To(p), labels)]
  /\ skipped' = [skipped EXCEPT ![p] = @ \union {m.id}]
  /\ UNCHANGED src

NextRow(p) ==
  /\ pc[p] = "rows"
  /\ \E m \in todo[p] :
       /\ MoveRow(p, m) \/ SkipRow(p, m)
       /\ todo' = [todo EXCEPT ![p] = @ \ {m}]
  /\ UNCHANGED <<db, lock, pc, route, attempts>>

CommitTarget(p) ==
  /\ pc[p] = "rows" /\ todo[p] = {}
  /\ Goto(p, "commit_source")
  /\ db' = [db EXCEPT ![To(p)] = tgt[p]]
  /\ lock' = [lock EXCEPT ![To(p)] = NoProc]
  /\ tgt' = [tgt EXCEPT ![p] = {}]
  /\ UNCHANGED <<route, todo, skipped, attempts, src>>

CommitSource(p) ==
  /\ pc[p] = "commit_source"
  /\ db' = [db EXCEPT ![From(p)] = src[p]]
  /\ End(p)
  /\ UNCHANGED <<route, skipped, attempts>>

\* The target or the source is refused, dry_run returns its count, a BEGIN or a
\* COMMIT fails, or the process dies.
Abort(p) ==
  /\ pc[p] # "idle"
  /\ End(p)
  /\ UNCHANGED <<db, route, skipped, attempts>>

Progress(p) ==
  \/ ReadRows(p)
  \/ LockTarget(p)
  \/ LockSource(p)
  \/ LockBusy(p)
  \/ NextRow(p)
  \/ CommitTarget(p)
  \/ CommitSource(p)

Next ==
  \/ \E r \in Requests, date \in Dates : Store(r.project, r, date)
  \/ \E p \in Procs :
       \/ \E rt \in Routes : Migrate(p, rt)
       \/ Progress(p)
       \/ Abort(p)

Spec == Init /\ [][Next]_vars

\* A responsive process is not stopped for ever in the middle of a migration.
FairSpec == Spec /\ \A p \in Responsive : WF_vars(Progress(p))

-----------------------------------------------------------------------------
(***************************************************************************)
(* Properties.                                                             *)
(***************************************************************************)

\* A transaction sees the committed rows and its own changes: each lock is held
\* exactly while a transaction on that database is open, and meanwhile nobody
\* else changes it.  The order in which the locks are taken and given back is
\* not symmetric, and the locks of two opposite migrations interleave.
LocksHeld ==
  \A p \in Procs, d \in Projects :
    lock[d] = p <=> \/ pc[p] \in HoldsTarget /\ d = To(p)
                    \/ pc[p] \in HoldsSource /\ d = From(p)

\* A row is invalidated in its source only when the target has the memory
\* committed, whatever fails or dies between the two COMMITs, and also when the
\* rows read before the locks are stale.  (Constraints are also invalidated by
\* the stores that name them.)
CopyBeforeRetire ==
  [][\A d \in Projects : \A o \in db[d], n \in db'[d] :
       /\ n.id = o.id /\ o.kind # "discovered_constraint"
       /\ o.status # "invalidated" /\ n.status = "invalidated"
       => \E e \in Projects \ {d} : \E m \in db[e] : SameRecord(m, o)]_db

\* A memory is not lost: one that a migration invalidated has a copy, in
\* another database, that no migration invalidated.
NothingLost ==
  \A d \in Projects : \A o \in db[d] :
    o.status = "invalidated" /\ o.kind # "discovered_constraint" =>
      \E e \in Projects \ {d} : \E m \in db[e] :
        SameRecord(m, o) /\ m.status # "invalidated"

\* A migration that is repeated, after a crash between the two COMMITs or by
\* two processes at once, inserts a memory for the second time only if its id
\* belongs to another memory of the target: the copy then has an id of its own,
\* and the look at the row under the old id does not find it.  Where ids do not
\* collide, nothing is ever copied twice.
SecondCopiesCollide ==
  \A d \in Projects : \A m, o \in db[d] : SameRecord(m, o) /\ m # o =>
    \E e \in Projects \ {d} : \E s \in db[e] :
      SameRecord(s, m) /\ \E n \in db[d] : n.id = s.id /\ ~SameRecord(n, s)

\* A migration ends, even against an opposite one that waits for the lock it
\* holds, or one that has stopped for ever with both locks.
MigrationEnds == \A p \in Responsive : pc[p] # "idle" ~> pc[p] = "idle"
=============================================================================
