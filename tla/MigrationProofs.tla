---------------------------- MODULE MigrationProofs ----------------------------
(***************************************************************************)
(* Proofs about Migration: the two write locks are used correctly, a       *)
(* memory is invalidated in its source only when its copy is committed,    *)
(* and where the routes lead one way, no memory is lost and none is        *)
(* copied twice.                                                           *)
(***************************************************************************)
EXTENDS Migration, MemoryRowsProofs

(***************************************************************************)
(* The inductive invariant.                                                *)
(***************************************************************************)
GoodRows(rows) == rows \subseteq Row /\ IsFiniteSet(rows) /\ UniqueIds(rows)

\* The same memory under the same id.
SameMemory(n, o) == n.id = o.id /\ n.kind = o.kind /\ SameRecord(n, o)

\* Rows may be added and change their labels and status; none goes away.
Endures(old, new) == \A o \in old : \E n \in new : SameMemory(n, o)

\* Neither do the statuses change.
Continues(old, new) ==
  \A o \in old : \E n \in new : SameMemory(n, o) /\ n.status = o.status

\* What is invalidated in new and not in old has a copy among rows.
CopiedInto(rows, old, new) ==
  \A o \in old, n \in new :
    n.id = o.id /\ o.status # "invalidated" /\ n.status = "invalidated"
    => \E m \in rows : SameRecord(m, o)

\* One process: the rows it has read are still there, its transactions extend
\* the committed rows, and what it has invalidated in its source is in the
\* target, first in its own transaction, then committed.
ProcInv(p) ==
  /\ pc[p] \in {"idle", "read"} => todo[p] = {}
  /\ \A m \in todo[p] : \E o \in db[From(p)] : o.id = m.id /\ SameRecord(o, m)
  /\ pc[p] \in HoldsTarget => GoodRows(tgt[p]) /\ Continues(db[To(p)], tgt[p])
  /\ pc[p] \in HoldsSource => GoodRows(src[p]) /\ Endures(db[From(p)], src[p])
  /\ pc[p] = "rows" => CopiedInto(tgt[p], db[From(p)], src[p])
  /\ pc[p] = "commit_source" => CopiedInto(db[To(p)], db[From(p)], src[p])

RowsInv == \A d \in Projects : GoodRows(db[d])

IInv == TypeOK /\ LocksHeld /\ RowsInv /\ \A p \in Procs : ProcInv(p)

-----------------------------------------------------------------------------
(***************************************************************************)
(* To and From are two different projects.                                 *)
(***************************************************************************)
LEMMA RouteProjects ==
  ASSUME TypeOK, NEW p \in Procs
  PROVE  From(p) \in Projects /\ To(p) \in Projects /\ From(p) # To(p)
BY MigrationAssumption DEF TypeOK, From, To

(***************************************************************************)
(* Endures and Continues are reflexive, and Endures is transitive.         *)
(***************************************************************************)
LEMMA EnduresSelf ==
  ASSUME NEW rows
  PROVE  Endures(rows, rows) /\ Continues(rows, rows)
BY DEF Endures, Continues, SameMemory, SameRecord

LEMMA EnduresTwice ==
  ASSUME NEW old, NEW mid, NEW new, Endures(old, mid), Endures(mid, new)
  PROVE  Endures(old, new)
<1>1. SUFFICES ASSUME NEW o \in old
               PROVE  \E n \in new : SameMemory(n, o)
  BY DEF Endures
<1>2. PICK m \in mid : SameMemory(m, o)
  BY DEF Endures
<1>3. PICK n \in new : SameMemory(n, m)
  BY DEF Endures
<1>4. QED
  BY <1>2, <1>3 DEF SameMemory, SameRecord

LEMMA ContinuesEndures ==
  ASSUME NEW old, NEW new, Continues(old, new)
  PROVE  Endures(old, new)
BY DEF Continues, Endures

(***************************************************************************)
(* A row of the new set is the row of the same id in the old one.          *)
(***************************************************************************)
LEMMA SameIdSameRow ==
  ASSUME NEW old, NEW new, UniqueIds(new), NEW o \in old, NEW n \in new, n.id = o.id
  PROVE  /\ Endures(old, new) => SameMemory(n, o)
         /\ Continues(old, new) => SameMemory(n, o) /\ n.status = o.status
<1>1. ASSUME Endures(old, new) PROVE SameMemory(n, o)
  <2>1. PICK m \in new : SameMemory(m, o)
    BY <1>1 DEF Endures
  <2>2. m = n
    BY <2>1 DEF SameMemory, UniqueIds
  <2>3. QED
    BY <2>1, <2>2
<1>2. ASSUME Continues(old, new) PROVE SameMemory(n, o) /\ n.status = o.status
  <2>1. PICK m \in new : SameMemory(m, o) /\ m.status = o.status
    BY <1>2 DEF Continues
  <2>2. m = n
    BY <2>1 DEF SameMemory, UniqueIds
  <2>3. QED
    BY <2>1, <2>2
<1>3. QED
  BY <1>1, <1>2

(***************************************************************************)
(* The copy of a row into the target: the target's own rows continue, the  *)
(* row itself is there afterwards, and ids stay unique.                    *)
(***************************************************************************)
LEMMA CopiedKeeps ==
  ASSUME NEW rows, GoodRows(rows), NEW m \in Row,
         NEW project \in Projects, NEW labels \in SUBSET Labels
  PROVE  LET new == Copied(rows, m, project, labels)
         IN  /\ GoodRows(new)
             /\ Continues(rows, new)
             /\ \E n \in new : SameRecord(n, m)
<1> DEFINE new == Copied(rows, m, project, labels)
<1>1. CASE Arrived(rows, m)
  <2> DEFINE f(o) == IF o.id = m.id THEN [o EXCEPT !.labels = @ \union labels] ELSE o
  <2>1. new = {f(o) : o \in rows}
    BY <1>1 DEF Copied
  <2>2. ASSUME NEW o \in rows
        PROVE  f(o) \in Row /\ SameMemory(f(o), o) /\ f(o).status = o.status
    BY DEF Row, SameMemory, SameRecord, GoodRows
  <2> HIDE DEF f
  <2>3. IsFiniteSet(new)
    <3>1. [o \in rows |-> f(o)] \in Surjection(rows, new)
      BY <2>1 DEF Surjection
    <3>2. QED
      BY <3>1, FS_Surjection DEF GoodRows
  <2>4. UniqueIds(new)
    BY <2>1, <2>2 DEF UniqueIds, GoodRows, SameMemory
  <2>5. Continues(rows, new)
    BY <2>1, <2>2 DEF Continues
  <2>6. \E n \in new : SameRecord(n, m)
    <3>1. PICK o \in rows : SameRecord(o, m)
      BY <1>1 DEF Arrived
    <3>2. SameRecord(f(o), m) /\ f(o) \in new
      BY <2>1, <2>2, <3>1 DEF SameMemory, SameRecord
    <3>3. QED
      BY <3>2
  <2>7. QED
    BY <2>1, <2>2, <2>3, <2>4, <2>5, <2>6 DEF GoodRows
<1>2. CASE ~Arrived(rows, m)
  <2> DEFINE id  == TargetId(rows, m)
             row == [m EXCEPT !.id = id, !.project = project, !.labels = labels]
  <2>1. id \in Ids /\ id \notin IdsOf(rows)
    <3>1. m.id \in Ids /\ m.id[1] \in Nat
      BY DEF Row, Ids
    <3>2. NextId(rows, m.id[1]) \in Ids /\ NextId(rows, m.id[1]) \notin IdsOf(rows)
      BY <3>1, FreshId DEF GoodRows
    <3>3. QED
      BY <3>1, <3>2 DEF TargetId
  <2> HIDE DEF id
  <2>2. row \in Row /\ row.id = id /\ SameRecord(row, m)
    BY <2>1 DEF Row, SameRecord
  <2>3. new = rows \union {row}
    BY <1>2 DEF Copied, id
  <2> HIDE DEF row
  <2>4. UniqueIds(new)
    BY <2>1, <2>2, <2>3 DEF UniqueIds, IdsOf, GoodRows
  <2>5. IsFiniteSet(new) /\ new \subseteq Row
    BY <2>2, <2>3, FS_AddElement DEF GoodRows
  <2>6. Continues(rows, new)
    BY <2>3 DEF Continues, SameMemory, SameRecord
  <2>7. QED
    BY <2>2, <2>3, <2>4, <2>5, <2>6 DEF GoodRows
<1>3. QED
  BY <1>1, <1>2

(***************************************************************************)
(* Marking the source row changes the status of the row of that id only.   *)
(***************************************************************************)
LEMMA InvalidatedKeeps ==
  ASSUME NEW rows, GoodRows(rows), NEW id
  PROVE  LET new == Invalidated(rows, id)
         IN  /\ GoodRows(new)
             /\ Endures(rows, new)
             /\ \A n \in new : n.id = id \/ n \in rows
<1> DEFINE new  == Invalidated(rows, id)
           f(o) == IF o.id = id THEN [o EXCEPT !.status = "invalidated"] ELSE o
<1>1. new = {f(o) : o \in rows}
  BY DEF Invalidated
<1>2. ASSUME NEW o \in rows
      PROVE  f(o) \in Row /\ SameMemory(f(o), o) /\ (f(o).id = id \/ f(o) = o)
  BY DEF Row, Statuses, SameMemory, SameRecord, GoodRows
<1> HIDE DEF f
<1>3. IsFiniteSet(new)
  <2>1. [o \in rows |-> f(o)] \in Surjection(rows, new)
    BY <1>1 DEF Surjection
  <2>2. QED
    BY <2>1, FS_Surjection DEF GoodRows
<1>4. UniqueIds(new)
  BY <1>1, <1>2 DEF UniqueIds, GoodRows, SameMemory
<1>5. Endures(rows, new)
  BY <1>1, <1>2 DEF Endures
<1>6. QED
  BY <1>1, <1>2, <1>3, <1>4, <1>5 DEF GoodRows

(***************************************************************************)
(* What another process's store does to the rows: ids stay unique, every   *)
(* memory endures, and only constraints become invalidated.                *)
(***************************************************************************)
LEMMA StoredKeeps ==
  ASSUME NEW rows, GoodRows(rows), NEW r \in Request, NEW date \in Nat
  PROVE  LET row == NewRow(NextId(rows, date), r, TRUE, date, r.labels)
             new == Settled(rows, r) \union {row}
         IN  /\ GoodRows(new)
             /\ Endures(rows, new)
             /\ \A o \in rows, n \in new :
                  n.id = o.id /\ o.status # "invalidated" /\ n.status = "invalidated"
                  => o.kind = "discovered_constraint"
<1> DEFINE id  == NextId(rows, date)
           row == NewRow(id, r, TRUE, date, r.labels)
           upd == Settled(rows, r)
           new == upd \union {row}
<1>1. rows \in SUBSET Row /\ IsFiniteSet(rows) /\ UniqueIds(rows)
  BY DEF GoodRows
<1>2. /\ upd \in SUBSET Row /\ IdsOf(upd) = IdsOf(rows)
      /\ IsFiniteSet(upd) /\ UniqueIds(upd)
      /\ \A o \in rows : \E m \in upd : Retired(m, o)
      /\ \A m \in upd : ~Supersedes(r, m)
  BY <1>1, SettledKeeps
<1>3. id \in Ids \ IdsOf(upd)
  BY <1>1, <1>2, FreshId
<1>4. r.labels \in SUBSET Labels
  BY DEF Request
<1> HIDE DEF upd, id
<1>5. row \in Row /\ new \subseteq Row /\ IsFiniteSet(new) /\ UniqueIds(new)
  BY <1>2, <1>3, <1>4, InsertKeeps
<1>6. row.id = id
  BY DEF NewRow
<1>7. Endures(rows, new)
  <2>1. SUFFICES ASSUME NEW o \in rows
                 PROVE  \E n \in new : SameMemory(n, o)
    BY DEF Endures
  <2>2. PICK n \in upd : Retired(n, o)
    BY <1>2
  <2>3. PICK s \in Statuses : n = [o EXCEPT !.status = s]
    BY <2>2 DEF Retired
  <2>4. o \in Row
    BY <1>1
  <2>5. SameMemory(n, o)
    BY <2>3, <2>4 DEF Row, SameMemory, SameRecord
  <2>6. QED
    BY <2>5
<1>8. ASSUME NEW o \in rows, NEW n \in new, n.id = o.id,
             o.status # "invalidated", n.status = "invalidated"
      PROVE  o.kind = "discovered_constraint"
  <2>1. n \in upd
    <3>1. o.id \in IdsOf(rows)
      BY DEF IdsOf
    <3>2. QED
      BY <1>2, <1>3, <1>6, <1>8, <3>1
  <2>2. PICK o2 \in rows : /\ n.id = o2.id /\ n.kind = o2.kind
                           /\ \/ n.status = o2.status
                              \/ n.status = "superseded"
                              \/ n.kind = "discovered_constraint"
    BY <1>1, <2>1, SettledOrigin DEF upd
  <2>3. o2 = o
    BY <1>1, <1>8, <2>2 DEF UniqueIds
  <2>4. QED
    BY <1>8, <2>2, <2>3
<1>9. QED
  BY <1>5, <1>7, <1>8 DEF GoodRows, upd, id

-----------------------------------------------------------------------------
(***************************************************************************)
(* A process that takes no step keeps its part of the invariant: the rows  *)
(* of the databases it has locked do not change, those of the others       *)
(* endure.                                                                 *)
(***************************************************************************)
LEMMA OtherProcess ==
  ASSUME TypeOK, LocksHeld, NEW q \in Procs, ProcInv(q),
         pc'[q] = pc[q], route'[q] = route[q], todo'[q] = todo[q],
         tgt'[q] = tgt[q], src'[q] = src[q],
         \A d \in Projects : Endures(db[d], db'[d]),
         \A d \in Projects : lock[d] = q => db'[d] = db[d]
  PROVE  ProcInv(q)'
<1>1. /\ From(q) \in Projects /\ To(q) \in Projects
      /\ From(q)' = From(q) /\ To(q)' = To(q)
  BY RouteProjects DEF From, To
<1>2. /\ pc[q] \in HoldsTarget => db'[To(q)] = db[To(q)]
      /\ pc[q] \in HoldsSource => db'[From(q)] = db[From(q)]
  BY <1>1 DEF LocksHeld
<1>3. (pc[q] \in {"idle", "read"} => todo[q] = {})'
  BY DEF ProcInv
<1>4. (\A m \in todo[q] : \E o \in db[From(q)] : o.id = m.id /\ SameRecord(o, m))'
  <2>1. SUFFICES ASSUME NEW m \in todo[q]
                 PROVE  \E n \in db'[From(q)] : n.id = m.id /\ SameRecord(n, m)
    BY <1>1
  <2>2. PICK o \in db[From(q)] : o.id = m.id /\ SameRecord(o, m)
    BY DEF ProcInv
  <2>3. PICK n \in db'[From(q)] : SameMemory(n, o)
    BY <1>1, <2>2 DEF Endures
  <2>4. QED
    BY <2>2, <2>3 DEF SameMemory, SameRecord
<1>5. (pc[q] \in HoldsTarget => GoodRows(tgt[q]) /\ Continues(db[To(q)], tgt[q]))'
  BY <1>1, <1>2 DEF ProcInv
<1>6. (pc[q] \in HoldsSource => GoodRows(src[q]) /\ Endures(db[From(q)], src[q]))'
  BY <1>1, <1>2 DEF ProcInv
<1>7. (pc[q] = "rows" => CopiedInto(tgt[q], db[From(q)], src[q]))'
  BY <1>1, <1>2 DEF ProcInv, HoldsSource
<1>8. (pc[q] = "commit_source" => CopiedInto(db[To(q)], db[From(q)], src[q]))'
  <2>1. SUFFICES ASSUME pc[q] = "commit_source",
                        NEW o \in db[From(q)], NEW n \in src[q],
                        n.id = o.id, o.status # "invalidated", n.status = "invalidated"
                 PROVE  \E m \in db'[To(q)] : SameRecord(m, o)
    BY <1>1, <1>2 DEF CopiedInto, HoldsSource
  <2>2. PICK m \in db[To(q)] : SameRecord(m, o)
    BY <2>1 DEF ProcInv, CopiedInto
  <2>3. PICK n2 \in db'[To(q)] : SameMemory(n2, m)
    BY <1>1, <2>2 DEF Endures
  <2>4. QED
    BY <2>2, <2>3 DEF SameMemory, SameRecord
<1>9. QED
  BY <1>3, <1>4, <1>5, <1>6, <1>7, <1>8 DEF ProcInv

(***************************************************************************)
(* The end of a call, however it comes, whatever the last COMMIT changed.  *)
(***************************************************************************)
LEMMA EndKeeps ==
  ASSUME IInv, NEW p \in Procs, End(p), RowsInv',
         db' \in [Projects -> SUBSET Row],
         \A d \in Projects : Endures(db[d], db'[d]),
         \A d \in Projects : db'[d] # db[d] => lock[d] \in {p, NoProc},
         route' = route, skipped' = skipped,
         attempts' \in [Procs -> 0..LockRetries]
  PROVE  IInv'
<1>1. TypeOK'
  BY DEF IInv, TypeOK, End, Goto, Steps
<1>2. \A q \in Procs : pc'[q] = IF q = p THEN "idle" ELSE pc[q]
  BY DEF IInv, TypeOK, End, Goto
<1>3. \A q \in Procs, d \in Projects :
        lock'[d] = q <=> lock[d] = q /\ q # p
  BY MigrationAssumption DEF End
<1>4. LocksHeld'
  BY <1>2, <1>3 DEF IInv, LocksHeld, From, To, HoldsTarget, HoldsSource
<1>5. ASSUME NEW q \in Procs PROVE ProcInv(q)'
  <2>1. CASE q = p
    BY <1>2, <2>1 DEF IInv, TypeOK, End, ProcInv, HoldsTarget, HoldsSource
  <2>2. CASE q # p
    <3>1. /\ pc'[q] = pc[q] /\ route'[q] = route[q] /\ todo'[q] = todo[q]
          /\ tgt'[q] = tgt[q] /\ src'[q] = src[q]
      BY <1>2, <2>2 DEF IInv, TypeOK, End
    <3>2. \A d \in Projects : lock[d] = q => db'[d] = db[d]
      BY <2>2, MigrationAssumption
    <3>3. QED
      BY <3>1, <3>2, OtherProcess DEF IInv
  <2>3. QED
    BY <2>1, <2>2
<1>6. QED
  BY <1>1, <1>4, <1>5 DEF IInv

(***************************************************************************)
(* A step of process p that keeps p's own part of the invariant.           *)
(***************************************************************************)
OthersUnchanged(p) ==
  \A q \in Procs \ {p} :
    /\ pc'[q] = pc[q] /\ route'[q] = route[q] /\ todo'[q] = todo[q]
    /\ tgt'[q] = tgt[q] /\ src'[q] = src[q]

LEMMA StepOfOne ==
  ASSUME IInv, NEW p \in Procs, OthersUnchanged(p),
         TypeOK', LocksHeld', RowsInv', ProcInv(p)',
         \A d \in Projects : Endures(db[d], db'[d]),
         \A d \in Projects : db'[d] # db[d] => lock[d] \in {p, NoProc}
  PROVE  IInv'
<1>1. ASSUME NEW q \in Procs \ {p} PROVE ProcInv(q)'
  <2>1. \A d \in Projects : lock[d] = q => db'[d] = db[d]
    BY MigrationAssumption
  <2>2. QED
    BY <2>1, OtherProcess DEF IInv, OthersUnchanged
<1>2. QED
  BY <1>1 DEF IInv

\* The same when the step commits nothing.
LEMMA QuietStep ==
  ASSUME IInv, NEW p \in Procs, OthersUnchanged(p), db' = db,
         TypeOK', LocksHeld', ProcInv(p)'
  PROVE  IInv'
<1>1. RowsInv' /\ \A d \in Projects : Endures(db[d], db'[d])
  BY EnduresSelf DEF IInv, RowsInv
<1>2. QED
  BY <1>1, StepOfOne

(***************************************************************************)
(* One lemma per action.                                                   *)
(***************************************************************************)
LEMMA MigrateKeeps ==
  ASSUME IInv, NEW p \in Procs, NEW rt \in Routes, Migrate(p, rt)
  PROVE  IInv'
<1>1. TypeOK'
  BY DEF IInv, TypeOK, Migrate, Goto, Steps
<1>2. OthersUnchanged(p) /\ pc[p] = "idle" /\ pc'[p] = "read"
  BY DEF IInv, TypeOK, Migrate, Goto, OthersUnchanged
<1>3. LocksHeld'
  BY <1>2 DEF IInv, LocksHeld, Migrate, OthersUnchanged, From, To, HoldsTarget, HoldsSource
<1>4. ProcInv(p)'
  BY <1>2 DEF IInv, ProcInv, Migrate, HoldsTarget, HoldsSource
<1>5. QED
  BY <1>1, <1>2, <1>3, <1>4, QuietStep DEF Migrate

LEMMA ReadRowsKeeps ==
  ASSUME IInv, NEW p \in Procs, ReadRows(p)
  PROVE  IInv'
<1>1. From(p) \in Projects /\ From(p)' = From(p)
  BY RouteProjects DEF IInv, ReadRows, From
<1>2. TypeOK'
  <2>1. Matching(db[From(p)], To(p)) \in SUBSET Row
    BY <1>1 DEF Matching, IInv, TypeOK
  <2>2. QED
    BY <2>1, MigrationAssumption DEF IInv, TypeOK, ReadRows, Goto, Steps
<1>3. /\ OthersUnchanged(p) /\ pc[p] = "read" /\ pc'[p] = "lock_target"
      /\ todo'[p] = Matching(db[From(p)], To(p))
  BY DEF IInv, TypeOK, ReadRows, Goto, OthersUnchanged
<1>4. LocksHeld'
  BY <1>3 DEF IInv, LocksHeld, ReadRows, OthersUnchanged, From, To, HoldsTarget, HoldsSource
<1>5. ProcInv(p)'
  BY <1>1, <1>3 DEF ReadRows, ProcInv, Matching, SameRecord, HoldsTarget, HoldsSource
<1>6. QED
  BY <1>2, <1>3, <1>4, <1>5, QuietStep DEF ReadRows

LEMMA LockTargetKeeps ==
  ASSUME IInv, NEW p \in Procs, LockTarget(p)
  PROVE  IInv'
<1>1. /\ From(p) \in Projects /\ To(p) \in Projects /\ From(p) # To(p)
      /\ From(p)' = From(p) /\ To(p)' = To(p)
  BY RouteProjects DEF IInv, LockTarget, From, To
<1>2. TypeOK'
  BY <1>1, MigrationAssumption DEF IInv, TypeOK, LockTarget, Goto, Steps
<1>3. /\ OthersUnchanged(p) /\ pc[p] = "lock_target" /\ pc'[p] = "lock_source"
      /\ tgt'[p] = db[To(p)] /\ lock[To(p)] = NoProc
      /\ \A d \in Projects : lock'[d] = IF d = To(p) THEN p ELSE lock[d]
  BY DEF IInv, TypeOK, LockTarget, Goto, OthersUnchanged
<1>4. LocksHeld'
  <2>1. SUFFICES ASSUME NEW q \in Procs, NEW d \in Projects
        PROVE  lock'[d] = q <=> \/ pc'[q] \in HoldsTarget /\ d = To(q)'
                                \/ pc'[q] \in HoldsSource /\ d = From(q)'
    BY DEF LocksHeld
  <2>2. To(q)' = To(q) /\ From(q)' = From(q)
    BY DEF LockTarget, To, From
  <2>3. lock[d] = q <=> \/ pc[q] \in HoldsTarget /\ d = To(q)
                        \/ pc[q] \in HoldsSource /\ d = From(q)
    BY DEF IInv, LocksHeld
  <2>4. CASE q = p
    BY <1>1, <1>3, <2>2, <2>3, <2>4 DEF HoldsTarget, HoldsSource
  <2>5. CASE q # p
    BY <1>1, <1>3, <2>2, <2>3, <2>5, MigrationAssumption DEF OthersUnchanged
  <2>6. QED
    BY <2>4, <2>5
<1>5. ProcInv(p)'
  BY <1>1, <1>3, EnduresSelf
     DEF IInv, RowsInv, LockTarget, ProcInv, HoldsTarget, HoldsSource
<1>6. QED
  BY <1>2, <1>3, <1>4, <1>5, QuietStep DEF LockTarget

LEMMA LockSourceKeeps ==
  ASSUME IInv, NEW p \in Procs, LockSource(p)
  PROVE  IInv'
<1>1. /\ From(p) \in Projects /\ To(p) \in Projects /\ From(p) # To(p)
      /\ From(p)' = From(p) /\ To(p)' = To(p)
  BY RouteProjects DEF IInv, LockSource, From, To
<1>2. TypeOK'
  BY <1>1, MigrationAssumption DEF IInv, TypeOK, LockSource, Goto, Steps
<1>3. /\ OthersUnchanged(p) /\ pc[p] = "lock_source" /\ pc'[p] = "rows"
      /\ src'[p] = db[From(p)] /\ lock[From(p)] = NoProc
      /\ \A d \in Projects : lock'[d] = IF d = From(p) THEN p ELSE lock[d]
  BY DEF IInv, TypeOK, LockSource, Goto, OthersUnchanged
<1>4. LocksHeld'
  <2>1. SUFFICES ASSUME NEW q \in Procs, NEW d \in Projects
        PROVE  lock'[d] = q <=> \/ pc'[q] \in HoldsTarget /\ d = To(q)'
                                \/ pc'[q] \in HoldsSource /\ d = From(q)'
    BY DEF LocksHeld
  <2>2. To(q)' = To(q) /\ From(q)' = From(q)
    BY DEF LockSource, To, From
  <2>3. lock[d] = q <=> \/ pc[q] \in HoldsTarget /\ d = To(q)
                        \/ pc[q] \in HoldsSource /\ d = From(q)
    BY DEF IInv, LocksHeld
  <2>4. CASE q = p
    BY <1>1, <1>3, <2>2, <2>3, <2>4 DEF HoldsTarget, HoldsSource
  <2>5. CASE q # p
    BY <1>1, <1>3, <2>2, <2>3, <2>5, MigrationAssumption DEF OthersUnchanged
  <2>6. QED
    BY <2>4, <2>5
<1>5. CopiedInto(tgt[p], db[From(p)], db[From(p)])
  BY <1>1 DEF CopiedInto, IInv, RowsInv, GoodRows, UniqueIds
<1>6. ProcInv(p)'
  BY <1>1, <1>3, <1>5, EnduresSelf
     DEF IInv, RowsInv, LockSource, ProcInv, HoldsTarget, HoldsSource
<1>7. QED
  BY <1>2, <1>3, <1>4, <1>6, QuietStep DEF LockSource

LEMMA AbortKeeps ==
  ASSUME IInv, NEW p \in Procs, End(p), db' = db, route' = route,
         skipped' = skipped, attempts' \in [Procs -> 0..LockRetries]
  PROVE  IInv'
<1>1. RowsInv' /\ \A d \in Projects : Endures(db[d], db'[d])
  BY EnduresSelf DEF IInv, RowsInv
<1>2. db' \in [Projects -> SUBSET Row]
  BY DEF IInv, TypeOK
<1>3. QED
  BY <1>1, <1>2, EndKeeps

LEMMA LockBusyKeeps ==
  ASSUME IInv, NEW p \in Procs, LockBusy(p)
  PROVE  IInv'
<1>1. db' = db /\ route' = route /\ skipped' = skipped
  BY DEF LockBusy
<1>2. CASE attempts[p] < LockRetries /\ attempts' = [attempts EXCEPT ![p] = @ + 1]
           /\ UNCHANGED <<lock, pc, todo, tgt, src>>
  <2>1. TypeOK'
    BY <1>1, <1>2, MigrationAssumption DEF IInv, TypeOK
  <2>2. QED
    BY <1>1, <1>2, <2>1
       DEF IInv, LocksHeld, RowsInv, ProcInv, From, To, HoldsTarget, HoldsSource
<1>3. CASE End(p) /\ UNCHANGED attempts
  <2>1. attempts' \in [Procs -> 0..LockRetries]
    BY <1>3 DEF IInv, TypeOK
  <2>2. QED
    BY <1>1, <1>3, <2>1, AbortKeeps
<1>4. QED
  BY <1>2, <1>3 DEF LockBusy

(***************************************************************************)
(* One row of the loop, moved or skipped: a row becomes invalidated in the *)
(* source's transaction only with its copy in the target's.                *)
(***************************************************************************)
LEMMA NextRowKeeps ==
  ASSUME IInv, NEW p \in Procs, NextRow(p)
  PROVE  IInv'
<1>1. /\ From(p) \in Projects /\ To(p) \in Projects
      /\ From(p)' = From(p) /\ To(p)' = To(p)
  BY RouteProjects DEF IInv, NextRow, From, To
<1>2. /\ pc[p] = "rows" /\ db' = db /\ lock' = lock /\ pc' = pc
      /\ route' = route /\ attempts' = attempts
  BY DEF NextRow
<1>3. PICK m \in todo[p] : /\ MoveRow(p, m) \/ SkipRow(p, m)
                           /\ todo' = [todo EXCEPT ![p] = @ \ {m}]
  BY DEF NextRow
<1>4. /\ m \in Row /\ todo'[p] = todo[p] \ {m} /\ m.id \in Ids
      /\ tgt[p] \subseteq Row /\ src[p] \subseteq Row
  BY <1>3 DEF IInv, TypeOK, Row
<1>5. /\ GoodRows(tgt[p]) /\ Continues(db[To(p)], tgt[p])
      /\ GoodRows(src[p]) /\ Endures(db[From(p)], src[p])
      /\ CopiedInto(tgt[p], db[From(p)], src[p])
  BY <1>2 DEF IInv, ProcInv, HoldsTarget, HoldsSource
<1>6. /\ GoodRows(tgt'[p]) /\ Continues(db[To(p)], tgt'[p])
      /\ GoodRows(src'[p]) /\ Endures(db[From(p)], src'[p])
      /\ CopiedInto(tgt'[p], db[From(p)], src'[p])
      /\ tgt' = [tgt EXCEPT ![p] = tgt'[p]] /\ src' = [src EXCEPT ![p] = src'[p]]
      /\ skipped' \in [Procs -> SUBSET Ids]
  <2>1. ASSUME NEW labels \in SUBSET Labels,
               tgt' = [tgt EXCEPT ![p] = Copied(@, m, To(p), labels)]
        PROVE  /\ GoodRows(tgt'[p]) /\ Continues(db[To(p)], tgt'[p])
               /\ Endures(tgt[p], tgt'[p])
               /\ \E n \in tgt'[p] : SameRecord(n, m)
               /\ tgt' = [tgt EXCEPT ![p] = tgt'[p]]
    <3>1. tgt'[p] = Copied(tgt[p], m, To(p), labels)
      BY <2>1 DEF IInv, TypeOK
    <3>2. /\ GoodRows(tgt'[p]) /\ Continues(tgt[p], tgt'[p])
          /\ \E n \in tgt'[p] : SameRecord(n, m)
      BY <1>1, <1>4, <1>5, <3>1, CopiedKeeps
    <3>3. Continues(db[To(p)], tgt'[p])
      BY <1>5, <3>2 DEF Continues, SameMemory, SameRecord
    <3>4. QED
      BY <2>1, <3>1, <3>2, <3>3, ContinuesEndures
  <2>2. ASSUME Endures(tgt[p], tgt'[p])
        PROVE  CopiedInto(tgt'[p], db[From(p)], src[p])
    <3>1. SUFFICES ASSUME NEW o \in db[From(p)], NEW n \in src[p], n.id = o.id,
                          o.status # "invalidated", n.status = "invalidated"
                   PROVE  \E k \in tgt'[p] : SameRecord(k, o)
      BY DEF CopiedInto
    <3>2. PICK k \in tgt[p] : SameRecord(k, o)
      BY <1>5, <3>1 DEF CopiedInto
    <3>3. PICK j \in tgt'[p] : SameMemory(j, k)
      BY <2>2, <3>2 DEF Endures
    <3>4. QED
      BY <3>2, <3>3 DEF SameMemory, SameRecord
  <2>3. CASE MoveRow(p, m)
    <3> DEFINE labels == LabelsOf(src[p], m.id)
    <3>1. labels \in SUBSET Labels
      BY <1>4 DEF LabelsOf, Row
    <3>2. tgt' = [tgt EXCEPT ![p] = Copied(@, m, To(p), labels)]
      BY <2>3 DEF MoveRow
    <3>3. /\ GoodRows(tgt'[p]) /\ Continues(db[To(p)], tgt'[p])
          /\ Endures(tgt[p], tgt'[p])
          /\ \E n \in tgt'[p] : SameRecord(n, m)
          /\ tgt' = [tgt EXCEPT ![p] = tgt'[p]]
      <4> HIDE DEF labels
      <4>1. QED
        BY <2>1, <3>1, <3>2
    <3>4. src'[p] = Invalidated(src[p], m.id) /\ src' = [src EXCEPT ![p] = src'[p]]
      BY <2>3 DEF MoveRow, IInv, TypeOK
    <3>5. /\ GoodRows(src'[p]) /\ Endures(src[p], src'[p])
          /\ \A n \in src'[p] : n.id = m.id \/ n \in src[p]
      BY <1>5, <3>4, InvalidatedKeeps
    <3>6. Endures(db[From(p)], src'[p])
      BY <1>5, <3>5, EnduresTwice
    <3>7. CopiedInto(tgt'[p], db[From(p)], src'[p])
      <4>1. SUFFICES ASSUME NEW o \in db[From(p)], NEW n \in src'[p], n.id = o.id,
                            o.status # "invalidated", n.status = "invalidated"
                     PROVE  \E k \in tgt'[p] : SameRecord(k, o)
        BY DEF CopiedInto
      <4>2. CASE n.id = m.id
        <5>1. PICK o2 \in db[From(p)] : o2.id = m.id /\ SameRecord(o2, m)
          BY <1>3 DEF IInv, ProcInv
        <5>2. o2 = o
          BY <1>1, <4>1, <4>2, <5>1 DEF IInv, RowsInv, GoodRows, UniqueIds
        <5>3. PICK k \in tgt'[p] : SameRecord(k, m)
          BY <3>3
        <5>4. QED
          BY <5>1, <5>2, <5>3 DEF SameRecord
      <4>3. CASE n \in src[p]
        BY <2>2, <3>3, <4>1, <4>3 DEF CopiedInto
      <4>4. QED
        BY <3>5, <4>2, <4>3
    <3>8. skipped' \in [Procs -> SUBSET Ids]
      BY <2>3 DEF MoveRow, IInv, TypeOK
    <3>9. QED
      BY <3>3, <3>4, <3>5, <3>6, <3>7, <3>8
  <2>4. CASE SkipRow(p, m)
    <3>1. src' = src /\ src' = [src EXCEPT ![p] = src'[p]]
      BY <2>4 DEF SkipRow, IInv, TypeOK
    <3>2. skipped' \in [Procs -> SUBSET Ids]
      BY <1>4, <2>4 DEF SkipRow, IInv, TypeOK
    <3>3. /\ GoodRows(tgt'[p]) /\ Continues(db[To(p)], tgt'[p])
          /\ Endures(tgt[p], tgt'[p]) /\ tgt' = [tgt EXCEPT ![p] = tgt'[p]]
      <4>1. CASE tgt' = tgt
        BY <1>5, <4>1, EnduresSelf DEF IInv, TypeOK
      <4>2. CASE \E labels \in SUBSET LabelsOf(src[p], m.id) :
                   tgt' = [tgt EXCEPT ![p] = Copied(@, m, To(p), labels)]
        <5>1. LabelsOf(src[p], m.id) \in SUBSET Labels
          BY <1>4 DEF LabelsOf, Row
        <5>2. PICK labels \in SUBSET Labels :
                     tgt' = [tgt EXCEPT ![p] = Copied(@, m, To(p), labels)]
          BY <4>2, <5>1
        <5>3. QED
          BY <2>1, <5>2
      <4>3. QED
        BY <2>4, <4>1, <4>2 DEF SkipRow
    <3>4. QED
      BY <1>5, <2>2, <3>1, <3>2, <3>3
  <2>5. QED
    BY <1>3, <2>3, <2>4
<1>7. TypeOK'
  BY <1>2, <1>3, <1>6 DEF IInv, TypeOK, GoodRows
<1>8. OthersUnchanged(p)
  BY <1>2, <1>3, <1>6 DEF OthersUnchanged, IInv, TypeOK
<1>9. LocksHeld'
  BY <1>2 DEF IInv, LocksHeld, From, To
<1>10. ProcInv(p)'
  <2>1. \A n \in todo'[p] : \E o \in db[From(p)] : o.id = n.id /\ SameRecord(o, n)
    BY <1>4 DEF IInv, ProcInv
  <2>2. QED
    BY <1>1, <1>2, <1>6, <2>1 DEF ProcInv
<1>11. QED
  BY <1>2, <1>7, <1>8, <1>9, <1>10, QuietStep

LEMMA CommitTargetKeeps ==
  ASSUME IInv, NEW p \in Procs, CommitTarget(p)
  PROVE  /\ IInv'
         /\ db' = [db EXCEPT ![To(p)] = tgt[p]]
         /\ Continues(db[To(p)], tgt[p]) /\ GoodRows(tgt[p])
<1>1. /\ From(p) \in Projects /\ To(p) \in Projects /\ From(p) # To(p)
      /\ From(p)' = From(p) /\ To(p)' = To(p)
  BY RouteProjects DEF IInv, CommitTarget, From, To
<1>2. pc[p] = "rows" /\ todo[p] = {} /\ pc'[p] = "commit_source"
  BY DEF IInv, TypeOK, CommitTarget, Goto
<1>3. /\ GoodRows(tgt[p]) /\ Continues(db[To(p)], tgt[p])
      /\ GoodRows(src[p]) /\ Endures(db[From(p)], src[p])
      /\ CopiedInto(tgt[p], db[From(p)], src[p])
  BY <1>2 DEF IInv, ProcInv, HoldsTarget, HoldsSource
<1>4. /\ db' = [db EXCEPT ![To(p)] = tgt[p]]
      /\ db'[To(p)] = tgt[p] /\ db'[From(p)] = db[From(p)]
      /\ \A d \in Projects : db'[d] = IF d = To(p) THEN tgt[p] ELSE db[d]
  BY <1>1 DEF IInv, TypeOK, CommitTarget
<1>5. RowsInv' /\ \A d \in Projects : Endures(db[d], db'[d])
  BY <1>3, <1>4, EnduresSelf, ContinuesEndures DEF IInv, RowsInv
<1>6. lock[To(p)] = p
  BY <1>1, <1>2 DEF IInv, LocksHeld, HoldsTarget
<1>7. TypeOK'
  BY <1>1, <1>3, <1>4 DEF IInv, TypeOK, CommitTarget, Goto, Steps, GoodRows
<1>8. OthersUnchanged(p)
  BY DEF IInv, TypeOK, CommitTarget, Goto, OthersUnchanged
<1>9. LocksHeld'
  <2>1. SUFFICES ASSUME NEW q \in Procs, NEW d \in Projects
        PROVE  lock'[d] = q <=> \/ pc'[q] \in HoldsTarget /\ d = To(q)'
                                \/ pc'[q] \in HoldsSource /\ d = From(q)'
    BY DEF LocksHeld
  <2>2. /\ To(q)' = To(q) /\ From(q)' = From(q)
        /\ lock'[d] = IF d = To(p) THEN NoProc ELSE lock[d]
    BY DEF CommitTarget, To, From, IInv, TypeOK
  <2>3. lock[d] = q <=> \/ pc[q] \in HoldsTarget /\ d = To(q)
                        \/ pc[q] \in HoldsSource /\ d = From(q)
    BY DEF IInv, LocksHeld
  <2>4. CASE q = p
    BY <1>1, <1>2, <2>2, <2>3, <2>4, MigrationAssumption DEF HoldsTarget, HoldsSource
  <2>5. CASE q # p
    BY <1>6, <1>8, <2>2, <2>3, <2>5, MigrationAssumption DEF OthersUnchanged
  <2>6. QED
    BY <2>4, <2>5
<1>10. ProcInv(p)'
  <2>1. src'[p] = src[p] /\ todo'[p] = {}
    BY <1>2 DEF CommitTarget
  <2>2. QED
    BY <1>1, <1>2, <1>3, <1>4, <2>1 DEF ProcInv, HoldsTarget, HoldsSource
<1>11. IInv'
  BY <1>4, <1>5, <1>6, <1>7, <1>8, <1>9, <1>10, StepOfOne
<1>12. QED
  BY <1>3, <1>4, <1>11

LEMMA CommitSourceKeeps ==
  ASSUME IInv, NEW p \in Procs, CommitSource(p)
  PROVE  /\ IInv'
         /\ db' = [db EXCEPT ![From(p)] = src[p]]
         /\ CopiedInto(db[To(p)], db[From(p)], src[p])
<1>1. From(p) \in Projects /\ To(p) \in Projects /\ From(p) # To(p)
  BY RouteProjects DEF IInv
<1>2. pc[p] = "commit_source" /\ End(p) /\ route' = route /\ skipped' = skipped
      /\ attempts' \in [Procs -> 0..LockRetries]
  BY DEF CommitSource, IInv, TypeOK
<1>3. /\ GoodRows(src[p]) /\ Endures(db[From(p)], src[p])
      /\ CopiedInto(db[To(p)], db[From(p)], src[p])
  BY <1>2 DEF IInv, ProcInv, HoldsSource
<1>4. /\ db' = [db EXCEPT ![From(p)] = src[p]]
      /\ \A d \in Projects : db'[d] = IF d = From(p) THEN src[p] ELSE db[d]
  BY DEF CommitSource, IInv, TypeOK
<1>5. RowsInv' /\ \A d \in Projects : Endures(db[d], db'[d])
  BY <1>3, <1>4, EnduresSelf DEF IInv, RowsInv
<1>6. lock[From(p)] = p
  BY <1>1, <1>2 DEF IInv, LocksHeld, HoldsSource
<1>7. db' \in [Projects -> SUBSET Row]
  BY <1>3, <1>4 DEF GoodRows, IInv, TypeOK
<1>8. \A d \in Projects : db'[d] # db[d] => lock[d] \in {p, NoProc}
  BY <1>4, <1>6
<1>9. IInv'
  BY <1>2, <1>5, <1>7, <1>8, EndKeeps
<1>10. QED
  BY <1>3, <1>4, <1>9

LEMMA StoreKeeps ==
  ASSUME IInv, NEW r \in Requests, NEW date \in Dates, Store(r.project, r, date)
  PROVE  /\ IInv'
         /\ \A d \in Projects : \A o \in db[d], n \in db'[d] :
              n.id = o.id /\ o.status # "invalidated" /\ n.status = "invalidated"
              => o.kind = "discovered_constraint"
<1> DEFINE d0  == r.project
           new == Settled(db[d0], r) \union
                    {NewRow(NextId(db[d0], date), r, TRUE, date, r.labels)}
<1>1. r \in Request /\ d0 \in Projects /\ date \in Nat
  BY MigrationAssumption DEF Request
<1>2. \A d \in Projects : db'[d] = IF d = d0 THEN new ELSE db[d]
  BY <1>1 DEF Store, IInv, TypeOK
<1>3. db' = [db EXCEPT ![d0] = new]
  BY <1>1 DEF Store, IInv, TypeOK
<1>4. GoodRows(db[d0])
  BY <1>1 DEF IInv, RowsInv
<1>5. /\ GoodRows(new) /\ Endures(db[d0], new)
      /\ \A o \in db[d0], n \in new :
           n.id = o.id /\ o.status # "invalidated" /\ n.status = "invalidated"
           => o.kind = "discovered_constraint"
  BY <1>1, <1>4, StoredKeeps
<1> HIDE DEF new
<1>6. RowsInv' /\ \A d \in Projects : Endures(db[d], db'[d])
  BY <1>2, <1>5, EnduresSelf DEF IInv, RowsInv
<1>7. /\ lock[d0] = NoProc
      /\ UNCHANGED <<lock, pc, route, todo, skipped, attempts, tgt, src>>
  BY DEF Store
<1>8. TypeOK'
  BY <1>3, <1>5, <1>7 DEF IInv, TypeOK, GoodRows
<1>9. LocksHeld'
  BY <1>7 DEF IInv, LocksHeld, From, To
<1>10. ASSUME NEW q \in Procs PROVE ProcInv(q)'
  <2>1. \A d \in Projects : lock[d] = q => db'[d] = db[d]
    BY <1>2, <1>7, MigrationAssumption
  <2>2. QED
    BY <1>6, <1>7, <2>1, OtherProcess DEF IInv
<1>11. IInv'
  BY <1>6, <1>8, <1>9, <1>10 DEF IInv
<1>12. ASSUME NEW d \in Projects, NEW o \in db[d], NEW n \in db'[d], n.id = o.id,
              o.status # "invalidated", n.status = "invalidated"
       PROVE  o.kind = "discovered_constraint"
  <2>1. CASE d = d0
    BY <1>2, <1>5, <1>12, <2>1
  <2>2. CASE d # d0
    BY <1>2, <1>12, <2>2 DEF IInv, RowsInv, GoodRows, UniqueIds
  <2>3. QED
    BY <2>1, <2>2
<1>13. QED
  BY <1>11, <1>12

-----------------------------------------------------------------------------
LEMMA InitIInv == Init => IInv
<1>1. SUFFICES ASSUME Init PROVE IInv
  OBVIOUS
<1>2. TypeOK
  <2>1. Routes # {} /\ 0 \in 0..LockRetries
    BY MigrationAssumption
  <2>2. AnyRoute \in Routes
    BY <2>1 DEF AnyRoute
  <2>3. QED
    BY <1>1, <2>1, <2>2 DEF Init, TypeOK, Steps
<1>3. LocksHeld
  BY <1>1, MigrationAssumption DEF Init, LocksHeld, HoldsTarget, HoldsSource
<1>4. RowsInv
  <2>1. \A d \in Projects : db[d] = {}
    BY <1>1 DEF Init
  <2>2. QED
    BY <2>1, FS_EmptySet DEF RowsInv, GoodRows, UniqueIds
<1>5. \A p \in Procs : ProcInv(p)
  BY <1>1 DEF Init, ProcInv, HoldsTarget, HoldsSource
<1>6. QED
  BY <1>2, <1>3, <1>4, <1>5 DEF IInv

LEMMA NextIInv == IInv /\ [Next]_vars => IInv'
<1>1. SUFFICES ASSUME IInv, [Next]_vars PROVE IInv'
  OBVIOUS
<1>2. CASE \E r \in Requests, date \in Dates : Store(r.project, r, date)
  BY <1>1, <1>2, StoreKeeps
<1>3. ASSUME NEW p \in Procs, NEW rt \in Routes, Migrate(p, rt) PROVE IInv'
  BY <1>1, <1>3, MigrateKeeps
<1>4. ASSUME NEW p \in Procs, Progress(p) PROVE IInv'
  BY <1>1, <1>4, ReadRowsKeeps, LockTargetKeeps, LockSourceKeeps, LockBusyKeeps,
     NextRowKeeps, CommitTargetKeeps, CommitSourceKeeps DEF Progress
<1>5. ASSUME NEW p \in Procs, Abort(p) PROVE IInv'
  <2>1. attempts' \in [Procs -> 0..LockRetries]
    BY <1>1, <1>5 DEF Abort, IInv, TypeOK
  <2>2. QED
    BY <1>1, <1>5, <2>1, AbortKeeps DEF Abort
<1>6. CASE UNCHANGED vars
  BY <1>1, <1>6 DEF vars, IInv, TypeOK, LocksHeld, RowsInv, ProcInv, From, To
<1>7. QED
  BY <1>1, <1>2, <1>3, <1>4, <1>5, <1>6 DEF Next

THEOREM Invariance == Spec => []IInv
<1>1. QED
  BY InitIInv, NextIInv, PTL DEF Spec

(***************************************************************************)
(* Type correctness.                                                       *)
(***************************************************************************)
THEOREM TypeCorrect == Spec => []TypeOK
<1>1. IInv => TypeOK
  BY DEF IInv
<1>2. QED
  BY <1>1, Invariance, PTL

(***************************************************************************)
(* Each database's write lock is held exactly while a transaction on it is *)
(* open, by one process, for every number of processes, projects and       *)
(* routes, opposite ones included.                                         *)
(***************************************************************************)
THEOREM LocksAreHeld == Spec => []LocksHeld
<1>1. IInv => LocksHeld
  BY DEF IInv
<1>2. QED
  BY <1>1, Invariance, PTL

(***************************************************************************)
(* A memory is invalidated in its source only when its copy is committed.  *)
(***************************************************************************)
CopyBeforeRetireStep ==
  \A d \in Projects : \A o \in db[d], n \in db'[d] :
    /\ n.id = o.id /\ o.kind # "discovered_constraint"
    /\ o.status # "invalidated" /\ n.status = "invalidated"
    => \E e \in Projects \ {d} : \E m \in db[e] : SameRecord(m, o)

LEMMA NextCopyBeforeRetire == IInv /\ [Next]_vars => [CopyBeforeRetireStep]_db
<1>1. SUFFICES ASSUME IInv, Next, db' # db,
                      NEW d \in Projects, NEW o \in db[d], NEW n \in db'[d],
                      n.id = o.id, o.kind # "discovered_constraint",
                      o.status # "invalidated", n.status = "invalidated"
               PROVE  \E e \in Projects \ {d} : \E m \in db[e] : SameRecord(m, o)
  BY DEF vars, CopyBeforeRetireStep
<1>2. ASSUME NEW r \in Requests, NEW date \in Dates, Store(r.project, r, date)
      PROVE  FALSE
  BY <1>1, <1>2, StoreKeeps
<1>3. UniqueIds(db[d])
  BY <1>1 DEF IInv, RowsInv, GoodRows
<1>4. ASSUME NEW p \in Procs, CommitTarget(p) PROVE FALSE
  <2>1. /\ db' = [db EXCEPT ![To(p)] = tgt[p]]
        /\ Continues(db[To(p)], tgt[p]) /\ GoodRows(tgt[p])
    BY <1>1, <1>4, CommitTargetKeeps
  <2>2. CASE d = To(p)
    <3>1. n \in tgt[p]
      BY <1>1, <2>1, <2>2 DEF IInv, TypeOK
    <3>2. n.status = o.status
      BY <1>1, <2>1, <2>2, <3>1, SameIdSameRow DEF GoodRows
    <3>3. QED
      BY <1>1, <3>2
  <2>3. CASE d # To(p)
    <3>1. n \in db[d]
      BY <1>1, <2>1, <2>3 DEF IInv, TypeOK
    <3>2. QED
      BY <1>1, <1>3, <3>1 DEF UniqueIds
  <2>4. QED
    BY <2>2, <2>3
<1>5. ASSUME NEW p \in Procs, CommitSource(p)
      PROVE  \E e \in Projects \ {d} : \E m \in db[e] : SameRecord(m, o)
  <2>1. /\ db' = [db EXCEPT ![From(p)] = src[p]]
        /\ CopiedInto(db[To(p)], db[From(p)], src[p])
    BY <1>1, <1>5, CommitSourceKeeps
  <2>2. From(p) \in Projects /\ To(p) \in Projects /\ From(p) # To(p)
    BY <1>1, RouteProjects DEF IInv
  <2>3. CASE d = From(p)
    <3>1. n \in src[p]
      BY <1>1, <2>1, <2>3 DEF IInv, TypeOK
    <3>2. \E m \in db[To(p)] : SameRecord(m, o)
      BY <1>1, <2>1, <2>3, <3>1 DEF CopiedInto
    <3>3. QED
      BY <2>2, <2>3, <3>2
  <2>4. CASE d # From(p)
    <3>1. n \in db[d]
      BY <1>1, <2>1, <2>4 DEF IInv, TypeOK
    <3>2. QED
      BY <1>1, <1>3, <3>1 DEF UniqueIds
  <2>5. QED
    BY <2>3, <2>4
<1>6. \/ \E r \in Requests, date \in Dates : Store(r.project, r, date)
      \/ \E p \in Procs : CommitTarget(p)
      \/ \E p \in Procs : CommitSource(p)
  BY <1>1 DEF Next, Progress, Migrate, ReadRows, LockTarget, LockSource, LockBusy,
              NextRow, Abort
<1>7. QED
  BY <1>2, <1>4, <1>5, <1>6

THEOREM CopyComesFirst == Spec => CopyBeforeRetire
<1>1. IInv /\ [Next]_vars => [CopyBeforeRetireStep]_db
  BY NextCopyBeforeRetire
<1>2. Spec => [][CopyBeforeRetireStep]_db
  BY <1>1, Invariance, PTL DEF Spec
<1>3. QED
  BY <1>2 DEF CopyBeforeRetire, CopyBeforeRetireStep
-----------------------------------------------------------------------------
(***************************************************************************)
(* What is lost and what is inserted twice, where no project is migrated   *)
(* both from and to.  (Where one is, a memory that comes back to a project *)
(* it had left is lost.)                                                   *)
(***************************************************************************)
Targets == {rt[2] : rt \in Routes}

OneWayRoutes == \A rt, other \in Routes : rt[1] # other[2]

\* No migration has retired it: only stores invalidate constraints.
Kept(m) == m.kind = "discovered_constraint" \/ m.status # "invalidated"

\* Some database has a memory of this content and kind.
Known(m) == \E d \in Projects : \E o \in db[d] : o.content = m.content /\ o.kind = m.kind

\* A content names one memory, in whatever database it is.
KindsAgree ==
  \A d, e \in Projects : \A m \in db[d], o \in db[e] : m.content = o.content => m.kind = o.kind

TargetsKeep == \A d \in Targets : \A m \in db[d] : Kept(m)

HasCopy(d, o) == \E e \in Targets \ {d} : \E m \in db[e] : SameRecord(m, o)
RetiredHaveCopies == \A d \in Projects : \A o \in db[d] : Kept(o) \/ HasCopy(d, o)

\* What one process is about to commit: memories that are known, none of them
\* retired in the target, and in the source those of the source.
OneWayProc(p) ==
  /\ \A m \in todo[p] : Known(m) /\ m.status # "invalidated"
  /\ pc[p] \in HoldsTarget => \A n \in tgt[p] : Known(n) /\ Kept(n)
  /\ pc[p] \in HoldsSource => \A n \in src[p] : \E o \in db[From(p)] : SameMemory(n, o)

OneWayInv ==
  KindsAgree /\ TargetsKeep /\ RetiredHaveCopies /\ \A p \in Procs : OneWayProc(p)

LEMMA TargetProjects ==
  ASSUME TypeOK
  PROVE  Targets \subseteq Projects /\ \A p \in Procs : To(p) \in Targets
BY MigrationAssumption DEF Targets, TypeOK, To

(***************************************************************************)
(* What is known stays known, and copies stay where they are, while the    *)
(* rows of every database endure.                                          *)
(***************************************************************************)
LEMMA KnownEndures ==
  ASSUME \A d \in Projects : Endures(db[d], db'[d]), NEW m, Known(m)
  PROVE  Known(m)'
<1>1. PICK d \in Projects : \E o \in db[d] : o.content = m.content /\ o.kind = m.kind
  BY DEF Known
<1>2. PICK o \in db[d] : o.content = m.content /\ o.kind = m.kind
  BY <1>1
<1>3. PICK n \in db'[d] : SameMemory(n, o)
  BY <1>2 DEF Endures
<1>4. QED
  BY <1>2, <1>3 DEF Known, SameMemory, SameRecord

LEMMA CopyEndures ==
  ASSUME TypeOK, \A d \in Projects : Endures(db[d], db'[d]), NEW d, NEW o, HasCopy(d, o)
  PROVE  HasCopy(d, o)'
<1>1. PICK e \in Targets \ {d} : \E m \in db[e] : SameRecord(m, o)
  BY DEF HasCopy
<1>2. PICK m \in db[e] : SameRecord(m, o)
  BY <1>1
<1>3. PICK n \in db'[e] : SameMemory(n, m)
  BY <1>2, TargetProjects DEF Endures
<1>4. SameRecord(n, o)
  BY <1>2, <1>3 DEF SameMemory, SameRecord
<1>5. QED
  BY <1>4 DEF HasCopy

(***************************************************************************)
(* A process that changes none of its rows keeps its part.                 *)
(***************************************************************************)
LEMMA OneWayOther ==
  ASSUME TypeOK, NEW q \in Procs, OneWayProc(q),
         pc'[q] = pc[q], route'[q] = route[q], todo'[q] = todo[q],
         tgt'[q] = tgt[q], src'[q] = src[q],
         \A d \in Projects : Endures(db[d], db'[d])
  PROVE  OneWayProc(q)'
<1>1. From(q) \in Projects /\ From(q)' = From(q)
  BY RouteProjects DEF From
<1>2. ASSUME NEW m, Known(m) PROVE Known(m)'
  BY <1>2, KnownEndures
<1>3. (\A m \in todo[q] : Known(m) /\ m.status # "invalidated")'
  BY <1>2 DEF OneWayProc
<1>4. (pc[q] \in HoldsTarget => \A n \in tgt[q] : Known(n) /\ Kept(n))'
  BY <1>2 DEF OneWayProc, Kept
<1>5. (pc[q] \in HoldsSource => \A n \in src[q] : \E o \in db[From(q)] : SameMemory(n, o))'
  <2>1. SUFFICES ASSUME pc[q] \in HoldsSource, NEW n \in src[q]
                 PROVE  \E k \in db'[From(q)] : SameMemory(n, k)
    BY <1>1
  <2>2. PICK o \in db[From(q)] : SameMemory(n, o)
    BY <2>1 DEF OneWayProc
  <2>3. PICK k \in db'[From(q)] : SameMemory(k, o)
    BY <1>1, <2>2 DEF Endures
  <2>4. QED
    BY <2>2, <2>3 DEF SameMemory, SameRecord
<1>6. QED
  BY <1>3, <1>4, <1>5 DEF OneWayProc

(***************************************************************************)
(* A step that commits nothing keeps what is said of the databases.        *)
(***************************************************************************)
LEMMA OneWayQuiet ==
  ASSUME IInv, OneWayInv, NEW p \in Procs, OthersUnchanged(p), db' = db, OneWayProc(p)'
  PROVE  OneWayInv'
<1>1. \A d \in Projects : Endures(db[d], db'[d])
  BY EnduresSelf
<1>2. ASSUME NEW q \in Procs PROVE OneWayProc(q)'
  BY <1>1, OneWayOther DEF OthersUnchanged, IInv, OneWayInv
<1>3. (KindsAgree /\ TargetsKeep /\ RetiredHaveCopies)'
  BY DEF OneWayInv, KindsAgree, TargetsKeep, RetiredHaveCopies, HasCopy, Kept
<1>4. QED
  BY <1>2, <1>3 DEF OneWayInv

(***************************************************************************)
(* A COMMIT that puts the rows into the database of project d0: its        *)
(* memories are known, and what it has retired has copies.                 *)
(***************************************************************************)
LEMMA OneWayCommit ==
  ASSUME IInv, OneWayInv, NEW d0 \in Projects, NEW rows,
         db' = [db EXCEPT ![d0] = rows], Endures(db[d0], rows),
         \A n \in rows : Known(n),
         d0 \in Targets => \A n \in rows : Kept(n),
         \A n \in rows : Kept(n) \/ HasCopy(d0, n)
  PROVE  /\ (KindsAgree /\ TargetsKeep /\ RetiredHaveCopies)'
         /\ \A d \in Projects : Endures(db[d], db'[d])
<1>1. \A d \in Projects : db'[d] = IF d = d0 THEN rows ELSE db[d]
  BY DEF IInv, TypeOK
<1>2. \A d \in Projects : Endures(db[d], db'[d])
  BY <1>1, EnduresSelf
<1>3. \A d \in Projects : \A n \in db'[d] : Known(n)
  BY <1>1 DEF Known
<1>4. KindsAgree'
  <2>1. SUFFICES ASSUME NEW d \in Projects, NEW e \in Projects,
                        NEW m \in db'[d], NEW o \in db'[e], m.content = o.content
                 PROVE  m.kind = o.kind
    BY DEF KindsAgree
  <2>2. Known(m) /\ Known(o)
    BY <1>3
  <2>3. QED
    BY <2>1, <2>2 DEF Known, KindsAgree, OneWayInv
<1>5. TargetsKeep'
  BY <1>1, TargetProjects DEF TargetsKeep, OneWayInv, IInv, Kept
<1>6. ASSUME NEW d \in Projects, NEW o \in db'[d] PROVE Kept(o) \/ HasCopy(d, o)'
  <2>1. Kept(o) \/ HasCopy(d, o)
    BY <1>1 DEF OneWayInv, RetiredHaveCopies
  <2>2. QED
    BY <1>2, <2>1, CopyEndures DEF IInv
<1>7. RetiredHaveCopies'
  BY <1>6 DEF RetiredHaveCopies, Kept
<1>8. QED
  BY <1>2, <1>4, <1>5, <1>7

(***************************************************************************)
(* A store by another process: its content is new to every database.       *)
(***************************************************************************)
LEMMA OneWayStore ==
  ASSUME IInv, OneWayInv, NEW r \in Requests, NEW date \in Dates, Store(r.project, r, date)
  PROVE  OneWayInv'
<1> DEFINE d0  == r.project
           upd == Settled(db[d0], r)
           row == NewRow(NextId(db[d0], date), r, TRUE, date, r.labels)
           new == upd \union {row}
<1>1. r \in Request /\ d0 \in Projects /\ date \in Nat
  BY MigrationAssumption DEF Request
<1>2. db' = [db EXCEPT ![d0] = new] /\ UNCHANGED <<pc, route, todo, tgt, src>>
  BY <1>1 DEF Store, IInv, TypeOK
<1>3. GoodRows(db[d0]) /\ GoodRows(new) /\ Endures(db[d0], new)
  BY <1>1, StoredKeeps DEF IInv, RowsInv
<1>4. ASSUME NEW n \in upd
      PROVE  \E o \in db[d0] : SameMemory(n, o) /\ (Kept(o) => Kept(n))
  <2>1. PICK o \in db[d0] : /\ n.id = o.id /\ n.kind = o.kind
                            /\ \/ n.status = o.status
                               \/ n.status = "superseded"
                               \/ n.kind = "discovered_constraint"
    BY <1>3, <1>4, SettledOrigin DEF GoodRows
  <2>2. SameMemory(n, o)
    BY <1>3, <2>1, SameIdSameRow DEF GoodRows
  <2>3. QED
    BY <2>1, <2>2 DEF Kept
<1>5. /\ row.content = r.content /\ row.kind = r.kind /\ row.status = "active"
      /\ \A e \in Projects : \A m \in db[e] : m.content # r.content
  BY <1>1 DEF NewRow, Store
<1> HIDE DEF upd, row
<1>6. \A d \in Projects : db'[d] = IF d = d0 THEN new ELSE db[d]
  BY <1>2 DEF IInv, TypeOK
<1>7. \A d \in Projects : Endures(db[d], db'[d])
  BY <1>3, <1>6, EnduresSelf
<1>8. ASSUME NEW d \in Projects, NEW n \in db'[d]
      PROVE  \/ d = d0 /\ n = row
             \/ \E o \in db[d] : SameMemory(n, o) /\ (Kept(o) => Kept(n))
  BY <1>4, <1>6, <1>8 DEF SameMemory, SameRecord
<1>9. KindsAgree'
  <2>1. SUFFICES ASSUME NEW d \in Projects, NEW e \in Projects,
                        NEW m \in db'[d], NEW o \in db'[e], m.content = o.content
                 PROVE  m.kind = o.kind
    BY DEF KindsAgree
  <2>2. \/ m = row
        \/ \E k \in db[d] : m.content = k.content /\ m.kind = k.kind
    BY <1>8 DEF SameMemory, SameRecord
  <2>3. \/ o = row
        \/ \E k \in db[e] : o.content = k.content /\ o.kind = k.kind
    BY <1>8 DEF SameMemory, SameRecord
  <2>4. QED
    BY <1>5, <2>1, <2>2, <2>3 DEF KindsAgree, OneWayInv
<1>10. TargetsKeep'
  BY <1>5, <1>8, TargetProjects DEF TargetsKeep, OneWayInv, IInv, Kept
<1>11. ASSUME NEW d \in Projects, NEW n \in db'[d] PROVE Kept(n) \/ HasCopy(d, n)'
  <2>1. CASE n = row
    BY <1>5, <2>1 DEF Kept
  <2>2. CASE \E o \in db[d] : SameMemory(n, o) /\ (Kept(o) => Kept(n))
    <3>1. PICK o \in db[d] : SameMemory(n, o) /\ (Kept(o) => Kept(n))
      BY <2>2
    <3>2. Kept(o) \/ HasCopy(d, o)
      BY DEF OneWayInv, RetiredHaveCopies
    <3>3. HasCopy(d, o) => HasCopy(d, n)
      BY <3>1 DEF HasCopy, SameMemory, SameRecord
    <3>4. QED
      BY <1>7, <3>1, <3>2, <3>3, CopyEndures DEF IInv
  <2>3. QED
    BY <1>8, <2>1, <2>2
<1>12. RetiredHaveCopies'
  BY <1>11 DEF RetiredHaveCopies, Kept
<1>13. \A q \in Procs : OneWayProc(q)'
  BY <1>2, <1>7, OneWayOther DEF IInv, OneWayInv
<1>14. QED
  BY <1>9, <1>10, <1>12, <1>13 DEF OneWayInv

(***************************************************************************)
(* The steps of a migration.                                               *)
(***************************************************************************)
LEMMA OneWayBegin ==
  ASSUME IInv, OneWayInv, NEW p \in Procs,
         \/ \E rt \in Routes : Migrate(p, rt)
         \/ ReadRows(p) \/ LockTarget(p) \/ LockSource(p)
  PROVE  OneWayInv'
<1>1. OthersUnchanged(p) /\ db' = db
  BY DEF IInv, TypeOK, Migrate, ReadRows, LockTarget, LockSource, Goto, OthersUnchanged
<1>2. /\ From(p) \in Projects /\ To(p) \in Projects /\ To(p) \in Targets
      /\ \A d \in Projects : \A m \in db[d] : Known(m)
  BY RouteProjects, TargetProjects DEF IInv, Known
<1>3. ASSUME NEW m PROVE Known(m)' <=> Known(m)
  BY <1>1 DEF Known
<1>4. ASSUME NEW rt \in Routes, Migrate(p, rt) PROVE OneWayProc(p)'
  BY <1>1, <1>4 DEF IInv, TypeOK, ProcInv, OneWayProc, Migrate, Goto, HoldsTarget, HoldsSource
<1>5. ASSUME ReadRows(p) PROVE OneWayProc(p)'
  <2>1. todo'[p] = Matching(db[From(p)], To(p)) /\ pc'[p] = "lock_target"
    BY <1>5 DEF IInv, TypeOK, ReadRows, Goto
  <2>2. \A m \in todo'[p] : Known(m) /\ m.status # "invalidated"
    BY <1>2, <2>1 DEF Matching
  <2>3. QED
    BY <1>3, <2>1, <2>2 DEF OneWayProc, HoldsTarget, HoldsSource
<1>6. ASSUME LockTarget(p) PROVE OneWayProc(p)'
  <2>1. tgt'[p] = db[To(p)] /\ pc'[p] = "lock_source" /\ todo' = todo
    BY <1>6 DEF IInv, TypeOK, LockTarget, Goto
  <2>2. \A n \in tgt'[p] : Known(n) /\ Kept(n)
    BY <1>2, <2>1 DEF OneWayInv, TargetsKeep
  <2>3. QED
    BY <1>3, <2>1, <2>2 DEF OneWayInv, OneWayProc, HoldsSource, Kept
<1>7. ASSUME LockSource(p) PROVE OneWayProc(p)'
  <2>1. /\ src'[p] = db[From(p)] /\ pc[p] = "lock_source" /\ pc'[p] = "rows"
        /\ todo' = todo /\ tgt' = tgt /\ From(p)' = From(p)
    BY <1>7 DEF IInv, TypeOK, LockSource, Goto, From
  <2>2. \A n \in src'[p] : SameMemory(n, n)
    BY DEF SameMemory, SameRecord
  <2>3. QED
    BY <1>1, <1>3, <2>1, <2>2 DEF OneWayInv, OneWayProc, HoldsTarget, Kept
<1>8. OneWayProc(p)'
  BY <1>4, <1>5, <1>6, <1>7
<1>9. QED
  BY <1>1, <1>8, OneWayQuiet

LEMMA OneWayEnd ==
  ASSUME IInv, OneWayInv, NEW p \in Procs, End(p), route' = route, db' = db
  PROVE  OneWayInv'
<1>1. OthersUnchanged(p) /\ todo'[p] = {} /\ pc'[p] = "idle"
  BY DEF IInv, TypeOK, End, Goto, OthersUnchanged
<1>2. OneWayProc(p)'
  BY <1>1 DEF OneWayProc, HoldsTarget, HoldsSource
<1>3. QED
  BY <1>1, <1>2, OneWayQuiet

LEMMA OneWayBusy ==
  ASSUME IInv, OneWayInv, NEW p \in Procs, LockBusy(p)
  PROVE  OneWayInv'
<1>1. db' = db /\ route' = route
  BY DEF LockBusy
<1>2. CASE UNCHANGED <<lock, pc, todo, tgt, src>>
  <2>1. OthersUnchanged(p) /\ \A d \in Projects : Endures(db[d], db'[d])
    BY <1>1, <1>2, EnduresSelf DEF OthersUnchanged
  <2>2. OneWayProc(p)'
    BY <1>1, <1>2, <2>1, OneWayOther DEF IInv, OneWayInv
  <2>3. QED
    BY <1>1, <2>1, <2>2, OneWayQuiet
<1>3. CASE End(p)
  BY <1>1, <1>3, OneWayEnd
<1>4. QED
  BY <1>2, <1>3 DEF LockBusy

(***************************************************************************)
(* One row of the loop: the copy is a memory that is known and not         *)
(* retired, and the source's rows stay those of the source.                *)
(***************************************************************************)
LEMMA OneWayCopied ==
  ASSUME NEW rows, NEW m, Known(m), m.status # "invalidated", m \in Row, rows \subseteq Row,
         \A n \in rows : Known(n) /\ Kept(n), NEW project, NEW labels
  PROVE  \A n \in Copied(rows, m, project, labels) : Known(n) /\ Kept(n)
<1>1. SUFFICES ASSUME NEW n \in Copied(rows, m, project, labels)
               PROVE  Known(n) /\ Kept(n)
  OBVIOUS
<1>2. \E o \in rows \union {m} :
        n.content = o.content /\ n.kind = o.kind /\ n.status = o.status
  BY DEF Copied, Row
<1>3. PICK o \in rows \union {m} :
        n.content = o.content /\ n.kind = o.kind /\ n.status = o.status
  BY <1>2
<1>4. Known(o) /\ Kept(o)
  BY DEF Kept
<1>5. QED
  BY <1>3, <1>4 DEF Known, Kept

LEMMA OneWayRow ==
  ASSUME IInv, OneWayInv, NEW p \in Procs, NextRow(p)
  PROVE  OneWayInv'
<1>1. /\ OthersUnchanged(p) /\ db' = db /\ pc' = pc /\ From(p)' = From(p) /\ pc[p] = "rows"
  BY DEF IInv, TypeOK, NextRow, MoveRow, SkipRow, OthersUnchanged, From
<1>2. PICK m \in todo[p] : /\ MoveRow(p, m) \/ SkipRow(p, m)
                           /\ todo' = [todo EXCEPT ![p] = @ \ {m}]
  BY DEF NextRow
<1>3. /\ m \in Row /\ Known(m) /\ m.status # "invalidated" /\ tgt[p] \subseteq Row
      /\ src[p] \subseteq Row /\ todo'[p] \subseteq todo[p]
      /\ \A n \in tgt[p] : Known(n) /\ Kept(n)
      /\ \A n \in src[p] : \E o \in db[From(p)] : SameMemory(n, o)
  BY <1>1, <1>2 DEF IInv, TypeOK, OneWayInv, OneWayProc, HoldsTarget, HoldsSource
<1>4. tgt'[p] = tgt[p] \/ \E labels : tgt'[p] = Copied(tgt[p], m, To(p), labels)
  BY <1>2 DEF MoveRow, SkipRow, IInv, TypeOK
<1>5. \A n \in tgt'[p] : Known(n) /\ Kept(n)
  BY <1>3, <1>4, OneWayCopied
<1>6. src'[p] = src[p] \/ src'[p] = Invalidated(src[p], m.id)
  BY <1>2 DEF MoveRow, SkipRow, IInv, TypeOK
<1>7. \A n \in src'[p] : \E o \in db[From(p)] : SameMemory(n, o)
  <2>1. \A n \in src'[p] : \E o \in src[p] : SameMemory(n, o)
    BY <1>3, <1>6 DEF Invalidated, SameMemory, SameRecord, Row
  <2>2. QED
    BY <1>3, <2>1 DEF SameMemory, SameRecord
<1>8. OneWayProc(p)'
  <2>1. \A n : Known(n)' <=> Known(n)
    BY <1>1 DEF Known
  <2>2. \A n \in todo'[p] : Known(n)' /\ n.status # "invalidated"
    BY <1>3, <2>1 DEF OneWayInv, OneWayProc
  <2>3. \A n \in tgt'[p] : Known(n)' /\ Kept(n)
    BY <1>5, <2>1
  <2>4. QED
    BY <1>1, <1>7, <2>2, <2>3 DEF OneWayProc, Kept
<1>9. QED
  BY <1>1, <1>8, OneWayQuiet

LEMMA OneWayCommitTarget ==
  ASSUME IInv, OneWayInv, NEW p \in Procs, CommitTarget(p)
  PROVE  OneWayInv'
<1>1. /\ OthersUnchanged(p) /\ From(p)' = From(p) /\ pc[p] = "rows"
      /\ pc'[p] = "commit_source" /\ src' = src /\ todo' = todo
  BY DEF IInv, TypeOK, CommitTarget, Goto, OthersUnchanged, From
<1>2. db' = [db EXCEPT ![To(p)] = tgt[p]] /\ Endures(db[To(p)], tgt[p])
  BY CommitTargetKeeps, ContinuesEndures
<1>3. To(p) \in Projects /\ \A n \in tgt[p] : Known(n) /\ Kept(n)
  BY <1>1, RouteProjects DEF OneWayInv, OneWayProc, HoldsTarget, IInv
<1>4. /\ (KindsAgree /\ TargetsKeep /\ RetiredHaveCopies)'
      /\ \A d \in Projects : Endures(db[d], db'[d])
  BY <1>2, <1>3, OneWayCommit
<1>5. db'[From(p)] = db[From(p)]
  BY <1>2, RouteProjects DEF IInv, TypeOK
<1>6. \A m : Known(m) => Known(m)'
  BY <1>4, KnownEndures
<1>7. OneWayProc(p)'
  <2>1. \A m \in todo'[p] : Known(m)' /\ m.status # "invalidated"
    BY <1>1, <1>6 DEF OneWayInv, OneWayProc
  <2>2. \A n \in src'[p] : \E o \in db'[From(p)] : SameMemory(n, o)
    BY <1>1, <1>5 DEF OneWayInv, OneWayProc, HoldsSource
  <2>3. QED
    BY <1>1, <2>1, <2>2 DEF OneWayProc, HoldsTarget
<1>8. ASSUME NEW q \in Procs PROVE OneWayProc(q)'
  <2>1. CASE q = p
    BY <1>7, <2>1
  <2>2. CASE q # p
    <3>1. /\ pc'[q] = pc[q] /\ route'[q] = route[q] /\ todo'[q] = todo[q]
          /\ tgt'[q] = tgt[q] /\ src'[q] = src[q] /\ OneWayProc(q) /\ TypeOK
      BY <1>1, <2>2 DEF OthersUnchanged, OneWayInv, IInv
    <3>2. QED
      BY <1>4, <3>1, OneWayOther
  <2>3. QED
    BY <2>1, <2>2
<1>9. QED
  BY <1>4, <1>8 DEF OneWayInv

(***************************************************************************)
(* The second COMMIT: what it retires has been copied, and nothing is      *)
(* migrated from where the copies are.                                     *)
(***************************************************************************)
LEMMA OneWayCommitSource ==
  ASSUME OneWayRoutes, IInv, OneWayInv, NEW p \in Procs, CommitSource(p)
  PROVE  OneWayInv'
<1>1. /\ OthersUnchanged(p) /\ pc[p] = "commit_source" /\ pc'[p] = "idle" /\ todo'[p] = {}
  BY DEF IInv, TypeOK, CommitSource, End, Goto, OthersUnchanged
<1>2. /\ db' = [db EXCEPT ![From(p)] = src[p]]
      /\ CopiedInto(db[To(p)], db[From(p)], src[p])
  BY CommitSourceKeeps
<1>3. /\ From(p) \in Projects /\ To(p) \in Targets \ {From(p)} /\ From(p) \notin Targets
  BY RouteProjects, TargetProjects DEF OneWayRoutes, Targets, From, IInv, TypeOK
<1>4. Endures(db[From(p)], src[p]) /\ GoodRows(src[p]) /\ UniqueIds(db[From(p)])
  BY <1>1, <1>3 DEF IInv, ProcInv, HoldsSource, RowsInv, GoodRows
<1>5. ASSUME NEW n \in src[p]
      PROVE  Known(n) /\ (Kept(n) \/ HasCopy(From(p), n))
  <2>1. PICK o \in db[From(p)] : SameMemory(n, o)
    BY <1>1 DEF OneWayInv, OneWayProc, HoldsSource
  <2>2. Known(n)
    BY <1>3, <2>1 DEF Known, SameMemory, SameRecord
  <2>3. CASE o.status # "invalidated" /\ n.status = "invalidated"
    <3>1. PICK m \in db[To(p)] : SameRecord(m, o)
      BY <1>2, <2>1, <2>3 DEF CopiedInto, SameMemory
    <3>2. SameRecord(m, n)
      BY <2>1, <3>1 DEF SameMemory, SameRecord
    <3>3. QED
      BY <1>3, <2>2, <3>2 DEF HasCopy
  <2>4. CASE n.status # "invalidated"
    BY <2>2, <2>4 DEF Kept
  <2>5. CASE o.status = "invalidated"
    <3>1. Kept(o) \/ HasCopy(From(p), o)
      BY <1>3 DEF OneWayInv, RetiredHaveCopies
    <3>2. HasCopy(From(p), o) => HasCopy(From(p), n)
      BY <2>1 DEF HasCopy, SameMemory, SameRecord
    <3>3. Kept(o) => Kept(n)
      BY <2>1, <2>5 DEF Kept, SameMemory
    <3>4. QED
      BY <2>2, <3>1, <3>2, <3>3
  <2>6. QED
    BY <2>3, <2>4, <2>5
<1>6. /\ (KindsAgree /\ TargetsKeep /\ RetiredHaveCopies)'
      /\ \A d \in Projects : Endures(db[d], db'[d])
  BY <1>2, <1>3, <1>4, <1>5, OneWayCommit
<1>7. OneWayProc(p)'
  BY <1>1 DEF OneWayProc, HoldsTarget, HoldsSource
<1>8. ASSUME NEW q \in Procs PROVE OneWayProc(q)'
  <2>1. CASE q = p
    BY <1>7, <2>1
  <2>2. CASE q # p
    <3>1. /\ pc'[q] = pc[q] /\ route'[q] = route[q] /\ todo'[q] = todo[q]
          /\ tgt'[q] = tgt[q] /\ src'[q] = src[q] /\ OneWayProc(q) /\ TypeOK
      BY <1>1, <2>2 DEF OthersUnchanged, OneWayInv, IInv
    <3>2. QED
      BY <1>6, <3>1, OneWayOther
  <2>3. QED
    BY <2>1, <2>2
<1>9. QED
  BY <1>6, <1>8 DEF OneWayInv

LEMMA InitOneWayInv == Init => OneWayInv
<1>1. SUFFICES ASSUME Init PROVE OneWayInv
  OBVIOUS
<1>2. \A d \in Projects : db[d] = {}
  BY <1>1 DEF Init
<1>3. Targets \subseteq Projects
  BY MigrationAssumption DEF Targets
<1>4. KindsAgree /\ TargetsKeep /\ RetiredHaveCopies
  BY <1>2, <1>3 DEF KindsAgree, TargetsKeep, RetiredHaveCopies
<1>5. \A p \in Procs : OneWayProc(p)
  BY <1>1 DEF Init, OneWayProc, HoldsTarget, HoldsSource
<1>6. QED
  BY <1>4, <1>5 DEF OneWayInv

LEMMA NextOneWayInv == OneWayRoutes /\ IInv /\ OneWayInv /\ [Next]_vars => OneWayInv'
<1>1. SUFFICES ASSUME OneWayRoutes, IInv, OneWayInv, [Next]_vars PROVE OneWayInv'
  OBVIOUS
<1>2. ASSUME NEW r \in Requests, NEW date \in Dates, Store(r.project, r, date)
      PROVE  OneWayInv'
  BY <1>1, <1>2, OneWayStore
<1>3. ASSUME NEW p \in Procs, NEW rt \in Routes, Migrate(p, rt) PROVE OneWayInv'
  BY <1>1, <1>3, OneWayBegin
<1>4. ASSUME NEW p \in Procs, Progress(p) PROVE OneWayInv'
  BY <1>1, <1>4, OneWayBegin, OneWayBusy, OneWayRow, OneWayCommitTarget,
     OneWayCommitSource DEF Progress
<1>5. ASSUME NEW p \in Procs, Abort(p) PROVE OneWayInv'
  BY <1>1, <1>5, OneWayEnd DEF Abort
<1>6. CASE UNCHANGED vars
  <2>1. \A d \in Projects : Endures(db[d], db'[d])
    BY <1>6, EnduresSelf DEF vars
  <2>2. \A q \in Procs : OneWayProc(q)'
    BY <1>1, <1>6, <2>1, OneWayOther DEF vars, IInv, OneWayInv
  <2>3. (KindsAgree /\ TargetsKeep /\ RetiredHaveCopies)'
    BY <1>1, <1>6
       DEF vars, OneWayInv, KindsAgree, TargetsKeep, RetiredHaveCopies, HasCopy, Kept
  <2>4. QED
    BY <2>2, <2>3 DEF OneWayInv
<1>7. QED
  BY <1>1, <1>2, <1>3, <1>4, <1>5, <1>6 DEF Next

THEOREM OneWayInvariance ==
  ASSUME OneWayRoutes
  PROVE  Spec => []OneWayInv
<1>1. IInv /\ OneWayInv /\ [Next]_vars => OneWayInv'
  BY NextOneWayInv
<1>2. QED
  BY <1>1, InitOneWayInv, Invariance, PTL DEF Spec

(***************************************************************************)
(* No memory is lost where no project is migrated both from and to: what a *)
(* migration has retired has a copy elsewhere that none has retired,       *)
(* whatever fails or dies, and however stale the rows it has read.         *)
(***************************************************************************)
THEOREM OneWayLosesNothing ==
  ASSUME OneWayRoutes
  PROVE  Spec => []NothingLost
<1>1. IInv /\ OneWayInv => NothingLost
  <2>1. SUFFICES ASSUME IInv, OneWayInv, NEW d \in Projects, NEW o \in db[d],
                        o.status = "invalidated", o.kind # "discovered_constraint"
                 PROVE  \E e \in Projects \ {d} : \E m \in db[e] :
                          SameRecord(m, o) /\ m.status # "invalidated"
    BY DEF NothingLost
  <2>2. HasCopy(d, o)
    BY <2>1 DEF OneWayInv, RetiredHaveCopies, Kept
  <2>3. PICK e \in Targets \ {d} : \E m \in db[e] : SameRecord(m, o)
    BY <2>2 DEF HasCopy
  <2>4. PICK m \in db[e] : SameRecord(m, o)
    BY <2>3
  <2>5. e \in Projects
    BY <2>1, TargetProjects DEF IInv
  <2>6. m.kind = o.kind
    BY <2>1, <2>4, <2>5 DEF OneWayInv, KindsAgree, SameRecord
  <2>7. m.status # "invalidated"
    BY <2>1, <2>6 DEF OneWayInv, TargetsKeep, Kept
  <2>8. QED
    BY <2>4, <2>5, <2>7
<1>2. QED
  BY <1>1, Invariance, OneWayInvariance, PTL

-----------------------------------------------------------------------------
(***************************************************************************)
(* Each row of a target is one of its own, or stands for a row of a        *)
(* source: under that row's id, or under another because a different       *)
(* memory has that id in the target.                                       *)
(***************************************************************************)

\* Only this project has the content.
Apart(d, n) == \A e \in Projects \ {d} : \A s \in db[e] : s.content # n.content

OwnIn(d, rows, n) == Apart(d, n) /\ \A k \in rows : k.content = n.content => k.id = n.id

\* Another memory has the id that s would keep.
Displaced(rows, s) == \E k \in rows : k.id = s.id /\ ~SameRecord(k, s)

CopyIn(rows, n) ==
  \E e \in Projects \ Targets : \E s \in db[e] :
    SameRecord(s, n) /\ (n.id = s.id \/ Displaced(rows, s))

Sourced(d, rows) == \A n \in rows : OwnIn(d, rows, n) \/ CopyIn(rows, n)

\* What is stored in a source has a content of its own.
SourcesUnique ==
  \A d, e \in Projects \ Targets : \A m \in db[d], o \in db[e] :
    m.content = o.content => d = e /\ m = o

CopyInv ==
  /\ SourcesUnique
  /\ \A d \in Targets : Sourced(d, db[d])
  /\ \A p \in Procs : pc[p] \in HoldsTarget => Sourced(To(p), tgt[p])

\* The step brings no content of a target's own to another project.
StayApart == \A d \in Targets : \A o \in db[d] : Apart(d, o) => Apart(d, o)'

LEMMA DisplacedEndures ==
  ASSUME NEW rows, NEW new, Endures(rows, new), NEW s, NEW t, SameMemory(t, s),
         Displaced(rows, s)
  PROVE  Displaced(new, t)
<1>1. PICK k \in rows : k.id = s.id /\ ~SameRecord(k, s)
  BY DEF Displaced
<1>2. PICK j \in new : SameMemory(j, k)
  BY DEF Endures
<1>3. QED
  BY <1>1, <1>2 DEF Displaced, SameMemory, SameRecord

\* A copy remains a copy while rows endure.
LEMMA CopyInEndures ==
  ASSUME \A e \in Projects : Endures(db[e], db'[e]),
         NEW rows, NEW new, Endures(rows, new),
         NEW n, NEW n2, SameMemory(n2, n), CopyIn(rows, n)
  PROVE  CopyIn(new, n2)'
<1>1. PICK e \in Projects \ Targets : \E s \in db[e] :
        SameRecord(s, n) /\ (n.id = s.id \/ Displaced(rows, s))
  BY DEF CopyIn
<1>2. PICK s \in db[e] : SameRecord(s, n) /\ (n.id = s.id \/ Displaced(rows, s))
  BY <1>1
<1>3. PICK t \in db'[e] : SameMemory(t, s)
  BY <1>1 DEF Endures
<1>4. SameRecord(t, n2) /\ (n.id = s.id => n2.id = t.id)
  BY <1>2, <1>3 DEF SameMemory, SameRecord
<1>5. Displaced(rows, s) => Displaced(new, t)
  BY <1>3, DisplacedEndures
<1>6. QED
  BY <1>1, <1>2, <1>3, <1>4, <1>5 DEF CopyIn

\* What is the project's own and known stays so.
LEMMA ApartStays ==
  ASSUME StayApart, NEW d \in Targets, NEW n, NEW n2, n2.content = n.content,
         Known(n), Apart(d, n)
  PROVE  Apart(d, n2)'
<1>1. PICK e \in Projects : \E o \in db[e] : o.content = n.content
  BY DEF Known
<1>2. PICK o \in db[e] : o.content = n.content
  BY <1>1
<1>3. e = d
  BY <1>2 DEF Apart
<1>4. Apart(d, o)
  BY <1>2 DEF Apart
<1>5. Apart(d, o)'
  BY <1>2, <1>3, <1>4 DEF StayApart
<1>6. QED
  BY <1>2, <1>5 DEF Apart

(***************************************************************************)
(* Rows that remain, with other labels or another status perhaps, stay     *)
(* sourced; what is added has to be.                                       *)
(***************************************************************************)
LEMMA SourcedKeeps ==
  ASSUME StayApart, \A e \in Projects : Endures(db[e], db'[e]),
         NEW d \in Targets, NEW rows, NEW new, Endures(rows, new),
         \A n \in rows : Known(n), Sourced(d, rows),
         \A n2 \in new :
           \/ \E n \in rows : SameMemory(n2, n)
           \/ /\ OwnIn(d, new, n2)' \/ CopyIn(new, n2)'
              /\ \A n \in rows : Apart(d, n) => n2.content # n.content
  PROVE  Sourced(d, new)'
<1>1. SUFFICES ASSUME NEW n2 \in new
               PROVE  OwnIn(d, new, n2)' \/ CopyIn(new, n2)'
  BY DEF Sourced
<1>2. CASE \E n \in rows : SameMemory(n2, n)
  <2>1. PICK n \in rows : SameMemory(n2, n)
    BY <1>2
  <2>2. CASE OwnIn(d, rows, n)
    <3>1. Apart(d, n2)'
      BY <2>1, <2>2, ApartStays DEF OwnIn, SameMemory, SameRecord
    <3>2. ASSUME NEW k2 \in new, k2.content = n2.content
          PROVE  k2.id = n2.id
      <4>1. PICK k \in rows : SameMemory(k2, k)
        BY <2>1, <2>2, <3>2 DEF OwnIn, SameMemory, SameRecord
      <4>2. QED
        BY <2>1, <2>2, <3>2, <4>1 DEF OwnIn, SameMemory, SameRecord
    <3>3. QED
      BY <3>1, <3>2 DEF OwnIn
  <2>3. CASE CopyIn(rows, n)
    BY <2>1, <2>3, CopyInEndures
  <2>4. QED
    BY <2>2, <2>3 DEF Sourced
<1>3. QED
  BY <1>2

LEMMA SourcedStays ==
  ASSUME StayApart, \A e \in Projects : Endures(db[e], db'[e]),
         NEW d \in Targets, NEW rows, \A n \in rows : Known(n), Sourced(d, rows)
  PROVE  Sourced(d, rows)'
<1>1. Endures(rows, rows) /\ \A n \in rows : SameMemory(n, n)
  BY EnduresSelf DEF SameMemory, SameRecord
<1>2. QED
  BY <1>1, SourcedKeeps

\* The rows of a database are known, and those of a transaction on a target.
LEMMA AllKnown ==
  ASSUME IInv, OneWayInv
  PROVE  /\ \A d \in Projects : \A n \in db[d] : Known(n)
         /\ \A p \in Procs : pc[p] \in HoldsTarget => \A n \in tgt[p] : Known(n)
BY DEF Known, OneWayInv, OneWayProc

\* What a process that does nothing keeps.
LEMMA CopyOther ==
  ASSUME IInv, OneWayInv, NEW q \in Procs, pc[q] \in HoldsTarget => Sourced(To(q), tgt[q]),
         pc'[q] = pc[q], route'[q] = route[q], tgt'[q] = tgt[q],
         StayApart, \A e \in Projects : Endures(db[e], db'[e])
  PROVE  (pc[q] \in HoldsTarget => Sourced(To(q), tgt[q]))'
<1>1. SUFFICES ASSUME pc[q] \in HoldsTarget
               PROVE  Sourced(To(q), tgt[q])'
  OBVIOUS
<1>2. To(q) \in Targets /\ To(q)' = To(q)
  BY TargetProjects DEF IInv, To
<1>3. \A n \in tgt[q] : Known(n)
  BY <1>1, AllKnown
<1>4. \A rows, d : rows = tgt[q] /\ d = To(q) => Sourced(d, rows)'
  BY <1>1, <1>2, <1>3, SourcedStays
<1>5. QED
  BY <1>2, <1>4 DEF Sourced, OwnIn, CopyIn, Apart

\* A step of one process that commits nothing.
LEMMA CopyQuiet ==
  ASSUME IInv, OneWayInv, CopyInv, NEW p \in Procs, OthersUnchanged(p), db' = db,
         (pc[p] \in HoldsTarget => Sourced(To(p), tgt[p]))'
  PROVE  CopyInv'
<1>1. StayApart /\ \A e \in Projects : Endures(db[e], db'[e])
  BY EnduresSelf DEF StayApart, Apart
<1>2. SourcesUnique' /\ \A d \in Targets : Sourced(d, db[d])'
  BY DEF CopyInv, SourcesUnique, Sourced, OwnIn, CopyIn, Apart
<1>3. ASSUME NEW q \in Procs \ {p}
      PROVE  (pc[q] \in HoldsTarget => Sourced(To(q), tgt[q]))'
  BY <1>1, CopyOther DEF OthersUnchanged, CopyInv
<1>4. QED
  BY <1>2, <1>3 DEF CopyInv

(***************************************************************************)
(* One lemma per action.                                                   *)
(***************************************************************************)
LEMMA CopyStore ==
  ASSUME IInv, OneWayInv, CopyInv,
         NEW r \in Requests, NEW date \in Dates, Store(r.project, r, date)
  PROVE  CopyInv'
<1> DEFINE d0  == r.project
           upd == Settled(db[d0], r)
           row == NewRow(NextId(db[d0], date), r, TRUE, date, r.labels)
           new == upd \union {row}
<1>1. r \in Request /\ d0 \in Projects /\ date \in Nat
  BY MigrationAssumption DEF Request
<1>2. db' = [db EXCEPT ![d0] = new] /\ UNCHANGED <<pc, route, tgt>>
  BY <1>1 DEF Store, IInv, TypeOK
<1>3. GoodRows(db[d0]) /\ GoodRows(new) /\ Endures(db[d0], new)
  BY <1>1, StoredKeeps DEF IInv, RowsInv
<1>4. ASSUME NEW n \in upd
      PROVE  \E o \in db[d0] : SameMemory(n, o)
  <2>1. PICK o \in db[d0] : n.id = o.id
    BY <1>3, <1>4, SettledOrigin DEF GoodRows
  <2>2. QED
    BY <1>3, <2>1, SameIdSameRow DEF GoodRows
<1>5. row.content = r.content /\ \A e \in Projects : \A m \in db[e] : m.content # r.content
  BY <1>1 DEF NewRow, Store
<1> HIDE DEF upd, row
<1>6. \A d \in Projects : db'[d] = IF d = d0 THEN new ELSE db[d]
  BY <1>2 DEF IInv, TypeOK
<1>7. \A d \in Projects : Endures(db[d], db'[d])
  BY <1>3, <1>6, EnduresSelf
<1>8. \A e \in Projects : \A s \in db'[e] :
        \/ \E o \in db[e] : SameMemory(s, o)
        \/ s = row /\ e = d0
  <2>1. SUFFICES ASSUME NEW e \in Projects, NEW s \in db'[e], ~(s = row /\ e = d0)
                 PROVE  \E o \in db[e] : SameMemory(s, o)
    OBVIOUS
  <2>2. CASE e = d0
    BY <1>4, <1>6, <2>1, <2>2
  <2>3. CASE e # d0
    BY <1>6, <2>1, <2>3 DEF SameMemory, SameRecord
  <2>4. QED
    BY <2>2, <2>3
<1>9. Targets \subseteq Projects
  BY TargetProjects DEF IInv
<1>10. StayApart
  <2>1. SUFFICES ASSUME NEW d \in Targets, NEW o \in db[d], Apart(d, o),
                        NEW e \in Projects \ {d}, NEW s \in db'[e]
                 PROVE  s.content # o.content
    BY DEF StayApart, Apart
  <2>2. QED
    BY <1>5, <1>8, <1>9, <2>1 DEF Apart, SameMemory, SameRecord
<1>11. SourcesUnique'
  <2>1. SUFFICES ASSUME NEW d \in Projects \ Targets, NEW e \in Projects \ Targets,
                        NEW m \in db'[d], NEW o \in db'[e], m.content = o.content
                 PROVE  d = e /\ m = o
    BY DEF SourcesUnique
  <2>2. CASE (\E k \in db[d] : SameMemory(m, k)) /\ \E l \in db[e] : SameMemory(o, l)
    <3>1. PICK k \in db[d] : SameMemory(m, k)
      BY <2>2
    <3>2. PICK l \in db[e] : SameMemory(o, l)
      BY <2>2
    <3>3. d = e /\ k = l
      BY <2>1, <3>1, <3>2 DEF CopyInv, SourcesUnique, SameMemory, SameRecord
    <3>4. UniqueIds(db'[d])
      BY <1>3, <1>6 DEF IInv, RowsInv, GoodRows
    <3>5. QED
      BY <3>1, <3>2, <3>3, <3>4 DEF SameMemory, UniqueIds
  <2>3. QED
    BY <1>5, <1>8, <2>1, <2>2 DEF SameMemory, SameRecord
<1>12. ASSUME NEW d \in Targets
       PROVE  Sourced(d, db[d])'
  <2>1. \A n \in db[d] : Known(n)
    BY <1>9, AllKnown
  <2>2. CASE d = d0
    <3>1. \A rows, grown, one : rows = db[d] /\ grown = new /\ one = row => Sourced(d, grown)'
      <4>1. SUFFICES ASSUME NEW rows, NEW grown, NEW one,
                            rows = db[d], grown = new, one = row
                     PROVE  Sourced(d, grown)'
        OBVIOUS
      <4>2. \A n2 \in grown : (\E n \in rows : SameMemory(n2, n)) \/ n2 = one
        BY <1>4, <2>2, <4>1
      <4>3. \A n \in rows : n.content # one.content
        BY <1>5, <1>9, <4>1
      <4>4. Apart(d, one)'
        BY <1>5, <1>6, <2>2, <4>1 DEF Apart
      <4>5. \A k \in grown : k.content = one.content => k.id = one.id
        BY <4>2, <4>3 DEF SameMemory, SameRecord
      <4>6. OwnIn(d, grown, one)'
        BY <4>4, <4>5 DEF OwnIn
      <4>7. Endures(rows, grown) /\ \A n \in rows : Known(n)
        BY <1>3, <2>1, <2>2, <4>1
      <4>8. Sourced(d, rows)
        BY <4>1 DEF CopyInv
      <4>9. QED
        BY <1>7, <1>10, <4>2, <4>3, <4>6, <4>7, <4>8, SourcedKeeps
    <3>2. db'[d] = new
      BY <1>6, <1>9, <2>2
    <3>3. QED
      BY <3>1, <3>2 DEF Sourced, OwnIn, CopyIn, Apart
  <2>3. CASE d # d0
    <3>1. \A rows : rows = db[d] => Sourced(d, rows)'
      BY <1>7, <1>10, <2>1, SourcedStays DEF CopyInv
    <3>2. QED
      BY <1>6, <1>9, <2>3, <3>1 DEF Sourced, OwnIn, CopyIn, Apart
  <2>4. QED
    BY <2>2, <2>3
<1>13. ASSUME NEW q \in Procs
       PROVE  (pc[q] \in HoldsTarget => Sourced(To(q), tgt[q]))'
  BY <1>2, <1>7, <1>10, CopyOther DEF CopyInv
<1>14. QED
  BY <1>11, <1>12, <1>13 DEF CopyInv

(***************************************************************************)
(* A row that is copied either keeps the id or is displaced by the memory  *)
(* that has it.                                                            *)
(***************************************************************************)
LEMMA CopiedSourced ==
  ASSUME IInv, OneWayInv, NEW p \in Procs, OneWayRoutes, NEW d, d = To(p), NEW rows,
         GoodRows(rows), \A n \in rows : Known(n), Sourced(d, rows),
         NEW m \in Row, \E s \in db[From(p)] : s.id = m.id /\ SameRecord(s, m),
         NEW labels \in SUBSET Labels
  PROVE  Sourced(d, Copied(rows, m, d, labels))
<1> DEFINE new == Copied(rows, m, d, labels)
<1>1. /\ d \in Targets /\ d \in Projects /\ From(p) \in Projects \ Targets /\ From(p) # d
  BY TargetProjects, RouteProjects DEF IInv, OneWayRoutes, Targets, TypeOK, From, To
<1>2. PICK s \in db[From(p)] : s.id = m.id /\ SameRecord(s, m)
  OBVIOUS
<1>3. GoodRows(new) /\ Endures(rows, new)
  BY <1>1, CopiedKeeps, ContinuesEndures
<1>4. \A n2 \in new :
        \/ \E n \in rows : SameMemory(n2, n)
        \/ CopyIn(new, n2) /\ n2.content = s.content
  <2>1. CASE Arrived(rows, m)
    BY <2>1 DEF Copied, GoodRows, Row, SameMemory, SameRecord
  <2>2. CASE ~Arrived(rows, m)
    <3>1. SUFFICES ASSUME NEW n2 \in new, n2 \notin rows
                   PROVE  CopyIn(new, n2) /\ n2.content = s.content
      BY DEF SameMemory, SameRecord
    <3>2. n2.id = TargetId(rows, m) /\ SameRecord(m, n2)
      BY <2>2, <3>1 DEF Copied, Row, SameRecord
    <3>3. SameRecord(s, n2)
      BY <1>2, <3>2 DEF SameRecord
    <3>4. n2.id = s.id \/ Displaced(new, s)
      <4>1. CASE m.id \in IdsOf(rows)
        <5>1. PICK k \in rows : k.id = m.id
          BY <4>1 DEF IdsOf
        <5>2. ~SameRecord(k, s) /\ k.id = s.id
          BY <1>2, <2>2, <5>1 DEF Arrived, SameRecord
        <5>3. Displaced(rows, s) /\ SameMemory(s, s)
          BY <5>2 DEF Displaced, SameMemory, SameRecord
        <5>4. QED
          BY <1>3, <5>3, DisplacedEndures
      <4>2. CASE m.id \notin IdsOf(rows)
        BY <1>2, <3>2, <4>2 DEF TargetId
      <4>3. QED
        BY <4>1, <4>2
    <3>5. QED
      BY <1>1, <3>3, <3>4 DEF CopyIn, SameRecord
  <2>3. QED
    BY <2>1, <2>2
<1> HIDE DEF new
<1>5. SUFFICES ASSUME NEW n2 \in new
               PROVE  OwnIn(d, new, n2) \/ CopyIn(new, n2)
  BY DEF Sourced, new
<1>6. CASE \E n \in rows : SameMemory(n2, n)
  <2>1. PICK n \in rows : SameMemory(n2, n)
    BY <1>6
  <2>2. CASE OwnIn(d, rows, n)
    <3>1. Apart(d, n2) /\ n2.content # s.content
      BY <1>1, <2>1, <2>2 DEF OwnIn, Apart, SameMemory, SameRecord
    <3>2. ASSUME NEW k2 \in new, k2.content = n2.content
          PROVE  k2.id = n2.id
      <4>1. PICK k \in rows : SameMemory(k2, k)
        BY <1>4, <3>1, <3>2
      <4>2. QED
        BY <2>1, <2>2, <3>2, <4>1 DEF OwnIn, SameMemory, SameRecord
    <3>3. QED
      BY <3>1, <3>2 DEF OwnIn
  <2>3. CASE CopyIn(rows, n)
    <3>1. PICK e \in Projects \ Targets : \E t \in db[e] :
            SameRecord(t, n) /\ (n.id = t.id \/ Displaced(rows, t))
      BY <2>3 DEF CopyIn
    <3>2. PICK t \in db[e] : SameRecord(t, n) /\ (n.id = t.id \/ Displaced(rows, t))
      BY <3>1
    <3>3. Displaced(rows, t) => Displaced(new, t)
      BY <1>3, DisplacedEndures DEF SameMemory, SameRecord
    <3>4. QED
      BY <2>1, <3>1, <3>2, <3>3 DEF CopyIn, SameMemory, SameRecord
  <2>4. QED
    BY <2>2, <2>3 DEF Sourced
<1>7. QED
  BY <1>4, <1>5, <1>6

LEMMA CopyRow ==
  ASSUME OneWayRoutes, IInv, OneWayInv, CopyInv, NEW p \in Procs, NextRow(p)
  PROVE  CopyInv'
<1>1. /\ OthersUnchanged(p) /\ db' = db /\ pc' = pc /\ To(p)' = To(p) /\ pc[p] = "rows"
  BY DEF IInv, TypeOK, NextRow, MoveRow, SkipRow, OthersUnchanged, To
<1>2. PICK m \in todo[p] : MoveRow(p, m) \/ SkipRow(p, m)
  BY DEF NextRow
<1>3. /\ m \in Row /\ GoodRows(tgt[p]) /\ Sourced(To(p), tgt[p])
      /\ \E o \in db[From(p)] : o.id = m.id /\ SameRecord(o, m)
      /\ \A n \in tgt[p] : Known(n)
  BY <1>1, <1>2, AllKnown DEF IInv, TypeOK, ProcInv, CopyInv, HoldsTarget
<1>4. \/ tgt'[p] = tgt[p]
      \/ \E labels \in SUBSET Labels : tgt'[p] = Copied(tgt[p], m, To(p), labels)
  <2>1. LabelsOf(src[p], m.id) \in SUBSET Labels
    BY DEF LabelsOf, IInv, TypeOK, Row
  <2>2. QED
    BY <1>2, <2>1 DEF MoveRow, SkipRow, IInv, TypeOK
<1>5. Sourced(To(p), tgt'[p])
  BY <1>3, <1>4, CopiedSourced
<1>6. Sourced(To(p), tgt[p])'
  BY <1>1, <1>5 DEF Sourced, OwnIn, CopyIn, Apart
<1>7. QED
  BY <1>1, <1>6, CopyQuiet

LEMMA CopyBegin ==
  ASSUME IInv, OneWayInv, CopyInv, NEW p \in Procs,
         \/ \E rt \in Routes : Migrate(p, rt)
         \/ ReadRows(p) \/ LockTarget(p) \/ LockSource(p) \/ LockBusy(p) \/ Abort(p)
  PROVE  CopyInv'
<1>1. OthersUnchanged(p) /\ db' = db
  BY DEF IInv, TypeOK, Migrate, ReadRows, LockTarget, LockSource, LockBusy, Abort, End,
         Goto, OthersUnchanged
<1>2. CASE LockTarget(p)
  <2>1. tgt'[p] = db[To(p)] /\ To(p)' = To(p) /\ To(p) \in Targets
    BY <1>2, TargetProjects DEF LockTarget, IInv, TypeOK, To
  <2>2. Sourced(To(p), db[To(p)])
    BY <2>1 DEF CopyInv
  <2>3. Sourced(To(p), tgt[p])'
    BY <1>1, <2>1, <2>2 DEF Sourced, OwnIn, CopyIn, Apart
  <2>4. QED
    BY <1>1, <2>3, CopyQuiet
<1>3. CASE ~LockTarget(p)
  <2>1. pc'[p] \in HoldsTarget => pc[p] \in HoldsTarget /\ route' = route /\ tgt' = tgt
    BY <1>3 DEF IInv, TypeOK, Migrate, ReadRows, LockSource, LockBusy, Abort, End, Goto,
                HoldsTarget
  <2>2. (pc[p] \in HoldsTarget => Sourced(To(p), tgt[p]))'
    BY <1>1, <2>1 DEF CopyInv, To, Sourced, OwnIn, CopyIn, Apart
  <2>3. QED
    BY <1>1, <2>2, CopyQuiet
<1>4. QED
  BY <1>2, <1>3

LEMMA CopyCommitTarget ==
  ASSUME OneWayRoutes, IInv, OneWayInv, CopyInv, NEW p \in Procs, CommitTarget(p)
  PROVE  CopyInv'
<1>1. OthersUnchanged(p) /\ pc[p] = "rows" /\ pc'[p] = "commit_source"
  BY DEF IInv, TypeOK, CommitTarget, Goto, OthersUnchanged
<1>2. db' = [db EXCEPT ![To(p)] = tgt[p]] /\ Endures(db[To(p)], tgt[p])
  BY CommitTargetKeeps, ContinuesEndures
<1>3. /\ To(p) \in Targets /\ Targets \subseteq Projects
      /\ Sourced(To(p), tgt[p]) /\ \A n \in tgt[p] : Known(n)
  BY <1>1, TargetProjects, AllKnown DEF IInv, CopyInv, HoldsTarget
<1>4. \A d \in Projects : db'[d] = IF d = To(p) THEN tgt[p] ELSE db[d]
  BY <1>2, <1>3 DEF IInv, TypeOK
<1>5. \A d \in Projects : Endures(db[d], db'[d])
  BY <1>2, <1>4, EnduresSelf
<1>6. StayApart
  <2>1. SUFFICES ASSUME NEW d \in Targets, NEW o \in db[d], Apart(d, o),
                        NEW e \in Projects \ {d}, NEW s \in db'[e]
                 PROVE  s.content # o.content
    BY DEF StayApart, Apart
  <2>2. CASE e # To(p)
    BY <1>4, <2>1, <2>2 DEF Apart
  <2>3. CASE e = To(p)
    <3>1. s \in tgt[p]
      BY <1>4, <2>1, <2>3
    <3>2. CASE OwnIn(To(p), tgt[p], s)
      BY <1>3, <2>1, <2>3, <3>2 DEF OwnIn, Apart
    <3>3. CASE CopyIn(tgt[p], s)
      <4>1. PICK x \in Projects \ Targets : \E t \in db[x] : SameRecord(t, s)
        BY <3>3 DEF CopyIn
      <4>2. QED
        BY <2>1, <4>1 DEF Apart, SameRecord
    <3>4. QED
      BY <1>3, <3>1, <3>2, <3>3 DEF Sourced
  <2>4. QED
    BY <2>2, <2>3
<1>7. SourcesUnique'
  BY <1>3, <1>4 DEF CopyInv, SourcesUnique
<1>8. ASSUME NEW d \in Targets
      PROVE  Sourced(d, db[d])'
  <2> DEFINE held == IF d = To(p) THEN tgt[p] ELSE db[d]
  <2>1. Sourced(d, held) /\ \A n \in held : Known(n)
    BY <1>3, AllKnown DEF CopyInv
  <2>2. \A rows : rows = held => Sourced(d, rows)'
    BY <1>5, <1>6, <2>1, SourcedStays
  <2>3. db'[d] = held
    BY <1>3, <1>4
  <2> HIDE DEF held
  <2>4. QED
    BY <2>2, <2>3 DEF Sourced, OwnIn, CopyIn, Apart
<1>9. ASSUME NEW q \in Procs
      PROVE  (pc[q] \in HoldsTarget => Sourced(To(q), tgt[q]))'
  <2>1. CASE q = p
    BY <1>1, <2>1 DEF HoldsTarget
  <2>2. CASE q # p
    BY <1>1, <1>5, <1>6, <2>2, CopyOther DEF OthersUnchanged, CopyInv
  <2>3. QED
    BY <2>1, <2>2
<1>10. QED
  BY <1>7, <1>8, <1>9 DEF CopyInv

LEMMA CopyCommitSource ==
  ASSUME OneWayRoutes, IInv, OneWayInv, CopyInv, NEW p \in Procs, CommitSource(p)
  PROVE  CopyInv'
<1>1. OthersUnchanged(p) /\ pc[p] = "commit_source" /\ pc'[p] = "idle"
  BY DEF IInv, TypeOK, CommitSource, End, Goto, OthersUnchanged
<1>2. db' = [db EXCEPT ![From(p)] = src[p]]
  BY CommitSourceKeeps
<1>3. From(p) \in Projects \ Targets /\ Targets \subseteq Projects
  BY RouteProjects, TargetProjects DEF OneWayRoutes, Targets, From, IInv, TypeOK
<1>4. /\ Endures(db[From(p)], src[p]) /\ GoodRows(src[p])
      /\ \A n \in src[p] : \E o \in db[From(p)] : SameMemory(n, o)
  BY <1>1 DEF IInv, ProcInv, HoldsSource, OneWayInv, OneWayProc
<1>5. \A d \in Projects : db'[d] = IF d = From(p) THEN src[p] ELSE db[d]
  BY <1>2, <1>3 DEF IInv, TypeOK
<1>6. \A d \in Projects : Endures(db[d], db'[d])
  BY <1>4, <1>5, EnduresSelf
<1>7. \A d \in Projects : \A n \in db'[d] : \E o \in db[d] : SameMemory(n, o)
  BY <1>4, <1>5 DEF SameMemory, SameRecord
<1>8. StayApart
  BY <1>3, <1>7 DEF StayApart, Apart, SameMemory, SameRecord
<1>9. SourcesUnique'
  <2>1. SUFFICES ASSUME NEW d \in Projects \ Targets, NEW e \in Projects \ Targets,
                        NEW m \in db'[d], NEW o \in db'[e], m.content = o.content
                 PROVE  d = e /\ m = o
    BY DEF SourcesUnique
  <2>2. PICK k \in db[d] : SameMemory(m, k)
    BY <1>7
  <2>3. PICK l \in db[e] : SameMemory(o, l)
    BY <1>7
  <2>4. d = e /\ k = l
    BY <2>1, <2>2, <2>3 DEF CopyInv, SourcesUnique, SameMemory, SameRecord
  <2>5. UniqueIds(db'[d])
    BY <1>4, <1>5 DEF IInv, RowsInv, GoodRows
  <2>6. QED
    BY <2>2, <2>3, <2>4, <2>5 DEF SameMemory, UniqueIds
<1>10. ASSUME NEW d \in Targets
       PROVE  Sourced(d, db[d])'
  <2>1. \A n \in db[d] : Known(n)
    BY <1>3, AllKnown
  <2>2. \A rows : rows = db[d] => Sourced(d, rows)'
    BY <1>6, <1>8, <2>1, SourcedStays DEF CopyInv
  <2>3. QED
    BY <1>3, <1>5, <2>2 DEF Sourced, OwnIn, CopyIn, Apart
<1>11. ASSUME NEW q \in Procs
       PROVE  (pc[q] \in HoldsTarget => Sourced(To(q), tgt[q]))'
  <2>1. CASE q = p
    BY <1>1, <2>1 DEF HoldsTarget
  <2>2. CASE q # p
    BY <1>1, <1>6, <1>8, <2>2, CopyOther DEF OthersUnchanged, CopyInv
  <2>3. QED
    BY <2>1, <2>2
<1>12. QED
  BY <1>9, <1>10, <1>11 DEF CopyInv

LEMMA InitCopyInv == Init => CopyInv
<1>1. SUFFICES ASSUME Init PROVE CopyInv
  OBVIOUS
<1>2. \A d \in Projects : db[d] = {}
  BY <1>1 DEF Init
<1>3. Targets \subseteq Projects
  BY MigrationAssumption DEF Targets
<1>4. \A p \in Procs : pc[p] \notin HoldsTarget
  BY <1>1 DEF Init, HoldsTarget
<1>5. QED
  BY <1>2, <1>3, <1>4 DEF CopyInv, SourcesUnique, Sourced

LEMMA NextCopyInv == OneWayRoutes /\ IInv /\ OneWayInv /\ CopyInv /\ [Next]_vars => CopyInv'
<1>1. SUFFICES ASSUME OneWayRoutes, IInv, OneWayInv, CopyInv, [Next]_vars
               PROVE  CopyInv'
  OBVIOUS
<1>2. ASSUME NEW r \in Requests, NEW date \in Dates, Store(r.project, r, date)
      PROVE  CopyInv'
  BY <1>1, <1>2, CopyStore
<1>3. ASSUME NEW p \in Procs, NEW rt \in Routes, Migrate(p, rt) PROVE CopyInv'
  BY <1>1, <1>3, CopyBegin
<1>4. ASSUME NEW p \in Procs, Progress(p) PROVE CopyInv'
  BY <1>1, <1>4, CopyBegin, CopyRow, CopyCommitTarget, CopyCommitSource DEF Progress
<1>5. ASSUME NEW p \in Procs, Abort(p) PROVE CopyInv'
  BY <1>1, <1>5, CopyBegin
<1>6. CASE UNCHANGED vars
  BY <1>1, <1>6
     DEF vars, CopyInv, SourcesUnique, Sourced, OwnIn, CopyIn, Apart, To
<1>7. QED
  BY <1>1, <1>2, <1>3, <1>4, <1>5, <1>6 DEF Next

(***************************************************************************)
(* Where no project is migrated both from and to, a memory is inserted     *)
(* twice only if its id belongs to another memory of the target, however   *)
(* often migrations are repeated, interrupted between the two COMMITs or   *)
(* made by several processes at once.                                      *)
(***************************************************************************)
THEOREM OnlyCollisionsCopyTwice ==
  ASSUME OneWayRoutes
  PROVE  Spec => []SecondCopiesCollide
<1>1. IInv /\ OneWayInv /\ CopyInv /\ [Next]_vars => CopyInv'
  BY NextCopyInv
<1>2. IInv /\ CopyInv => SecondCopiesCollide
  <2>1. SUFFICES ASSUME IInv, CopyInv, NEW d \in Projects, NEW m \in db[d], NEW o \in db[d],
                        SameRecord(m, o), m # o
                 PROVE  \E e \in Projects \ {d} : \E s \in db[e] :
                          SameRecord(s, m) /\ Displaced(db[d], s)
    BY DEF SecondCopiesCollide, Displaced
  <2>2. m.id # o.id /\ m.content = o.content
    BY <2>1 DEF IInv, RowsInv, GoodRows, UniqueIds, SameRecord
  <2>3. d \in Targets
    BY <2>1, <2>2 DEF CopyInv, SourcesUnique
  <2>4. CopyIn(db[d], m) /\ CopyIn(db[d], o)
    BY <2>1, <2>2, <2>3 DEF CopyInv, Sourced, OwnIn
  <2>5. PICK e \in Projects \ Targets : \E s \in db[e] :
          SameRecord(s, m) /\ (m.id = s.id \/ Displaced(db[d], s))
    BY <2>4 DEF CopyIn
  <2>6. PICK s \in db[e] : SameRecord(s, m) /\ (m.id = s.id \/ Displaced(db[d], s))
    BY <2>5
  <2>7. PICK x \in Projects \ Targets : \E t \in db[x] :
          SameRecord(t, o) /\ (o.id = t.id \/ Displaced(db[d], t))
    BY <2>4 DEF CopyIn
  <2>8. PICK t \in db[x] : SameRecord(t, o) /\ (o.id = t.id \/ Displaced(db[d], t))
    BY <2>7
  <2>9. s = t
    BY <2>1, <2>5, <2>6, <2>7, <2>8 DEF CopyInv, SourcesUnique, SameRecord
  <2>10. Displaced(db[d], s)
    BY <2>2, <2>6, <2>8, <2>9
  <2>11. QED
    BY <2>3, <2>5, <2>6, <2>10
<1>3. QED
  BY <1>1, <1>2, InitCopyInv, Invariance, OneWayInvariance, PTL DEF Spec
=============================================================================
