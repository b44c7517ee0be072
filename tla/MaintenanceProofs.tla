-------------------------- MODULE MaintenanceProofs --------------------------
(***************************************************************************)
(* For any number of processes, projects, days and memories: maintenance   *)
(* takes only memories its own project has retired and that are old, and   *)
(* no store gives an id for the second time, although the next id is the   *)
(* largest of its day plus one and migrations bring ids of their own.      *)
(***************************************************************************)
EXTENDS Maintenance, FiniteSetTheorems, WellFoundedInduction, TLAPS

(***************************************************************************)
(* The inductive invariant.  The memory that once bore an id is still here *)
(* unless its day is old: the days a store may still stamp are complete.   *)
(***************************************************************************)
IdsInv ==
  /\ \A m \in rows : m.id \in given
  /\ \A i \in given : i[1] <= date
  /\ \A i \in given : InUse(i) \/ i[1] + AgeDays < date

IInv == TypeOK /\ IsFiniteSet(rows) /\ IdsInv

-----------------------------------------------------------------------------
(***************************************************************************)
(* The smallest and the largest of a set of numbers.                       *)
(***************************************************************************)

LEMMA SmallestExists ==
  ASSUME NEW S \in SUBSET Nat, S # {}
  PROVE  \E x \in S : \A y \in S : x <= y
<1> DEFINE R == {ss \in Nat \X Nat : ss[1] < ss[2]}
<1>1. IsWellFoundedOn(R, Nat)
  BY NatLessThanWellFounded, Zenon DEF OpToRel
<1>2. PICK x \in S : \A y \in S : ~ (<<y, x>> \in R)
  <2> HIDE DEF R
  <2> QED
    BY <1>1, WFMin, Zenon
<1>3. ASSUME NEW y \in S
      PROVE  x <= y
  <2>1. ~ (y < x)
    BY <1>2
  <2>2. QED
    BY <2>1
<1>4. QED
  BY <1>3

LEMMA LargestIsMax ==
  ASSUME NEW n \in Nat, NEW S \in SUBSET (0..n), S # {}
  PROVE  Max(S) \in S /\ \A y \in S : y <= Max(S)
<1> DEFINE T == {n - y : y \in S}
<1>1. T \in SUBSET Nat /\ T # {}
  <2>1. \A y \in S : n - y \in Nat
    OBVIOUS
  <2>2. PICK y \in S : TRUE
    OBVIOUS
  <2>3. n - y \in T
    BY <2>2
  <2>4. QED
    BY <2>1, <2>3
<1>2. PICK t \in T : \A u \in T : t <= u
  <2> HIDE DEF T
  <2> QED
    BY <1>1, SmallestExists
<1>3. PICK x \in S : t = n - x
  OBVIOUS
<1>4. \A y \in S : x >= y
  BY <1>2, <1>3
<1>5. QED
  BY <1>4 DEF Max

LEMMA MinOfTwo ==
  ASSUME NEW a \in Nat, NEW b \in Nat
  PROVE  Min({a, b}) \in 0..a
<1>1. \E x \in {a, b} : \A y \in {a, b} : x <= y
  OBVIOUS
<1>2. QED
  BY <1>1 DEF Min

-----------------------------------------------------------------------------
(***************************************************************************)
(* The next id.                                                            *)
(***************************************************************************)

\* The next id of a day is in use by no memory, one of that day or another.
LEMMA NextIdIsUnused ==
  ASSUME IInv, NEW d \in 0..date
  PROVE  NextId(d)[1] = d /\ ~InUse(NextId(d))
<1> DEFINE seqs == {0} \union {m.id[2] : m \in {m \in rows : m.id[1] = d}}
           top == Max(seqs)
<1>1. MaxDate \in Nat /\ MaxRows \in Nat /\ \A m \in rows : m.id \in Ids
  BY MaintenanceAssumption DEF IInv, TypeOK, Memory
<1>2. top \in seqs /\ \A y \in seqs : y <= top
  <2>1. seqs \in SUBSET (0..MaxRows) /\ seqs # {}
    BY <1>1 DEF Ids
  <2> HIDE DEF seqs
  <2>2. QED
    BY <1>1, <2>1, LargestIsMax
<1>3. top \in Nat
  BY <1>1, <1>2 DEF Ids
<1>4. NextId(d) = <<d, 1 + top>>
  BY DEF NextId
<1> HIDE DEF top
<1>5. ASSUME NEW m \in rows, m.id = <<d, 1 + top>>
      PROVE  FALSE
  <2>1. 1 + top \in seqs
    BY <1>5
  <2>2. QED
    BY <1>2, <1>3, <2>1
<1>6. QED
  BY <1>4, <1>5 DEF InUse

\* A store gives an id no memory here has ever borne, for today and for a store
\* that began yesterday: what has been borne on those days is still in use.
LEMMA NextIdIsNew ==
  ASSUME IInv, NEW d \in 0..date, date <= d + 1
  PROVE  NextId(d)[1] = d /\ NextId(d) \notin given
<1>1. NextId(d)[1] = d /\ ~InUse(NextId(d))
  BY NextIdIsUnused
<1>2. date \in Nat /\ AgeDays \in Nat \ {0}
  BY MaintenanceAssumption DEF IInv, TypeOK
<1>3. ~(d + AgeDays < date)
  BY <1>2
<1>4. QED
  BY <1>1, <1>3 DEF IInv, IdsInv

\* A memory that a migration inserts has an id that is in use by no other.
LEMMA TargetIdIsUnused ==
  ASSUME IInv, NEW i \in Ids, i[1] <= date
  PROVE  TargetId(i)[1] = i[1] /\ ~InUse(TargetId(i))
<1>1. i[1] \in 0..date
  BY MaintenanceAssumption DEF IInv, TypeOK, Ids
<1>2. QED
  BY <1>1, NextIdIsUnused DEF TargetId

-----------------------------------------------------------------------------
(***************************************************************************)
(* The invariant holds initially, and every step preserves it.             *)
(***************************************************************************)

LEMMA InitIInv == Init => IInv
<1> SUFFICES ASSUME Init
             PROVE  IInv
  OBVIOUS
<1> USE DEF Init
<1>1. TypeOK
  BY MaintenanceAssumption DEF TypeOK
<1>2. IsFiniteSet(rows) /\ IdsInv
  BY FS_EmptySet DEF IdsInv
<1>3. QED
  BY <1>1, <1>2 DEF IInv

\* A store adds a memory under a new id and keeps the others, whichever it retires.
LEMMA StoreRows ==
  ASSUME IInv, NEW q \in Projects, NEW stamp, NEW labelled \in BOOLEAN, NEW retired,
         Store(q, stamp, labelled, retired), NextId(stamp) \in Ids
  PROVE  /\ rows' \subseteq Memory /\ IsFiniteSet(rows')
         /\ \A m \in rows' : m.id = NextId(stamp) \/ \E n \in rows : n.id = m.id
         /\ \A m \in rows : \E n \in rows' : n.id = m.id
         /\ \E n \in rows' : n.id = NextId(stamp)
<1> DEFINE kept(m) == [m EXCEPT !.active = m.active /\ m \notin retired]
           fresh == [id |-> NextId(stamp), project |-> q, active |-> TRUE,
                    labelled |-> labelled, arrived |-> FALSE]
<1>1. rows' = {kept(m) : m \in rows} \union {fresh}
  BY DEF Store
<1>2. \A m \in rows : kept(m) \in Memory /\ kept(m).id = m.id
  BY DEF IInv, TypeOK, Memory
<1>3. fresh \in Memory /\ fresh.id = NextId(stamp)
  BY DEF Memory
<1> HIDE DEF kept, fresh
<1>4. IsFiniteSet(rows')
  <2> DEFINE f == [m \in rows |-> kept(m)]
  <2>1. f \in [rows -> {kept(m) : m \in rows}]
    OBVIOUS
  <2>2. f \in Surjection(rows, {kept(m) : m \in rows})
    BY <2>1 DEF Surjection
  <2>3. IsFiniteSet({kept(m) : m \in rows})
    <3> HIDE DEF f
    <3> QED
      BY <2>2, FS_Surjection DEF IInv
  <2>4. QED
    BY <1>1, <2>3, FS_AddElement
<1>5. QED
  BY <1>1, <1>2, <1>3, <1>4

\* What the invariant asks of a step that gives one id at most and takes no
\* memory away.
LEMMA RowsGrow ==
  ASSUME IInv, NEW i \in Ids, i[1] <= date,
         rows' \subseteq Memory, IsFiniteSet(rows'),
         \A m \in rows' : m.id = i \/ InUse(m.id),
         \A m \in rows : \E n \in rows' : n.id = m.id,
         \E n \in rows' : n.id = i,
         given' = given \union {i}, arrivals' \in 0..MaxArrivals,
         UNCHANGED <<date, pc, pruned, failures>>
  PROVE  IInv'
<1>1. TypeOK'
  BY DEF IInv, TypeOK
<1>2. \A m \in rows' : m.id \in given'
  BY DEF IInv, IdsInv, InUse
<1>3. \A j \in given' : j[1] <= date'
  BY DEF IInv, IdsInv
<1>4. \A j \in given' : InUse(j)' \/ j[1] + AgeDays < date'
  BY DEF IInv, IdsInv, InUse
<1>5. QED
  BY <1>1, <1>2, <1>3, <1>4 DEF IInv, IdsInv

LEMMA StoreKeeps ==
  ASSUME IInv, NEW q \in Projects, NEW stamp \in {date} \union {Max({date, 1}) - 1},
         NEW labelled \in BOOLEAN, NEW retired, Store(q, stamp, labelled, retired)
  PROVE  IInv' /\ NextId(stamp) \in Ids /\ NextId(stamp) \notin given
<1>1. stamp \in 0..date /\ date <= stamp + 1
  <2>1. date \in Nat
    BY MaintenanceAssumption DEF IInv, TypeOK
  <2>2. {date, 1} \in SUBSET (0..(date + 1)) /\ {date, 1} # {} /\ date + 1 \in Nat
    BY <2>1
  <2>3. Max({date, 1}) \in {date, 1} /\ \A y \in {date, 1} : y <= Max({date, 1})
    BY <2>2, LargestIsMax, Zenon
  <2>4. QED
    BY <2>1, <2>3
<1>2. NextId(stamp) \in Ids
  BY DEF Store
<1>3. NextId(stamp)[1] = stamp /\ NextId(stamp) \notin given
  BY <1>1, NextIdIsNew
<1>4. /\ given' = given \union {NextId(stamp)} /\ arrivals' = arrivals
      /\ UNCHANGED <<date, pc, pruned, failures>>
  BY DEF Store
<1>5. /\ rows' \subseteq Memory /\ IsFiniteSet(rows')
      /\ \A m \in rows' : m.id = NextId(stamp) \/ \E n \in rows : n.id = m.id
      /\ \A m \in rows : \E n \in rows' : n.id = m.id
      /\ \E n \in rows' : n.id = NextId(stamp)
  BY <1>2, StoreRows
<1>6. NextId(stamp)[1] <= date /\ arrivals' \in 0..MaxArrivals
  BY <1>1, <1>3, <1>4 DEF IInv, TypeOK
<1>7. \A m \in rows' : m.id = NextId(stamp) \/ InUse(m.id)
  BY <1>5 DEF InUse
<1>8. IInv'
  BY <1>2, <1>4, <1>5, <1>6, <1>7, RowsGrow
<1>9. QED
  BY <1>2, <1>3, <1>8

\* A migration inserts one memory, which bears the mark of it.
LEMMA MigrateInRows ==
  ASSUME IInv, NEW q \in Projects, NEW i \in Ids, NEW active \in BOOLEAN,
         NEW labelled \in BOOLEAN, MigrateIn(q, i, active, labelled)
  PROVE  /\ IInv'
         /\ \A m \in rows : m \in rows'
         /\ \A m \in rows' \ rows : m.id = TargetId(i) /\ m.arrived = TRUE
<1> DEFINE fresh == [id |-> TargetId(i), project |-> q, active |-> active,
                     labelled |-> labelled, arrived |-> TRUE]
<1>1. /\ TargetId(i) \in Ids /\ i[1] <= date /\ arrivals < MaxArrivals
      /\ rows' = rows \union {fresh} /\ given' = given \union {TargetId(i)}
      /\ arrivals' = arrivals + 1 /\ UNCHANGED <<date, pc, pruned, failures>>
  BY DEF MigrateIn
<1>2. TargetId(i)[1] <= date
  BY <1>1, TargetIdIsUnused
<1>3. fresh \in Memory /\ fresh.id = TargetId(i) /\ fresh.arrived = TRUE
  BY <1>1 DEF Memory
<1> HIDE DEF fresh
<1>4. rows' \subseteq Memory /\ IsFiniteSet(rows')
  BY <1>1, <1>3, FS_AddElement DEF IInv, TypeOK
<1>5. arrivals' \in 0..MaxArrivals
  BY <1>1, MaintenanceAssumption DEF IInv, TypeOK
<1>6. \A m \in rows' : m.id = TargetId(i) \/ InUse(m.id)
  BY <1>1, <1>3 DEF InUse
<1>7. (\A m \in rows : \E n \in rows' : n.id = m.id) /\ \E n \in rows' : n.id = TargetId(i)
  BY <1>1, <1>3
<1>8. IInv'
  BY <1>1, <1>2, <1>4, <1>5, <1>6, <1>7, RowsGrow
<1>9. QED
  BY <1>1, <1>3, <1>8

\* A migration out of the database, and one that is repeated, change one memory
\* under its id.
LEMMA ChangeKeeps ==
  ASSUME IInv, NEW m \in rows, NEW n \in Memory, n.id = m.id,
         rows' = (rows \ {m}) \union {n},
         UNCHANGED <<date, given, arrivals, pc, pruned, failures>>
  PROVE  /\ IInv'
         /\ \A o \in rows : \E k \in rows' : k.id = o.id
         /\ \A o \in rows' : InUse(o.id)
<1>1. rows' \subseteq Memory /\ TypeOK'
  BY DEF IInv, TypeOK
<1>2. IsFiniteSet(rows \ {m})
  <2>1. rows \ {m} \in SUBSET rows
    OBVIOUS
  <2>2. QED
    BY <2>1, FS_Subset DEF IInv
<1>3. IsFiniteSet(rows')
  BY <1>2, FS_AddElement
<1>4. /\ \A o \in rows : \E k \in rows' : k.id = o.id
      /\ \A o \in rows' : InUse(o.id)
  BY DEF InUse
<1>5. IdsInv'
  BY <1>4 DEF IInv, IdsInv, InUse
<1>6. QED
  BY <1>1, <1>3, <1>4, <1>5 DEF IInv

LEMMA MigrateOldKeeps ==
  ASSUME IInv, NEW m \in rows, MigrateAgain(m) \/ MigrateOut(m)
  PROVE  /\ IInv'
         /\ \A o \in rows : \E k \in rows' : k.id = o.id
         /\ \A o \in rows' : InUse(o.id)
<1>1. m \in Memory
  BY DEF IInv, TypeOK
<1>2. CASE MigrateAgain(m)
  <2>1. [m EXCEPT !.labelled = TRUE] \in Memory /\ [m EXCEPT !.labelled = TRUE].id = m.id
    BY <1>1 DEF Memory
  <2>2. QED
    BY <1>2, <2>1, ChangeKeeps DEF MigrateAgain
<1>3. CASE MigrateOut(m)
  <2>1. [m EXCEPT !.active = FALSE] \in Memory /\ [m EXCEPT !.active = FALSE].id = m.id
    BY <1>1 DEF Memory
  <2>2. QED
    BY <1>3, <2>1, ChangeKeeps DEF MigrateOut
<1>4. QED
  BY <1>2, <1>3

\* What another process does: no memory goes, and an id is new or comes with a
\* migration.
LEMMA OthersKeep ==
  ASSUME IInv, Others
  PROVE  /\ IInv'
         /\ \A m \in rows : \E n \in rows' : n.id = m.id
         /\ \A m \in rows' : m.id \in given /\ ~InUse(m.id) => m.arrived
<1>1. CASE \E q \in Projects, stamp \in {date} \union {Max({date, 1}) - 1}, labelled \in BOOLEAN :
             \E retired \in {{}} \union {{m} : m \in {m \in rows : m.active /\ m.project = q}} :
               Store(q, stamp, labelled, retired)
  <2>1. PICK q \in Projects, stamp \in {date} \union {Max({date, 1}) - 1}, labelled \in BOOLEAN :
               \E retired \in {{}} \union {{m} : m \in {m \in rows : m.active /\ m.project = q}} :
                 Store(q, stamp, labelled, retired)
    BY <1>1
  <2>2. PICK retired : Store(q, stamp, labelled, retired)
    BY <2>1
  <2>3. IInv' /\ NextId(stamp) \in Ids /\ NextId(stamp) \notin given
    BY <2>2, StoreKeeps
  <2>4. /\ \A m \in rows' : m.id = NextId(stamp) \/ \E n \in rows : n.id = m.id
        /\ \A m \in rows : \E n \in rows' : n.id = m.id
    BY <2>2, <2>3, StoreRows
  <2>5. QED
    BY <2>3, <2>4 DEF InUse
<1>2. CASE \E q \in Projects, i \in Ids, active \in BOOLEAN, labelled \in BOOLEAN :
             MigrateIn(q, i, active, labelled)
  BY <1>2, MigrateInRows DEF InUse
<1>3. CASE \E m \in rows : MigrateAgain(m) \/ MigrateOut(m)
  BY <1>3, MigrateOldKeeps
<1>4. QED
  BY <1>1, <1>2, <1>3 DEF Others

LEMMA NextDayKeeps == ASSUME IInv, NextDay PROVE IInv'
<1>1. /\ date \in Nat /\ date' = date + 1 /\ date' \in 0..MaxDate
      /\ UNCHANGED <<rows, given, arrivals, pc, pruned, failures>>
  BY MaintenanceAssumption DEF IInv, TypeOK, NextDay
<1>2. TypeOK'
  BY <1>1 DEF IInv, TypeOK
<1>3. \A i \in given : i[1] \in Nat
  BY DEF IInv, TypeOK, Ids
<1>4. IdsInv'
  <2>1. \A i \in given : i[1] <= date /\ (InUse(i) \/ i[1] + AgeDays < date)
    BY DEF IInv, IdsInv
  <2>2. AgeDays \in Nat
    BY MaintenanceAssumption
  <2>3. QED
    BY <1>1, <1>3, <2>1, <2>2 DEF IInv, IdsInv, InUse
<1>5. QED
  BY <1>1, <1>2, <1>4 DEF IInv

\* What one DELETE takes: retired and old memories of its project, and no more
\* than the LIMIT.
LEMMA SelectionsAreStale ==
  ASSUME IInv, NEW q, NEW S \in Selections(q)
  PROVE  /\ S \subseteq rows /\ Cardinality(S) \in 0..MaxPerTask
         /\ \A m \in S : m.project = q /\ ~m.active /\ m.id[1] + AgeDays < date
<1>1. S \subseteq Prunable(q)
  BY DEF Selections
<1>2. Cardinality(S) = Min({MaxPerTask, Cardinality(Prunable(q))})
  BY DEF Selections
<1>3. Cardinality(Prunable(q)) \in Nat
  <2>1. Prunable(q) \in SUBSET rows
    BY DEF Prunable
  <2>2. QED
    BY <2>1, FS_Subset, FS_CardinalityType DEF IInv
<1>4. Cardinality(S) \in 0..MaxPerTask
  BY <1>2, <1>3, MinOfTwo, MaintenanceAssumption
<1>5. QED
  BY <1>1, <1>4 DEF Prunable, Old

LEMMA PruneKeeps == ASSUME IInv, NEW p \in Procs, Prune(p) PROVE IInv'
<1> USE DEF Prune, Goto
<1>1. PICK S \in Selections(Serves[p]) :
        rows' = rows \ S /\ pruned' = [pruned EXCEPT ![p] = Cardinality(S)]
  OBVIOUS
<1>2. /\ S \subseteq rows /\ Cardinality(S) \in 0..MaxPerTask
      /\ \A m \in S : m.id[1] + AgeDays < date
  BY SelectionsAreStale
<1>3. UNCHANGED <<date, given, arrivals, failures>> /\ pc' = [pc EXCEPT ![p] = "optimize"]
  BY DEF After
<1>4. TypeOK' /\ IsFiniteSet(rows')
  <2>1. rows' \in SUBSET rows
    BY <1>1
  <2>2. IsFiniteSet(rows')
    BY <2>1, FS_Subset DEF IInv
  <2>3. TypeOK'
    BY <1>1, <1>2, <1>3, <2>1 DEF IInv, TypeOK, Steps
  <2>4. QED
    BY <2>2, <2>3
<1>5. IdsInv'
  <2>1. \A i \in given : InUse(i)' \/ i[1] + AgeDays < date
    BY <1>1, <1>2 DEF IInv, IdsInv, InUse
  <2>2. QED
    BY <1>1, <1>3, <2>1 DEF IInv, IdsInv
<1>6. QED
  BY <1>4, <1>5 DEF IInv

\* The other statements leave the memories alone.
LEMMA QuietKeeps ==
  ASSUME IInv, NEW p \in Procs,
         \/ Connect(p) \/ Checkpoint(p) \/ PruneRefused(p) \/ Compact(p)
         \/ IntegrityCheck(p) \/ Stop(p)
  PROVE  IInv' /\ UNCHANGED <<rows, given>>
<1> USE DEF Connect, Checkpoint, PruneRefused, Compact, IntegrityCheck, Stop, Goto, End, After
<1>1. UNCHANGED <<rows, date, given, arrivals>>
  OBVIOUS
<1>2. pc' \in [Procs -> Steps \union {"idle"}]
  BY DEF IInv, TypeOK, Steps
<1>3. pruned' \in [Procs -> 0..MaxPerTask]
  BY MaintenanceAssumption DEF IInv, TypeOK
<1>4. failures' \in 0..MaxFailures
  BY MaintenanceAssumption DEF IInv, TypeOK
<1>5. QED
  BY <1>1, <1>2, <1>3, <1>4 DEF IInv, TypeOK, IdsInv, InUse

LEMMA NextIInv == IInv /\ [Next]_vars => IInv'
<1> SUFFICES ASSUME IInv, [Next]_vars
             PROVE  IInv'
  OBVIOUS
<1>1. CASE Others
  BY <1>1, OthersKeep
<1>2. CASE NextDay
  BY <1>2, NextDayKeeps
<1>3. CASE \E p \in Procs : Prune(p)
  BY <1>3, PruneKeeps
<1>4. CASE \E p \in Procs :
             \/ Connect(p) \/ Checkpoint(p) \/ PruneRefused(p) \/ Compact(p)
             \/ IntegrityCheck(p) \/ Stop(p)
  BY <1>4, QuietKeeps
<1>5. CASE UNCHANGED vars
  BY <1>5 DEF vars, IInv, TypeOK, IdsInv, InUse
<1>6. QED
  BY <1>1, <1>2, <1>3, <1>4, <1>5 DEF Next, Continue

-----------------------------------------------------------------------------
(***************************************************************************)
(* Theorems.                                                               *)
(***************************************************************************)

\* The invariant of maintenance beside stores.
THEOREM Invariance == Spec => []IInv
<1>1. IInv /\ [Next]_vars => IInv'
  BY NextIInv
<1>2. QED
  BY <1>1, InitIInv, PTL DEF Spec

\* Every variable of the maintenance keeps its type.
THEOREM TypeCorrect == Spec => []TypeOK
<1>1. IInv => TypeOK
  BY DEF IInv
<1>2. QED
  BY <1>1, Invariance, PTL

\* _prune_superseded never takes an active memory, one of another project that
\* shares the database, or one created too recently.
THEOREM PrunesOnlyStale == Spec => OnlyStalePruned
<1> DEFINE Stales == \A m \in rows : (\A n \in rows' : n.id # m.id) =>
                       /\ ~m.active /\ m.id[1] + AgeDays < date
                       /\ \E p \in Procs : pc[p] = "prune" /\ Serves[p] = m.project
<1>1. ASSUME IInv, [Next]_vars
      PROVE  Stales
  <2>1. CASE Others
    BY <1>1, <2>1, OthersKeep
  <2>2. CASE \E p \in Procs : Prune(p)
    <3>1. PICK p \in Procs : Prune(p)
      BY <2>2
    <3>2. PICK S \in Selections(Serves[p]) : rows' = rows \ S
      BY <3>1 DEF Prune
    <3>3. \A m \in S : m.project = Serves[p] /\ ~m.active /\ m.id[1] + AgeDays < date
      BY <1>1, SelectionsAreStale
    <3>4. pc[p] = "prune"
      BY <3>1 DEF Prune
    <3>5. QED
      BY <3>2, <3>3, <3>4
  <2>3. CASE UNCHANGED rows
    BY <2>3
  <2>4. QED
    BY <1>1, <2>1, <2>2, <2>3, QuietKeeps DEF Next, Continue, NextDay, vars
<1>2. IInv /\ [Next]_vars => [Stales]_vars
  BY <1>1
<1>3. QED
  BY <1>2, Invariance, PTL DEF Spec, OnlyStalePruned

\* generate_memory_id never gives an id that some memory of this database has
\* borne, stored or migrated, pruned or not; a migration that brings back the id
\* of a pruned memory brings a memory as old.
THEOREM StoresGiveFreshIds == Spec => OnlyMigrationsReuseIds
<1> DEFINE Fresh == \A m \in rows' : m.id \in given /\ ~InUse(m.id) => m.arrived /\ Old(m)
<1>1. ASSUME IInv, [Next]_vars
      PROVE  Fresh
  <2>1. ASSUME NEW m \in rows', m.id \in given, ~InUse(m.id)
        PROVE  Old(m)
    BY <1>1, <2>1 DEF IInv, IdsInv, Old
  <2>2. CASE Others
    BY <1>1, <2>1, <2>2, OthersKeep
  <2>3. CASE \E p \in Procs : Prune(p)
    BY <2>3 DEF Prune, InUse
  <2>4. CASE UNCHANGED rows
    BY <2>4 DEF InUse
  <2>5. QED
    BY <1>1, <2>2, <2>3, <2>4, QuietKeeps DEF Next, Continue, NextDay, vars
<1>2. IInv /\ [Next]_vars => [Fresh]_vars
  BY <1>1
<1>3. QED
  BY <1>2, Invariance, PTL DEF Spec, OnlyMigrationsReuseIds
=============================================================================
