--------------------------- MODULE MemoryRowsProofs ---------------------------
(***************************************************************************)
(* Facts about the operators of MemoryRows, cited by the proofs about      *)
(* MemoryStore and Migration.                                              *)
(***************************************************************************)
EXTENDS MemoryRows, FiniteSetTheorems, WellFoundedInduction, TLAPS

(***************************************************************************)
(* A finite, non-empty set of integers has a maximum, which is what SELECT *)
(* MAX returns.  A smallest counterexample would, with one element less,   *)
(* be empty or have a maximum.                                             *)
(***************************************************************************)
LEMMA FiniteMax ==
  ASSUME NEW S \in SUBSET Int, IsFiniteSet(S), S # {}
  PROVE  Max(S) \in S /\ \A y \in S : Max(S) >= y
<1> DEFINE HasMax(T) == \E x \in T : \A y \in T : x >= y
           Bad == {T \in FiniteSubsetsOf(S) : T # {} /\ ~HasMax(T)}
<1>1. Bad = {}
  <2>1. SUFFICES ASSUME Bad # {} PROVE FALSE
    OBVIOUS
  <2>2. PICK T \in Bad : \A U \in Bad : <<U, T>> \notin StrictSubsetOrdering(S)
    <3> HIDE DEF Bad
    <3>1. Bad \subseteq FiniteSubsetsOf(S)
      BY DEF Bad
    <3>2. QED
      BY <2>1, <3>1, FS_StrictSubsetOrderingWellFounded, WFMin
  <2>3. PICK x \in T : TRUE
    BY <2>2
  <2>4. T \in SUBSET S /\ IsFiniteSet(T)
    BY <2>2 DEF FiniteSubsetsOf
  <2>5. T \ {x} \in FiniteSubsetsOf(S)
    BY <2>3, <2>4, FS_RemoveElement DEF FiniteSubsetsOf
  <2>6. T \ {x} \notin Bad
    BY <2>2, <2>3, <2>4, <2>5 DEF StrictSubsetOrdering
  <2>7. T \ {x} = {} \/ HasMax(T \ {x})
    BY <2>5, <2>6
  <2>8. HasMax(T)
    <3>1. CASE T \ {x} = {}
      BY <2>3, <2>4, <3>1
    <3>2. CASE HasMax(T \ {x})
      <4>1. PICK z \in T \ {x} : \A y \in T \ {x} : z >= y
        BY <3>2
      <4>2. x \in Int /\ z \in Int /\ T \subseteq Int
        BY <2>3, <2>4, <4>1
      <4>3. CASE z >= x
        BY <4>1, <4>2, <4>3
      <4>4. CASE ~(z >= x)
        <5>1. \A y \in T : x >= y
          BY <4>1, <4>2, <4>4
        <5>2. QED
          BY <2>3, <5>1
      <4>5. QED
        BY <4>3, <4>4
    <3>3. QED
      BY <2>7, <3>1, <3>2
  <2>9. QED
    BY <2>2, <2>8
<1>2. S \in FiniteSubsetsOf(S)
  BY DEF FiniteSubsetsOf
<1>3. HasMax(S)
  BY <1>1, <1>2
<1>4. QED
  BY <1>3 DEF Max

(***************************************************************************)
(* Changing the status of a row changes nothing else.                      *)
(***************************************************************************)
LEMMA StatusOnly ==
  ASSUME NEW m \in Row, NEW s \in Statuses
  PROVE  LET n == [m EXCEPT !.status = s]
         IN  /\ n \in Row
             /\ n.id = m.id /\ n.project = m.project /\ n.task = m.task
             /\ n.kind = m.kind /\ n.created = m.created
             /\ n.status = s
BY DEF Row

(***************************************************************************)
(* A row that is left alone, or an active row whose status changes, is the *)
(* same memory as before.                                                  *)
(***************************************************************************)
LEMMA RetiredRow ==
  ASSUME NEW m \in Row
  PROVE  /\ Retired(m, m)
         /\ \A s \in Statuses :
              m.status = "active" => Retired([m EXCEPT !.status = s], m)
<1>1. m = [m EXCEPT !.status = m.status] /\ m.status \in Statuses
  BY DEF Row
<1>2. QED
  BY <1>1 DEF Retired

(***************************************************************************)
(* A row retired in two steps is retired.                                  *)
(***************************************************************************)
LEMMA RetiredTwice ==
  ASSUME NEW o \in Row, NEW n \in Row, NEW m \in Row, Retired(n, o), Retired(m, n)
  PROVE  Retired(m, o)
<1>1. PICK s \in Statuses : n = [o EXCEPT !.status = s]
  BY DEF Retired
<1>2. PICK t \in Statuses : m = [n EXCEPT !.status = t]
  BY DEF Retired
<1>3. m = [o EXCEPT !.status = t]
  BY <1>1, <1>2 DEF Row
<1>4. m.status # o.status => o.status = "active"
  BY DEF Retired
<1>5. QED
  BY <1>3, <1>4 DEF Retired

(***************************************************************************)
(* An UPDATE that takes some active rows out of the active state: what     *)
(* supersede_for_kind and invalidate_constraints have in common.           *)
(***************************************************************************)
RetireRows(rows, hits, s) ==
  {IF m \in hits THEN [m EXCEPT !.status = s] ELSE m : m \in rows}

LEMMA RetireRowsKeeps ==
  ASSUME NEW rows \in SUBSET Row, NEW hits \in SUBSET rows,
         NEW s \in Statuses \ {"active"},
         \A m \in hits : m.status = "active"
  PROVE  LET new == RetireRows(rows, hits, s)
         IN  /\ new \subseteq Row
             /\ IdsOf(new) = IdsOf(rows)
             /\ IsFiniteSet(rows) => IsFiniteSet(new)
             /\ UniqueIds(rows) => UniqueIds(new)
             /\ SingleActivePerTask(rows) => SingleActivePerTask(new)
             /\ \A o \in rows : \E m \in new : Retired(m, o)
             /\ \A m \in new : m.status = "active" => m \in rows \ hits
<1> DEFINE f(m) == IF m \in hits THEN [m EXCEPT !.status = s] ELSE m
           new == RetireRows(rows, hits, s)
<1>1. new = {f(m) : m \in rows}
  BY DEF RetireRows
<1>2. ASSUME NEW m \in rows
      PROVE  /\ f(m) \in Row
             /\ f(m).id = m.id /\ f(m).project = m.project /\ f(m).task = m.task
             /\ f(m).kind = m.kind
             /\ f(m).status = "active" => f(m) = m /\ m \notin hits
             /\ Retired(f(m), m)
  <2>1. m \in Row
    OBVIOUS
  <2>2. CASE m \in hits
    BY <2>1, <2>2, StatusOnly, RetiredRow
  <2>3. CASE m \notin hits
    BY <2>1, <2>3, RetiredRow
  <2>4. QED
    BY <2>2, <2>3
<1> HIDE DEF f
<1>3. IsFiniteSet(rows) => IsFiniteSet(new)
  <2>1. [m \in rows |-> f(m)] \in Surjection(rows, new)
    BY <1>1 DEF Surjection
  <2>2. QED
    BY <2>1, FS_Surjection
<1>4. IdsOf(new) = IdsOf(rows)
  BY <1>1, <1>2 DEF IdsOf
<1>5. UniqueIds(rows) => UniqueIds(new)
  BY <1>1, <1>2 DEF UniqueIds
<1>6. SingleActivePerTask(rows) => SingleActivePerTask(new)
  BY <1>1, <1>2 DEF SingleActivePerTask, SameKey
<1>7. QED
  BY <1>1, <1>2, <1>3, <1>4, <1>5, <1>6

(***************************************************************************)
(* Every row after such an UPDATE was there before, under the same id.     *)
(***************************************************************************)
LEMMA RetireRowsOrigin ==
  ASSUME NEW rows \in SUBSET Row, NEW hits \in SUBSET rows,
         NEW s \in Statuses \ {"active"},
         \A m \in hits : m.status = "active",
         NEW m \in RetireRows(rows, hits, s)
  PROVE  \E o \in rows :
           /\ Retired(m, o)
           /\ m.status # o.status => o \in hits /\ m.status = s
<1>1. PICK o \in rows : m = IF o \in hits THEN [o EXCEPT !.status = s] ELSE o
  BY DEF RetireRows
<1>2. o \in Row
  OBVIOUS
<1>3. CASE o \in hits
  BY <1>1, <1>2, <1>3, StatusOnly, RetiredRow
<1>4. CASE o \notin hits
  BY <1>1, <1>2, <1>4, RetiredRow
<1>5. QED
  BY <1>3, <1>4

(***************************************************************************)
(* The UPDATE of supersede_for_kind retires the rows it matches.           *)
(***************************************************************************)
LEMMA SupersedeRetires ==
  ASSUME NEW rows, NEW r
  PROVE  SupersedeForKind(rows, r)
           = RetireRows(rows, {m \in rows : Supersedes(r, m)}, "superseded")
BY DEF SupersedeForKind, RetireRows

(***************************************************************************)
(* The UPDATE of invalidate_constraints retires the rows it matches.       *)
(***************************************************************************)
LEMMA InvalidateRetires ==
  ASSUME NEW rows, NEW r
  PROVE  InvalidateConstraints(rows, r)
           = RetireRows(rows, {m \in rows : InvalidatedBy(r, m)}, "invalidated")
BY DEF InvalidateConstraints, RetireRows

(***************************************************************************)
(* supersede_for_kind changes statuses only, and leaves no active row of   *)
(* the request's key.                                                      *)
(***************************************************************************)
LEMMA SupersedeKeeps ==
  ASSUME NEW rows \in SUBSET Row, NEW r
  PROVE  LET new == SupersedeForKind(rows, r)
         IN  /\ new \subseteq Row
             /\ IdsOf(new) = IdsOf(rows)
             /\ IsFiniteSet(rows) => IsFiniteSet(new)
             /\ UniqueIds(rows) => UniqueIds(new)
             /\ SingleActivePerTask(rows) => SingleActivePerTask(new)
             /\ \A o \in rows : \E m \in new : Retired(m, o)
             /\ \A m \in new : ~Supersedes(r, m)
<1> DEFINE hits == {m \in rows : Supersedes(r, m)}
<1>1. \A m \in hits : m.status = "active"
  BY DEF Supersedes
<1>2. hits \in SUBSET rows /\ "superseded" \in Statuses \ {"active"}
  BY DEF Statuses
<1>3. \A m \in RetireRows(rows, hits, "superseded") : ~Supersedes(r, m)
  <2>1. \A m \in RetireRows(rows, hits, "superseded") :
          m.status = "active" => m \in rows \ hits
    BY <1>1, <1>2, RetireRowsKeeps
  <2>2. QED
    BY <2>1 DEF Supersedes
<1> HIDE DEF hits
<1>4. SupersedeForKind(rows, r) = RetireRows(rows, hits, "superseded")
  BY SupersedeRetires DEF hits
<1>5. QED
  BY <1>1, <1>2, <1>3, <1>4, RetireRowsKeeps

(***************************************************************************)
(* So do the two UPDATEs of a store, one after the other.                  *)
(***************************************************************************)
LEMMA SettledKeeps ==
  ASSUME NEW rows \in SUBSET Row, NEW r
  PROVE  LET new == Settled(rows, r)
         IN  /\ new \subseteq Row
             /\ IdsOf(new) = IdsOf(rows)
             /\ IsFiniteSet(rows) => IsFiniteSet(new)
             /\ UniqueIds(rows) => UniqueIds(new)
             /\ SingleActivePerTask(rows) => SingleActivePerTask(new)
             /\ \A o \in rows : \E m \in new : Retired(m, o)
             /\ \A m \in new : ~Supersedes(r, m)
<1> DEFINE sup  == SupersedeForKind(rows, r)
           hits == {m \in sup : InvalidatedBy(r, m)}
<1>1. /\ sup \in SUBSET Row
      /\ IdsOf(sup) = IdsOf(rows)
      /\ IsFiniteSet(rows) => IsFiniteSet(sup)
      /\ UniqueIds(rows) => UniqueIds(sup)
      /\ SingleActivePerTask(rows) => SingleActivePerTask(sup)
      /\ \A o \in rows : \E m \in sup : Retired(m, o)
      /\ \A m \in sup : ~Supersedes(r, m)
  BY SupersedeKeeps
<1> HIDE DEF sup
<1>2. \A m \in hits : m.status = "active"
  BY DEF InvalidatedBy
<1>3. hits \in SUBSET sup /\ "invalidated" \in Statuses \ {"active"}
  BY DEF Statuses
<1> HIDE DEF hits
<1>4. Settled(rows, r) = RetireRows(sup, hits, "invalidated")
  BY InvalidateRetires DEF Settled, hits, sup
<1>5. \A m \in RetireRows(sup, hits, "invalidated") : m.status = "active" => m \in sup
  BY <1>1, <1>2, <1>3, RetireRowsKeeps
<1>6. \A m \in RetireRows(sup, hits, "invalidated") : ~Supersedes(r, m)
  BY <1>1, <1>5 DEF Supersedes
<1>7. \A o \in rows : \E m \in RetireRows(sup, hits, "invalidated") : Retired(m, o)
  <2>1. \A n \in sup : \E m \in RetireRows(sup, hits, "invalidated") : Retired(m, n)
    BY <1>1, <1>2, <1>3, RetireRowsKeeps
  <2>2. RetireRows(sup, hits, "invalidated") \in SUBSET Row
    BY <1>1, <1>2, <1>3, RetireRowsKeeps
  <2>3. QED
    BY <1>1, <2>1, <2>2, RetiredTwice
<1>8. QED
  BY <1>1, <1>2, <1>3, <1>4, <1>6, <1>7, RetireRowsKeeps

(***************************************************************************)
(* Every row after the two UPDATEs was there before, under the same id;    *)
(* the first leaves its rows superseded, the second changes constraints.   *)
(***************************************************************************)
LEMMA SettledOrigin ==
  ASSUME NEW rows \in SUBSET Row, NEW r, NEW n \in Settled(rows, r)
  PROVE  \E o \in rows :
           /\ n.id = o.id /\ n.kind = o.kind
           /\ \/ n.status = o.status
              \/ n.status = "superseded"
              \/ n.kind = "discovered_constraint"
<1> DEFINE sup  == SupersedeForKind(rows, r)
           old  == {m \in rows : Supersedes(r, m)}
           hits == {m \in sup : InvalidatedBy(r, m)}
<1>1. sup \in SUBSET Row
  BY SupersedeKeeps
<1>2. \A m \in hits : m.status = "active" /\ m.kind = "discovered_constraint"
  BY DEF InvalidatedBy
<1>3. \A m \in old : m.status = "active"
  BY DEF Supersedes
<1>4. "invalidated" \in Statuses \ {"active"} /\ "superseded" \in Statuses \ {"active"}
  BY DEF Statuses
<1>5. n \in RetireRows(sup, hits, "invalidated")
  BY InvalidateRetires DEF Settled
<1>6. hits \in SUBSET sup /\ old \in SUBSET rows
  OBVIOUS
<1>7. sup = RetireRows(rows, old, "superseded")
  BY SupersedeRetires
<1> HIDE DEF sup, hits, old
<1>8. PICK m \in sup : Retired(n, m) /\ (n.status # m.status => m \in hits)
  BY <1>1, <1>2, <1>4, <1>5, <1>6, RetireRowsOrigin
<1>9. PICK o \in rows : Retired(m, o) /\ (m.status # o.status => m.status = "superseded")
  BY <1>3, <1>4, <1>6, <1>7, <1>8, RetireRowsOrigin
<1>10. n.id = m.id /\ n.kind = m.kind /\ m.id = o.id /\ m.kind = o.kind
  <2>1. o \in Row /\ m \in Row
    BY <1>1, <1>8, <1>9
  <2>2. QED
    BY <1>8, <1>9, <2>1 DEF Retired, Row
<1>11. QED
  BY <1>2, <1>8, <1>9, <1>10

(***************************************************************************)
(* The id generate_memory_id returns is well formed, and no row of the     *)
(* transaction that reads it has that id, whatever the status of the rows. *)
(***************************************************************************)
LEMMA FreshId ==
  ASSUME NEW rows \in SUBSET Row, IsFiniteSet(rows), NEW date \in Nat
  PROVE  NextId(rows, date) \in Ids /\ NextId(rows, date) \notin IdsOf(rows)
<1> DEFINE same == {o \in rows : o.id[1] = date}
           S    == SeqsOf(rows, date)
<1>1. \A m \in rows : m.id \in Nat \X Nat
  BY DEF Row, Ids
<1>2. S = {m.id[2] : m \in same}
  BY DEF SeqsOf
<1>3. S \in SUBSET Nat
  BY <1>1, <1>2
<1>4. IsFiniteSet(S)
  <2>1. IsFiniteSet(same)
    BY FS_Subset
  <2>2. [m \in same |-> m.id[2]] \in Surjection(same, S)
    BY <1>2 DEF Surjection
  <2>3. QED
    BY <2>1, <2>2, FS_Surjection
<1>5. \A m \in rows : m.id[1] = date => m.id[2] \in S
  BY <1>2
<1> HIDE DEF S
<1>6. CASE S = {}
  <2>1. NextId(rows, date) = <<date, 1>>
    BY <1>6 DEF NextId, S
  <2>2. \A m \in rows : m.id # <<date, 1>>
    BY <1>1, <1>5, <1>6
  <2>3. QED
    BY <2>1, <2>2 DEF IdsOf, Ids
<1>7. CASE S # {}
  <2>1. Max(S) \in S /\ \A y \in S : Max(S) >= y
    BY <1>3, <1>4, <1>7, FiniteMax
  <2>2. NextId(rows, date) = <<date, Max(S) + 1>>
    BY <1>7 DEF NextId, S
  <2>3. Max(S) \in Nat
    BY <1>3, <2>1
  <2>4. \A m \in rows : m.id # <<date, Max(S) + 1>>
    <3> DEFINE top == Max(S)
    <3> HIDE DEF top
    <3>1. top \in Nat /\ \A y \in S : top >= y
      BY <2>1, <2>3 DEF top
    <3>2. \A m \in rows : m.id # <<date, top + 1>>
      BY <1>1, <1>3, <1>5, <3>1
    <3>3. QED
      BY <3>2 DEF top
  <2>5. QED
    BY <2>2, <2>3, <2>4 DEF IdsOf, Ids
<1>8. QED
  BY <1>6, <1>7

(***************************************************************************)
(* INSERT after the two UPDATEs: the new row is well formed, and it        *)
(* disturbs neither the ids nor the single active row of each task.        *)
(***************************************************************************)
LEMMA InsertKeeps ==
  ASSUME NEW rows \in SUBSET Row, NEW r \in Request,
         NEW id \in Ids \ IdsOf(rows), NEW emb \in BOOLEAN,
         NEW created \in Nat, NEW labels \in SUBSET Labels,
         \A m \in rows : ~Supersedes(r, m)
  PROVE  LET row == NewRow(id, r, emb, created, labels)
             new == rows \union {row}
         IN  /\ row \in Row
             /\ new \subseteq Row
             /\ IdsOf(new) = IdsOf(rows) \union {id}
             /\ IsFiniteSet(rows) => IsFiniteSet(new)
             /\ UniqueIds(rows) => UniqueIds(new)
             /\ SingleActivePerTask(rows) => SingleActivePerTask(new)
<1> DEFINE row == NewRow(id, r, emb, created, labels)
           new == rows \union {row}
<1>1. /\ row \in Row
      /\ row.id = id /\ row.project = r.project /\ row.task = r.task
      /\ row.kind = r.kind /\ row.status = "active"
  BY DEF NewRow, Row, Request, Statuses
<1> HIDE DEF row
<1>2. IdsOf(new) = IdsOf(rows) \union {id}
  BY <1>1 DEF IdsOf
<1>3. IsFiniteSet(rows) => IsFiniteSet(new)
  BY FS_AddElement
<1>4. UniqueIds(rows) => UniqueIds(new)
  BY <1>1 DEF UniqueIds, IdsOf
<1>5. SingleActivePerTask(rows) => SingleActivePerTask(new)
  <2>1. \A m \in rows :
          ~(/\ r.kind \in SupersedingKinds /\ m.status = "active"
            /\ m.project = r.project /\ m.task = r.task /\ m.kind = r.kind)
    BY DEF Supersedes, SameKey
  <2>2. SUFFICES ASSUME SingleActivePerTask(rows),
                        NEW m \in new, NEW o \in new,
                        m.kind \in SupersedingKinds,
                        m.status = "active", o.status = "active", SameKey(m, o)
                 PROVE  m = o
    BY DEF SingleActivePerTask
  <2>3. CASE m \in rows /\ o \in rows
    BY <2>2, <2>3 DEF SingleActivePerTask
  <2>4. CASE m = row \/ o = row
    BY <1>1, <2>1, <2>2, <2>4 DEF SameKey
  <2>5. QED
    BY <2>3, <2>4
<1>6. QED
  BY <1>1, <1>2, <1>3, <1>4, <1>5 DEF row
-----------------------------------------------------------------------------
(***************************************************************************)
(* A row the two UPDATEs leave behind is one of the rows, and its status   *)
(* differs only where one of them matches.                                 *)
(***************************************************************************)
LEMMA SettledRow ==
  ASSUME NEW rows \in SUBSET Row, NEW r, NEW n \in Settled(rows, r)
  PROVE  \E o \in rows :
           /\ Retired(n, o) /\ n.id = o.id /\ n.created = o.created
           /\ n.project = o.project /\ n.kind = o.kind
           /\ n.status # o.status =>
                \/ Supersedes(r, o) /\ n.status = "superseded"
                \/ InvalidatedBy(r, o) /\ n.status = "invalidated"
<1>1. PICK m \in SupersedeForKind(rows, r) :
        n = IF InvalidatedBy(r, m) THEN [m EXCEPT !.status = "invalidated"] ELSE m
  BY DEF Settled, InvalidateConstraints
<1>2. PICK o \in rows : m = IF Supersedes(r, o) THEN [o EXCEPT !.status = "superseded"] ELSE o
  BY DEF SupersedeForKind
<1>3. o \in Row
  OBVIOUS
<1>4. CASE Supersedes(r, o)
  <2>1. m.status = "superseded" /\ n = m
    BY <1>1, <1>2, <1>3, <1>4, StatusOnly DEF InvalidatedBy, Statuses
  <2>2. n = [o EXCEPT !.status = "superseded"] /\ o.status = "active"
    BY <1>2, <1>4, <2>1 DEF Supersedes
  <2>3. /\ Retired(n, o)
        /\ n.id = o.id /\ n.created = o.created /\ n.project = o.project /\ n.kind = o.kind
    BY <1>3, <2>2, StatusOnly, RetiredRow DEF Statuses
  <2>4. QED
    BY <1>4, <2>1, <2>3
<1>5. CASE ~Supersedes(r, o) /\ InvalidatedBy(r, o)
  <2>1. n = [o EXCEPT !.status = "invalidated"] /\ o.status = "active"
    BY <1>1, <1>2, <1>5 DEF InvalidatedBy
  <2>2. /\ Retired(n, o) /\ n.status = "invalidated"
        /\ n.id = o.id /\ n.created = o.created /\ n.project = o.project /\ n.kind = o.kind
    BY <1>3, <2>1, StatusOnly, RetiredRow DEF Statuses
  <2>3. QED
    BY <1>5, <2>2
<1>6. CASE ~Supersedes(r, o) /\ ~InvalidatedBy(r, o)
  BY <1>1, <1>2, <1>3, <1>6, RetiredRow
<1>7. QED
  BY <1>4, <1>5, <1>6

(***************************************************************************)
(* Rows with unique ids are as many as their ids.                          *)
(***************************************************************************)
LEMMA IdsCount ==
  ASSUME NEW rows, IsFiniteSet(rows), UniqueIds(rows)
  PROVE  IsFiniteSet(IdsOf(rows)) /\ Cardinality(IdsOf(rows)) = Cardinality(rows)
<1> DEFINE f == [m \in rows |-> m.id]
<1>1. f \in Bijection(rows, IdsOf(rows))
  BY DEF UniqueIds, IdsOf, Bijection, Injection, Surjection, IsInjective
<1>2. QED
  BY <1>1, FS_Bijection DEF ExistsBijection

(***************************************************************************)
(* ORDER BY created_at DESC LIMIT n returns n rows, or all if they are     *)
(* fewer.                                                                  *)
(***************************************************************************)
LEMMA NewestSize ==
  ASSUME NEW rows, IsFiniteSet(rows), NEW n \in Nat, NEW top \in Newest(rows, n)
  PROVE  /\ top \subseteq rows /\ IsFiniteSet(top)
         /\ Cardinality(top) = IF n <= Cardinality(rows) THEN n ELSE Cardinality(rows)
<1>1. top \subseteq rows /\ Cardinality(top) = Min({n, Cardinality(rows)})
  BY DEF Newest, kSubset
<1>2. Cardinality(rows) \in Nat
  BY FS_CardinalityType
<1>3. Min({n, Cardinality(rows)}) = IF n <= Cardinality(rows) THEN n ELSE Cardinality(rows)
  <2> DEFINE least == IF n <= Cardinality(rows) THEN n ELSE Cardinality(rows)
  <2>1. /\ least \in {n, Cardinality(rows)}
        /\ \A y \in {n, Cardinality(rows)} : least =< y
        /\ \A x \in {n, Cardinality(rows)} :
             (\A y \in {n, Cardinality(rows)} : x =< y) => x = least
    BY <1>2
  <2>2. QED
    BY <2>1 DEF Min
<1>4. QED
  BY <1>1, <1>3, FS_Subset
=============================================================================
