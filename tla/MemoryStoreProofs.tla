-------------------------- MODULE MemoryStoreProofs --------------------------
(***************************************************************************)
(* The safety properties of MemoryStore and MemoryStoreHistory, for any    *)
(* number of processes, any requests, retries, embeddings and clock.       *)
(***************************************************************************)
EXTENDS MemoryStoreHistory, MemoryRowsProofs, TLAPS

(***************************************************************************)
(* The inductive invariant.  SingleActive and IdsNeverCollide are not      *)
(* inductive by themselves: COMMIT publishes the private copy of a         *)
(* process, so that copy must be related to the committed rows at every    *)
(* step of the transaction (TxnOf).                                        *)
(***************************************************************************)

\* The answer is open until the call is over; a stored memory is committed.
ReplyOf(p) ==
  /\ pc[p] \notin {"idle", "audit"} => response[p].status = "none"
  /\ pc[p] = "audit" => response[p].status \in {"stored", "error"}
  /\ pc[p] = "audit" /\ response[p].status = "stored" => response[p].id \in IdsOf(db)

CommittedOK ==
  /\ IsFiniteSet(db)
  /\ UniqueIds(db)
  /\ SingleActive
  /\ AuditSound

IInv ==
  /\ TypeOK
  /\ CommittedOK
  /\ \A p \in Procs : TxnOf(p) /\ ReplyOf(p)

-----------------------------------------------------------------------------
(***************************************************************************)
(* What IInv says of a process is untouched by a step of another one that  *)
(* does not commit.                                                        *)
(***************************************************************************)
LEMMA Frame ==
  ASSUME NEW q \in Procs, TxnOf(q), ReplyOf(q),
         UNCHANGED db, (writer' = q) <=> (writer = q),
         pc'[q] = pc[q], req'[q] = req[q], now'[q] = now[q],
         txn'[q] = txn[q], response'[q] = response[q]
  PROVE  TxnOf(q)' /\ ReplyOf(q)'
BY DEF TxnOf, ReplyOf, DateOf

LEMMA InitIInv == Init => IInv
<1> SUFFICES ASSUME Init PROVE IInv
  OBVIOUS
<1> USE DEF Init
<1>1. TypeOK
  <2>1. (CHOOSE r \in Requests : TRUE) \in Requests
    BY RequestsAssumption
  <2>2. Answer("none") \in Response
    BY DEF Answer, Response, Outcomes, NoId, Ids
  <2>3. QED
    BY <2>1, <2>2, NumbersAssumption DEF TypeOK, Steps
<1>2. CommittedOK
  BY FS_EmptySet DEF CommittedOK, UniqueIds, SingleActive, SingleActivePerTask, AuditSound
<1>3. ASSUME NEW p \in Procs PROVE TxnOf(p) /\ ReplyOf(p)
  BY ProcsAssumption DEF TxnOf, ReplyOf, TxnSteps
<1>4. QED
  BY <1>1, <1>2, <1>3 DEF IInv
-----------------------------------------------------------------------------
(***************************************************************************)
(* Facts the step lemmas share.                                            *)
(***************************************************************************)

\* A step that commits nothing and changes only what belongs to p keeps IInv
\* if it keeps what IInv says of p.
LEMMA OneProcess ==
  ASSUME IInv, NEW p \in Procs,
         TypeOK', UNCHANGED <<db, audit>>,
         \A q \in Procs \ {p} :
           /\ (writer' = q) <=> (writer = q)
           /\ pc'[q] = pc[q] /\ req'[q] = req[q] /\ now'[q] = now[q]
           /\ txn'[q] = txn[q] /\ response'[q] = response[q],
         TxnOf(p)', ReplyOf(p)'
  PROVE  IInv'
<1>1. CommittedOK'
  BY DEF IInv, CommittedOK, SingleActive, AuditSound
<1>2. ASSUME NEW q \in Procs PROVE TxnOf(q)' /\ ReplyOf(q)'
  <2>1. CASE q = p
    BY <2>1
  <2>2. CASE q # p
    BY <2>2, Frame DEF IInv
  <2>3. QED
    BY <2>1, <2>2
<1>3. QED
  BY <1>1, <1>2 DEF IInv

\* An answer without id or counts is a well-formed response.
LEMMA AnswerType ==
  ASSUME NEW s \in Outcomes
  PROVE  Answer(s) \in Response /\ Answer(s).status = s
BY DEF Answer, Response, NoId, Ids

\* The rows a process sees are well formed and finite while it is in its
\* transaction, and nobody else is.
LEMMA InTxn ==
  ASSUME IInv, NEW p \in Procs, pc[p] \in TxnSteps
  PROVE  /\ writer = p
         /\ \A q \in Procs \ {p} : pc[q] \notin TxnSteps
         /\ txn[p] \in SUBSET Row
         /\ pc[p] = "supersede" => IsFiniteSet(txn[p])
         /\ pc[p] = "invalidate" => IsFiniteSet(txn[p])
         /\ pc[p] \in {"generate", "insert"} => IsFiniteSet(txn[p])
<1>1. writer = p /\ \A q \in Procs \ {p} : pc[q] \notin TxnSteps
  BY DEF IInv, TxnOf
<1>2. db \in SUBSET Row /\ IsFiniteSet(db) /\ txn[p] \in SUBSET Row
  BY DEF IInv, TypeOK, CommittedOK
<1>3. /\ IsFiniteSet(SupersedeForKind(db, req[p]))
      /\ IsFiniteSet(Settled(db, req[p]))
  BY <1>2, SupersedeKeeps, SettledKeeps
<1>4. QED
  BY <1>1, <1>2, <1>3 DEF IInv, TxnOf

-----------------------------------------------------------------------------
(***************************************************************************)
(* Each action preserves IInv.                                             *)
(***************************************************************************)
LEMMA CallKeeps ==
  ASSUME IInv, NEW p \in Procs, NEW r \in Requests, Call(p, r)
  PROVE  IInv'
<1>1. TypeOK'
  BY AnswerType DEF IInv, TypeOK, Call, Goto, Steps, Outcomes
<1>2. TxnOf(p)' /\ ReplyOf(p)'
  BY AnswerType DEF IInv, TypeOK, Call, Goto, Steps, TxnSteps, Outcomes, TxnOf, ReplyOf
<1>3. QED
  BY <1>1, <1>2, OneProcess DEF IInv, TypeOK, Call, Goto

LEMMA ArbitrateKeeps ==
  ASSUME IInv, NEW p \in Procs, Arbitrate(p)
  PROVE  IInv'
<1>1. TypeOK'
  BY AnswerType DEF IInv, TypeOK, Arbitrate, Return, Goto, Steps, Outcomes
<1>2. TxnOf(p)' /\ ReplyOf(p)'
  BY DEF IInv, TypeOK, Arbitrate, Return, Goto, Steps, TxnSteps, TxnOf, ReplyOf
<1>3. QED
  BY <1>1, <1>2, OneProcess DEF IInv, TypeOK, Arbitrate, Return, Goto

LEMMA CheckDuplicateKeeps ==
  ASSUME IInv, NEW p \in Procs, CheckDuplicate(p)
  PROVE  IInv'
<1>1. /\ pc[p] = "dedup"
      /\ \/ Return(p, "raised")
         \/ Return(p, "rejected")
         \/ Goto(p, "stamp") /\ UNCHANGED response
      /\ UNCHANGED <<db, writer, clock, audit, req, now, attempts, txn>>
  BY DEF CheckDuplicate
<1>2. TypeOK'
  BY <1>1, AnswerType DEF IInv, TypeOK, Return, Goto, Steps, Outcomes
<1>3. TxnOf(p)' /\ ReplyOf(p)'
  BY <1>1 DEF IInv, TypeOK, Return, Goto, Steps, TxnSteps, TxnOf, ReplyOf
<1>4. QED
  BY <1>1, <1>2, <1>3, OneProcess DEF IInv, TypeOK, Return, Goto

LEMMA TakeNowKeeps ==
  ASSUME IInv, NEW p \in Procs, TakeNow(p)
  PROVE  IInv'
<1>1. TypeOK'
  BY NumbersAssumption DEF IInv, TypeOK, TakeNow, Goto, Steps
<1>2. TxnOf(p)' /\ ReplyOf(p)'
  BY DEF IInv, TypeOK, TakeNow, Goto, Steps, TxnSteps, TxnOf, ReplyOf
<1>3. QED
  BY <1>1, <1>2, OneProcess DEF IInv, TypeOK, TakeNow, Goto

\* The failure path keeps IInv wherever it is taken.
LEMMA FailKeeps ==
  ASSUME IInv, NEW p \in Procs, Fail(p), EndAttempts(p) \/ UNCHANGED attempts,
         UNCHANGED <<db, clock, audit, req, now>>
  PROVE  IInv'
<1>1. TypeOK'
  BY AnswerType, NumbersAssumption DEF EndAttempts, IInv, TypeOK, Fail, Goto, Rollback, Steps, Outcomes
<1>2. TxnOf(p)' /\ ReplyOf(p)'
  BY ProcsAssumption, AnswerType
     DEF IInv, TypeOK, Fail, Goto, Rollback, Steps, TxnSteps, Outcomes, TxnOf, ReplyOf
<1>3. QED
  BY <1>1, <1>2, OneProcess, ProcsAssumption DEF IInv, TypeOK, Fail, Goto, Rollback

LEMMA BeginImmediateKeeps ==
  ASSUME IInv, NEW p \in Procs, BeginImmediate(p)
  PROVE  IInv'
<1>1. TypeOK'
  BY NumbersAssumption DEF IInv, TypeOK, BeginImmediate, EndAttempts, Goto, Steps, TxnSteps
<1>2. TxnOf(p)' /\ ReplyOf(p)'
  BY DEF IInv, TypeOK, BeginImmediate, Goto, Steps, TxnSteps, TxnOf, ReplyOf
<1>3. QED
  BY <1>1, <1>2, OneProcess, ProcsAssumption DEF IInv, TypeOK, BeginImmediate, Goto

LEMMA BeginLockedKeeps ==
  ASSUME IInv, NEW p \in Procs, BeginLocked(p)
  PROVE  IInv'
<1>1. CASE Fail(p) /\ EndAttempts(p)
  BY <1>1, FailKeeps DEF BeginLocked
<1>2. CASE /\ attempts[p] < LockRetries
           /\ attempts' = [attempts EXCEPT ![p] = @ + 1]
           /\ UNCHANGED <<writer, pc, txn, response>>
  <2>1. TypeOK'
    BY <1>2, NumbersAssumption DEF IInv, TypeOK, BeginLocked
  <2>2. \A q \in Procs : TxnOf(q)' /\ ReplyOf(q)'
    BY <1>2, Frame DEF IInv, BeginLocked
  <2>3. QED
    BY <1>2, <2>1, <2>2, OneProcess DEF BeginLocked
<1>3. QED
  BY <1>1, <1>2 DEF BeginLocked

LEMMA SupersedeStepKeeps ==
  ASSUME IInv, NEW p \in Procs, Supersede(p)
  PROVE  IInv'
<1> DEFINE r    == req[p]
           rows == SupersedeForKind(txn[p], r)
           hits == Cardinality({m \in txn[p] : Supersedes(r, m)})
           retired == {m \in rows : SameKey(m, r) /\ m.status = "superseded"}
<1>1. /\ pc[p] = "supersede"
      /\ Goto(p, "invalidate")
      /\ txn' = [txn EXCEPT ![p] = rows]
      /\ \E listed \in Newest(retired, hits) :
           response' = [response EXCEPT ![p].superseded = IdsOf(listed)]
      /\ UNCHANGED <<db, writer, clock, audit, req, now, attempts>>
  BY DEF Supersede
<1>2. rows \in SUBSET Row
  <2>1. txn[p] \in SUBSET Row
    BY DEF IInv, TypeOK
  <2>2. QED
    BY <2>1, SupersedeKeeps
<1> HIDE DEF hits
<1>3. PICK listed \in SUBSET rows :
        response' = [response EXCEPT ![p].superseded = IdsOf(listed)]
  <2>1. PICK listed \in Newest(retired, hits) :
          response' = [response EXCEPT ![p].superseded = IdsOf(listed)]
    BY <1>1
  <2>2. listed \in SUBSET retired
    BY DEF Newest, kSubset
  <2>3. QED
    BY <2>1, <2>2
<1> HIDE DEF rows
<1>4. IdsOf(listed) \in SUBSET Ids
  BY <1>2, <1>3 DEF IdsOf, Row
<1>5. TypeOK'
  BY <1>1, <1>2, <1>3, <1>4 DEF IInv, TypeOK, Goto, Steps, TxnSteps, Response
<1>6. rows = SupersedeForKind(db, req[p])
  BY <1>1 DEF IInv, TxnOf, rows
<1>7. TxnOf(p)' /\ ReplyOf(p)'
  BY <1>1, <1>3, <1>6 DEF IInv, TypeOK, Goto, Steps, TxnSteps, TxnOf, ReplyOf, Response
<1>8. QED
  BY <1>1, <1>3, <1>5, <1>7, OneProcess DEF IInv, TypeOK, Goto

LEMMA InvalidateStepKeeps ==
  ASSUME IInv, NEW p \in Procs, Invalidate(p)
  PROVE  IInv'
<1> DEFINE r    == req[p]
           rows == InvalidateConstraints(txn[p], r)
           hits == {m \in txn[p] : InvalidatedBy(r, m)}
<1>1. pc[p] = "invalidate" /\ UNCHANGED <<db, clock, audit, req, now, attempts>>
  BY DEF Invalidate
<1>2. /\ txn[p] = SupersedeForKind(db, r)
      /\ txn[p] \in SUBSET Row /\ IsFiniteSet(txn[p])
  BY <1>1, InTxn DEF IInv, TxnOf, TxnSteps
<1>3. CASE InvalidatesRefused(txn[p], r)
  <2>1. Rollback(p) /\ Return(p, "rejected")
    BY <1>3 DEF Invalidate
  <2>2. TypeOK'
    BY <1>1, <2>1, AnswerType DEF IInv, TypeOK, Rollback, Return, Goto, Steps, Outcomes
  <2>3. TxnOf(p)' /\ ReplyOf(p)'
    BY <1>1, <2>1, ProcsAssumption
       DEF IInv, TypeOK, Rollback, Return, Goto, Steps, TxnSteps, TxnOf, ReplyOf
  <2>4. QED
    BY <1>1, <2>1, <2>2, <2>3, OneProcess, ProcsAssumption
       DEF IInv, TypeOK, Rollback, Return, Goto
<1>4. CASE ~InvalidatesRefused(txn[p], r)
  <2>1. /\ Goto(p, "generate")
        /\ txn' = [txn EXCEPT ![p] = rows]
        /\ response' = [response EXCEPT ![p].invalidated = Cardinality(hits)]
        /\ UNCHANGED writer
    BY <1>4 DEF Invalidate
  <2>2. rows = Settled(db, r)
    BY <1>2 DEF Settled
  <2>3. rows \in SUBSET Row
    <3>1. db \in SUBSET Row
      BY DEF IInv, TypeOK
    <3>2. QED
      BY <2>2, <3>1, SettledKeeps
  <2>4. Cardinality(hits) \in Nat
    BY <1>2, FS_Subset, FS_CardinalityType
  <2> HIDE DEF rows, hits
  <2>5. TypeOK'
    BY <1>1, <2>1, <2>3, <2>4 DEF IInv, TypeOK, Goto, Steps, TxnSteps, Response
  <2>6. TxnOf(p)' /\ ReplyOf(p)'
    BY <1>1, <1>2, <1>4, <2>1, <2>2
       DEF IInv, TypeOK, Goto, Steps, TxnSteps, TxnOf, ReplyOf, Response
  <2>7. QED
    BY <1>1, <2>1, <2>5, <2>6, OneProcess DEF IInv, TypeOK, Goto
<1>5. QED
  BY <1>3, <1>4

\* The date of the timestamp a call has taken.
LEMMA DateType ==
  ASSUME IInv, NEW p \in Procs
  PROVE  DateOf(now[p]) \in Nat /\ now[p] \in Nat
BY NumbersAssumption DEF IInv, TypeOK, DateOf

LEMMA GenerateMemoryIdKeeps ==
  ASSUME IInv, NEW p \in Procs, GenerateMemoryId(p)
  PROVE  IInv'
<1> DEFINE new == NextId(txn[p], DateOf(now[p]))
<1>1. /\ pc[p] = "generate"
      /\ Goto(p, "insert")
      /\ response' = [response EXCEPT ![p].id = new]
      /\ UNCHANGED <<db, writer, clock, audit, req, now, attempts, txn>>
  BY DEF GenerateMemoryId
<1>2. new \in Ids
  BY <1>1, InTxn, DateType, FreshId DEF TxnSteps
<1>3. new' = new
  BY <1>1 DEF DateOf
<1> HIDE DEF new
<1>4. TypeOK'
  BY <1>1, <1>2 DEF IInv, TypeOK, Goto, Steps, TxnSteps, Response
<1>5. response'[p].id = new
  BY <1>1 DEF IInv, TypeOK, Response
<1>6. TxnOf(p)' /\ ReplyOf(p)'
  BY <1>1, <1>3, <1>5 DEF IInv, TypeOK, Goto, Steps, TxnSteps, TxnOf, ReplyOf, Response, new
<1>7. QED
  BY <1>1, <1>4, <1>6, OneProcess DEF IInv, TypeOK, Goto
\* The id an INSERT uses is free, so its PRIMARY KEY error cannot occur.
LEMMA InsertIdFree ==
  ASSUME IInv, NEW p \in Procs, pc[p] = "insert"
  PROVE  /\ response[p].id \in Ids
         /\ response[p].id \notin IdsOf(txn[p])
         /\ response[p].id \notin IdsOf(db)
<1>1. response[p].id \in Ids /\ response[p].id \notin IdsOf(txn[p])
  <2>1. response[p].id = NextId(txn[p], DateOf(now[p]))
    BY DEF IInv, TxnOf
  <2>2. QED
    BY <2>1, InTxn, DateType, FreshId DEF TxnSteps
<1>2. IdsOf(txn[p]) = IdsOf(db)
  <2>1. db \in SUBSET Row /\ txn[p] = Settled(db, req[p])
    BY DEF IInv, TypeOK, TxnOf
  <2>2. QED
    BY <2>1, SettledKeeps
<1>3. QED
  BY <1>1, <1>2

LEMMA InsertMemoryKeeps ==
  ASSUME IInv, NEW p \in Procs, InsertMemory(p)
  PROVE  IInv'
<1>1. PICK emb \in BOOLEAN :
        LET row == NewRow(response[p].id, req[p], emb, now[p], {})
        IN  /\ pc[p] = "insert"
            /\ Goto(p, "labels")
            /\ txn' = [txn EXCEPT ![p] = @ \union {row}]
            /\ UNCHANGED <<db, writer, clock, audit, req, now, attempts, response>>
  BY InsertIdFree, EmbedsAssumption DEF InsertMemory
<1> DEFINE row == NewRow(response[p].id, req[p], emb, now[p], {})
<1>2. /\ txn[p] \in SUBSET Row
      /\ txn[p] = Settled(db, req[p])
      /\ ~InvalidatesRefused(SupersedeForKind(db, req[p]), req[p])
  BY <1>1 DEF IInv, TypeOK, TxnOf
<1>3. row \in Row
  <2>1. now[p] \in Nat /\ req[p] \in Request /\ response[p].id \in Ids
    BY <1>1, InsertIdFree, DateType, RequestsAssumption DEF IInv, TypeOK
  <2>2. QED
    BY <2>1 DEF NewRow, Row, Request, Statuses
<1>4. TypeOK'
  BY <1>1, <1>2, <1>3 DEF IInv, TypeOK, Goto, Steps, TxnSteps
<1>5. txn'[p] = Settled(db, req[p]) \union {row}
  BY <1>1, <1>2 DEF IInv, TypeOK
<1>6. TxnOf(p)' /\ ReplyOf(p)'
  BY <1>1, <1>2, <1>5, InsertIdFree DEF IInv, TypeOK, Goto, Steps, TxnSteps, TxnOf, ReplyOf
<1>7. QED
  BY <1>1, <1>4, <1>6, OneProcess DEF IInv, TypeOK, Goto

\* The labels go to the new row, which is the only one with its id.
LEMMA InsertLabelsKeeps ==
  ASSUME IInv, NEW p \in Procs, InsertLabels(p)
  PROVE  IInv'
<1> DEFINE id == response[p].id
           r  == req[p]
           rows == {IF m.id = id THEN [m EXCEPT !.labels = r.labels] ELSE m : m \in txn[p]}
<1>1. /\ pc[p] = "labels"
      /\ Goto(p, "commit")
      /\ txn' = [txn EXCEPT ![p] = rows]
      /\ UNCHANGED <<db, writer, clock, audit, req, now, attempts, response>>
  BY DEF InsertLabels
<1>2. PICK emb \in BOOLEAN :
        txn[p] = Settled(db, r) \union {NewRow(id, r, emb, now[p], {})}
  BY <1>1 DEF IInv, TxnOf
<1>3. /\ id \in Ids \ IdsOf(Settled(db, r))
      /\ id \notin IdsOf(db)
      /\ Settled(db, r) \in SUBSET Row
      /\ ~InvalidatesRefused(SupersedeForKind(db, r), r)
  <2>1. db \in SUBSET Row /\ id \in Ids \ IdsOf(db)
    BY <1>1 DEF IInv, TypeOK, TxnOf
  <2>2. QED
    BY <1>1, <2>1, SettledKeeps DEF IInv, TxnOf
<1>4. rows = Settled(db, r) \union {NewRow(id, r, emb, now[p], r.labels)}
  <2> DEFINE f(m) == IF m.id = id THEN [m EXCEPT !.labels = r.labels] ELSE m
             new == NewRow(id, r, emb, now[p], {})
  <2>1. f(new) = NewRow(id, r, emb, now[p], r.labels)
    BY DEF NewRow
  <2>2. \A m \in Settled(db, r) : f(m) = m
    BY <1>3 DEF IdsOf
  <2> HIDE DEF new
  <2>3. txn[p] = Settled(db, r) \union {new}
    BY <1>2 DEF new
  <2>4. rows = {f(m) : m \in txn[p]}
    OBVIOUS
  <2> HIDE DEF f
  <2>5. QED
    BY <2>1, <2>2, <2>3, <2>4
<1>5. r.labels \in SUBSET Labels
  BY RequestsAssumption DEF IInv, TypeOK, Request
<1>6. rows \in SUBSET Row
  BY <1>5 DEF IInv, TypeOK, Row
<1> HIDE DEF rows
<1>7. TypeOK'
  BY <1>1, <1>6 DEF IInv, TypeOK, Goto, Steps, TxnSteps
<1>8. TxnOf(p)' /\ ReplyOf(p)'
  <2>1. txn'[p] = Settled(db, r) \union {NewRow(id, r, emb, now[p], r.labels)}
    BY <1>1, <1>4 DEF IInv, TypeOK
  <2>2. QED
    BY <1>1, <1>3, <2>1 DEF IInv, TypeOK, Goto, Steps, TxnSteps, TxnOf, ReplyOf
<1>9. QED
  BY <1>1, <1>7, <1>8, OneProcess DEF IInv, TypeOK, Goto
\* What COMMIT publishes: the committed rows after the two UPDATEs, and one
\* new row with its labels.
LEMMA Published ==
  ASSUME IInv, NEW p \in Procs, pc[p] = "commit"
  PROVE  \E row \in Row :
           LET r == req[p] IN
           /\ txn[p] = Settled(db, r) \union {row}
           /\ row.id = response[p].id /\ row.id \notin IdsOf(db)
           /\ <<row.project, row.task, row.kind>> = <<r.project, r.task, r.kind>>
           /\ <<row.content, row.labels>> = <<r.content, r.labels>>
           /\ row.status = "active"
           /\ IsFiniteSet(txn[p]) /\ UniqueIds(txn[p]) /\ SingleActivePerTask(txn[p])
           /\ IdsOf(txn[p]) = IdsOf(db) \union {row.id}
           /\ \A o \in db : \E m \in txn[p] : Retired(m, o)
<1> DEFINE r    == req[p]
           id   == response[p].id
           rows == Settled(db, r)
<1>1. PICK emb \in BOOLEAN : txn[p] = rows \union {NewRow(id, r, emb, now[p], r.labels)}
  BY DEF IInv, TxnOf
<1>2. /\ rows \in SUBSET Row
      /\ IdsOf(rows) = IdsOf(db)
      /\ IsFiniteSet(rows) /\ UniqueIds(rows) /\ SingleActivePerTask(rows)
      /\ \A o \in db : \E m \in rows : Retired(m, o)
      /\ \A m \in rows : ~Supersedes(r, m)
  <2>1. /\ db \in SUBSET Row /\ IsFiniteSet(db)
        /\ UniqueIds(db) /\ SingleActivePerTask(db)
    BY DEF IInv, TypeOK, CommittedOK, SingleActive
  <2>2. QED
    BY <2>1, SettledKeeps
<1>3. /\ id \in Ids \ IdsOf(rows)
      /\ r \in Request /\ r.labels \in SUBSET Labels
      /\ now[p] \in Nat
  BY <1>2, DateType, RequestsAssumption DEF IInv, TypeOK, TxnOf, Request
<1> DEFINE row == NewRow(id, r, emb, now[p], r.labels)
<1>4. /\ row.id = id
      /\ <<row.project, row.task, row.kind>> = <<r.project, r.task, r.kind>>
      /\ <<row.content, row.labels>> = <<r.content, r.labels>>
      /\ row.status = "active"
  BY DEF NewRow
<1> HIDE DEF rows, r, id
<1>5. /\ row \in Row
      /\ IsFiniteSet(rows \union {row})
      /\ UniqueIds(rows \union {row})
      /\ SingleActivePerTask(rows \union {row})
      /\ IdsOf(rows \union {row}) = IdsOf(rows) \union {id}
  BY <1>2, <1>3, InsertKeeps
<1> HIDE DEF row
<1>6. txn[p] = rows \union {row}
  BY <1>1 DEF row
<1>7. QED
  BY <1>2, <1>3, <1>4, <1>5, <1>6 DEF rows, r, id

LEMMA CommitKeeps ==
  ASSUME IInv, NEW p \in Procs, Commit(p)
  PROVE  IInv'
<1>1. /\ pc[p] = "commit"
      /\ Goto(p, "audit")
      /\ db' = txn[p]
      /\ txn' = [txn EXCEPT ![p] = {}]
      /\ writer' = NoProc
      /\ response' = [response EXCEPT ![p].status = "stored"]
      /\ UNCHANGED <<clock, audit, req, now, attempts>>
  BY DEF Commit
<1>2. TypeOK'
  BY <1>1 DEF IInv, TypeOK, Goto, Steps, Response, Outcomes
<1>3. PICK row \in Row :
        /\ row.id = response[p].id
        /\ IsFiniteSet(txn[p]) /\ UniqueIds(txn[p]) /\ SingleActivePerTask(txn[p])
        /\ IdsOf(txn[p]) = IdsOf(db) \union {row.id}
  BY <1>1, Published
<1>4. IdsOf(db)' = IdsOf(db) \union {response[p].id}
  BY <1>1, <1>3 DEF IdsOf
<1>5. CommittedOK'
  BY <1>1, <1>3, <1>4
     DEF IInv, CommittedOK, SingleActive, SingleActivePerTask, SameKey, UniqueIds, AuditSound
<1>6. ASSUME NEW q \in Procs PROVE TxnOf(q)' /\ ReplyOf(q)'
  <2>1. CASE q = p
    BY <1>1, <1>4, <2>1, ProcsAssumption
       DEF IInv, TypeOK, Goto, Steps, TxnSteps, TxnOf, ReplyOf, Response
  <2>2. CASE q # p
    <3>1. pc[q] \notin TxnSteps
      BY <1>1, <2>2, InTxn DEF TxnSteps
    <3>2. pc'[q] = pc[q] /\ response'[q] = response[q]
      BY <1>1, <2>2 DEF IInv, TypeOK, Goto
    <3>3. TxnOf(q)'
      BY <1>1, <3>1, <3>2, ProcsAssumption DEF TxnOf, TxnSteps
    <3>4. ReplyOf(q)'
      BY <1>4, <3>2 DEF IInv, ReplyOf
    <3>5. QED
      BY <3>3, <3>4
  <2>3. QED
    BY <2>1, <2>2
<1>7. QED
  BY <1>2, <1>5, <1>6 DEF IInv

LEMMA AppendAuditKeeps ==
  ASSUME IInv, NEW p \in Procs, AppendAudit(p)
  PROVE  IInv'
<1> DEFINE entry == [status |-> response[p].status, id |-> response[p].id]
<1>1. /\ pc[p] = "audit"
      /\ audit' = audit \/ audit' = audit \union {entry}
      /\ Goto(p, "idle")
      /\ UNCHANGED <<db, writer, clock, req, now, attempts, txn, response>>
  BY DEF AppendAudit
<1>2. /\ entry \in AuditEntry
      /\ entry.status = "stored" => entry.id \in IdsOf(db)
  BY <1>1 DEF IInv, TypeOK, ReplyOf, AuditEntry, Response
<1> HIDE DEF entry
<1>3. TypeOK'
  BY <1>1, <1>2 DEF IInv, TypeOK, Goto, Steps
<1>4. CommittedOK'
  BY <1>1, <1>2 DEF IInv, CommittedOK, SingleActive, AuditSound
<1>5. ASSUME NEW q \in Procs PROVE TxnOf(q)' /\ ReplyOf(q)'
  <2>1. CASE q = p
    BY <1>1, <2>1 DEF IInv, TypeOK, Goto, Steps, TxnSteps, TxnOf, ReplyOf
  <2>2. CASE q # p
    BY <1>1, <2>2, Frame DEF IInv, TypeOK, Goto
  <2>3. QED
    BY <2>1, <2>2
<1>6. QED
  BY <1>3, <1>4, <1>5 DEF IInv

LEMMA CrashKeeps ==
  ASSUME IInv, NEW p \in Procs, Crash(p)
  PROVE  IInv'
<1>1. TypeOK'
  BY AnswerType, NumbersAssumption DEF IInv, TypeOK, Crash, EndAttempts, Return, Goto, Rollback, Steps, Outcomes
<1>2. TxnOf(p)' /\ ReplyOf(p)'
  BY ProcsAssumption
     DEF IInv, TypeOK, Crash, Return, Goto, Rollback, Steps, TxnSteps, TxnOf, ReplyOf
<1>3. QED
  BY <1>1, <1>2, OneProcess, ProcsAssumption
     DEF IInv, TypeOK, Crash, Return, Goto, Rollback

LEMMA TickKeeps ==
  ASSUME IInv, Tick
  PROVE  IInv'
<1>1. UNCHANGED <<db, writer, audit, pc, req, now, attempts, txn, response>>
  BY DEF Tick, local
<1>2. TypeOK'
  BY <1>1, NumbersAssumption DEF IInv, TypeOK, Tick
<1>3. CommittedOK'
  BY <1>1 DEF IInv, CommittedOK, SingleActive, AuditSound
<1>4. QED
  BY <1>1, <1>2, <1>3, Frame DEF IInv

(***************************************************************************)
(* Every step keeps IInv, one case per action.                             *)
(***************************************************************************)
LEMMA StepKeeps == IInv /\ [Next]_vars => IInv'
<1> SUFFICES ASSUME IInv, [Next]_vars PROVE IInv'
  OBVIOUS
<1>1. CASE Tick
  BY <1>1, TickKeeps
<1>2. ASSUME NEW p \in Procs, NEW r \in Requests, Call(p, r) PROVE IInv'
  BY <1>2, CallKeeps
<1>3. ASSUME NEW p \in Procs, Progress(p) PROVE IInv'
  <2>1. CASE Arbitrate(p) \/ CheckDuplicate(p) \/ TakeNow(p)
    BY <2>1, ArbitrateKeeps, CheckDuplicateKeeps, TakeNowKeeps
  <2>2. CASE BeginImmediate(p) \/ BeginLocked(p)
    BY <2>2, BeginImmediateKeeps, BeginLockedKeeps
  <2>3. CASE Supersede(p) \/ Invalidate(p) \/ GenerateMemoryId(p)
    BY <2>3, SupersedeStepKeeps, InvalidateStepKeeps, GenerateMemoryIdKeeps
  <2>4. CASE InsertMemory(p) \/ InsertLabels(p) \/ Commit(p)
    BY <2>4, InsertMemoryKeeps, InsertLabelsKeeps, CommitKeeps
  <2>5. CASE AppendAudit(p)
    BY <2>5, AppendAuditKeeps
  <2>6. QED
    BY <1>3, <2>1, <2>2, <2>3, <2>4, <2>5 DEF Progress
<1>4. ASSUME NEW p \in Procs, DbError(p) PROVE IInv'
  BY <1>4, FailKeeps DEF DbError
<1>5. ASSUME NEW p \in Procs, Crash(p) PROVE IInv'
  BY <1>5, CrashKeeps
<1>6. CASE UNCHANGED vars
  <2>1. UNCHANGED <<db, writer, clock, audit, pc, req, now, attempts, txn, response>>
    BY <1>6 DEF vars, local
  <2>2. TypeOK' /\ CommittedOK'
    BY <2>1 DEF IInv, TypeOK, CommittedOK, SingleActive, AuditSound
  <2>3. QED
    BY <2>1, <2>2, Frame DEF IInv
<1>7. QED
  BY <1>1, <1>2, <1>3, <1>4, <1>5, <1>6 DEF Next

\* IInv is an invariant of MemoryStore.
THEOREM Invariance == Spec => []IInv
<1>1. Init => IInv
  BY InitIInv
<1>2. IInv /\ [Next]_vars => IInv'
  BY StepKeeps
<1>3. QED
  BY <1>1, <1>2, PTL DEF Spec
-----------------------------------------------------------------------------
(***************************************************************************)
(* The theorems.                                                           *)
(***************************************************************************)

\* Type correctness of the model of process_store.
THEOREM TypeCorrect == Spec => []TypeOK
BY Invariance, PTL DEF IInv

\* However many processes store at once, and whatever fails or dies, a task
\* has at most one active row of each superseding kind.
THEOREM OneActiveRow == Spec => []SingleActive
BY Invariance, PTL DEF IInv, CommittedOK

\* Committed ids are unique, and the INSERT of process_store never meets its
\* PRIMARY KEY error.
THEOREM IdsAreUnique == Spec => []IdsNeverCollide
<1>1. IInv => IdsNeverCollide
  BY InsertIdFree DEF IInv, CommittedOK, IdsNeverCollide
<1>2. QED
  BY <1>1, Invariance, PTL

\* The audit names committed memories only.
THEOREM AuditIsTrue == Spec => []AuditSound
BY Invariance, PTL DEF IInv, CommittedOK

\* A transaction of process_store sees the committed rows and its own
\* statements, from BEGIN IMMEDIATE to COMMIT.
THEOREM TransactionsIsolated == Spec => []Isolated
<1>1. IInv => Isolated
  BY DEF IInv, Isolated
<1>2. QED
  BY <1>1, Invariance, PTL

(***************************************************************************)
(* Of all actions only COMMIT changes the committed rows.                  *)
(***************************************************************************)
LEMMA OnlyCommitChanges ==
  ASSUME IInv, [Next]_vars, db' # db
  PROVE  \E p \in Procs : Commit(p)
<1>1. CASE Tick
  BY <1>1 DEF Tick
<1>2. ASSUME NEW p \in Procs, NEW r \in Requests, Call(p, r) PROVE FALSE
  BY <1>2 DEF Call
<1>3. ASSUME NEW p \in Procs, Progress(p) PROVE Commit(p)
  BY <1>3 DEF Progress, Arbitrate, CheckDuplicate, TakeNow, BeginImmediate, BeginLocked,
              Supersede, Invalidate, GenerateMemoryId, InsertMemory, InsertLabels, AppendAudit
<1>4. ASSUME NEW p \in Procs, DbError(p) \/ Crash(p) PROVE FALSE
  BY <1>4 DEF DbError, Crash
<1>5. CASE UNCHANGED vars
  BY <1>5 DEF vars
<1>6. QED
  BY <1>1, <1>2, <1>3, <1>4, <1>5 DEF Next

\* No step of process_store loses or rewrites a committed memory, or makes a
\* retired one active again.
THEOREM MemoriesEndure == Spec => Durable
<1>1. IInv /\ [Next]_vars => [\A o \in db : \E m \in db' : Retired(m, o)]_db
  <2> SUFFICES ASSUME IInv, [Next]_vars, db' # db
               PROVE  \A o \in db : \E m \in db' : Retired(m, o)
    OBVIOUS
  <2>1. PICK p \in Procs : Commit(p)
    BY OnlyCommitChanges
  <2>2. db' = txn[p] /\ pc[p] = "commit"
    BY <2>1 DEF Commit
  <2>3. QED
    BY <2>2, Published
<1>2. QED
  BY <1>1, Invariance, PTL DEF Spec, Durable
-----------------------------------------------------------------------------
(***************************************************************************)
(* MemoryStore implements StoreSpec.  COMMIT is the step that applies a    *)
(* call, the end of a call answers it, and every other step stutters.      *)
(***************************************************************************)

\* The two UPDATEs together retire what the specification says is replaced.
LEMMA SettledIsAfter ==
  ASSUME NEW rows \in SUBSET Row, NEW r \in Request,
         ~InvalidatesRefused(SupersedeForKind(rows, r), r)
  PROVE  /\ Settled(rows, r) = {Linearized!After(r, m) : m \in rows}
         /\ r.kind = "discovered_constraint" =>
              \A i \in r.invalidates : \E m \in rows : m.id = i /\ m.kind = r.kind
<1> DEFINE sup(m) == IF Supersedes(r, m) THEN [m EXCEPT !.status = "superseded"] ELSE m
           inv(m) == IF InvalidatedBy(r, m) THEN [m EXCEPT !.status = "invalidated"] ELSE m
<1>1. CASE r.kind = "discovered_constraint"
  <2>1. \A m \in rows : sup(m) = m
    BY <1>1 DEF Supersedes, SupersedingKinds
  <2>2. SupersedeForKind(rows, r) = rows
    <3>1. SupersedeForKind(rows, r) = {sup(m) : m \in rows}
      BY DEF SupersedeForKind
    <3> HIDE DEF sup
    <3>2. QED
      BY <2>1, <3>1
  <2>3. /\ \A i \in r.invalidates : i \in IdsOf(rows)
        /\ \A m \in rows : m.id \in r.invalidates => m.kind = "discovered_constraint"
    BY <1>1, <2>2 DEF InvalidatesRefused, Invalidates
  <2>4. \A m \in rows : inv(m) = Linearized!After(r, m)
    BY <1>1, <2>3 DEF Linearized!After, Linearized!Replaces, InvalidatedBy, Invalidates
  <2>5. Settled(rows, r) = {inv(m) : m \in rows}
    BY <2>2 DEF Settled, InvalidateConstraints
  <2>6. \A i \in r.invalidates : \E m \in rows : m.id = i /\ m.kind = r.kind
    BY <1>1, <2>3 DEF IdsOf
  <2> HIDE DEF inv
  <2>7. QED
    BY <2>4, <2>5, <2>6
<1>2. CASE r.kind # "discovered_constraint"
  <2>1. \A m \in rows : sup(m) = Linearized!After(r, m)
    BY <1>2 DEF Linearized!After, Linearized!Replaces, Supersedes, SupersedingKinds, SameKey
  <2>2. \A m : inv(m) = m
    BY <1>2 DEF InvalidatedBy, Invalidates
  <2>3. Settled(rows, r) = SupersedeForKind(rows, r)
    <3>1. Settled(rows, r) = {inv(m) : m \in SupersedeForKind(rows, r)}
      BY DEF Settled, InvalidateConstraints
    <3> HIDE DEF inv
    <3>2. QED
      BY <2>2, <3>1
  <2>4. SupersedeForKind(rows, r) = {sup(m) : m \in rows}
    BY DEF SupersedeForKind
  <2> HIDE DEF sup
  <2>5. QED
    BY <1>2, <2>1, <2>3, <2>4
<1>3. QED
  BY <1>1, <1>2

\* A step that changes no phase, no answer, no request and no row stutters.
LEMMA Stutters ==
  ASSUME UNCHANGED <<db, req>>,
         \A q \in Procs : PhaseOf(q)' = PhaseOf(q) /\ AnswerOf(q)' = AnswerOf(q)
  PROVE  UNCHANGED Linearized!vars
BY DEF Linearized!vars

\* A step within a call of p, before COMMIT, stutters.
LEMMA StaysPending ==
  ASSUME IInv, NEW p \in Procs, UNCHANGED <<db, req>>,
         PhaseOf(p) = "pending", pc'[p] # "idle",
         pc'[p] = "audit" => response'[p].status # "stored",
         \A q \in Procs \ {p} : pc'[q] = pc[q] /\ response'[q] = response[q]
  PROVE  UNCHANGED Linearized!vars
<1>1. PhaseOf(p)' = "pending" /\ AnswerOf(p) = "none" /\ AnswerOf(p)' = "none"
  BY DEF PhaseOf, AnswerOf
<1>2. \A q \in Procs \ {p} : PhaseOf(q)' = PhaseOf(q) /\ AnswerOf(q)' = AnswerOf(q)
  BY DEF PhaseOf, AnswerOf
<1>3. QED
  BY <1>1, <1>2, Stutters

\* The end of a call of p answers it.
LEMMA Answers ==
  ASSUME IInv, NEW p \in Procs, UNCHANGED <<db, req>>,
         pc[p] # "idle", pc'[p] = "idle",
         \A q \in Procs \ {p} : pc'[q] = pc[q] /\ response'[q] = response[q]
  PROVE  /\ PhaseOf(p) = "pending" /\ response'[p].status \in Linearized!Refusals
             => Linearized!Refuse(p)
         /\ PhaseOf(p) = "applied" /\ response'[p].status \in {"stored", "crashed"}
             => Linearized!Acknowledge(p)
<1> DEFINE phase == [q \in Procs |-> PhaseOf(q)]
           answer == [q \in Procs |-> AnswerOf(q)]
<1>1. PhaseOf(p)' = "idle" /\ AnswerOf(p)' = response'[p].status
  BY DEF PhaseOf, AnswerOf
<1>2. \A q \in Procs \ {p} : PhaseOf(q)' = PhaseOf(q) /\ AnswerOf(q)' = AnswerOf(q)
  BY DEF PhaseOf, AnswerOf
<1>3. phase' = [phase EXCEPT ![p] = "idle"]
  BY <1>1, <1>2
<1>4. answer' = [answer EXCEPT ![p] = response'[p].status]
  BY <1>1, <1>2
<1>5. phase[p] = PhaseOf(p)
  OBVIOUS
<1>6. QED
  BY <1>3, <1>4, <1>5 DEF Linearized!Refuse, Linearized!Acknowledge
\* A call invokes.
LEMMA CallInvokes ==
  ASSUME IInv, NEW p \in Procs, NEW r \in Requests, Call(p, r)
  PROVE  Linearized!Invoke(p, r)
<1> DEFINE phase == [q \in Procs |-> PhaseOf(q)]
           answer == [q \in Procs |-> AnswerOf(q)]
<1>1. /\ pc[p] = "idle" /\ pc'[p] = "arbitrate"
      /\ \A q \in Procs \ {p} : pc'[q] = pc[q] /\ response'[q] = response[q]
      /\ UNCHANGED db /\ req' = [req EXCEPT ![p] = r]
  BY DEF IInv, TypeOK, Call, Goto
<1>2. /\ PhaseOf(p) = "idle" /\ PhaseOf(p)' = "pending" /\ AnswerOf(p)' = "none"
      /\ \A q \in Procs \ {p} : PhaseOf(q)' = PhaseOf(q) /\ AnswerOf(q)' = AnswerOf(q)
  BY <1>1 DEF PhaseOf, AnswerOf
<1>3. phase' = [phase EXCEPT ![p] = "pending"] /\ phase[p] = "idle"
  BY <1>2
<1>4. answer' = [answer EXCEPT ![p] = "none"]
  BY <1>2
<1>5. QED
  BY <1>1, <1>3, <1>4 DEF Linearized!Invoke

\* COMMIT applies.
LEMMA CommitApplies ==
  ASSUME IInv, NEW p \in Procs, Commit(p)
  PROVE  Linearized!Apply(p)
<1> DEFINE phase == [q \in Procs |-> PhaseOf(q)]
           answer == [q \in Procs |-> AnswerOf(q)]
           r == req[p]
<1>1. /\ pc[p] = "commit" /\ pc'[p] = "audit" /\ response'[p].status = "stored"
      /\ \A q \in Procs \ {p} : pc'[q] = pc[q] /\ response'[q] = response[q]
      /\ db' = txn[p] /\ UNCHANGED req
  BY DEF IInv, TypeOK, Commit, Goto, Response
<1>2. /\ PhaseOf(p) = "pending" /\ PhaseOf(p)' = "applied"
      /\ AnswerOf(p)' = AnswerOf(p)
      /\ \A q \in Procs \ {p} : PhaseOf(q)' = PhaseOf(q) /\ AnswerOf(q)' = AnswerOf(q)
  BY <1>1 DEF PhaseOf, AnswerOf
<1>3. phase' = [phase EXCEPT ![p] = "applied"] /\ phase[p] = "pending"
  BY <1>2
<1>4. answer' = answer
  BY <1>2
<1>5. /\ db \in SUBSET Row /\ r \in Request
      /\ ~InvalidatesRefused(SupersedeForKind(db, r), r)
  BY <1>1, RequestsAssumption DEF IInv, TypeOK, TxnOf
<1>6. /\ Settled(db, r) = {Linearized!After(r, m) : m \in db}
      /\ r.kind = "discovered_constraint" =>
           \A i \in r.invalidates : \E m \in db : m.id = i /\ m.kind = r.kind
  BY <1>5, SettledIsAfter
<1>7. PICK row \in Row :
        /\ txn[p] = Settled(db, r) \union {row}
        /\ row.id \notin IdsOf(db)
        /\ <<row.project, row.task, row.kind>> = <<r.project, r.task, r.kind>>
        /\ <<row.content, row.labels>> = <<r.content, r.labels>>
        /\ row.status = "active"
  BY <1>1, Published
<1>8. \A m \in db : m.id # row.id
  BY <1>7 DEF IdsOf
<1>9. db' = {Linearized!After(r, m) : m \in db} \union {row}
  BY <1>1, <1>6, <1>7
<1>10. row \in db'
  BY <1>9
<1> HIDE DEF phase, answer
<1>11. \E new \in db' :
         /\ new \in Row
         /\ <<new.project, new.task, new.kind>> = <<r.project, r.task, r.kind>>
         /\ <<new.content, new.labels>> = <<r.content, r.labels>>
         /\ new.status = "active"
         /\ \A m \in db : m.id # new.id
         /\ db' = {Linearized!After(r, m) : m \in db} \union {new}
  BY <1>7, <1>8, <1>9, <1>10
<1>12. QED
  BY <1>1, <1>3, <1>4, <1>6, <1>11 DEF Linearized!Apply, phase, answer

\* The steps that may end a call without effect.
LEMMA ReturnRefuses ==
  ASSUME IInv, NEW p \in Procs, pc[p] \notin {"idle", "audit"},
         UNCHANGED <<db, req>>,
         NEW s \in Linearized!Refusals, Return(p, s)
  PROVE  Linearized!Refuse(p)
<1>1. /\ pc'[p] = "idle"
      /\ response'[p].status = s
      /\ \A q \in Procs \ {p} : pc'[q] = pc[q] /\ response'[q] = response[q]
  BY DEF IInv, TypeOK, Return, Goto, Answer
<1>2. PhaseOf(p) = "pending"
  BY DEF PhaseOf
<1>3. QED
  BY <1>1, <1>2, Answers

\* append_audit and the return of process_store, or the death of the process.
LEMMA EndAnswers ==
  ASSUME IInv, NEW p \in Procs, AppendAudit(p) \/ Crash(p)
  PROVE  Linearized!Refuse(p) \/ Linearized!Acknowledge(p)
<1>1. /\ pc[p] # "idle" /\ pc'[p] = "idle" /\ UNCHANGED <<db, req>>
      /\ \A q \in Procs \ {p} : pc'[q] = pc[q] /\ response'[q] = response[q]
  BY DEF IInv, TypeOK, AppendAudit, Crash, Return, Goto
<1>2. CASE AppendAudit(p)
  <2>1. pc[p] = "audit" /\ response' = response
    BY <1>2 DEF AppendAudit
  <2>2. CASE response[p].status = "stored"
    BY <1>1, <2>1, <2>2, Answers DEF PhaseOf
  <2>3. CASE response[p].status = "error"
    BY <1>1, <2>1, <2>3, Answers DEF PhaseOf, Linearized!Refusals
  <2>4. QED
    BY <2>1, <2>2, <2>3 DEF IInv, ReplyOf
<1>3. CASE Crash(p)
  <2>1. response'[p].status = "crashed"
    BY <1>3 DEF IInv, TypeOK, Crash, Return, Answer
  <2>2. PhaseOf(p) = "pending" \/ PhaseOf(p) = "applied"
    BY <1>1 DEF PhaseOf
  <2>3. QED
    BY <1>1, <2>1, <2>2, Answers DEF Linearized!Refusals
<1>4. QED
  BY <1>2, <1>3
\* The failure path leaves the call pending until its error is returned.
LEMMA FailStutters ==
  ASSUME IInv, NEW p \in Procs, pc[p] \notin {"idle", "audit"},
         UNCHANGED <<db, req>>, Fail(p)
  PROVE  UNCHANGED Linearized!vars
<1>1. /\ pc'[p] = "audit" /\ response'[p].status = "error"
      /\ \A q \in Procs \ {p} : pc'[q] = pc[q] /\ response'[q] = response[q]
  BY DEF IInv, TypeOK, Fail, Goto, Answer
<1>2. PhaseOf(p) = "pending"
  BY DEF PhaseOf
<1>3. QED
  BY <1>1, <1>2, StaysPending

\* The other steps of the transaction, and those before it, stutter or refuse.
LEMMA ProgressSimulated ==
  ASSUME IInv, NEW p \in Procs, Progress(p)
  PROVE  \/ Linearized!Apply(p)
         \/ Linearized!Refuse(p)
         \/ Linearized!Acknowledge(p)
         \/ UNCHANGED Linearized!vars
<1>1. ASSUME pc[p] \notin {"idle", "audit"}, UNCHANGED <<db, req>>,
             \E step \in Steps \ {"idle", "audit"} :
               \/ Goto(p, step)
               \/ pc[p] = step /\ UNCHANGED pc,
             \A q \in Procs \ {p} : response'[q] = response[q]
      PROVE  UNCHANGED Linearized!vars
  <2>1. /\ pc'[p] \notin {"idle", "audit"}
        /\ \A q \in Procs \ {p} : pc'[q] = pc[q]
    BY <1>1 DEF IInv, TypeOK, Goto
  <2>2. PhaseOf(p) = "pending"
    BY <1>1 DEF PhaseOf
  <2>3. QED
    BY <1>1, <2>1, <2>2, StaysPending
<1>2. CASE Arbitrate(p)
  <2>1. CASE Return(p, "rejected") \/ Return(p, "raised")
    BY <1>2, <2>1, ReturnRefuses DEF Arbitrate, Linearized!Refusals
  <2>2. CASE Goto(p, "dedup") /\ UNCHANGED response
    BY <1>1, <1>2, <2>2 DEF Arbitrate, Steps
  <2>3. QED
    BY <1>2, <2>1, <2>2 DEF Arbitrate
<1>3. CASE CheckDuplicate(p)
  <2>1. CASE Return(p, "rejected") \/ Return(p, "raised")
    BY <1>3, <2>1, ReturnRefuses DEF CheckDuplicate, Linearized!Refusals
  <2>2. CASE Goto(p, "stamp") /\ UNCHANGED response
    BY <1>1, <1>3, <2>2 DEF CheckDuplicate, Steps
  <2>3. QED
    BY <1>3, <2>1, <2>2 DEF CheckDuplicate
<1>4. CASE TakeNow(p)
  BY <1>1, <1>4 DEF TakeNow, Steps
<1>5. CASE BeginImmediate(p)
  BY <1>1, <1>5 DEF BeginImmediate, Steps, TxnSteps
<1>6. CASE BeginLocked(p)
  <2>1. CASE Fail(p)
    BY <1>6, <2>1, FailStutters DEF BeginLocked
  <2>2. CASE UNCHANGED <<writer, pc, txn, response>>
    BY <1>1, <1>6, <2>2 DEF BeginLocked, Steps
  <2>3. QED
    BY <1>6, <2>1, <2>2 DEF BeginLocked
<1>7. CASE Supersede(p)
  <2>1. /\ pc[p] = "supersede" /\ Goto(p, "invalidate") /\ UNCHANGED <<db, req>>
        /\ \E s : response' = [response EXCEPT ![p].superseded = s]
    BY <1>7 DEF Supersede
  <2>2. \A q \in Procs \ {p} : response'[q] = response[q]
    BY <2>1 DEF IInv, TypeOK
  <2>3. QED
    BY <1>1, <2>1, <2>2 DEF Steps, TxnSteps
<1>8. CASE Invalidate(p)
  <2>1. CASE Return(p, "rejected")
    BY <1>8, <2>1, ReturnRefuses DEF Invalidate, Linearized!Refusals
  <2>2. CASE /\ Goto(p, "generate")
             /\ \E n : response' = [response EXCEPT ![p].invalidated = n]
    <3>1. \A q \in Procs \ {p} : response'[q] = response[q]
      BY <2>2 DEF IInv, TypeOK
    <3>2. QED
      BY <1>1, <1>8, <2>2, <3>1 DEF Invalidate, Steps, TxnSteps
  <2>3. QED
    BY <1>8, <2>1, <2>2 DEF Invalidate
<1>9. CASE GenerateMemoryId(p)
  <2>1. \A q \in Procs \ {p} : response'[q] = response[q]
    BY <1>9 DEF IInv, TypeOK, GenerateMemoryId
  <2>2. QED
    BY <1>1, <1>9, <2>1 DEF GenerateMemoryId, Steps, TxnSteps
<1>10. CASE InsertMemory(p)
  <2>1. CASE Fail(p)
    BY <1>10, <2>1, FailStutters DEF InsertMemory
  <2>2. CASE Goto(p, "labels") /\ UNCHANGED <<writer, response>>
    BY <1>1, <1>10, <2>2 DEF InsertMemory, Steps, TxnSteps
  <2>3. QED
    BY <1>10, <2>1, <2>2 DEF InsertMemory
<1>11. CASE InsertLabels(p)
  BY <1>1, <1>11 DEF InsertLabels, Steps, TxnSteps
<1>12. CASE Commit(p)
  BY <1>12, CommitApplies
<1>13. CASE AppendAudit(p)
  BY <1>13, EndAnswers
<1>14. QED
  BY <1>2, <1>3, <1>4, <1>5, <1>6, <1>7, <1>8, <1>9, <1>10, <1>11, <1>12, <1>13 DEF Progress

\* process_store is linearizable: for its callers a store takes effect at one
\* instant or not at all, and the answer says which.
THEOREM StoreImplementsSpec == Spec => ImplementsStoreSpec
<1>1. Init => Linearized!Init
  <2> SUFFICES ASSUME Init PROVE Linearized!Init
    OBVIOUS
  <2>1. TypeOK
    BY InitIInv DEF IInv
  <2>2. \A p \in Procs : PhaseOf(p) = "idle" /\ AnswerOf(p) = "none"
    BY DEF Init, PhaseOf, AnswerOf, Answer
  <2>3. QED
    BY <2>1, <2>2 DEF Init, TypeOK, Linearized!Init
<1>2. IInv /\ [Next]_vars => [Linearized!Next]_(Linearized!vars)
  <2> SUFFICES ASSUME IInv, [Next]_vars PROVE [Linearized!Next]_(Linearized!vars)
    OBVIOUS
  <2>1. CASE Tick \/ UNCHANGED vars
    <3>1. UNCHANGED <<db, req, pc, response>>
      BY <2>1 DEF Tick, vars, local
    <3>2. QED
      BY <3>1, Stutters DEF PhaseOf, AnswerOf
  <2>2. ASSUME NEW p \in Procs, NEW r \in Requests, Call(p, r)
        PROVE  [Linearized!Next]_(Linearized!vars)
    BY <2>2, CallInvokes DEF Linearized!Next
  <2>3. ASSUME NEW p \in Procs, Progress(p)
        PROVE  [Linearized!Next]_(Linearized!vars)
    BY <2>3, ProgressSimulated DEF Linearized!Next
  <2>4. ASSUME NEW p \in Procs, DbError(p)
        PROVE  [Linearized!Next]_(Linearized!vars)
    BY <2>4, FailStutters DEF DbError, TxnSteps
  <2>5. ASSUME NEW p \in Procs, Crash(p)
        PROVE  [Linearized!Next]_(Linearized!vars)
    BY <2>5, EndAnswers DEF Linearized!Next
  <2>6. QED
    BY <2>1, <2>2, <2>3, <2>4, <2>5 DEF Next
<1>3. QED
  BY <1>1, <1>2, Invariance, PTL DEF Spec, ImplementsStoreSpec, Linearized!Spec
-----------------------------------------------------------------------------
(***************************************************************************)
(* What a response lists.  From the UPDATE on it holds the ids of one of   *)
(* the results of the SELECT, on rows that nobody else can change.         *)
(***************************************************************************)
SupersededNow(rows, r) ==
  {m \in SupersedeForKind(rows, r) : SameKey(m, r) /\ m.status = "superseded"}
Hits(rows, r) == {m \in rows : Supersedes(r, m)}

Listing(p) ==
  pc[p] \in TxnSteps \ {"supersede"} =>
    \E listed \in Newest(SupersededNow(db, req[p]), Cardinality(Hits(db, req[p]))) :
      response[p].superseded = IdsOf(listed)

LEMMA ListingKept ==
  ASSUME NEW p \in Procs, Listing(p), db' = db, req'[p] = req[p],
         pc'[p] \in TxnSteps \ {"supersede"} =>
           /\ pc[p] \in TxnSteps \ {"supersede"}
           /\ response'[p].superseded = response[p].superseded
  PROVE  Listing(p)'
BY DEF Listing

LEMMA SupersedeLists ==
  ASSUME IInv, NEW p \in Procs, Supersede(p)
  PROVE  Listing(p)'
<1>1. /\ txn[p] = db /\ UNCHANGED <<db, req>>
      /\ \E listed \in Newest(SupersededNow(db, req[p]), Cardinality(Hits(db, req[p]))) :
           response' = [response EXCEPT ![p].superseded = IdsOf(listed)]
  BY DEF Supersede, IInv, TxnOf, SupersededNow, Hits
<1>2. PICK listed \in Newest(SupersededNow(db, req[p]), Cardinality(Hits(db, req[p]))) :
        response' = [response EXCEPT ![p].superseded = IdsOf(listed)]
  BY <1>1
<1>3. response'[p].superseded = IdsOf(listed)
  BY <1>2 DEF IInv, TypeOK, Response
<1>4. QED
  BY <1>1, <1>3 DEF Listing

LEMMA ListingKeeps ==
  ASSUME IInv, \A p \in Procs : Listing(p), [Next]_vars
  PROVE  \A p \in Procs : Listing(p)'
<1> SUFFICES ASSUME NEW q \in Procs PROVE Listing(q)'
  OBVIOUS
<1>1. CASE Tick
  BY <1>1, ListingKept DEF Tick, local
<1>2. ASSUME NEW p \in Procs, NEW r \in Requests, Call(p, r) PROVE Listing(q)'
  <2>1. pc'[q] \notin TxnSteps \/ q # p
    BY <1>2 DEF Call, Goto, TxnSteps, IInv, TypeOK
  <2>2. CASE q # p
    BY <1>2, <2>2, ListingKept DEF Call, Goto, IInv, TypeOK
  <2>3. QED
    BY <2>1, <2>2 DEF Listing
<1>3. ASSUME NEW p \in Procs, Progress(p) PROVE Listing(q)'
  <2>1. CASE Supersede(p)
    <3>1. CASE q = p
      BY <2>1, <3>1, SupersedeLists
    <3>2. CASE q # p
      BY <2>1, <3>2, ListingKept DEF Supersede, Goto, IInv, TypeOK
    <3>3. QED
      BY <3>1, <3>2
  <2>2. CASE Commit(p)
    <3>1. pc[p] = "commit" /\ pc'[p] = "audit"
      BY <2>2 DEF Commit, Goto, IInv, TypeOK
    <3>2. q # p => pc'[q] = pc[q]
      BY <2>2 DEF Commit, Goto, IInv, TypeOK
    <3>3. q # p => pc[q] \notin TxnSteps
      BY <3>1, InTxn DEF TxnSteps
    <3>4. QED
      BY <3>1, <3>2, <3>3 DEF Listing, TxnSteps
  <2>3. CASE Arbitrate(p) \/ CheckDuplicate(p) \/ TakeNow(p) \/ BeginImmediate(p) \/ BeginLocked(p)
    <3>1. db' = db /\ req' = req
      BY <2>3 DEF Arbitrate, CheckDuplicate, TakeNow, BeginImmediate, BeginLocked
    <3>2. /\ q # p => pc'[q] = pc[q] /\ response'[q] = response[q]
          /\ pc'[p] \notin TxnSteps \ {"supersede"}
      BY <2>3 DEF Arbitrate, CheckDuplicate, TakeNow, BeginImmediate, BeginLocked, Return, Goto,
                  Fail, Rollback, IInv, TypeOK, TxnSteps
    <3>3. QED
      BY <3>1, <3>2, ListingKept
  <2>4. CASE Invalidate(p) \/ GenerateMemoryId(p) \/ InsertMemory(p) \/ InsertLabels(p)
                \/ AppendAudit(p)
    <3>1. db' = db /\ req' = req
      BY <2>4 DEF Invalidate, GenerateMemoryId, InsertMemory, InsertLabels, AppendAudit
    <3>2. q # p => pc'[q] = pc[q] /\ response'[q] = response[q]
      BY <2>4 DEF Invalidate, GenerateMemoryId, InsertMemory, InsertLabels, AppendAudit, Return,
                  Goto, Fail, IInv, TypeOK
    <3>3. pc'[p] \in TxnSteps \ {"supersede"} =>
            /\ pc[p] \in TxnSteps \ {"supersede"}
            /\ response'[p].superseded = response[p].superseded
      <4>1. response[p] \in Response
        BY DEF IInv, TypeOK
      <4>2. QED
        BY <2>4, <4>1
           DEF Invalidate, GenerateMemoryId, InsertMemory, InsertLabels, AppendAudit, Return,
               Goto, Fail, Rollback, IInv, TypeOK, TxnSteps, Response
    <3>4. QED
      BY <3>1, <3>2, <3>3, ListingKept
  <2>5. QED
    BY <1>3, <2>1, <2>2, <2>3, <2>4 DEF Progress
<1>4. ASSUME NEW p \in Procs, DbError(p) \/ Crash(p) PROVE Listing(q)'
  <2>1. db' = db /\ req' = req /\ pc'[p] \notin TxnSteps
    BY <1>4 DEF DbError, Crash, Fail, Return, Goto, IInv, TypeOK, TxnSteps
  <2>2. q # p => pc'[q] = pc[q] /\ response'[q] = response[q]
    BY <1>4 DEF DbError, Crash, Fail, Return, Goto, IInv, TypeOK
  <2>3. QED
    BY <2>1, <2>2, ListingKept
<1>5. CASE UNCHANGED vars
  BY <1>5, ListingKept DEF vars, local
<1>6. QED
  BY <1>1, <1>2, <1>3, <1>4, <1>5 DEF Next

\* What the UPDATE has superseded is what p's transaction has superseded.
LEMMA SupersededHits ==
  ASSUME IInv, NEW p \in Procs, pc[p] = "commit"
  PROVE  Superseded(p) = Hits(db, req[p])
<1> DEFINE r == req[p]
<1>1. PICK row \in Row :
        /\ txn[p] = Settled(db, r) \union {row}
        /\ row.id \notin IdsOf(db) /\ row.status = "active"
  BY Published
<1>2. db \in SUBSET Row /\ UniqueIds(db)
  BY DEF IInv, TypeOK, CommittedOK
<1>3. ASSUME NEW m \in Superseded(p)
      PROVE  m \in Hits(db, r)
  <2>1. m \in db /\ m.status = "active" /\ \E o \in txn[p] : o.id = m.id /\ o.status = "superseded"
    BY DEF Superseded
  <2>2. PICK o \in Settled(db, r) : o.id = m.id /\ o.status = "superseded"
    BY <1>1, <2>1
  <2>3. PICK k \in db : o.id = k.id /\ (o.status # k.status => Supersedes(r, k) \/ o.status = "invalidated")
    BY <1>2, SettledRow
  <2>4. k = m
    BY <1>2, <2>1, <2>2, <2>3 DEF UniqueIds
  <2>5. QED
    BY <2>1, <2>2, <2>3, <2>4 DEF Hits
<1>4. ASSUME NEW m \in Hits(db, r)
      PROVE  m \in Superseded(p)
  <2>1. m \in db /\ Supersedes(r, m) /\ SameKey(m, r) /\ m.status = "active"
        /\ r.kind # "discovered_constraint"
    BY DEF Hits, Supersedes, SupersedingKinds
  <2> DEFINE o == [m EXCEPT !.status = "superseded"]
  <2>2. o \in SupersedeForKind(db, r) /\ ~InvalidatedBy(r, o)
    BY <2>1 DEF SupersedeForKind, InvalidatedBy, Invalidates
  <2>3. o.id = m.id /\ o.status = "superseded"
    BY <1>2, <2>1, StatusOnly DEF Statuses
  <2> HIDE DEF o
  <2>4. o \in Settled(db, r)
    BY <2>2 DEF Settled, InvalidateConstraints
  <2>5. QED
    BY <1>1, <2>1, <2>3, <2>4 DEF Superseded
<1>5. QED
  BY <1>3, <1>4

(***************************************************************************)
(* The ids of a SELECT that returns as many rows as the UPDATE has hit are *)
(* those it has hit, unless an earlier row is as new as one of them.       *)
(***************************************************************************)
LEMMA ListedAreHit ==
  ASSUME NEW rows \in SUBSET Row, IsFiniteSet(rows), UniqueIds(rows), NEW r,
         NEW listed \in Newest(SupersededNow(rows, r), Cardinality(Hits(rows, r)))
  PROVE  \/ IdsOf(listed) = IdsOf(Hits(rows, r))
         \/ /\ Cardinality(IdsOf(listed)) = Cardinality(Hits(rows, r))
            /\ \E o \in rows, m \in Hits(rows, r) :
                 SameKey(o, r) /\ o.status = "superseded" /\ o.created >= m.created
<1> DEFINE sup  == SupersedeForKind(rows, r)
           now1 == SupersededNow(rows, r)
           hits == Hits(rows, r)
<1>1. /\ sup \in SUBSET Row /\ IsFiniteSet(sup) /\ UniqueIds(sup)
  BY SupersedeKeeps
<1>2. /\ now1 \in SUBSET sup /\ now1 \in SUBSET Row /\ IsFiniteSet(now1) /\ UniqueIds(now1)
  BY <1>1, FS_Subset DEF SupersededNow, UniqueIds
<1>3. /\ hits \in SUBSET rows /\ IsFiniteSet(hits) /\ UniqueIds(hits) /\ Cardinality(hits) \in Nat
  <2>1. hits \in SUBSET rows
    BY DEF Hits
  <2>2. QED
    BY <2>1, FS_Subset, FS_CardinalityType DEF UniqueIds
\* Every row that was hit is superseded now, under its id and its timestamp.
<1>4. ASSUME NEW m \in hits
      PROVE  \E n \in now1 : n.id = m.id /\ n.created = m.created
  <2> DEFINE n == [m EXCEPT !.status = "superseded"]
  <2>1. m \in rows /\ m \in Row /\ Supersedes(r, m) /\ SameKey(m, r)
    BY DEF Hits, Supersedes
  <2>2. n \in sup
    BY <2>1 DEF SupersedeForKind
  <2>3. /\ n.id = m.id /\ n.created = m.created /\ n.status = "superseded"
        /\ n.project = m.project /\ n.task = m.task /\ n.kind = m.kind
    BY <2>1, StatusOnly DEF Statuses
  <2>4. n \in now1
    BY <2>1, <2>2, <2>3 DEF SupersededNow, SameKey
  <2> HIDE DEF n
  <2>5. QED
    BY <2>3, <2>4
\* The other rows superseded now were so before.
<1>5. ASSUME NEW n \in now1, n.id \notin IdsOf(hits)
      PROVE  n \in rows /\ SameKey(n, r) /\ n.status = "superseded"
  <2>1. n \in sup /\ SameKey(n, r) /\ n.status = "superseded"
    BY DEF SupersededNow
  <2>2. PICK o \in rows : n = IF Supersedes(r, o) THEN [o EXCEPT !.status = "superseded"] ELSE o
    BY <2>1 DEF SupersedeForKind
  <2>3. ~Supersedes(r, o)
    <3>1. ASSUME Supersedes(r, o) PROVE FALSE
      <4>1. n.id = o.id /\ o \in hits
        BY <2>2, <3>1, StatusOnly DEF Hits, Statuses
      <4>2. QED
        BY <1>5, <4>1 DEF IdsOf
    <3>2. QED
      BY <3>1
  <2>4. QED
    BY <2>1, <2>2, <2>3
<1>6. IdsOf(hits) \subseteq IdsOf(now1)
  BY <1>4 DEF IdsOf
<1>7. Cardinality(hits) <= Cardinality(now1)
  <2>1. /\ IsFiniteSet(IdsOf(now1)) /\ Cardinality(IdsOf(now1)) = Cardinality(now1)
        /\ IsFiniteSet(IdsOf(hits)) /\ Cardinality(IdsOf(hits)) = Cardinality(hits)
    BY <1>2, <1>3, IdsCount
  <2>2. QED
    BY <1>6, <2>1, FS_Subset
<1> HIDE DEF sup, now1, hits
<1>8. /\ listed \subseteq now1 /\ IsFiniteSet(listed) /\ Cardinality(listed) = Cardinality(hits)
      /\ \A m \in listed, o \in now1 \ listed : m.created >= o.created
  <2>1. listed \in Newest(now1, Cardinality(hits))
    BY DEF now1, hits
  <2>2. \A m \in listed, o \in now1 \ listed : m.created >= o.created
    BY <2>1 DEF Newest
  <2>3. QED
    BY <1>2, <1>3, <1>7, <2>1, <2>2, NewestSize
<1>9. /\ IsFiniteSet(IdsOf(listed)) /\ Cardinality(IdsOf(listed)) = Cardinality(hits)
      /\ IsFiniteSet(IdsOf(hits)) /\ Cardinality(IdsOf(hits)) = Cardinality(hits)
  <2>1. UniqueIds(listed)
    BY <1>2, <1>8 DEF UniqueIds
  <2>2. QED
    BY <1>3, <1>8, <2>1, IdsCount
<1>10. ASSUME IdsOf(listed) # IdsOf(hits)
       PROVE  \E o \in rows, m \in hits :
                SameKey(o, r) /\ o.status = "superseded" /\ o.created >= m.created
  <2>1. ~(IdsOf(listed) \subseteq IdsOf(hits)) /\ ~(IdsOf(hits) \subseteq IdsOf(listed))
    BY <1>9, <1>10, FS_Subset
  <2>2. PICK o \in listed : o.id \notin IdsOf(hits)
    BY <2>1 DEF IdsOf
  <2>3. PICK m \in hits : m.id \notin IdsOf(listed)
    BY <2>1 DEF IdsOf
  <2>4. PICK n \in now1 : n.id = m.id /\ n.created = m.created
    BY <1>4, <2>3
  <2>5. n \notin listed
    BY <2>3, <2>4 DEF IdsOf
  <2>6. o.created >= m.created
    BY <1>8, <2>2, <2>4, <2>5
  <2>7. o \in rows /\ SameKey(o, r) /\ o.status = "superseded"
    BY <1>5, <1>8, <2>2
  <2>8. QED
    BY <2>6, <2>7
<1>11. QED
  BY <1>9, <1>10 DEF hits

\* The history changes nothing of MemoryStore.
LEMMA HistoryIsStore == HSpec => Spec
<1>1. HInit => Init
  BY DEF HInit
<1>2. [HNext]_hvars => [Next]_vars
  BY DEF HNext, hvars
<1>3. QED
  BY <1>1, <1>2, PTL DEF HSpec, Spec

(***************************************************************************)
(* At COMMIT the response lists exactly the rows this store has            *)
(* superseded, unless a row superseded earlier is as new as one of them.   *)
(***************************************************************************)
THEOREM ResponsesAreTrue == HSpec => []SupersededReported
<1>1. Init => \A p \in Procs : Listing(p)
  BY DEF Init, Listing, TxnSteps
<1>2. IInv /\ (\A p \in Procs : Listing(p)) /\ [Next]_vars => (\A p \in Procs : Listing(p))'
  BY ListingKeeps
<1>3. IInv /\ (\A p \in Procs : Listing(p)) => SupersededReported
  <2>1. SUFFICES ASSUME IInv, NEW p \in Procs, Listing(p), pc[p] = "commit"
                 PROVE  \/ response[p].superseded = IdsOf(Superseded(p))
                        \/ /\ Cardinality(response[p].superseded) = Cardinality(Superseded(p))
                           /\ \E o \in Earlier(p), m \in Superseded(p) : o.created >= m.created
    BY DEF SupersededReported
  <2>2. PICK listed \in Newest(SupersededNow(db, req[p]), Cardinality(Hits(db, req[p]))) :
          response[p].superseded = IdsOf(listed)
    BY <2>1 DEF Listing, TxnSteps
  <2>3. db \in SUBSET Row /\ IsFiniteSet(db) /\ UniqueIds(db)
    BY <2>1 DEF IInv, TypeOK, CommittedOK
  <2>4. \/ IdsOf(listed) = IdsOf(Hits(db, req[p]))
        \/ /\ Cardinality(IdsOf(listed)) = Cardinality(Hits(db, req[p]))
           /\ \E o \in db, m \in Hits(db, req[p]) :
                SameKey(o, req[p]) /\ o.status = "superseded" /\ o.created >= m.created
    BY <2>2, <2>3, ListedAreHit
  <2>5. Superseded(p) = Hits(db, req[p])
    BY <2>1, SupersededHits
  <2>6. QED
    BY <2>2, <2>4, <2>5 DEF Earlier
<1>4. QED
  BY <1>1, <1>2, <1>3, HistoryIsStore, Invariance, PTL DEF Spec

-----------------------------------------------------------------------------
(***************************************************************************)
(* What the check found hidden stays hidden: what it selected from is      *)
(* remembered, and those memories are only retired until the call ends.    *)
(***************************************************************************)
PastCheck == {"stamp", "begin"} \union TxnSteps

\* m would be a duplicate of the request, were it among the candidates.
Alike(r, m) ==
  /\ m.status = "active" /\ m.embedded
  /\ m.project = r.project /\ m.kind = r.kind
  /\ <<r.content, m.content>> \in Similar

ClockInv ==
  /\ \A m \in db : m.created <= clock
  /\ \A p \in Procs : now[p] <= clock

HistoryOf(p) ==
  /\ \A o \in seen[p] : \E m \in db : Retired(m, o)
  /\ pc[p] \in PastCheck =>
       \A m \in seen[p] : Alike(req[p], m) => Cardinality(AsNew(seen[p], m)) > DedupCap
  /\ pc[p] \in PastCheck \ {"stamp"} => \A m \in seen[p] : m.created <= now[p]

HInv ==
  /\ ClockInv
  /\ seen \in [Procs -> SUBSET Row]
  /\ \A p \in Procs : HistoryOf(p)

\* How the committed rows may change: the old ones remain, some of them
\* retired; a new one has an id of its own and a timestamp that has been.
Grows ==
  /\ \A o \in db : \E m \in db' : Retired(m, o)
  /\ \A m \in db' :
       \/ m.id \notin IdsOf(db) /\ m.created <= clock
       \/ \E o \in db : Retired(m, o)

LEMMA StepGrows ==
  ASSUME IInv, ClockInv, [Next]_vars
  PROVE  Grows
<1>1. db \in SUBSET Row
  BY DEF IInv, TypeOK
<1>2. CASE db' = db
  BY <1>1, <1>2, RetiredRow DEF Grows
<1>3. CASE db' # db
  <2>1. PICK p \in Procs : Commit(p)
    BY <1>3, OnlyCommitChanges
  <2>2. db' = txn[p] /\ pc[p] = "commit"
    BY <2>1 DEF Commit
  <2>3. PICK emb \in BOOLEAN :
          txn[p] = Settled(db, req[p])
                     \union {NewRow(response[p].id, req[p], emb, now[p], req[p].labels)}
    BY <2>2 DEF IInv, TxnOf
  <2>4. response[p].id \notin IdsOf(db)
    BY <2>2 DEF IInv, TxnOf
  <2>5. ASSUME NEW m \in Settled(db, req[p])
        PROVE  \E o \in db : Retired(m, o)
    BY <1>1, SettledRow
  <2>6. \A labels, emb1 : LET n == NewRow(response[p].id, req[p], emb1, now[p], labels)
                          IN  n.id = response[p].id /\ n.created = now[p]
    BY DEF NewRow
  <2>7. ASSUME NEW m \in db'
        PROVE  \/ m.id \notin IdsOf(db) /\ m.created <= clock
               \/ \E o \in db : Retired(m, o)
    BY <2>2, <2>3, <2>4, <2>5, <2>6 DEF ClockInv
  <2>8. \A o \in db : \E m \in db' : Retired(m, o)
    BY <2>2, Published
  <2>9. QED
    BY <2>7, <2>8 DEF Grows
<1>4. QED
  BY <1>2, <1>3

\* A retired row keeps what the two lemmas below speak of.
LEMMA RetiredSame ==
  ASSUME NEW o \in Row, NEW m, Retired(m, o)
  PROVE  /\ m.id = o.id /\ m.created = o.created
         /\ m.project = o.project /\ m.kind = o.kind
         /\ m.status = "active" => m = o
<1>1. PICK s \in Statuses : m = [o EXCEPT !.status = s]
  BY DEF Retired
<1>2. m.status = s
  BY <1>1, StatusOnly
<1>3. m.status = "active" => o.status = "active"
  BY DEF Retired
<1>4. o = [o EXCEPT !.status = o.status]
  BY DEF Row
<1>5. QED
  BY <1>1, <1>2, <1>3, <1>4, StatusOnly

\* A row that was there at the check and is active now has not changed.
LEMMA SeenActive ==
  ASSUME IInv, HInv, NEW p \in Procs, NEW m \in db, m.id \in IdsOf(seen[p])
  PROVE  \E o \in seen[p] : /\ o.id = m.id /\ o.created = m.created
                            /\ m.status = "active" => o = m
<1>1. PICK o \in seen[p] : o.id = m.id
  BY DEF IdsOf
<1>2. o \in Row /\ m \in Row /\ db \in SUBSET Row
  BY <1>1 DEF HInv, IInv, TypeOK
<1>3. PICK n \in db : Retired(n, o)
  BY <1>1 DEF HInv, HistoryOf
<1>4. /\ n.id = o.id /\ n.created = o.created
      /\ n.status = "active" => n = o
  BY <1>2, <1>3, RetiredSame
<1>5. n = m
  BY <1>1, <1>3, <1>4 DEF IInv, CommittedOK, UniqueIds
<1>6. QED
  BY <1>1, <1>4, <1>5

(***************************************************************************)
(* The rows a check has not looked at, although they were in its pool, are *)
(* hidden by newer ones.                                                   *)
(***************************************************************************)
LEMMA UnseenAreHidden ==
  ASSUME IInv, NEW r, NEW pool \in Newest(DedupPool(db, r), DedupCap),
         NEW m \in DedupPool(db, r), m \notin pool
  PROVE  Cardinality(AsNew(db, m)) > DedupCap
<1> DEFINE cands == DedupPool(db, r)
           hiding == AsNew(db, m)
<1>1. db \in SUBSET Row /\ IsFiniteSet(db) /\ DedupCap \in Nat
  BY NumbersAssumption DEF IInv, TypeOK, CommittedOK
<1>2. cands \in SUBSET db /\ IsFiniteSet(cands) /\ Cardinality(cands) \in Nat
  <2>1. cands \in SUBSET db
    BY DEF DedupPool
  <2>2. QED
    BY <1>1, <2>1, FS_Subset, FS_CardinalityType
<1>3. /\ pool \subseteq cands /\ IsFiniteSet(pool)
      /\ Cardinality(pool) = IF DedupCap <= Cardinality(cands) THEN DedupCap ELSE Cardinality(cands)
  BY <1>1, <1>2, NewestSize
<1>4. Cardinality(pool) = DedupCap
  <2>1. Cardinality(pool) = Cardinality(cands) => pool = cands
    BY <1>2, <1>3, FS_Subset
  <2>2. QED
    BY <1>1, <1>2, <1>3, <2>1
<1>5. pool \union {m} \subseteq hiding
  <2>1. \A o \in pool : o.created >= m.created
    BY DEF Newest
  <2>2. m.created >= m.created
    BY <1>1, <1>2 DEF Row
  <2>3. QED
    BY <1>2, <1>3, <2>1, <2>2 DEF AsNew, DedupPool
<1>6. IsFiniteSet(hiding)
  <2>1. hiding \in SUBSET db
    BY DEF AsNew
  <2>2. QED
    BY <1>1, <2>1, FS_Subset
<1>7. Cardinality(pool \union {m}) = DedupCap + 1
  BY <1>3, <1>4, FS_AddElement
<1>8. Cardinality(hiding) \in Nat /\ Cardinality(pool \union {m}) <= Cardinality(hiding)
  BY <1>5, <1>6, FS_Subset, FS_CardinalityType
<1>9. QED
  BY <1>1, <1>7, <1>8

(***************************************************************************)
(* How a call passes from the check to COMMIT, whoever takes the step: by  *)
(* the check, by taking its timestamp, or with nothing changed that        *)
(* HistoryOf speaks of.                                                    *)
(***************************************************************************)
Checks(q) ==
  /\ pc[q] = "dedup" /\ pc'[q] = "stamp"
  /\ db' = db /\ req'[q] = req[q]
  /\ \E pool \in Newest(DedupPool(db, req[q]), DedupCap) :
       \A m \in pool : <<req[q].content, m.content>> \notin Similar
Stamps(q) ==
  /\ pc[q] = "stamp" /\ pc'[q] = "begin"
  /\ db' = db /\ req'[q] = req[q] /\ now'[q] = clock
Stays(q) ==
  /\ pc[q] \in PastCheck
  /\ (pc'[q] = "stamp") <=> (pc[q] = "stamp")
  /\ pc'[q] # "idle"
  /\ req'[q] = req[q] /\ now'[q] = now[q]

Flow(q) ==
  /\ pc'[q] \notin PastCheck \/ Checks(q) \/ Stamps(q) \/ Stays(q)
  /\ now'[q] \in {now[q], clock}

LEMMA ProgressFlow ==
  ASSUME IInv, NEW p \in Procs, Progress(p), NEW q \in Procs
  PROVE  Flow(q)
<1>1. /\ req' = req
      /\ q # p => pc'[q] = pc[q] /\ now'[q] = now[q]
  BY DEF Progress, Arbitrate, CheckDuplicate, TakeNow, BeginImmediate, BeginLocked, Supersede,
         Invalidate, GenerateMemoryId, InsertMemory, InsertLabels, Commit, AppendAudit,
         Return, Fail, Goto, IInv, TypeOK
<1>2. CASE q # p
  BY <1>1, <1>2 DEF Flow, Stays, PastCheck, TxnSteps
<1>3. CASE q = p
  <2>1. CASE CheckDuplicate(p)
    <3>1. pc[p] = "dedup" /\ UNCHANGED <<db, req, now>>
      BY <2>1 DEF CheckDuplicate
    <3>2. CASE Return(p, "raised") \/ Return(p, "rejected")
      BY <1>3, <3>1, <3>2 DEF Return, Goto, IInv, TypeOK, Flow, PastCheck, TxnSteps
    <3>3. CASE ~Return(p, "raised") /\ ~Return(p, "rejected")
      <4>1. PICK pool \in Newest(DedupPool(db, req[p]), DedupCap) :
              /\ ~(\E m \in pool : <<req[p].content, m.content>> \in Similar)
              /\ Goto(p, "stamp")
        BY <2>1, <3>3 DEF CheckDuplicate
      <4>2. \A m \in pool : <<req[p].content, m.content>> \notin Similar
        BY <4>1
      <4>3. pc'[p] = "stamp"
        BY <4>1 DEF Goto, IInv, TypeOK
      <4>4. QED
        BY <1>3, <3>1, <4>2, <4>3 DEF Flow, Checks
    <3>4. QED
      BY <3>2, <3>3
  <2>2. CASE TakeNow(p)
    BY <1>3, <2>2 DEF TakeNow, Goto, IInv, TypeOK, Flow, Stamps
  <2>3. CASE Arbitrate(p) \/ Commit(p) \/ AppendAudit(p)
    BY <1>3, <2>3 DEF Arbitrate, Commit, AppendAudit, Return, Goto, IInv, TypeOK, Flow,
                      PastCheck, TxnSteps
  <2>4. CASE BeginImmediate(p) \/ BeginLocked(p) \/ Supersede(p)
    BY <1>3, <2>4 DEF BeginImmediate, BeginLocked, Supersede, Fail, Goto, IInv, TypeOK,
                      Flow, Stays, PastCheck, TxnSteps
  <2>5. CASE Invalidate(p) \/ GenerateMemoryId(p) \/ InsertMemory(p) \/ InsertLabels(p)
    BY <1>3, <2>5 DEF Invalidate, GenerateMemoryId, InsertMemory, InsertLabels, Return, Fail,
                      Goto, IInv, TypeOK, Flow, Stays, PastCheck, TxnSteps
  <2>6. QED
    BY <2>1, <2>2, <2>3, <2>4, <2>5 DEF Progress
<1>4. QED
  BY <1>2, <1>3

LEMMA StepFlow ==
  ASSUME IInv, [Next]_vars, NEW q \in Procs
  PROVE  Flow(q) /\ clock' >= clock
<1>1. clock \in Nat
  BY NumbersAssumption DEF IInv, TypeOK
<1>2. CASE Tick \/ UNCHANGED vars
  BY <1>1, <1>2 DEF Tick, vars, local, Flow, Stays, PastCheck, TxnSteps
<1>3. ASSUME NEW p \in Procs, NEW r \in Requests, Call(p, r)
      PROVE  Flow(q) /\ clock' >= clock
  <2>1. clock' = clock /\ now' = now
    BY <1>3 DEF Call
  <2>2. CASE q = p
    BY <1>3, <2>1, <2>2 DEF Call, Goto, IInv, TypeOK, Flow, PastCheck, TxnSteps
  <2>3. CASE q # p
    BY <1>3, <2>1, <2>3 DEF Call, Goto, IInv, TypeOK, Flow, Stays, PastCheck, TxnSteps
  <2>4. QED
    BY <1>1, <2>1, <2>2, <2>3
<1>4. ASSUME NEW p \in Procs, Progress(p)
      PROVE  Flow(q) /\ clock' >= clock
  <2>1. clock' = clock
    BY <1>4 DEF Progress, Arbitrate, CheckDuplicate, TakeNow, BeginImmediate, BeginLocked,
                Supersede, Invalidate, GenerateMemoryId, InsertMemory, InsertLabels, Commit,
                AppendAudit
  <2>2. QED
    BY <1>1, <1>4, <2>1, ProgressFlow
<1>5. ASSUME NEW p \in Procs, DbError(p) \/ Crash(p)
      PROVE  Flow(q) /\ clock' >= clock
  <2>1. UNCHANGED <<clock, now, req>>
    BY <1>5 DEF DbError, Crash
  <2>2. CASE q = p
    BY <1>5, <2>1, <2>2 DEF DbError, Crash, Fail, Return, Goto, IInv, TypeOK, Flow, PastCheck,
                            TxnSteps
  <2>3. CASE q # p
    BY <1>5, <2>1, <2>3 DEF DbError, Crash, Fail, Return, Goto, IInv, TypeOK, Flow, Stays,
                            PastCheck, TxnSteps
  <2>4. QED
    BY <1>1, <2>1, <2>2, <2>3
<1>6. QED
  BY <1>2, <1>3, <1>4, <1>5 DEF Next

\* What is remembered of a call.
LEMMA Remembered ==
  ASSUME HInv, [HNext]_hvars, NEW q \in Procs
  PROVE  /\ seen'[q] \in {db, {}, seen[q]}
         /\ Checks(q) => seen'[q] = db
         /\ Stamps(q) \/ Stays(q) => seen'[q] = seen[q]
<1>1. CASE UNCHANGED hvars
  BY <1>1 DEF hvars, vars, local, Checks, Stamps, Stays
<1>2. CASE Remember
  BY <1>2 DEF Remember, Checks, Stamps, Stays, PastCheck, TxnSteps
<1>3. QED
  BY <1>1, <1>2 DEF HNext

LEMMA HistoryKept ==
  ASSUME IInv, IInv', HInv, [HNext]_hvars, Grows, NEW q \in Procs, Flow(q)
  PROVE  HistoryOf(q)'
<1>1. /\ seen'[q] \in {db, {}, seen[q]}
      /\ Checks(q) => seen'[q] = db
      /\ Stamps(q) \/ Stays(q) => seen'[q] = seen[q]
  BY Remembered
<1>2. db \in SUBSET Row /\ db' \in SUBSET Row /\ seen[q] \in SUBSET Row
  BY DEF IInv, TypeOK, HInv
<1>3. HistoryOf(q)
  BY DEF HInv
<1>4. ASSUME NEW o \in seen'[q]
      PROVE  \E m \in db' : Retired(m, o)
  <2>1. PICK n \in db : Retired(n, o)
    <3>1. CASE o \in db
      BY <1>2, <3>1, RetiredRow
    <3>2. CASE o \in seen[q]
      BY <1>3, <3>2 DEF HistoryOf
    <3>3. QED
      BY <1>1, <1>4, <3>1, <3>2
  <2>2. PICK m \in db' : Retired(m, n)
    BY <2>1 DEF Grows
  <2>3. o \in Row
    BY <1>1, <1>2, <1>4
  <2>4. QED
    BY <1>2, <2>1, <2>2, <2>3, RetiredTwice
<1>5. ASSUME pc'[q] \in PastCheck, NEW m \in seen'[q], Alike(req'[q], m)
      PROVE  Cardinality(AsNew(seen'[q], m)) > DedupCap
  <2>1. req'[q] = req[q] /\ (Checks(q) \/ Stamps(q) \/ Stays(q))
    BY <1>5 DEF Flow, Checks, Stamps, Stays
  <2>2. CASE Checks(q)
    <3>1. PICK pool \in Newest(DedupPool(db, req[q]), DedupCap) :
            \A o \in pool : <<req[q].content, o.content>> \notin Similar
      BY <2>2 DEF Checks
    <3>2. m \in DedupPool(db, req[q]) /\ m \notin pool
      BY <1>1, <1>5, <2>1, <2>2, <3>1 DEF Alike, DedupPool
    <3>3. Cardinality(AsNew(db, m)) > DedupCap
      BY <3>2, UnseenAreHidden
    <3>4. QED
      BY <1>1, <2>2, <3>3
  <2>3. CASE Stamps(q) \/ Stays(q)
    BY <1>1, <1>3, <1>5, <2>1, <2>3 DEF HistoryOf, Stamps, Stays, PastCheck
  <2>4. QED
    BY <2>1, <2>2, <2>3
<1>6. ASSUME pc'[q] \in PastCheck \ {"stamp"}, NEW m \in seen'[q]
      PROVE  m.created <= now'[q]
  <2>1. Stamps(q) \/ Stays(q)
    BY <1>6 DEF Flow, Checks
  <2>2. m \in seen[q]
    BY <1>1, <1>6, <2>1
  <2>3. CASE Stamps(q)
    <3>1. PICK o \in db : Retired(o, m)
      BY <1>3, <2>2 DEF HistoryOf
    <3>2. o.created = m.created
      BY <1>2, <2>2, <3>1, RetiredSame
    <3>3. QED
      BY <2>3, <3>1, <3>2 DEF Stamps, HInv, ClockInv
  <2>4. CASE Stays(q)
    BY <1>3, <1>6, <2>2, <2>4 DEF Stays, HistoryOf
  <2>5. QED
    BY <2>1, <2>3, <2>4
<1>7. QED
  BY <1>4, <1>5, <1>6 DEF HistoryOf

LEMMA ClockKept ==
  ASSUME IInv, IInv', HInv, Grows, clock' >= clock, \A q \in Procs : Flow(q)
  PROVE  ClockInv'
<1>1. /\ db \in SUBSET Row /\ clock \in Nat /\ clock' \in Nat
      /\ \A p \in Procs : now[p] \in Nat
      /\ db' \in SUBSET Row
  BY NumbersAssumption DEF IInv, TypeOK
<1>2. ASSUME NEW m \in db'
      PROVE  m.created <= clock'
  <2>1. m.created <= clock
    <3>1. CASE \E o \in db : Retired(m, o)
      <4>1. PICK o \in db : Retired(m, o)
        BY <3>1
      <4>2. m.created = o.created
        BY <1>1, <4>1, RetiredSame
      <4>3. QED
        BY <4>2 DEF HInv, ClockInv
    <3>2. QED
      BY <3>1 DEF Grows
  <2>2. m.created \in Nat
    BY <1>1 DEF Row
  <2>3. QED
    BY <1>1, <2>1, <2>2
<1>3. ASSUME NEW p \in Procs
      PROVE  now'[p] <= clock'
  BY <1>1 DEF Flow, HInv, ClockInv
<1>4. QED
  BY <1>2, <1>3 DEF ClockInv

LEMMA HistoryStep ==
  ASSUME IInv, HInv, [HNext]_hvars
  PROVE  HInv'
<1>1. [Next]_vars
  BY DEF HNext, hvars
<1>2. IInv' /\ Grows
  BY <1>1, StepKeeps, StepGrows DEF HInv
<1>3. \A q \in Procs : Flow(q) /\ clock' >= clock
  BY <1>1, StepFlow
<1>4. ClockInv'
  <2>1. CASE Procs = {}
    <3>1. UNCHANGED db /\ clock \in Nat /\ clock' \in Nat /\ (clock' = clock \/ clock' = clock + 1)
      BY <1>1, <2>1, <1>2, NumbersAssumption DEF Next, Tick, vars, IInv, TypeOK
    <3>2. \A m \in db : m.created \in Nat
      BY DEF IInv, TypeOK, Row
    <3>3. QED
      BY <2>1, <3>1, <3>2 DEF HInv, ClockInv
  <2>2. CASE Procs # {}
    BY <1>2, <1>3, <2>2, ClockKept
  <2>3. QED
    BY <2>1, <2>2
<1>5. \A q \in Procs : HistoryOf(q)'
  BY <1>2, <1>3, HistoryKept
<1>6. seen' \in [Procs -> SUBSET Row]
  <2>1. db \in SUBSET Row
    BY DEF IInv, TypeOK
  <2>2. CASE Remember
    BY <2>1, <2>2 DEF Remember, HInv
  <2>3. CASE UNCHANGED hvars
    BY <2>3 DEF hvars, HInv
  <2>4. QED
    BY <2>2, <2>3 DEF HNext
<1>7. QED
  BY <1>4, <1>5, <1>6 DEF HInv

LEMMA InitHInv == HInit => HInv
<1> SUFFICES ASSUME HInit PROVE HInv
  OBVIOUS
<1>1. Init /\ seen = [p \in Procs |-> {}]
  BY DEF HInit
<1>2. QED
  BY <1>1 DEF Init, HInv, ClockInv, HistoryOf, PastCheck, TxnSteps

\* HInv is an invariant of MemoryStoreHistory.
THEOREM HistoryInvariance == HSpec => [](IInv /\ HInv)
<1>1. HInit => HInv
  BY InitHInv
<1>2. IInv /\ HInv /\ [HNext]_hvars => HInv'
  BY HistoryStep
<1>3. HSpec => []IInv
  BY HistoryIsStore, Invariance
<1>4. QED
  BY <1>1, <1>2, <1>3, PTL DEF HSpec

(***************************************************************************)
(* Although the duplicate check runs before the write lock is taken, a     *)
(* store makes an active near-duplicate only of a memory that was          *)
(* committed after the check, that DEDUP_MAX_CANDIDATES other candidates   *)
(* hid from the check, or that has no embedding.                           *)
(***************************************************************************)
THEOREM DuplicatesMustOverlap == HSpec => DuplicatesOverlap
<1> DEFINE Step == \A p \in Procs : Commits(p) =>
                     \A m \in db \intersect db' :
                       /\ m.status = "active" /\ m.embedded
                       /\ m.project = req[p].project /\ m.kind = req[p].kind
                       /\ <<req[p].content, m.content>> \in Similar
                       => m.id \notin IdsOf(seen[p]) \/ Cardinality(AsNew(seen[p], m)) > DedupCap
<1>1. IInv /\ HInv => Step
  <2>1. SUFFICES ASSUME IInv, HInv, NEW p \in Procs, Commits(p), NEW m \in db,
                        Alike(req[p], m), m.id \in IdsOf(seen[p])
                 PROVE  Cardinality(AsNew(seen[p], m)) > DedupCap
    BY DEF Alike
  <2>2. m \in seen[p]
    BY <2>1, SeenActive DEF Alike
  <2>3. QED
    BY <2>1, <2>2 DEF HInv, HistoryOf, Commits, PastCheck, TxnSteps
<1>2. IInv /\ HInv => [Step]_hvars
  BY <1>1
<1> HIDE DEF Step
<1>3. HSpec => [][Step]_hvars
  BY <1>2, HistoryInvariance, PTL
<1>4. QED
  BY <1>3 DEF DuplicatesOverlap, Step

(***************************************************************************)
(* Although the timestamp of a row is taken before the write lock, a store *)
(* retires a row newer than its own only when that row was committed after *)
(* its duplicate check.                                                    *)
(***************************************************************************)
THEOREM DisorderMustOverlap == HSpec => DisorderOverlaps
<1> DEFINE Step == \A p \in Procs : Commits(p) =>
                     \A m \in db \ db' :
                       SameKey(m, req[p]) /\ m.created > now[p] => m.id \notin IdsOf(seen[p])
<1>1. IInv /\ HInv => Step
  <2>1. SUFFICES ASSUME IInv, HInv, NEW p \in Procs, Commits(p), NEW m \in db,
                        m.created > now[p], m.id \in IdsOf(seen[p])
                 PROVE  FALSE
    OBVIOUS
  <2>2. PICK o \in seen[p] : o.created = m.created
    BY <2>1, SeenActive
  <2>3. o.created <= now[p]
    BY <2>1, <2>2 DEF HInv, HistoryOf, Commits, PastCheck, TxnSteps
  <2>4. m.created \in Nat /\ now[p] \in Nat
    BY <2>1, NumbersAssumption DEF IInv, TypeOK, Row
  <2>5. QED
    BY <2>1, <2>2, <2>3, <2>4
<1>2. IInv /\ HInv => [Step]_hvars
  BY <1>1
<1> HIDE DEF Step
<1>3. HSpec => [][Step]_hvars
  BY <1>2, HistoryInvariance, PTL
<1>4. QED
  BY <1>3 DEF DisorderOverlaps, Step
=============================================================================
