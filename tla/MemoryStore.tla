----------------------------- MODULE MemoryStore -----------------------------
(***************************************************************************)
(* process_store: several processes (MCP servers, CLI calls, hooks) store  *)
(* memories in the same SQLite database, each through its own connection.  *)
(*                                                                         *)
(* SQLite in WAL mode: a transaction works on a private copy of the rows   *)
(* (txn[p]) that COMMIT publishes (db); BEGIN IMMEDIATE takes the one      *)
(* write lock (writer); a SELECT outside a transaction reads the committed *)
(* rows.  Every statement is a step of its own, so that other processes    *)
(* run, statements fail and processes die between any two of them.         *)
(***************************************************************************)
EXTENDS MemoryRows

CONSTANTS
  Procs,        \* processes, one connection each
  NoProc,       \* "nobody holds the write lock"
  ReadOnly,     \* connections that db.connect marked read-only
  Responsive,   \* processes assumed to keep running (liveness only)
  Requests,     \* the requests callers make
  LockRetries,  \* _STORE_LOCK_RETRIES
  DedupCap,     \* DEDUP_MAX_CANDIDATES
  Embeds,       \* outcomes of encode_summary inside the transaction
  DayLength,    \* ticks of the clock per date
  MaxClock,     \* bound: last instant of the clock
  MaxRows       \* bound: with this many rows no call starts that could add one

ASSUME ProcsAssumption ==
  NoProc \notin Procs /\ ReadOnly \subseteq Procs /\ Responsive \subseteq Procs
ASSUME RequestsAssumption == Requests \subseteq Request /\ Requests # {}
ASSUME NumbersAssumption ==
  /\ LockRetries \in Nat /\ DedupCap \in Nat /\ DayLength \in Nat \ {0}
  /\ MaxClock \in Nat /\ MaxRows \in Nat
ASSUME EmbedsAssumption == Embeds \subseteq BOOLEAN

VARIABLES
  db,        \* the committed rows
  writer,    \* the process that holds the write lock, or NoProc
  clock,     \* datetime.now(utc), the same for all processes
  audit,     \* the entries of audit.jsonl
  pc,        \* where each process is in process_store
  req,       \* the request of its call
  now,       \* the timestamp its call has taken
  attempts,  \* failed attempts at BEGIN IMMEDIATE
  txn,       \* the rows its transaction sees
  response   \* its StoreResponse, being filled in

local == <<pc, req, now, attempts, txn, response>>
vars == <<db, writer, clock, audit, local>>

DateOf(t) == t \div DayLength

\* The statements of the transaction, in order.
TxnSteps == {"supersede", "invalidate", "generate", "insert", "labels", "commit"}
Steps == {"idle", "arbitrate", "dedup", "stamp", "begin", "audit"} \union TxnSteps

NoId == <<0, 0>>
Outcomes == {"none", "stored", "rejected", "error", "raised", "crashed"}
Response == [status : Outcomes, id : Ids, superseded : SUBSET Ids, invalidated : Nat]
Answer(s) == [status |-> s, id |-> NoId, superseded |-> {}, invalidated |-> 0]

AuditEntry == [status : {"stored", "error"}, id : Ids]

TypeOK ==
  /\ db \subseteq Row
  /\ writer \in Procs \union {NoProc}
  /\ clock \in 0..MaxClock
  /\ audit \subseteq AuditEntry
  /\ pc \in [Procs -> Steps]
  /\ req \in [Procs -> Requests]
  /\ now \in [Procs -> 0..MaxClock]
  /\ attempts \in [Procs -> 0..LockRetries]
  /\ txn \in [Procs -> SUBSET Row]
  /\ response \in [Procs -> Response]

Init ==
  /\ db = {} /\ writer = NoProc /\ clock = 0 /\ audit = {}
  /\ pc = [p \in Procs |-> "idle"]
  /\ req = [p \in Procs |-> CHOOSE r \in Requests : TRUE]
  /\ now = [p \in Procs |-> 0]
  /\ attempts = [p \in Procs |-> 0]
  /\ txn = [p \in Procs |-> {}]
  /\ response = [p \in Procs |-> Answer("none")]

-----------------------------------------------------------------------------
Goto(p, step) == pc' = [pc EXCEPT ![p] = step]

\* The call is over: the caller has the answer, or an exception, or is dead.
Return(p, status) ==
  /\ Goto(p, "idle")
  /\ response' = [response EXCEPT ![p] = Answer(status)]

\* The transaction ends without effect: ROLLBACK, or the lock and the journal
\* of a dead process.
Rollback(p) ==
  /\ txn' = [txn EXCEPT ![p] = {}]
  /\ writer' = IF writer = p THEN NoProc ELSE writer

Call(p, r) ==
  /\ pc[p] = "idle"
  /\ Cardinality(db) < MaxRows \/ p \in ReadOnly \/ ~PassesCheapRules(r)
  /\ Goto(p, "arbitrate")
  /\ req' = [req EXCEPT ![p] = r]
  /\ response' = [response EXCEPT ![p] = Answer("none")]
  /\ UNCHANGED <<db, writer, clock, audit, now, attempts, txn>>

\* A read-only connection refuses before anything else; then the safety valve
\* raises when project and state_dir disagree; then the rules that only look
\* at the request.
Arbitrate(p) ==
  /\ pc[p] = "arbitrate"
  /\ \/ p \in ReadOnly /\ Return(p, "rejected")
     \/ p \notin ReadOnly /\ Return(p, "raised")
     \/ p \notin ReadOnly /\ ~PassesCheapRules(req[p]) /\ Return(p, "rejected")
     \/ p \notin ReadOnly /\ PassesCheapRules(req[p]) /\ Goto(p, "dedup") /\ UNCHANGED response
  /\ UNCHANGED <<db, writer, clock, audit, req, now, attempts, txn>>

\* Mutant: the LIMIT is applied before the status filter.
CheckNewestOfAll(p) ==
  /\ pc[p] = "dedup"
  /\ \/ Return(p, "raised")
     \/ \E top \in Newest({m \in db : m.project = req[p].project /\ m.kind = req[p].kind},
                           DedupCap) :
          IF \E m \in DedupPool(top, req[p]) : <<req[p].content, m.content>> \in Similar
          THEN Return(p, "rejected")
          ELSE Goto(p, "stamp") /\ UNCHANGED response
  /\ UNCHANGED <<db, writer, clock, audit, req, now, attempts, txn>>

\* Reads the committed rows: the write lock is not held yet.  The model may
\* fail to load, which raises.
CheckDuplicate(p) ==
  /\ pc[p] = "dedup"
  /\ \/ Return(p, "raised")
     \/ \E pool \in Newest(DedupPool(db, req[p]), DedupCap) :
          IF \E m \in pool : <<req[p].content, m.content>> \in Similar
          THEN Return(p, "rejected")
          ELSE Goto(p, "stamp") /\ UNCHANGED response
  /\ UNCHANGED <<db, writer, clock, audit, req, now, attempts, txn>>

\* Mutant: local time instead of UTC, in processes of two time zones.
TakeNowLocal(p) ==
  /\ pc[p] = "stamp"
  /\ Goto(p, "begin")
  /\ \E zone \in {0, 1} : zone <= clock /\ now' = [now EXCEPT ![p] = clock - zone]
  /\ attempts' = [attempts EXCEPT ![p] = 0]
  /\ UNCHANGED <<db, writer, clock, audit, req, txn, response>>

\* `now` is taken before the lock, and is the created_at of the row.
TakeNow(p) ==
  /\ pc[p] = "stamp"
  /\ Goto(p, "begin")
  /\ now' = [now EXCEPT ![p] = clock]
  /\ attempts' = [attempts EXCEPT ![p] = 0]
  /\ UNCHANGED <<db, writer, clock, audit, req, txn, response>>

\* The failure path of process_store: ROLLBACK, an error response, an entry
\* in the audit.
Fail(p) ==
  /\ Goto(p, "audit")
  /\ Rollback(p)
  /\ response' = [response EXCEPT ![p] = Answer("error")]

\* The counter is a local of _begin_immediate_with_retry.
EndAttempts(p) == attempts' = [attempts EXCEPT ![p] = 0]

\* Mutant: a deferred BEGIN, which does not take the write lock.
BeginDeferred(p) ==
  /\ pc[p] = "begin"
  /\ Goto(p, "supersede")
  /\ writer' = p
  /\ txn' = [txn EXCEPT ![p] = db]
  /\ EndAttempts(p)
  /\ UNCHANGED <<db, clock, audit, req, now, response>>

\* _begin_immediate_with_retry: the lock is free; or it is held and the
\* process backs off; or the retries are exhausted.
BeginImmediate(p) ==
  /\ pc[p] = "begin"
  /\ writer = NoProc
  /\ Goto(p, "supersede")
  /\ writer' = p
  /\ txn' = [txn EXCEPT ![p] = db]
  /\ EndAttempts(p)
  /\ UNCHANGED <<db, clock, audit, req, now, response>>

\* Mutant: the attempts are not counted.
BeginLockedUncounted(p) ==
  /\ pc[p] = "begin"
  /\ writer # NoProc
  /\ \/ /\ attempts[p] < LockRetries
        /\ UNCHANGED <<writer, pc, attempts, txn, response>>
     \/ /\ attempts[p] = LockRetries
        /\ Fail(p)
        /\ EndAttempts(p)
  /\ UNCHANGED <<db, clock, audit, req, now>>

BeginLocked(p) ==
  /\ pc[p] = "begin"
  /\ writer # NoProc
  /\ \/ /\ attempts[p] < LockRetries
        /\ attempts' = [attempts EXCEPT ![p] = @ + 1]
        /\ UNCHANGED <<writer, pc, txn, response>>
     \/ /\ attempts[p] = LockRetries
        /\ Fail(p)
        /\ EndAttempts(p)
  /\ UNCHANGED <<db, clock, audit, req, now>>

\* Mutant: the SELECT has no LIMIT.
SupersedeListingAll(p) ==
  LET r    == req[p]
      rows == SupersedeForKind(txn[p], r)
  IN
  /\ pc[p] = "supersede"
  /\ Goto(p, "invalidate")
  /\ txn' = [txn EXCEPT ![p] = rows]
  /\ response' = [response EXCEPT ![p].superseded =
                    IdsOf({m \in rows : SameKey(m, r) /\ m.status = "superseded"})]
  /\ UNCHANGED <<db, writer, clock, audit, req, now, attempts>>

\* supersede_for_kind, then the SELECT that is to name the rows it changed:
\* the newest superseded rows of that key, as many as the UPDATE counted.
Supersede(p) ==
  LET r    == req[p]
      rows == SupersedeForKind(txn[p], r)
      hits == Cardinality({m \in txn[p] : Supersedes(r, m)})
      retired == {m \in rows : SameKey(m, r) /\ m.status = "superseded"}
  IN
  /\ pc[p] = "supersede"
  /\ Goto(p, "invalidate")
  /\ txn' = [txn EXCEPT ![p] = rows]
  /\ \E listed \in Newest(retired, hits) :
       response' = [response EXCEPT ![p].superseded = IdsOf(listed)]
  /\ UNCHANGED <<db, writer, clock, audit, req, now, attempts>>

\* invalidate_constraints: an id that does not exist or names another kind
\* rolls the transaction back and rejects the store.
Invalidate(p) ==
  LET r == req[p] IN
  /\ pc[p] = "invalidate"
  /\ IF InvalidatesRefused(txn[p], r)
     THEN Rollback(p) /\ Return(p, "rejected")
     ELSE /\ Goto(p, "generate")
          /\ txn' = [txn EXCEPT ![p] = InvalidateConstraints(@, r)]
          /\ response' = [response EXCEPT ![p].invalidated =
                            Cardinality({m \in txn[p] : InvalidatedBy(r, m)})]
          /\ UNCHANGED writer
  /\ UNCHANGED <<db, clock, audit, req, now, attempts>>

GenerateMemoryId(p) ==
  /\ pc[p] = "generate"
  /\ Goto(p, "insert")
  /\ response' = [response EXCEPT ![p].id = NextId(txn[p], DateOf(now[p]))]
  /\ UNCHANGED <<db, writer, clock, audit, req, now, attempts, txn>>

\* The id is the PRIMARY KEY: an id in use fails the INSERT.  A summary that
\* cannot be encoded is stored without embedding.
InsertMemory(p) ==
  /\ pc[p] = "insert"
  /\ IF response[p].id \in IdsOf(txn[p])
     THEN Fail(p)
     ELSE /\ Goto(p, "labels")
          /\ \E emb \in Embeds :
               txn' = [txn EXCEPT ![p] =
                         @ \union {NewRow(response[p].id, req[p], emb, now[p], {})}]
          /\ UNCHANGED <<writer, response>>
  /\ UNCHANGED <<db, clock, audit, req, now, attempts>>

\* Mutant: the audit entry is written before COMMIT.
InsertLabelsAudited(p) ==
  /\ pc[p] = "labels"
  /\ Goto(p, "commit")
  /\ txn' = [txn EXCEPT ![p] =
       {IF m.id = response[p].id THEN [m EXCEPT !.labels = req[p].labels] ELSE m : m \in @}]
  /\ audit' = audit \union {[status |-> "stored", id |-> response[p].id]}
  /\ UNCHANGED <<db, writer, clock, req, now, attempts, response>>

InsertLabels(p) ==
  /\ pc[p] = "labels"
  /\ Goto(p, "commit")
  /\ txn' = [txn EXCEPT ![p] =
       {IF m.id = response[p].id THEN [m EXCEPT !.labels = req[p].labels] ELSE m : m \in @}]
  /\ UNCHANGED <<db, writer, clock, audit, req, now, attempts, response>>

Commit(p) ==
  /\ pc[p] = "commit"
  /\ Goto(p, "audit")
  /\ db' = txn[p]
  /\ txn' = [txn EXCEPT ![p] = {}]
  /\ writer' = NoProc
  /\ response' = [response EXCEPT ![p].status = "stored"]
  /\ UNCHANGED <<clock, audit, req, now, attempts>>

\* Any statement may fail (disk full, I/O error), BEGIN and COMMIT included.
DbError(p) ==
  /\ pc[p] \in TxnSteps \union {"begin"}
  /\ Fail(p)
  /\ EndAttempts(p)
  /\ UNCHANGED <<db, clock, audit, req, now>>

\* append_audit writes the entry or silently loses it; process_store returns.
AppendAudit(p) ==
  /\ pc[p] = "audit"
  /\ audit' \in {audit, audit \union {[status |-> response[p].status, id |-> response[p].id]}}
  /\ Goto(p, "idle")
  /\ UNCHANGED <<db, writer, clock, req, now, attempts, txn, response>>

Crash(p) ==
  /\ pc[p] # "idle"
  /\ Return(p, "crashed")
  /\ Rollback(p)
  /\ EndAttempts(p)
  /\ UNCHANGED <<db, clock, audit, req, now>>

Tick ==
  /\ clock < MaxClock
  /\ clock' = clock + 1
  /\ UNCHANGED <<db, writer, audit, local>>

\* The steps process_store takes by itself.
Progress(p) ==
  \/ Arbitrate(p)
  \/ CheckDuplicate(p)
  \/ TakeNow(p)
  \/ BeginImmediate(p)
  \/ BeginLocked(p)
  \/ Supersede(p)
  \/ Invalidate(p)
  \/ GenerateMemoryId(p)
  \/ InsertMemory(p)
  \/ InsertLabels(p)
  \/ Commit(p)
  \/ AppendAudit(p)

Next ==
  \/ Tick
  \/ \E p \in Procs :
       \/ \E r \in Requests : Call(p, r)
       \/ Progress(p)
       \/ DbError(p)
       \/ Crash(p)

Spec == Init /\ [][Next]_vars

\* A responsive process is never stopped for ever between two statements.
\* Nothing is assumed of the others: one may stall while it holds the lock.
FairSpec == Spec /\ \A p \in Responsive : WF_vars(Progress(p))

-----------------------------------------------------------------------------
(***************************************************************************)
(* Properties.                                                             *)
(***************************************************************************)

\* However the stores of several processes interleave, fail or die, a task
\* has at most one active status_update and one active fleet_member per
\* project: supersede and insert are one transaction under the write lock.
SingleActive == SingleActivePerTask(db)

\* The id read with SELECT MAX is still free when the row is inserted, and no
\* two committed rows share an id: the write lock covers both statements.
IdsNeverCollide ==
  /\ UniqueIds(db)
  /\ \A p \in Procs : pc[p] = "insert" => response[p].id \notin IdsOf(txn[p])

\* The rows a transaction sees are the committed rows with the statements this
\* call has executed so far and nothing else, although SQLite reads them
\* statement by statement: exactly one process, the one that holds the lock,
\* is in its transaction, and nobody else commits meanwhile.
TxnOf(p) ==
  LET r  == req[p]
      id == response[p].id
      Inserted(labels) ==
        \E emb \in BOOLEAN :
          txn[p] = Settled(db, r) \union {NewRow(id, r, emb, now[p], labels)}
  IN
  /\ writer = p <=> pc[p] \in TxnSteps
  /\ pc[p] = "supersede" => txn[p] = db
  /\ pc[p] = "invalidate" => txn[p] = SupersedeForKind(db, r)
  /\ pc[p] \in {"generate", "insert"} => txn[p] = Settled(db, r)
  /\ pc[p] = "insert" => id = NextId(txn[p], DateOf(now[p]))
  /\ pc[p] = "labels" => Inserted({})
  /\ pc[p] = "commit" => Inserted(r.labels)
  /\ pc[p] \in {"labels", "commit"} => id \in Ids \ IdsOf(db)
  /\ pc[p] \in {"generate", "insert", "labels", "commit"} =>
       ~InvalidatesRefused(SupersedeForKind(db, r), r)
Isolated == \A p \in Procs : TxnOf(p)

\* A committed memory is never lost or rewritten, and one that was superseded
\* or invalidated never becomes active again.
Durable == [][\A o \in db : \E m \in db' : Retired(m, o)]_db

\* The audit never names a memory that was not committed, whatever fails or
\* dies between COMMIT and append_audit.
AuditSound == \A e \in audit : e.status = "stored" => e.id \in IdsOf(db)

\* A call of a process that keeps running ends, even when another process
\* stalls for ever with the write lock: the retries of BEGIN are bounded.
CallEnds == \A p \in Responsive : pc[p] # "idle" ~> pc[p] = "idle"

\* Stores take effect in one indivisible step or not at all (StoreSpec): the
\* step is COMMIT, and the answer agrees with what happened.
PhaseOf(p) ==
  IF pc[p] = "idle" THEN "idle"
  ELSE IF pc[p] = "audit" /\ response[p].status = "stored" THEN "applied"
  ELSE "pending"
AnswerOf(p) == IF pc[p] = "idle" THEN response[p].status ELSE "none"

Linearized == INSTANCE StoreSpec WITH
    Rows   <- Row,
    rows   <- db,
    asked  <- req,
    phase  <- [p \in Procs |-> PhaseOf(p)],
    answer <- [p \in Procs |-> AnswerOf(p)]
ImplementsStoreSpec == Linearized!Spec
=============================================================================
