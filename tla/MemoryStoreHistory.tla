------------------------- MODULE MemoryStoreHistory -------------------------
(***************************************************************************)
(* MemoryStore with a history variable: the committed memories each call   *)
(* found when it checked for duplicates.  The check, the timestamp and the *)
(* ids a response lists are read outside, or before, the write lock; the   *)
(* history says what that may cost, and that it costs nothing else.        *)
(***************************************************************************)
EXTENDS MemoryStore

VARIABLE seen   \* the committed rows check_duplicate selected from

hvars == <<vars, seen>>

HInit == Init /\ seen = [p \in Procs |-> {}]

\* Remembered from the check to the end of the call.
Remember ==
  seen' = [p \in Procs |-> IF pc[p] = "dedup" /\ pc'[p] = "stamp" THEN db
                           ELSE IF pc'[p] = "idle" THEN {}
                           ELSE seen[p]]

HNext == Next /\ Remember

HSpec == HInit /\ [][HNext]_hvars

-----------------------------------------------------------------------------
\* The step that publishes p's transaction.
Commits(p) == pc[p] = "commit" /\ response'[p].status = "stored"

\* The rows the check has to choose from that come before m, or may: active,
\* with an embedding, of its project and kind, and at least as new.
AsNew(rows, m) ==
  {o \in rows : /\ o.project = m.project /\ o.kind = m.kind
                /\ o.status = "active" /\ o.embedded
                /\ o.created >= m.created}

\* Rule #4 of the design: no active near-duplicate is stored.  One gets in
\* only beside a memory committed after the check (the calls overlap), beside
\* one that DEDUP_MAX_CANDIDATES other candidates at least as new hid from the
\* check, or beside one that has no embedding.  Rows that were retired when the
\* check ran hide nothing.
DuplicatesOverlap ==
  [][\A p \in Procs : Commits(p) =>
       \A m \in db \intersect db' :
         /\ m.status = "active" /\ m.embedded
         /\ m.project = req[p].project /\ m.kind = req[p].kind
         /\ <<req[p].content, m.content>> \in Similar
         => m.id \notin IdsOf(seen[p]) \/ Cardinality(AsNew(seen[p], m)) > DedupCap]_hvars

\* Readers order by created_at.  A store retires a row with a later created_at
\* than its own only when that row was committed after its duplicate check.
DisorderOverlaps ==
  [][\A p \in Procs : Commits(p) =>
       \A m \in db \ db' :
         SameKey(m, req[p]) /\ m.created > now[p] => m.id \notin IdsOf(seen[p])]_hvars

\* The rows p's transaction has superseded, and those that were before.
Superseded(p) ==
  {m \in db : SameKey(m, req[p]) /\ m.status = "active"
              /\ \E o \in txn[p] : o.id = m.id /\ o.status = "superseded"}
Earlier(p) == {m \in db : SameKey(m, req[p]) /\ m.status = "superseded"}

\* The response lists exactly the ids this store has superseded, unless a row
\* superseded earlier is as new as one of them: then at least as many.
SupersededReported ==
  \A p \in Procs : pc[p] = "commit" =>
    \/ response[p].superseded = IdsOf(Superseded(p))
    \/ /\ Cardinality(response[p].superseded) = Cardinality(Superseded(p))
       /\ \E o \in Earlier(p), m \in Superseded(p) : o.created >= m.created
=============================================================================
