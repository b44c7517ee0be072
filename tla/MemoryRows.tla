----------------------------- MODULE MemoryRows -----------------------------
(***************************************************************************)
(* The rows of the `memories` table (with their `memory_labels`) and what  *)
(* the SQL statements of a store do to a set of them.  There is no state   *)
(* here: MemoryStore applies these operators inside a transaction, one     *)
(* statement at a time.                                                    *)
(*                                                                         *)
(* A memory id `mem-YYYYMMDD-NNN` is the pair <<date, sequence number>>; a *)
(* summary is a member of Contents, and Similar holds the pairs of         *)
(* contents whose embeddings have a cosine similarity of 0.90 or more.     *)
(***************************************************************************)
EXTENDS Integers, FiniteSets, FiniteSetsExt

CONSTANTS
  Projects,   \* project ids
  Tasks,      \* task ids
  Contents,   \* summaries
  Labels,     \* namespace:value labels
  Similar     \* the near-duplicate relation on Contents

ASSUME SimilarAssumption ==
  /\ Similar \subseteq Contents \X Contents
  /\ \A c \in Contents : <<c, c>> \in Similar
  /\ \A c, d \in Contents : <<c, d>> \in Similar => <<d, c>> \in Similar

Kinds == {"task_handoff", "status_update", "discovered_constraint", "fleet_member"}
SupersedingKinds == {"status_update", "fleet_member"}
Statuses == {"active", "superseded", "invalidated"}
Ids == Nat \X Nat

Row == [id : Ids, project : Projects, task : Tasks, kind : Kinds,
        content : Contents, embedded : BOOLEAN, labels : SUBSET Labels,
        status : Statuses, created : Nat]

\* What a caller asks for.  `valid` is the verdict of the checks that only
\* look at the request itself.
Request == [project : Projects, task : Tasks, kind : Kinds,
            content : Contents, labels : SUBSET Labels,
            invalidates : SUBSET Ids, valid : BOOLEAN]

IdsOf(rows) == {m.id : m \in rows}

-----------------------------------------------------------------------------
\* ORDER BY created_at DESC LIMIT n: the possible results, since the order of
\* rows with equal timestamps is not defined.
Newest(rows, n) ==
  {top \in kSubset(Min({n, Cardinality(rows)}), rows) :
     \A m \in top, o \in rows \ top : m.created >= o.created}

\* The candidates of the duplicate check: same project, same kind, active,
\* with an embedding.
DedupPool(rows, r) ==
  {m \in rows : /\ m.project = r.project /\ m.kind = r.kind
                /\ m.status = "active" /\ m.embedded}

SameKey(m, r) ==
  m.project = r.project /\ m.task = r.task /\ m.kind = r.kind

\* Mutant: the supersede rule as it was before fleet_member had one.
SupersedesStatusOnly(r, m) ==
  r.kind = "status_update" /\ SameKey(m, r) /\ m.status = "active"

\* The rows the UPDATE of supersede_for_kind matches.
Supersedes(r, m) ==
  /\ r.kind \in SupersedingKinds
  /\ SameKey(m, r)
  /\ m.status = "active"

SupersedeForKind(rows, r) ==
  {IF Supersedes(r, m) THEN [m EXCEPT !.status = "superseded"] ELSE m : m \in rows}

\* run_arbitration_rules_cheap: each rule looks at one field of the request (its
\* length, its format, whether it is empty) and the first that fails decides.
PassesCheapRules(r) == r.valid

\* `if request.kind == "discovered_constraint" and request.invalidates`
Invalidates(r) == r.kind = "discovered_constraint" /\ r.invalidates # {}

\* Mutant: ids that do not exist are skipped.
InvalidatesKindRefused(rows, r) ==
  /\ Invalidates(r)
  /\ \E m \in rows : m.id \in r.invalidates /\ m.kind # "discovered_constraint"

\* invalidate_constraints refuses ids that do not exist
\* (invalidates_not_found) and rows of another kind (invalidates_kind_mismatch).
InvalidatesRefused(rows, r) ==
  /\ Invalidates(r)
  /\ \/ \E i \in r.invalidates : i \notin IdsOf(rows)
     \/ \E m \in rows : m.id \in r.invalidates /\ m.kind # "discovered_constraint"

\* The rows its UPDATE matches: those still active; the others are left alone.
InvalidatedBy(r, m) ==
  /\ Invalidates(r)
  /\ m.id \in r.invalidates
  /\ m.kind = "discovered_constraint"
  /\ m.status = "active"

InvalidateConstraints(rows, r) ==
  {IF InvalidatedBy(r, m) THEN [m EXCEPT !.status = "invalidated"] ELSE m : m \in rows}

\* The two UPDATEs of a store, in the order the transaction executes them.
Settled(rows, r) == InvalidateConstraints(SupersedeForKind(rows, r), r)

\* Mutant: SELECT MAX over the active rows only.
ActiveSeqsOf(rows, date) ==
  {m.id[2] : m \in {o \in rows : o.id[1] = date /\ o.status = "active"}}

\* SELECT MAX(NNN) over the ids of that date, plus one.
SeqsOf(rows, date) == {m.id[2] : m \in {o \in rows : o.id[1] = date}}

NextId(rows, date) ==
  <<date, IF SeqsOf(rows, date) = {} THEN 1 ELSE Max(SeqsOf(rows, date)) + 1>>

\* The row insert_memory writes; its labels follow with separate INSERTs.
NewRow(id, r, emb, created, labels) ==
  [id |-> id, project |-> r.project, task |-> r.task, kind |-> r.kind,
   content |-> r.content, embedded |-> emb, labels |-> labels,
   status |-> "active", created |-> created]

-----------------------------------------------------------------------------
\* What a set of committed rows is expected to satisfy.

UniqueIds(rows) == \A m, o \in rows : m.id = o.id => m = o

\* One active row at most per project, task and superseding kind.
SingleActivePerTask(rows) ==
  \A m, o \in rows :
    /\ m.kind \in SupersedingKinds
    /\ m.status = "active" /\ o.status = "active"
    /\ SameKey(m, o)
    => m = o

\* m is the same memory as o, its status unchanged or retired.
Retired(m, o) ==
  /\ \E s \in Statuses : m = [o EXCEPT !.status = s]
  /\ m.status # o.status => o.status = "active"
=============================================================================
