----------------------------- MODULE MCMigration -----------------------------
(***************************************************************************)
(* Constant values for model checking Migration on small instances.        *)
(***************************************************************************)
EXTENDS Migration, TLC

CONSTANTS p1, p2, A, B, task, a, b, c, theirs, lab

Ask(project, kind, content) ==
  [project |-> project, task |-> task, kind |-> kind, content |-> content,
   labels |-> {}, invalidates |-> {}, valid |-> TRUE]

Symmetry == Permutations(Procs)

\* Every memory mentions every project.
MentionAll == Contents \X Projects

OneWay == {<<A, B>>}
BothWays == {<<A, B>>, <<B, A>>}

Identical == {<<x, x>> : x \in Contents}

\* The source holds two snapshots of one task, one of them labelled, and a
\* handoff; nothing is stored in the target.
SourceRequests ==
  { [Ask(A, "status_update", a) EXCEPT !.labels = {lab}],
    Ask(A, "status_update", b),
    Ask(A, "task_handoff", c) }

\* Each project stores a memory of its own: on one date their ids collide.
CollidingRequests ==
  {[Ask(A, "task_handoff", a) EXCEPT !.labels = {lab}], Ask(B, "task_handoff", b)}

\* The source has all of these; the target stores one of its own, which may take
\* the id of any of them.
OneWayRequests == SourceRequests \union {Ask(B, "task_handoff", theirs)}
=============================================================================
