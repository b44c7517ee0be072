------------------------ MODULE MCMemoryStoreHistory ------------------------
(***************************************************************************)
(* Constant values for model checking MemoryStoreHistory.                  *)
(***************************************************************************)
EXTENDS MemoryStoreHistory, TLC

CONSTANTS p1, p2, proj, task, a, b, c

Ask(kind, content) ==
  [project |-> proj, task |-> task, kind |-> kind, content |-> content,
   labels |-> {}, invalidates |-> {}, valid |-> TRUE]

Symmetry == Permutations(Procs)

\* a and b are near-duplicates, c is like neither.
AlikeAB == {<<x, x>> : x \in Contents} \union {<<a, b>>, <<b, a>>}

\* Handoffs, which nothing supersedes, and snapshots of one task.
MCRequests ==
  {Ask("task_handoff", a), Ask("task_handoff", b), Ask("task_handoff", c),
   Ask("fleet_member", a), Ask("fleet_member", c)}
=============================================================================
