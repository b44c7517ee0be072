---------------------------- MODULE MCMemoryStore ----------------------------
(***************************************************************************)
(* Constant values for model checking MemoryStore on small instances.      *)
(***************************************************************************)
EXTENDS MemoryStore, TLC

CONSTANTS p1, p2, proj, task, a, b, c, lab

Ask(kind, content) ==
  [project |-> proj, task |-> task, kind |-> kind, content |-> content,
   labels |-> {}, invalidates |-> {}, valid |-> TRUE]

Symmetry == Permutations(Procs)

\* Contents are near-duplicates of themselves only, or a of b as well.
Distinct == {<<x, x>> : x \in Contents}

\* Fails the cheap rules: such a call is possible in every state.
Malformed == [Ask("task_handoff", a) EXCEPT !.valid = FALSE]

\* Two snapshots of one task; two constraints, one of which invalidates
\* whatever was stored first on the first day.
MixedRequests ==
  { Ask("fleet_member", a),
    Ask("fleet_member", b),
    [Ask("discovered_constraint", a) EXCEPT !.labels = {lab}],
    [Ask("discovered_constraint", b) EXCEPT !.invalidates = {<<0, 1>>}],
    Malformed }
=============================================================================
