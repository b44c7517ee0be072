---------------------------- MODULE MCCrossSearch ----------------------------
(***************************************************************************)
(* Constant values for model checking CrossSearch on small instances.      *)
(***************************************************************************)
EXTENDS CrossSearch, TLC

CONSTANTS own, f1, f2

Mem(n, p, t) == [id |-> n, project |-> p, rank |-> t]

\* Two ticks to the second.  Project 1 searches from its own file, which also
\* holds a row of project 2; f1 and f2 belong to projects 2 and 3, and f2 has a
\* row of project 2 whose id the caller's file has given to another memory.
SmallMemories ==
  (own :> {Mem(1, 1, 1), Mem(2, 2, 3)}) @@
  (f1 :> {Mem(1, 2, 2), Mem(3, 2, 4)}) @@
  (f2 :> {Mem(1, 3, 5), Mem(2, 2, 1)})

\* Project 4 shares the file of project 2.
SmallRegistry == (1 :> own) @@ (2 :> f1) @@ (3 :> f2) @@ (4 :> f1)
SmallDisk == (own :> "ok") @@ (f1 :> "ok") @@ (f2 :> "ok")

FirstLinks == {<<1, 2>>}
LaterLinks == {<<3, 2>>, <<4, 3>>}

Ask(by, p, h, k, c) == [by |-> by, project |-> p, hops |-> h, top_k |-> k, cap |-> c]

SmallRequests ==
  { Ask("label", NoProject, 1, 2, NoCap), Ask("label", 1, 1, 1, 0), Ask("label", 1, 1, 3, 1),
    Ask("recent", 1, 1, 1, 9), Ask("text", 1, 2, 2, 1),
    Ask("text", 1, 2, 3, NoCap) }
=============================================================================
