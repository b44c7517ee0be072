---------------------------- MODULE MCServeProcess ----------------------------
(***************************************************************************)
(* Constant values for model checking ServeProcess on small instances.     *)
(***************************************************************************)
EXTENDS ServeProcess, TLC

CONSTANTS A, B, alice, bob, tools

Ask(tool, project, key) ==
  [tool |-> tool, project |-> project, from |-> NoProject, key |-> key]

\* Two agents, and the tools that have a key of their own.
ClientRequests ==
  { Ask("store", A, alice), Ask("search", NoProject, bob), Ask("maintain", A, tools),
    [Ask("migrate", A, tools) EXCEPT !.from = B] }
=============================================================================
