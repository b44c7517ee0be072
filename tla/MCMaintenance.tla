--------------------------- MODULE MCMaintenance ---------------------------
(* A database with two projects: two processes of one of them maintain it,  *)
(* a process of the other has a read-only connection.                       *)
EXTENDS Maintenance, TLC

CONSTANTS p1, p2, p3, own, other

MCServes == p1 :> own @@ p2 :> own @@ p3 :> other
=============================================================================
