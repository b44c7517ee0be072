--------------------------- MODULE MCSchemaUpgrade ---------------------------
(***************************************************************************)
(* Constant values for model checking SchemaUpgrade on small instances.    *)
(***************************************************************************)
EXTENDS SchemaUpgrade

CONSTANTS p1, p2, a, b, c

\* Two memories from before the upgrade.
TwoOld == <<a, b>>
=============================================================================
