-------------------------- MODULE MCProjectBinding --------------------------
(***************************************************************************)
(* Two processes, two projects, a restricted one, r, and a free one, a.    *)
(***************************************************************************)
EXTENDS ProjectBinding, TLC

CONSTANTS p1, p2, a, r, shared, conv_a, conv_r

MCConv == [q \in Projects |-> IF q = r THEN conv_r ELSE conv_a]

AToR == {<<a, r>>}

\* The processes do the same things.
MCSymmetry == Permutations(Callers)
=============================================================================
