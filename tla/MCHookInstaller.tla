-------------------------- MODULE MCHookInstaller --------------------------
(***************************************************************************)
(* Constant values for model checking HookInstaller.                       *)
(***************************************************************************)
EXTENDS HookInstaller, TLC

CONSTANTS p1, p2

MCSymmetry == Permutations({p1, p2})

Empty == [place \in Places |-> None]
Holds(f) == [Empty EXCEPT !.target = f]

\* A repository that was used before: no hook, the user's, a link to one,
\* ours without a version, a newer one, the user's with a backup
\* of an earlier one.
MCRepo ==
  {Empty, Holds(UserHook(0)), [Holds(Link) EXCEPT !.behind = UserHook(0)]}
  \union {Holds(Hook(v)) : v \in {0, 3}}
  \union {[Holds(UserHook(0)) EXCEPT !.backup = UserHook(9)]}

MCStart ==
  [d \in Dirs |-> IF d = Repo THEN MCRepo ELSE {Empty}]
=============================================================================
