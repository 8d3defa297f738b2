------------------------------ MODULE MCCheckRuns ------------------------------
(* Two runs, which may overlap, of one fixture, from a directory in the work  *)
(* tree or one elsewhere; the network upgrades at most once.                  *)
EXTENDS CheckRuns, TLC

CONSTANTS run1, run2

MCRuns == {run1, run2}

MCFixtures == {"ledger"}

\* Runs are told apart by nothing but their names.
RunSymmetry == Permutations(MCRuns)
=============================================================================
