----------------------------- MODULE MCCacheStore -----------------------------
(* Three processes over one key: two that write at the same time and one    *)
(* that clears or reads; a failure takes more bytes than a pass, as it has  *)
(* details.                                                                 *)
EXTENDS CacheStore, TLC

CONSTANTS p1, p2, p3

MCSize == [r \in RunnerStatuses |-> IF r = "fail" THEN 3 ELSE 2]

Symmetric == Permutations(Processes)
===============================================================================
