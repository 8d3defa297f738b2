---------------------------- MODULE ExecutionPair ----------------------------
(* Two executions of one plan from one cache directory against one world:   *)
(* the same fixtures, the same verdicts, the same files on disk.  They may  *)
(* differ in nothing but their schedules, so the second runs after the      *)
(* first, on a directory restored to what the first found.                  *)
EXTENDS Naturals

CONSTANTS
  FixtureIds, Plan, Stems, Stem, EarlierResults, StoresMayFail, Concurrencies, NoEntry

VARIABLES
  verdict, cacheAtStart, maxConcurrency,
  cacheA, phaseA, nextA, inFlightA, collectedA, resultsA,
  cacheB, phaseB, nextB, inFlightB, collectedB, resultsB

varsA == <<cacheA, phaseA, nextA, inFlightA, collectedA, resultsA>>
varsB == <<cacheB, phaseB, nextB, inFlightB, collectedB, resultsB>>

First == INSTANCE Execution WITH
  cache <- cacheA, phase <- phaseA, next <- nextA,
  inFlight <- inFlightA, collected <- collectedA, results <- resultsA

Second == INSTANCE Execution WITH
  cache <- cacheB, phase <- phaseB, next <- nextB,
  inFlight <- inFlightB, collected <- collectedB, results <- resultsB

Init == First!Init /\ Second!Init

Next ==
  \/ /\ phaseA # "done"
     /\ First!Next
     /\ UNCHANGED varsB
  \/ /\ phaseA = "done"
     /\ Second!Next
     /\ UNCHANGED varsA

Spec == Init /\ [][Next]_<<verdict, cacheAtStart, maxConcurrency, varsA, varsB>>

\* execution.rs:6-8: "reordered back to fixture order so the overall result
\* list stays deterministic regardless of which network call happened to
\* finish first": two schedules of one run report the same list.
SameResultsOnEverySchedule ==
  phaseA = "done" /\ phaseB = "done" => resultsA = resultsB
=============================================================================
