------------------------------ MODULE Outcomes ------------------------------
(***************************************************************************)
(* The vocabulary every crate of the workspace shares: statuses, surfaces, *)
(* the policy that turns results into a decision, and the exit codes.      *)
(* Pure definitions; a result is a record with at least a field "status".  *)
(***************************************************************************)
EXTENDS Naturals, Sequences, FiniteSets

Surfaces == {"xdr", "rpc", "soroban"}

Statuses == {"pass", "warning", "fail", "skipped", "error"}

\* What the three runners can say of a fixture: none of them ever warns, and
\* skipping is decided by the planner before a runner sees the fixture.
RunnerStatuses == {"pass", "fail", "error"}

HasStatus(results, status) ==
  \E k \in DOMAIN results : results[k].status = status

-----------------------------------------------------------------------------
(* The policy.  An error is deliberately no input of the decision.         *)

Decisions == {"pass", "warning", "fail"}

Evaluate(results, warningsAreFailures) ==
  IF \/ HasStatus(results, "fail")
     \/ HasStatus(results, "warning") /\ warningsAreFailures
  THEN "fail"
  ELSE IF HasStatus(results, "warning") THEN "warning" ELSE "pass"

-----------------------------------------------------------------------------
(* Exit codes: those of a run that completed, and those of an error that   *)
(* ended a command early.                                                  *)

ExitPass                 == 0
ExitCompatibilityFailure == 1
ExitConfigurationError   == 2
ExitExecutionError       == 3
ExitInvalidFixture       == 4
ExitInternalError        == 5

ExitCodeForRun(results, decision) ==
  IF HasStatus(results, "error") THEN ExitExecutionError
  ELSE IF decision = "fail" THEN ExitCompatibilityFailure ELSE ExitPass

\* The overall status the reporters print, which must tell the same story as
\* the exit code.
OverallStatus(results, decision) ==
  IF HasStatus(results, "error") THEN "error" ELSE decision

-----------------------------------------------------------------------------
(* The counts of a report.                                                 *)

CountOf(results, status) ==
  Cardinality({k \in DOMAIN results : results[k].status = status})

Summarize(results) ==
  [total    |-> Len(results),
   passed   |-> CountOf(results, "pass"),
   failed   |-> CountOf(results, "fail"),
   warnings |-> CountOf(results, "warning"),
   errors   |-> CountOf(results, "error")]
=============================================================================
