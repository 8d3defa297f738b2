---------------------------- MODULE MCExecution ----------------------------
(* Small instances of Execution: one XDR fixture, three RPC fixtures (so    *)
(* that a window of two overtakes and refills) and one Soroban fixture.     *)
EXTENDS Execution, TLC

MCFixtureIds == {"x1", "r1", "r2", "r3", "s1"}

MCPlan == [xdr |-> <<"x1">>, rpc |-> <<"r1", "r2", "r3">>, soroban |-> <<"s1">>]

\* Ids whose sanitized file names are all different: each names its own file.
MCStems == MCFixtureIds
MCStem == [f \in MCFixtureIds |-> f]

\* What earlier runs may have left: r1's verdict has changed since, and x1's
\* entry may agree or not with what its runner says now.
MCEarlierResults ==
  {[test |-> "x1", surface |-> "xdr", status |-> "pass"],
   [test |-> "r1", surface |-> "rpc", status |-> "fail"],
   [test |-> "r2", surface |-> "rpc", status |-> "pass"],
   [test |-> "s1", surface |-> "soroban", status |-> "pass"]}

=============================================================================
