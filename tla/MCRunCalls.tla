----------------------------- MODULE MCRunCalls -----------------------------
(* Three RPC fixtures (so that a window of two is full while one waits) and *)
(* a Soroban fixture; replies that carry a value, a JSON-RPC error, or do    *)
(* not come in time; two attempts.                                          *)
EXTENDS RunCalls, SequencesExt

MCFixtureIds == {"r1", "r2", "r3", "s1"}
MCPlan == [xdr |-> <<>>, rpc |-> <<"r1", "r2", "r3">>, soroban |-> <<"s1">>]
MCStem == [f \in MCFixtureIds |-> f]
MCEarlierResults ==
  {[test |-> "r1", surface |-> "rpc", status |-> "fail"]}

MCValues == {"v"}

Answered == [send |-> "answered", status |-> "other", body |-> "json", error |-> FALSE,
             result |-> "v"]

MCExchanges ==
  {Answered,
   [Answered EXCEPT !.error = TRUE, !.result = "absent"],
   [Answered EXCEPT !.send = "timedOut"]}

\* InIndexOrder is the sort: it agrees with sorting by index on every completion
\* order of up to three fixtures.
ASSUME SortAgrees ==
  \A n \in 0..3 : \A p \in SetToAllKPermutations(1..n) :
    Len(p) = n =>
      LET c == [k \in 1..n |-> [index |-> p[k], result |-> p[k] + 10]]
          sorted == SortSeq(c, LAMBDA a, b : a.index < b.index)
      IN Run!InIndexOrder(c) = [k \in 1..n |-> sorted[k].result]
=============================================================================
