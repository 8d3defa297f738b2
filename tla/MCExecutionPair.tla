--------------------------- MODULE MCExecutionPair ---------------------------
(* Two RPC fixtures whose ids differ in one character sanitize replaces, and *)
(* a third one; a window of two.                                             *)
EXTENDS ExecutionPair

MCFixtureIds == {"p28.net", "p28_net", "ledger"}

MCPlan == [xdr |-> <<>>, rpc |-> <<"ledger", "p28.net", "p28_net">>, soroban |-> <<>>]

MCStems == {"p28_net", "ledger"}

\* cache.rs sanitize: everything but letters, digits and "-" becomes "_".
MCStem == [f \in MCFixtureIds |-> IF f = "p28.net" THEN "p28_net" ELSE f]

MCEarlierResults == {}
=============================================================================
