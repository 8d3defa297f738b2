----------------------------- MODULE MCRpcClient -----------------------------
(* The default policy (three attempts) against every kind of reply; two     *)
(* values, so that a value of an earlier reply could be told from the last. *)
EXTENDS RpcClient

MCValues == {"v28", "v29"}
=============================================================================
