------------------------------- MODULE MCReport -------------------------------
(* Lists of up to three results over the five statuses and two surfaces, so  *)
(* that every mix of failures, warnings and errors occurs within a surface   *)
(* and across surfaces.                                                      *)
EXTENDS Report

MCResultLists ==
  LET Of(surface, status) == [test |-> "t", surface |-> surface, status |-> status] IN
  {<<>>}
    \cup {<<Of("xdr", a)>> : a \in Statuses}
    \cup {<<Of("xdr", a), Of(s, b)>> : a, b \in Statuses, s \in {"xdr", "rpc"}}
    \cup {<<Of("xdr", a), Of("rpc", b), Of("rpc", c)>> : a, b, c \in Statuses}

MCSkipLists == {<<>>, <<[fixture |-> "u", surface |-> "soroban"]>>}

\* Documents written by hand or by another version: counts left out (serde
\* fills in zeros), an overall status its results do not bear out, names this
\* version does not know.
MCOtherDocuments ==
  LET Zeros == [total |-> 0, passed |-> 0, failed |-> 0, warnings |-> 0, errors |-> 0,
                skipped |-> 0]
  IN [projectType : {"soroban", Unrecognized},
      status      : Decisions \cup {"error", Unrecognized},
      counts      : {Zeros},
      results     : {<<>>} \cup {<<[test |-> "t", surface |-> u, status |-> s]>> :
                                   u \in {"rpc", Unrecognized},
                                   s \in {"fail", "error", Unrecognized}},
      skipped     : {<<>>, <<[fixture |-> "u", surface |-> Unrecognized]>>}]
=============================================================================
