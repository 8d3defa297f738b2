------------------------------- MODULE MCRunners -------------------------------
EXTENDS Runners

CONSTANTS t1, x1, x2, v1, v2, one, big, str, two, str2, n1, n2

\* Every body an XDR fixture can have.
XdrBodies == XdrBody

Words == {[type |-> "string", value |-> str], [type |-> "number", value |-> one],
          [type |-> "bool", value |-> "true"], Null}

EntryOf(kind, field, value, expected) ==
  [kind |-> kind, field |-> field, value |-> value, expected |-> expected]

\* The entries a fixture for method m can hold, complete or not.
EntriesFor(m) ==
  LET names == Fields(m) \cup {Missing} IN
    {EntryOf(k, f, Missing, Missing) : k \in AssertionKinds \cup {Missing, Unsupported}, f \in names}
      \cup {EntryOf("field-equals", f, w, Missing) : f \in names, w \in Words}
      \cup {EntryOf("field-type", f, Missing, t) : f \in Fields(m),
              t \in {"string", "number", "null", Unsupported}}

\* Fixtures with no, one or two entries, and those whose method or list is wrong.
RpcBodies ==
  {[surface |-> "rpc", method |-> m, asserts |-> a] :
     m \in Methods \cup {Missing, Unsupported}, a \in {Missing, Unsupported}}
    \cup UNION {{[surface |-> "rpc", method |-> m, asserts |-> <<e>>] : e \in EntriesFor(m)} : m \in Methods}
    \cup {[surface |-> "rpc", method |-> m,
           asserts |-> <<EntryOf("field-exists", "protocolVersion", Missing, Missing),
                         EntryOf("field-absent", "unknown", Missing, Missing)>>] : m \in Methods}

\* One argument of each kind over each value, or none.
ArgLists ==
  {<<>>} \cup {<<[kind |-> k, value |-> v]>> : k \in ArgKinds \cup {Missing, Unsupported},
                 v \in Json \cup {Missing}}

SorobanBodies ==
  [surface : {"soroban"}, complete : BOOLEAN, args : ArgLists, encodable : BOOLEAN,
   expect : {"simulation-success", "simulation-error", Missing, Unsupported},
   needle : Needles \cup {Missing}]

AllBodies == XdrBodies \cup RpcBodies \cup SorobanBodies
================================================================================
