-------------------------------- MODULE Runners --------------------------------
(***************************************************************************)
(* One fixture from its body to its result: the surface crate reads the    *)
(* body (from_loaded), and its runner decodes and encodes an XDR value,    *)
(* calls an RPC method, or builds an invocation and simulates it, and      *)
(* compares what came back with what the fixture declares.                 *)
(*                                                                         *)
(* Base64 texts, XDR values, JSON values and error messages are opaque.    *)
(* stellar-xdr is external: any partial decoding and any encoding.         *)
(***************************************************************************)
EXTENDS Outcomes

CONSTANTS
  Types,      \* the XDR types a fixture can name
  Texts,      \* the base64 texts it can hold
  Values,     \* what texts decode to
  Numbers,    \* the JSON and TOML numbers in play
  Strings,    \* the JSON and TOML strings in play
  I64s, U64s, I32s, U32s, \* the integers among the numbers, by the width they fit
  Needles,    \* what a simulation error may be expected to contain
  Bodies,     \* the fixture bodies in play
  Missing, Unsupported, \* a field that is not there; one the crate does not know
  IllTyped    \* an answer to a simulation that is no SimulationResponse

-----------------------------------------------------------------------------
(* XDR.                                                                    *)

XdrKinds == {"decode-success", "decode-failure", "roundtrip", "encode-equals"}

XdrBody ==
  [surface : {"xdr"}, type : Types \cup {Missing, Unsupported},
   kind : XdrKinds \cup {Missing, Unsupported},
   value : Texts \cup {Missing}, expected : Texts \cup {Missing}]

XdrAccepts(b) ==
  /\ b.type \in Types
  /\ b.kind \in XdrKinds
  /\ b.value # Missing
  /\ b.kind = "encode-equals" => b.expected # Missing

Rejected    == "rejected"
Unencodable == "unencodable"

\* What stellar-xdr makes of each text under each type, and of each value.
Codec ==
  [decode : [Types -> [Texts -> Values \cup {Rejected}]],
   encode : [Values -> Texts \cup {Unencodable}]]

\* Variant: a value that cannot be encoded again is skipped.
EvaluateReencodedOrSkip(codec, decoded, wanted) ==
  IF decoded = Rejected THEN "fail"
  ELSE IF codec.encode[decoded] = Unencodable THEN "skipped"
  ELSE IF codec.encode[decoded] = wanted THEN "pass" ELSE "fail"

\* Variant: a text that does not decode has nothing to compare, and passes.
EvaluateReencodedUndecoded(codec, decoded, wanted) ==
  IF decoded = Rejected \/ codec.encode[decoded] = wanted THEN "pass" ELSE "fail"

\* Re-encoding is compared with "wanted": the input, or the expected text.
EvaluateReencoded(codec, decoded, wanted) ==
  IF decoded = Rejected THEN "fail"
  ELSE IF codec.encode[decoded] = Unencodable THEN "error"
  ELSE IF codec.encode[decoded] = wanted THEN "pass" ELSE "fail"

EvaluateXdr(codec, b) ==
  LET decoded == codec.decode[b.type][b.value] IN
  CASE b.kind = "decode-success" -> IF decoded # Rejected THEN "pass" ELSE "fail"
    [] b.kind = "decode-failure" -> IF decoded = Rejected THEN "pass" ELSE "fail"
    [] b.kind = "roundtrip"      -> EvaluateReencoded(codec, decoded, b.value)
    [] b.kind = "encode-equals"  -> EvaluateReencoded(codec, decoded, b.expected)

-----------------------------------------------------------------------------
(* JSON, and the two RPC methods a fixture can call.                       *)

JsonTypes == {"string", "number", "bool", "object", "array", "null"}

Null == [type |-> "null", value |-> "null"]

Json ==
  [type : {"string"}, value : Strings] \cup [type : {"number"}, value : Numbers]
    \cup {Null, [type |-> "bool", value |-> "true"]}

IsString(j) == j # Missing /\ j.type = "string"
IsU32(j)    == j # Missing /\ j.type = "number" /\ j.value \in U32s

Methods == {"get-network", "get-latest-ledger"}

RequiredStrings(m) == IF m = "get-network" THEN {"passphrase"} ELSE {"id"}
RequiredNumbers(m) ==
  IF m = "get-network" THEN {"protocolVersion"} ELSE {"protocolVersion", "sequence"}
OptionalStrings(m) == IF m = "get-network" THEN {"friendbotUrl"} ELSE {}

KnownFields(m) == RequiredStrings(m) \cup RequiredNumbers(m) \cup OptionalStrings(m)

\* "unknown" stands for every field the method's type does not declare.
Fields(m) == KnownFields(m) \cup {"unknown"}

\* The object a server answers with: each field's value, or Missing.
Wire(m) == [Fields(m) -> Json \cup {Missing}]

\* Variant: deny_unknown_fields.
IsTypedStrictly(m, wire) ==
  /\ wire["unknown"] = Missing
  /\ \A f \in RequiredStrings(m) : IsString(wire[f])
  /\ \A f \in RequiredNumbers(m) : IsU32(wire[f])
  /\ \A f \in OptionalStrings(m) : wire[f] \in {Missing, Null} \/ IsString(wire[f])

\* Deserializing into NetworkInfo or LatestLedger; unknown fields are ignored.
IsTyped(m, wire) ==
  /\ \A f \in RequiredStrings(m) : IsString(wire[f])
  /\ \A f \in RequiredNumbers(m) : IsU32(wire[f])
  /\ \A f \in OptionalStrings(m) : wire[f] \in {Missing, Null} \/ IsString(wire[f])

\* json_of: what the typed answer serializes to again.  This, not the answer
\* itself, is the object the assertions are checked against.
JsonOf(m, wire) ==
  [f \in Fields(m) |->
     IF f \notin KnownFields(m) \/ (f \in OptionalStrings(m) /\ wire[f] = Null)
     THEN Missing ELSE wire[f]]

-----------------------------------------------------------------------------
(* RPC fixtures.                                                           *)

AssertionKinds == {"field-exists", "field-absent", "field-equals", "field-type"}

\* An entry of [[assert]].  "value" is the TOML value in its JSON form: a string
\* or date becomes a string, a number keeps its value, NaN becomes null.
Entry ==
  [kind : AssertionKinds \cup {Missing, Unsupported},
   field : (UNION {Fields(m) : m \in Methods}) \cup {Missing},
   value : Json \cup {Missing}, expected : JsonTypes \cup {Missing, Unsupported}]

EntryAccepted(e) ==
  /\ e.kind \in AssertionKinds
  /\ e.field # Missing
  /\ e.kind = "field-equals" => e.value # Missing
  /\ e.kind = "field-type" => e.expected \in JsonTypes

\* An "assert" that is missing or not an array counts as no assertions at all.
Assertions(b) == IF b.asserts \in {Missing, Unsupported} THEN <<>> ELSE b.asserts

\* The fields a fixture mentions, "unknown" for all its method does not declare.
Mentioned(b) == {Assertions(b)[k].field : k \in DOMAIN Assertions(b)}

RpcBody ==
  {b \in [surface : {"rpc"}, method : Methods \cup {Missing, Unsupported},
          asserts : Seq(Entry) \cup {Missing, Unsupported}] :
     b.method \in Methods => Mentioned(b) \subseteq Fields(b.method) \cup {Missing}}

RpcAccepts(b) ==
  /\ b.method \in Methods
  /\ \A k \in DOMAIN Assertions(b) : EntryAccepted(Assertions(b)[k])

Holds(e, response) ==
  LET found == response[e.field] IN
  CASE e.kind = "field-exists" -> found # Missing
    [] e.kind = "field-absent" -> found = Missing
    [] e.kind = "field-equals" -> found = e.value
    [] e.kind = "field-type"   -> found # Missing /\ found.type = e.expected

EvaluateRpc(b, response) ==
  IF \A k \in DOMAIN Assertions(b) : Holds(Assertions(b)[k], response)
  THEN "pass" ELSE "fail"

\* Variant: an answer of the wrong shape fails the fixture.
RpcStatusOfShape(b, wire) ==
  IF IsTyped(b.method, wire) THEN EvaluateRpc(b, JsonOf(b.method, wire)) ELSE "fail"

\* The call's outcome for the answer "wire": a value of the wrong shape is an
\* InvalidResponse of the client, so an error of the fixture.
RpcStatus(b, wire) ==
  IF IsTyped(b.method, wire) THEN EvaluateRpc(b, JsonOf(b.method, wire)) ELSE "error"

-----------------------------------------------------------------------------
(* Soroban fixtures.                                                       *)

ArgKinds == {"bool", "u32", "i32", "u64", "i64", "symbol", "string"}

\* parse_arg: the value has the kind's TOML type and fits the kind's width.
ArgAccepted(arg) ==
  /\ arg.kind \in ArgKinds
  /\ arg.value # Missing
  /\ CASE arg.kind = "bool"                 -> arg.value.type = "bool"
       [] arg.kind \in {"symbol", "string"} -> arg.value.type = "string"
       [] arg.kind = "u32" -> arg.value.type = "number" /\ arg.value.value \in U32s
       [] arg.kind = "i32" -> arg.value.type = "number" /\ arg.value.value \in I32s
       [] arg.kind = "u64" -> arg.value.type = "number" /\ arg.value.value \in U64s
       [] arg.kind = "i64" -> arg.value.type = "number" /\ arg.value.value \in I64s

Arg == [kind : ArgKinds \cup {Missing, Unsupported}, value : Json \cup {Missing}]

\* "complete": the four required fields are there.  "encodable": the accounts
\* are strkeys, and the function name and the arguments fit an envelope.
\* "needle" is expect.message_contains.
SorobanBody ==
  [surface : {"soroban"}, complete : BOOLEAN, args : Seq(Arg), encodable : BOOLEAN,
   expect : {"simulation-success", "simulation-error", Missing, Unsupported},
   needle : Needles \cup {Missing}]

SorobanAccepts(b) ==
  /\ b.complete
  /\ \A k \in DOMAIN b.args : ArgAccepted(b.args[k])
  /\ b.expect \in {"simulation-success", "simulation-error"}

\* SimulationResponse.error: none, or a message known by what it contains.
NoError == [failed |-> FALSE, contains |-> {}]
Simulation == {NoError} \cup [failed : {TRUE}, contains : SUBSET Needles]

Succeeded(response) == ~response.failed

\* Variant: the message is looked at whether or not the simulation failed.
EvaluateSorobanMessage(b, response) ==
  IF b.expect = "simulation-success" THEN
    IF Succeeded(response) THEN "pass" ELSE "fail"
  ELSE IF b.needle = Missing \/ b.needle \in response.contains THEN "pass" ELSE "fail"

EvaluateSoroban(b, response) ==
  IF b.expect = "simulation-success" THEN
    IF Succeeded(response) THEN "pass" ELSE "fail"
  ELSE IF Succeeded(response) THEN "fail"
  ELSE IF b.needle = Missing \/ b.needle \in response.contains THEN "pass" ELSE "fail"

-----------------------------------------------------------------------------
ASSUME BodiesAssumption == Bodies \subseteq XdrBody \cup RpcBody \cup SorobanBody

\* A TOML integer is an i64: a u64 argument gets at most half of its range.
ASSUME WidthsAssumption ==
  /\ I64s \subseteq Numbers
  /\ U64s \cup I32s \subseteq I64s
  /\ U32s \subseteq U64s

VARIABLES
  body,    \* the fixture's body
  codec,   \* what stellar-xdr does
  stage,   \* "loaded", "rejected", "planned", "awaiting" or "done"
  answer,  \* the answer its call got
  status   \* the status of its result

vars == <<body, codec, stage, answer, status>>

NoAnswer   == [kind |-> "none"]
CallFailed == [kind |-> "failed"]
Answer(x)  == [kind |-> "answer", value |-> x]

Answers(b) ==
  CASE b.surface = "rpc"     -> Wire(b.method)
    [] b.surface = "soroban" -> Simulation \cup {IllTyped}
    [] b.surface = "xdr"     -> {}

TypeOK ==
  /\ body \in Bodies
  /\ codec \in Codec
  /\ stage \in {"loaded", "rejected", "planned", "awaiting", "done"}
  /\ \/ answer \in {NoAnswer, CallFailed}
     \/ answer.kind = "answer" /\ answer.value \in Answers(body)
  /\ status \in RunnerStatuses \cup {"none"}
  /\ (status = "none") <=> (stage # "done")

\* Only XDR fixtures meet the codec: any one does for the others.
Init ==
  /\ body \in Bodies
  /\ codec \in IF body.surface = "xdr" THEN Codec ELSE {CHOOSE c \in Codec : TRUE}
  /\ stage = "loaded"
  /\ answer = NoAnswer
  /\ status = "none"

Accepts(b) ==
  CASE b.surface = "xdr"     -> XdrAccepts(b)
    [] b.surface = "rpc"     -> RpcAccepts(b)
    [] b.surface = "soroban" -> SorobanAccepts(b)

\* from_loaded, called by the planner.
ReadBody ==
  /\ stage = "loaded"
  /\ \/ Accepts(body) /\ stage' = "planned"
     \/ ~Accepts(body) /\ stage' = "rejected"
  /\ UNCHANGED <<body, codec, answer, status>>

Done(s) ==
  /\ stage' = "done"
  /\ status' = s

RunXdr ==
  /\ stage = "planned"
  /\ body.surface = "xdr"
  /\ Done(EvaluateXdr(codec, body))
  /\ UNCHANGED <<body, codec, answer>>

\* The envelope cannot be built: an error, before any call.
BuildFails ==
  /\ stage = "planned"
  /\ body.surface = "soroban"
  /\ ~body.encodable
  /\ Done("error")
  /\ UNCHANGED <<body, codec, answer>>

SendCall ==
  /\ stage = "planned"
  /\ body.surface = "rpc" \/ (body.surface = "soroban" /\ body.encodable)
  /\ stage' = "awaiting"
  /\ UNCHANGED <<body, codec, answer, status>>

\* The client gives up or gets an error (module RpcClient).
CallFails ==
  /\ stage = "awaiting"
  /\ answer' = CallFailed
  /\ Done("error")
  /\ UNCHANGED <<body, codec>>

RpcAnswered ==
  /\ stage = "awaiting"
  /\ body.surface = "rpc"
  /\ \E wire \in Answers(body) :
       /\ answer' = Answer(wire)
       /\ Done(RpcStatus(body, wire))
  /\ UNCHANGED <<body, codec>>

SimulationAnswered ==
  /\ stage = "awaiting"
  /\ body.surface = "soroban"
  /\ \E response \in Answers(body) :
       /\ answer' = Answer(response)
       /\ Done(IF response = IllTyped THEN "error" ELSE EvaluateSoroban(body, response))
  /\ UNCHANGED <<body, codec>>

Finished ==
  /\ stage \in {"rejected", "done"}
  /\ UNCHANGED vars

Next ==
  \/ ReadBody
  \/ RunXdr
  \/ BuildFails
  \/ SendCall
  \/ CallFails
  \/ RpcAnswered
  \/ SimulationAnswered
  \/ Finished

Spec == Init /\ [][Next]_vars

-----------------------------------------------------------------------------
(* Properties.                                                             *)

\* The four kinds of XDR fixture contradict each other nowhere.  Of one text, a
\* decode-success and a decode-failure fixture never agree; a text that
\* round-trips decodes; a round trip is an encode-equals that expects its own
\* input; and no two encode-equals fixtures with different expectations pass.
\* (The four arms of the XDR evaluate, each of which decodes again.)
XdrKindsAreCoherent ==
  \A type \in Types, text, other \in Texts :
    LET Of(kind, expected) ==
          EvaluateXdr(codec, [surface |-> "xdr", type |-> type, kind |-> kind,
                              value |-> text, expected |-> expected])
    IN /\ Of("decode-success", Missing) # Of("decode-failure", Missing)
       /\ Of("roundtrip", Missing) = "pass" => Of("decode-success", Missing) = "pass"
       /\ Of("roundtrip", Missing) = Of("encode-equals", text)
       /\ Of("encode-equals", text) = "pass" /\ Of("encode-equals", other) = "pass"
            => text = other

\* runner.rs:4-7: a field the fixture does not mention is ignored, and one that is
\* new in the answer "must never fail a check".  Had the server answered another
\* value of such a field, or none, the status would be the same; a declared field
\* may only change to one its type still reads.  And of the fields it does mention
\* a verdict is about what the server sent, as long as they are declared and not
\* null (for the others see AssertionsSeeTheResponse).
MentionedFieldsDecide ==
  body.surface = "rpc" /\ answer.kind = "answer" =>
    /\ \A f \in Fields(body.method) \ Mentioned(body), j \in Json \cup {Missing} :
         LET other == [answer.value EXCEPT ![f] = j] IN
           \/ f \notin KnownFields(body.method)
           \/ IsTyped(body.method, answer.value) /\ IsTyped(body.method, other)
           => RpcStatus(body, other) = status
    /\ /\ IsTyped(body.method, answer.value)
       /\ \A f \in Mentioned(body) : f \in KnownFields(body.method) /\ answer.value[f] # Null
       => status = EvaluateRpc(body, answer.value)

\* Of one simulation, a fixture that expects success and one that expects an
\* error never both pass, with or without an expected message; and asking for a
\* message only ever makes the error fixture harder to pass.
SimulationKindsAreCoherent ==
  body.surface = "soroban" /\ answer.kind = "answer" /\ answer.value # IllTyped =>
    \A needle \in Needles \cup {Missing} :
      LET Of(expect, n) ==
            EvaluateSoroban([body EXCEPT !.expect = expect, !.needle = n], answer.value)
      IN /\ Of("simulation-success", Missing) = "fail" \/ Of("simulation-error", needle) = "fail"
         /\ Of("simulation-error", needle) = "pass" => Of("simulation-error", Missing) = "pass"
         /\ Of("simulation-success", Missing) # Of("simulation-error", Missing)

\* An error is reported exactly when there was no evidence to judge: the value
\* could not be encoded again, the envelope could not be built, the call failed,
\* or its answer had the wrong shape.  Any verdict rests on evidence, and an
\* answer of the right shape is never turned into an error.
ErrorsAreMissingEvidence ==
  stage = "done" =>
    ((status = "error") <=>
       CASE body.surface = "xdr" ->
              /\ body.kind \in {"roundtrip", "encode-equals"}
              /\ codec.decode[body.type][body.value] # Rejected
              /\ codec.encode[codec.decode[body.type][body.value]] = Unencodable
         [] body.surface = "rpc" ->
              answer = CallFailed \/ ~IsTyped(body.method, answer.value)
         [] body.surface = "soroban" ->
              answer \in {NoAnswer, CallFailed, Answer(IllTyped)})

\* What the runner promises of its assertions: they are checked against the
\* response the server gave.  They are checked against what is left of it after
\* typing, so a field outside the type is always absent.
AssertionsSeeTheResponse ==
  body.surface = "rpc" /\ answer.kind = "answer" /\ IsTyped(body.method, answer.value)
    => status = EvaluateRpc(body, answer.value)
=============================================================================
