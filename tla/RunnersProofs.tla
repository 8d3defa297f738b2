---------------------------- MODULE RunnersProofs ----------------------------
(***************************************************************************)
(* Theorems about Runners for every fixture body, every codec, every answer *)
(* of a server and every simulation.                                        *)
(***************************************************************************)
EXTENDS Runners, TLAPS

\* The status of a fixture that is done, from what its runner had before it.
Verdict(b, c, a, s) ==
  CASE b.surface = "xdr" -> a = NoAnswer /\ s = EvaluateXdr(c, b)
    [] b.surface = "rpc" ->
         \/ a = CallFailed /\ s = "error"
         \/ \E wire \in Wire(b.method) : a = Answer(wire) /\ s = RpcStatus(b, wire)
    [] b.surface = "soroban" ->
         \/ a \in {NoAnswer, CallFailed} /\ s = "error"
         \/ a = Answer(IllTyped) /\ s = "error"
         \/ \E r \in Simulation : /\ r # IllTyped
                                  /\ a = Answer(r) /\ s = EvaluateSoroban(b, r)

RunnerInv ==
  /\ body \in Bodies
  /\ codec \in Codec
  /\ stage \in {"loaded", "rejected", "planned", "awaiting", "done"}
  /\ stage \in {"planned", "awaiting", "done"} => Accepts(body)
  /\ stage = "awaiting" => body.surface \in {"rpc", "soroban"}
  /\ stage # "done" => answer = NoAnswer /\ status = "none"
  /\ stage = "done" => Verdict(body, codec, answer, status)

LEMMA BodyType ==
  ASSUME NEW b \in Bodies
  PROVE  \/ b.surface = "xdr" /\ b \in XdrBody
         \/ b.surface = "rpc" /\ b \in RpcBody
         \/ b.surface = "soroban" /\ b \in SorobanBody
BY BodiesAssumption DEF XdrBody, RpcBody, SorobanBody

\* There is a codec, so that the fixtures without one have one.
LEMMA SomeCodec == (CHOOSE c \in Codec : TRUE) \in Codec
<1> DEFINE c == [decode |-> [t \in Types |-> [x \in Texts |-> Rejected]],
                 encode |-> [v \in Values |-> Unencodable]]
<1>1. c \in Codec
  BY DEF Codec
<1> QED
  BY <1>1

LEMMA RunnerInit ==
  ASSUME Init
  PROVE  RunnerInv
<1>1. codec \in Codec
  BY SomeCodec DEF Init
<1> QED
  BY <1>1 DEF Init, RunnerInv

LEMMA AnswerTells ==
  /\ \A x : Answer(x).kind = "answer" /\ Answer(x).value = x
  /\ \A x : Answer(x) # NoAnswer /\ Answer(x) # CallFailed
  /\ NoAnswer.kind = "none" /\ CallFailed.kind = "failed" /\ NoAnswer # CallFailed
<1>1. \A x : Answer(x).kind = "answer" /\ Answer(x).value = x
  BY DEF Answer
<1>2. NoAnswer.kind = "none" /\ CallFailed.kind = "failed"
  BY DEF NoAnswer, CallFailed
<1> QED
  BY <1>1, <1>2

LEMMA RunnerStep ==
  ASSUME RunnerInv, [Next]_vars
  PROVE  RunnerInv'
<1>1. body \in Bodies /\ codec \in Codec
  BY DEF RunnerInv
<1>2. UNCHANGED <<body, codec>>
  BY DEF Next, ReadBody, RunXdr, BuildFails, SendCall, CallFails, RpcAnswered,
         SimulationAnswered, Finished, vars
<1>3. CASE ReadBody
  BY <1>1, <1>2, <1>3 DEF ReadBody, RunnerInv
<1>4. CASE RunXdr
  <2>1. /\ stage = "planned" /\ body.surface = "xdr" /\ stage' = "done"
        /\ status' = EvaluateXdr(codec, body) /\ answer' = NoAnswer
    BY <1>4 DEF RunXdr, Done, RunnerInv
  <2>2. Verdict(body, codec, answer', status')
    BY <2>1 DEF Verdict
  <2> QED
    BY <1>1, <1>2, <2>1, <2>2 DEF RunnerInv
<1>5. CASE BuildFails
  <2>1. /\ stage = "planned" /\ body.surface = "soroban" /\ stage' = "done"
        /\ status' = "error" /\ answer' = NoAnswer
    BY <1>5 DEF BuildFails, Done, RunnerInv
  <2>2. Verdict(body, codec, answer', status')
    BY <2>1 DEF Verdict
  <2> QED
    BY <1>1, <1>2, <2>1, <2>2 DEF RunnerInv
<1>6. CASE SendCall
  BY <1>1, <1>2, <1>6 DEF SendCall, RunnerInv
<1>7. CASE CallFails
  <2>1. /\ stage = "awaiting" /\ body.surface \in {"rpc", "soroban"} /\ stage' = "done"
        /\ status' = "error" /\ answer' = CallFailed
    BY <1>7 DEF CallFails, Done, RunnerInv
  <2>2. Verdict(body, codec, answer', status')
    BY <2>1 DEF Verdict
  <2> QED
    BY <1>1, <1>2, <2>1, <2>2 DEF RunnerInv
<1>8. CASE RpcAnswered
  <2>1. stage = "awaiting" /\ body.surface = "rpc" /\ Answers(body) = Wire(body.method)
    BY <1>8 DEF RpcAnswered, Answers
  <2>2. PICK wire \in Wire(body.method) :
          answer' = Answer(wire) /\ stage' = "done" /\ status' = RpcStatus(body, wire)
    BY <1>8, <2>1 DEF RpcAnswered, Done
  <2>3. Verdict(body, codec, answer', status')
    BY <2>1, <2>2 DEF Verdict
  <2> QED
    BY <1>1, <1>2, <2>1, <2>2, <2>3 DEF RunnerInv
<1>9. CASE SimulationAnswered
  <2>1. /\ stage = "awaiting" /\ body.surface = "soroban"
        /\ Answers(body) = Simulation \cup {IllTyped}
    BY <1>9 DEF SimulationAnswered, Answers
  <2>2. PICK r \in Simulation \cup {IllTyped} :
          /\ answer' = Answer(r) /\ stage' = "done"
          /\ status' = IF r = IllTyped THEN "error" ELSE EvaluateSoroban(body, r)
    BY <1>9, <2>1 DEF SimulationAnswered, Done
  <2>3. Verdict(body, codec, answer', status')
    BY <2>1, <2>2 DEF Verdict
  <2> QED
    BY <1>1, <1>2, <2>1, <2>2, <2>3 DEF RunnerInv
<1>10. CASE Finished \/ UNCHANGED vars
  BY <1>10 DEF Finished, vars, RunnerInv
<1> QED
  BY <1>3, <1>4, <1>5, <1>6, <1>7, <1>8, <1>9, <1>10 DEF Next

\* Every reachable state satisfies the invariant.
THEOREM RunnersInvariant == Spec => []RunnerInv
<1>1. Init => RunnerInv
  BY RunnerInit
<1>2. RunnerInv /\ [Next]_vars => RunnerInv'
  BY RunnerStep
<1> QED
  BY <1>1, <1>2, PTL DEF Spec

-----------------------------------------------------------------------------
(* The statuses.                                                            *)

LEMMA XdrStatus ==
  ASSUME NEW c, NEW b, XdrAccepts(b)
  PROVE  /\ EvaluateXdr(c, b) \in {"pass", "fail", "error"}
         /\ EvaluateXdr(c, b) = "error" <=>
              /\ b.kind \in {"roundtrip", "encode-equals"}
              /\ c.decode[b.type][b.value] # Rejected
              /\ c.encode[c.decode[b.type][b.value]] = Unencodable
<1>1. b.kind \in XdrKinds
  BY DEF XdrAccepts
<1>2. PICK d : d = c.decode[b.type][b.value]
  OBVIOUS
<1>3. \A wanted :
        /\ EvaluateReencoded(c, d, wanted) \in {"pass", "fail", "error"}
        /\ EvaluateReencoded(c, d, wanted) = "error"
             <=> d # Rejected /\ c.encode[d] = Unencodable
  BY DEF EvaluateReencoded
<1> QED
  BY <1>1, <1>2, <1>3 DEF EvaluateXdr, XdrKinds

LEMMA RpcStatusTells ==
  ASSUME NEW b, NEW wire
  PROVE  /\ RpcStatus(b, wire) \in {"pass", "fail", "error"}
         /\ RpcStatus(b, wire) = "error" <=> ~IsTyped(b.method, wire)
BY DEF RpcStatus, EvaluateRpc

LEMMA SorobanStatus ==
  ASSUME NEW b, NEW r
  PROVE  EvaluateSoroban(b, r) \in {"pass", "fail"}
BY DEF EvaluateSoroban

\* Type correctness: a runner says "pass", "fail" or "error", never "warning".
THEOREM TypeCorrect == Spec => []TypeOK
<1>1. ASSUME RunnerInv PROVE TypeOK
  <2>1. /\ body \in Bodies /\ codec \in Codec
        /\ stage \in {"loaded", "rejected", "planned", "awaiting", "done"}
    BY <1>1 DEF RunnerInv
  <2>2. CASE stage # "done"
    <3>1. answer = NoAnswer /\ status = "none"
      BY <1>1, <2>2 DEF RunnerInv
    <3> QED
      BY <2>1, <2>2, <3>1 DEF TypeOK
  <2>3. CASE stage = "done"
    <3>1. Verdict(body, codec, answer, status) /\ Accepts(body)
      BY <1>1, <2>3 DEF RunnerInv
    <3>2. /\ status \in {"pass", "fail", "error"}
          /\ \/ answer \in {NoAnswer, CallFailed}
             \/ answer.kind = "answer" /\ answer.value \in Answers(body)
      <4>1. CASE body.surface = "xdr"
        BY <3>1, <4>1, XdrStatus DEF Verdict, Accepts
      <4>2. CASE body.surface = "rpc"
        BY <3>1, <4>2, RpcStatusTells, AnswerTells DEF Verdict, Answers
      <4>3. CASE body.surface = "soroban"
        BY <3>1, <4>3, SorobanStatus, AnswerTells DEF Verdict, Answers
      <4> QED
        BY <2>1, <4>1, <4>2, <4>3, BodyType
    <3> QED
      BY <2>1, <2>3, <3>2 DEF TypeOK, RunnerStatuses
  <2> QED
    BY <2>2, <2>3
<1> QED
  BY <1>1, RunnersInvariant, PTL

\* An error is reported exactly when there was nothing to judge by.
THEOREM ErrorsMeanNoEvidence == Spec => []ErrorsAreMissingEvidence
<1>1. ASSUME RunnerInv PROVE ErrorsAreMissingEvidence
  <2> SUFFICES ASSUME stage = "done"
               PROVE  (status = "error") <=>
                        CASE body.surface = "xdr" ->
                               /\ body.kind \in {"roundtrip", "encode-equals"}
                               /\ codec.decode[body.type][body.value] # Rejected
                               /\ codec.encode[codec.decode[body.type][body.value]] = Unencodable
                          [] body.surface = "rpc" ->
                               answer = CallFailed \/ ~IsTyped(body.method, answer.value)
                          [] body.surface = "soroban" ->
                               answer \in {NoAnswer, CallFailed, Answer(IllTyped)}
    BY DEF ErrorsAreMissingEvidence
  <2>1. Verdict(body, codec, answer, status) /\ Accepts(body) /\ body \in Bodies
    BY <1>1 DEF RunnerInv
  <2>2. CASE body.surface = "xdr"
    <3>1. status = EvaluateXdr(codec, body) /\ XdrAccepts(body)
      BY <2>1, <2>2 DEF Verdict, Accepts
    <3> QED
      BY <2>2, <3>1, XdrStatus
  <2>3. CASE body.surface = "rpc"
    <3>1. CASE answer = CallFailed /\ status = "error"
      BY <2>3, <3>1
    <3>2. CASE \E wire \in Wire(body.method) : answer = Answer(wire) /\ status = RpcStatus(body, wire)
      <4>1. PICK wire : answer = Answer(wire) /\ status = RpcStatus(body, wire)
        BY <3>2
      <4>2. answer.value = wire /\ answer # CallFailed
        BY <4>1, AnswerTells
      <4> QED
        BY <2>3, <4>1, <4>2, RpcStatusTells
    <3> QED
      BY <2>1, <2>3, <3>1, <3>2 DEF Verdict
  <2>4. CASE body.surface = "soroban"
    <3>1. CASE answer \in {NoAnswer, CallFailed, Answer(IllTyped)}
      <4>1. status = "error"
        BY <2>1, <2>4, <3>1, AnswerTells DEF Verdict
      <4> QED
        BY <2>4, <3>1, <4>1
    <3>2. CASE answer \notin {NoAnswer, CallFailed, Answer(IllTyped)}
      <4>1. PICK r : status = EvaluateSoroban(body, r)
        BY <2>1, <2>4, <3>2 DEF Verdict
      <4>2. status # "error"
        BY <4>1, SorobanStatus
      <4> QED
        BY <2>4, <3>2, <4>2
    <3> QED
      BY <3>1, <3>2
  <2> QED
    BY <2>1, <2>2, <2>3, <2>4, BodyType
<1> QED
  BY <1>1, RunnersInvariant, PTL

-----------------------------------------------------------------------------
(* Fixtures that differ in one respect.                                     *)

\* The four kinds of XDR fixture contradict each other under no codec.
THEOREM XdrKindsAgree == Spec => []XdrKindsAreCoherent
<1>1. XdrKindsAreCoherent
  <2> DEFINE Of(type, text, kind, expected) ==
        EvaluateXdr(codec, [surface |-> "xdr", type |-> type, kind |-> kind,
                            value |-> text, expected |-> expected])
  <2>1. ASSUME NEW type \in Types, NEW text \in Texts, NEW other \in Texts
        PROVE  /\ Of(type, text, "decode-success", Missing)
                    # Of(type, text, "decode-failure", Missing)
               /\ Of(type, text, "roundtrip", Missing) = "pass"
                    => Of(type, text, "decode-success", Missing) = "pass"
               /\ Of(type, text, "roundtrip", Missing) = Of(type, text, "encode-equals", text)
               /\ /\ Of(type, text, "encode-equals", text) = "pass"
                  /\ Of(type, text, "encode-equals", other) = "pass"
                  => text = other
    <3>1. PICK d : d = codec.decode[type][text]
      OBVIOUS
    <3>2. \A e : /\ Of(type, text, "decode-success", e) = IF d # Rejected THEN "pass" ELSE "fail"
                 /\ Of(type, text, "decode-failure", e) = IF d = Rejected THEN "pass" ELSE "fail"
                 /\ Of(type, text, "roundtrip", e) = EvaluateReencoded(codec, d, text)
                 /\ Of(type, text, "encode-equals", e) = EvaluateReencoded(codec, d, e)
      BY <3>1 DEF EvaluateXdr
    <3> HIDE DEF Of
    <3>3. \A e : EvaluateReencoded(codec, d, e) = "pass" => d # Rejected /\ codec.encode[d] = e
      BY DEF EvaluateReencoded
    <3> QED
      BY <3>2, <3>3
  <2> QED
    BY <2>1 DEF XdrKindsAreCoherent
<1> QED
  BY <1>1, PTL

\* The assertions of a fixture that was accepted are about fields of its method.
LEMMA MentionedType ==
  ASSUME NEW b \in Bodies, b.surface = "rpc", Accepts(b)
  PROVE  b.method \in Methods /\ Mentioned(b) \subseteq Fields(b.method)
<1>1. b \in RpcBody /\ RpcAccepts(b)
  BY BodyType DEF Accepts
<1>2. b.method \in Methods /\ \A k \in DOMAIN Assertions(b) : Assertions(b)[k].field # Missing
  BY <1>1 DEF RpcAccepts, EntryAccepted
<1>3. Mentioned(b) \subseteq Fields(b.method) \cup {Missing}
  BY <1>1, <1>2 DEF RpcBody
<1> QED
  BY <1>2, <1>3 DEF Mentioned

\* Assertions hold alike of two responses that agree on the fields mentioned.
LEMMA MentionedAgree ==
  ASSUME NEW b, NEW one, NEW other, \A g \in Mentioned(b) : one[g] = other[g]
  PROVE  EvaluateRpc(b, one) = EvaluateRpc(b, other)
<1>1. ASSUME NEW k \in DOMAIN Assertions(b)
      PROVE  Holds(Assertions(b)[k], one) <=> Holds(Assertions(b)[k], other)
  <2>1. PICK e : e = Assertions(b)[k]
    OBVIOUS
  <2>2. one[e.field] = other[e.field]
    BY <2>1 DEF Mentioned
  <2>3. PICK found : found = one[e.field] /\ found = other[e.field]
    BY <2>2
  <2> QED
    BY <2>1, <2>3 DEF Holds
<1> QED
  BY <1>1 DEF EvaluateRpc

\* One field of an answer is changed: of a field that is not declared the typing
\* knows nothing, and re-serializing keeps all other fields as they are.
LEMMA OneFieldChanged ==
  ASSUME NEW m \in Methods, NEW wire \in Wire(m), NEW f \in Fields(m),
         NEW j \in Json \cup {Missing}, NEW other, other = [wire EXCEPT ![f] = j]
  PROVE  /\ f \notin KnownFields(m) => (IsTyped(m, other) <=> IsTyped(m, wire))
         /\ \A g \in Fields(m) \ {f} : JsonOf(m, other)[g] = JsonOf(m, wire)[g]
<1>1. /\ RequiredStrings(m) \cup RequiredNumbers(m) \cup OptionalStrings(m) = KnownFields(m)
      /\ KnownFields(m) \subseteq Fields(m)
  BY DEF KnownFields, Fields
<1>2. wire \in [Fields(m) -> Json \cup {Missing}]
  BY DEF Wire
<1>3. \A g \in Fields(m) \ {f} : other[g] = wire[g]
  BY <1>2
<1>4. ASSUME f \notin KnownFields(m) PROVE IsTyped(m, other) <=> IsTyped(m, wire)
  <2>1. \A g \in KnownFields(m) : other[g] = wire[g]
    BY <1>1, <1>3, <1>4
  <2> QED
    BY <1>1, <2>1 DEF IsTyped
<1> QED
  BY <1>3, <1>4 DEF JsonOf

\* A fixture's verdict rests on the fields it mentions, as the server sent them as
\* far as they are declared and not null; the other fields of an answer, new ones
\* among them, change no verdict.
THEOREM MentionedFieldsAlone == Spec => []MentionedFieldsDecide
<1>1. ASSUME RunnerInv PROVE MentionedFieldsDecide
  <2> SUFFICES ASSUME body.surface = "rpc", answer.kind = "answer"
               PROVE  MentionedFieldsDecide
    BY DEF MentionedFieldsDecide
  <2>1. stage = "done" /\ body \in Bodies /\ Accepts(body)
    BY <1>1, AnswerTells DEF RunnerInv
  <2>2. PICK m : m = body.method
    OBVIOUS
  <2>3. m \in Methods /\ Mentioned(body) \subseteq Fields(m)
    BY <2>1, <2>2, MentionedType
  <2>4. PICK wire \in Wire(m) : answer = Answer(wire) /\ status = RpcStatus(body, wire)
    BY <1>1, <2>1, <2>2, AnswerTells DEF RunnerInv, Verdict
  <2>5. answer.value = wire
    BY <2>4, AnswerTells
  <2>6. ASSUME NEW f \in Fields(m) \ Mentioned(body), NEW j \in Json \cup {Missing},
               NEW other, other = [wire EXCEPT ![f] = j],
               f \notin KnownFields(m) \/ (IsTyped(m, wire) /\ IsTyped(m, other))
        PROVE  RpcStatus(body, other) = status
    <3>1. IsTyped(m, other) <=> IsTyped(m, wire)
      BY <2>3, <2>6, OneFieldChanged
    <3>2. \A g \in Mentioned(body) : JsonOf(m, other)[g] = JsonOf(m, wire)[g]
      <4>1. f \in Fields(m) /\ wire \in [Fields(m) -> Json \cup {Missing}]
        BY <2>4, <2>6 DEF Wire
      <4>2. \A g \in Fields(m) \ {f} : other[g] = wire[g]
        BY <2>6, <4>1
      <4>3. \A g \in Mentioned(body) : g \in Fields(m) \ {f}
        BY <2>3, <2>6
      <4> QED
        BY <4>2, <4>3 DEF JsonOf
    <3>3. EvaluateRpc(body, JsonOf(m, other)) = EvaluateRpc(body, JsonOf(m, wire))
      BY <3>2, MentionedAgree
    <3> QED
      BY <2>2, <2>4, <3>1, <3>3 DEF RpcStatus
  <2>7. ASSUME IsTyped(m, wire),
               \A f \in Mentioned(body) : f \in KnownFields(m) /\ wire[f] # Null
        PROVE  status = EvaluateRpc(body, wire)
    <3>1. \A f \in Mentioned(body) : JsonOf(m, wire)[f] = wire[f]
      BY <2>3, <2>7 DEF JsonOf
    <3>2. EvaluateRpc(body, JsonOf(m, wire)) = EvaluateRpc(body, wire)
      BY <3>1, MentionedAgree
    <3> QED
      BY <2>2, <2>4, <2>7, <3>2 DEF RpcStatus
  <2> QED
    BY <2>2, <2>5, <2>6, <2>7 DEF MentionedFieldsDecide
<1> QED
  BY <1>1, RunnersInvariant, PTL

\* Of one simulation, success and error are never both as expected.
THEOREM SimulationKindsAgree == Spec => []SimulationKindsAreCoherent
<1>1. ASSUME RunnerInv PROVE SimulationKindsAreCoherent
  <2> SUFFICES ASSUME body.surface = "soroban", NEW needle \in Needles \cup {Missing}
               PROVE  LET Of(expect, n) ==
                            EvaluateSoroban([body EXCEPT !.expect = expect, !.needle = n],
                                            answer.value)
                      IN /\ \/ Of("simulation-success", Missing) = "fail"
                            \/ Of("simulation-error", needle) = "fail"
                         /\ Of("simulation-error", needle) = "pass"
                              => Of("simulation-error", Missing) = "pass"
                         /\ Of("simulation-success", Missing) # Of("simulation-error", Missing)
    BY DEF SimulationKindsAreCoherent
  <2>1. body \in SorobanBody
    BY <1>1, BodyType DEF RunnerInv
  <2>2. \A e, n : /\ [body EXCEPT !.expect = e, !.needle = n].expect = e
                  /\ [body EXCEPT !.expect = e, !.needle = n].needle = n
    BY <2>1 DEF SorobanBody
  <2> QED
    BY <2>2 DEF EvaluateSoroban, Succeeded
<1> QED
  BY <1>1, RunnersInvariant, PTL
=============================================================================
