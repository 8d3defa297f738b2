--------------------------- MODULE RpcClientProofs ---------------------------
(***************************************************************************)
(* Theorems about RpcClient for every retry policy and set of values.      *)
(***************************************************************************)
EXTENDS RpcClient, SequenceTheorems, TLAPS

\* Between a request and its reply the log is one short of the attempts.
LogMatchesAttempts ==
  /\ pc = "ready" => attempt = 0 /\ waited = 0
  /\ Len(log) = IF pc = "awaiting" THEN attempt - 1 ELSE attempt
  /\ pc = "awaiting" => attempt >= 1
  /\ pc = "backingOff" => attempt < maxAttempts /\ IsRetryable(log[attempt])

RetryInv ==
  /\ TypeOK
  /\ LogMatchesAttempts
  /\ AttemptsAndDelaysAreBounded
  /\ ReturnsFirstDefiniteReply

-----------------------------------------------------------------------------
LEMMA LimitType ==
  ASSUME TypeOK
  PROVE  maxAttempts \in Nat
  BY PolicyAssumption DEF TypeOK

LEMMA TryCallType ==
  ASSUME NEW reply \in Replies
  PROVE  TryCall(reply) \in Outcomes
  BY DEF Replies, TryCall, CarriesValue, Outcome, Outcomes, ErrorKind,
         ClassifySendError, TransientKinds, DefiniteKinds, NoValue

LEMMA StampedType ==
  ASSUME NEW o \in Outcomes, NEW n \in Nat
  PROVE  Stamped(o, n) \in Outcomes
  BY DEF Stamped, Outcomes

\* What receiving a reply does to the log.
LEMMA ReceiveFacts ==
  ASSUME RetryInv, NEW reply \in Replies, Receive(reply)
  PROVE  /\ log' \in Seq(Outcomes)
         /\ Len(log) = attempt - 1 /\ Len(log') = attempt /\ attempt \in Nat /\ attempt >= 1
         /\ log'[attempt] = TryCall(reply)
         /\ \A k \in 1..Len(log) : log'[k] = log[k] /\ IsRetryable(log[k])
<1>1. log \in Seq(Outcomes) /\ TryCall(reply) \in Outcomes /\ attempt \in Nat
  BY TryCallType DEF RetryInv, TypeOK
<1>2. Len(log) = attempt - 1 /\ attempt >= 1 /\ log' = Append(log, TryCall(reply))
  BY DEF RetryInv, LogMatchesAttempts, Receive
<1>3. \A k \in 1..Len(log) : IsRetryable(log[k])
  BY <1>1, <1>2 DEF RetryInv, ReturnsFirstDefiniteReply
<1> QED
  BY <1>1, <1>2, <1>3

LEMMA InitRetryInv == Init => RetryInv
  BY PolicyAssumption
     DEF Init, RetryInv, TypeOK, LogMatchesAttempts, AttemptsAndDelaysAreBounded,
         ReturnsFirstDefiniteReply, Budget, Outcome, Outcomes, NoValue,
         TransientKinds, DefiniteKinds

LEMMA SendRequestKeeps ==
  ASSUME RetryInv, SendRequest
  PROVE  RetryInv'
<1>1. /\ pc' = "awaiting" /\ attempt' = attempt + 1 /\ attempt \in Nat /\ waited \in Nat
      /\ UNCHANGED <<maxAttempts, waited, log, outcome>> /\ Len(log) = attempt /\ maxAttempts \in Nat
      /\ (pc = "ready" /\ attempt = 0 /\ waited = 0) \/ pc = "backingOff"
  BY LimitType DEF RetryInv, TypeOK, SendRequest, LogMatchesAttempts
<1>2. TypeOK' /\ LogMatchesAttempts'
  BY <1>1 DEF RetryInv, TypeOK, LogMatchesAttempts
<1>3. AttemptsAndDelaysAreBounded'
  <2>1. CASE pc = "ready"
    BY <1>1, <2>1 DEF AttemptsAndDelaysAreBounded, Budget
  <2>2. CASE pc = "backingOff"
    <3>1. attempt < maxAttempts /\ 2 * waited = attempt * (attempt + 1)
      BY <2>2 DEF RetryInv, LogMatchesAttempts, AttemptsAndDelaysAreBounded
    <3>2. attempt' * (attempt' - 1) = attempt * (attempt + 1)
      BY <1>1
    <3> QED
      BY <1>1, <3>1, <3>2 DEF AttemptsAndDelaysAreBounded, Budget
  <2> QED
    BY <1>1, <2>1, <2>2
<1>4. ReturnsFirstDefiniteReply'
  <2>1. \A k \in 1..Len(log) : IsRetryable(log[k])
    <3>1. CASE pc = "ready"
      BY <1>1, <3>1
    <3>2. CASE pc = "backingOff"
      BY <1>1, <3>2 DEF RetryInv, LogMatchesAttempts, ReturnsFirstDefiniteReply
    <3> QED
      BY <1>1, <3>1, <3>2
  <2> QED
    BY <1>1, <2>1 DEF ReturnsFirstDefiniteReply
<1> QED
  BY <1>2, <1>3, <1>4 DEF RetryInv

LEMMA BackOffKeeps ==
  ASSUME RetryInv, NEW reply \in Replies, BackOff(reply)
  PROVE  RetryInv'
<1>1. /\ pc = "awaiting" /\ pc' = "backingOff" /\ waited' = waited + attempt
      /\ waited \in Nat /\ attempt' = attempt /\ outcome' = outcome
      /\ attempt < maxAttempts /\ Receive(reply) /\ IsRetryable(TryCall(reply))
      /\ maxAttempts' = maxAttempts /\ maxAttempts \in Nat
  BY LimitType DEF BackOff, Receive, RetryInv, TypeOK
<1>2. /\ log' \in Seq(Outcomes) /\ Len(log') = attempt /\ attempt \in Nat
      /\ log'[attempt] = TryCall(reply)
      /\ Len(log) = attempt - 1 /\ \A k \in 1..Len(log) : log'[k] = log[k] /\ IsRetryable(log[k])
  BY <1>1, ReceiveFacts
<1>3. TypeOK' /\ LogMatchesAttempts'
  BY <1>1, <1>2 DEF RetryInv, TypeOK, LogMatchesAttempts
<1>4. AttemptsAndDelaysAreBounded'
  <2>1. 2 * waited = attempt * (attempt - 1)
    BY <1>1 DEF RetryInv, AttemptsAndDelaysAreBounded
  <2>2. attempt * (attempt - 1) + 2 * attempt = attempt * (attempt + 1)
    BY <1>2
  <2>3. 2 * waited' = attempt' * (attempt' + 1)
    BY <1>1, <1>2, <2>1, <2>2
  <2> QED
    BY <1>1, <2>3 DEF RetryInv, AttemptsAndDelaysAreBounded, Budget
<1>5. ReturnsFirstDefiniteReply'
  BY <1>1, <1>2 DEF ReturnsFirstDefiniteReply, Budget
<1> QED
  BY <1>3, <1>4, <1>5 DEF RetryInv

LEMMA ReturnKeeps ==
  ASSUME RetryInv, NEW reply \in Replies, Return(reply)
  PROVE  RetryInv'
<1>1. /\ pc = "awaiting" /\ pc' = "returned" /\ waited' = waited /\ attempt' = attempt
      /\ Receive(reply) /\ outcome' = Stamped(TryCall(reply), attempt)
      /\ ~(IsRetryable(TryCall(reply)) /\ attempt < maxAttempts)
      /\ maxAttempts' = maxAttempts /\ maxAttempts \in Nat
  BY LimitType DEF Return, Receive, RetryInv
<1>2. /\ log' \in Seq(Outcomes) /\ Len(log') = attempt /\ attempt \in Nat /\ attempt >= 1
      /\ log'[attempt] = TryCall(reply)
      /\ Len(log) = attempt - 1 /\ \A k \in 1..Len(log) : log'[k] = log[k] /\ IsRetryable(log[k])
  BY <1>1, ReceiveFacts
<1>3. TypeOK' /\ LogMatchesAttempts'
  <2>1. outcome' \in Outcomes
    BY <1>1, <1>2, TryCallType, StampedType
  <2> QED
    BY <1>1, <1>2, <2>1 DEF RetryInv, TypeOK, LogMatchesAttempts
<1>4. AttemptsAndDelaysAreBounded'
  BY <1>1 DEF RetryInv, AttemptsAndDelaysAreBounded, Budget
<1>5. ReturnsFirstDefiniteReply'
  <2>1. ~IsRetryable(TryCall(reply)) \/ attempt = Budget
    BY <1>1, <1>2 DEF RetryInv, AttemptsAndDelaysAreBounded, Budget
  <2> QED
    BY <1>1, <1>2, <2>1 DEF ReturnsFirstDefiniteReply, Budget
<1> QED
  BY <1>3, <1>4, <1>5 DEF RetryInv

LEMMA NextRetryInv == RetryInv /\ [Next]_vars => RetryInv'
<1> SUFFICES ASSUME RetryInv, [Next]_vars PROVE RetryInv'
  OBVIOUS
<1>1. CASE SendRequest
  BY <1>1, SendRequestKeeps
<1>2. CASE ReplyArrives
  BY <1>2, BackOffKeeps, ReturnKeeps DEF ReplyArrives
<1>3. CASE UNCHANGED vars
  BY <1>3 DEF vars, RetryInv, TypeOK, LogMatchesAttempts, AttemptsAndDelaysAreBounded,
              ReturnsFirstDefiniteReply, Budget
<1> QED
  BY <1>1, <1>2, <1>3 DEF Next, Returned

\* The retry loop's variables keep their types.
THEOREM TypeCorrect == Spec => []TypeOK
<1>1. RetryInv => TypeOK
  BY DEF RetryInv
<1> QED
  BY InitRetryInv, NextRetryInv, <1>1, PTL DEF Spec

\* Never more requests than the policy allows (one, if it allows none), and the
\* exact total of the delays between them.
THEOREM BoundedAttempts == Spec => []AttemptsAndDelaysAreBounded
<1>1. RetryInv => AttemptsAndDelaysAreBounded
  BY DEF RetryInv
<1> QED
  BY InitRetryInv, NextRetryInv, <1>1, PTL DEF Spec

\* The call returns the first definite reply, or the last transient failure of a
\* full budget, with the true number of attempts.
THEOREM FirstDefiniteReply == Spec => []ReturnsFirstDefiniteReply
<1>1. RetryInv => ReturnsFirstDefiniteReply
  BY DEF RetryInv
<1> QED
  BY InitRetryInv, NextRetryInv, <1>1, PTL DEF Spec
=============================================================================
