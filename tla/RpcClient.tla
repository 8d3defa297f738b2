------------------------------ MODULE RpcClient ------------------------------
(***************************************************************************)
(* canary_rpc::HttpRpcClient, one JSON-RPC call: send a request, classify  *)
(* what came back, and either return it or back off and send again.        *)
(* Time is counted in units of RetryPolicy::base_delay.                    *)
(***************************************************************************)
EXTENDS Naturals, Sequences

CONSTANTS
  Limits,  \* the values of RetryPolicy::max_attempts, a u32: zero is allowed
  Values   \* the typed results a response can carry

ASSUME PolicyAssumption == Limits \subseteq Nat

ASSUME ValuesAssumption == {"absent", "illTyped"} \cap Values = {}

\* What one HTTP exchange can come to: sending fails, or a response with a
\* status and a body that reads or breaks off, is JSON or not, and carries an
\* "error" field, a "result" field, both or neither.
Replies ==
  [send   : {"answered", "timedOut", "failed"},
   status : {"429", "5xx", "other"},
   body   : {"brokenOff", "notJson", "json"},
   error  : BOOLEAN,
   result : {"absent", "illTyped"} \cup Values]

TransientKinds == {"Transport", "Timeout", "RateLimited"}
DefiniteKinds  == {"Value", "InvalidJson", "JsonRpcError", "InvalidResponse"}

\* "attempts" is the field of RpcError::Timeout and RateLimited; 0 elsewhere.
Outcome(kind, value, attempts) ==
  [kind |-> kind, value |-> value, attempts |-> attempts]

NoValue == "absent"

Outcomes ==
  [kind : TransientKinds \cup DefiniteKinds, value : Values \cup {NoValue}, attempts : Nat]

-----------------------------------------------------------------------------
(* try_call: the first thing wrong with the exchange decides.  The status   *)
(* is looked at for 429 and 5xx only, and an "error" field wins over a      *)
(* "result" field.                                                          *)

ClassifySendError(reply) == IF reply.send = "timedOut" THEN "Timeout" ELSE "Transport"

ErrorKind(reply) ==
  CASE reply.send # "answered"    -> ClassifySendError(reply)
    [] reply.status = "429"       -> "RateLimited"
    [] reply.status = "5xx"       -> "Transport"
    [] reply.body = "brokenOff"   -> "Transport"
    [] reply.body = "notJson"     -> "InvalidJson"
    [] reply.error                -> "JsonRpcError"
    [] OTHER                      -> "InvalidResponse"

\* Variant: the result is handed on without being given its type.
CarriesAnyResult(reply) ==
  /\ reply.send = "answered"
  /\ reply.status = "other"
  /\ reply.body = "json"
  /\ ~reply.error
  /\ reply.result # "absent"

CarriesValue(reply) ==
  /\ reply.send = "answered"
  /\ reply.status = "other"
  /\ reply.body = "json"
  /\ ~reply.error
  /\ reply.result \in Values

TryCall(reply) ==
  IF CarriesValue(reply) THEN Outcome("Value", reply.result, 0)
  ELSE Outcome(ErrorKind(reply), NoValue, 0)

IsRetryable(outcome) == outcome.kind \in TransientKinds

\* Errors that report an attempt count get it when the call gives up.
Stamped(outcome, attempts) ==
  IF outcome.kind \in {"Timeout", "RateLimited"}
  THEN [outcome EXCEPT !.attempts = attempts]
  ELSE outcome

-----------------------------------------------------------------------------
VARIABLES
  maxAttempts, \* RetryPolicy::max_attempts of this client (never changes)
  pc,        \* "ready", "awaiting", "backingOff" or "returned"
  attempt,   \* the loop's counter: requests sent so far
  waited,    \* total back-off, in units of base_delay
  log,       \* what each finished exchange came to, oldest first
  outcome    \* what the call returned (meaningful once it has)

vars == <<maxAttempts, pc, attempt, waited, log, outcome>>

TypeOK ==
  /\ maxAttempts \in Limits
  /\ pc \in {"ready", "awaiting", "backingOff", "returned"}
  /\ attempt \in Nat
  /\ waited \in Nat
  /\ log \in Seq(Outcomes)
  /\ outcome \in Outcomes

Init ==
  /\ maxAttempts \in Limits
  /\ pc = "ready"
  /\ attempt = 0
  /\ waited = 0
  /\ log = <<>>
  /\ outcome = Outcome("InvalidResponse", NoValue, 0)

\* Variant: the loop is left one attempt early, without a result.
SendRequestOrStop ==
  /\ pc \in {"ready", "backingOff"}
  /\ attempt < maxAttempts - 1
  /\ pc' = "awaiting"
  /\ attempt' = attempt + 1
  /\ UNCHANGED <<maxAttempts, waited, log, outcome>>

\* The top of the loop, entered at first and again after each back-off.
SendRequest ==
  /\ pc \in {"ready", "backingOff"}
  /\ pc' = "awaiting"
  /\ attempt' = attempt + 1
  /\ UNCHANGED <<maxAttempts, waited, log, outcome>>

Receive(reply) ==
  /\ pc = "awaiting"
  /\ log' = Append(log, TryCall(reply))

\* Variant: one attempt too many.
BackOffOnceMore(reply) ==
  /\ Receive(reply)
  /\ IsRetryable(TryCall(reply))
  /\ attempt <= maxAttempts
  /\ pc' = "backingOff"
  /\ waited' = waited + attempt
  /\ UNCHANGED <<maxAttempts, attempt, outcome>>

\* A transient failure with attempts left: sleep base_delay * attempt.
BackOff(reply) ==
  /\ Receive(reply)
  /\ IsRetryable(TryCall(reply))
  /\ attempt < maxAttempts
  /\ pc' = "backingOff"
  /\ waited' = waited + attempt
  /\ UNCHANGED <<maxAttempts, attempt, outcome>>

\* Variant: the attempts made are not filled in.
ReturnUnstamped(reply) ==
  /\ Receive(reply)
  /\ ~(IsRetryable(TryCall(reply)) /\ attempt < maxAttempts)
  /\ pc' = "returned"
  /\ outcome' = TryCall(reply)
  /\ UNCHANGED <<maxAttempts, attempt, waited>>

\* A value, an error retrying cannot mend, or the last attempt's failure.
Return(reply) ==
  /\ Receive(reply)
  /\ ~(IsRetryable(TryCall(reply)) /\ attempt < maxAttempts)
  /\ pc' = "returned"
  /\ outcome' = Stamped(TryCall(reply), attempt)
  /\ UNCHANGED <<maxAttempts, attempt, waited>>

Returned ==
  /\ pc = "returned"
  /\ UNCHANGED vars

ReplyArrives == \E reply \in Replies : BackOff(reply) \/ Return(reply)

Next == SendRequest \/ ReplyArrives \/ Returned

Spec == Init /\ [][Next]_vars

\* The task is scheduled, and every request sent is answered or breaks: the
\* client sets no timeout of its own (reqwest::Client::new), so the second
\* conjunct is an assumption about the network, not about this code.
Fairness == WF_vars(SendRequest) /\ WF_vars(ReplyArrives)

FairSpec == Spec /\ Fairness

-----------------------------------------------------------------------------
(* Properties.                                                              *)

\* max_attempts, but one request is sent whatever the policy says.
Budget == IF maxAttempts = 0 THEN 1 ELSE maxAttempts

\* The loop never sends one request too many, whatever mix of failures it
\* meets, and its linear back-off adds up to 1 + 2 + ... + (attempt - 1)
\* delays before the current request (client.rs:132-139).
AttemptsAndDelaysAreBounded ==
  /\ attempt <= Budget
  /\ pc = "backingOff" => 2 * waited = attempt * (attempt + 1)
  /\ pc \in {"awaiting", "returned"} => 2 * waited = attempt * (attempt - 1)

\* The call returns the first reply that is not a transient failure, or the
\* last of a full budget of transient failures; an error that states how many
\* attempts were made states the number of requests really sent, and nothing
\* of an earlier attempt shows in what is returned (client.rs:78-82, 136-152).
ReturnsFirstDefiniteReply ==
  /\ \A k \in 1..Len(log) : k < attempt => IsRetryable(log[k])
  /\ pc = "returned" =>
       LET last == log[Len(log)] IN
         /\ Len(log) = attempt
         /\ ~IsRetryable(last) \/ attempt = Budget
         /\ outcome = Stamped(last, attempt)

\* With answered requests the call returns: no mix of failures makes it retry
\* for ever.
CallReturns == <>(pc = "returned")
=============================================================================
