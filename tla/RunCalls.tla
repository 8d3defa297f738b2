------------------------------- MODULE RunCalls -------------------------------
(***************************************************************************)
(* A run and the calls it makes: canary_runner::execute with one           *)
(* HttpRpcClient call (a loop of requests and back-offs) behind every       *)
(* fixture in flight.  A fixture's future sends its first request when the  *)
(* stream first polls it, holds its place in the window over all retries    *)
(* and the sleeps between them, and finishes in the step in which its call  *)
(* returns: between the last await and the end of the future nothing else   *)
(* is polled.                                                              *)
(***************************************************************************)
EXTENDS Naturals, Sequences, FiniteSets, Functions

CONSTANTS
  FixtureIds, Plan, Stems, Stem, EarlierResults, StoresMayFail, Concurrencies, NoEntry,
              \* those of Execution
  Limits, Values, \* those of RpcClient
  Exchanges   \* the replies the servers of this instance give

VARIABLES
  verdict, maxConcurrency, cacheAtStart, cache, phase, next, inFlight, collected, results,
              \* those of Execution
  maxAttempts,\* one client, cloned for the two surfaces: one retry policy
  calls       \* calls[f]: the state of f's call, the variables of RpcClient

Run == INSTANCE Execution

Call(f) == INSTANCE RpcClient WITH
  pc <- calls[f].pc, attempt <- calls[f].attempt, waited <- calls[f].waited,
  log <- calls[f].log, outcome <- calls[f].outcome

ASSUME ExchangesAssumption ==
  Exchanges \subseteq
    [send : {"answered", "timedOut", "failed"}, status : {"429", "5xx", "other"},
     body : {"brokenOff", "notJson", "json"}, error : BOOLEAN,
     result : {"absent", "illTyped"} \cup Values]

\* The plan that is run is one Execution admits.
ASSUME RunAssumptions ==
  /\ Run!PlanAssumption
  /\ Run!UniqueIdsAssumption
  /\ Run!StemAssumption
  /\ Run!SettingsAssumption
  /\ Run!EarlierResultsAssumption
  /\ Run!NoEntryAssumption

\* And the policies and values are ones RpcClient admits.
ASSUME ClientAssumptions == Limits \subseteq Nat /\ {"absent", "illTyped"} \cap Values = {}

runVars == <<verdict, maxConcurrency, cacheAtStart, cache, phase, next, inFlight, collected,
             results>>

vars == <<runVars, maxAttempts, calls>>

\* The fixtures that may make a call.
Callers == Range(Plan["rpc"]) \cup Range(Plan["soroban"])

\* What a future holds before it is polled: nothing has been sent.
Unstarted ==
  [pc |-> "ready", attempt |-> 0, waited |-> 0, log |-> <<>>,
   outcome |-> [kind |-> "InvalidResponse", value |-> "absent", attempts |-> 0]]

Init ==
  /\ Run!Init
  /\ maxAttempts \in Limits
  /\ calls = [f \in Callers |-> Unstarted]

-----------------------------------------------------------------------------
\* The steps of a run that concern no call.
RunAlone ==
  /\ \/ Run!XdrFromCache
     \/ Run!XdrRun
     \/ Run!AnswerFromCache
     \/ Run!FailToBuild
     \/ Run!EndSurface
     \/ Run!Finished
  /\ UNCHANGED <<maxAttempts, calls>>

Requested(call) == [call EXCEPT !.pc = "awaiting", !.attempt = @ + 1]

\* The future's first poll goes on to its first request.
StartCall ==
  /\ Run!SendCall
  /\ calls' = [calls EXCEPT ![Run!Upcoming] = Requested(@)]
  /\ UNCHANGED maxAttempts

\* Variant: a request sent again is not counted.
RequestAgainUncounted(f) ==
  /\ calls[f].pc = "backingOff"
  /\ calls' = [calls EXCEPT ![f].pc = "awaiting"]
  /\ UNCHANGED <<runVars, maxAttempts>>

\* The back-off of f's call is over.
RequestAgain(f) ==
  /\ calls[f].pc = "backingOff"
  /\ calls' = [calls EXCEPT ![f] = Requested(@)]
  /\ UNCHANGED <<runVars, maxAttempts>>

Logged(f, reply) == Append(calls[f].log, Call(f)!TryCall(reply))

MayRetry(f, reply) ==
  Call(f)!IsRetryable(Call(f)!TryCall(reply)) /\ calls[f].attempt < maxAttempts

\* Variant: a call that backs off gives up its place in the window.
RetryLaterOutside(i, reply) ==
  LET f == Plan[phase][i] IN
  /\ calls[f].pc = "awaiting"
  /\ MayRetry(f, reply)
  /\ calls' = [calls EXCEPT ![f].pc = "backingOff", ![f].waited = @ + calls[f].attempt,
                            ![f].log = Logged(f, reply)]
  /\ next' = next
  /\ inFlight' = inFlight \ {i}
  /\ UNCHANGED <<verdict, maxConcurrency, cacheAtStart, cache, phase, collected, results,
                 maxAttempts>>

\* A transient failure with attempts left, while fixture i stays in flight.
RetryLater(i, reply) ==
  LET f == Plan[phase][i] IN
  /\ calls[f].pc = "awaiting"
  /\ MayRetry(f, reply)
  /\ calls' = [calls EXCEPT ![f].pc = "backingOff", ![f].waited = @ + calls[f].attempt,
                            ![f].log = Logged(f, reply)]
  /\ UNCHANGED <<runVars, maxAttempts>>

\* The call of fixture i returns, and the fixture with it.  An error of the call
\* is an error of the fixture; a value never is.
EndCall(i, reply) ==
  LET f == Plan[phase][i]
      outcome == Call(f)!Stamped(Call(f)!TryCall(reply), calls[f].attempt)
  IN /\ calls[f].pc = "awaiting"
     /\ ~MayRetry(f, reply)
     /\ (outcome.kind # "Value") <=> (verdict[f] = "error")
     /\ calls' = [calls EXCEPT ![f].pc = "returned", ![f].log = Logged(f, reply),
                               ![f].outcome = outcome]
     /\ Run!FinishCall(i)
     /\ UNCHANGED maxAttempts

ReplyArrives(i) == \E reply \in Exchanges : RetryLater(i, reply) \/ EndCall(i, reply)

Next ==
  \/ RunAlone
  \/ StartCall
  \/ \E f \in Callers : RequestAgain(f)
  \/ \E i \in inFlight : ReplyArrives(i)

Spec == Init /\ [][Next]_vars

Positions == 1..Cardinality(Callers)

\* The task is polled, timers fire and every request is answered or breaks.
Fairness ==
  /\ WF_vars(RunAlone)
  /\ WF_vars(StartCall)
  /\ \A f \in Callers : WF_vars(RequestAgain(f))
  /\ \A i \in Positions : WF_vars(i \in inFlight /\ ReplyArrives(i))

FairSpec == Spec /\ Fairness

-----------------------------------------------------------------------------
(* Properties.                                                             *)

\* Whatever the run does around it, each fixture's call goes through the loop of
\* HttpRpcClient::call and nothing else (client.rs:124-153).
EachCallIsAClient ==
  /\ \A f \in Callers : Call(f)!Init
  /\ [][\A f \in Callers : [Call(f)!Next]_(Call(f)!vars)]_<<maxAttempts, calls>>

\* The run with its calls is a run as Execution has it, under the fairness that
\* module assumes: that a call returns needs no more than that the requests are
\* answered or break, because every call gives up after its last attempt
\* (execution.rs:21-33, client.rs:136-152).
RunsAsExecution == Run!FairSpec

\* What the server sees of a run.  At most max_concurrency requests are open at
\* any moment; a fixture that backs off keeps its place, so no other is started
\* for it; over all the run no fixture costs more requests than the policy has
\* attempts; and one found in the cache, or that cannot be built, sends none at
\* all (execution.rs:26, 68-91, client.rs:136-139).
ServerLoadIsBounded ==
  LET open    == {f \in Callers : calls[f].pc = "awaiting"}
      waiting == {f \in Callers : calls[f].pc = "backingOff"}
      silent  == {f \in Callers : \/ cacheAtStart[Stem[f]] # NoEntry
                                  \/ verdict[f] = "unbuildable"}
      budget  == IF maxAttempts = 0 THEN 1 ELSE maxAttempts
  IN /\ Cardinality(open) <= IF maxConcurrency = 0 THEN 1 ELSE maxConcurrency
     /\ Cardinality(open \cup waiting) = Cardinality(inFlight)
     /\ \A f \in Callers : calls[f].attempt <= IF f \in silent THEN 0 ELSE budget

\* Line by line, the report tells the calls' story: a network fixture is an
\* error exactly when it could not be built or its own call, not a neighbour's,
\* ended without a value, and one that sent no request otherwise is reported as
\* the cache had it (execution.rs:77-86, 114-123).
ReportTellsOwnCall ==
  phase = "done" =>
    \A k \in DOMAIN results :
      LET f == Run!PlanOrder[k] IN
      f \in Callers =>
        /\ (results[k].status = "error") <=>
             \/ calls[f].pc = "returned" /\ calls[f].outcome.kind # "Value"
             \/ calls[f].pc = "ready" /\ cacheAtStart[Stem[f]] = NoEntry
        /\ calls[f].pc = "ready" /\ cacheAtStart[Stem[f]] # NoEntry
             => results[k] = cacheAtStart[Stem[f]]

\* execute returns: no schedule of replies, retries and completions leaves the
\* stream waiting.
RunCompletes == <>(phase = "done")
=============================================================================
