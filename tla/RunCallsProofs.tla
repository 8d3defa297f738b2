---------------------------- MODULE RunCallsProofs ----------------------------
(***************************************************************************)
(* Theorems about a run and its calls, for every plan, window, retry policy *)
(* and set of replies.  What is known of the run alone is taken from        *)
(* ExecutionProofs.                                                        *)
(***************************************************************************)
EXTENDS RunCalls, FiniteSetTheorems, FunctionTheorems, SequenceTheorems, TLAPS

Facts == INSTANCE ExecutionProofs

-----------------------------------------------------------------------------
(* Facts! and Run! are two instances of the same definitions.              *)

LEMMA Assumed ==
  /\ Facts!PlanAssumption
  /\ Facts!UniqueIdsAssumption
  /\ Facts!StemAssumption
  /\ Facts!SettingsAssumption
  /\ Facts!EarlierResultsAssumption
  /\ Facts!NoEntryAssumption
BY RunAssumptions
   DEF Run!PlanAssumption, Run!UniqueIdsAssumption, Run!StemAssumption, Run!SettingsAssumption,
       Run!EarlierResultsAssumption, Run!NoEntryAssumption, Run!Surfaces, Run!Entry, Run!Result,
       Run!RunnerStatuses,
       Facts!PlanAssumption, Facts!UniqueIdsAssumption, Facts!StemAssumption,
       Facts!SettingsAssumption, Facts!EarlierResultsAssumption, Facts!NoEntryAssumption,
       Facts!Surfaces, Facts!Entry, Facts!Result, Facts!RunnerStatuses

LEMMA SameInit == Run!Init <=> Facts!Init
BY DEF Run!Init, Run!Planned, Run!Surfaces, Run!Verdicts, Run!RunnerStatuses, Run!Range,
       Facts!Init, Facts!Planned, Facts!Surfaces, Facts!Verdicts, Facts!RunnerStatuses, Facts!Range

LEMMA SameFinite ==
  ASSUME NEW S
  PROVE  (Run!IsFiniteSet(S) <=> IsFiniteSet(S)) /\ (Facts!IsFiniteSet(S) <=> IsFiniteSet(S))
BY DEF Run!IsFiniteSet, Facts!IsFiniteSet, IsFiniteSet

LEMMA SameCardinality ==
  ASSUME NEW S
  PROVE  Run!Cardinality(S) = Cardinality(S) /\ Facts!Cardinality(S) = Cardinality(S)
BY DEF Run!Cardinality, Facts!Cardinality, Cardinality

LEMMA SameWords ==
  /\ Run!Upcoming = Facts!Upcoming
  /\ Run!Pull <=> Facts!Pull
  /\ \A f : Run!Cached(f) <=> Facts!Cached(f)
BY SameCardinality
   DEF Run!Upcoming, Run!Pull, Run!Window, Run!TakeUpcoming, Run!NetworkSurfaces, Run!Surfaces,
       Run!Cached, Run!Lookup,
       Facts!Upcoming, Facts!Pull, Facts!Window, Facts!TakeUpcoming, Facts!NetworkSurfaces,
       Facts!Surfaces, Facts!Cached, Facts!Lookup

LEMMA SamePut == \A f, r : Run!AfterPut(f, r) = Facts!AfterPut(f, r)
BY DEF Run!AfterPut, Facts!AfterPut

LEMMA SameRan == \A f, s : Run!Ran(f, s) = Facts!Ran(f, s)
BY DEF Run!Ran, Facts!Ran

LEMMA SameCollect == \A i, r : Run!Collect(i, r) <=> Facts!Collect(i, r)
BY DEF Run!Collect, Facts!Collect

LEMMA SameSteps ==
  /\ Run!XdrFromCache <=> Facts!XdrFromCache
  /\ Run!XdrRun <=> Facts!XdrRun
  /\ Run!AnswerFromCache <=> Facts!AnswerFromCache
  /\ Run!FailToBuild <=> Facts!FailToBuild
  /\ Run!SendCall <=> Facts!SendCall
  /\ \A i : Run!FinishCall(i) <=> Facts!FinishCall(i)
  /\ Run!EndSurface <=> Facts!EndSurface
  /\ Run!Finished <=> Facts!Finished
<1>1. Run!XdrFromCache <=> Facts!XdrFromCache
  BY SameWords DEF Run!XdrFromCache, Facts!XdrFromCache, Run!TakeUpcoming, Facts!TakeUpcoming,
     Run!Surfaces, Facts!Surfaces, Run!Lookup, Facts!Lookup
<1>2. Run!XdrRun <=> Facts!XdrRun
  BY SameWords, SamePut, SameRan DEF Run!XdrRun, Facts!XdrRun, Run!TakeUpcoming, Facts!TakeUpcoming,
     Run!Surfaces, Facts!Surfaces
<1>3. Run!AnswerFromCache <=> Facts!AnswerFromCache
  BY SameWords, SameCollect DEF Run!AnswerFromCache, Facts!AnswerFromCache, Run!Lookup, Facts!Lookup
<1>4. Run!FailToBuild <=> Facts!FailToBuild
  BY SameWords, SameCollect, SamePut, SameRan DEF Run!FailToBuild, Facts!FailToBuild
<1>5. Run!SendCall <=> Facts!SendCall
  BY SameWords DEF Run!SendCall, Facts!SendCall
<1>6. \A i : Run!FinishCall(i) <=> Facts!FinishCall(i)
  BY SameCollect, SamePut, SameRan DEF Run!FinishCall, Facts!FinishCall
<1>7. Run!EndSurface <=> Facts!EndSurface
  BY DEF Run!EndSurface, Facts!EndSurface, Run!Surfaces, Facts!Surfaces, Run!InIndexOrder,
     Facts!InIndexOrder, Run!Following, Facts!Following, Run!Range, Facts!Range
<1>8. Run!Finished <=> Facts!Finished
  BY DEF Run!Finished, Facts!Finished, Run!vars, Facts!vars
<1> QED
  BY <1>1, <1>2, <1>3, <1>4, <1>5, <1>6, <1>7, <1>8

-----------------------------------------------------------------------------
(* A step of the run with its calls is a step of the run.                   *)

LEMMA StepOfRun ==
  ASSUME [Next]_vars
  PROVE  [Facts!Next]_(Facts!vars)
<1>1. CASE RunAlone
  BY <1>1, SameSteps DEF RunAlone, Facts!Next
<1>2. CASE StartCall
  BY <1>2, SameSteps DEF StartCall, Facts!Next
<1>3. CASE UNCHANGED runVars
  BY <1>3 DEF runVars, Facts!vars
<1>4. CASE \E i \in inFlight : ReplyArrives(i)
  <2>1. PICK i \in inFlight, reply \in Exchanges : RetryLater(i, reply) \/ EndCall(i, reply)
    BY <1>4 DEF ReplyArrives
  <2>2. CASE RetryLater(i, reply)
    BY <1>3, <2>2 DEF RetryLater
  <2>3. CASE EndCall(i, reply)
    <3>1. Facts!FinishCall(i)
      BY <2>3, SameSteps DEF EndCall
    <3> QED
      BY <3>1 DEF Facts!Next
  <2> QED
    BY <2>1, <2>2, <2>3
<1> QED
  BY <1>1, <1>2, <1>3, <1>4 DEF Next, RequestAgain, vars

\* The run, its cache and its results do not depend on how the calls come to
\* their ends: the run with its calls is a run of Execution.
THEOREM RunIsExecution == Spec => Run!Spec
<1>1. Init => Run!Init
  BY DEF Init
<1>2. [Next]_vars => [Run!Next]_(Run!vars)
  <2>1. [Facts!Next]_(Facts!vars) => [Run!Next]_(Run!vars)
    BY SameSteps DEF Run!Next, Facts!Next, Run!vars, Facts!vars
  <2> QED
    BY <2>1, StepOfRun
<1> QED
  BY <1>1, <1>2, PTL DEF Spec, Run!Spec

-----------------------------------------------------------------------------
(***************************************************************************)
(* Each fixture's call, by the fixture's place in the plan: it has not      *)
(* begun before the fixture is taken, is under way for as long as the       *)
(* fixture is in flight, and is over, or was never needed, afterwards.      *)
(***************************************************************************)
Networks == {"rpc", "soroban"}

Untaken(s, k) ==
  \/ s = phase /\ k > next
  \/ phase = "xdr"
  \/ phase = "rpc" /\ s = "soroban"

InFlight(s, k) == s = phase /\ k \in inFlight

Silent(f) == cacheAtStart[Stem[f]] # NoEntry \/ verdict[f] = "unbuildable"

PlaceInv(s, k) ==
  LET f == Plan[s][k] IN
  /\ Untaken(s, k) => calls[f].pc = "ready"
  /\ InFlight(s, k) => calls[f].pc \in {"awaiting", "backingOff"}
  /\ ~Untaken(s, k) /\ ~InFlight(s, k) => calls[f].pc \in {"ready", "returned"}
  /\ calls[f].pc # "ready" => ~Silent(f)
  /\ calls[f].pc = "returned" =>
       ((calls[f].outcome.kind # "Value") <=> (verdict[f] = "error"))

CallOutcomes ==
  [kind : {"Transport", "Timeout", "RateLimited", "Value", "InvalidJson", "JsonRpcError",
           "InvalidResponse"},
   value : Values \cup {"absent"}, attempts : Nat]

CallStates ==
  [pc : {"ready", "awaiting", "backingOff", "returned"}, attempt : Nat, waited : Nat,
   log : Seq(CallOutcomes), outcome : CallOutcomes]

CallsType == maxAttempts \in Limits /\ calls \in [Callers -> CallStates]

\* No call makes more attempts than the policy has, and one that backs off has
\* an attempt left.
Budget == IF maxAttempts = 0 THEN 1 ELSE maxAttempts

AttemptInv(f) ==
  /\ calls[f].pc = "ready" => calls[f].attempt = 0
  /\ calls[f].pc = "backingOff" => calls[f].attempt < maxAttempts
  /\ calls[f].attempt <= Budget

CallsInv ==
  /\ Facts!HitInv
  /\ CallsType
  /\ \A f \in Callers : AttemptInv(f)
  /\ \A s \in Networks : \A k \in 1..Len(Plan[s]) : PlaceInv(s, k)

-----------------------------------------------------------------------------
(* Places: every caller has one, and no two have the same.                  *)

LEMMA NetworkLists ==
  ASSUME NEW s \in Networks
  PROVE  Plan[s] \in Seq(FixtureIds) /\ Len(Plan[s]) \in Nat
BY Assumed DEF Facts!PlanAssumption, Facts!Surfaces, Networks

LEMMA CallerAt ==
  ASSUME NEW s \in Networks, NEW k \in 1..Len(Plan[s])
  PROVE  Plan[s][k] \in Callers /\ Plan[s][k] \in FixtureIds
BY NetworkLists DEF Callers, Networks, Range

LEMMA PlaceOfCaller ==
  ASSUME NEW f \in Callers
  PROVE  \E s \in Networks : \E k \in 1..Len(Plan[s]) : f = Plan[s][k]
BY NetworkLists DEF Callers, Networks, Range

LEMMA OnePlace ==
  ASSUME NEW s \in Networks, NEW k \in 1..Len(Plan[s]),
         NEW t \in Networks, NEW i \in 1..Len(Plan[t]), Plan[s][k] = Plan[t][i]
  PROVE  s = t /\ k = i
BY Assumed DEF Facts!UniqueIdsAssumption, Facts!Surfaces, Networks

-----------------------------------------------------------------------------
(* What is needed of the run.                                              *)

LEMMA RunShape ==
  ASSUME Facts!HitInv
  PROVE  /\ phase \in {"xdr", "rpc", "soroban", "done"}
         /\ next \in Nat /\ inFlight \subseteq 1..next
         /\ phase \in Networks => next <= Len(Plan[phase])
         /\ phase \notin Networks => inFlight = {}
         /\ IsFiniteSet(inFlight) /\ Cardinality(inFlight) \in Nat
         /\ Cardinality(inFlight) <= IF maxConcurrency = 0 THEN 1 ELSE maxConcurrency
         /\ maxConcurrency \in Nat
<1>1. IsFiniteSet(inFlight) /\ Facts!Cardinality(inFlight) = Cardinality(inFlight)
  BY SameFinite, SameCardinality DEF Facts!HitInv, Facts!TypeInv, Facts!SlotInv, Facts!SlotCount
<1>2. Cardinality(inFlight) \in Nat
  BY <1>1, FS_CardinalityType
<1> QED
  BY <1>1, <1>2, Assumed
     DEF Facts!HitInv, Facts!TypeInv, Facts!TypeOK, Facts!SlotInv, Facts!NextInRange,
         Facts!CallsAreBounded, Facts!NoFixtureLostOrDoubled, Facts!Phases, Facts!Surfaces,
         Facts!NetworkSurfaces, Facts!Window, Facts!SettingsAssumption, Networks

LEMMA TakenShape ==
  ASSUME Facts!HitInv, Facts!Pull
  PROVE  /\ phase \in Networks /\ next + 1 \in 1..Len(Plan[phase])
         /\ next' = next + 1 /\ UNCHANGED <<phase, verdict, cacheAtStart>>
         /\ Facts!Upcoming = Plan[phase][next + 1]
BY RunShape, NetworkLists
   DEF Facts!Pull, Facts!TakeUpcoming, Facts!NetworkSurfaces, Facts!Upcoming, Networks

-----------------------------------------------------------------------------
(* Steps, and the places they leave as they were.                          *)

LEMMA PlaceKept ==
  ASSUME NEW s, NEW k, PlaceInv(s, k), calls'[Plan[s][k]] = calls[Plan[s][k]],
         UNCHANGED <<cacheAtStart, verdict>>,
         InFlight(s, k)' <=> InFlight(s, k), Untaken(s, k)' => Untaken(s, k),
         Untaken(s, k) => Untaken(s, k)' \/ ~InFlight(s, k)'
  PROVE  PlaceInv(s, k)'
BY DEF PlaceInv, Silent

\* A step of the call at one place.
LEMMA OtherPlacesKept ==
  ASSUME CallsInv, NEW t \in Networks, NEW i \in 1..Len(Plan[t]), NEW c \in CallStates,
         calls' = [calls EXCEPT ![Plan[t][i]] = c], UNCHANGED <<cacheAtStart, verdict, phase>>,
         next' = next \/ (t = phase /\ i = next + 1 /\ next' = next + 1),
         inFlight' \in {inFlight, inFlight \cup {i}, inFlight \ {i}},
         inFlight' # inFlight => t = phase,
         PlaceInv(t, i)'
  PROVE  \A s \in Networks : \A k \in 1..Len(Plan[s]) : PlaceInv(s, k)'
<1> SUFFICES ASSUME NEW s \in Networks, NEW k \in 1..Len(Plan[s]), s # t \/ k # i
             PROVE  PlaceInv(s, k)'
  OBVIOUS
<1>1. Plan[s][k] # Plan[t][i] /\ Plan[s][k] \in Callers
  BY OnePlace, CallerAt
<1>2. calls'[Plan[s][k]] = calls[Plan[s][k]]
  BY <1>1 DEF CallsInv, CallsType
<1>3. next \in Nat /\ Len(Plan[s]) \in Nat
  BY RunShape, NetworkLists DEF CallsInv
<1>4. Untaken(s, k)' <=> Untaken(s, k)
  BY <1>3 DEF Untaken
<1>5. InFlight(s, k)' <=> InFlight(s, k)
  BY DEF InFlight
<1> QED
  BY <1>2, <1>4, <1>5, PlaceKept DEF CallsInv

\* A step of the run in which no call moves: fixtures answered at once go from
\* "not taken" to "done", and ending a surface takes none of the next one's.
LEMMA RunAloneKeepsPlaces ==
  ASSUME CallsInv, RunAlone
  PROVE  \A s \in Networks : \A k \in 1..Len(Plan[s]) : PlaceInv(s, k)'
<1> SUFFICES ASSUME NEW s \in Networks, NEW k \in 1..Len(Plan[s])
             PROVE  PlaceInv(s, k)'
  OBVIOUS
<1>1. calls' = calls /\ Len(Plan[s]) \in Nat /\ PlaceInv(s, k)
  BY NetworkLists DEF RunAlone, CallsInv
<1>2. Facts!HitInv
  BY DEF CallsInv
<1>3. CASE Facts!XdrFromCache \/ Facts!XdrRun
  <2>1. phase = "xdr" /\ UNCHANGED <<phase, inFlight, verdict, cacheAtStart>>
    BY <1>3 DEF Facts!XdrFromCache, Facts!XdrRun, Facts!TakeUpcoming
  <2> QED
    BY <1>1, <2>1, PlaceKept DEF Untaken, InFlight
<1>4. CASE Facts!AnswerFromCache \/ Facts!FailToBuild
  <2>1. Facts!Pull /\ inFlight' = inFlight
    BY <1>4 DEF Facts!AnswerFromCache, Facts!FailToBuild
  <2>2. /\ UNCHANGED <<phase, verdict, cacheAtStart>> /\ next' = next + 1
        /\ next \in Nat /\ inFlight \subseteq 1..next
    BY <1>2, <2>1, TakenShape, RunShape
  <2>3. InFlight(s, k)' <=> InFlight(s, k)
    BY <2>1, <2>2 DEF InFlight
  <2>4. Untaken(s, k)' => Untaken(s, k)
    BY <1>1, <2>2 DEF Untaken
  <2>5. Untaken(s, k) => Untaken(s, k)' \/ ~InFlight(s, k)'
    BY <1>1, <2>1, <2>2 DEF Untaken, InFlight
  <2> QED
    BY <1>1, <2>2, <2>3, <2>4, <2>5, PlaceKept
<1>5. CASE Facts!EndSurface
  <2>1. /\ phase' = Facts!Following[phase] /\ next = Len(Plan[phase]) /\ next' = 0
        /\ inFlight = {} /\ inFlight' = {} /\ UNCHANGED <<verdict, cacheAtStart>>
        /\ phase \in {"xdr", "rpc", "soroban"}
    BY <1>5 DEF Facts!EndSurface, Facts!Surfaces
  <2>2. \/ phase = "xdr" /\ phase' = "rpc"
        \/ phase = "rpc" /\ phase' = "soroban"
        \/ phase = "soroban" /\ phase' = "done"
    BY <2>1 DEF Facts!Following
  <2>3. Untaken(s, k)' <=> Untaken(s, k)
    BY <1>1, <2>1, <2>2 DEF Untaken, Networks
  <2>4. ~InFlight(s, k) /\ ~InFlight(s, k)'
    BY <2>1 DEF InFlight
  <2> QED
    BY <1>1, <2>1, <2>3, <2>4, PlaceKept
<1>6. CASE Facts!Finished
  BY <1>1, <1>6, PlaceKept DEF Facts!Finished, Facts!vars, Untaken, InFlight
<1> QED
  BY <1>3, <1>4, <1>5, <1>6, SameSteps DEF RunAlone

LEMMA StateParts ==
  ASSUME NEW call \in CallStates
  PROVE  /\ call.pc \in {"ready", "awaiting", "backingOff", "returned"} /\ call.attempt \in Nat
         /\ call.waited \in Nat /\ call.log \in Seq(CallOutcomes) /\ call.outcome \in CallOutcomes
         /\ DOMAIN call = {"pc", "attempt", "waited", "log", "outcome"}
         /\ call = [x \in DOMAIN call |-> call[x]]
BY DEF CallStates

LEMMA StateOfParts ==
  ASSUME NEW p \in {"ready", "awaiting", "backingOff", "returned"}, NEW n \in Nat, NEW w \in Nat,
         NEW l \in Seq(CallOutcomes), NEW o \in CallOutcomes
  PROVE  [pc |-> p, attempt |-> n, waited |-> w, log |-> l, outcome |-> o] \in CallStates
<1> DEFINE L == Seq(CallOutcomes)
<1> HIDE DEF L
<1>1. l \in L
  BY DEF L
<1>2. [pc |-> p, attempt |-> n, waited |-> w, log |-> l, outcome |-> o] \in
        [pc : {"ready", "awaiting", "backingOff", "returned"}, attempt : Nat, waited : Nat,
         log : L, outcome : CallOutcomes]
  BY <1>1
<1> QED
  BY <1>2 DEF CallStates, L

LEMMA RequestedType ==
  ASSUME NEW call \in CallStates
  PROVE  /\ Requested(call) \in CallStates
         /\ Requested(call) = [pc |-> "awaiting", attempt |-> call.attempt + 1,
                               waited |-> call.waited, log |-> call.log, outcome |-> call.outcome]
<1> DEFINE c == Requested(call)
<1>1. /\ c.pc = "awaiting" /\ c.attempt = call.attempt + 1 /\ c.waited = call.waited
      /\ c.log = call.log /\ c.outcome = call.outcome
  BY StateParts DEF Requested
<1>2. DOMAIN c = {"pc", "attempt", "waited", "log", "outcome"} /\ c = [x \in DOMAIN call |-> c[x]]
  BY StateParts DEF Requested
<1> HIDE DEF c
<1>3. c = [pc |-> "awaiting", attempt |-> call.attempt + 1, waited |-> call.waited,
           log |-> call.log, outcome |-> call.outcome]
  BY <1>1, <1>2, StateParts
<1>4. c \in CallStates
  <2>1. /\ call.attempt + 1 \in Nat /\ call.waited \in Nat /\ call.log \in Seq(CallOutcomes)
        /\ call.outcome \in CallOutcomes
    BY StateParts
  <2>2. [pc |-> "awaiting", attempt |-> call.attempt + 1, waited |-> call.waited,
         log |-> call.log, outcome |-> call.outcome] \in CallStates
    BY <2>1, StateOfParts
  <2> QED
    BY <1>3, <2>2
<1> QED
  BY <1>3, <1>4 DEF c

LEMMA StartCallKeepsPlaces ==
  ASSUME CallsInv, StartCall
  PROVE  /\ \A s \in Networks : \A k \in 1..Len(Plan[s]) : PlaceInv(s, k)'
         /\ CallsType'
         /\ \E g \in Callers : /\ calls[g].pc = "ready"
                               /\ calls' = [calls EXCEPT ![g] = Requested(calls[g])]
<1>1. /\ Facts!SendCall /\ Facts!Pull /\ Facts!HitInv
      /\ calls' = [calls EXCEPT ![Facts!Upcoming] = Requested(calls[Facts!Upcoming])]
      /\ maxAttempts' = maxAttempts
  BY SameSteps, SameWords DEF StartCall, Facts!SendCall, CallsInv
<1>2. PICK t \in Networks, i \in 1..Len(Plan[phase]) : t = phase /\ i = next + 1
  BY <1>1, TakenShape
<1> DEFINE f == Plan[t][i]
<1>3. /\ Facts!Upcoming = f /\ i \in 1..Len(Plan[t])
      /\ next' = next + 1 /\ UNCHANGED <<phase, verdict, cacheAtStart>>
      /\ next \in Nat /\ inFlight \subseteq 1..next /\ inFlight' = inFlight \cup {i}
  BY <1>1, <1>2, TakenShape, RunShape DEF Facts!SendCall
<1>4. f \in Callers /\ f \in FixtureIds
  BY <1>3, CallerAt
<1>5. calls[f].pc = "ready" /\ calls[f] \in CallStates /\ f \in DOMAIN calls
  <2>1. Untaken(t, i)
    BY <1>2, <1>3 DEF Untaken
  <2> QED
    BY <1>3, <1>4, <2>1 DEF CallsInv, CallsType, PlaceInv
<1>6. PICK c \in CallStates : c = Requested(calls[f]) /\ c.pc = "awaiting"
  BY <1>5, RequestedType
<1>7. calls' = [calls EXCEPT ![f] = c]
  BY <1>1, <1>3, <1>6
<1>8. ~Silent(f)
  <2>1. ~Facts!Cached(f) /\ verdict[f] # "unbuildable"
    BY <1>1, <1>3 DEF Facts!SendCall
  <2>2. cacheAtStart[Stem[f]] = NoEntry
    BY <1>1, <1>4, <2>1, Assumed, Facts!MissedAtStart
  <2> QED
    BY <2>1, <2>2 DEF Silent
<1>9. PlaceInv(t, i)'
  <2>1. calls'[f] = c
    BY <1>5, <1>7
  <2>2. ~Silent(f)'
    BY <1>3, <1>8 DEF Silent
  <2>3. InFlight(t, i)' /\ ~Untaken(t, i)'
    BY <1>2, <1>3 DEF InFlight, Untaken, Networks
  <2> QED
    BY <1>6, <2>1, <2>2, <2>3 DEF PlaceInv
<1>10. CallsType'
  BY <1>1, <1>4, <1>7 DEF CallsInv, CallsType
<1>11. \A s \in Networks : \A k \in 1..Len(Plan[s]) : PlaceInv(s, k)'
  BY <1>2, <1>3, <1>7, <1>9, OtherPlacesKept
<1> QED
  BY <1>4, <1>5, <1>6, <1>7, <1>10, <1>11

LEMMA RequestAgainKeepsPlaces ==
  ASSUME CallsInv, NEW f \in Callers, RequestAgain(f)
  PROVE  /\ \A s \in Networks : \A k \in 1..Len(Plan[s]) : PlaceInv(s, k)'
         /\ CallsType'
<1>1. /\ calls[f].pc = "backingOff" /\ calls' = [calls EXCEPT ![f] = Requested(calls[f])]
      /\ UNCHANGED <<verdict, cacheAtStart, phase, next, inFlight, maxAttempts>>
      /\ calls[f] \in CallStates /\ f \in DOMAIN calls
  BY DEF RequestAgain, runVars, CallsInv, CallsType
<1>2. PICK c \in CallStates : c = Requested(calls[f]) /\ c.pc = "awaiting"
  BY <1>1, RequestedType
<1>3. PICK t \in Networks : \E k \in 1..Len(Plan[t]) : f = Plan[t][k]
  BY PlaceOfCaller
<1> PICK i \in 1..Len(Plan[t]) : f = Plan[t][i]
  BY <1>3
<1>4. PlaceInv(t, i)'
  <2>1. PlaceInv(t, i) /\ calls'[f] = c
    BY <1>1, <1>2 DEF CallsInv
  <2>2. (InFlight(t, i)' <=> InFlight(t, i)) /\ (Untaken(t, i)' <=> Untaken(t, i))
    BY <1>1 DEF InFlight, Untaken
  <2> QED
    BY <1>1, <1>2, <1>3, <2>1, <2>2 DEF PlaceInv, Silent
<1>5. CallsType'
  BY <1>1, <1>2 DEF CallsInv, CallsType
<1>6. \A s \in Networks : \A k \in 1..Len(Plan[s]) : PlaceInv(s, k)'
  BY <1>1, <1>2, <1>3, <1>4, OtherPlacesKept
<1> QED
  BY <1>5, <1>6

\* What one more reply makes of a call.
LEMMA ReplyTypes ==
  ASSUME CallsInv, NEW f \in Callers, NEW reply \in Exchanges
  PROVE  /\ calls[f] \in CallStates
         /\ Call(f)!TryCall(reply) \in CallOutcomes
         /\ Logged(f, reply) \in Seq(CallOutcomes)
         /\ Call(f)!Stamped(Call(f)!TryCall(reply), calls[f].attempt) \in CallOutcomes
<1>1. calls[f] \in CallStates
  BY DEF CallsInv, CallsType
<1>2. Call(f)!TryCall(reply) \in CallOutcomes
  BY ExchangesAssumption
     DEF Call!TryCall, Call!CarriesValue, Call!Outcome, Call!ErrorKind, Call!ClassifySendError,
         Call!NoValue, CallOutcomes
<1>3. calls[f].log \in Seq(CallOutcomes) /\ calls[f].attempt \in Nat
  BY <1>1 DEF CallStates
<1>4. Logged(f, reply) \in Seq(CallOutcomes)
  BY <1>2, <1>3 DEF Logged
<1>5. Call(f)!Stamped(Call(f)!TryCall(reply), calls[f].attempt) \in CallOutcomes
  BY <1>2, <1>3 DEF Call!Stamped, CallOutcomes
<1> QED
  BY <1>1, <1>2, <1>4, <1>5

\* The fixture of a call in flight.
LEMMA AwaitedCaller ==
  ASSUME CallsInv, NEW i \in inFlight
  PROVE  /\ phase \in Networks /\ i \in 1..Len(Plan[phase]) /\ i \in 1..next
         /\ Plan[phase][i] \in Callers /\ Plan[phase][i] \in FixtureIds
         /\ Plan[phase][i] \in DOMAIN calls /\ calls[Plan[phase][i]] \in CallStates
<1>1. Facts!HitInv /\ calls \in [Callers -> CallStates]
  BY DEF CallsInv, CallsType
<1>2. phase \in Networks /\ i \in 1..next /\ next \in Nat /\ next <= Len(Plan[phase])
  BY <1>1, RunShape
<1>3. i \in 1..Len(Plan[phase])
  BY <1>2, NetworkLists
<1>4. Plan[phase][i] \in Callers /\ Plan[phase][i] \in FixtureIds
  BY <1>2, <1>3, CallerAt
<1> QED
  BY <1>1, <1>2, <1>3, <1>4

\* The state a call goes to with a reply after which it tries again.
LEMMA RetryLaterMoves ==
  ASSUME CallsInv, NEW i \in inFlight, NEW reply \in Exchanges, RetryLater(i, reply),
         NEW f, f = Plan[phase][i]
  PROVE  \E c \in CallStates :
           /\ calls' = [calls EXCEPT ![f] = c]
           /\ c = [pc |-> "backingOff", attempt |-> calls[f].attempt,
                   waited |-> calls[f].waited + calls[f].attempt,
                   log |-> Logged(f, reply), outcome |-> calls[f].outcome]
<1> DEFINE d == [calls EXCEPT ![f].pc = "backingOff", ![f].waited = @ + calls[f].attempt,
                              ![f].log = Logged(f, reply)]
           l == Logged(f, reply)
<1>1. /\ f \in Callers /\ calls \in [Callers -> CallStates] /\ calls[f] \in CallStates
      /\ calls' = d
  BY AwaitedCaller DEF CallsInv, CallsType, RetryLater
<1>2. l \in Seq(CallOutcomes)
  BY <1>1, ReplyTypes
<1> HIDE DEF l
<1>3. /\ calls[f].pc \in {"ready", "awaiting", "backingOff", "returned"}
      /\ calls[f].attempt \in Nat /\ calls[f].waited + calls[f].attempt \in Nat
      /\ calls[f].outcome \in CallOutcomes
      /\ calls[f] = [pc |-> calls[f].pc, attempt |-> calls[f].attempt, waited |-> calls[f].waited,
                     log |-> calls[f].log, outcome |-> calls[f].outcome]
  BY <1>1, StateParts DEF CallStates
<1> DEFINE c == [pc |-> "backingOff", attempt |-> calls[f].attempt,
                 waited |-> calls[f].waited + calls[f].attempt, log |-> l,
                 outcome |-> calls[f].outcome]
<1>4. c \in CallStates
  BY <1>2, <1>3, StateOfParts
<1>5. d[f] = c
  BY <1>1, <1>3 DEF l
<1>6. \A g \in Callers \ {f} : d[g] = calls[g]
  BY <1>1
<1>7. d = [g \in Callers |-> d[g]]
  BY <1>1
<1> HIDE DEF d
<1>8. d = [calls EXCEPT ![f] = c]
  BY <1>1, <1>5, <1>6, <1>7
<1> QED
  BY <1>1, <1>4, <1>8 DEF l

\* The state a call goes to with the reply it returns.
LEMMA EndCallMoves ==
  ASSUME CallsInv, NEW i \in inFlight, NEW reply \in Exchanges, EndCall(i, reply),
         NEW f, f = Plan[phase][i]
  PROVE  \E c \in CallStates :
           /\ calls' = [calls EXCEPT ![f] = c]
           /\ c = [pc |-> "returned", attempt |-> calls[f].attempt, waited |-> calls[f].waited,
                   log |-> Logged(f, reply),
                   outcome |-> Call(f)!Stamped(Call(f)!TryCall(reply), calls[f].attempt)]
<1> DEFINE l == Logged(f, reply)
           o == Call(f)!Stamped(Call(f)!TryCall(reply), calls[f].attempt)
           d == [calls EXCEPT ![f].pc = "returned", ![f].log = l, ![f].outcome = o]
<1>1. /\ f \in Callers /\ calls \in [Callers -> CallStates] /\ calls[f] \in CallStates
      /\ calls' = d
  BY AwaitedCaller DEF CallsInv, CallsType, EndCall
<1>2. l \in Seq(CallOutcomes) /\ o \in CallOutcomes
  BY <1>1, ReplyTypes
<1> HIDE DEF l, o
<1>3. /\ calls[f].attempt \in Nat /\ calls[f].waited \in Nat
      /\ calls[f] = [pc |-> calls[f].pc, attempt |-> calls[f].attempt, waited |-> calls[f].waited,
                     log |-> calls[f].log, outcome |-> calls[f].outcome]
  BY <1>1, StateParts DEF CallStates
<1> DEFINE c == [pc |-> "returned", attempt |-> calls[f].attempt, waited |-> calls[f].waited,
                 log |-> l, outcome |-> o]
<1>4. c \in CallStates
  BY <1>2, <1>3, StateOfParts
<1>5. d[f] = c
  BY <1>1, <1>3
<1>6. \A g \in Callers \ {f} : d[g] = calls[g]
  BY <1>1
<1>7. d = [g \in Callers |-> d[g]]
  BY <1>1
<1> HIDE DEF d
<1>8. d = [calls EXCEPT ![f] = c]
  BY <1>1, <1>5, <1>6, <1>7
<1> QED
  BY <1>1, <1>4, <1>8 DEF l, o

\* A call in flight goes on, or ends and frees its fixture's place in the window.
LEMMA ReplyKeepsPlaces ==
  ASSUME CallsInv, NEW i \in inFlight, NEW c \in CallStates,
         calls' = [calls EXCEPT ![Plan[phase][i]] = c],
         calls[Plan[phase][i]].pc = "awaiting",
         UNCHANGED <<verdict, cacheAtStart, phase, next, maxAttempts>>,
         \/ c.pc = "backingOff" /\ inFlight' = inFlight
         \/ /\ c.pc = "returned" /\ inFlight' = inFlight \ {i}
            /\ (c.outcome.kind # "Value") <=> (verdict[Plan[phase][i]] = "error")
  PROVE  /\ \A s \in Networks : \A k \in 1..Len(Plan[s]) : PlaceInv(s, k)'
         /\ CallsType'
<1>1. PICK t \in Networks : t = phase
  BY AwaitedCaller
<1>2. i \in 1..Len(Plan[t]) /\ i \in 1..next /\ Plan[t][i] \in Callers
  BY <1>1, AwaitedCaller
<1> DEFINE f == Plan[t][i]
<1>3. PlaceInv(t, i) /\ calls \in [Callers -> CallStates] /\ next \in Nat
  BY <1>2, RunShape DEF CallsInv, CallsType
<1>4. calls'[f] = c
  BY <1>1, <1>2, <1>3
<1>5. ~Silent(f)
  BY <1>1, <1>3 DEF PlaceInv
<1>6. ~Silent(f)' /\ verdict'[f] = verdict[f]
  BY <1>5 DEF Silent
<1>7. ~Untaken(t, i)'
  BY <1>1, <1>2, <1>3 DEF Untaken, Networks
<1>8. PlaceInv(t, i)'
  <2>1. CASE c.pc = "backingOff" /\ inFlight' = inFlight
    <3>1. InFlight(t, i)'
      BY <1>1, <2>1 DEF InFlight
    <3> QED
      BY <1>4, <1>6, <1>7, <2>1, <3>1 DEF PlaceInv
  <2>2. CASE /\ c.pc = "returned" /\ inFlight' = inFlight \ {i}
             /\ (c.outcome.kind # "Value") <=> (verdict[Plan[phase][i]] = "error")
    <3>1. ~InFlight(t, i)'
      BY <2>2 DEF InFlight
    <3> QED
      BY <1>1, <1>4, <1>6, <1>7, <2>2, <3>1 DEF PlaceInv
  <2> QED
    BY <2>1, <2>2
<1>9. CallsType'
  BY <1>1, <1>2, <1>3 DEF CallsInv, CallsType
<1>10. \A s \in Networks : \A k \in 1..Len(Plan[s]) : PlaceInv(s, k)'
  BY <1>1, <1>2, <1>8, OtherPlacesKept
<1> QED
  BY <1>9, <1>10

-----------------------------------------------------------------------------
(* Every step of the run is, for each call, a step of the client's loop or  *)
(* none at all.                                                             *)

LEMMA UnmovedCall ==
  ASSUME NEW f, calls'[f] = calls[f], maxAttempts' = maxAttempts, AttemptInv(f)
  PROVE  /\ UNCHANGED Call(f)!vars
         /\ AttemptInv(f)'
BY DEF Call!vars, AttemptInv, Budget

LEMMA LimitType ==
  ASSUME CallsInv
  PROVE  maxAttempts \in Nat /\ Budget \in Nat /\ Budget >= 1
BY ClientAssumptions DEF CallsInv, CallsType, Budget

LEMMA RequestIsClient ==
  ASSUME CallsInv, NEW f \in Callers, calls[f].pc \in {"ready", "backingOff"},
         calls'[f] = Requested(calls[f]), maxAttempts' = maxAttempts
  PROVE  /\ Call(f)!Next
         /\ AttemptInv(f)'
<1>1. /\ calls'[f] = [pc |-> "awaiting", attempt |-> calls[f].attempt + 1,
                      waited |-> calls[f].waited, log |-> calls[f].log,
                      outcome |-> calls[f].outcome]
      /\ calls[f].attempt \in Nat /\ AttemptInv(f)
  BY RequestedType DEF CallsInv, CallsType, CallStates
<1>2. Call(f)!Next
  BY <1>1 DEF Call!Next, Call!SendRequest
<1>3. AttemptInv(f)'
  BY <1>1, LimitType DEF AttemptInv, Budget
<1> QED
  BY <1>2, <1>3

LEMMA RetryIsClient ==
  ASSUME CallsInv, NEW f \in Callers, NEW reply \in Exchanges, calls[f].pc = "awaiting",
         MayRetry(f, reply), maxAttempts' = maxAttempts,
         calls'[f] = [pc |-> "backingOff", attempt |-> calls[f].attempt,
                      waited |-> calls[f].waited + calls[f].attempt,
                      log |-> Logged(f, reply), outcome |-> calls[f].outcome]
  PROVE  /\ Call(f)!Next
         /\ AttemptInv(f)'
<1>1. reply \in Call(f)!Replies
  BY ExchangesAssumption DEF Call!Replies
<1>2. Call(f)!BackOff(reply)
  BY DEF Call!BackOff, Call!Receive, MayRetry, Logged
<1>3. AttemptInv(f)'
  BY LimitType DEF AttemptInv, Budget, MayRetry, CallsInv
<1> QED
  BY <1>1, <1>2, <1>3 DEF Call!Next, Call!ReplyArrives

LEMMA EndIsClient ==
  ASSUME CallsInv, NEW f \in Callers, NEW reply \in Exchanges, calls[f].pc = "awaiting",
         ~MayRetry(f, reply), maxAttempts' = maxAttempts,
         calls'[f] = [pc |-> "returned", attempt |-> calls[f].attempt, waited |-> calls[f].waited,
                      log |-> Logged(f, reply),
                      outcome |-> Call(f)!Stamped(Call(f)!TryCall(reply), calls[f].attempt)]
  PROVE  /\ Call(f)!Next
         /\ AttemptInv(f)'
<1>1. reply \in Call(f)!Replies
  BY ExchangesAssumption DEF Call!Replies
<1>2. Call(f)!Return(reply)
  BY DEF Call!Return, Call!Receive, MayRetry, Logged
<1>3. AttemptInv(f)'
  BY DEF AttemptInv, Budget, CallsInv
<1> QED
  BY <1>1, <1>2, <1>3 DEF Call!Next, Call!ReplyArrives

ClientSteps == \A f \in Callers : [Call(f)!Next]_(Call(f)!vars)

\* When one call moves, the others stand still.
LEMMA OneCallMoves ==
  ASSUME CallsInv, NEW g \in Callers, NEW c, calls' = [calls EXCEPT ![g] = c],
         maxAttempts' = maxAttempts, Call(g)!Next, AttemptInv(g)'
  PROVE  ClientSteps /\ \A f \in Callers : AttemptInv(f)'
<1> SUFFICES ASSUME NEW f \in Callers, f # g
             PROVE  UNCHANGED Call(f)!vars /\ AttemptInv(f)'
  BY DEF ClientSteps
<1>1. calls'[f] = calls[f]
  BY DEF CallsInv, CallsType
<1> QED
  BY <1>1, UnmovedCall DEF CallsInv

LEMMA NoCallMoves ==
  ASSUME CallsInv, UNCHANGED <<maxAttempts, calls>>
  PROVE  ClientSteps /\ \A f \in Callers : AttemptInv(f)'
BY UnmovedCall DEF CallsInv, ClientSteps

LEMMA InitCallsInv == Init => CallsInv
<1> SUFFICES ASSUME Init PROVE CallsInv
  OBVIOUS
<1>1. Facts!HitInv
  BY SameInit, Assumed, Facts!InitHitInv DEF Init
<1>2. calls = [f \in Callers |-> Unstarted] /\ maxAttempts \in Limits
  BY DEF Init
<1>3. Unstarted \in CallStates
  <2>1. <<>> \in Seq(CallOutcomes)
    OBVIOUS
  <2>2. Unstarted.outcome \in CallOutcomes
    BY DEF Unstarted, CallOutcomes
  <2> QED
    BY <2>1, <2>2, StateOfParts DEF Unstarted
<1>4. CallsType /\ \A f \in Callers : calls[f].pc = "ready" /\ calls[f].attempt = 0
  BY <1>2, <1>3 DEF CallsType, Unstarted
<1>5. \A f \in Callers : AttemptInv(f)
  BY <1>4, ClientAssumptions DEF AttemptInv, Budget, CallsType
<1>6. \A s \in Networks : \A k \in 1..Len(Plan[s]) : PlaceInv(s, k)
  <2> SUFFICES ASSUME NEW s \in Networks, NEW k \in 1..Len(Plan[s])
               PROVE  PlaceInv(s, k)
    OBVIOUS
  <2>1. calls[Plan[s][k]].pc = "ready"
    BY <1>4, CallerAt
  <2>2. ~InFlight(s, k)
    BY DEF Init, Run!Init, InFlight
  <2> QED
    BY <2>1, <2>2 DEF PlaceInv
<1> QED
  BY <1>1, <1>4, <1>5, <1>6 DEF CallsInv

LEMMA NextCallsInv ==
  ASSUME CallsInv, [Next]_vars
  PROVE  CallsInv' /\ ClientSteps
<1>1. Facts!HitInv'
  BY StepOfRun, Assumed, Facts!NextHitInv DEF CallsInv
<1> DEFINE Places == \A s \in Networks : \A k \in 1..Len(Plan[s]) : PlaceInv(s, k)
           Attempts == \A f \in Callers : AttemptInv(f)
<1>2. CASE RunAlone
  <2>1. UNCHANGED <<maxAttempts, calls>>
    BY <1>2 DEF RunAlone
  <2>2. Places'
    BY <1>2, RunAloneKeepsPlaces
  <2>3. CallsType'
    BY <2>1 DEF CallsInv, CallsType
  <2>4. ClientSteps /\ Attempts'
    BY <2>1, NoCallMoves
  <2> QED
    BY <1>1, <2>2, <2>3, <2>4 DEF CallsInv
<1>3. CASE StartCall
  <2>1. /\ Places' /\ CallsType'
        /\ \E g \in Callers : /\ calls[g].pc = "ready"
                              /\ calls' = [calls EXCEPT ![g] = Requested(calls[g])]
    BY <1>3, StartCallKeepsPlaces
  <2>2. PICK g \in Callers : /\ calls[g].pc = "ready"
                             /\ calls' = [calls EXCEPT ![g] = Requested(calls[g])]
    BY <2>1
  <2>3. calls'[g] = Requested(calls[g]) /\ maxAttempts' = maxAttempts
    BY <1>3, <2>2 DEF StartCall, CallsInv, CallsType
  <2>4. ClientSteps /\ Attempts'
    BY <2>2, <2>3, RequestIsClient, OneCallMoves
  <2> QED
    BY <1>1, <2>1, <2>4 DEF CallsInv
<1>4. CASE \E f \in Callers : RequestAgain(f)
  <2>1. PICK g \in Callers : RequestAgain(g)
    BY <1>4
  <2>2. /\ calls[g].pc = "backingOff" /\ calls' = [calls EXCEPT ![g] = Requested(calls[g])]
        /\ calls'[g] = Requested(calls[g]) /\ maxAttempts' = maxAttempts
    BY <2>1 DEF RequestAgain, CallsInv, CallsType
  <2>3. ClientSteps /\ Attempts'
    BY <2>2, RequestIsClient, OneCallMoves
  <2>4. Places' /\ CallsType'
    BY <2>1, RequestAgainKeepsPlaces
  <2> QED
    BY <1>1, <2>3, <2>4 DEF CallsInv
<1>5. CASE \E i \in inFlight : ReplyArrives(i)
  <2>1. PICK i \in inFlight, reply \in Exchanges : RetryLater(i, reply) \/ EndCall(i, reply)
    BY <1>5 DEF ReplyArrives
  <2>2. PICK f \in Callers : f = Plan[phase][i]
    BY AwaitedCaller
  <2>3. calls \in [Callers -> CallStates]
    BY DEF CallsInv, CallsType
  <2>4. CASE RetryLater(i, reply)
    <3>1. PICK c \in CallStates :
            /\ calls' = [calls EXCEPT ![f] = c]
            /\ c = [pc |-> "backingOff", attempt |-> calls[f].attempt,
                    waited |-> calls[f].waited + calls[f].attempt,
                    log |-> Logged(f, reply), outcome |-> calls[f].outcome]
      BY <2>2, <2>4, RetryLaterMoves
    <3>2. /\ calls[f].pc = "awaiting" /\ MayRetry(f, reply)
          /\ UNCHANGED <<verdict, cacheAtStart, phase, next, inFlight, maxAttempts>>
      BY <2>2, <2>4 DEF RetryLater, runVars
    <3>3. calls'[f] = c /\ c.pc = "backingOff"
      BY <2>3, <3>1
    <3>4. Places' /\ CallsType'
      BY <2>2, <3>1, <3>2, <3>3, ReplyKeepsPlaces
    <3>5. ClientSteps /\ Attempts'
      BY <3>1, <3>2, <3>3, RetryIsClient, OneCallMoves
    <3> QED
      BY <1>1, <3>4, <3>5 DEF CallsInv
  <2>5. CASE EndCall(i, reply)
    <3>1. PICK c \in CallStates :
            /\ calls' = [calls EXCEPT ![f] = c]
            /\ c = [pc |-> "returned", attempt |-> calls[f].attempt, waited |-> calls[f].waited,
                    log |-> Logged(f, reply),
                    outcome |-> Call(f)!Stamped(Call(f)!TryCall(reply), calls[f].attempt)]
      BY <2>2, <2>5, EndCallMoves
    <3>2. /\ calls[f].pc = "awaiting" /\ ~MayRetry(f, reply)
          /\ UNCHANGED <<verdict, cacheAtStart, phase, next, maxAttempts>>
          /\ inFlight' = inFlight \ {i}
          /\ (Call(f)!Stamped(Call(f)!TryCall(reply), calls[f].attempt).kind # "Value")
               <=> (verdict[f] = "error")
      BY <2>2, <2>5 DEF EndCall, Run!FinishCall
    <3>3. calls'[f] = c /\ c.pc = "returned"
      BY <2>3, <3>1
    <3>4. (c.outcome.kind # "Value") <=> (verdict[f] = "error")
      BY <3>1, <3>2
    <3>5. Places' /\ CallsType'
      BY <2>2, <3>1, <3>2, <3>3, <3>4, ReplyKeepsPlaces
    <3>6. ClientSteps /\ Attempts'
      BY <3>1, <3>2, <3>3, EndIsClient, OneCallMoves
    <3> QED
      BY <1>1, <3>5, <3>6 DEF CallsInv
  <2> QED
    BY <2>1, <2>4, <2>5
<1>6. CASE UNCHANGED vars
  <2>1. UNCHANGED <<maxAttempts, calls>> /\ UNCHANGED <<verdict, cacheAtStart, phase, next, inFlight>>
    BY <1>6 DEF vars, runVars
  <2>2. Places'
    BY <2>1 DEF CallsInv, PlaceInv, Untaken, InFlight, Silent
  <2>3. CallsType'
    BY <2>1 DEF CallsInv, CallsType
  <2>4. ClientSteps /\ Attempts'
    BY <2>1, NoCallMoves
  <2> QED
    BY <1>1, <2>2, <2>3, <2>4 DEF CallsInv
<1> QED
  BY <1>2, <1>3, <1>4, <1>5, <1>6 DEF Next

\* Whatever the run does around it, each fixture's call goes through the loop of
\* HttpRpcClient::call and nothing else (client.rs:124-153).
THEOREM CallsAreClients == Spec => EachCallIsAClient
<1>1. Init => \A f \in Callers : Call(f)!Init
  BY ClientAssumptions DEF Init, Unstarted, Call!Init, Call!Outcome, Call!NoValue
<1>2. CallsInv /\ [Next]_vars => CallsInv' /\ ClientSteps
  BY NextCallsInv
<1>3. ClientSteps => [\A f \in Callers : [Call(f)!Next]_(Call(f)!vars)]_<<maxAttempts, calls>>
  BY DEF ClientSteps
<1> QED
  BY <1>1, <1>2, <1>3, InitCallsInv, PTL DEF Spec, EachCallIsAClient

-----------------------------------------------------------------------------
(* What the server sees.                                                   *)

Open == {f \in Callers : calls[f].pc = "awaiting"}

Waiting == {f \in Callers : calls[f].pc = "backingOff"}

\* The calls under way are those of the fixtures in flight.
LEMMA UnderWay ==
  ASSUME CallsInv
  PROVE  /\ \A i \in inFlight : Plan[phase][i] \in Open \cup Waiting
         /\ \A f \in Open \cup Waiting : \E i \in inFlight : f = Plan[phase][i]
         /\ \A i, j \in inFlight : Plan[phase][i] = Plan[phase][j] => i = j
<1>1. ASSUME NEW i \in inFlight
      PROVE  Plan[phase][i] \in Open \cup Waiting
  <2>1. PICK s \in Networks : s = phase
    BY AwaitedCaller
  <2>2. i \in 1..Len(Plan[s]) /\ Plan[s][i] \in Callers
    BY <2>1, AwaitedCaller
  <2>3. InFlight(s, i) /\ PlaceInv(s, i)
    BY <2>1, <2>2 DEF InFlight, CallsInv
  <2> QED
    BY <2>1, <2>2, <2>3 DEF PlaceInv, Open, Waiting
<1>2. ASSUME NEW f \in Open \cup Waiting
      PROVE  \E i \in inFlight : f = Plan[phase][i]
  <2>1. f \in Callers /\ calls[f].pc \notin {"ready", "returned"}
    BY DEF Open, Waiting
  <2>2. PICK s \in Networks : \E k \in 1..Len(Plan[s]) : f = Plan[s][k]
    BY <2>1, PlaceOfCaller
  <2>3. PICK k \in 1..Len(Plan[s]) : f = Plan[s][k]
    BY <2>2
  <2>4. PlaceInv(s, k)
    BY DEF CallsInv
  <2>5. InFlight(s, k)
    BY <2>1, <2>3, <2>4 DEF PlaceInv
  <2> QED
    BY <2>3, <2>5 DEF InFlight
<1>3. ASSUME NEW i \in inFlight, NEW j \in inFlight, Plan[phase][i] = Plan[phase][j]
      PROVE  i = j
  <2>1. PICK s \in Networks : s = phase
    BY AwaitedCaller
  <2>2. i \in 1..Len(Plan[s]) /\ j \in 1..Len(Plan[s])
    BY <2>1, AwaitedCaller
  <2> QED
    BY <1>3, <2>1, <2>2, OnePlace
<1> QED
  BY <1>1, <1>2, <1>3

LEMMA AsManyAsInFlight ==
  ASSUME CallsInv
  PROVE  /\ IsFiniteSet(Open \cup Waiting)
         /\ Cardinality(Open \cup Waiting) = Cardinality(inFlight)
<1> DEFINE g == [i \in inFlight |-> Plan[phase][i]]
<1>1. g \in [inFlight -> Open \cup Waiting]
  BY UnderWay
<1>2. \A i, j \in inFlight : g[i] = g[j] => i = j
  BY UnderWay
<1>3. \A f \in Open \cup Waiting : \E i \in inFlight : g[i] = f
  BY UnderWay
<1> HIDE DEF g
<1>4. g \in Bijection(inFlight, Open \cup Waiting)
  BY <1>1, <1>2, <1>3, Fun_IsBij
<1>5. ExistsBijection(inFlight, Open \cup Waiting)
  BY <1>4 DEF ExistsBijection
<1>6. IsFiniteSet(inFlight)
  BY RunShape DEF CallsInv
<1> QED
  BY <1>5, <1>6, FS_Bijection

\* Never more open requests than the window, one call under way per fixture in
\* flight, no fixture beyond its budget of requests, and none at all from one
\* that is answered without (execution.rs:26, 68-91, client.rs:136-139).
THEOREM BoundedLoad == Spec => []ServerLoadIsBounded
<1>1. CallsInv => ServerLoadIsBounded
  <2> SUFFICES ASSUME CallsInv PROVE ServerLoadIsBounded
    OBVIOUS
  <2>1. Cardinality(Open \cup Waiting) = Cardinality(inFlight)
    BY AsManyAsInFlight
  <2>2. Cardinality(Open) <= IF maxConcurrency = 0 THEN 1 ELSE maxConcurrency
    <3>1. Open \in SUBSET (Open \cup Waiting)
      OBVIOUS
    <3>2. IsFiniteSet(Open) /\ Cardinality(Open) <= Cardinality(Open \cup Waiting)
      BY <3>1, AsManyAsInFlight, FS_Subset
    <3>3. Cardinality(Open) \in Nat
      BY <3>2, FS_CardinalityType
    <3>4. /\ Cardinality(inFlight) <= IF maxConcurrency = 0 THEN 1 ELSE maxConcurrency
          /\ Cardinality(inFlight) \in Nat /\ maxConcurrency \in Nat
      BY RunShape DEF CallsInv
    <3> QED
      BY <2>1, <3>2, <3>3, <3>4
  <2>3. ASSUME NEW f \in Callers
        PROVE  calls[f].attempt <= IF Silent(f) THEN 0 ELSE Budget
    <3>1. AttemptInv(f)
      BY DEF CallsInv
    <3>2. Silent(f) => calls[f].pc = "ready"
      <4>1. PICK s \in Networks : \E k \in 1..Len(Plan[s]) : f = Plan[s][k]
        BY PlaceOfCaller
      <4>2. PICK k \in 1..Len(Plan[s]) : f = Plan[s][k]
        BY <4>1
      <4>3. PlaceInv(s, k)
        BY DEF CallsInv
      <4> QED
        BY <4>2, <4>3 DEF PlaceInv
    <3> QED
      BY <3>1, <3>2 DEF AttemptInv
  <2> QED
    BY <2>1, <2>2, <2>3 DEF ServerLoadIsBounded, Open, Waiting, Silent, Budget
<1>2. CallsInv /\ [Next]_vars => CallsInv'
  BY NextCallsInv
<1> QED
  BY <1>1, <1>2, InitCallsInv, PTL DEF Spec

-----------------------------------------------------------------------------
(***************************************************************************)
(* What the report tells of the calls.  It takes files of their own for the *)
(* fixtures: with a shared one, a fixture may be answered from what another *)
(* fixture of the same run has just stored, without a call of its own.      *)
(***************************************************************************)

\* A fixture that is taken and has sent nothing never will.
ReadyInv(s, k) ==
  LET f == Plan[s][k] IN ~Untaken(s, k) /\ calls[f].pc = "ready" => Silent(f)

TellInv ==
  /\ CallsInv
  /\ Facts!DetInv
  /\ \A s \in Networks : \A k \in 1..Len(Plan[s]) : ReadyInv(s, k)

LEMMA SameStems == Run!StemsAreDistinct <=> Facts!StemsAreDistinct
BY DEF Run!StemsAreDistinct, Facts!StemsAreDistinct

\* No step makes a call ready again.
LEMMA ReadyBefore ==
  ASSUME ClientSteps, NEW f \in Callers, calls'[f].pc = "ready"
  PROVE  calls[f].pc = "ready"
BY DEF ClientSteps, Call!Next, Call!SendRequest, Call!ReplyArrives, Call!BackOff, Call!Return,
       Call!Returned, Call!vars

\* What becomes taken in a step is the upcoming fixture; unless it sends its
\* request in the step, it has an entry or cannot be built.
LEMMA TakenSilent ==
  ASSUME TellInv, [Next]_vars, NEW s \in Networks, NEW k \in 1..Len(Plan[s]),
         Untaken(s, k), ~Untaken(s, k)', calls'[Plan[s][k]].pc = "ready"
  PROVE  Silent(Plan[s][k])
<1>1. Len(Plan[s]) \in Nat /\ Facts!HitInv
  BY NetworkLists DEF TellInv, CallsInv
<1>2. ASSUME UNCHANGED <<phase, next>> PROVE FALSE
  BY <1>2 DEF Untaken
<1>3. CASE Facts!XdrFromCache \/ Facts!XdrRun
  <2>1. phase = "xdr" /\ phase' = phase
    BY <1>3 DEF Facts!XdrFromCache, Facts!XdrRun, Facts!TakeUpcoming
  <2> QED
    BY <2>1 DEF Untaken
<1>4. CASE Facts!EndSurface
  <2>1. /\ phase' = Facts!Following[phase] /\ next = Len(Plan[phase]) /\ next' = 0
        /\ phase \in {"xdr", "rpc", "soroban"}
    BY <1>4 DEF Facts!EndSurface, Facts!Surfaces
  <2>2. \/ phase = "xdr" /\ phase' = "rpc"
        \/ phase = "rpc" /\ phase' = "soroban"
        \/ phase = "soroban" /\ phase' = "done"
    BY <2>1 DEF Facts!Following
  <2> QED
    BY <1>1, <2>1, <2>2 DEF Untaken, Networks
<1>5. ASSUME Facts!Pull
      PROVE  s = phase /\ k = next + 1 /\ Facts!Upcoming = Plan[s][k]
  <2>1. /\ phase \in Networks /\ next' = next + 1 /\ phase' = phase /\ next \in Nat
        /\ Facts!Upcoming = Plan[phase][next + 1]
    BY <1>1, <1>5, TakenShape, RunShape
  <2> QED
    BY <1>1, <2>1 DEF Untaken, Networks
<1>6. CASE Facts!AnswerFromCache
  <2>1. /\ s = phase /\ k = next + 1 /\ Facts!Upcoming = Plan[s][k]
        /\ cache[Stem[Facts!Upcoming]] # NoEntry
    BY <1>5, <1>6 DEF Facts!AnswerFromCache, Facts!Cached, Facts!Lookup
  <2>2. next \in Nat /\ Facts!NotTaken(s, k) /\ s \in Facts!Surfaces
    BY <1>1, <2>1, RunShape DEF Facts!NotTaken, Facts!Surfaces, Networks
  <2>3. cache[Stem[Plan[s][k]]] = cacheAtStart[Stem[Plan[s][k]]]
    BY <2>2 DEF TellInv, Facts!DetInv, Facts!CacheInv
  <2> QED
    BY <2>1, <2>3 DEF Silent
<1>7. CASE Facts!FailToBuild
  BY <1>5, <1>7 DEF Facts!FailToBuild, Silent
<1>8. CASE StartCall
  <2>1. Facts!Pull /\ calls' = [calls EXCEPT ![Facts!Upcoming] = Requested(calls[Facts!Upcoming])]
    BY <1>8, SameSteps, SameWords DEF StartCall, Facts!SendCall
  <2>2. Facts!Upcoming = Plan[s][k] /\ Plan[s][k] \in Callers
    BY <1>5, <2>1, CallerAt
  <2>3. calls \in [Callers -> CallStates]
    BY DEF TellInv, CallsInv, CallsType
  <2>4. calls'[Plan[s][k]] = Requested(calls[Plan[s][k]]) /\ calls[Plan[s][k]] \in CallStates
    BY <2>1, <2>2, <2>3
  <2>5. calls'[Plan[s][k]].pc = "awaiting"
    BY <2>4, RequestedType
  <2> QED
    BY <2>5
<1>9. CASE Facts!Finished \/ UNCHANGED vars
  BY <1>2, <1>9 DEF Facts!Finished, Facts!vars, vars, runVars
<1>10. CASE \E f \in Callers : RequestAgain(f)
  BY <1>2, <1>10 DEF RequestAgain, runVars
<1>11. CASE \E i \in inFlight : ReplyArrives(i)
  BY <1>2, <1>11 DEF ReplyArrives, RetryLater, EndCall, Run!FinishCall, runVars
<1> QED
  BY <1>3, <1>4, <1>6, <1>7, <1>8, <1>9, <1>10, <1>11, SameSteps DEF Next, RunAlone

LEMMA NextTellInv ==
  ASSUME Run!StemsAreDistinct, TellInv, [Next]_vars
  PROVE  TellInv'
<1>1. CallsInv' /\ ClientSteps
  BY NextCallsInv DEF TellInv
<1>2. Facts!DetInv'
  BY StepOfRun, Assumed, SameStems, Facts!NextDetInv DEF TellInv
<1>3. UNCHANGED <<verdict, cacheAtStart>>
  BY StepOfRun
     DEF Facts!Next, Facts!XdrFromCache, Facts!XdrRun, Facts!AnswerFromCache, Facts!FailToBuild,
         Facts!SendCall, Facts!FinishCall, Facts!EndSurface, Facts!Finished, Facts!Pull,
         Facts!TakeUpcoming, Facts!vars
<1>4. ASSUME NEW s \in Networks, NEW k \in 1..Len(Plan[s]),
             ~Untaken(s, k)', calls'[Plan[s][k]].pc = "ready"
      PROVE  Silent(Plan[s][k])'
  <2>1. calls[Plan[s][k]].pc = "ready"
    BY <1>1, <1>4, CallerAt, ReadyBefore
  <2>2. Silent(Plan[s][k])
    <3>1. CASE Untaken(s, k)
      BY <1>4, <3>1, TakenSilent
    <3>2. CASE ~Untaken(s, k)
      BY <2>1, <3>2 DEF TellInv, ReadyInv
    <3> QED
      BY <3>1, <3>2
  <2> QED
    BY <1>3, <2>2 DEF Silent
<1>5. \A s \in Networks : \A k \in 1..Len(Plan[s]) : ReadyInv(s, k)'
  BY <1>4 DEF ReadyInv
<1> QED
  BY <1>1, <1>2, <1>5 DEF TellInv

LEMMA InitTellInv == Init => TellInv
<1> SUFFICES ASSUME Init PROVE TellInv
  OBVIOUS
<1>1. CallsInv
  BY InitCallsInv
<1>2. Facts!DetInv
  BY SameInit, Assumed, Facts!InitDetInv DEF Init
<1>3. \A s \in Networks : \A k \in 1..Len(Plan[s]) : ReadyInv(s, k)
  BY DEF Init, Run!Init, ReadyInv, Untaken
<1> QED
  BY <1>1, <1>2, <1>3 DEF TellInv

\* What is due to a caller.
LEMMA DueToCaller ==
  ASSUME Facts!TypeOK, NEW s \in Networks, NEW k \in 1..Len(Plan[s]), NEW f, f = Plan[s][k]
  PROVE  /\ f \in FixtureIds /\ verdict[f] \in Facts!Verdicts
         /\ Facts!Due[f] = IF cacheAtStart[Stem[f]] # NoEntry THEN cacheAtStart[Stem[f]]
                           ELSE Facts!Ran(f, s)
         /\ cacheAtStart[Stem[f]] # NoEntry => cacheAtStart[Stem[f]].status # "error"
<1>1. s \in Facts!Surfaces
  BY DEF Networks, Facts!Surfaces
<1>2. f \in FixtureIds /\ f \in Facts!Planned
  BY <1>1, Assumed, Facts!PlannedFixture
<1>3. Facts!SurfaceOf(f) = s
  BY <1>1, Assumed, Facts!SurfaceOfPlanned
<1>4. Facts!Due[f] = Facts!Expected(f, s)
  BY <1>2, <1>3 DEF Facts!Due
<1>5. Stem[f] \in Stems
  BY <1>2, Assumed DEF Facts!StemAssumption
<1>6. cacheAtStart[Stem[f]] # NoEntry => cacheAtStart[Stem[f]].status # "error"
  BY <1>5 DEF Facts!TypeOK, Facts!Entry
<1>7. verdict[f] \in Facts!Verdicts
  BY <1>2 DEF Facts!TypeOK
<1> QED
  BY <1>2, <1>4, <1>6, <1>7 DEF Facts!Expected

\* The results tell, for each network fixture, how its own call went, or what the
\* cache had (execution.rs:77-86, 114-123).
THEOREM TellsOwnCall ==
  ASSUME Run!StemsAreDistinct
  PROVE  Spec => []ReportTellsOwnCall
<1>1. TellInv => ReportTellsOwnCall
  <2> SUFFICES ASSUME TellInv, phase = "done", NEW k \in DOMAIN results,
                      NEW f, f = Run!PlanOrder[k], f \in Callers
               PROVE  /\ (results[k].status = "error") <=>
                           \/ calls[f].pc = "returned" /\ calls[f].outcome.kind # "Value"
                           \/ calls[f].pc = "ready" /\ cacheAtStart[Stem[f]] = NoEntry
                      /\ calls[f].pc = "ready" /\ cacheAtStart[Stem[f]] # NoEntry
                           => results[k] = cacheAtStart[Stem[f]]
    BY DEF ReportTellsOwnCall
  <2>1. Facts!TypeOK /\ CallsInv
    BY DEF TellInv, CallsInv, Facts!HitInv, Facts!TypeInv
  <2>2. results = [n \in 1..Len(Facts!PlanOrder) |-> Facts!Due[Facts!PlanOrder[n]]]
    <3>1. results = Facts!ExpectedOf("xdr") \o Facts!ExpectedOf("rpc") \o Facts!ExpectedOf("soroban")
      BY DEF TellInv, Facts!DetInv, Facts!ResultsInv, Facts!ResultsAreDeterministic
    <3> QED
      BY <2>1, <3>1, Assumed, Facts!DueInPlanOrder
  <2>3. Run!PlanOrder = Facts!PlanOrder
    BY DEF Run!PlanOrder, Facts!PlanOrder
  <2>4. results[k] = Facts!Due[f]
    BY <2>2, <2>3
  <2>5. PICK s \in Networks : \E j \in 1..Len(Plan[s]) : f = Plan[s][j]
    BY PlaceOfCaller
  <2>6. PICK j \in 1..Len(Plan[s]) : f = Plan[s][j]
    BY <2>5
  <2>7. /\ verdict[f] \in {"pass", "fail", "error", "unbuildable"}
        /\ Facts!Ran(f, s).status = IF verdict[f] = "unbuildable" THEN "error" ELSE verdict[f]
        /\ results[k] = IF cacheAtStart[Stem[f]] # NoEntry THEN cacheAtStart[Stem[f]]
                        ELSE Facts!Ran(f, s)
        /\ cacheAtStart[Stem[f]] # NoEntry => cacheAtStart[Stem[f]].status # "error"
    BY <2>1, <2>4, <2>6, DueToCaller DEF Facts!Verdicts, Facts!RunnerStatuses, Facts!Ran
  <2>8. ~Untaken(s, j) /\ ~InFlight(s, j)
    BY DEF Untaken, InFlight, Networks
  <2>9. /\ calls[f].pc \in {"ready", "returned"}
        /\ calls[f].pc # "ready" => ~Silent(f)
        /\ calls[f].pc = "returned" =>
             ((calls[f].outcome.kind # "Value") <=> (verdict[f] = "error"))
    BY <2>1, <2>6, <2>8 DEF CallsInv, PlaceInv
  <2>10. calls[f].pc = "ready" => Silent(f)
    BY <2>6, <2>8 DEF TellInv, ReadyInv
  <2>11. CASE cacheAtStart[Stem[f]] # NoEntry
    BY <2>7, <2>9, <2>11 DEF Silent
  <2>12. CASE cacheAtStart[Stem[f]] = NoEntry
    <3>1. (results[k].status = "error") <=> verdict[f] \in {"error", "unbuildable"}
      BY <2>7, <2>12
    <3> QED
      BY <2>7, <2>9, <2>10, <2>12, <3>1 DEF Silent
  <2> QED
    BY <2>11, <2>12
<1>2. TellInv /\ [Next]_vars => TellInv'
  BY NextTellInv
<1> QED
  BY <1>1, <1>2, InitTellInv, PTL DEF Spec

-----------------------------------------------------------------------------
(* What a run promises, it promises with its calls.  (Facts! names what      *)
(* ExecutionProofs proves of the same constants and variables as Run!.)      *)

\* However often the calls of a run are retried and in whatever order they end,
\* each fixture is answered once and the answers are handed over once, and the
\* list handed over is the one of the plan's order.
THEOREM RetriesAnswerOnce ==
  ASSUME Facts!StemsAreDistinct
  PROVE  Spec => Facts!AnswersEachFixtureOnce /\ []Facts!ResultsAreDeterministic
<1>1. Init => Facts!Init
  BY SameInit DEF Init
<1>2. [Next]_vars => [Facts!Next]_(Facts!vars)
  BY StepOfRun
<1>3. Spec => Facts!Spec
  BY <1>1, <1>2, PTL DEF Spec, Facts!Spec
<1>4. Facts!Spec => Facts!AnswersEachFixtureOnce
  BY Assumed, Facts!AnswersOnce
<1>5. Facts!Spec => []Facts!ResultsAreDeterministic
  BY Assumed, Facts!Determinism
<1> QED
  BY <1>3, <1>4, <1>5, PTL
=============================================================================
