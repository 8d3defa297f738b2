------------------------------ MODULE Execution ------------------------------
(***************************************************************************)
(* canary_runner::execute, one run of a compatibility plan: XDR fixtures   *)
(* one after the other, then the RPC fixtures and then the Soroban         *)
(* fixtures with at most max_concurrency of them in flight, every fixture   *)
(* first looked up in the result cache and its result stored there.        *)
(*                                                                         *)
(* Each network surface is a stream polled by ONE task (buffer_unordered), *)
(* so two fixtures interleave only at the await of their network call:     *)
(* what a fixture does before it (cache lookup, envelope building) and     *)
(* after it (storing the result) is one step each.  A fixture's            *)
(* result is what its runner would say in this run; it is chosen in Init   *)
(* (variable "verdict") because a fixture runs at most once per run.       *)
(***************************************************************************)
EXTENDS Outcomes, Functions

CONSTANTS
  FixtureIds,      \* every fixture id, of this run's plan or of an earlier run's
  Plan,            \* Plan[s]: the fixture ids planned on surface s, in order
  Stems,           \* the file names a cache entry of this run can have
  Stem,            \* Stem[f]: the file name of fixture f's entry (the other
                   \* components of the key are the same all run long)
  EarlierResults,  \* the results earlier runs may have stored
  StoresMayFail,   \* whether writing a cache file can fail in this instance
  Concurrencies,   \* the values of RunOptions::max_concurrency to consider
  NoEntry          \* no readable entry: a cache miss

Planned == UNION {Range(Plan[s]) : s \in Surfaces}

ASSUME PlanAssumption == Plan \in [Surfaces -> Seq(FixtureIds)]

\* validate() rejected a fixture set with a repeated id before it was planned.
ASSUME UniqueIdsAssumption ==
  \A s, t \in Surfaces : \A j \in 1..Len(Plan[s]), k \in 1..Len(Plan[t]) :
    Plan[s][j] = Plan[t][k] => s = t /\ j = k

ASSUME StemAssumption == Stem \in [FixtureIds -> Stems]

ASSUME SettingsAssumption == StoresMayFail \in BOOLEAN /\ Concurrencies \subseteq Nat

NetworkSurfaces == {"rpc", "soroban"}

Result == [test : FixtureIds, surface : Surfaces, status : RunnerStatuses]

\* CacheStore::put drops errors, so a file holds a pass or a failure.
Entry == {r \in Result : r.status # "error"}

ASSUME EarlierResultsAssumption == EarlierResults \subseteq Entry

ASSUME NoEntryAssumption == NoEntry \notin Result

\* "unbuildable": the Soroban invocation does not even build (no call is made).
Verdicts == RunnerStatuses \cup {"unbuildable"}

VARIABLES
  verdict,    \* verdict[f]: what running f yields in this run
  maxConcurrency, \* RunOptions::max_concurrency of this run (never changes)
  cacheAtStart, \* the cache directory as earlier runs left it (never changes)
  cache,      \* the cache directory now
  phase,      \* the surface being run, or "done"
  next,       \* fixtures of this surface taken off the stream so far
  inFlight,   \* positions (in Plan[phase]) awaiting a network answer
  collected,  \* "indexed": results of this surface, in completion order
  results     \* results of the finished surfaces (and of XDR, as it goes)

vars == <<verdict, cacheAtStart, maxConcurrency, cache, phase, next, inFlight, collected, results>>

Phases == Surfaces \cup {"done"}

TypeOK ==
  /\ verdict \in [Planned -> Verdicts]
  /\ maxConcurrency \in Concurrencies
  /\ cacheAtStart \in [Stems -> Entry \cup {NoEntry}]
  /\ cache \in [Stems -> Entry \cup {NoEntry}]
  /\ phase \in Phases
  /\ next \in Nat
  /\ inFlight \in SUBSET Nat
  /\ collected \in Seq([index : Nat, result : Result])
  /\ results \in Seq(Result)

\* Variant: the limit passed on as it is.
WindowAsGiven == maxConcurrency

\* max_concurrency.max(1)
Window == IF maxConcurrency = 0 THEN 1 ELSE maxConcurrency

-----------------------------------------------------------------------------
(* What a fixture's runner returns, and the cache as the run sees it.      *)

\* The normalized result of running f: an error of any kind, of the network
\* or of the fixture itself, becomes a result of status "error".
Ran(f, s) ==
  [test |-> f, surface |-> s,
   status |-> IF verdict[f] = "unbuildable" THEN "error" ELSE verdict[f]]

\* CacheStore::get: whatever entry the file of f's key holds, whoever wrote it.
Lookup(f) == cache[Stem[f]]

\* Variant: only passing entries are used again.
CachedPass(f) == Lookup(f) # NoEntry /\ Lookup(f).status = "pass"

Cached(f) == Lookup(f) # NoEntry

\* Variant: put without its test for errors.
AfterPutOfErrors(f, r) == {[cache EXCEPT ![Stem[f]] = r]}

\* The directories CacheStore::put may leave behind.  Errors are not stored.
\* The caller ignores put's own failure, which leaves the file as it was or
\* truncated (a later lookup misses).
AfterPut(f, r) ==
  IF r.status = "error" THEN {cache}
  ELSE {[cache EXCEPT ![Stem[f]] = r]} \cup
       (IF StoresMayFail THEN {cache, [cache EXCEPT ![Stem[f]] = NoEntry]} ELSE {})

\* Variant: the sort left out.
InCompletionOrder(c) == [k \in 1..Len(c) |-> c[k].result]

\* sort_by_key(index), then dropping the index.  The indices of a finished
\* surface are exactly 1..Len(c), so the entry of index k lands in position k.
InIndexOrder(c) ==
  [k \in 1..Len(c) |-> (CHOOSE e \in Range(c) : e.index = k).result]

-----------------------------------------------------------------------------
Init ==
  /\ verdict \in {v \in [Planned -> Verdicts] :
       \A f \in Planned : v[f] = "unbuildable" => f \in Range(Plan["soroban"])}
  /\ maxConcurrency \in Concurrencies
  /\ cacheAtStart \in [Stems -> EarlierResults \cup {NoEntry}]
  /\ \A s \in Stems : cacheAtStart[s] # NoEntry => Stem[cacheAtStart[s].test] = s
  /\ cache = cacheAtStart
  /\ phase = "xdr"
  /\ next = 0
  /\ inFlight = {}
  /\ collected = <<>>
  /\ results = <<>>

\* The fixture the stream of the current surface yields next.
Upcoming == Plan[phase][next + 1]

TakeUpcoming ==
  /\ phase \in Surfaces
  /\ next < Len(Plan[phase])
  /\ next' = next + 1
  /\ UNCHANGED <<verdict, cacheAtStart, maxConcurrency, phase>>

\* run_xdr, one fixture answered from the cache.
XdrFromCache ==
  /\ phase = "xdr"
  /\ TakeUpcoming
  /\ Cached(Upcoming)
  /\ results' = Append(results, Lookup(Upcoming))
  /\ UNCHANGED <<cache, inFlight, collected>>

\* run_xdr, one fixture decoded and encoded, and its result stored.
XdrRun ==
  /\ phase = "xdr"
  /\ TakeUpcoming
  /\ ~Cached(Upcoming)
  /\ results' = Append(results, Ran(Upcoming, "xdr"))
  /\ cache' \in AfterPut(Upcoming, Ran(Upcoming, "xdr"))
  /\ UNCHANGED <<inFlight, collected>>

\* Variant: the window is one too wide.
PullOneMore ==
  /\ phase \in NetworkSurfaces
  /\ Cardinality(inFlight) <= Window
  /\ TakeUpcoming

\* run_rpc and run_soroban: buffer_unordered pulls a fixture while fewer than
\* Window are in flight, and polls it up to its first await.
Pull ==
  /\ phase \in NetworkSurfaces
  /\ Cardinality(inFlight) < Window
  /\ TakeUpcoming

Collect(i, r) == collected' = Append(collected, [index |-> i, result |-> r])

\* The entry found is the result: no call is made and nothing is stored.
AnswerFromCache ==
  /\ Pull
  /\ Cached(Upcoming)
  /\ Collect(next + 1, Lookup(Upcoming))
  /\ UNCHANGED <<cache, inFlight, results>>

\* The invocation cannot be built: an error, without any call.
FailToBuild ==
  /\ Pull
  /\ ~Cached(Upcoming)
  /\ verdict[Upcoming] = "unbuildable"
  /\ Collect(next + 1, Ran(Upcoming, phase))
  /\ cache' \in AfterPut(Upcoming, Ran(Upcoming, phase))
  /\ UNCHANGED <<inFlight, results>>

\* The call is sent, and the fixture waits for its answer.
SendCall ==
  /\ Pull
  /\ ~Cached(Upcoming)
  /\ verdict[Upcoming] # "unbuildable"
  /\ inFlight' = inFlight \cup {next + 1}
  /\ UNCHANGED <<cache, collected, results>>

\* Variant: the finished call is left on the list of pending ones.
FinishCallAndKeep(i) ==
  /\ i \in inFlight
  /\ LET f == Plan[phase][i] IN
       /\ Collect(i, Ran(f, phase))
       /\ cache' \in AfterPut(f, Ran(f, phase))
  /\ UNCHANGED <<verdict, cacheAtStart, maxConcurrency, phase, next, inFlight, results>>

\* The call of fixture i returns (with an answer or with the error left after
\* the last retry): its result is stored and joins the collected ones.
FinishCall(i) ==
  /\ i \in inFlight
  /\ inFlight' = inFlight \ {i}
  /\ LET f == Plan[phase][i] IN
       /\ Collect(i, Ran(f, phase))
       /\ cache' \in AfterPut(f, Ran(f, phase))
  /\ UNCHANGED <<verdict, cacheAtStart, maxConcurrency, phase, next, results>>

Following == [xdr |-> "rpc", rpc |-> "soroban", soroban |-> "done"]

\* Variant: the surface ends with the last fixture taken off its stream.
EndSurfaceEarly ==
  /\ phase \in Surfaces
  /\ next = Len(Plan[phase])
  /\ results' = results \o InCompletionOrder(collected)
  /\ collected' = <<>>
  /\ next' = 0
  /\ inFlight' = {}
  /\ phase' = Following[phase]
  /\ UNCHANGED <<verdict, cacheAtStart, maxConcurrency, cache>>

\* The stream is exhausted: restore fixture order, go on with the next surface.
EndSurface ==
  /\ phase \in Surfaces
  /\ next = Len(Plan[phase])
  /\ inFlight = {}
  /\ results' = results \o InIndexOrder(collected)
  /\ collected' = <<>>
  /\ next' = 0
  /\ phase' = Following[phase]
  /\ UNCHANGED <<verdict, cacheAtStart, maxConcurrency, cache, inFlight>>

\* execute has returned.
Finished ==
  /\ phase = "done"
  /\ UNCHANGED vars

Next ==
  \/ XdrFromCache
  \/ XdrRun
  \/ AnswerFromCache
  \/ FailToBuild
  \/ SendCall
  \/ \E i \in inFlight : FinishCall(i)
  \/ EndSurface
  \/ Finished

Spec == Init /\ [][Next]_vars

\* The task is polled for as long as it can make progress, and every call
\* returns: the HTTP client sets no timeout, so this is an assumption about
\* the server (or the operating system), see RpcClient.
Fairness ==
  /\ WF_vars(XdrFromCache \/ XdrRun)
  /\ WF_vars(AnswerFromCache \/ FailToBuild \/ SendCall)
  /\ WF_vars(EndSurface)
  /\ \A i \in 1..Cardinality(Planned) : WF_vars(FinishCall(i))

FairSpec == Spec /\ Fairness

-----------------------------------------------------------------------------
(* Properties.                                                             *)

\* No two ids of the plan, nor any id an earlier run may have stored, share a
\* cache file name.  The code does not ensure it: sanitize maps "a.b" and
\* "a_b" to one name.
StemsAreDistinct == \A f, g \in FixtureIds : Stem[f] = Stem[g] => f = g

\* What the run should report of f on surface s: the entry an earlier run left,
\* or else what its runner says now.
Expected(f, s) ==
  IF cacheAtStart[Stem[f]] # NoEntry THEN cacheAtStart[Stem[f]] ELSE Ran(f, s)

ExpectedOf(s) == [k \in 1..Len(Plan[s]) |-> Expected(Plan[s][k], s)]

\* The fixtures that have their result: those of the surfaces before, and of this
\* one the collected ones (of XDR, which is not collected, those taken).
Before == [xdr |-> {}, rpc |-> {"xdr"}, soroban |-> {"xdr", "rpc"}, done |-> Surfaces]

Answered ==
  (UNION {Range(Plan[s]) : s \in Before[phase]}) \cup
  (IF phase \in Surfaces THEN {Plan[phase][k] : k \in 1..next \ inFlight} ELSE {})

PlanOrder == Plan["xdr"] \o Plan["rpc"] \o Plan["soroban"]

SurfaceOf(f) == CHOOSE s \in Surfaces : f \in Range(Plan[s])

Outside == INSTANCE OneAnswerEach WITH
  Fixtures <- Planned,
  Turn <- [f \in Planned |-> Cardinality(Before[SurfaceOf(f)])],
  Order <- PlanOrder,
  due <- [f \in Planned |-> Expected(f, SurfaceOf(f))],
  answered <- Answered,
  handedOver <- (phase = "done"),
  report <- IF phase = "done" THEN results ELSE <<>>

\* Seen from outside, a run with its cache, its window, its hits, misses, failing
\* stores and calls overtaking each other is one that answers fixture after
\* fixture and hands over once (execution.rs:3-8).
AnswersEachFixtureOnce == Outside!Spec

\* The list execute returns does not depend on the order in which the network
\* answered, on the window, or on which cache writes failed: it is XDR, RPC,
\* Soroban, each in plan order, every fixture once (execution.rs:3-8, 18-20).
ResultsAreDeterministic ==
  phase = "done" =>
    results = ExpectedOf("xdr") \o ExpectedOf("rpc") \o ExpectedOf("soroban")

\* buffer_unordered's promise: whatever hits, errors and completions happen,
\* no more than Window calls are ever outstanding, and none between surfaces.
CallsAreBounded ==
  /\ Cardinality(inFlight) <= Window
  /\ phase \notin NetworkSurfaces => inFlight = {}

\* A fixture taken off the stream is in flight or collected, never both, never
\* twice and never lost, whatever order the calls finish in (execution.rs:68-91).
NoFixtureLostOrDoubled ==
  /\ inFlight \subseteq 1..next
  /\ \A j, k \in DOMAIN collected : collected[j].index = collected[k].index => j = k
  /\ phase \in NetworkSurfaces =>
       1..next = inFlight \cup {collected[j].index : j \in DOMAIN collected}
  /\ \A j \in DOMAIN collected : collected[j].index \notin inFlight

\* The next run of the same key repeats what this run reports or tries again:
\* at every moment the entry of a planned fixture, if there is one, is the very
\* result this run reports of it, and never an execution error, whatever was
\* stored before, in between or by halves (cache.rs:81-93).
NextRunRepeatsOrRetries ==
  \A s \in Surfaces : \A k \in 1..Len(Plan[s]) :
    Cached(Plan[s][k]) =>
      /\ Lookup(Plan[s][k]) = Expected(Plan[s][k], s)
      /\ Lookup(Plan[s][k]).status # "error"

\* An entry this run found is neither rewritten nor damaged by the run: a hit
\* skips the call and the store, so a failed write cannot lose it.
HitsAreLeftAlone ==
  [][\A s \in Stems : cacheAtStart[s] # NoEntry => cache'[s] = cacheAtStart[s]]_vars

\* execute returns: no schedule of completions leaves the stream waiting.
RunCompletes == <>(phase = "done")
=============================================================================
