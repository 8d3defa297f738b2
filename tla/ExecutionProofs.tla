--------------------------- MODULE ExecutionProofs ---------------------------
(***************************************************************************)
(* Theorems about Execution for every plan, window, cache directory and    *)
(* set of verdicts.                                                        *)
(***************************************************************************)
EXTENDS Execution, FiniteSetTheorems, SequenceTheorems, TLAPS

(***************************************************************************)
(* The inductive invariant of type correctness.  Ending a surface looks up *)
(* every index from 1 to Len(collected), which is typed only if the        *)
(* collected indices are exactly those: hence the bookkeeping of slots.    *)
(***************************************************************************)
Indices == {collected[j].index : j \in DOMAIN collected}

NextInRange ==
  /\ phase \in Surfaces => next <= Len(Plan[phase])
  /\ phase = "done" => next = 0

SlotCount ==
  /\ IsFiniteSet(inFlight)
  /\ phase \in NetworkSurfaces => Len(collected) + Cardinality(inFlight) = next
  /\ phase \notin NetworkSurfaces => collected = <<>>

SlotInv == NextInRange /\ SlotCount /\ CallsAreBounded /\ NoFixtureLostOrDoubled

TypeInv == TypeOK /\ SlotInv

-----------------------------------------------------------------------------
LEMMA WindowType ==
  ASSUME TypeOK
  PROVE  maxConcurrency \in Nat /\ Window \in Nat /\ Window >= 1
  BY SettingsAssumption DEF TypeOK, Window

LEMMA PlannedFixture ==
  ASSUME NEW s \in Surfaces, NEW k \in 1..Len(Plan[s])
  PROVE  Plan[s][k] \in FixtureIds /\ Plan[s][k] \in Planned
<1>1. Plan[s] \in Seq(FixtureIds)
  BY PlanAssumption
<1>2. Plan[s][k] \in Range(Plan[s])
  BY <1>1 DEF Range
<1> QED
  BY <1>1, <1>2 DEF Planned

LEMMA RanType ==
  ASSUME TypeOK, NEW f \in FixtureIds, f \in Planned, NEW s \in Surfaces
  PROVE  Ran(f, s) \in Result
  BY DEF TypeOK, Ran, Result, Verdicts, RunnerStatuses

LEMMA LookupType ==
  ASSUME TypeOK, NEW f \in FixtureIds, Cached(f)
  PROVE  Lookup(f) \in Result /\ Lookup(f).status # "error"
  BY StemAssumption DEF TypeOK, Cached, Lookup, Entry

\* A store changes no entry but its own, and none at all for an error.
LEMMA AfterPutFacts ==
  ASSUME TypeOK, NEW f \in FixtureIds, NEW r \in Result, cache' \in AfterPut(f, r)
  PROVE  /\ cache' \in [Stems -> Entry \cup {NoEntry}]
         /\ \A s \in Stems : s # Stem[f] => cache'[s] = cache[s]
  BY StemAssumption DEF TypeOK, AfterPut, Entry

LEMMA ElementType ==
  ASSUME NEW S, NEW q \in Seq(S), NEW n \in DOMAIN q
  PROVE  q[n] \in S
OBVIOUS

LEMMA AppendAsFunction ==
  ASSUME NEW S, NEW q \in Seq(S), NEW e \in S
  PROVE  Append(q, e) = [k \in 1..(Len(q) + 1) |-> IF k = Len(q) + 1 THEN e ELSE q[k]]
<1> DEFINE a == [k \in 1..(Len(q) + 1) |-> IF k = Len(q) + 1 THEN e ELSE q[k]]
<1>1. Append(q, e) \in Seq(S) /\ Len(Append(q, e)) = Len(q) + 1
  OBVIOUS
<1>2. a \in Seq(S) /\ Len(a) = Len(q) + 1
  OBVIOUS
<1>3. \A k \in 1..Len(a) : Append(q, e)[k] = a[k]
  OBVIOUS
<1> QED
  BY <1>1, <1>2, <1>3, SeqEqual

\* Ending a surface: with all indices collected once, the sorted list is typed.
LEMMA InIndexOrderType ==
  ASSUME TypeOK, SlotInv, phase \in Surfaces, next = Len(Plan[phase]), inFlight = {}
  PROVE  /\ Len(collected) = IF phase = "xdr" THEN 0 ELSE next
         /\ \A k \in 1..Len(collected) : \E j \in DOMAIN collected :
              /\ collected[j].index = k
              /\ InIndexOrder(collected)[k] = collected[j].result
         /\ InIndexOrder(collected) \in Seq(Result)
<1>1. Len(collected) = IF phase = "xdr" THEN 0 ELSE next
  <2>1. Cardinality({}) = 0
    BY FS_EmptySet
  <2> QED
    BY <2>1 DEF SlotInv, SlotCount, TypeOK, Surfaces, NetworkSurfaces
<1>2. ASSUME NEW k \in 1..Len(collected)
      PROVE  \E j \in DOMAIN collected :
               /\ collected[j].index = k
               /\ InIndexOrder(collected)[k] = collected[j].result
  <2>1. phase \in NetworkSurfaces /\ k \in 1..next
    BY <1>1 DEF SlotInv, SlotCount, TypeOK, Surfaces, NetworkSurfaces
  <2>2. PICK entry \in Range(collected) : entry.index = k
    BY <2>1 DEF SlotInv, NoFixtureLostOrDoubled, Range
  <2>3. LET c == CHOOSE e \in Range(collected) : e.index = k
        IN  c \in Range(collected) /\ c.index = k
    BY <2>2
  <2>4. InIndexOrder(collected)[k] = (CHOOSE e \in Range(collected) : e.index = k).result
    BY DEF InIndexOrder
  <2> QED
    BY <2>3, <2>4 DEF Range
<1>3. InIndexOrder(collected) \in Seq(Result)
  <2>1. ASSUME NEW k \in 1..Len(collected)
        PROVE  InIndexOrder(collected)[k] \in Result
    <3>1. PICK j \in DOMAIN collected : InIndexOrder(collected)[k] = collected[j].result
      BY <1>2
    <3>2. collected \in Seq([index : Nat, result : Result])
      BY DEF TypeOK
    <3>3. collected[j] \in [index : Nat, result : Result]
      BY <3>2, ElementType
    <3> QED
      BY <3>1, <3>3
  <2>2. Len(collected) \in Nat
    BY DEF TypeOK
  <2> QED
    BY <2>1, <2>2 DEF InIndexOrder
<1> QED
  BY <1>1, <1>2, <1>3

-----------------------------------------------------------------------------
(* Steps.  The two ways of taking a fixture off a network stream, and the   *)
(* return of a call, move a slot between "not taken", "in flight" and       *)
(* "collected"; each is proved once, for whatever result it collects.       *)

LEMMA UpcomingFacts ==
  ASSUME TypeOK, TakeUpcoming
  PROVE  /\ phase \in Surfaces
         /\ next + 1 \in 1..Len(Plan[phase])
         /\ Upcoming \in FixtureIds
         /\ Upcoming \in Planned
<1>1. phase \in Surfaces /\ next < Len(Plan[phase]) /\ next \in Nat
  BY DEF TypeOK, TakeUpcoming
<1>2. Len(Plan[phase]) \in Nat
  BY <1>1, PlanAssumption
<1>3. next + 1 \in 1..Len(Plan[phase])
  BY <1>1, <1>2
<1> QED
  BY <1>1, <1>3, PlannedFixture DEF Upcoming

\* A fixture that never awaits is collected in the step that takes it.
LEMMA CollectAtOnce ==
  ASSUME TypeInv, Pull, NEW r \in Result, Collect(next + 1, r),
         cache' \in [Stems -> Entry \cup {NoEntry}], UNCHANGED <<inFlight, results>>
  PROVE  TypeInv'
<1> USE DEF TypeInv
<1>1. /\ phase \in NetworkSurfaces /\ phase' = phase /\ next \in Nat /\ next' = next + 1
      /\ UNCHANGED <<verdict, cacheAtStart, maxConcurrency>>
      /\ next + 1 \in 1..Len(Plan[phase])
  BY UpcomingFacts DEF Pull, TakeUpcoming, TypeOK
<1>2. /\ collected \in Seq([index : Nat, result : Result])
      /\ collected' = Append(collected, [index |-> next + 1, result |-> r])
      /\ [index |-> next + 1, result |-> r] \in [index : Nat, result : Result]
  BY <1>1 DEF TypeOK, Collect
<1>3. /\ collected' \in Seq([index : Nat, result : Result])
      /\ Len(collected') = Len(collected) + 1
      /\ DOMAIN collected' = DOMAIN collected \cup {Len(collected) + 1}
      /\ \A j \in DOMAIN collected : collected'[j] = collected[j]
      /\ collected'[Len(collected) + 1].index = next + 1
      /\ Len(collected) + 1 \notin DOMAIN collected
  BY <1>2
<1>4. TypeOK'
  BY <1>1, <1>3 DEF TypeOK
<1>5. NextInRange'
  BY <1>1 DEF NextInRange, NetworkSurfaces, Surfaces
<1>6. SlotCount'
  <2>1. Cardinality(inFlight) \in Nat
    BY FS_CardinalityType DEF SlotInv, SlotCount
  <2> QED
    BY <1>1, <1>2, <1>3, <2>1 DEF SlotInv, SlotCount
<1>7. CallsAreBounded'
  BY <1>1 DEF SlotInv, CallsAreBounded, Window
<1>8. NoFixtureLostOrDoubled'
  <2>1. \A j \in DOMAIN collected : collected[j].index \in 1..next
    BY <1>1 DEF SlotInv, NoFixtureLostOrDoubled
  <2>2. inFlight \subseteq 1..next /\ next + 1 \notin inFlight
    BY <1>1 DEF SlotInv, NoFixtureLostOrDoubled
  <2>3. {collected'[j].index : j \in DOMAIN collected'} = Indices \cup {next + 1}
    BY <1>3 DEF Indices
  <2>4. 1..next' = 1..next \cup {next + 1}
    BY <1>1
  <2>5. 1..next' = inFlight' \cup {collected'[j].index : j \in DOMAIN collected'}
    BY <1>1, <2>3, <2>4 DEF SlotInv, NoFixtureLostOrDoubled, Indices
  <2>6. \A j, k \in DOMAIN collected' : collected'[j].index = collected'[k].index => j = k
    BY <1>1, <1>3, <2>1 DEF SlotInv, NoFixtureLostOrDoubled
  <2>7. \A j \in DOMAIN collected' : collected'[j].index \notin inFlight'
    BY <1>3, <2>2 DEF SlotInv, NoFixtureLostOrDoubled
  <2> QED
    BY <1>1, <2>2, <2>5, <2>6, <2>7 DEF NoFixtureLostOrDoubled
<1> QED
  BY <1>4, <1>5, <1>6, <1>7, <1>8 DEF SlotInv

LEMMA SendCallKeepsTypeInv ==
  ASSUME TypeInv, SendCall
  PROVE  TypeInv'
<1> USE DEF TypeInv
<1>1. /\ phase \in NetworkSurfaces /\ phase' = phase /\ next \in Nat /\ next' = next + 1
      /\ UNCHANGED <<verdict, cacheAtStart, maxConcurrency, cache, collected, results>>
      /\ next + 1 \in 1..Len(Plan[phase])
      /\ inFlight' = inFlight \cup {next + 1}
  BY UpcomingFacts DEF SendCall, Pull, TakeUpcoming, TypeOK
<1>2. inFlight \subseteq 1..next /\ next + 1 \notin inFlight
  BY <1>1 DEF SlotInv, NoFixtureLostOrDoubled
<1>3. /\ IsFiniteSet(inFlight')
      /\ Cardinality(inFlight') = Cardinality(inFlight) + 1
      /\ Cardinality(inFlight) \in Nat
  BY <1>1, <1>2, FS_AddElement, FS_CardinalityType DEF SlotInv, SlotCount
<1>4. TypeOK'
  BY <1>1 DEF TypeOK
<1>5. NextInRange'
  BY <1>1 DEF NextInRange, NetworkSurfaces, Surfaces
<1>6. SlotCount'
  <2>1. Len(collected) \in Nat
    BY DEF TypeOK
  <2> QED
    BY <1>1, <1>3, <2>1 DEF SlotInv, SlotCount
<1>7. CallsAreBounded'
  BY <1>1, <1>3, WindowType DEF SendCall, Pull, CallsAreBounded, Window
<1>8. NoFixtureLostOrDoubled'
  <2>1. 1..next' = 1..next \cup {next + 1} /\ inFlight' \subseteq 1..next'
    BY <1>1, <1>2
  <2>2. \A j \in DOMAIN collected : collected[j].index \in 1..next
    BY <1>1 DEF SlotInv, NoFixtureLostOrDoubled
  <2>3. \A j \in DOMAIN collected : collected[j].index # next + 1
    BY <1>1, <2>2
  <2> QED
    BY <1>1, <2>1, <2>3 DEF SlotInv, NoFixtureLostOrDoubled
<1> QED
  BY <1>4, <1>5, <1>6, <1>7, <1>8 DEF SlotInv

LEMMA FinishCallKeepsTypeInv ==
  ASSUME TypeInv, NEW i \in inFlight, FinishCall(i)
  PROVE  TypeInv'
<1> USE DEF TypeInv
<1> DEFINE f == Plan[phase][i]
           r == Ran(f, phase)
<1>1. /\ phase \in NetworkSurfaces /\ phase \in Surfaces
      /\ i \in 1..next /\ next \in Nat
      /\ UNCHANGED <<verdict, cacheAtStart, maxConcurrency, phase, next, results>>
      /\ inFlight' = inFlight \ {i}
  BY DEF FinishCall, SlotInv, CallsAreBounded, NoFixtureLostOrDoubled, TypeOK,
         NetworkSurfaces, Surfaces
<1>2. f \in FixtureIds /\ f \in Planned
  <2>1. i \in 1..Len(Plan[phase])
    BY <1>1, PlanAssumption DEF SlotInv, NextInRange
  <2> QED
    BY <1>1, <2>1, PlannedFixture
<1>3. r \in Result
  BY <1>1, <1>2, RanType
<1>4. cache' \in [Stems -> Entry \cup {NoEntry}]
  BY <1>2, <1>3, AfterPutFacts DEF FinishCall
<1>5. /\ collected \in Seq([index : Nat, result : Result])
      /\ collected' = Append(collected, [index |-> i, result |-> r])
      /\ [index |-> i, result |-> r] \in [index : Nat, result : Result]
  BY <1>1, <1>3 DEF TypeOK, FinishCall, Collect
<1>6. /\ collected' \in Seq([index : Nat, result : Result])
      /\ Len(collected') = Len(collected) + 1
      /\ DOMAIN collected' = DOMAIN collected \cup {Len(collected) + 1}
      /\ \A j \in DOMAIN collected : collected'[j] = collected[j]
      /\ collected'[Len(collected) + 1].index = i
      /\ Len(collected) + 1 \notin DOMAIN collected
  BY <1>5
<1>7. /\ IsFiniteSet(inFlight')
      /\ Cardinality(inFlight') = Cardinality(inFlight) - 1
      /\ Cardinality(inFlight) \in Nat /\ Cardinality(inFlight') \in Nat
  BY <1>1, FS_RemoveElement, FS_CardinalityType DEF SlotInv, SlotCount
<1>8. TypeOK'
  BY <1>1, <1>4, <1>6 DEF TypeOK
<1>9. NextInRange'
  BY <1>1 DEF SlotInv, NextInRange
<1>10. SlotCount'
  BY <1>1, <1>5, <1>6, <1>7 DEF SlotInv, SlotCount
<1>11. CallsAreBounded'
  BY <1>1, <1>7, WindowType DEF SlotInv, CallsAreBounded, Window
<1>12. NoFixtureLostOrDoubled'
  <2>1. {collected'[j].index : j \in DOMAIN collected'} = Indices \cup {i}
    BY <1>6 DEF Indices
  <2>2. \A j \in DOMAIN collected : collected[j].index # i
    BY DEF SlotInv, NoFixtureLostOrDoubled
  <2>3. 1..next' = inFlight' \cup {collected'[j].index : j \in DOMAIN collected'}
    BY <1>1, <2>1 DEF SlotInv, NoFixtureLostOrDoubled, Indices
  <2>4. \A j, k \in DOMAIN collected' : collected'[j].index = collected'[k].index => j = k
    BY <1>6, <2>2 DEF SlotInv, NoFixtureLostOrDoubled
  <2>5. \A j \in DOMAIN collected' : collected'[j].index \notin inFlight'
    BY <1>1, <1>6 DEF SlotInv, NoFixtureLostOrDoubled
  <2> QED
    BY <1>1, <2>3, <2>4, <2>5 DEF SlotInv, NoFixtureLostOrDoubled
<1> QED
  BY <1>8, <1>9, <1>10, <1>11, <1>12 DEF SlotInv

LEMMA EndSurfaceKeepsTypeInv ==
  ASSUME TypeInv, EndSurface
  PROVE  TypeInv'
<1> USE DEF TypeInv
<1>1. /\ collected' = <<>> /\ next' = 0 /\ inFlight = {} /\ inFlight' = {}
      /\ UNCHANGED <<verdict, cacheAtStart, maxConcurrency, cache>>
      /\ phase \in Surfaces /\ phase' = Following[phase]
  BY DEF EndSurface
<1>2. results' \in Seq(Result)
  <2>1. InIndexOrder(collected) \in Seq(Result)
    BY InIndexOrderType DEF EndSurface
  <2> QED
    BY <2>1 DEF EndSurface, TypeOK
<1>3. phase' \in Phases
  BY <1>1 DEF Following, Surfaces, Phases
<1>4. TypeOK'
  BY <1>1, <1>2, <1>3 DEF TypeOK
<1>5. NextInRange'
  BY <1>1, PlanAssumption DEF NextInRange
<1>6. IsFiniteSet({}) /\ Cardinality({}) = 0
  BY FS_EmptySet
<1>7. SlotCount' /\ CallsAreBounded' /\ NoFixtureLostOrDoubled'
  BY <1>1, <1>6, WindowType
     DEF SlotCount, CallsAreBounded, NoFixtureLostOrDoubled, Window
<1> QED
  BY <1>4, <1>5, <1>7 DEF SlotInv

LEMMA XdrStepKeepsTypeInv ==
  ASSUME TypeInv, phase = "xdr", TakeUpcoming, NEW r \in Result,
         results' = Append(results, r), cache' \in [Stems -> Entry \cup {NoEntry}],
         UNCHANGED <<inFlight, collected>>
  PROVE  TypeInv'
<1> USE DEF TypeInv
<1>1. /\ phase' = phase /\ next' = next + 1 /\ next \in Nat
      /\ next + 1 \in 1..Len(Plan[phase])
      /\ UNCHANGED <<verdict, cacheAtStart, maxConcurrency>>
      /\ collected = <<>> /\ inFlight = {} /\ phase \notin NetworkSurfaces
  BY UpcomingFacts DEF TakeUpcoming, TypeOK, SlotInv, SlotCount, CallsAreBounded, NetworkSurfaces
<1>2. TypeOK'
  BY <1>1 DEF TypeOK
<1>3. NextInRange'
  BY <1>1 DEF NextInRange
<1>4. SlotCount' /\ CallsAreBounded' /\ NoFixtureLostOrDoubled'
  BY <1>1 DEF SlotInv, SlotCount, CallsAreBounded, Window, NoFixtureLostOrDoubled
<1> QED
  BY <1>2, <1>3, <1>4 DEF SlotInv

LEMMA InitTypeInv == Init => TypeInv
<1> SUFFICES ASSUME Init PROVE TypeInv
  OBVIOUS
<1>1. TypeOK
  BY EarlierResultsAssumption DEF Init, TypeOK, Phases, Surfaces
<1>2. IsFiniteSet({}) /\ Cardinality({}) = 0
  BY FS_EmptySet
<1>3. SlotInv
  <2>1. Len(Plan["xdr"]) \in Nat
    BY PlanAssumption DEF Surfaces
  <2> QED
    BY <1>2, <2>1, SettingsAssumption
       DEF Init, SlotInv, NextInRange, SlotCount, CallsAreBounded,
           NoFixtureLostOrDoubled, NetworkSurfaces, Surfaces, Window
<1> QED
  BY <1>1, <1>3 DEF TypeInv

LEMMA NextTypeInv == TypeInv /\ [Next]_vars => TypeInv'
<1> SUFFICES ASSUME TypeInv, [Next]_vars PROVE TypeInv'
  OBVIOUS
<1>0. TypeOK
  BY DEF TypeInv
<1>1. CASE XdrFromCache
  <2>1. TakeUpcoming /\ Cached(Upcoming) /\ Upcoming \in FixtureIds
    BY <1>0, <1>1, UpcomingFacts DEF XdrFromCache
  <2>2. Lookup(Upcoming) \in Result
    BY <1>0, <2>1, LookupType
  <2> QED
    BY <1>0, <1>1, <2>1, <2>2, XdrStepKeepsTypeInv DEF XdrFromCache, TypeOK
<1>2. CASE XdrRun
  <2>1. TakeUpcoming /\ Upcoming \in FixtureIds /\ Upcoming \in Planned
    BY <1>0, <1>2, UpcomingFacts DEF XdrRun
  <2>2. Ran(Upcoming, "xdr") \in Result
    BY <1>0, <2>1, RanType DEF Surfaces
  <2>3. cache' \in [Stems -> Entry \cup {NoEntry}]
    BY <1>0, <1>2, <2>1, <2>2, AfterPutFacts DEF XdrRun
  <2> QED
    BY <1>2, <2>1, <2>2, <2>3, XdrStepKeepsTypeInv DEF XdrRun
<1>3. CASE AnswerFromCache
  <2>1. Pull /\ Cached(Upcoming) /\ Upcoming \in FixtureIds
    BY <1>0, <1>3, UpcomingFacts DEF AnswerFromCache, Pull
  <2>2. Lookup(Upcoming) \in Result
    BY <1>0, <2>1, LookupType
  <2> QED
    BY <1>0, <1>3, <2>1, <2>2, CollectAtOnce DEF AnswerFromCache, TypeOK
<1>4. CASE FailToBuild
  <2>1. Pull /\ Upcoming \in FixtureIds /\ Upcoming \in Planned /\ phase \in Surfaces
    BY <1>0, <1>4, UpcomingFacts DEF FailToBuild, Pull
  <2>2. Ran(Upcoming, phase) \in Result
    BY <1>0, <2>1, RanType
  <2>3. cache' \in [Stems -> Entry \cup {NoEntry}]
    BY <1>0, <1>4, <2>1, <2>2, AfterPutFacts DEF FailToBuild
  <2> QED
    BY <1>4, <2>1, <2>2, <2>3, CollectAtOnce DEF FailToBuild
<1>5. CASE SendCall
  BY <1>5, SendCallKeepsTypeInv
<1>6. CASE \E i \in inFlight : FinishCall(i)
  BY <1>6, FinishCallKeepsTypeInv
<1>7. CASE EndSurface
  BY <1>7, EndSurfaceKeepsTypeInv
<1>8. CASE UNCHANGED vars
  BY <1>8 DEF vars, TypeInv, TypeOK, SlotInv, NextInRange, SlotCount,
              CallsAreBounded, Window, NoFixtureLostOrDoubled
<1> QED
  BY <1>1, <1>2, <1>3, <1>4, <1>5, <1>6, <1>7, <1>8 DEF Next, Finished

\* The slot bookkeeping is an invariant of every execution.
THEOREM TypeInvariance == Spec => []TypeInv
BY InitTypeInv, NextTypeInv, PTL DEF Spec

\* Every variable of Execution keeps its type; sorting never meets a hole.
THEOREM TypeCorrect == Spec => []TypeOK
<1>1. TypeInv => TypeOK
  BY DEF TypeInv
<1> QED
  BY TypeInvariance, <1>1, PTL

\* Never more than Window calls are outstanding (execution.rs:89, 126).
THEOREM BoundedCalls == Spec => []CallsAreBounded
<1>1. TypeInv => CallsAreBounded
  BY DEF TypeInv, SlotInv
<1> QED
  BY TypeInvariance, <1>1, PTL

\* Every fixture taken off the stream is in flight or collected, exactly once.
THEOREM NothingLostOrDoubled == Spec => []NoFixtureLostOrDoubled
<1>1. TypeInv => NoFixtureLostOrDoubled
  BY DEF TypeInv, SlotInv
<1> QED
  BY TypeInvariance, <1>1, PTL

-----------------------------------------------------------------------------
(***************************************************************************)
(* What a run found on disk.  A call in flight is one no entry was found    *)
(* for, so that storing its result overwrites no entry found, not even one  *)
(* of another fixture with the same file name.                             *)
(***************************************************************************)
HitInv ==
  /\ TypeInv
  /\ \A m \in Stems : cacheAtStart[m] # NoEntry => cache[m] = cacheAtStart[m]
  /\ \A i \in inFlight : cacheAtStart[Stem[Plan[phase][i]]] = NoEntry

\* A lookup that misses is one that would have missed at the start.
LEMMA MissedAtStart ==
  ASSUME HitInv, NEW f \in FixtureIds, ~Cached(f)
  PROVE  cacheAtStart[Stem[f]] = NoEntry
BY StemAssumption DEF HitInv, Cached, Lookup

\* Storing the result of a fixture that missed.
LEMMA StoreSparesHits ==
  ASSUME HitInv, NEW f \in FixtureIds, NEW r \in Result, cacheAtStart[Stem[f]] = NoEntry,
         cache' \in AfterPut(f, r), cacheAtStart' = cacheAtStart
  PROVE  \A m \in Stems : cacheAtStart'[m] # NoEntry => cache'[m] = cacheAtStart'[m]
<1>1. \A m \in Stems : m # Stem[f] => cache'[m] = cache[m]
  BY AfterPutFacts DEF HitInv, TypeInv
<1> QED
  BY <1>1 DEF HitInv

LEMMA InitHitInv == Init => HitInv
BY InitTypeInv DEF Init, HitInv

LEMMA NextHitInv == HitInv /\ [Next]_vars => HitInv'
<1> SUFFICES ASSUME HitInv, [Next]_vars PROVE HitInv'
  OBVIOUS
<1>1. TypeInv /\ TypeInv' /\ TypeOK
  BY NextTypeInv DEF HitInv, TypeInv
<1>2. CASE XdrRun \/ FailToBuild
  <2>1. /\ TakeUpcoming /\ ~Cached(Upcoming)
        /\ cache' \in AfterPut(Upcoming, Ran(Upcoming, phase))
        /\ UNCHANGED <<cacheAtStart, phase, inFlight>>
    BY <1>2 DEF XdrRun, FailToBuild, Pull, TakeUpcoming
  <2>2. Upcoming \in FixtureIds /\ Ran(Upcoming, phase) \in Result
    BY <1>1, <2>1, UpcomingFacts, RanType
  <2>3. cacheAtStart[Stem[Upcoming]] = NoEntry
    BY <2>1, <2>2, MissedAtStart
  <2>4. \A m \in Stems : cacheAtStart'[m] # NoEntry => cache'[m] = cacheAtStart'[m]
    BY <2>1, <2>2, <2>3, StoreSparesHits
  <2> QED
    BY <1>1, <2>1, <2>4 DEF HitInv
<1>3. CASE SendCall
  <2>1. Upcoming \in FixtureIds /\ ~Cached(Upcoming)
    BY <1>1, <1>3, UpcomingFacts DEF SendCall, Pull
  <2>2. cacheAtStart[Stem[Upcoming]] = NoEntry
    BY <2>1, MissedAtStart
  <2>3. /\ UNCHANGED <<cacheAtStart, cache, phase>>
        /\ inFlight' = inFlight \cup {next + 1}
    BY <1>3 DEF SendCall, Pull, TakeUpcoming
  <2> QED
    BY <1>1, <2>2, <2>3 DEF HitInv, Upcoming
<1>4. CASE \E i \in inFlight : FinishCall(i)
  <2>1. PICK i \in inFlight : FinishCall(i)
    BY <1>4
  <2>2. phase \in Surfaces /\ i \in 1..Len(Plan[phase])
    BY <1>1, PlanAssumption
       DEF TypeInv, SlotInv, NextInRange, CallsAreBounded, NoFixtureLostOrDoubled, TypeOK,
           NetworkSurfaces, Surfaces
  <2>3. Plan[phase][i] \in FixtureIds /\ Ran(Plan[phase][i], phase) \in Result
    BY <1>1, <2>2, PlannedFixture, RanType
  <2>4. /\ cache' \in AfterPut(Plan[phase][i], Ran(Plan[phase][i], phase))
        /\ UNCHANGED <<cacheAtStart, phase>> /\ inFlight' = inFlight \ {i}
    BY <2>1 DEF FinishCall
  <2>5. \A m \in Stems : cacheAtStart'[m] # NoEntry => cache'[m] = cacheAtStart'[m]
    BY <2>3, <2>4, StoreSparesHits DEF HitInv
  <2> QED
    BY <1>1, <2>4, <2>5 DEF HitInv
<1>5. CASE XdrFromCache \/ AnswerFromCache \/ EndSurface \/ Finished \/ UNCHANGED vars
  <2>1. /\ UNCHANGED <<cacheAtStart, cache, inFlight>>
        /\ phase' = phase \/ inFlight = {}
    BY <1>5 DEF XdrFromCache, AnswerFromCache, Pull, TakeUpcoming, EndSurface, Finished, vars
  <2> QED
    BY <1>1, <2>1 DEF HitInv
<1> QED
  BY <1>2, <1>3, <1>4, <1>5 DEF Next

\* No run rewrites or damages an entry it found, whatever file names fixtures share.
THEOREM HitsUntouched == Spec => HitsAreLeftAlone
<1>1. HitInv' /\ [Next]_vars =>
        [\A s \in Stems : cacheAtStart[s] # NoEntry => cache'[s] = cacheAtStart[s]]_vars
  <2> SUFFICES ASSUME HitInv', [Next]_vars
               PROVE  \A s \in Stems : cacheAtStart[s] # NoEntry => cache'[s] = cacheAtStart[s]
    OBVIOUS
  <2>1. cacheAtStart' = cacheAtStart
    BY DEF Next, XdrFromCache, XdrRun, AnswerFromCache, FailToBuild, SendCall, Pull,
           TakeUpcoming, FinishCall, EndSurface, Finished, vars
  <2> QED
    BY <2>1 DEF HitInv
<1> QED
  BY InitHitInv, NextHitInv, <1>1, PTL DEF Spec, HitsAreLeftAlone

-----------------------------------------------------------------------------
(***************************************************************************)
(* Determinism.  Its invariant says what the cache is for each fixture of  *)
(* the plan: still what the run found on disk until the fixture is taken   *)
(* off its stream, so that the lookup decides "old entry or fresh run" as  *)
(* it would have at the start.  It needs the fixtures to have files of     *)
(* their own, which is the assumption of every theorem below.              *)
(***************************************************************************)
Later(s) ==
  \/ phase = "xdr" /\ s \in NetworkSurfaces
  \/ phase = "rpc" /\ s = "soroban"

NotTaken(s, k) == (s = phase /\ k > next) \/ Later(s)

CacheInv ==
  /\ \A m \in Stems : cacheAtStart[m] # NoEntry => cache[m] = cacheAtStart[m]
  /\ \A s \in Surfaces : \A k \in 1..Len(Plan[s]) :
       NotTaken(s, k) => cache[Stem[Plan[s][k]]] = cacheAtStart[Stem[Plan[s][k]]]
  /\ \A i \in inFlight : cacheAtStart[Stem[Plan[phase][i]]] = NoEntry

CollectedInv ==
  \A j \in DOMAIN collected :
    collected[j].result = Expected(Plan[phase][collected[j].index], phase)

ResultsInv ==
  /\ phase = "xdr" => results = [k \in 1..next |-> Expected(Plan["xdr"][k], "xdr")]
  /\ phase = "rpc" => results = ExpectedOf("xdr")
  /\ phase = "soroban" => results = ExpectedOf("xdr") \o ExpectedOf("rpc")
  /\ ResultsAreDeterministic

DetInv == TypeInv /\ CacheInv /\ CollectedInv /\ ResultsInv

\* Taking a fixture: the lookup answers what it would have at the start.
LEMMA UpcomingExpected ==
  ASSUME DetInv, TakeUpcoming
  PROVE  /\ Cached(Upcoming) => Lookup(Upcoming) = Expected(Upcoming, phase)
         /\ ~Cached(Upcoming) => /\ Ran(Upcoming, phase) = Expected(Upcoming, phase)
                                /\ cacheAtStart[Stem[Upcoming]] = NoEntry
<1>1. TypeOK /\ next \in Nat
  BY DEF DetInv, TypeInv, TypeOK
<1>2. phase \in Surfaces /\ next + 1 \in 1..Len(Plan[phase])
  BY <1>1, UpcomingFacts
<1>3. NotTaken(phase, next + 1)
  BY <1>1 DEF NotTaken
<1>4. cache[Stem[Upcoming]] = cacheAtStart[Stem[Upcoming]]
  BY <1>2, <1>3 DEF DetInv, CacheInv, Upcoming
<1> QED
  BY <1>4 DEF Cached, Lookup, Expected

\* Taking a fixture without storing anything keeps the cache facts.
LEMMA TakeKeepsCacheInv ==
  ASSUME DetInv, TakeUpcoming, UNCHANGED <<cache, inFlight>>
  PROVE  CacheInv'
<1>1. /\ phase' = phase /\ next' = next + 1 /\ next \in Nat /\ cacheAtStart' = cacheAtStart
  BY DEF DetInv, TypeInv, TypeOK, TakeUpcoming
<1>2. \A s \in Surfaces : \A k \in 1..Len(Plan[s]) : NotTaken(s, k)' => NotTaken(s, k)
  <2>1. \A s \in Surfaces : Len(Plan[s]) \in Nat
    BY PlanAssumption
  <2> QED
    BY <1>1, <2>1 DEF NotTaken, Later
<1> QED
  BY <1>1, <1>2 DEF DetInv, CacheInv

\* Storing the result of a fixture the run found no entry for: no other
\* fixture's file changes, so no lookup to come is affected.
LEMMA StoreKeepsOthers ==
  ASSUME StemsAreDistinct, DetInv,
         NEW t \in Surfaces, NEW i \in 1..Len(Plan[t]), NEW r \in Result,
         cacheAtStart[Stem[Plan[t][i]]] = NoEntry, cache' \in AfterPut(Plan[t][i], r),
         cacheAtStart' = cacheAtStart
  PROVE  /\ \A m \in Stems : cacheAtStart[m] # NoEntry => cache'[m] = cacheAtStart[m]
         /\ \A s \in Surfaces : \A k \in 1..Len(Plan[s]) :
              (s # t \/ k # i) => cache'[Stem[Plan[s][k]]] = cache[Stem[Plan[s][k]]]
<1>1. TypeOK
  BY DEF DetInv, TypeInv
<1>2. Plan[t][i] \in FixtureIds
  BY PlannedFixture
<1>3. \A m \in Stems : m # Stem[Plan[t][i]] => cache'[m] = cache[m]
  BY <1>1, <1>2, AfterPutFacts
<1>4. ASSUME NEW s \in Surfaces, NEW k \in 1..Len(Plan[s]), s # t \/ k # i
      PROVE  cache'[Stem[Plan[s][k]]] = cache[Stem[Plan[s][k]]]
  <2>1. Plan[s][k] \in FixtureIds
    BY PlannedFixture
  <2>2. Plan[s][k] # Plan[t][i]
    BY <1>4, UniqueIdsAssumption
  <2>3. Stem[Plan[s][k]] # Stem[Plan[t][i]] /\ Stem[Plan[s][k]] \in Stems
    BY <1>2, <2>1, <2>2, StemAssumption DEF StemsAreDistinct
  <2> QED
    BY <1>3, <2>3
<1> QED
  BY <1>3, <1>4 DEF DetInv, CacheInv

LEMMA RunKeepsCacheInv ==
  ASSUME StemsAreDistinct, DetInv, TakeUpcoming, ~Cached(Upcoming),
         cache' \in AfterPut(Upcoming, Ran(Upcoming, phase)), UNCHANGED inFlight
  PROVE  CacheInv'
<1>1. /\ phase' = phase /\ next' = next + 1 /\ next \in Nat /\ cacheAtStart' = cacheAtStart
      /\ TypeOK
  BY DEF DetInv, TypeInv, TypeOK, TakeUpcoming
<1>2. phase \in Surfaces /\ next + 1 \in 1..Len(Plan[phase])
  BY <1>1, UpcomingFacts
<1>3. cacheAtStart[Stem[Upcoming]] = NoEntry
  BY UpcomingExpected
<1>4. Ran(Upcoming, phase) \in Result
  BY <1>1, UpcomingFacts, RanType
<1>5. /\ \A m \in Stems : cacheAtStart[m] # NoEntry => cache'[m] = cacheAtStart[m]
      /\ \A s \in Surfaces : \A k \in 1..Len(Plan[s]) :
           (s # phase \/ k # next + 1) => cache'[Stem[Plan[s][k]]] = cache[Stem[Plan[s][k]]]
  BY <1>1, <1>2, <1>3, <1>4, StoreKeepsOthers DEF Upcoming
<1>6. ASSUME NEW s \in Surfaces, NEW k \in 1..Len(Plan[s]), NotTaken(s, k)'
      PROVE  NotTaken(s, k) /\ (s # phase \/ k # next + 1)
  <2>1. Len(Plan[s]) \in Nat
    BY PlanAssumption
  <2> QED
    BY <1>1, <1>2, <1>6, <2>1 DEF NotTaken, Later, NetworkSurfaces
<1> QED
  BY <1>1, <1>5, <1>6 DEF DetInv, CacheInv

\* The results of XDR fixtures are listed as they come.
LEMMA XdrResultExpected ==
  ASSUME DetInv, phase = "xdr", TakeUpcoming, UNCHANGED collected,
         NEW r \in Result, r = Expected(Upcoming, phase), results' = Append(results, r)
  PROVE  CollectedInv' /\ ResultsInv'
<1>1. /\ phase' = phase /\ next' = next + 1 /\ next \in Nat
      /\ UNCHANGED <<verdict, cacheAtStart, maxConcurrency>> /\ collected = <<>>
  BY DEF DetInv, TypeInv, TypeOK, SlotInv, SlotCount, TakeUpcoming, NetworkSurfaces
<1>2. \A f, t : Expected(f, t)' = Expected(f, t)
  BY <1>1 DEF Expected, Ran
<1>3. results = [k \in 1..next |-> Expected(Plan["xdr"][k], "xdr")]
  BY DEF DetInv, ResultsInv
<1>4. results' = [k \in 1..(next + 1) |-> Expected(Plan["xdr"][k], "xdr")]
  <2>1. /\ results \in Seq(Result) /\ Len(results) = next
        /\ r = Expected(Plan["xdr"][next + 1], "xdr")
    BY <1>1, <1>3 DEF DetInv, TypeInv, TypeOK, Upcoming
  <2>2. results' = [k \in 1..(Len(results) + 1) |-> IF k = Len(results) + 1 THEN r ELSE results[k]]
    BY <2>1, AppendAsFunction
  <2> QED
    BY <1>1, <1>3, <2>1, <2>2
<1>5. CollectedInv'
  BY <1>1 DEF CollectedInv
<1>6. ResultsInv'
  BY <1>1, <1>2, <1>4 DEF ResultsInv, ResultsAreDeterministic
<1> QED
  BY <1>5, <1>6

\* A network result is collected under its index with its expected value.
LEMMA CollectExpected ==
  ASSUME DetInv, phase \in NetworkSurfaces, NEW i \in Nat, NEW r \in Result,
         r = Expected(Plan[phase][i], phase), Collect(i, r),
         UNCHANGED <<verdict, cacheAtStart, maxConcurrency, phase, results>>
  PROVE  CollectedInv' /\ ResultsInv'
<1>1. \A f, t : Expected(f, t)' = Expected(f, t)
  BY DEF Expected, Ran
<1>2. collected \in Seq([index : Nat, result : Result])
  BY DEF DetInv, TypeInv, TypeOK
<1>3. /\ [index |-> i, result |-> r] \in [index : Nat, result : Result]
      /\ collected' = Append(collected, [index |-> i, result |-> r])
  BY DEF Collect
<1>4. /\ DOMAIN collected' = DOMAIN collected \cup {Len(collected) + 1}
      /\ \A j \in DOMAIN collected : collected'[j] = collected[j]
      /\ collected'[Len(collected) + 1] = [index |-> i, result |-> r]
  BY <1>2, <1>3
<1>5. CollectedInv'
  BY <1>1, <1>4 DEF DetInv, CollectedInv
<1>6. \A s : ExpectedOf(s)' = ExpectedOf(s)
  BY <1>1 DEF ExpectedOf
<1>7. ResultsInv'
  BY <1>6 DEF DetInv, ResultsInv, ResultsAreDeterministic, NetworkSurfaces
<1> QED
  BY <1>5, <1>7

LEMMA FinishCallKeepsDetInv ==
  ASSUME StemsAreDistinct, DetInv, NEW i \in inFlight, FinishCall(i)
  PROVE  CacheInv' /\ CollectedInv' /\ ResultsInv'
<1> DEFINE f == Plan[phase][i]
<1>1. /\ phase \in NetworkSurfaces /\ phase \in Surfaces /\ i \in 1..next /\ next \in Nat
      /\ UNCHANGED <<verdict, cacheAtStart, maxConcurrency, phase, next, results>>
      /\ inFlight \subseteq 1..next /\ inFlight' = inFlight \ {i} /\ TypeOK
      /\ next <= Len(Plan[phase])
  BY DEF DetInv, FinishCall, TypeInv, SlotInv, NextInRange, CallsAreBounded,
         NoFixtureLostOrDoubled, TypeOK, NetworkSurfaces, Surfaces
<1>2. i \in 1..Len(Plan[phase]) /\ f \in FixtureIds /\ f \in Planned
  <2>1. i \in 1..Len(Plan[phase])
    BY <1>1, PlanAssumption
  <2> QED
    BY <1>1, <2>1, PlannedFixture
<1>3. Ran(f, phase) \in Result
  BY <1>1, <1>2, RanType
<1>4. cacheAtStart[Stem[f]] = NoEntry
  BY DEF DetInv, CacheInv
<1>5. Ran(f, phase) = Expected(f, phase)
  BY <1>4 DEF Expected
<1>6. /\ \A m \in Stems : cacheAtStart[m] # NoEntry => cache'[m] = cacheAtStart[m]
      /\ \A s \in Surfaces : \A k \in 1..Len(Plan[s]) :
           (s # phase \/ k # i) => cache'[Stem[Plan[s][k]]] = cache[Stem[Plan[s][k]]]
  BY <1>1, <1>2, <1>3, <1>4, StoreKeepsOthers DEF FinishCall
<1>7. CacheInv'
  <2>1. ASSUME NEW s \in Surfaces, NEW k \in 1..Len(Plan[s]), NotTaken(s, k)'
        PROVE  NotTaken(s, k) /\ (s # phase \/ k # i)
    <3>1. Len(Plan[s]) \in Nat
      BY PlanAssumption
    <3> QED
      BY <1>1, <2>1, <3>1 DEF NotTaken, Later, NetworkSurfaces
  <2>2. \A s \in Surfaces : \A k \in 1..Len(Plan[s]) :
          NotTaken(s, k)' => cache'[Stem[Plan[s][k]]] = cacheAtStart'[Stem[Plan[s][k]]]
    <3> SUFFICES ASSUME NEW s \in Surfaces, NEW k \in 1..Len(Plan[s]), NotTaken(s, k)'
                 PROVE  cache'[Stem[Plan[s][k]]] = cacheAtStart[Stem[Plan[s][k]]]
      BY <1>1
    <3>1. NotTaken(s, k) /\ (s # phase \/ k # i)
      BY <2>1
    <3>2. cache'[Stem[Plan[s][k]]] = cache[Stem[Plan[s][k]]]
      BY <1>6, <3>1
    <3> QED
      BY <3>1, <3>2 DEF DetInv, CacheInv
  <2>3. \A j \in inFlight' : cacheAtStart'[Stem[Plan[phase'][j]]] = NoEntry
    BY <1>1 DEF DetInv, CacheInv
  <2>4. \A m \in Stems : cacheAtStart'[m] # NoEntry => cache'[m] = cacheAtStart'[m]
    BY <1>1, <1>6
  <2> QED
    BY <2>2, <2>3, <2>4 DEF CacheInv
<1>8. CollectedInv' /\ ResultsInv'
  BY <1>1, <1>3, <1>5, CollectExpected DEF FinishCall
<1> QED
  BY <1>7, <1>8

LEMMA EndSurfaceKeepsDetInv ==
  ASSUME DetInv, EndSurface
  PROVE  CacheInv' /\ CollectedInv' /\ ResultsInv'
<1>1. /\ collected' = <<>> /\ next' = 0 /\ inFlight = {} /\ inFlight' = {}
      /\ UNCHANGED <<verdict, cacheAtStart, maxConcurrency, cache>>
      /\ phase \in Surfaces /\ phase' = Following[phase] /\ next = Len(Plan[phase])
      /\ results' = results \o InIndexOrder(collected)
      /\ TypeOK /\ SlotInv
  BY DEF EndSurface, DetInv, TypeInv
<1>2. /\ \A f, t : Expected(f, t)' = Expected(f, t)
      /\ \A s : ExpectedOf(s)' = ExpectedOf(s)
  BY <1>1 DEF ExpectedOf, Expected, Ran
<1>3. phase = "xdr" => /\ InIndexOrder(collected) = <<>>
                       /\ results = ExpectedOf("xdr")
  <2>1. phase = "xdr" => Len(collected) = 0
    BY <1>1, InIndexOrderType
  <2> QED
    BY <1>1, <2>1 DEF InIndexOrder, DetInv, ResultsInv, ExpectedOf
<1>4. phase # "xdr" => InIndexOrder(collected) = ExpectedOf(phase)
  <2> SUFFICES ASSUME phase # "xdr" PROVE InIndexOrder(collected) = ExpectedOf(phase)
    OBVIOUS
  <2>1. Len(collected) = Len(Plan[phase])
    BY <1>1, InIndexOrderType
  <2>2. ASSUME NEW k \in 1..Len(collected)
        PROVE  InIndexOrder(collected)[k] = Expected(Plan[phase][k], phase)
    BY <1>1, InIndexOrderType DEF DetInv, CollectedInv
  <2>3. /\ InIndexOrder(collected) = [k \in 1..Len(collected) |-> InIndexOrder(collected)[k]]
        /\ ExpectedOf(phase) = [k \in 1..Len(collected) |-> Expected(Plan[phase][k], phase)]
    BY <2>1 DEF InIndexOrder, ExpectedOf
  <2> QED
    BY <2>2, <2>3
<1>5. CollectedInv'
  BY <1>1 DEF CollectedInv
<1>6. ResultsInv'
  <2>1. CASE phase = "xdr"
    <3>1. results \in Seq(Result)
      BY <1>1 DEF TypeOK
    <3>2. results' = ExpectedOf("xdr") /\ phase' = "rpc"
      BY <1>1, <1>3, <2>1, <3>1 DEF Following
    <3> QED
      BY <1>2, <3>2 DEF ResultsInv, ResultsAreDeterministic
  <2>2. CASE phase = "rpc"
    <3>1. results' = ExpectedOf("xdr") \o ExpectedOf("rpc") /\ phase' = "soroban"
      BY <1>1, <1>4, <2>2 DEF DetInv, ResultsInv, Following
    <3> QED
      BY <1>2, <3>1 DEF ResultsInv, ResultsAreDeterministic
  <2>3. CASE phase = "soroban"
    <3>1. /\ results' = ExpectedOf("xdr") \o ExpectedOf("rpc") \o ExpectedOf("soroban")
          /\ phase' = "done"
      BY <1>1, <1>4, <2>3 DEF DetInv, ResultsInv, Following
    <3> QED
      BY <1>2, <3>1 DEF ResultsInv, ResultsAreDeterministic
  <2> QED
    BY <1>1, <2>1, <2>2, <2>3 DEF Surfaces
<1>7. CacheInv'
  <2>1. ASSUME NEW s \in Surfaces, NEW k \in 1..Len(Plan[s]), NotTaken(s, k)'
        PROVE  NotTaken(s, k)
    BY <1>1, <2>1 DEF NotTaken, Later, Following, NetworkSurfaces, Surfaces
  <2> QED
    BY <1>1, <2>1 DEF DetInv, CacheInv
<1> QED
  BY <1>5, <1>6, <1>7

LEMMA InitDetInv == Init => DetInv
<1> SUFFICES ASSUME Init PROVE DetInv
  OBVIOUS
<1>1. TypeInv
  BY InitTypeInv
<1>2. CacheInv /\ CollectedInv
  BY DEF Init, CacheInv, CollectedInv
<1>3. ResultsInv
  BY DEF Init, ResultsInv, ResultsAreDeterministic
<1> QED
  BY <1>1, <1>2, <1>3 DEF DetInv

LEMMA NextDetInv ==
  ASSUME StemsAreDistinct
  PROVE  DetInv /\ [Next]_vars => DetInv'
<1> SUFFICES ASSUME DetInv, [Next]_vars PROVE DetInv'
  OBVIOUS
<1>1. TypeInv' /\ TypeOK
  BY NextTypeInv DEF DetInv, TypeInv
<1>2. CASE XdrFromCache
  <2>1. /\ TakeUpcoming /\ Cached(Upcoming) /\ phase = "xdr"
        /\ Lookup(Upcoming) \in Result /\ Lookup(Upcoming) = Expected(Upcoming, phase)
    BY <1>1, <1>2, UpcomingFacts, LookupType, UpcomingExpected DEF XdrFromCache
  <2> QED
    BY <1>1, <1>2, <2>1, TakeKeepsCacheInv, XdrResultExpected DEF XdrFromCache, DetInv
<1>3. CASE XdrRun
  <2>1. /\ TakeUpcoming /\ ~Cached(Upcoming) /\ phase = "xdr"
        /\ Ran(Upcoming, phase) \in Result /\ Ran(Upcoming, phase) = Expected(Upcoming, phase)
    BY <1>1, <1>3, UpcomingFacts, RanType, UpcomingExpected DEF XdrRun
  <2> QED
    BY <1>1, <1>3, <2>1, RunKeepsCacheInv, XdrResultExpected DEF XdrRun, DetInv
<1>4. CASE AnswerFromCache
  <2>1. /\ TakeUpcoming /\ Cached(Upcoming) /\ phase \in NetworkSurfaces
        /\ Lookup(Upcoming) \in Result /\ Lookup(Upcoming) = Expected(Upcoming, phase)
        /\ next + 1 \in Nat
    BY <1>1, <1>4, UpcomingFacts, LookupType, UpcomingExpected DEF AnswerFromCache, Pull, TypeOK
  <2> QED
    BY <1>1, <1>4, <2>1, TakeKeepsCacheInv, CollectExpected
       DEF AnswerFromCache, DetInv, Upcoming, TakeUpcoming
<1>5. CASE FailToBuild
  <2>1. /\ TakeUpcoming /\ ~Cached(Upcoming) /\ phase \in NetworkSurfaces
        /\ Ran(Upcoming, phase) \in Result /\ Ran(Upcoming, phase) = Expected(Upcoming, phase)
        /\ next + 1 \in Nat
    BY <1>1, <1>5, UpcomingFacts, RanType, UpcomingExpected DEF FailToBuild, Pull, TypeOK
  <2> QED
    BY <1>1, <1>5, <2>1, RunKeepsCacheInv, CollectExpected
       DEF FailToBuild, DetInv, Upcoming, TakeUpcoming
<1>6. CASE SendCall
  <2>1. /\ TakeUpcoming /\ ~Cached(Upcoming) /\ phase \in NetworkSurfaces
        /\ cacheAtStart[Stem[Upcoming]] = NoEntry
    BY <1>6, UpcomingExpected DEF SendCall, Pull
  <2>2. /\ phase' = phase /\ next' = next + 1 /\ next \in Nat
        /\ UNCHANGED <<verdict, cacheAtStart, maxConcurrency, cache, collected, results>>
        /\ inFlight' = inFlight \cup {next + 1}
    BY <1>1, <1>6, <2>1 DEF SendCall, TakeUpcoming, TypeOK
  <2>3. CacheInv'
    <3>1. ASSUME NEW s \in Surfaces, NEW k \in 1..Len(Plan[s]), NotTaken(s, k)'
          PROVE  NotTaken(s, k)
      <4>1. Len(Plan[s]) \in Nat
        BY PlanAssumption
      <4> QED
        BY <2>2, <3>1, <4>1 DEF NotTaken, Later
    <3> QED
      BY <2>1, <2>2, <3>1 DEF DetInv, CacheInv, Upcoming
  <2>4. CollectedInv' /\ ResultsInv'
    BY <2>1, <2>2 DEF DetInv, CollectedInv, ResultsInv, ResultsAreDeterministic,
                      Expected, ExpectedOf, Ran, NetworkSurfaces
  <2> QED
    BY <1>1, <2>3, <2>4 DEF DetInv
<1>7. CASE \E i \in inFlight : FinishCall(i)
  BY <1>1, <1>7, FinishCallKeepsDetInv DEF DetInv
<1>8. CASE EndSurface
  BY <1>1, <1>8, EndSurfaceKeepsDetInv DEF DetInv
<1>9. CASE UNCHANGED vars
  <2>1. CacheInv'
    BY <1>9 DEF vars, DetInv, CacheInv, NotTaken, Later
  <2>2. CollectedInv'
    BY <1>9 DEF vars, DetInv, CollectedInv, Expected, Ran
  <2>3. ResultsInv'
    BY <1>9 DEF vars, DetInv, ResultsInv, ResultsAreDeterministic, Expected, ExpectedOf, Ran
  <2> QED
    BY <1>1, <2>1, <2>2, <2>3 DEF DetInv
<1> QED
  BY <1>2, <1>3, <1>4, <1>5, <1>6, <1>7, <1>8, <1>9 DEF Next, Finished

\* When fixtures have cache files of their own, the list execute returns is a
\* function of the plan, the cache directory found and the verdicts: no schedule
\* of the network, window or failed write shows in it.
THEOREM Determinism ==
  ASSUME StemsAreDistinct
  PROVE  Spec => []ResultsAreDeterministic
<1>1. DetInv => ResultsAreDeterministic
  BY DEF DetInv, ResultsInv
<1>2. DetInv /\ [Next]_vars => DetInv'
  BY NextDetInv
<1> QED
  BY InitDetInv, <1>1, <1>2, PTL DEF Spec

-----------------------------------------------------------------------------
(* The cache as the next run will find it.                                  *)

\* Storing what a fixture's runner said, when no entry was found for it.
LEMMA StoreKeepsRepeat ==
  ASSUME StemsAreDistinct, DetInv, NextRunRepeatsOrRetries,
         NEW t \in Surfaces, NEW i \in 1..Len(Plan[t]),
         cacheAtStart[Stem[Plan[t][i]]] = NoEntry,
         cache' \in AfterPut(Plan[t][i], Ran(Plan[t][i], t)),
         UNCHANGED <<verdict, cacheAtStart, maxConcurrency>>
  PROVE  NextRunRepeatsOrRetries'
<1> DEFINE f == Plan[t][i]
<1>1. TypeOK /\ f \in FixtureIds /\ f \in Planned
  BY PlannedFixture DEF DetInv, TypeInv
<1>2. Ran(f, t) \in Result /\ Ran(f, t) = Expected(f, t)
  BY <1>1, RanType DEF Expected
<1>3. \A s \in Surfaces : \A k \in 1..Len(Plan[s]) :
        (s # t \/ k # i) => cache'[Stem[Plan[s][k]]] = cache[Stem[Plan[s][k]]]
  BY <1>2, StoreKeepsOthers
<1>4. cache'[Stem[f]] # NoEntry => /\ cache'[Stem[f]] = Expected(f, t)
                                   /\ cache'[Stem[f]].status # "error"
  <2>1. Stem[f] \in Stems
    BY <1>1, StemAssumption
  <2>2. CASE cache' = cache
    BY <2>2 DEF NextRunRepeatsOrRetries, Cached, Lookup
  <2>3. CASE cache' # cache
    BY <1>1, <1>2, <2>1, <2>3 DEF AfterPut, TypeOK
  <2> QED
    BY <2>2, <2>3
<1>5. \A g, s : Expected(g, s)' = Expected(g, s)
  BY DEF Expected, Ran
<1> QED
  BY <1>3, <1>4, <1>5 DEF NextRunRepeatsOrRetries, Cached, Lookup

\* When fixtures have cache files of their own, a run leaves behind only what it
\* reports, and no error.
THEOREM RepeatOrRetry ==
  ASSUME StemsAreDistinct
  PROVE  Spec => []NextRunRepeatsOrRetries
<1>1. Init => NextRunRepeatsOrRetries
  <2> SUFFICES ASSUME Init PROVE NextRunRepeatsOrRetries
    OBVIOUS
  <2>1. TypeOK /\ cache = cacheAtStart
    BY InitTypeInv DEF TypeInv, Init
  <2> QED
    BY <2>1, PlannedFixture, LookupType DEF NextRunRepeatsOrRetries, Cached, Lookup, Expected
<1>2. DetInv /\ NextRunRepeatsOrRetries /\ [Next]_vars => NextRunRepeatsOrRetries'
  <2> SUFFICES ASSUME DetInv, NextRunRepeatsOrRetries, [Next]_vars
               PROVE  NextRunRepeatsOrRetries'
    OBVIOUS
  <2>1. TypeOK /\ SlotInv
    BY DEF DetInv, TypeInv
  <2>2. CASE UNCHANGED <<verdict, cacheAtStart, maxConcurrency, cache>>
    BY <2>2 DEF NextRunRepeatsOrRetries, Cached, Lookup, Expected, Ran
  <2>3. CASE XdrRun \/ FailToBuild
    <3>1. TakeUpcoming /\ ~Cached(Upcoming) /\ cache' \in AfterPut(Upcoming, Ran(Upcoming, phase))
      BY <2>3 DEF XdrRun, FailToBuild, Pull
    <3>2. phase \in Surfaces /\ next + 1 \in 1..Len(Plan[phase])
      BY <2>1, <3>1, UpcomingFacts
    <3>3. cacheAtStart[Stem[Upcoming]] = NoEntry /\ UNCHANGED <<verdict, cacheAtStart, maxConcurrency>>
      BY <3>1, UpcomingExpected DEF TakeUpcoming
    <3> QED
      BY <3>1, <3>2, <3>3, StoreKeepsRepeat DEF Upcoming
  <2>4. CASE \E i \in inFlight : FinishCall(i)
    <3>1. PICK i \in inFlight : FinishCall(i)
      BY <2>4
    <3>2. phase \in Surfaces /\ i \in 1..Len(Plan[phase])
      BY <2>1, PlanAssumption
         DEF SlotInv, NextInRange, CallsAreBounded, NoFixtureLostOrDoubled, TypeOK,
             NetworkSurfaces, Surfaces
    <3>3. cacheAtStart[Stem[Plan[phase][i]]] = NoEntry
      BY DEF DetInv, CacheInv
    <3> QED
      BY <3>1, <3>2, <3>3, StoreKeepsRepeat DEF FinishCall
  <2>5. CASE XdrFromCache \/ AnswerFromCache \/ SendCall \/ EndSurface \/ Finished
    BY <2>2, <2>5 DEF XdrFromCache, AnswerFromCache, SendCall, Pull, TakeUpcoming,
                      EndSurface, Finished, vars
  <2> QED
    BY <2>2, <2>3, <2>4, <2>5 DEF Next, vars
<1>3. DetInv /\ [Next]_vars => DetInv'
  BY NextDetInv
<1> QED
  BY InitDetInv, <1>1, <1>2, <1>3, PTL DEF Spec

-----------------------------------------------------------------------------
(***************************************************************************)
(* Execution implements OneAnswerEach: seen from outside, a run of any     *)
(* plan answers every fixture once and hands over once, in plan order.     *)
(***************************************************************************)
Turn == [f \in Planned |-> Cardinality(Before[SurfaceOf(f)])]

Due == [f \in Planned |-> Expected(f, SurfaceOf(f))]

-----------------------------------------------------------------------------
(* The plan: a fixture has one place in it, and its surface has one turn.  *)

LEMMA PlaceOf ==
  ASSUME NEW f \in Planned
  PROVE  /\ SurfaceOf(f) \in Surfaces
         /\ \E k \in 1..Len(Plan[SurfaceOf(f)]) : f = Plan[SurfaceOf(f)][k]
<1>1. \E s \in Surfaces : f \in Range(Plan[s])
  BY DEF Planned
<1>2. SurfaceOf(f) \in Surfaces /\ f \in Range(Plan[SurfaceOf(f)])
  BY <1>1 DEF SurfaceOf
<1>3. Plan[SurfaceOf(f)] \in Seq(FixtureIds)
  BY <1>2, PlanAssumption
<1> QED
  BY <1>2, <1>3 DEF Range

LEMMA SurfaceOfPlanned ==
  ASSUME NEW s \in Surfaces, NEW k \in 1..Len(Plan[s])
  PROVE  SurfaceOf(Plan[s][k]) = s
<1>1. Plan[s][k] \in Planned
  BY PlannedFixture
<1>2. PICK j \in 1..Len(Plan[SurfaceOf(Plan[s][k])]) :
        Plan[s][k] = Plan[SurfaceOf(Plan[s][k])][j]
  BY <1>1, PlaceOf
<1>3. SurfaceOf(Plan[s][k]) \in Surfaces
  BY <1>1, PlaceOf
<1> QED
  BY <1>2, <1>3, UniqueIdsAssumption

LEMMA Turns ==
  /\ Cardinality(Before["xdr"]) = 0
  /\ Cardinality(Before["rpc"]) = 1
  /\ Cardinality(Before["soroban"]) = 2
<1>1. Cardinality({}) = 0
  BY FS_EmptySet
<1>2. IsFiniteSet({"xdr"}) /\ Cardinality({"xdr"}) = 1
  BY FS_Singleton
<1>3. Cardinality({"xdr"} \cup {"rpc"}) = 2
  BY <1>2, FS_AddElement
<1>4. {"xdr"} \cup {"rpc"} = {"xdr", "rpc"}
  OBVIOUS
<1> QED
  BY <1>1, <1>2, <1>3, <1>4 DEF Before

\* A surface whose turn is before another's is run before it.
LEMMA TurnIsBefore ==
  ASSUME NEW s \in Surfaces, NEW t \in Surfaces,
         Cardinality(Before[t]) < Cardinality(Before[s])
  PROVE  t \in Before[s]
BY Turns DEF Surfaces, Before

-----------------------------------------------------------------------------
(* What is answered.                                                       *)

Here == {Plan[phase][k] : k \in 1..next \ inFlight}

Earlier == UNION {Range(Plan[s]) : s \in Before[phase]}

LEMMA AnsweredIs ==
  /\ phase \in Surfaces => Answered = Earlier \cup Here
  /\ phase = "done" => Answered = Planned
<1>1. ASSUME phase \in Surfaces
      PROVE  Answered = Earlier \cup Here
  <2>1. Answered = Earlier \cup (IF phase \in Surfaces THEN Here ELSE {})
    BY DEF Answered, Earlier, Here
  <2> QED
    BY <1>1, <2>1
<1>2. ASSUME phase = "done"
      PROVE  Answered = Planned
  <2>1. phase \notin Surfaces /\ Before[phase] = Surfaces
    BY <1>2 DEF Surfaces, Before
  <2>2. Answered = Earlier
    BY <2>1 DEF Answered, Earlier
  <2>3. Earlier = Planned
    BY <2>1 DEF Earlier, Planned
  <2> QED
    BY <1>2, <2>1, <2>2, <2>3
<1> QED
  BY <1>1, <1>2

LEMMA EarlierIs ==
  ASSUME NEW g
  PROVE  g \in Earlier <=> \E s \in Before[phase] : g \in Range(Plan[s])
BY DEF Earlier

\* Fixture k of the surface being run is answered once it is taken and not waiting.
LEMMA AnsweredHere ==
  ASSUME TypeInv, phase \in Surfaces, NEW k \in 1..Len(Plan[phase])
  PROVE  Plan[phase][k] \in Answered <=> k \in 1..next \ inFlight
<1>1. SUFFICES ASSUME Plan[phase][k] \in Answered PROVE k \in 1..next \ inFlight
  BY AnsweredIs DEF Here
<1>2. SurfaceOf(Plan[phase][k]) = phase
  BY SurfaceOfPlanned
<1>3. Plan[phase][k] \notin Earlier
  <2> SUFFICES ASSUME NEW s \in Before[phase], Plan[phase][k] \in Range(Plan[s])
               PROVE  FALSE
    BY EarlierIs
  <2>1. s \in Surfaces /\ s # phase
    BY DEF Before, Surfaces
  <2>2. Plan[s] \in Seq(FixtureIds)
    BY <2>1, PlanAssumption
  <2>3. PICK j \in 1..Len(Plan[s]) : Plan[phase][k] = Plan[s][j]
    BY <2>2 DEF Range
  <2> QED
    BY <2>1, <2>3, UniqueIdsAssumption
<1>4. PICK j \in 1..next \ inFlight : Plan[phase][k] = Plan[phase][j]
  BY <1>1, <1>3, AnsweredIs DEF Here
<1>5. next \in Nat /\ next <= Len(Plan[phase]) /\ Len(Plan[phase]) \in Nat
  BY PlanAssumption DEF TypeInv, TypeOK, SlotInv, NextInRange
<1>6. j \in 1..Len(Plan[phase])
  BY <1>5
<1> QED
  BY <1>4, <1>6, UniqueIdsAssumption

\* A surface run to its end has all its fixtures answered.
LEMMA AnsweredAtEnd ==
  ASSUME TypeInv, phase \in Surfaces, next = Len(Plan[phase]), inFlight = {}
  PROVE  Answered = Earlier \cup Range(Plan[phase])
<1>1. Plan[phase] \in Seq(FixtureIds)
  BY PlanAssumption
<1>2. Here = Range(Plan[phase])
  BY <1>1 DEF Here, Range
<1> QED
  BY <1>2, AnsweredIs

-----------------------------------------------------------------------------
(* The initial state and the steps.                                        *)

LEMMA InitIsOutside == Init => Outside!Init
<1> SUFFICES ASSUME Init PROVE Outside!Init
  OBVIOUS
<1>1. phase = "xdr" /\ next = 0 /\ inFlight = {} /\ "xdr" \in Surfaces
  BY DEF Init, Surfaces
<1>2. Here = {}
  BY <1>1 DEF Here
<1>3. Answered = {}
  BY <1>1, <1>2, AnsweredIs, EarlierIs DEF Before
<1> QED
  BY <1>1, <1>3 DEF Outside!Init

LEMMA DueNeverChanges ==
  ASSUME UNCHANGED <<verdict, cacheAtStart>>
  PROVE  Due' = Due
<1>1. \A f, s : Expected(f, s)' = Expected(f, s)
  BY DEF Expected, Ran
<1>2. \A f : SurfaceOf(f)' = SurfaceOf(f)
  BY DEF SurfaceOf
<1> QED
  BY <1>1, <1>2 DEF Due

\* A step that takes fixture i of the surface to its result is an answer.
LEMMA AnswerIsOutside ==
  ASSUME TypeInv, phase \in Surfaces, NEW i \in 1..Len(Plan[phase]),
         i \notin 1..next \ inFlight,
         1..next' \ inFlight' = (1..next \ inFlight) \cup {i},
         UNCHANGED <<phase, verdict, cacheAtStart>>
  PROVE  Outside!Next
<1> DEFINE f == Plan[phase][i]
<1>1. f \in Planned /\ SurfaceOf(f) = phase
  BY PlannedFixture, SurfaceOfPlanned
<1>2. f \notin Answered
  BY AnsweredHere
<1>3. Answered' = Answered \cup {f}
  <2>1. Here' = Here \cup {f}
    BY DEF Here
  <2>2. Earlier' = Earlier
    BY DEF Earlier
  <2>3. phase' \in Surfaces
    OBVIOUS
  <2>4. Answered' = Earlier' \cup (IF phase' \in Surfaces THEN Here' ELSE {})
    BY DEF Answered, Earlier, Here
  <2> QED
    BY <2>1, <2>2, <2>3, <2>4, AnsweredIs
<1>4. phase # "done" /\ phase' # "done"
  BY DEF Surfaces
<1>5. ASSUME NEW g \in Planned, Turn[g] < Turn[f]
      PROVE  g \in Answered
  <2>1. SurfaceOf(g) \in Before[phase]
    BY <1>1, <1>5, PlaceOf, TurnIsBefore DEF Turn
  <2>2. PICK k \in 1..Len(Plan[SurfaceOf(g)]) : g = Plan[SurfaceOf(g)][k]
    BY PlaceOf
  <2>3. Plan[SurfaceOf(g)] \in Seq(FixtureIds)
    BY PlaceOf, PlanAssumption
  <2>4. g \in Range(Plan[SurfaceOf(g)])
    BY <2>2, <2>3 DEF Range
  <2> QED
    BY <2>1, <2>4, AnsweredIs, EarlierIs
<1>6. Due' = Due
  BY DueNeverChanges
<1>7. Outside!Answer(f)
  BY <1>2, <1>3, <1>4, <1>5, <1>6 DEF Outside!Answer, Turn, Due
<1> QED
  BY <1>1, <1>7 DEF Outside!Next

\* A step that answers nothing and ends nothing is not seen.
LEMMA UnseenStep ==
  ASSUME phase # "done", phase' # "done", Answered' = Answered,
         UNCHANGED <<verdict, cacheAtStart>>
  PROVE  UNCHANGED Outside!vars
BY DueNeverChanges DEF Outside!vars, Due

LEMMA AsFunction ==
  ASSUME NEW S, NEW q \in Seq(S)
  PROVE  q = [k \in 1..Len(q) |-> q[k]]
OBVIOUS

\* The list c is what is due to the list a of fixtures.
DueTo(a, c) ==
  /\ a \in Seq(FixtureIds)
  /\ c \in Seq(Result)
  /\ Len(c) = Len(a)
  /\ \A k \in 1..Len(a) : c[k] = Due[a[k]]

\* What is due to two lists of fixtures is due to them one after the other.
LEMMA DueToConcat ==
  ASSUME NEW a, NEW b, NEW c, NEW d, DueTo(a, c), DueTo(b, d)
  PROVE  DueTo(a \o b, c \o d)
<1> USE DEF DueTo
<1>1. /\ a \o b \in Seq(FixtureIds) /\ Len(a \o b) = Len(a) + Len(b)
      /\ \A k \in 1..Len(a) + Len(b) :
           (a \o b)[k] = IF k <= Len(a) THEN a[k] ELSE b[k - Len(a)]
  BY ConcatProperties
<1>2. /\ c \o d \in Seq(Result) /\ Len(c \o d) = Len(c) + Len(d)
      /\ \A k \in 1..Len(c) + Len(d) :
           (c \o d)[k] = IF k <= Len(c) THEN c[k] ELSE d[k - Len(c)]
  BY ConcatProperties
<1>3. Len(a) \in Nat /\ Len(b) \in Nat
  OBVIOUS
<1>4. Len(c \o d) = Len(a \o b)
  BY <1>1, <1>2
<1>5. ASSUME NEW k \in 1..Len(a \o b)
      PROVE  (c \o d)[k] = Due[(a \o b)[k]]
  <2>1. k \in 1..Len(a) + Len(b)
    BY <1>1
  <2>2. CASE k <= Len(a)
    <3>1. k \in 1..Len(a) /\ (a \o b)[k] = a[k] /\ (c \o d)[k] = c[k]
      BY <1>1, <1>2, <1>3, <2>1, <2>2
    <3> QED
      BY <3>1
  <2>3. CASE ~(k <= Len(a))
    <3>1. k - Len(a) \in 1..Len(b)
      BY <1>3, <2>1, <2>3
    <3>2. (a \o b)[k] = b[k - Len(a)] /\ (c \o d)[k] = d[k - Len(a)]
      BY <1>1, <1>2, <2>1, <2>3
    <3> QED
      BY <3>1, <3>2
  <2> QED
    BY <2>2, <2>3
<1> QED
  BY <1>1, <1>2, <1>4, <1>5

LEMMA DueInOrder ==
  ASSUME TypeOK, NEW s \in Surfaces
  PROVE  DueTo(Plan[s], ExpectedOf(s))
<1>1. Plan[s] \in Seq(FixtureIds) /\ Len(Plan[s]) \in Nat
  BY PlanAssumption
<1>2. ASSUME NEW k \in 1..Len(Plan[s])
      PROVE  ExpectedOf(s)[k] = Due[Plan[s][k]] /\ ExpectedOf(s)[k] \in Result
  <2>1. Plan[s][k] \in Planned /\ Plan[s][k] \in FixtureIds /\ SurfaceOf(Plan[s][k]) = s
    BY PlannedFixture, SurfaceOfPlanned
  <2>2. Expected(Plan[s][k], s) \in Result
    BY <2>1, RanType, StemAssumption DEF TypeOK, Expected, Entry
  <2> QED
    BY <2>1, <2>2 DEF ExpectedOf, Due
<1>3. ExpectedOf(s) = [k \in 1..Len(Plan[s]) |-> ExpectedOf(s)[k]]
  BY DEF ExpectedOf
<1>4. ExpectedOf(s) \in Seq(Result) /\ Len(ExpectedOf(s)) = Len(Plan[s])
  BY <1>1, <1>2, <1>3
<1> QED
  BY <1>1, <1>2, <1>4 DEF DueTo

\* The order of the plan, and what is due in it.
LEMMA DueInPlanOrder ==
  ASSUME TypeOK
  PROVE  ExpectedOf("xdr") \o ExpectedOf("rpc") \o ExpectedOf("soroban")
           = [k \in 1..Len(PlanOrder) |-> Due[PlanOrder[k]]]
<1>1. /\ DueTo(Plan["xdr"], ExpectedOf("xdr"))
      /\ DueTo(Plan["rpc"], ExpectedOf("rpc"))
      /\ DueTo(Plan["soroban"], ExpectedOf("soroban"))
  BY DueInOrder DEF Surfaces
<1>2. DueTo(Plan["xdr"] \o Plan["rpc"], ExpectedOf("xdr") \o ExpectedOf("rpc"))
  BY <1>1, DueToConcat
<1>3. DueTo(PlanOrder, ExpectedOf("xdr") \o ExpectedOf("rpc") \o ExpectedOf("soroban"))
  BY <1>1, <1>2, DueToConcat DEF PlanOrder
<1> QED
  BY <1>3, AsFunction DEF DueTo

\* Ending XDR or RPC is not seen; ending Soroban hands over.
LEMMA EndIsOutside ==
  ASSUME DetInv, EndSurface, ResultsAreDeterministic', TypeInv'
  PROVE  [Outside!Next]_(Outside!vars)
<1>1. /\ phase \in Surfaces /\ phase' = Following[phase] /\ next' = 0
      /\ inFlight = {} /\ inFlight' = {} /\ next = Len(Plan[phase])
      /\ UNCHANGED <<verdict, cacheAtStart>> /\ TypeInv
  BY DEF EndSurface, DetInv
<1>2. Answered = UNION {Range(Plan[s]) : s \in Before[phase] \cup {phase}}
  BY <1>1, AnsweredAtEnd DEF Earlier
<1>3. CASE phase \in {"xdr", "rpc"}
  <2>1. phase' \in Surfaces /\ Before[phase'] = Before[phase] \cup {phase}
    BY <1>1, <1>3 DEF Following, Before, Surfaces
  <2>2. Answered' = UNION {Range(Plan[s]) : s \in Before[phase']}
    BY <1>1, <2>1 DEF Answered
  <2>3. phase # "done" /\ phase' # "done"
    BY <1>3, <2>1 DEF Surfaces
  <2> QED
    BY <1>1, <1>2, <2>1, <2>2, <2>3, UnseenStep
<1>4. CASE phase = "soroban"
  <2>1. phase' = "done"
    BY <1>1, <1>4 DEF Following
  <2>2. Answered = Planned /\ Answered' = Planned
    <3>1. Before[phase] \cup {phase} = Surfaces /\ Before[phase'] = Surfaces /\ phase' \notin Surfaces
      BY <1>4, <2>1 DEF Before, Surfaces
    <3> QED
      BY <1>2, <3>1 DEF Planned, Answered
  <2>3. /\ \A f, s : Expected(f, s)' = Expected(f, s)
        /\ \A s : ExpectedOf(s)' = ExpectedOf(s)
    BY <1>1 DEF ExpectedOf, Expected, Ran
  <2>4. results' = ExpectedOf("xdr") \o ExpectedOf("rpc") \o ExpectedOf("soroban")
    BY <2>1, <2>3 DEF ResultsAreDeterministic
  <2>5. results' = [k \in 1..Len(PlanOrder) |-> Due[PlanOrder[k]]]
    BY <1>1, <2>4, DueInPlanOrder DEF TypeInv
  <2>6. Due' = Due
    BY <1>1, DueNeverChanges
  <2>7. Outside!HandOver
    BY <1>4, <2>1, <2>2, <2>5, <2>6 DEF Outside!HandOver, Due
  <2> QED
    BY <2>7 DEF Outside!Next
<1> QED
  BY <1>1, <1>3, <1>4 DEF Surfaces

\* Taking a fixture that does not wait for a call, from the cache or not.
LEMMA TakeIsOutside ==
  ASSUME TypeInv, TakeUpcoming, UNCHANGED inFlight
  PROVE  Outside!Next
<1>1. /\ phase \in Surfaces /\ next + 1 \in 1..Len(Plan[phase])
      /\ next \in Nat /\ next' = next + 1 /\ inFlight \subseteq 1..next
      /\ UNCHANGED <<phase, verdict, cacheAtStart>>
  BY UpcomingFacts DEF TypeInv, TypeOK, SlotInv, NoFixtureLostOrDoubled, TakeUpcoming
<1>2. /\ next + 1 \notin 1..next \ inFlight
      /\ 1..next' \ inFlight' = (1..next \ inFlight) \cup {next + 1}
  BY <1>1
<1> QED
  BY <1>1, <1>2, AnswerIsOutside

\* Sending a call is not seen.
LEMMA SendCallIsUnseen ==
  ASSUME TypeInv, SendCall
  PROVE  UNCHANGED Outside!vars
<1>1. /\ phase \in Surfaces /\ next \in Nat /\ next' = next + 1
      /\ inFlight' = inFlight \cup {next + 1}
      /\ UNCHANGED <<phase, verdict, cacheAtStart>>
  BY DEF SendCall, Pull, TakeUpcoming, TypeInv, TypeOK
<1>2. 1..next' \ inFlight' = 1..next \ inFlight
  BY <1>1
<1>3. Here' = Here /\ Earlier' = Earlier
  BY <1>1, <1>2 DEF Here, Earlier
<1>4. Answered' = Earlier' \cup (IF phase' \in Surfaces THEN Here' ELSE {})
  BY DEF Answered, Earlier, Here
<1>5. Answered' = Answered
  BY <1>1, <1>3, <1>4, AnsweredIs
<1>6. phase # "done" /\ phase' # "done"
  BY <1>1 DEF Surfaces
<1> QED
  BY <1>1, <1>5, <1>6, UnseenStep

LEMMA FinishCallIsOutside ==
  ASSUME TypeInv, NEW i \in inFlight, FinishCall(i)
  PROVE  Outside!Next
<1>1. /\ phase \in Surfaces /\ i \in 1..next /\ next \in Nat
      /\ inFlight' = inFlight \ {i} /\ next' = next
      /\ UNCHANGED <<phase, verdict, cacheAtStart>> /\ next <= Len(Plan[phase])
  BY DEF FinishCall, TypeInv, SlotInv, NextInRange, CallsAreBounded,
         NoFixtureLostOrDoubled, TypeOK, NetworkSurfaces, Surfaces
<1>2. i \in 1..Len(Plan[phase])
  BY <1>1, PlanAssumption
<1>3. /\ i \notin 1..next \ inFlight
      /\ 1..next' \ inFlight' = (1..next \ inFlight) \cup {i}
  BY <1>1
<1> QED
  BY <1>1, <1>2, <1>3, AnswerIsOutside

LEMMA NextIsOutside ==
  ASSUME DetInv, DetInv', [Next]_vars
  PROVE  [Outside!Next]_(Outside!vars)
<1>1. TypeInv /\ TypeInv'
  BY DEF DetInv
<1>2. CASE XdrFromCache \/ XdrRun \/ AnswerFromCache \/ FailToBuild
  BY <1>1, <1>2, TakeIsOutside DEF XdrFromCache, XdrRun, AnswerFromCache, FailToBuild, Pull
<1>3. CASE SendCall
  BY <1>1, <1>3, SendCallIsUnseen
<1>4. CASE \E i \in inFlight : FinishCall(i)
  BY <1>1, <1>4, FinishCallIsOutside
<1>5. CASE EndSurface
  BY <1>1, <1>5, EndIsOutside DEF DetInv, ResultsInv
<1>6. CASE UNCHANGED vars
  <2>1. Answered' = Answered
    BY <1>6 DEF vars, Answered
  <2>2. Due' = Due
    BY <1>6, DueNeverChanges DEF vars
  <2> QED
    BY <1>6, <2>1, <2>2 DEF vars, Outside!vars, Due
<1> QED
  BY <1>2, <1>3, <1>4, <1>5, <1>6 DEF Next, Finished

\* execution.rs:3-8, for plans of any length and every window: when fixtures have
\* cache files of their own, a run is, seen from outside, one that answers each
\* fixture once, surface by surface, and hands its answers over in plan order.
THEOREM AnswersOnce ==
  ASSUME StemsAreDistinct
  PROVE  Spec => AnswersEachFixtureOnce
<1>1. DetInv /\ [Next]_vars => DetInv'
  BY NextDetInv
<1>2. DetInv /\ DetInv' /\ [Next]_vars => [Outside!Next]_(Outside!vars)
  BY NextIsOutside
<1> QED
  BY InitDetInv, InitIsOutside, <1>1, <1>2, PTL
     DEF Spec, AnswersEachFixtureOnce, Outside!Spec
=============================================================================
