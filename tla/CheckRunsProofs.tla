---------------------------- MODULE CheckRunsProofs ----------------------------
(* What holds of the results runs of `check` find in their cache, for every  *)
(* number of runs and fixtures and every bound on the world's changes.       *)
EXTENDS CheckRuns, TLAPS

-----------------------------------------------------------------------------
(* Types.                                                                    *)

LEMMA InitType == Init => TypeOK
  BY BoundsAssumption
  DEF Init, TypeOK, Protocols, Unknown, ByName, Fingerprint, Stages, Key, Content

LEMMA FingerprintType ==
  ASSUME TypeOK, NEW answered \in BOOLEAN
  PROVE  FingerprintNow(answered) \in Fingerprint
<1>1. (answered /\ ReportedDirty) \in BOOLEAN
  BY DEF ReportedDirty
<1>2. head \in 0..MaxCommits
  BY BoundsAssumption DEF TypeOK
<1> QED BY <1>1, <1>2, BoundsAssumption DEF FingerprintNow, ByName, Fingerprint

LEMMA FoundType ==
  ASSUME TypeOK, NEW d \in Tracked \cup Elsewhere
  PROVE  Found(d) \in Content
<1>1. (IF d \in Tracked THEN tree ELSE elsewhere[d]) \in 0..MaxEdits \cup 0..MaxUpdates
  BY DEF TypeOK
<1> QED BY <1>1 DEF Found, Content

LEMMA KeyType ==
  ASSUME TypeOK, NEW r \in Runs, NEW f \in Fixtures
  PROVE  CacheKey(r, f) \in Key
  BY DEF TypeOK, CacheKey, Key

\* Adding one result of a fixture to those of a run.
LEMMA AddType ==
  ASSUME TypeOK, NEW r \in Runs, NEW f \in Fixtures, NEW hit \in BOOLEAN,
         NEW made \in Made \cup {NoEntry}, Add(r, f, hit, made)
  PROVE  reported' \in [Runs -> SUBSET Reported]
<1>1. [fixture |-> f, hit |-> hit, made |-> made] \in Reported
  BY DEF Reported
<1> QED BY <1>1 DEF TypeOK, Add

LEMMA TypeStep == TypeOK /\ [Next]_vars => TypeOK'
<1> SUFFICES ASSUME TypeOK, [Next]_vars PROVE TypeOK'
  OBVIOUS
<1> USE BoundsAssumption
<1>1. CASE Upgrade
  BY <1>1 DEF TypeOK, Upgrade, runs, Protocols
<1>2. CASE Edit
  BY <1>2 DEF TypeOK, Edit, runs
<1>3. CASE Commit
  BY <1>3 DEF TypeOK, Commit, runs
<1>4. ASSUME NEW c \in 1..Len(commits), Checkout(c) PROVE TypeOK'
  BY <1>4 DEF TypeOK, Checkout, runs
<1>5. ASSUME NEW r \in Runs, Run(r) PROVE TypeOK'
  <2>1. CASE Start(r)
    BY <2>1 DEF TypeOK, Start, Advance, world, Stages
  <2>2. CASE Probe(r)
    BY <2>2 DEF TypeOK, Probe, Advance, world, Stages
  <2>3. CASE ProbeFails(r)
    BY <2>3 DEF TypeOK, ProbeFails, Advance, world, Stages
  <2>4. ASSUME NEW d \in Tracked \cup Elsewhere, LoadFixtures(r, d) PROVE TypeOK'
    BY <2>4, FoundType DEF TypeOK, LoadFixtures, Advance, world, Stages
  <2>5. CASE EndsEarly(r)
    BY <2>5 DEF TypeOK, EndsEarly, world, Stages
  <2>6. CASE CollectGit(r)
    <3>1. PICK answered \in {TRUE, ~StatusMayFail} :
            /\ print' = [print EXCEPT ![r] = FingerprintNow(answered)]
            /\ sure' = [sure EXCEPT ![r] =
                          answered /\ loaded[r] = Found(loaded[r].directory)]
      BY <2>6 DEF CollectGit
    <3>2. FingerprintNow(answered) \in Fingerprint
      BY <3>1, FingerprintType, SwitchesAssumption
    <3>3. print' \in [Runs -> Fingerprint] /\ sure' \in [Runs -> BOOLEAN]
      BY <3>1, <3>2 DEF TypeOK
    <3> QED BY <2>6, <3>3 DEF TypeOK, CollectGit, Advance, world, Stages
  <2>7. ASSUME NEW f \in Fixtures, Hit(r, f) PROVE TypeOK'
    <3>1. cache[CacheKey(r, f)] \in Made \cup {NoEntry}
      BY KeyType DEF TypeOK
    <3>2. reported' \in [Runs -> SUBSET Reported]
      BY <2>7, <3>1, AddType DEF Hit
    <3> QED BY <2>7, <3>2 DEF TypeOK, Hit, world
  <2>8. ASSUME NEW f \in Fixtures, Miss(r, f) PROVE TypeOK'
    BY <2>8 DEF TypeOK, Miss, world
  <2>9. ASSUME NEW f \in Fixtures, Answered(r, f) PROVE TypeOK'
    <3> DEFINE made == [content |-> loaded[r], protocol |-> protocol]
    <3>1. made \in Made
      BY DEF TypeOK, Made
    <3>2. reported' \in [Runs -> SUBSET Reported]
      BY <2>9, <3>1, AddType DEF Answered
    <3>3. cache' \in [Key -> Made \cup {NoEntry}]
      BY <2>9, <3>1, KeyType DEF Answered, TypeOK
    <3> QED BY <2>9, <3>2, <3>3 DEF TypeOK, Answered, world
  <2>10. ASSUME NEW f \in Fixtures, CallFails(r, f) PROVE TypeOK'
    <3>1. reported' \in [Runs -> SUBSET Reported]
      BY <2>10, AddType DEF CallFails
    <3> QED BY <2>10, <3>1 DEF TypeOK, CallFails, world
  <2>11. CASE Report(r)
    BY <2>11 DEF TypeOK, Report, Advance, world, Stages
  <2> QED BY <1>5, <2>1, <2>2, <2>3, <2>4, <2>5, <2>6, <2>7, <2>8, <2>9, <2>10, <2>11 DEF Run
<1>6. ASSUME NEW k \in Key, LoseEntry(k) PROVE TypeOK'
  BY <1>6 DEF TypeOK, LoseEntry, world, runs
<1>7. ASSUME NEW d \in Elsewhere, UpdateElsewhere(d) PROVE TypeOK'
  BY <1>7 DEF TypeOK, UpdateElsewhere, runs
<1>8. CASE UNCHANGED vars
  BY <1>8 DEF TypeOK, vars, world, runs
<1> QED BY <1>1, <1>2, <1>3, <1>4, <1>5, <1>6, <1>7, <1>8 DEF Next

\* The world, the cache and every run stay well typed (the constants' bounds are
\* the only assumption).
THEOREM TypeCorrect == Spec => []TypeOK
<1>1. Init => TypeOK
  BY InitType
<1>2. TypeOK /\ [Next]_vars => TypeOK'
  BY TypeStep
<1> QED BY <1>1, <1>2, PTL DEF Spec

-----------------------------------------------------------------------------
(* The network.                                                              *)

\* Nothing is reported before the run executes, nothing observed before it
\* probes; the network never goes back.
ProbesAreRecent ==
  \A r \in Runs :
    /\ begun[r] <= protocol /\ observed[r] <= protocol
    /\ observed[r] # Unknown => begun[r] <= observed[r]
    /\ stage[r] \in {"waiting", "started"} => observed[r] = Unknown
    /\ stage[r] \notin {"executing", "ended"} => reported[r] = {} /\ calling[r] = {}

\* A result was made by the protocol of its key or a later one.
EntriesAreRecent ==
  \A k \in Key :
    cache[k] # NoEntry =>
      cache[k].protocol <= protocol /\ k.observed <= cache[k].protocol

NetworkInv ==
  /\ TypeOK
  /\ ProbesAreRecent
  /\ EntriesAreRecent
  /\ ProbedHitsAreNotFromAnOlderNetwork

LEMMA InitNetwork == Init => NetworkInv
<1> SUFFICES ASSUME Init PROVE NetworkInv
  OBVIOUS
<1>1. TypeOK
  BY InitType
<1>2. ProbesAreRecent
  <2>1. /\ protocol = 1
        /\ \A r \in Runs : /\ begun[r] = 1 /\ observed[r] = Unknown
                          /\ reported[r] = {} /\ calling[r] = {}
    BY DEF Init
  <2>2. 1 <= 1 /\ Unknown <= 1
    BY DEF Unknown
  <2> QED BY <2>1, <2>2 DEF ProbesAreRecent
<1>3. EntriesAreRecent
  BY DEF Init, EntriesAreRecent
<1>4. ProbedHitsAreNotFromAnOlderNetwork
  BY DEF Init, ProbedHitsAreNotFromAnOlderNetwork
<1> QED BY <1>1, <1>2, <1>3, <1>4 DEF NetworkInv

LEMMA NetworkStep == NetworkInv /\ [Next]_vars => NetworkInv'
<1> SUFFICES ASSUME NetworkInv, [Next]_vars PROVE NetworkInv'
  OBVIOUS
<1>t. TypeOK /\ TypeOK'
  BY TypeStep DEF NetworkInv
<1>n. protocol \in Nat /\ protocol' \in Nat /\ protocol' >= protocol
  <2>1. protocol \in Nat /\ protocol' \in Nat
    BY <1>t, BoundsAssumption DEF TypeOK, Protocols
  <2>2. protocol' = protocol + 1 \/ protocol' = protocol
    BY DEF Next, Upgrade, Edit, Commit, Checkout, UpdateElsewhere, LoseEntry, Run, Start, Probe, ProbeFails, LoadFixtures,
       EndsEarly, CollectGit, Hit, Miss, Answered, CallFails, Report, vars, world
  <2> QED BY <2>1, <2>2
<1>p. Protocols \subseteq Nat /\ Unknown \in Nat
  BY BoundsAssumption DEF Protocols, Unknown
<1>s. /\ \A q \in Runs : begun[q] \in Nat /\ observed[q] \in Nat
      /\ \A k \in Key : k.observed \in Nat /\ cache[k] \in Made \cup {NoEntry}
                      /\ cache[k].protocol \in Nat
  <2>1. \A q \in Runs : begun[q] \in Protocols /\ observed[q] \in Protocols \cup {Unknown}
    BY <1>t DEF TypeOK
  <2>2. \A k \in Key : k.observed \in Protocols \cup {Unknown}
    BY DEF Key
  <2>3. \A k \in Key : cache[k] \in Made \cup {NoEntry}
    BY <1>t DEF TypeOK
  <2>4. \A m \in Made \cup {NoEntry} : m.protocol \in Nat
    <3>1. \A m \in Made : m.protocol \in Nat
      BY <1>p DEF Made
    <3>2. NoEntry.protocol \in Nat
      BY DEF NoEntry
    <3> QED BY <3>1, <3>2
  <2> QED BY <1>p, <2>1, <2>2, <2>3, <2>4
<1>1. CASE UNCHANGED <<cache, runs>>
  <2>1. ProbesAreRecent'
    <3> SUFFICES ASSUME NEW q \in Runs
                 PROVE  begun[q] <= protocol' /\ observed[q] <= protocol'
      BY <1>1 DEF runs, NetworkInv, ProbesAreRecent
    <3> QED BY <1>n, <1>s DEF NetworkInv, ProbesAreRecent
  <2>2. EntriesAreRecent'
    BY <1>1, <1>n, <1>s DEF NetworkInv, EntriesAreRecent
  <2>3. ProbedHitsAreNotFromAnOlderNetwork'
    BY <1>1 DEF runs, NetworkInv, ProbedHitsAreNotFromAnOlderNetwork
  <2> QED BY <1>t, <2>1, <2>2, <2>3 DEF NetworkInv
<1>2. ASSUME NEW r \in Runs, Run(r) PROVE NetworkInv'
  <2>1. ASSUME UNCHANGED <<protocol, cache, reported, calling>>,
               stage' = [stage EXCEPT ![r] = stage'[r]],
               begun' = [begun EXCEPT ![r] = begun'[r]],
               observed' = [observed EXCEPT ![r] = observed'[r]],
               begun'[r] <= protocol, observed'[r] <= protocol,
               observed'[r] # Unknown => begun'[r] <= observed'[r],
               stage'[r] \in {"waiting", "started"} => observed'[r] = Unknown,
               stage[r] \in {"executing", "ended"}
                 => stage'[r] \in {"executing", "ended"} /\ begun'[r] = begun[r]
                    /\ observed'[r] = observed[r]
        PROVE  NetworkInv'
    <3>1. ProbesAreRecent'
      BY <2>1, <1>t DEF NetworkInv, ProbesAreRecent, TypeOK
    <3>2. EntriesAreRecent'
      BY <2>1, <1>t DEF NetworkInv, EntriesAreRecent
    <3>3. ProbedHitsAreNotFromAnOlderNetwork'
      <4> SUFFICES ASSUME NEW q \in Runs, NEW x \in reported[q], x.hit, observed'[q] # Unknown
                   PROVE  x.made.protocol >= begun'[q]
        BY <2>1 DEF ProbedHitsAreNotFromAnOlderNetwork
      <4>1. begun'[q] = begun[q] /\ observed'[q] = observed[q]
        BY <2>1, <1>t DEF NetworkInv, ProbesAreRecent, TypeOK
      <4> QED BY <4>1 DEF NetworkInv, ProbedHitsAreNotFromAnOlderNetwork
    <3> QED BY <3>1, <3>2, <3>3, <1>t DEF NetworkInv
  <2>2. CASE Start(r)
    BY <2>2, <2>1, <1>t, <1>s, <1>n DEF Start, Advance, world, TypeOK, NetworkInv, ProbesAreRecent
  <2>3. CASE Probe(r)
    BY <2>3, <2>1, <1>t, <1>s, <1>n DEF Probe, Advance, world, TypeOK, NetworkInv, ProbesAreRecent
  <2>4. CASE ProbeFails(r)
    BY <2>4, <2>1, <1>t, <1>s, <1>n
       DEF ProbeFails, Advance, world, TypeOK, NetworkInv, ProbesAreRecent, Unknown
  <2>5. ASSUME NEW d \in Tracked \cup Elsewhere, LoadFixtures(r, d) PROVE NetworkInv'
    BY <2>5, <2>1, <1>t, <1>s, <1>n DEF LoadFixtures, Advance, world, TypeOK, NetworkInv, ProbesAreRecent
  <2>6. CASE EndsEarly(r)
    BY <2>6, <2>1, <1>t, <1>s, <1>n DEF EndsEarly, world, TypeOK, NetworkInv, ProbesAreRecent
  <2>7. CASE CollectGit(r)
    BY <2>7, <2>1, <1>t, <1>s, <1>n DEF CollectGit, Advance, world, TypeOK, NetworkInv, ProbesAreRecent
  <2>8. CASE Report(r)
    BY <2>8, <2>1, <1>t, <1>s, <1>n DEF Report, Advance, world, TypeOK, NetworkInv, ProbesAreRecent
  <2>9. ASSUME NEW f \in Fixtures, Hit(r, f) PROVE NetworkInv'
    <3>1. ProbesAreRecent'
      BY <2>9, <1>t DEF Hit, ToRun, Add, world, NetworkInv, ProbesAreRecent, TypeOK
    <3>2. EntriesAreRecent'
      BY <2>9 DEF Hit, world, NetworkInv, EntriesAreRecent
    <3>3. observed[r] # Unknown => cache[CacheKey(r, f)].protocol >= begun[r]
      <4>1. CacheKey(r, f) \in Key /\ CacheKey(r, f).observed = observed[r]
        BY <1>t, KeyType DEF CacheKey
      <4>2. cache[CacheKey(r, f)] \in Made /\ observed[r] <= cache[CacheKey(r, f)].protocol
        BY <4>1, <2>9, <1>s, <1>n DEF Hit, NetworkInv, EntriesAreRecent
      <4> QED BY <4>2, <1>s, <1>n DEF NetworkInv, ProbesAreRecent, Made, Protocols
    <3>4. ProbedHitsAreNotFromAnOlderNetwork'
      BY <2>9, <3>3, <1>t DEF Hit, Add, NetworkInv, ProbedHitsAreNotFromAnOlderNetwork, TypeOK
    <3> QED BY <3>1, <3>2, <3>4, <1>t DEF NetworkInv
  <2>10. ASSUME NEW f \in Fixtures, Miss(r, f) PROVE NetworkInv'
    BY <2>10, <1>t
       DEF Miss, ToRun, world, NetworkInv, ProbesAreRecent, EntriesAreRecent,
           ProbedHitsAreNotFromAnOlderNetwork, TypeOK
  <2>11. ASSUME NEW f \in Fixtures, Answered(r, f) PROVE NetworkInv'
    <3>1. ProbesAreRecent'
      BY <2>11, <1>t DEF Answered, Add, world, NetworkInv, ProbesAreRecent, TypeOK
    <3>2. EntriesAreRecent'
      <4>1. CacheKey(r, f).observed <= protocol
        BY DEF CacheKey, NetworkInv, ProbesAreRecent
      <4> SUFFICES ASSUME NEW k \in Key, cache'[k] # NoEntry
                   PROVE  cache'[k].protocol <= protocol /\ k.observed <= cache'[k].protocol
        BY <2>11 DEF Answered, world, EntriesAreRecent
      <4>2. CASE k = CacheKey(r, f)
        <5>1. cache'[k].protocol = protocol
          BY <2>11, <4>2, <1>t DEF Answered, TypeOK
        <5> QED BY <5>1, <4>1, <4>2, <1>n
      <4>3. CASE k # CacheKey(r, f)
        <5>1. cache'[k] = cache[k]
          BY <2>11, <4>3, <1>t DEF Answered, TypeOK
        <5> QED BY <5>1 DEF NetworkInv, EntriesAreRecent
      <4> QED BY <4>2, <4>3
    <3>3. ProbedHitsAreNotFromAnOlderNetwork'
      BY <2>11, <1>t DEF Answered, Add, NetworkInv, ProbedHitsAreNotFromAnOlderNetwork, TypeOK
    <3> QED BY <3>1, <3>2, <3>3, <1>t DEF NetworkInv
  <2>12. ASSUME NEW f \in Fixtures, CallFails(r, f) PROVE NetworkInv'
    <3>1. ProbesAreRecent'
      BY <2>12, <1>t DEF CallFails, Add, world, NetworkInv, ProbesAreRecent, TypeOK
    <3>2. EntriesAreRecent'
      BY <2>12 DEF CallFails, world, NetworkInv, EntriesAreRecent
    <3>3. ProbedHitsAreNotFromAnOlderNetwork'
      BY <2>12, <1>t DEF CallFails, Add, NetworkInv, ProbedHitsAreNotFromAnOlderNetwork, TypeOK
    <3> QED BY <3>1, <3>2, <3>3, <1>t DEF NetworkInv
  <2> QED BY <1>2, <2>2, <2>3, <2>4, <2>5, <2>6, <2>7, <2>8, <2>9, <2>10, <2>11, <2>12 DEF Run
<1>3. ASSUME NEW k \in Key, LoseEntry(k) PROVE NetworkInv'
  <2>1. \A j \in Key : cache'[j] # NoEntry => cache[j] # NoEntry /\ cache'[j] = cache[j]
    BY <1>3, <1>t DEF LoseEntry, TypeOK
  <2>2. ProbesAreRecent'
    BY <1>3 DEF LoseEntry, world, runs, NetworkInv, ProbesAreRecent
  <2>3. EntriesAreRecent'
    BY <1>3, <2>1 DEF LoseEntry, world, NetworkInv, EntriesAreRecent
  <2>4. ProbedHitsAreNotFromAnOlderNetwork'
    BY <1>3 DEF LoseEntry, runs, NetworkInv, ProbedHitsAreNotFromAnOlderNetwork
  <2> QED BY <1>t, <2>2, <2>3, <2>4 DEF NetworkInv
<1> QED BY <1>1, <1>2, <1>3 DEF Next, Upgrade, Edit, Commit, Checkout, UpdateElsewhere, vars, world, runs

LEMMA NetworkAlways == Spec => []NetworkInv
<1>1. Init => NetworkInv
  BY InitNetwork
<1>2. NetworkInv /\ [Next]_vars => NetworkInv'
  BY NetworkStep
<1> QED BY <1>1, <1>2, PTL DEF Spec

\* A run whose probe was answered never reports a cached result of a network
\* older than the one it began on, however many runs overlap, probes fail and
\* upgrades happen (commands.rs:75-80, execution.rs:152-165).
THEOREM ProbedHitsAreRecent == Spec => []ProbedHitsAreNotFromAnOlderNetwork
<1>1. NetworkInv => ProbedHitsAreNotFromAnOlderNetwork
  BY DEF NetworkInv
<1> QED BY <1>1, NetworkAlways, PTL

\* An entry stored under the protocol the network runs now was made by it: the
\* protocol between probe and answer lies between the key's and the network's.
THEOREM EntriesMatch == Spec => []EntriesMatchTheirProtocol
<1>1. NetworkInv => EntriesMatchTheirProtocol
  <2> SUFFICES ASSUME NetworkInv, NEW k \in Key, cache[k] # NoEntry, k.observed = protocol
               PROVE  cache[k].protocol = protocol
    BY DEF EntriesMatchTheirProtocol
  <2>1. cache[k] \in Made /\ protocol \in Nat
    BY DEF NetworkInv, TypeOK, Protocols
  <2> QED BY <2>1 DEF NetworkInv, EntriesAreRecent, Made, Protocols
<1> QED BY <1>1, NetworkAlways, PTL

-----------------------------------------------------------------------------
(* The fixtures.                                                             *)

IsClean(fp) == fp.commit # 0 /\ ~fp.dirty

IsTracked(fixtures) == fixtures \in Content /\ fixtures.directory \in Tracked

\* The commit of a clean fingerprint holds these fixtures.
Holds(fp, fixtures) ==
  fp.commit \in 1..Len(commits) /\ commits[fp.commit] = fixtures.version

HasAsked(q) == stage[q] \in {"executing", "ended"}

\* A run that has not asked git has nothing to show; one that is sure of its
\* clean fingerprint has loaded what the commit holds.
SureOfItself(q) ==
  /\ ~HasAsked(q) =>
       print[q] = ByName /\ sure[q] /\ reported[q] = {} /\ calling[q] = {}
  /\ sure[q] /\ IsClean(print[q]) /\ IsTracked(loaded[q]) => Holds(print[q], loaded[q])

\* Some run that was not sure of its fingerprint had loaded these fixtures.
Unsure(fp, fixtures) ==
  \E q \in Runs : ~sure[q] /\ print[q] = fp /\ loaded[q] = fixtures

RunsAreSure == \A q \in Runs : SureOfItself(q)

\* Of fixtures in the work tree, a clean key stands for the version its commit
\* holds, or an unsure run is to blame.
CleanEntriesMatch ==
  \A k \in Key :
    cache[k] # NoEntry /\ IsClean(k.print) /\ IsTracked(cache[k].content) =>
      Holds(k.print, cache[k].content) \/ Unsure(k.print, cache[k].content)

CleanInv ==
  /\ TypeOK
  /\ RunsAreSure
  /\ CleanEntriesMatch
  /\ CleanHitsMatchFixtures

LEMMA InitClean == Init => CleanInv
<1> SUFFICES ASSUME Init PROVE CleanInv
  OBVIOUS
<1>1. TypeOK
  BY InitType
<1>2. RunsAreSure
  <2>1. \A q \in Runs : /\ stage[q] = "waiting" /\ print[q] = ByName /\ sure[q]
                        /\ reported[q] = {} /\ calling[q] = {}
    BY DEF Init
  <2>2. ~IsClean(ByName)
    BY DEF IsClean, ByName
  <2> QED BY <2>1, <2>2 DEF RunsAreSure, SureOfItself
<1>3. CleanEntriesMatch
  BY DEF Init, CleanEntriesMatch
<1>4. CleanHitsMatchFixtures
  BY DEF Init, CleanHitsMatchFixtures
<1> QED BY <1>1, <1>2, <1>3, <1>4 DEF CleanInv

\* Commits only grow, and a run that has asked git keeps what it knows.
CommitsGrow ==
  \A c \in 1..Len(commits) : c \in 1..Len(commits') /\ commits'[c] = commits[c]

AskedRunsStay ==
  \A q \in Runs : HasAsked(q) =>
    print'[q] = print[q] /\ sure'[q] = sure[q] /\ loaded'[q] = loaded[q]

LEMMA BlameStays ==
  ASSUME RunsAreSure, AskedRunsStay, NEW fp, NEW fixtures, Unsure(fp, fixtures)
  PROVE  \E q \in Runs : ~sure'[q] /\ print'[q] = fp /\ loaded'[q] = fixtures
<1>1. PICK q \in Runs : ~sure[q] /\ print[q] = fp /\ loaded[q] = fixtures
  BY DEF Unsure
<1>2. HasAsked(q)
  BY <1>1 DEF RunsAreSure, SureOfItself
<1> QED BY <1>1, <1>2 DEF AskedRunsStay

\* What was cached or reported before stays accounted for.
LEMMA OldEntriesMatch ==
  ASSUME CleanInv, CommitsGrow, AskedRunsStay, NEW k \in Key, cache[k] # NoEntry,
         IsClean(k.print), IsTracked(cache[k].content)
  PROVE  \/ /\ k.print.commit \in 1..Len(commits')
            /\ commits'[k.print.commit] = cache[k].content.version
         \/ \E q \in Runs : /\ ~sure'[q] /\ print'[q] = k.print
                            /\ loaded'[q] = cache[k].content
<1>1. Holds(k.print, cache[k].content) \/ Unsure(k.print, cache[k].content)
  BY DEF CleanInv, CleanEntriesMatch
<1>2. CASE Holds(k.print, cache[k].content)
  BY <1>2 DEF Holds, CommitsGrow
<1>3. CASE Unsure(k.print, cache[k].content)
  BY <1>3, BlameStays DEF CleanInv
<1> QED BY <1>1, <1>2, <1>3

LEMMA OldHitsMatch ==
  ASSUME CleanInv, AskedRunsStay, NEW r \in Runs, NEW x \in reported[r],
         x.hit, print'[r].commit # 0, ~print'[r].dirty, loaded'[r].directory \in Tracked,
         x.made.content.directory = loaded'[r].directory
  PROVE  \/ x.made.content = loaded'[r]
         \/ \E q \in Runs : /\ ~sure'[q] /\ print'[q] = print'[r]
                            /\ loaded'[q] \in {loaded'[r], x.made.content}
<1>1. HasAsked(r)
  BY DEF CleanInv, RunsAreSure, SureOfItself
<1>2. print'[r] = print[r] /\ loaded'[r] = loaded[r]
  BY <1>1 DEF AskedRunsStay
<1>3. \/ x.made.content = loaded[r]
      \/ \E q \in Runs : ~sure[q] /\ print[q] = print[r] /\ loaded[q] \in {loaded[r], x.made.content}
  BY <1>2 DEF CleanInv, CleanHitsMatchFixtures
<1>4. CASE x.made.content = loaded[r]
  BY <1>2, <1>4
<1>5. ASSUME NEW q \in Runs, ~sure[q], print[q] = print[r],
             loaded[q] \in {loaded[r], x.made.content}
      PROVE  ~sure'[q] /\ print'[q] = print'[r] /\ loaded'[q] \in {loaded'[r], x.made.content}
  <2>1. HasAsked(q)
    BY <1>5 DEF CleanInv, RunsAreSure, SureOfItself
  <2> QED BY <2>1, <1>2, <1>5 DEF AskedRunsStay
<1> QED BY <1>3, <1>4, <1>5

\* A step that stores and reports nothing.
LEMMA QuietStepKeepsClean ==
  ASSUME CleanInv, TypeOK', CommitsGrow, AskedRunsStay, RunsAreSure',
         reported' = reported,
         \A k \in Key : cache'[k] # NoEntry => cache'[k] = cache[k]
  PROVE  CleanInv'
<1>1. CleanEntriesMatch'
  <2> SUFFICES ASSUME NEW k \in Key, cache'[k] # NoEntry, IsClean(k.print),
                      IsTracked(cache'[k].content)
               PROVE  \/ /\ k.print.commit \in 1..Len(commits')
                         /\ commits'[k.print.commit] = cache'[k].content.version
                      \/ \E q \in Runs : /\ ~sure'[q] /\ print'[q] = k.print
                                         /\ loaded'[q] = cache'[k].content
    BY DEF CleanEntriesMatch, Holds, Unsure
  <2>1. cache'[k] = cache[k]
    OBVIOUS
  <2> QED BY <2>1, OldEntriesMatch
<1>2. CleanHitsMatchFixtures'
  BY OldHitsMatch DEF CleanHitsMatchFixtures
<1> QED BY <1>1, <1>2 DEF CleanInv

\* The world moves: no run knows more than before.
LEMMA WorldKeepsClean ==
  ASSUME CleanInv, TypeOK', UNCHANGED runs, CommitsGrow,
         \A k \in Key : cache'[k] # NoEntry => cache'[k] = cache[k]
  PROVE  CleanInv'
<1>1. RunsAreSure'
  <2> SUFFICES ASSUME NEW q \in Runs PROVE SureOfItself(q)'
    BY DEF RunsAreSure
  <2>1. SureOfItself(q)
    BY DEF CleanInv, RunsAreSure
  <2> QED BY <2>1 DEF SureOfItself, HasAsked, Holds, CommitsGrow, runs
<1> QED BY <1>1, QuietStepKeepsClean DEF AskedRunsStay, runs

\* Run r takes a step; the others and the world stay.
OnlyRun(r) ==
  /\ UNCHANGED world
  /\ \A q \in Runs \ {r} :
       /\ stage'[q] = stage[q] /\ calling'[q] = calling[q] /\ reported'[q] = reported[q]
       /\ loaded'[q] = loaded[q] /\ print'[q] = print[q] /\ sure'[q] = sure[q]

LEMMA OthersAreSure ==
  ASSUME CleanInv, NEW r \in Runs, OnlyRun(r), SureOfItself(r)'
  PROVE  RunsAreSure' /\ CommitsGrow
<1>1. ASSUME NEW q \in Runs, q # r PROVE SureOfItself(q)'
  <2>1. SureOfItself(q)
    BY DEF CleanInv, RunsAreSure
  <2> QED BY <1>1, <2>1 DEF SureOfItself, HasAsked, Holds, OnlyRun, world
<1> QED BY <1>1 DEF RunsAreSure, CommitsGrow, OnlyRun, world

\* A step before git is asked, or a miss, or the end.
LEMMA RunKeepsClean ==
  ASSUME CleanInv, TypeOK', NEW r \in Runs, OnlyRun(r), SureOfItself(r)',
         UNCHANGED <<cache, reported>>,
         HasAsked(r) => print'[r] = print[r] /\ sure'[r] = sure[r] /\ loaded'[r] = loaded[r]
  PROVE  CleanInv'
<1>1. AskedRunsStay
  BY DEF AskedRunsStay, OnlyRun
<1> QED BY <1>1, OthersAreSure, QuietStepKeepsClean

LEMMA CleanStep == CleanInv /\ [Next]_vars => CleanInv'
<1> SUFFICES ASSUME CleanInv, [Next]_vars PROVE CleanInv'
  OBVIOUS
<1>t. TypeOK /\ TypeOK'
  BY TypeStep DEF CleanInv
<1>c. Len(commits) \in Nat /\ commits \in Seq(0..MaxEdits)
  BY <1>t DEF TypeOK
<1>g. UNCHANGED commits => CommitsGrow
  BY DEF CommitsGrow
<1>1. CASE Upgrade
  BY <1>1, <1>t, <1>g, WorldKeepsClean DEF Upgrade
<1>2. CASE Edit
  BY <1>2, <1>t, <1>g, WorldKeepsClean DEF Edit
<1>3. CASE Commit
  <2>1. CommitsGrow
    BY <1>3, <1>t, <1>c DEF Commit, TypeOK, CommitsGrow
  <2> QED BY <1>3, <2>1, <1>t, WorldKeepsClean DEF Commit
<1>4. ASSUME NEW c \in 1..Len(commits), Checkout(c) PROVE CleanInv'
  BY <1>4, <1>t, <1>g, WorldKeepsClean DEF Checkout
<1>5. ASSUME NEW r \in Runs, Run(r) PROVE CleanInv'
  <2>s. /\ ~HasAsked(r) =>
             print[r] = ByName /\ sure[r] /\ reported[r] = {} /\ calling[r] = {}
        /\ sure[r] /\ IsClean(print[r]) /\ IsTracked(loaded[r]) => Holds(print[r], loaded[r])
    BY DEF CleanInv, RunsAreSure, SureOfItself
  <2>n. ~IsClean(ByName)
    BY DEF IsClean, ByName
  <2>1. CASE Start(r)
    <3>1. OnlyRun(r) /\ UNCHANGED <<cache, reported>> /\ ~HasAsked(r)
      BY <2>1, <1>t DEF Start, Advance, TypeOK, OnlyRun, HasAsked, world
    <3>2. SureOfItself(r)'
      BY <2>1, <2>s, <2>n, <3>1, <1>t DEF Start, Advance, TypeOK, SureOfItself, HasAsked
    <3> QED BY <3>1, <3>2, <1>t, RunKeepsClean
  <2>2. CASE Probe(r)
    <3>1. OnlyRun(r) /\ UNCHANGED <<cache, reported>> /\ ~HasAsked(r)
      BY <2>2, <1>t DEF Probe, Advance, TypeOK, OnlyRun, HasAsked, world
    <3>2. SureOfItself(r)'
      BY <2>2, <2>s, <2>n, <3>1, <1>t DEF Probe, Advance, TypeOK, SureOfItself, HasAsked
    <3> QED BY <3>1, <3>2, <1>t, RunKeepsClean
  <2>3. CASE ProbeFails(r)
    <3>1. OnlyRun(r) /\ UNCHANGED <<cache, reported>> /\ ~HasAsked(r)
      BY <2>3, <1>t DEF ProbeFails, Advance, TypeOK, OnlyRun, HasAsked, world
    <3>2. SureOfItself(r)'
      BY <2>3, <2>s, <2>n, <3>1, <1>t DEF ProbeFails, Advance, TypeOK, SureOfItself, HasAsked
    <3> QED BY <3>1, <3>2, <1>t, RunKeepsClean
  <2>4. ASSUME NEW d \in Tracked \cup Elsewhere, LoadFixtures(r, d) PROVE CleanInv'
    <3>1. OnlyRun(r) /\ UNCHANGED <<cache, reported>> /\ ~HasAsked(r)
      BY <2>4, <1>t DEF LoadFixtures, Advance, TypeOK, OnlyRun, HasAsked, world
    <3>2. SureOfItself(r)'
      BY <2>4, <2>s, <2>n, <3>1, <1>t DEF LoadFixtures, Advance, TypeOK, SureOfItself, HasAsked
    <3> QED BY <3>1, <3>2, <1>t, RunKeepsClean
  <2>5. CASE EndsEarly(r)
    <3>1. OnlyRun(r) /\ UNCHANGED <<cache, reported>> /\ ~HasAsked(r)
      BY <2>5, <1>t DEF EndsEarly, TypeOK, OnlyRun, HasAsked, world
    <3>2. SureOfItself(r)'
      BY <2>5, <2>s, <2>n, <3>1, <1>t DEF EndsEarly, TypeOK, SureOfItself, HasAsked
    <3> QED BY <3>1, <3>2, <1>t, RunKeepsClean
  <2>6. CASE CollectGit(r)
    <3>1. PICK answered \in {TRUE, ~StatusMayFail} :
            /\ print' = [print EXCEPT ![r] = FingerprintNow(answered)]
            /\ sure' = [sure EXCEPT ![r] =
                          answered /\ loaded[r] = Found(loaded[r].directory)]
      BY <2>6 DEF CollectGit
    <3>2. print'[r] = FingerprintNow(answered)
      BY <3>1, <1>t DEF TypeOK
    <3>3. sure'[r] = (answered /\ loaded[r] = Found(loaded[r].directory))
      BY <3>1, <1>t DEF TypeOK
    <3>4. ASSUME answered, IsClean(FingerprintNow(answered))
          PROVE  /\ FingerprintNow(answered).commit = head
                 /\ tree = commits[head]
      BY <3>4, <2>n DEF FingerprintNow, IsClean, ReportedDirty
    <3>5. ASSUME sure'[r], IsClean(print'[r]), IsTracked(loaded[r])
          PROVE  Holds(print'[r], loaded[r])
      <4>1. answered /\ loaded[r] = Found(loaded[r].directory)
        BY <3>3, <3>5
      <4>2. loaded[r].version = tree
        BY <4>1, <3>5 DEF Found, IsTracked
      <4>3. print'[r].commit = head /\ tree = commits[head]
        BY <4>1, <3>2, <3>4, <3>5
      <4> QED BY <4>2, <4>3, <1>t DEF Holds, TypeOK
    <3>6. OnlyRun(r) /\ UNCHANGED <<cache, reported>> /\ ~HasAsked(r)
      BY <2>6, <3>1, <1>t DEF CollectGit, Advance, TypeOK, OnlyRun, HasAsked, world
    <3>7. SureOfItself(r)'
      <4>1. HasAsked(r)' /\ loaded' = loaded /\ commits' = commits
        BY <2>6, <1>t DEF CollectGit, Advance, TypeOK, HasAsked, world
      <4> QED BY <4>1, <3>5 DEF SureOfItself, Holds
    <3> QED BY <3>6, <3>7, <1>t, RunKeepsClean
  <2>7. ASSUME NEW f \in Fixtures, Hit(r, f) PROVE CleanInv'
    <3> DEFINE made == cache[CacheKey(r, f)]
    <3>1. /\ IsClean(print[r])
          /\ loaded[r].directory \in Tracked
          /\ made.content.directory = loaded[r].directory
          => \/ made.content = loaded[r]
             \/ \E q \in Runs :
                  ~sure[q] /\ print[q] = print[r] /\ loaded[q] \in {loaded[r], made.content}
      <4> SUFFICES ASSUME IsClean(print[r]), loaded[r].directory \in Tracked,
                          made.content.directory = loaded[r].directory,
                          sure[r], ~Unsure(print[r], made.content)
                   PROVE  made.content = loaded[r]
        BY DEF Unsure
      <4>1. CacheKey(r, f) \in Key /\ CacheKey(r, f).print = print[r]
        BY <1>t, KeyType DEF CacheKey
      <4>2. made \in Made /\ loaded[r] \in Content
        BY <4>1, <2>7, <1>t DEF Hit, TypeOK
      <4>3. made.content \in Content
        BY <4>2 DEF Made
      <4>4. IsTracked(made.content) /\ IsTracked(loaded[r])
        BY <4>2, <4>3 DEF IsTracked
      <4>5. Holds(print[r], made.content) /\ Holds(print[r], loaded[r])
        BY <4>1, <4>4, <2>7, <2>s DEF Hit, CleanInv, CleanEntriesMatch
      <4>6. made.content.version = loaded[r].version
        BY <4>5 DEF Holds
      <4> QED BY <4>2, <4>3, <4>6 DEF Content, NoContent
    <3> HIDE DEF made
    <3>2. HasAsked(r) /\ OnlyRun(r) /\ UNCHANGED <<world, cache, stage, print, sure, loaded>>
      BY <2>7, <1>t DEF Hit, ToRun, Add, TypeOK, OnlyRun, HasAsked
    <3>3. RunsAreSure' /\ CommitsGrow
      <4>1. SureOfItself(r)'
        BY <2>s, <3>2 DEF SureOfItself, HasAsked, Holds, world
      <4> QED BY <4>1, <3>2, OthersAreSure
    <3>4. CleanEntriesMatch'
      BY <3>2 DEF world, CleanInv, CleanEntriesMatch, Holds, Unsure
    <3>5. CleanHitsMatchFixtures'
      <4>1. reported' = [reported EXCEPT ![r] =
                           @ \cup {[fixture |-> f, hit |-> TRUE, made |-> made]}]
        BY <2>7 DEF Hit, Add, made
      <4>2. \A q \in Runs : \A x \in reported'[q] :
              \/ x \in reported[q]
              \/ q = r /\ x.made = made
        BY <4>1, <1>t DEF TypeOK
      <4> SUFFICES ASSUME NEW q \in Runs, NEW x \in reported'[q],
                          x.hit, IsClean(print[q]), loaded[q].directory \in Tracked,
                          x.made.content.directory = loaded[q].directory
                   PROVE  \/ x.made.content = loaded[q]
                          \/ \E p \in Runs : /\ ~sure[p] /\ print[p] = print[q]
                                             /\ loaded[p] \in {loaded[q], x.made.content}
        BY <3>2 DEF CleanHitsMatchFixtures, IsClean
      <4>3. CASE x \in reported[q]
        BY <4>3 DEF CleanInv, CleanHitsMatchFixtures, IsClean
      <4>4. CASE q = r /\ x.made = made
        BY <4>4, <3>1
      <4> QED BY <4>2, <4>3, <4>4
    <3> QED BY <3>3, <3>4, <3>5, <1>t DEF CleanInv
  <2>8. ASSUME NEW f \in Fixtures, Miss(r, f) PROVE CleanInv'
    <3>1. /\ OnlyRun(r) /\ HasAsked(r)
          /\ UNCHANGED <<world, cache, stage, reported, print, sure, loaded>>
      BY <2>8, <1>t DEF Miss, ToRun, TypeOK, OnlyRun, HasAsked
    <3>2. SureOfItself(r)'
      BY <2>s, <3>1 DEF SureOfItself, HasAsked, Holds, world
    <3> QED BY <3>1, <3>2, <1>t, RunKeepsClean
  <2>9. ASSUME NEW f \in Fixtures, Answered(r, f) PROVE CleanInv'
    <3>1. /\ OnlyRun(r) /\ HasAsked(r)
          /\ UNCHANGED <<world, stage, print, sure, loaded>>
      BY <2>9, <2>s, <1>t DEF Answered, Add, TypeOK, OnlyRun
    <3>2. RunsAreSure' /\ CommitsGrow
      <4>1. SureOfItself(r)'
        BY <2>s, <3>1 DEF SureOfItself, HasAsked, Holds, world
      <4> QED BY <4>1, <3>1, OthersAreSure
    <3>3. CleanEntriesMatch'
      <4> SUFFICES ASSUME NEW k \in Key, cache'[k] # NoEntry, IsClean(k.print),
                          IsTracked(cache'[k].content)
                   PROVE  \/ Holds(k.print, cache'[k].content)
                          \/ Unsure(k.print, cache'[k].content)
        BY <3>1 DEF CleanEntriesMatch, Holds, Unsure, world
      <4>1. CASE k = CacheKey(r, f)
        <5>1. cache'[k].content = loaded[r] /\ k.print = print[r]
          BY <2>9, <4>1, <1>t DEF Answered, TypeOK, CacheKey
        <5> QED BY <5>1, <2>s DEF Unsure
      <4>2. CASE k # CacheKey(r, f)
        <5>1. cache'[k] = cache[k]
          BY <2>9, <4>2, <1>t DEF Answered, TypeOK
        <5> QED BY <5>1 DEF CleanInv, CleanEntriesMatch
      <4> QED BY <4>1, <4>2
    <3>4. \A q \in Runs : \A x \in reported'[q] : x \in reported[q] \/ ~x.hit
      BY <2>9, <1>t DEF Answered, Add, TypeOK
    <3>5. CleanHitsMatchFixtures'
      BY <3>1, <3>4 DEF CleanInv, CleanHitsMatchFixtures
    <3> QED BY <3>2, <3>3, <3>5, <1>t DEF CleanInv
  <2>10. ASSUME NEW f \in Fixtures, CallFails(r, f) PROVE CleanInv'
    <3>1. /\ OnlyRun(r) /\ HasAsked(r)
          /\ UNCHANGED <<world, cache, stage, print, sure, loaded>>
      BY <2>10, <2>s, <1>t DEF CallFails, Add, TypeOK, OnlyRun
    <3>2. RunsAreSure' /\ CommitsGrow
      <4>1. SureOfItself(r)'
        BY <2>s, <3>1 DEF SureOfItself, HasAsked, Holds, world
      <4> QED BY <4>1, <3>1, OthersAreSure
    <3>3. CleanEntriesMatch'
      BY <3>1 DEF world, CleanInv, CleanEntriesMatch, Holds, Unsure
    <3>4. \A q \in Runs : \A x \in reported'[q] : x \in reported[q] \/ ~x.hit
      BY <2>10, <1>t DEF CallFails, Add, TypeOK
    <3>5. CleanHitsMatchFixtures'
      BY <3>1, <3>4 DEF CleanInv, CleanHitsMatchFixtures
    <3> QED BY <3>2, <3>3, <3>5, <1>t DEF CleanInv
  <2>11. CASE Report(r)
    <3>1. OnlyRun(r) /\ HasAsked(r) /\ HasAsked(r)'
          /\ UNCHANGED <<world, cache, reported, print, sure, loaded>>
      BY <2>11, <1>t DEF Report, Advance, TypeOK, OnlyRun, HasAsked
    <3>2. SureOfItself(r)'
      BY <2>s, <3>1 DEF SureOfItself, Holds, world
    <3> QED BY <3>1, <3>2, <1>t, RunKeepsClean
  <2> QED BY <1>5, <2>1, <2>2, <2>3, <2>4, <2>5, <2>6, <2>7, <2>8, <2>9, <2>10, <2>11 DEF Run
<1>6. ASSUME NEW k \in Key, LoseEntry(k) PROVE CleanInv'
  <2>1. \A j \in Key : cache'[j] # NoEntry => cache'[j] = cache[j]
    BY <1>6, <1>t DEF LoseEntry, TypeOK
  <2> QED BY <1>6, <2>1, <1>t, <1>g, WorldKeepsClean DEF LoseEntry, world
<1>7. ASSUME NEW d \in Elsewhere, UpdateElsewhere(d) PROVE CleanInv'
  BY <1>7, <1>t, <1>g, WorldKeepsClean DEF UpdateElsewhere
<1>8. CASE UNCHANGED vars
  BY <1>8, <1>t, <1>g, WorldKeepsClean DEF vars, world
<1> QED BY <1>1, <1>2, <1>3, <1>4, <1>5, <1>6, <1>7, <1>8 DEF Next

\* Whatever changes in the work tree, elsewhere and on the network, and however
\* many runs overlap: a run of a clean tree reports no result made from another
\* version of its directory in the work tree, unless one of the two runs was given
\* a fingerprint that was not its fixtures' (execution.rs:153-157).
THEOREM CleanHits == Spec => []CleanHitsMatchFixtures
<1>1. Init => CleanInv
  BY InitClean
<1>2. CleanInv /\ [Next]_vars => CleanInv'
  BY CleanStep
<1>3. CleanInv => CleanHitsMatchFixtures
  BY DEF CleanInv
<1> QED BY <1>1, <1>2, <1>3, PTL DEF Spec

-----------------------------------------------------------------------------
(* Where git answers and the work tree stays as it is while a run is under   *)
(* way.  Directories elsewhere may change at any time.                       *)

TreeIsStable == ~StatusMayFail /\ ~EditsDuringRuns

\* A run with fixtures of the work tree is sure of its fingerprint.
SeesTheTree(q) ==
  IsTracked(loaded[q]) =>
    /\ stage[q] = "loaded" => loaded[q].version = tree
    /\ sure[q]

RunsSeeTheTree == \A q \in Runs : SeesTheTree(q)

LEMMA SeesStep ==
  TreeIsStable /\ CleanInv /\ RunsSeeTheTree /\ [Next]_vars => RunsSeeTheTree'
<1> SUFFICES ASSUME TreeIsStable, CleanInv, RunsSeeTheTree, [Next]_vars, NEW q \in Runs
             PROVE  SeesTheTree(q)'
  BY DEF RunsSeeTheTree
<1>t. TypeOK
  BY DEF CleanInv
<1>s. SeesTheTree(q) /\ (~HasAsked(q) => sure[q])
  BY DEF RunsSeeTheTree, CleanInv, RunsAreSure, SureOfItself
<1>q. TreeMayChange => stage[q] # "loaded"
  BY DEF TreeMayChange, TreeIsStable
<1>1. CASE Edit \/ Commit \/ \E c \in 1..Len(commits) : Checkout(c)
  BY <1>1, <1>s, <1>q DEF Edit, Commit, Checkout, SeesTheTree, runs
<1>2. CASE Upgrade \/ (\E d \in Elsewhere : UpdateElsewhere(d)) \/ \E k \in Key : LoseEntry(k)
  BY <1>2, <1>s DEF Upgrade, UpdateElsewhere, LoseEntry, SeesTheTree, world, runs
<1>3. ASSUME NEW r \in Runs, Run(r) PROVE SeesTheTree(q)'
  <2>1. CASE Start(r) \/ Probe(r) \/ ProbeFails(r) \/ EndsEarly(r) \/ Report(r)
    BY <2>1, <1>s, <1>t
    DEF Start, Probe, ProbeFails, EndsEarly, Report, Advance, TypeOK, SeesTheTree, world
  <2>2. ASSUME NEW d \in Tracked \cup Elsewhere, LoadFixtures(r, d) PROVE SeesTheTree(q)'
    <3>1. Found(d).directory \in Tracked => Found(d).version = tree
      BY DEF Found
    <3>2. CASE q = r
      BY <2>2, <3>1, <3>2, <1>s, <1>t
      DEF LoadFixtures, Advance, TypeOK, SeesTheTree, HasAsked, IsTracked, world
    <3>3. CASE q # r
      BY <2>2, <3>3, <1>s, <1>t DEF LoadFixtures, Advance, TypeOK, SeesTheTree, world
    <3> QED BY <3>2, <3>3
  <2>3. CASE CollectGit(r)
    <3>1. sure' = [sure EXCEPT ![r] = loaded[r] = Found(loaded[r].directory)]
      BY <2>3 DEF CollectGit, TreeIsStable
    <3>2. CASE q = r
      <4>1. ASSUME IsTracked(loaded[r]) PROVE loaded[r] = Found(loaded[r].directory)
        <5>1. loaded[r].version = tree
          BY <4>1, <3>2, <2>3, <1>s DEF CollectGit, Advance, SeesTheTree
        <5>2. Found(loaded[r].directory) = [directory |-> loaded[r].directory, version |-> tree]
          BY <4>1 DEF Found, IsTracked
        <5> QED BY <4>1, <5>1, <5>2 DEF IsTracked, Content, NoContent
      <4> QED BY <2>3, <3>1, <3>2, <4>1, <1>t DEF CollectGit, Advance, TypeOK, SeesTheTree
    <3>3. CASE q # r
      BY <2>3, <3>1, <3>3, <1>s, <1>t DEF CollectGit, Advance, TypeOK, SeesTheTree, world
    <3> QED BY <3>2, <3>3
  <2>4. CASE \E f \in Fixtures : Hit(r, f) \/ Miss(r, f) \/ Answered(r, f) \/ CallFails(r, f)
    BY <2>4, <1>s DEF Hit, Miss, Answered, CallFails, SeesTheTree, world
  <2> QED BY <1>3, <2>1, <2>2, <2>3, <2>4 DEF Run
<1>4. CASE UNCHANGED vars
  BY <1>4, <1>s DEF vars, world, runs, SeesTheTree
<1> QED BY <1>1, <1>2, <1>3, <1>4 DEF Next

\* CleanHitsMatchFixtures with nobody to blame.
CleanHitsAreOfTheTree ==
  \A r \in Runs : \A x \in reported[r] :
    /\ x.hit /\ print[r].commit # 0 /\ ~print[r].dirty
    /\ loaded[r].directory \in Tracked /\ x.made.content.directory = loaded[r].directory
    => x.made.content = loaded[r]

\* Where git answers and the tree is stable, the exception of CleanHitsMatchFixtures
\* never applies: a clean run on fixtures of the work tree reports cached results of
\* the very version it loaded, whatever happens to directories git does not see.
THEOREM StableTreeHits ==
  ASSUME TreeIsStable
  PROVE  Spec => []CleanHitsAreOfTheTree
<1> DEFINE Inv == CleanInv /\ RunsSeeTheTree
<1>1. Init => Inv
  <2> SUFFICES ASSUME Init PROVE RunsSeeTheTree
    BY InitClean
  <2>1. \A q \in Runs : stage[q] = "waiting" /\ sure[q]
    BY DEF Init
  <2> QED BY <2>1 DEF RunsSeeTheTree, SeesTheTree
<1>2. Inv /\ [Next]_vars => Inv'
  BY TreeIsStable, CleanStep, SeesStep
<1>3. Inv => CleanHitsAreOfTheTree
  <2> SUFFICES ASSUME Inv, NEW r \in Runs, NEW x \in reported[r], x.hit,
                      print[r].commit # 0, ~print[r].dirty, loaded[r].directory \in Tracked,
                      x.made.content.directory = loaded[r].directory,
                      NEW q \in Runs, ~sure[q], loaded[q] \in {loaded[r], x.made.content}
               PROVE  FALSE
    BY DEF CleanInv, CleanHitsMatchFixtures, CleanHitsAreOfTheTree
  <2>1. loaded[q] \in Content
    BY DEF CleanInv, TypeOK
  <2>2. IsTracked(loaded[q])
    BY <2>1 DEF IsTracked
  <2> QED BY <2>2 DEF RunsSeeTheTree, SeesTheTree
<1> QED BY <1>1, <1>2, <1>3, PTL DEF Spec
=============================================================================
