---------------------------- MODULE CommandsProofs ----------------------------
(***************************************************************************)
(* Theorems about the commands that plan, and with them about module        *)
(* Planning, for every directory of fixture files, every configuration and  *)
(* all flags.                                                               *)
(***************************************************************************)
EXTENDS Commands, FiniteSetTheorems, SequenceTheorems, TLAPS

-----------------------------------------------------------------------------
(* A situation decides what planning comes to, whatever order the directory *)
(* is listed in and whichever command plans.                                *)

\* SkipReasons of Planning, as a function of the situation.
Skips(s, p) ==
  IF s.content[p].protocol # Target(s) THEN {"protocol"}
  ELSE IF s.content[p].surface \notin Surfaces \ ConfigOf(s).off THEN {"disabled"}
  ELSE IF ~(s.content[p].needs \subseteq DetectCapabilities(SignalsOf(s.root)))
       THEN {"capability"} ELSE {}

NumPresent(s) == IF s.directory = "readable" THEN NumFiles ELSE 0

LoadsAll(s) == \A p \in 1..NumPresent(s) : s.content[p].text = "ok"

ValidSet(s) ==
  /\ \A p \in 1..NumPresent(s) : s.content[p].refs = "ok"
  /\ \A p, q \in 1..NumPresent(s) : s.content[p].id = s.content[q].id => p = q

Fits(s, p) == Skips(s, p) = {} => s.content[p].body = "ok"

SkipReasonNames == {"protocol", "disabled", "capability"}

Increasing(q) == \A j, k \in DOMAIN q : j < k => q[j] < q[k]

PlanOfFirst(s, n, pl) ==
  /\ pl \in [Surfaces -> Seq(1..NumFiles)]
  /\ \A t \in Surfaces : Increasing(pl[t])
  /\ \A t \in Surfaces : \A k \in DOMAIN pl[t] :
       pl[t][k] \in 1..n /\ Skips(s, pl[t][k]) = {} /\ s.content[pl[t][k]].surface = t
  /\ \A p \in 1..n : Skips(s, p) = {} =>
       \E k \in DOMAIN pl[s.content[p].surface] : pl[s.content[p].surface][k] = p

SkippedOfFirst(s, n, sk) ==
  /\ sk \in Seq([file : 1..NumFiles, reason : SkipReasonNames])
  /\ \A j, k \in DOMAIN sk : j < k => sk[j].file < sk[k].file
  /\ \A k \in DOMAIN sk : sk[k].file \in 1..n /\ sk[k].reason \in Skips(s, sk[k].file)
  /\ \A p \in 1..n : Skips(s, p) # {} => \E k \in DOMAIN sk : sk[k].file = p

\* What the planner has after the first n files, all of which it could plan.
Considered(s, n, pl, sk) ==
  /\ PlanOfFirst(s, n, pl)
  /\ SkippedOfFirst(s, n, sk)
  /\ \A p \in 1..n : Fits(s, p)

\* What planning hands on: exit code, plan and skipped fixtures.
Settled(s, e, pl, sk) ==
  IF s.directory = "broken" \/ ~LoadsAll(s) \/ ~ValidSet(s)
  THEN e = ExitInvalidFixture /\ pl = NoLists /\ sk = <<>>
  ELSE \E n \in 0..NumPresent(s) :
         /\ Considered(s, n, pl, sk)
         /\ \/ n = NumPresent(s) /\ e = ExitPass
            \/ n < NumPresent(s) /\ ~Fits(s, n + 1) /\ e = ExitExecutionError

PlanInv ==
  /\ stage \in {"collect", "parse", "validate", "plan", "ready", "failed"}
  /\ paths \in Seq(1..NumFiles)
  /\ parsed \in 0..Len(paths)
  /\ considered \in 0..Len(paths)
  /\ stage \in {"collect", "parse", "validate"} =>
       considered = 0 /\ plan = NoLists /\ skipped = <<>>
  /\ stage = "collect" => parsed = 0 /\ (situation.directory = "missing" => paths = <<>>)
  /\ stage \in {"parse", "validate", "plan", "ready"} =>
       /\ situation.directory # "broken"
       /\ Len(paths) = NumPresent(situation) /\ \A k \in 1..Len(paths) : paths[k] = k
       /\ \A p \in 1..parsed : situation.content[p].text = "ok"
  /\ stage = "parse" => situation.directory = "readable"
  /\ stage \in {"validate", "plan", "ready"} => parsed = Len(paths)
  /\ stage \in {"plan", "ready"} => ValidSet(situation)
  /\ Considered(situation, considered, plan, skipped)
  /\ stage = "ready" => considered = Len(paths)
  /\ stage # "failed" => exit = ExitPass
  /\ stage = "failed" =>
       /\ exit \in {ExitExecutionError, ExitInvalidFixture}
       /\ Settled(situation, exit, plan, skipped)

-----------------------------------------------------------------------------
(* Sorting, and sequences in path order.                                    *)

LEMMA FilesType == NumFiles \in Nat
BY FilesAssumption DEF Planner!FilesAssumption

LEMMA SameCardinality ==
  ASSUME NEW S
  PROVE  Planner!Cardinality(S) = Cardinality(S)
BY DEF Planner!Cardinality, Cardinality

\* Sorting the ranks of all the files is counting them.
LEMMA SortedFiles ==
  ASSUME NEW S, S = 1..NumFiles
  PROVE  /\ Planner!Sorted(S) \in Seq(1..NumFiles) /\ Len(Planner!Sorted(S)) = NumFiles
         /\ \A k \in 1..NumFiles : Planner!Sorted(S)[k] = k
<1>1. Planner!Cardinality(S) = NumFiles
  BY FilesType, FS_Interval, SameCardinality
<1>2. ASSUME NEW p \in S
      PROVE  Planner!Cardinality({q \in S : q < p}) = p - 1
  <2>1. {q \in S : q < p} = 1..(p - 1)
    BY FilesType, <1>2
  <2>2. Cardinality(1..(p - 1)) = p - 1
    BY FilesType, <1>2, FS_Interval
  <2> QED
    BY <2>1, <2>2, SameCardinality
<1>3. ASSUME NEW k \in 1..NumFiles
      PROVE  (CHOOSE p \in S : Planner!Cardinality({q \in S : q < p}) = k - 1) = k
  <2>1. k \in S /\ Planner!Cardinality({q \in S : q < k}) = k - 1
    BY <1>2
  <2>2. \A p \in S : Planner!Cardinality({q \in S : q < p}) = k - 1 => p = k
    BY FilesType, <1>2
  <2> QED
    BY <2>1, <2>2
<1>4. Planner!Sorted(S) = [k \in 1..NumFiles |-> k]
  BY <1>1, <1>3, Zenon DEF Planner!Sorted
<1> QED
  BY <1>4, FilesType

\* The places before one another: how many there are tells which comes first.
LEMMA RankGrows ==
  ASSUME NEW n \in Nat, NEW K \in SUBSET (1..n), NEW p \in K
  PROVE  /\ IsFiniteSet(K) /\ Cardinality(K) \in Nat
         /\ Cardinality({i \in K : i < p}) \in Nat
         /\ Cardinality({i \in K : i < p}) < Cardinality(K)
         /\ \A q \in K : p < q => Cardinality({i \in K : i < p}) < Cardinality({i \in K : i < q})
<1>1. IsFiniteSet(K)
  <2>1. IsFiniteSet(1..n)
    BY FS_Interval
  <2> QED
    BY <2>1, FS_Subset
<1> DEFINE B == {i \in K : i < p}
<1>2. B \subseteq K /\ IsFiniteSet(B) /\ p \notin B
  BY <1>1, FS_Subset
<1>3. IsFiniteSet(B \cup {p}) /\ Cardinality(B \cup {p}) = Cardinality(B) + 1
  BY <1>2, FS_AddElement
<1>4. Cardinality(B) \in Nat /\ Cardinality(K) \in Nat
  BY <1>1, <1>2, FS_CardinalityType
<1>5. Cardinality(B) < Cardinality(K)
  <2>1. B \cup {p} \in SUBSET K
    BY <1>2
  <2>2. Cardinality(B \cup {p}) <= Cardinality(K)
    BY <1>1, <2>1, FS_Subset
  <2> QED
    BY <1>3, <1>4, <2>2
<1>6. ASSUME NEW q \in K, p < q
      PROVE  Cardinality(B) < Cardinality({i \in K : i < q})
  <2> DEFINE C == {i \in K : i < q}
  <2>1. B \cup {p} \in SUBSET C /\ C \in SUBSET K
    <3>1. p \in Nat /\ q \in Nat /\ \A i \in K : i \in Nat
      OBVIOUS
    <3>2. \A i \in K : i < p => i < q
      BY <1>6, <3>1
    <3> QED
      BY <1>6, <3>2
  <2>2. IsFiniteSet(C)
    BY <1>1, <2>1, FS_Subset
  <2>3. Cardinality(B \cup {p}) <= Cardinality(C) /\ Cardinality(C) \in Nat
    BY <2>1, <2>2, FS_Subset, FS_CardinalityType
  <2> QED
    BY <1>3, <1>4, <2>3
<1> QED
  BY <1>1, <1>4, <1>5, <1>6

\* Sorting a set of places lists each of them, in their order.
LEMMA SortedPlaces ==
  ASSUME NEW n \in Nat, NEW K \in SUBSET (1..n)
  PROVE  /\ Cardinality(K) \in Nat
         /\ \A j \in 1..Cardinality(K) : Planner!Sorted(K)[j] \in K
         /\ \A j, k \in 1..Cardinality(K) : j < k => Planner!Sorted(K)[j] < Planner!Sorted(K)[k]
         /\ \A p \in K : \E j \in 1..Cardinality(K) : Planner!Sorted(K)[j] = p
<1> DEFINE before(p) == Cardinality({i \in K : i < p})
           rank == [p \in K |-> before(p) + 1]
<1>1. IsFiniteSet(K)
  <2>1. IsFiniteSet(1..n)
    BY FS_Interval
  <2> QED
    BY <2>1, FS_Subset
<1>2. PICK c \in Nat : c = Cardinality(K)
  BY <1>1, FS_CardinalityType
<1>3. \A p \in K : before(p) \in Nat /\ before(p) < c
  BY <1>2, RankGrows
<1>4. \A p, q \in K : p < q => before(p) < before(q)
  BY RankGrows
<1>5. \A p \in K : Planner!Cardinality({i \in K : i < p}) = before(p)
  BY SameCardinality
<1> HIDE DEF before
<1>6. \A p, q \in K : before(p) = before(q) => p = q
  <2> SUFFICES ASSUME NEW p \in K, NEW q \in K, before(p) = before(q) PROVE p = q
    OBVIOUS
  <2>1. p \in Nat /\ q \in Nat /\ before(p) \in Nat
    BY <1>3
  <2>2. ~(p < q) /\ ~(q < p)
    BY <1>4, <2>1
  <2> QED
    BY <2>1, <2>2
<1>7. \A k \in 1..c : \E p \in K : before(p) = k - 1
  <2>1. rank \in [K -> 1..c]
    BY <1>3
  <2>2. \A p, q \in K : rank[p] = rank[q] => p = q
    BY <1>3, <1>6
  <2>3. rank \in Injection(K, 1..c)
    BY <2>1, <2>2 DEF Injection, IsInjective
  <2>4. IsFiniteSet(1..c) /\ Cardinality(1..c) = c
    BY FS_Interval
  <2>5. rank \in Surjection(K, 1..c)
    BY <1>2, <2>3, <2>4, FS_Injection
  <2>6. \A k \in 1..c : \E p \in K : rank[p] = k
    BY <2>5 DEF Surjection
  <2>7. \A p \in K : rank[p] = before(p) + 1
    OBVIOUS
  <2> HIDE DEF rank
  <2>8. ASSUME NEW k \in 1..c PROVE \E p \in K : before(p) = k - 1
    <3>1. PICK p \in K : rank[p] = k
      BY <2>6
    <3>2. rank[p] = before(p) + 1 /\ before(p) \in Nat
      BY <1>3, <2>7
    <3>3. before(p) = k - 1
      BY <3>1, <3>2
    <3> QED
      BY <3>3
  <2> QED
    BY <2>8
<1>8. \A k \in 1..c : Planner!Sorted(K)[k] \in K /\ before(Planner!Sorted(K)[k]) = k - 1
  <2> SUFFICES ASSUME NEW k \in 1..c
               PROVE  Planner!Sorted(K)[k] \in K /\ before(Planner!Sorted(K)[k]) = k - 1
    OBVIOUS
  <2>1. Planner!Cardinality(K) = c
    BY <1>2, SameCardinality
  <2>2. Planner!Sorted(K)[k] =
          CHOOSE p \in K : Planner!Cardinality({i \in K : i < p}) = k - 1
    BY <2>1 DEF Planner!Sorted
  <2>3. \E p \in K : Planner!Cardinality({i \in K : i < p}) = k - 1
    BY <1>5, <1>7
  <2> QED
    BY <1>5, <2>2, <2>3
<1>9. ASSUME NEW j \in 1..c, NEW k \in 1..c, j < k
      PROVE  Planner!Sorted(K)[j] < Planner!Sorted(K)[k]
  <2>1. PICK p \in K, q \in K : p = Planner!Sorted(K)[j] /\ q = Planner!Sorted(K)[k]
    BY <1>8
  <2>2. before(p) = j - 1 /\ before(q) = k - 1 /\ p \in Nat /\ q \in Nat
    BY <1>8, <2>1
  <2>3. ~(q < p) /\ p # q
    BY <1>4, <1>9, <2>2
  <2> QED
    BY <2>1, <2>2, <2>3
<1>10. ASSUME NEW p \in K PROVE \E j \in 1..c : Planner!Sorted(K)[j] = p
  <2>1. PICK j \in 1..c : j = before(p) + 1
    BY <1>3
  <2>2. before(Planner!Sorted(K)[j]) = before(p) /\ Planner!Sorted(K)[j] \in K
    BY <1>3, <1>8, <2>1
  <2>3. Planner!Sorted(K)[j] = p
    BY <1>6, <2>2
  <2> QED
    BY <2>3
<1> QED
  BY <1>2, <1>8, <1>9, <1>10

\* One more element at the end.
LEMMA Appended ==
  ASSUME NEW S, NEW q \in Seq(S), NEW e \in S
  PROVE  /\ Append(q, e) \in Seq(S) /\ DOMAIN Append(q, e) = 1..(Len(q) + 1) /\ Len(q) \in Nat
         /\ DOMAIN q = 1..Len(q)
         /\ Append(q, e)[Len(q) + 1] = e
         /\ \A k \in DOMAIN q : Append(q, e)[k] = q[k]
OBVIOUS

\* A skip reason is one of the three, and there is at most one.
LEMMA SkipReasonType ==
  ASSUME NEW s, NEW p
  PROVE  /\ Skips(s, p) \subseteq SkipReasonNames
         /\ \A r, t \in Skips(s, p) : r = t
BY DEF Skips, SkipReasonNames

LEMMA NothingConsidered ==
  ASSUME NEW s
  PROVE  Considered(s, 0, NoLists, <<>>)
<1>1. NoLists \in [Surfaces -> Seq(1..NumFiles)] /\ \A t \in Surfaces : NoLists[t] = <<>>
  BY DEF NoLists
<1>2. PlanOfFirst(s, 0, NoLists)
  BY <1>1 DEF PlanOfFirst, Increasing
<1>3. SkippedOfFirst(s, 0, <<>>)
  BY DEF SkippedOfFirst
<1> QED
  BY <1>2, <1>3 DEF Considered

\* The next file does not apply: it joins the skipped ones.
LEMMA ConsiderSkipped ==
  ASSUME NEW s, NEW n \in Nat, n + 1 \in 1..NumFiles, NEW pl, NEW sk, Considered(s, n, pl, sk),
         NEW r \in Skips(s, n + 1)
  PROVE  Considered(s, n + 1, pl, Append(sk, [file |-> n + 1, reason |-> r]))
<1> DEFINE R == [file : 1..NumFiles, reason : SkipReasonNames]
           e == [file |-> n + 1, reason |-> r]
           a == Append(sk, e)
<1>1. sk \in Seq(R) /\ e \in R /\ e.file = n + 1 /\ e.reason = r
  BY SkipReasonType DEF Considered, SkippedOfFirst
<1>2. /\ a \in Seq(R) /\ DOMAIN a = 1..(Len(sk) + 1) /\ Len(sk) \in Nat /\ DOMAIN sk = 1..Len(sk)
      /\ a[Len(sk) + 1] = e /\ \A k \in DOMAIN sk : a[k] = sk[k]
  BY <1>1, Appended
<1> HIDE DEF e, a
<1>3. /\ \A j, k \in DOMAIN sk : j < k => sk[j].file < sk[k].file
      /\ \A k \in DOMAIN sk : sk[k].file \in 1..n /\ sk[k].reason \in Skips(s, sk[k].file)
      /\ \A p \in 1..n : Skips(s, p) # {} => \E k \in DOMAIN sk : sk[k].file = p
  BY DEF Considered, SkippedOfFirst
<1>4. \A j, k \in DOMAIN a : j < k => a[j].file < a[k].file
  <2> SUFFICES ASSUME NEW j \in DOMAIN a, NEW k \in DOMAIN a, j < k
               PROVE  a[j].file < a[k].file
    OBVIOUS
  <2>1. j \in DOMAIN sk /\ a[j] = sk[j] /\ sk[j].file \in 1..n
    BY <1>2, <1>3
  <2>2. CASE k \in DOMAIN sk
    BY <1>2, <1>3, <2>1, <2>2
  <2>3. CASE k = Len(sk) + 1
    BY <1>1, <1>2, <2>1, <2>3
  <2> QED
    BY <1>2, <2>2, <2>3
<1>5. \A k \in DOMAIN a : a[k].file \in 1..(n + 1) /\ a[k].reason \in Skips(s, a[k].file)
  BY <1>1, <1>2, <1>3
<1>6. \A p \in 1..(n + 1) : Skips(s, p) # {} => \E k \in DOMAIN a : a[k].file = p
  <2> SUFFICES ASSUME NEW p \in 1..(n + 1), Skips(s, p) # {}
               PROVE  \E k \in DOMAIN a : a[k].file = p
    OBVIOUS
  <2>1. CASE p = n + 1
    BY <1>1, <1>2, <2>1
  <2>2. CASE p \in 1..n
    <3>1. PICK k \in DOMAIN sk : sk[k].file = p
      BY <1>3, <2>2
    <3>2. k \in DOMAIN a /\ a[k].file = p
      BY <1>2, <3>1
    <3> QED
      BY <3>2
  <2> QED
    BY <2>1, <2>2
<1>7. SkippedOfFirst(s, n + 1, a)
  BY <1>2, <1>4, <1>5, <1>6 DEF SkippedOfFirst
<1>8. PlanOfFirst(s, n + 1, pl)
  <2>1. PlanOfFirst(s, n, pl)
    BY DEF Considered
  <2>2. \A t \in Surfaces : \A k \in DOMAIN pl[t] :
          pl[t][k] \in 1..(n + 1) /\ Skips(s, pl[t][k]) = {} /\ s.content[pl[t][k]].surface = t
    BY <2>1 DEF PlanOfFirst
  <2>3. \A p \in 1..(n + 1) : Skips(s, p) = {} =>
          \E k \in DOMAIN pl[s.content[p].surface] : pl[s.content[p].surface][k] = p
    <3>1. \A p \in 1..(n + 1) : Skips(s, p) = {} => p \in 1..n
      OBVIOUS
    <3> QED
      BY <2>1, <3>1 DEF PlanOfFirst
  <2> QED
    BY <2>1, <2>2, <2>3 DEF PlanOfFirst
<1>9. \A p \in 1..(n + 1) : Fits(s, p)
  BY DEF Considered, Fits
<1> QED
  BY <1>7, <1>8, <1>9 DEF Considered, a, e

\* The next file applies: it joins the list of its surface.
LEMMA ConsiderPlanned ==
  ASSUME NEW s, NEW n \in Nat, n + 1 \in 1..NumFiles, NEW pl, NEW sk, Considered(s, n, pl, sk),
         Skips(s, n + 1) = {}, s.content[n + 1].body = "ok", s.content[n + 1].surface \in Surfaces
  PROVE  Considered(s, n + 1, [pl EXCEPT ![s.content[n + 1].surface] = Append(@, n + 1)], sk)
<1>1. PICK u \in Surfaces : u = s.content[n + 1].surface
  OBVIOUS
<1> DEFINE a == Append(pl[u], n + 1)
           new == [pl EXCEPT ![u] = a]
<1>2. PlanOfFirst(s, n, pl) /\ pl[u] \in Seq(1..NumFiles)
  BY DEF Considered, PlanOfFirst
<1>3. /\ a \in Seq(1..NumFiles) /\ DOMAIN a = 1..(Len(pl[u]) + 1) /\ Len(pl[u]) \in Nat
      /\ DOMAIN pl[u] = 1..Len(pl[u])
      /\ a[Len(pl[u]) + 1] = n + 1 /\ \A k \in DOMAIN pl[u] : a[k] = pl[u][k]
  BY <1>2, Appended
<1> HIDE DEF a
<1>4. /\ new \in [Surfaces -> Seq(1..NumFiles)] /\ new[u] = a
      /\ \A t \in Surfaces : t # u => new[t] = pl[t]
  BY <1>2, <1>3 DEF PlanOfFirst
<1> HIDE DEF new
<1>5. \A t \in Surfaces : Increasing(new[t])
  <2>1. \A j, k \in DOMAIN a : j < k => a[j] < a[k]
    BY <1>2, <1>3 DEF PlanOfFirst, Increasing
  <2> QED
    BY <1>2, <1>4, <2>1 DEF PlanOfFirst, Increasing
<1>6. \A t \in Surfaces : \A k \in DOMAIN new[t] :
        new[t][k] \in 1..(n + 1) /\ Skips(s, new[t][k]) = {} /\ s.content[new[t][k]].surface = t
  <2> SUFFICES ASSUME NEW t \in Surfaces, NEW k \in DOMAIN new[t]
               PROVE  /\ new[t][k] \in 1..(n + 1) /\ Skips(s, new[t][k]) = {}
                      /\ s.content[new[t][k]].surface = t
    OBVIOUS
  <2>1. CASE t = u /\ k = Len(pl[u]) + 1
    <3>1. new[t][k] = n + 1
      BY <1>3, <1>4, <2>1
    <3> QED
      BY <1>1, <2>1, <3>1
  <2>2. CASE ~(t = u /\ k = Len(pl[u]) + 1)
    <3>1. k \in DOMAIN pl[t] /\ new[t][k] = pl[t][k]
      BY <1>3, <1>4, <2>2
    <3> QED
      BY <1>2, <3>1 DEF PlanOfFirst
  <2> QED
    BY <2>1, <2>2
<1>7. \A p \in 1..(n + 1) : Skips(s, p) = {} =>
        \E k \in DOMAIN new[s.content[p].surface] : new[s.content[p].surface][k] = p
  <2> SUFFICES ASSUME NEW p \in 1..(n + 1), Skips(s, p) = {}
               PROVE  \E k \in DOMAIN new[s.content[p].surface] : new[s.content[p].surface][k] = p
    OBVIOUS
  <2>1. CASE p = n + 1
    <3>1. s.content[p].surface = u /\ Len(pl[u]) + 1 \in DOMAIN new[u]
          /\ new[u][Len(pl[u]) + 1] = p
      BY <1>1, <1>3, <1>4, <2>1
    <3> QED
      BY <3>1
  <2>2. CASE p \in 1..n
    <3>1. PICK k \in DOMAIN pl[s.content[p].surface] : pl[s.content[p].surface][k] = p
      BY <1>2, <2>2 DEF PlanOfFirst
    <3>2. CASE s.content[p].surface = u
      <4>1. k \in DOMAIN new[u] /\ new[u][k] = p
        BY <1>3, <1>4, <3>1, <3>2
      <4> QED
        BY <3>2, <4>1
    <3>3. CASE s.content[p].surface # u
      <4>2. new[s.content[p].surface] = pl[s.content[p].surface]
        BY <1>2, <3>3 DEF new, PlanOfFirst
      <4> QED
        BY <3>1, <4>2
    <3> QED
      BY <3>2, <3>3
  <2> QED
    BY <2>1, <2>2
<1>8. PlanOfFirst(s, n + 1, new)
  BY <1>4, <1>5, <1>6, <1>7 DEF PlanOfFirst
<1>9. SkippedOfFirst(s, n + 1, sk)
  <2>1. SkippedOfFirst(s, n, sk)
    BY DEF Considered
  <2>2. \A k \in DOMAIN sk : sk[k].file \in 1..(n + 1) /\ sk[k].reason \in Skips(s, sk[k].file)
    BY <2>1 DEF SkippedOfFirst
  <2>3. \A p \in 1..(n + 1) : Skips(s, p) # {} => \E k \in DOMAIN sk : sk[k].file = p
    BY <2>1 DEF SkippedOfFirst
  <2> QED
    BY <2>1, <2>2, <2>3 DEF SkippedOfFirst
<1>10. \A p \in 1..(n + 1) : Fits(s, p)
  BY DEF Considered, Fits
<1> QED
  BY <1>1, <1>8, <1>9, <1>10 DEF Considered, new, a

-----------------------------------------------------------------------------
(* The steps of planning.                                                   *)

LEMMA SituationType ==
  ASSUME situation \in Situations
  PROVE  /\ situation.directory \in {"missing", "readable", "broken"}
         /\ \A p \in 1..NumFiles : /\ situation.content[p].surface \in Surfaces
                                   /\ situation.content[p].body \in {"ok", "invalid"}
         /\ situation.content \in [1..NumFiles -> Contents]
<1>1. situation.content \in [1..NumFiles -> Contents]
  BY SituationsAssumption
<1>2. Contents \subseteq Planner!Content
  BY FilesAssumption DEF Planner!FilesAssumption
<1>3. \A p \in 1..NumFiles : situation.content[p] \in Planner!Content
  BY <1>1, <1>2
<1> QED
  BY <1>1, <1>3, SituationsAssumption DEF Planner!Content, Planner!Surfaces, Surfaces

LEMMA SameSkips ==
  ASSUME NEW p
  PROVE  Planner!SkipReasons(p) = Skips(situation, p)
BY DEF Planner!SkipReasons, Planner!HasCapabilities, Planner!DetectCapabilities,
       Planner!Capabilities, PlannerSettings, SettingsOf, Skips, DetectCapabilities, Capabilities

LEMMA NumPresentType ==
  ASSUME NEW s
  PROVE  NumPresent(s) \in Nat /\ NumPresent(s) <= NumFiles
BY FilesType DEF NumPresent

\* Collecting the paths: the lists are empty yet, and the sorted paths are 1, 2, ...
LEMMA CollectKeeps ==
  ASSUME PlanInv, situation \in Situations, situation' = situation,
         Planner!NoDirectory \/ (\E p \in 1..NumFiles : Planner!Collect(p)) \/ Planner!SortPaths
  PROVE  PlanInv'
<1>1. /\ stage = "collect" /\ considered = 0 /\ plan = NoLists /\ skipped = <<>> /\ parsed = 0
      /\ exit = ExitPass /\ paths \in Seq(1..NumFiles)
      /\ UNCHANGED <<considered, plan, skipped, parsed, exit>>
  BY DEF PlanInv, Planner!NoDirectory, Planner!Collect, Planner!SortPaths
<1>2. Considered(situation', considered', plan', skipped')
  BY <1>1, NothingConsidered
<1>3. CASE Planner!NoDirectory
  <2>1. /\ situation.directory = "missing" /\ paths = <<>> /\ paths' = paths
        /\ stage' = "validate"
    BY <1>1, <1>3 DEF Planner!NoDirectory, PlanInv
  <2>2. NumPresent(situation') = 0
    BY <2>1 DEF NumPresent
  <2> QED
    BY <1>1, <1>2, <2>1, <2>2 DEF PlanInv
<1>4. CASE \E p \in 1..NumFiles : Planner!Collect(p)
  <2>1. PICK p \in 1..NumFiles : Planner!Collect(p)
    BY <1>4
  <2>2. /\ situation.directory # "missing" /\ paths' = Append(paths, p) /\ stage' = stage
    BY <2>1 DEF Planner!Collect
  <2>3. paths' \in Seq(1..NumFiles) /\ Len(paths') \in Nat
    BY <1>1, <2>2
  <2> QED
    BY <1>1, <1>2, <2>2, <2>3 DEF PlanInv
<1>5. CASE Planner!SortPaths
  <2>1. /\ situation.directory = "readable" /\ stage' = "parse"
        /\ paths' = Planner!Sorted(Planner!Range(paths)) /\ Planner!Range(paths) = 1..NumFiles
    BY <1>5 DEF Planner!SortPaths, Planner!Files
  <2>2. /\ paths' \in Seq(1..NumFiles) /\ Len(paths') = NumFiles
        /\ \A k \in 1..NumFiles : paths'[k] = k
    BY <2>1, SortedFiles
  <2>3. NumPresent(situation') = NumFiles /\ NumFiles \in Nat
    BY <2>1, FilesType DEF NumPresent
  <2> QED
    BY <1>1, <1>2, <2>1, <2>2, <2>3 DEF PlanInv
<1> QED
  BY <1>3, <1>4, <1>5

\* Parsing and validating, up to their failures.
LEMMA LoadKeeps ==
  ASSUME PlanInv, situation \in Situations, situation' = situation,
         Planner!ParseFile \/ Planner!ParsingDone \/ Planner!Validate \/ Planner!PlanReady
  PROVE  PlanInv'
<1>1. /\ stage \in {"parse", "validate", "plan"} /\ exit = ExitPass
      /\ UNCHANGED <<paths, considered, plan, skipped, exit>>
      /\ Len(paths) \in Nat /\ Considered(situation, considered, plan, skipped)
  BY DEF PlanInv, Planner!ParseFile, Planner!ParsingDone, Planner!Validate, Planner!PlanReady
<1>2. Considered(situation', considered', plan', skipped')
  BY <1>1
<1>3. CASE Planner!ParseFile
  <2>1. /\ stage = "parse" /\ stage' = "parse" /\ parsed' = parsed + 1 /\ parsed < Len(paths)
        /\ situation.content[paths[parsed + 1]].text = "ok" /\ parsed \in Nat
    BY <1>3 DEF Planner!ParseFile, PlanInv
  <2>2. paths[parsed + 1] = parsed + 1
    BY <1>1, <2>1 DEF PlanInv
  <2>3. \A p \in 1..parsed' : situation.content[p].text = "ok"
    BY <2>1, <2>2 DEF PlanInv
  <2> QED
    BY <1>1, <1>2, <2>1, <2>3 DEF PlanInv
<1>4. CASE Planner!ParsingDone
  BY <1>1, <1>2, <1>4 DEF Planner!ParsingDone, PlanInv
<1>5. CASE Planner!Validate
  <2>1. ValidSet(situation)
    <3>1. /\ \A k \in 1..Len(paths) : paths[k] = k
          /\ Len(paths) = NumPresent(situation) /\ paths \in Seq(1..NumFiles)
      BY <1>5 DEF Planner!Validate, PlanInv
    <3>2. Planner!Loaded = 1..NumPresent(situation)
      <4>1. CASE situation.directory = "readable"
        <5>1. Planner!Range(paths) = 1..Len(paths)
          BY <3>1 DEF Planner!Range
        <5> QED
          BY <3>1, <4>1, <5>1 DEF Planner!Loaded
      <4>2. CASE situation.directory # "readable"
        BY <4>2 DEF Planner!Loaded, NumPresent
      <4> QED
        BY <4>1, <4>2
    <3> QED
      BY <1>5, <3>2 DEF Planner!Validate, Planner!UniqueIds, Planner!ReferencedFilesExist, ValidSet
  <2> QED
    BY <1>1, <1>2, <1>5, <2>1 DEF Planner!Validate, PlanInv
<1>6. CASE Planner!PlanReady
  BY <1>1, <1>2, <1>6 DEF Planner!PlanReady, PlanInv
<1> QED
  BY <1>3, <1>4, <1>5, <1>6

\* Failures: what is handed on is what the situation decides.
LEMMA FailKeeps ==
  ASSUME PlanInv, situation \in Situations, situation' = situation,
         \/ Planner!ReadDirFails \/ Planner!ParseFails \/ Planner!ValidateFails
         \/ Planner!BodyIsInvalid
  PROVE  PlanInv'
<1>1. /\ stage' = "failed" /\ exit' \in {ExitExecutionError, ExitInvalidFixture}
      /\ UNCHANGED <<paths, parsed, considered, plan, skipped>>
      /\ exit' = ExitExecutionError <=> Planner!BodyIsInvalid
  BY DEF Planner!ReadDirFails, Planner!ParseFails, Planner!ValidateFails, Planner!BodyIsInvalid,
         Planner!Fail, Planner!Consider, Planner!ExitExecutionError, Planner!ExitInvalidFixture,
         ExitExecutionError, ExitInvalidFixture
<1>2. ASSUME stage \in {"parse", "validate", "plan"}
      PROVE  /\ Len(paths) = NumPresent(situation) /\ \A k \in 1..Len(paths) : paths[k] = k
             /\ paths \in Seq(1..NumFiles) /\ Len(paths) \in Nat
             /\ situation.directory # "broken"
  BY <1>2 DEF PlanInv
<1>3. CASE Planner!ReadDirFails \/ Planner!ParseFails \/ Planner!ValidateFails
  <2>1. /\ plan = NoLists /\ skipped = <<>> /\ exit' = ExitInvalidFixture
    BY <1>3 DEF Planner!ReadDirFails, Planner!ParseFails, Planner!ValidateFails, Planner!Fail,
                Planner!ExitInvalidFixture, ExitInvalidFixture, PlanInv
  <2>2. situation.directory = "broken" \/ ~LoadsAll(situation) \/ ~ValidSet(situation)
    <3>1. CASE Planner!ReadDirFails
      BY <3>1 DEF Planner!ReadDirFails
    <3>2. CASE Planner!ParseFails
      <4>1. /\ stage = "parse" /\ parsed < Len(paths) /\ parsed \in Nat
            /\ situation.content[paths[parsed + 1]].text # "ok"
        BY <3>2 DEF Planner!ParseFails, PlanInv
      <4>2. parsed + 1 \in 1..NumPresent(situation) /\ paths[parsed + 1] = parsed + 1
        BY <1>2, <4>1
      <4> QED
        BY <4>1, <4>2 DEF LoadsAll
    <3>3. CASE Planner!ValidateFails
      <4>1. Planner!Loaded \subseteq 1..NumPresent(situation)
        <5>1. \A k \in DOMAIN paths : paths[k] \in 1..NumPresent(situation)
          BY <1>2, <3>3 DEF Planner!ValidateFails
        <5> QED
          BY <5>1 DEF Planner!Loaded, Planner!Range
      <4> QED
        BY <3>3, <4>1
           DEF Planner!ValidateFails, Planner!UniqueIds, Planner!ReferencedFilesExist, ValidSet
    <3> QED
      BY <1>3, <3>1, <3>2, <3>3
  <2>3. Settled(situation', exit', plan', skipped')
    BY <1>1, <2>1, <2>2 DEF Settled
  <2> QED
    BY <1>1, <2>1, <2>3 DEF PlanInv, ExitPass, ExitInvalidFixture
<1>4. CASE Planner!BodyIsInvalid
  <2>1. /\ stage = "plan" /\ considered < Len(paths) /\ considered \in Nat
        /\ Planner!SkipReasons(paths[considered + 1]) = {}
        /\ situation.content[paths[considered + 1]].body = "invalid"
    BY <1>4 DEF Planner!BodyIsInvalid, Planner!Consider, Planner!Upcoming, PlanInv
  <2>2. paths[considered + 1] = considered + 1
    BY <1>2, <2>1
  <2>3. ~Fits(situation, considered + 1)
    BY <2>1, <2>2, SameSkips DEF Fits
  <2>4. /\ LoadsAll(situation) /\ ValidSet(situation)
    BY <1>2, <2>1 DEF PlanInv, LoadsAll
  <2>5. /\ Considered(situation, considered, plan, skipped)
        /\ considered \in 0..NumPresent(situation) /\ considered < NumPresent(situation)
    BY <1>2, <2>1 DEF PlanInv
  <2>6. Settled(situation, ExitExecutionError, plan, skipped)
    BY <1>2, <2>1, <2>3, <2>4, <2>5 DEF Settled
  <2>7. exit' = ExitExecutionError
    BY <1>4 DEF Planner!BodyIsInvalid, Planner!Fail, Planner!ExitExecutionError, ExitExecutionError
  <2> QED
    BY <1>1, <2>5, <2>6, <2>7 DEF PlanInv, ExitPass, ExitExecutionError
<1> QED
  BY <1>3, <1>4

\* Planning: the next file is skipped for its one reason, or joins its list.
LEMMA BuildKeeps ==
  ASSUME PlanInv, situation \in Situations, situation' = situation,
         (\E reason \in Planner!Reasons : Planner!SkipFixture(reason)) \/ Planner!PlanFixture
  PROVE  PlanInv'
<1>1. /\ stage = "plan" /\ considered < Len(paths) /\ considered \in Nat /\ considered' = considered + 1
      /\ UNCHANGED <<stage, paths, parsed, exit>>
  <2>1. considered \in Nat
    BY DEF PlanInv
  <2>2. CASE \E reason \in Planner!Reasons : Planner!SkipFixture(reason)
    BY <2>1, <2>2 DEF Planner!SkipFixture, Planner!Consider
  <2>3. CASE Planner!PlanFixture
    BY <2>1, <2>3 DEF Planner!PlanFixture, Planner!Consider
  <2> QED
    BY <2>2, <2>3
<1>2. /\ Len(paths) = NumPresent(situation) /\ Len(paths) \in Nat
      /\ paths[considered + 1] = considered + 1
      /\ Considered(situation, considered, plan, skipped)
  BY <1>1 DEF PlanInv
<1>3. considered + 1 \in 1..NumFiles
  BY <1>1, <1>2, NumPresentType, FilesType
<1>4. Considered(situation', considered', plan', skipped')
  <2>1. CASE \E reason \in Planner!Reasons : Planner!SkipFixture(reason)
    <3>1. PICK r \in Planner!Reasons : Planner!SkipFixture(r)
      BY <2>1
    <3>2. /\ r \in Skips(situation, considered + 1) /\ plan' = plan
          /\ skipped' = Append(skipped, [file |-> considered + 1, reason |-> r])
      BY <1>2, <3>1, SameSkips DEF Planner!SkipFixture, Planner!Upcoming
    <3> QED
      BY <1>1, <1>2, <1>3, <3>2, ConsiderSkipped
  <2>2. CASE Planner!PlanFixture
    <3>1. /\ Skips(situation, considered + 1) = {} /\ skipped' = skipped
          /\ situation.content[considered + 1].body = "ok"
          /\ plan' = [plan EXCEPT ![situation.content[considered + 1].surface] =
                        Append(@, considered + 1)]
      BY <1>2, <2>2, SameSkips DEF Planner!PlanFixture, Planner!Upcoming
    <3>2. situation.content[considered + 1].surface \in Surfaces
      BY <1>3, SituationType
    <3> QED
      BY <1>1, <1>2, <1>3, <3>1, <3>2, ConsiderPlanned
  <2> QED
    BY <2>1, <2>2
<1> QED
  BY <1>1, <1>2, <1>4 DEF PlanInv

\* A command begins to plan with nothing done.
LEMMA StartPlanInv ==
  ASSUME stage = "collect", paths = <<>>, parsed = 0, plan = NoLists, skipped = <<>>,
         considered = 0, exit = ExitPass
  PROVE  PlanInv
<1>1. paths \in Seq(1..NumFiles) /\ Len(paths) = 0
  OBVIOUS
<1>2. Considered(situation, considered, plan, skipped)
  BY NothingConsidered
<1> QED
  BY <1>1, <1>2 DEF PlanInv

-----------------------------------------------------------------------------
(* The outcome of planning is the only one its situation admits.            *)

LEMMA LeastElement ==
  ASSUME NEW T \in SUBSET Nat, T # {}
  PROVE  \E x \in T : \A y \in T : x <= y
<1> DEFINE R == {ss \in Nat \X Nat : ss[1] < ss[2]}
<1>1. IsWellFoundedOn(R, Nat)
  BY NatLessThanWellFounded DEF OpToRel
<1> HIDE DEF R
<1>2. PICK x \in T : \A y \in T : ~(<<y, x>> \in R)
  BY <1>1, WFMin
<1>3. \A y \in T : ~(y < x)
  BY <1>2 DEF R
<1> QED
  BY <1>3

\* An increasing sequence's element is no smaller than the other's at the first
\* place, k, where the two do not agree.
LEMMA FirstDifference ==
  ASSUME NEW q \in Seq(Nat), NEW r \in Seq(Nat), Increasing(q), Increasing(r),
         \A k \in DOMAIN q : \E j \in DOMAIN r : r[j] = q[k],
         NEW k \in DOMAIN q,
         \A j \in Nat : j < k /\ j \in DOMAIN r => j \in DOMAIN q /\ q[j] = r[j]
  PROVE  k \in DOMAIN r /\ r[k] <= q[k]
<1>1. /\ Len(q) \in Nat /\ Len(r) \in Nat /\ DOMAIN q = 1..Len(q) /\ DOMAIN r = 1..Len(r)
      /\ \A i \in DOMAIN q : q[i] \in Nat
      /\ \A i \in DOMAIN r : r[i] \in Nat
  OBVIOUS
<1>2. PICK j \in DOMAIN r : r[j] = q[k]
  OBVIOUS
<1>3. j \in Nat /\ k \in Nat /\ j >= 1 /\ k >= 1 /\ j <= Len(r)
  BY <1>1
<1>4. ASSUME j < k PROVE FALSE
  <2>1. j \in DOMAIN q /\ q[j] = r[j]
    BY <1>3, <1>4
  <2>2. q[j] < q[k]
    BY <1>4, <2>1 DEF Increasing
  <2>3. q[j] \in Nat /\ q[k] \in Nat
    BY <1>1, <2>1
  <2> QED
    BY <1>2, <2>1, <2>2, <2>3
<1>5. k <= j /\ k \in DOMAIN r
  BY <1>1, <1>3, <1>4
<1>6. ASSUME k < j PROVE r[k] < r[j]
  BY <1>5, <1>6 DEF Increasing
<1>7. r[k] \in Nat /\ r[j] \in Nat
  BY <1>1, <1>5
<1> QED
  BY <1>2, <1>3, <1>5, <1>6, <1>7

\* Two increasing sequences with the same elements are the same.
LEMMA SameIncreasing ==
  ASSUME NEW q \in Seq(Nat), NEW r \in Seq(Nat), Increasing(q), Increasing(r),
         \A k \in DOMAIN q : \E j \in DOMAIN r : r[j] = q[k],
         \A k \in DOMAIN r : \E j \in DOMAIN q : q[j] = r[k]
  PROVE  q = r
<1> DEFINE Agree(k) == k \in DOMAIN q /\ k \in DOMAIN r /\ q[k] = r[k]
           T == {k \in Nat : (k \in DOMAIN q \/ k \in DOMAIN r) /\ ~Agree(k)}
<1>1. /\ Len(q) \in Nat /\ Len(r) \in Nat /\ DOMAIN q = 1..Len(q) /\ DOMAIN r = 1..Len(r)
      /\ \A k \in DOMAIN q : q[k] \in Nat
      /\ \A k \in DOMAIN r : r[k] \in Nat
  OBVIOUS
<1>2. ASSUME T # {} PROVE FALSE
  <2>1. T \in SUBSET Nat
    OBVIOUS
  <2>2. \E k \in T : \A y \in T : k <= y
    BY <1>2, <2>1, LeastElement
  <2>3. PICK k \in T : \A y \in T : k <= y
    BY <2>2
  <2>4. k \in Nat /\ (k \in DOMAIN q \/ k \in DOMAIN r) /\ ~Agree(k)
    OBVIOUS
  <2>5. ASSUME NEW j \in Nat, j < k, j \in DOMAIN q \/ j \in DOMAIN r
        PROVE  Agree(j)
    <3>1. j \notin T
      BY <2>3, <2>4, <2>5
    <3> QED
      BY <2>5, <3>1
  <2> HIDE DEF T
  <2>6. k \in DOMAIN q => k \in DOMAIN r /\ r[k] <= q[k]
    BY <2>5, FirstDifference
  <2>7. k \in DOMAIN r => k \in DOMAIN q /\ q[k] <= r[k]
    BY <2>5, FirstDifference
  <2>8. k \in DOMAIN q /\ k \in DOMAIN r /\ r[k] <= q[k] /\ q[k] <= r[k]
    BY <2>4, <2>6, <2>7
  <2>9. q[k] \in Nat /\ r[k] \in Nat
    BY <1>1, <2>8
  <2> QED
    BY <2>4, <2>8, <2>9
<1>3. ASSUME NEW k \in Nat, k \in DOMAIN q \/ k \in DOMAIN r
      PROVE  k \in DOMAIN q /\ k \in DOMAIN r /\ q[k] = r[k]
  BY <1>2, <1>3
<1> HIDE DEF Agree, T
<1>4. Len(q) <= Len(r)
  <2>1. ASSUME Len(q) > 0 PROVE Len(q) \in DOMAIN r
    <3>1. Len(q) \in DOMAIN q
      BY <1>1, <2>1
    <3> QED
      BY <1>1, <1>3, <3>1
  <2> QED
    BY <1>1, <2>1
<1>5. Len(r) <= Len(q)
  <2>1. ASSUME Len(r) > 0 PROVE Len(r) \in DOMAIN q
    <3>1. Len(r) \in DOMAIN r
      BY <1>1, <2>1
    <3> QED
      BY <1>1, <1>3, <3>1
  <2> QED
    BY <1>1, <2>1
<1>6. Len(q) = Len(r)
  <2>1. Len(q) \in Nat /\ Len(r) \in Nat
    BY <1>1
  <2> QED
    BY <1>4, <1>5, <2>1
<1>7. \A k \in 1..Len(q) : q[k] = r[k]
  BY <1>1, <1>3
<1> QED
  BY <1>6, <1>7, SeqEqual

\* The first n files make one plan and one list of skipped fixtures.
LEMMA PlanListed ==
  ASSUME NEW s, NEW n \in Nat, NEW p1, NEW p2, NEW t \in Surfaces,
         PlanOfFirst(s, n, p1), PlanOfFirst(s, n, p2), NEW k \in DOMAIN p1[t]
  PROVE  \E j \in DOMAIN p2[t] : p2[t][j] = p1[t][k]
<1>1. PICK p : p = p1[t][k]
  OBVIOUS
<1>2. p \in 1..n /\ Skips(s, p) = {} /\ s.content[p].surface = t
  BY <1>1 DEF PlanOfFirst
<1>3. \E j \in DOMAIN p2[s.content[p].surface] : p2[s.content[p].surface][j] = p
  BY <1>2 DEF PlanOfFirst
<1> QED
  BY <1>1, <1>2, <1>3

LEMMA NumbersAreNat ==
  ASSUME NEW q \in Seq(1..NumFiles)
  PROVE  q \in Seq(Nat)
<1>1. \A k \in 1..Len(q) : q[k] \in Nat
  BY FilesType
<1>2. q = [k \in 1..Len(q) |-> q[k]] /\ Len(q) \in Nat
  OBVIOUS
<1>3. [k \in 1..Len(q) |-> q[k]] \in Seq(Nat)
  BY <1>1, <1>2
<1> QED
  BY <1>2, <1>3

LEMMA SamePlanOfFirst ==
  ASSUME NEW s, NEW n \in Nat, NEW p1, NEW p2,
         PlanOfFirst(s, n, p1), PlanOfFirst(s, n, p2)
  PROVE  p1 = p2
<1>1. p1 \in [Surfaces -> Seq(1..NumFiles)] /\ p2 \in [Surfaces -> Seq(1..NumFiles)]
  BY DEF PlanOfFirst
<1>2. ASSUME NEW t \in Surfaces PROVE p1[t] = p2[t]
  <2>1. p1[t] \in Seq(Nat) /\ p2[t] \in Seq(Nat)
    BY <1>1, NumbersAreNat
  <2>2. Increasing(p1[t]) /\ Increasing(p2[t])
    BY DEF PlanOfFirst
  <2>3. \A k \in DOMAIN p1[t] : \E j \in DOMAIN p2[t] : p2[t][j] = p1[t][k]
    BY PlanListed
  <2>4. \A k \in DOMAIN p2[t] : \E j \in DOMAIN p1[t] : p1[t][j] = p2[t][k]
    BY PlanListed
  <2> QED
    BY <2>1, <2>2, <2>3, <2>4, SameIncreasing
<1> QED
  BY <1>1, <1>2

\* The files of a list of skipped fixtures.
FilesOf(sk) == [k \in 1..Len(sk) |-> sk[k].file]

LEMMA FilesOfType ==
  ASSUME NEW s, NEW n \in Nat, NEW sk, SkippedOfFirst(s, n, sk)
  PROVE  /\ FilesOf(sk) \in Seq(Nat) /\ Increasing(FilesOf(sk))
         /\ Len(FilesOf(sk)) = Len(sk) /\ Len(sk) \in Nat /\ DOMAIN sk = 1..Len(sk)
         /\ \A k \in 1..Len(sk) : FilesOf(sk)[k] = sk[k].file
<1> DEFINE R == [file : 1..NumFiles, reason : SkipReasonNames]
<1>1. sk \in Seq(R)
  BY DEF SkippedOfFirst
<1> HIDE DEF R
<1>2. Len(sk) \in Nat /\ DOMAIN sk = 1..Len(sk) /\ \A k \in 1..Len(sk) : sk[k] \in R
  BY <1>1
<1>3. \A k \in 1..Len(sk) : sk[k].file \in Nat
  BY <1>2, FilesType DEF R
<1>4. /\ FilesOf(sk) \in Seq(Nat) /\ Len(FilesOf(sk)) = Len(sk) /\ DOMAIN FilesOf(sk) = 1..Len(sk)
      /\ \A k \in 1..Len(sk) : FilesOf(sk)[k] = sk[k].file
  BY <1>2, <1>3 DEF FilesOf
<1>5. \A j, k \in DOMAIN sk : j < k => sk[j].file < sk[k].file
  BY DEF SkippedOfFirst
<1>6. Increasing(FilesOf(sk))
  BY <1>2, <1>4, <1>5 DEF Increasing
<1> QED
  BY <1>2, <1>4, <1>6

LEMMA SkippedListed ==
  ASSUME NEW s, NEW n \in Nat, NEW k1, NEW k2,
         SkippedOfFirst(s, n, k1), SkippedOfFirst(s, n, k2), NEW k \in DOMAIN FilesOf(k1)
  PROVE  \E j \in DOMAIN FilesOf(k2) : FilesOf(k2)[j] = FilesOf(k1)[k]
<1>1. k \in DOMAIN k1 /\ FilesOf(k1)[k] = k1[k].file
  BY FilesOfType DEF FilesOf
<1>2. PICK p : p = k1[k].file
  OBVIOUS
<1>3. p \in 1..n /\ Skips(s, p) # {}
  BY <1>1, <1>2 DEF SkippedOfFirst
<1>4. PICK j \in DOMAIN k2 : k2[j].file = p
  BY <1>3 DEF SkippedOfFirst
<1>5. j \in DOMAIN FilesOf(k2) /\ FilesOf(k2)[j] = p
  BY <1>4, FilesOfType DEF FilesOf
<1> QED
  BY <1>1, <1>2, <1>5

LEMMA SameSkippedOfFirst ==
  ASSUME NEW s, NEW n \in Nat, NEW k1, NEW k2,
         SkippedOfFirst(s, n, k1), SkippedOfFirst(s, n, k2)
  PROVE  k1 = k2
<1> DEFINE R == [file : 1..NumFiles, reason : SkipReasonNames]
<1>1. k1 \in Seq(R) /\ k2 \in Seq(R)
  BY DEF SkippedOfFirst
<1>2. \A k \in DOMAIN FilesOf(k1) : \E j \in DOMAIN FilesOf(k2) : FilesOf(k2)[j] = FilesOf(k1)[k]
  BY SkippedListed
<1>3. \A k \in DOMAIN FilesOf(k2) : \E j \in DOMAIN FilesOf(k1) : FilesOf(k1)[j] = FilesOf(k2)[k]
  BY SkippedListed
<1>4. /\ FilesOf(k1) \in Seq(Nat) /\ FilesOf(k2) \in Seq(Nat)
      /\ Increasing(FilesOf(k1)) /\ Increasing(FilesOf(k2))
  BY FilesOfType
<1>5. FilesOf(k1) = FilesOf(k2)
  BY <1>2, <1>3, <1>4, SameIncreasing
<1>6. /\ Len(k1) = Len(k2) /\ Len(k1) \in Nat /\ DOMAIN k1 = 1..Len(k1) /\ DOMAIN k2 = 1..Len(k1)
      /\ \A k \in 1..Len(k1) : k1[k].file = k2[k].file
  <2>1. /\ Len(FilesOf(k1)) = Len(k1) /\ Len(k1) \in Nat /\ DOMAIN k1 = 1..Len(k1)
        /\ \A k \in 1..Len(k1) : FilesOf(k1)[k] = k1[k].file
    BY FilesOfType
  <2>2. /\ Len(FilesOf(k2)) = Len(k2) /\ Len(k2) \in Nat /\ DOMAIN k2 = 1..Len(k2)
        /\ \A k \in 1..Len(k2) : FilesOf(k2)[k] = k2[k].file
    BY FilesOfType
  <2> QED
    BY <1>5, <2>1, <2>2
<1>7. ASSUME NEW k \in 1..Len(k1) PROVE k1[k].reason = k2[k].reason
  <2>1. k1[k].reason \in Skips(s, k1[k].file) /\ k2[k].reason \in Skips(s, k2[k].file)
    BY <1>6 DEF SkippedOfFirst
  <2> QED
    BY <1>6, <2>1, SkipReasonType
<1>8. ASSUME NEW k \in 1..Len(k1) PROVE k1[k] = k2[k]
  <2> HIDE DEF R
  <2>1. k1[k] \in R /\ k2[k] \in R
    BY <1>1, <1>6
  <2> QED
    BY <1>6, <1>7, <2>1 DEF R
<1> HIDE DEF R
<1> QED
  BY <1>1, <1>6, <1>8, SeqEqual

\* So the situation settles everything.
LEMMA SettledOnce ==
  ASSUME NEW s, NEW e1, NEW e2, NEW p1, NEW p2, NEW k1, NEW k2,
         Settled(s, e1, p1, k1), Settled(s, e2, p2, k2)
  PROVE  e1 = e2 /\ p1 = p2 /\ k1 = k2
<1>1. CASE s.directory = "broken" \/ ~LoadsAll(s) \/ ~ValidSet(s)
  BY <1>1 DEF Settled
<1>2. CASE ~(s.directory = "broken" \/ ~LoadsAll(s) \/ ~ValidSet(s))
  <2>1. PICK n \in 0..NumPresent(s) :
          /\ Considered(s, n, p1, k1)
          /\ \/ n = NumPresent(s) /\ e1 = ExitPass
             \/ n < NumPresent(s) /\ ~Fits(s, n + 1) /\ e1 = ExitExecutionError
    BY <1>2 DEF Settled
  <2>2. PICK m \in 0..NumPresent(s) :
          /\ Considered(s, m, p2, k2)
          /\ \/ m = NumPresent(s) /\ e2 = ExitPass
             \/ m < NumPresent(s) /\ ~Fits(s, m + 1) /\ e2 = ExitExecutionError
    BY <1>2 DEF Settled
  <2>3. NumPresent(s) \in Nat /\ NumPresent(s) <= NumFiles
    BY NumPresentType
  <2>4. \A p \in 1..n : Fits(s, p)
    BY <2>1 DEF Considered
  <2>5. \A p \in 1..m : Fits(s, p)
    BY <2>2 DEF Considered
  <2>6. n = m
    BY <2>1, <2>2, <2>3, <2>4, <2>5
  <2>7. n <= NumFiles /\ n \in Nat
    BY <2>3, FilesType
  <2>8. p1 = p2 /\ k1 = k2
    BY <2>1, <2>2, <2>6, <2>7, SamePlanOfFirst, SameSkippedOfFirst DEF Considered
  <2> QED
    BY <2>1, <2>2, <2>3, <2>6, <2>8
<1> QED
  BY <1>1, <1>2

-----------------------------------------------------------------------------
(* The commands.                                                            *)

\* inspect and check are refused alike, before they plan.
Refused(s) == ~s.rooted \/ ~FlagIsValid(s) \/ ~Loads(s)

RefusalCode(s) == IF ~s.rooted THEN ExitInternalError ELSE ExitConfigurationError

\* check's choice of an endpoint, once it is past that step.
EndpointChosen(s, end) ==
  /\ end = "none" <=> {"rpc", "soroban"} \subseteq ConfigOf(s).off
  /\ end = "default" => s.network = "testnet" /\ ~s.url

Outcome(reached, code, end, pl, sk) ==
  [reached |-> reached, exit |-> code, endpoint |-> end, plan |-> pl, skipped |-> sk,
   listed |-> NoLists]

\* What inspect or check came to.
Concluded(s, c, o) ==
  \/ Refused(s) /\ o = Outcome("configure", RefusalCode(s), "none", NoLists, <<>>)
  \/ c = "check" /\ ~Refused(s)
       /\ o = Outcome("endpoint", ExitConfigurationError, "none", NoLists, <<>>)
  \/ /\ ~Refused(s)
     /\ \E e, end, pl, sk :
          /\ Settled(s, e, pl, sk)
          /\ o = Outcome("plan", e, end, pl, sk)
          /\ c = "inspect" => end = "none"
          /\ c = "check" => EndpointChosen(s, end)

\* A listing: of each surface, in path order, the target protocol's files.
Lists(s, listed) ==
  \A t \in Surfaces :
    /\ Increasing(listed[t]) /\ DOMAIN listed[t] \subseteq Nat
    /\ Range(listed[t]) = {p \in 1..NumPresent(s) :
                             s.content[p].protocol = Target(s) /\ s.content[p].surface = t}

\* What fixtures came to, in a situation that did not stop inspect and check
\* before they planned.
FixturesConcluded(s, o) ==
  Refused(s) \/ (\E pl, sk : o.exit # ExitPass /\ Settled(s, o.exit, pl, sk))
    \/ /\ s.directory # "broken" /\ LoadsAll(s) /\ ValidSet(s)
       /\ o.exit = ExitPass /\ Lists(s, o.listed)

CommandInv ==
  /\ situation \in Situations
  /\ command \in CommandNames \cup {"none"}
  /\ step \in {"configure", "endpoint", "plan"}
  /\ endpoint \in {"none", "given", "default"}
  /\ outcome = [c \in CommandNames |-> outcome[c]]
  /\ \A c \in CommandNames : outcome[c].exit \in ExitPass..ExitInternalError
  /\ step # "plan" => stage = "collect" /\ endpoint = "none"
  /\ step = "endpoint" => command = "check"
  /\ command = "none" => step = "configure"
  /\ command # "check" => endpoint = "none"
  /\ step # "configure" /\ command # "fixtures" => ~Refused(situation)
  /\ step = "plan" /\ command = "check" => EndpointChosen(situation, endpoint)
  /\ command # "inspect" => Concluded(situation, "inspect", outcome["inspect"])
  /\ command \in {"fixtures", "none"} => Concluded(situation, "check", outcome["check"])
  /\ command = "none" => FixturesConcluded(situation, outcome["fixtures"])
  /\ command = "fixtures" => stage # "ready"
  /\ PlanInv

\* The only plan of a planner that is done is the one its situation admits.
LEMMA ReadySettles ==
  ASSUME PlanInv, stage = "ready"
  PROVE  Settled(situation, ExitPass, plan, skipped)
<1>1. /\ situation.directory # "broken" /\ ValidSet(situation)
      /\ considered = NumPresent(situation)
      /\ Considered(situation, considered, plan, skipped)
  BY DEF PlanInv
<1>2. LoadsAll(situation)
  BY DEF PlanInv, LoadsAll
<1>3. NumPresent(situation) \in 0..NumPresent(situation)
  BY NumPresentType
<1> QED
  BY <1>1, <1>2, <1>3 DEF Settled

LEMMA SettledCodes ==
  ASSUME NEW s, NEW e, NEW pl, NEW sk, Settled(s, e, pl, sk)
  PROVE  e \in {ExitPass, ExitExecutionError, ExitInvalidFixture}
BY DEF Settled

\* A command that ends leaves its outcome and a planner that has not begun.
LEMMA ExitKeeps ==
  ASSUME CommandInv, command \in CommandNames, NEW o, o.exit \in ExitPass..ExitInternalError,
         command \in {"inspect", "check"} => Concluded(situation, command, o),
         command = "fixtures" => FixturesConcluded(situation, o),
         outcome' = [outcome EXCEPT ![command] = o],
         command' = Following[command], step' = "configure", endpoint' = "none",
         stage' = "collect", paths' = <<>>, parsed' = 0, plan' = NoLists, skipped' = <<>>,
         considered' = 0, exit' = ExitPass, situation' = situation
  PROVE  CommandInv'
<1>1. PlanInv'
  <2>1. Considered(situation', considered', plan', skipped')
    BY NothingConsidered
  <2>2. paths' \in Seq(1..NumFiles) /\ Len(paths') = 0
    OBVIOUS
  <2> QED
    BY <2>1, <2>2 DEF PlanInv
<1>2. /\ outcome' = [c \in CommandNames |-> outcome'[c]] /\ outcome'[command] = o
      /\ \A c \in CommandNames : c # command => outcome'[c] = outcome[c]
  BY DEF CommandInv
<1>3. \A c \in CommandNames : outcome'[c].exit \in ExitPass..ExitInternalError
  BY <1>2 DEF CommandInv
<1>4. /\ command' \in {"check", "fixtures", "none"}
      /\ command' = "check" <=> command = "inspect"
      /\ command' = "fixtures" <=> command = "check"
      /\ command' = "none" <=> command = "fixtures"
  BY DEF Following, CommandNames
<1>5. Concluded(situation', "inspect", outcome'["inspect"])
  <2>1. CASE command = "inspect"
    BY <1>2, <2>1
  <2>2. CASE command # "inspect"
    BY <1>2, <2>2 DEF CommandInv, CommandNames
  <2> QED
    BY <2>1, <2>2
<1>6. command' \in {"fixtures", "none"} => Concluded(situation', "check", outcome'["check"])
  <2>1. CASE command = "check"
    BY <1>2, <2>1
  <2>2. CASE command = "fixtures"
    BY <1>2, <2>2 DEF CommandInv, CommandNames
  <2> QED
    BY <1>4, <2>1, <2>2
<1>7. command' = "none" => FixturesConcluded(situation', outcome'["fixtures"])
  BY <1>2, <1>4
<1> QED
  BY <1>1, <1>2, <1>3, <1>4, <1>5, <1>6, <1>7 DEF CommandInv, CommandNames

LEMMA CommandInit ==
  ASSUME Init
  PROVE  CommandInv
<1>1. PlanInv
  BY StartPlanInv, Zenon DEF Init, Planner!Init, NoLists, Surfaces, Planner!Surfaces,
     Planner!ExitPass, ExitPass
<1>2. stage = "collect"
  BY DEF Init, Planner!Init
<1>3. outcome = [c \in CommandNames |-> NotRun]
  BY DEF Init
<1>4. outcome = [c \in CommandNames |-> outcome[c]]
  BY <1>3
<1>5. \A c \in CommandNames : outcome[c].exit \in ExitPass..ExitInternalError
  BY <1>3 DEF NotRun, ExitPass, ExitInternalError
<1> QED
  BY <1>1, <1>2, <1>4, <1>5 DEF Init, CommandInv, CommandNames

\* The three codes a command can end with before it plans, and those of planning.
LEMMA RefusedCommands ==
  ASSUME CommandInv, NoWorkingDirectory \/ ConfigurationIsRefused \/ EndpointIsMissing
  PROVE  CommandInv'
<1>1. /\ step # "plan" /\ command \in CommandNames /\ endpoint = "none"
      /\ stage = "collect" /\ plan = NoLists /\ skipped = <<>>
  BY DEF CommandInv, PlanInv, NoWorkingDirectory, ConfigurationIsRefused, EndpointIsMissing,
         CommandNames
<1>2. PICK code \in {ExitInternalError, ExitConfigurationError} :
        /\ Exits(code, NoLists)
        /\ \/ /\ command \in {"inspect", "check"}
                => Refused(situation) /\ code = RefusalCode(situation)
              /\ step = "configure"
              /\ command = "fixtures" => Refused(situation)
           \/ step = "endpoint" /\ code = ExitConfigurationError
  BY DEF NoWorkingDirectory, ConfigurationIsRefused, EndpointIsMissing, Refused, RefusalCode,
         ReadsConfig
<1> DEFINE o == [reached |-> step, exit |-> code, endpoint |-> endpoint, plan |-> plan,
                 skipped |-> skipped, listed |-> NoLists]
<1>3. PICK r : r = o
  OBVIOUS
<1>4. r = Outcome(step, code, "none", NoLists, <<>>) /\ r.exit \in ExitPass..ExitInternalError
  BY <1>1, <1>3
     DEF Outcome, ExitInternalError, ExitConfigurationError, ExitPass
<1>5. /\ command \in {"inspect", "check"} => Concluded(situation, command, r)
      /\ command = "fixtures" => FixturesConcluded(situation, r)
  BY <1>2, <1>4 DEF CommandInv, Concluded, FixturesConcluded
<1>6. /\ outcome' = [outcome EXCEPT ![command] = r]
      /\ command' = Following[command] /\ step' = "configure" /\ endpoint' = "none"
      /\ stage' = "collect" /\ paths' = <<>> /\ parsed' = 0 /\ plan' = NoLists
      /\ skipped' = <<>> /\ considered' = 0 /\ exit' = ExitPass /\ situation' = situation
  BY <1>2, <1>3 DEF Exits
<1> QED
  BY <1>1, <1>4, <1>5, <1>6, ExitKeeps

LEMMA PlannedCommands ==
  ASSUME CommandInv, PlanningFails \/ PlanIsReady
  PROVE  CommandInv'
<1>1. /\ step = "plan" /\ command \in CommandNames
      /\ stage \in {"failed", "ready"}
  BY DEF CommandInv, PlanningFails, PlanIsReady, CommandNames
<1>2. PICK code : code = IF stage = "failed" THEN exit ELSE ExitPass
  OBVIOUS
<1>3. Exits(code, NoLists)
  BY <1>2 DEF PlanningFails, PlanIsReady, Exits
<1>4. Settled(situation, code, plan, skipped)
  BY <1>1, <1>2, ReadySettles DEF CommandInv, PlanInv
<1>5. code \in ExitPass..ExitInternalError
  BY <1>4, SettledCodes
     DEF ExitInternalError, ExitExecutionError, ExitInvalidFixture, ExitPass
<1>6. PICK r : r = Outcome("plan", code, endpoint, plan, skipped)
  OBVIOUS
<1>7. r = [reached |-> step, exit |-> code, endpoint |-> endpoint, plan |-> plan,
           skipped |-> skipped, listed |-> NoLists]
  BY <1>1, <1>6 DEF Outcome
<1>8. r.exit \in ExitPass..ExitInternalError
  BY <1>5, <1>7
<1>9. command \in {"inspect", "check"} => Concluded(situation, command, r)
  <2> SUFFICES ASSUME command \in {"inspect", "check"} PROVE Concluded(situation, command, r)
    OBVIOUS
  <2>1. /\ ~Refused(situation)
        /\ command = "inspect" => endpoint = "none"
        /\ command = "check" => EndpointChosen(situation, endpoint)
    BY <1>1 DEF CommandInv
  <2> QED
    BY <1>4, <1>6, <2>1 DEF Concluded
<1>10. command = "fixtures" => FixturesConcluded(situation, r)
  <2> SUFFICES ASSUME command = "fixtures" PROVE FixturesConcluded(situation, r)
    OBVIOUS
  <2>1. stage = "failed" /\ code = exit
    BY <1>1, <1>2 DEF CommandInv
  <2>2. r.exit # ExitPass /\ r.exit = code
    BY <1>7, <2>1 DEF CommandInv, PlanInv, ExitPass, ExitExecutionError, ExitInvalidFixture
  <2> QED
    BY <1>4, <2>2 DEF FixturesConcluded
<1>11. /\ outcome' = [outcome EXCEPT ![command] = r]
       /\ command' = Following[command] /\ step' = "configure" /\ endpoint' = "none"
       /\ stage' = "collect" /\ paths' = <<>> /\ parsed' = 0 /\ plan' = NoLists
       /\ skipped' = <<>> /\ considered' = 0 /\ exit' = ExitPass /\ situation' = situation
  BY <1>3, <1>7 DEF Exits
<1> QED
  BY <1>1, <1>8, <1>9, <1>10, <1>11, ExitKeeps

\* What fixtures lists is a listing, once the files are loaded and sorted.
LEMMA ListingLists ==
  ASSUME PlanInv, stage = "plan", NEW listed, listed = [t \in Surfaces |-> Listed(t)]
  PROVE  Lists(situation, listed)
<1>1. PICK n \in Nat : n = NumPresent(situation)
  BY NumPresentType
<1>2. DOMAIN paths = 1..n /\ \A k \in 1..n : paths[k] = k
  BY <1>1 DEF PlanInv
<1>3. ASSUME NEW t \in Surfaces
      PROVE  /\ Increasing(listed[t]) /\ DOMAIN listed[t] \subseteq Nat
             /\ Range(listed[t]) =
                  {p \in 1..n : /\ situation.content[p].protocol = Target(situation)
                                /\ situation.content[p].surface = t}
  <2>1. PICK K \in SUBSET (1..n) :
          K = {p \in 1..n : /\ situation.content[p].protocol = Target(situation)
                            /\ situation.content[p].surface = t}
    OBVIOUS
  <2>2. K = {k \in DOMAIN paths : /\ situation.content[paths[k]].protocol = Target(situation)
                                  /\ situation.content[paths[k]].surface = t}
    BY <1>2, <2>1
  <2>3. listed[t] = [j \in 1..Cardinality(K) |-> paths[Planner!Sorted(K)[j]]]
    BY <2>2 DEF Listed, Filtered
  <2>4. PICK c, S : /\ c = Cardinality(K) /\ S = Planner!Sorted(K)
    OBVIOUS
  <2>5. /\ c \in Nat /\ \A j \in 1..c : S[j] \in K
        /\ \A j, k \in 1..c : j < k => S[j] < S[k]
        /\ \A p \in K : \E j \in 1..c : S[j] = p
    BY <2>4, SortedPlaces
  <2>6. /\ DOMAIN listed[t] = 1..c
        /\ \A j \in 1..c : listed[t][j] = S[j]
    <3>1. listed[t] = [j \in 1..c |-> paths[S[j]]]
      BY <2>3, <2>4
    <3>2. \A j \in 1..c : paths[S[j]] = S[j]
      BY <1>2, <2>5
    <3> QED
      BY <3>1, <3>2
  <2>7. DOMAIN listed[t] \subseteq Nat
    BY <2>6
  <2>8. Increasing(listed[t])
    BY <2>5, <2>6 DEF Increasing
  <2>9. PICK q : q = listed[t]
    OBVIOUS
  <2>10. Range(q) = K
    <3>1. \A p \in K : \E j \in DOMAIN q : q[j] = p
      <4>1. DOMAIN q = 1..c /\ \A j \in 1..c : q[j] = S[j]
        BY <2>6, <2>9
      <4> QED
        BY <2>5, <4>1
    <3>2. \A j \in DOMAIN q : q[j] \in K
      BY <2>5, <2>6, <2>9
    <3> QED
      BY <3>1, <3>2 DEF Range
  <2> QED
    BY <2>1, <2>7, <2>8, <2>9, <2>10
<1> QED
  BY <1>1, <1>3 DEF Lists

LEMMA ListedCommand ==
  ASSUME CommandInv, ListFixtures
  PROVE  CommandInv'
<1>1. PICK r : r = [reached |-> step, exit |-> ExitPass, endpoint |-> endpoint, plan |-> plan,
                    skipped |-> skipped, listed |-> [s \in Surfaces |-> Listed(s)]]
  OBVIOUS
<1>2. /\ outcome' = [outcome EXCEPT ![command] = r]
      /\ command' = Following[command] /\ step' = "configure" /\ endpoint' = "none"
      /\ stage' = "collect" /\ paths' = <<>> /\ parsed' = 0 /\ plan' = NoLists
      /\ skipped' = <<>> /\ considered' = 0 /\ exit' = ExitPass /\ situation' = situation
  BY <1>1 DEF ListFixtures, Exits
<1>3. command = "fixtures" /\ r.exit \in ExitPass..ExitInternalError
  BY <1>1 DEF ListFixtures, ExitPass, ExitInternalError
<1>4. FixturesConcluded(situation, r)
  <2>1. Lists(situation, r.listed)
    BY <1>1, ListingLists DEF CommandInv, ListFixtures
  <2>2. situation.directory # "broken" /\ LoadsAll(situation) /\ ValidSet(situation)
    BY DEF CommandInv, PlanInv, LoadsAll, ListFixtures
  <2> QED
    BY <1>1, <2>1, <2>2 DEF FixturesConcluded
<1> QED
  BY <1>2, <1>3, <1>4, ExitKeeps DEF CommandNames

\* A command on its way to the plan.
LEMMA GoingOn ==
  ASSUME CommandInv,
         ConfigureOffline \/ ConfigureCheck \/ NoEndpointNeeded \/ ChooseEndpointAndProbe
  PROVE  CommandInv'
<1>1. /\ UNCHANGED <<situation, command, outcome, stage, paths, parsed, plan, skipped, considered,
                     exit>>
      /\ command \in CommandNames
  BY DEF ConfigureOffline, ConfigureCheck, NoEndpointNeeded, ChooseEndpointAndProbe, Configures,
         Goes, planner, CommandNames
<1>2. PlanInv'
  BY <1>1 DEF CommandInv, PlanInv
<1>3. CASE ConfigureOffline \/ ConfigureCheck
  <2>1. /\ step = "configure" /\ endpoint' = endpoint /\ step' \in {"endpoint", "plan"}
        /\ (step' = "endpoint") <=> (command = "check")
        /\ command # "fixtures" => ~Refused(situation)
    BY <1>3 DEF ConfigureOffline, ConfigureCheck, Configures, Goes, Refused, ReadsConfig
  <2> QED
    BY <1>1, <1>2, <2>1 DEF CommandInv, CommandNames
<1>4. CASE NoEndpointNeeded \/ ChooseEndpointAndProbe
  <2>1. step = "endpoint" /\ command = "check" /\ step' = "plan" /\ endpoint = "none"
    BY <1>4 DEF NoEndpointNeeded, ChooseEndpointAndProbe, Goes, CommandInv
  <2>2. /\ endpoint' \in {"none", "given", "default"} /\ EndpointChosen(situation, endpoint')
    <3>1. CASE NoEndpointNeeded
      BY <2>1, <3>1 DEF NoEndpointNeeded, LiveChecksNeeded, EndpointChosen
    <3>2. CASE ChooseEndpointAndProbe
      BY <2>1, <3>2, SituationsAssumption
         DEF ChooseEndpointAndProbe, LiveChecksNeeded, WithDefaultUrl, EndpointChosen
    <3> QED
      BY <1>4, <3>1, <3>2
  <2> QED
    BY <1>1, <1>2, <2>1, <2>2 DEF CommandInv, CommandNames
<1> QED
  BY <1>3, <1>4

\* Planning is one command's own affair.
LEMMA PlanningSteps ==
  ASSUME CommandInv, LoadAndValidate \/ BuildPlan
  PROVE  CommandInv'
<1>1. /\ step = "plan" /\ UNCHANGED <<situation, command, step, endpoint, outcome>>
      /\ PlanInv /\ situation \in Situations
  BY DEF LoadAndValidate, BuildPlan, Plans, CommandInv
<1>2. PlanInv'
  <2>1. CASE LoadAndValidate
    BY <1>1, <2>1, CollectKeeps, LoadKeeps, FailKeeps DEF LoadAndValidate
  <2>2. CASE BuildPlan
    BY <1>1, <2>2, BuildKeeps, LoadKeeps, FailKeeps DEF BuildPlan
  <2> QED
    BY <2>1, <2>2
<1>3. command = "fixtures" => stage' # "ready"
  <2>1. CASE LoadAndValidate
    BY <2>1, <1>1
       DEF CommandInv, LoadAndValidate, Planner!NoDirectory, Planner!Collect,
           Planner!ReadDirFails, Planner!SortPaths, Planner!ParseFile, Planner!ParseFails,
           Planner!ParsingDone, Planner!Validate, Planner!ValidateFails, Planner!Fail
  <2>2. CASE BuildPlan
    BY <2>2 DEF BuildPlan
  <2> QED
    BY <2>1, <2>2
<1> QED
  BY <1>1, <1>2, <1>3 DEF CommandInv

LEMMA CommandStep ==
  ASSUME CommandInv, [Next]_vars
  PROVE  CommandInv'
<1>1. CASE UNCHANGED vars
  BY <1>1 DEF vars, planner, CommandInv, PlanInv
<1>2. CASE NoWorkingDirectory \/ ConfigurationIsRefused \/ EndpointIsMissing
  BY <1>2, RefusedCommands
<1>3. CASE PlanningFails \/ PlanIsReady
  BY <1>3, PlannedCommands
<1>4. CASE ListFixtures
  BY <1>4, ListedCommand
<1>5. CASE ConfigureOffline \/ ConfigureCheck \/ NoEndpointNeeded \/ ChooseEndpointAndProbe
  BY <1>5, GoingOn
<1>6. CASE LoadAndValidate \/ BuildPlan
  BY <1>6, PlanningSteps
<1> QED
  BY <1>1, <1>2, <1>3, <1>4, <1>5, <1>6 DEF Next, AllHaveRun

\* Every reachable state satisfies the invariant.
THEOREM CommandsInvariant == Spec => []CommandInv
<1>1. Init => CommandInv
  BY CommandInit
<1>2. CommandInv /\ [Next]_vars => CommandInv'
  BY CommandStep
<1> QED
  BY <1>1, <1>2, PTL DEF Spec

-----------------------------------------------------------------------------
(* What a planner that is done hands on.                                    *)

\* An increasing sequence of file ranks is no longer than there are files.
LEMMA PlacesAreFiles ==
  ASSUME NEW q \in Seq(1..NumFiles), Increasing(q), NEW k \in DOMAIN q
  PROVE  k \in 1..NumFiles
<1>1. /\ Len(q) \in Nat /\ DOMAIN q = 1..Len(q) /\ NumFiles \in Nat
      /\ \A i \in DOMAIN q : q[i] \in 1..NumFiles
  BY FilesType
<1> DEFINE T == {i \in DOMAIN q : q[i] < i}
<1>2. ASSUME T # {} PROVE FALSE
  <2>1. T \in SUBSET Nat
    BY <1>1
  <2>2. \E i \in T : \A y \in T : i <= y
    BY <1>2, <2>1, LeastElement
  <2>3. PICK i \in T : \A y \in T : i <= y
    BY <2>2
  <2>4. i \in Nat /\ 1 <= i /\ i <= Len(q) /\ q[i] < i /\ q[i] \in Nat /\ q[i] >= 1
    BY <1>1
  <2>5. PICK j \in DOMAIN q : j = i - 1
    BY <1>1, <2>4
  <2>6. j \in Nat /\ j < i /\ j \notin T
    BY <1>1, <2>3, <2>4, <2>5
  <2>7. ~(q[j] < j) /\ q[j] < q[i]
    BY <2>6 DEF Increasing
  <2>8. q[j] \in Nat
    BY <1>1
  <2> QED
    BY <2>4, <2>5, <2>6, <2>7, <2>8
<1>3. ~(q[k] < k) /\ q[k] \in 1..NumFiles /\ k \in Nat /\ k >= 1
  BY <1>1, <1>2
<1> QED
  BY <1>1, <1>3

PlacesOf(pl, p) ==
  {place \in Surfaces \X (1..NumFiles) :
     place[2] \in DOMAIN pl[place[1]] /\ pl[place[1]][place[2]] = p}

PassedOf(sk, p) == {k \in DOMAIN sk : sk[k].file = p}

\* A file the planner has been through is in one place.
LEMMA AccountedOnce ==
  ASSUME NEW s, NEW n \in Nat, NEW pl, NEW sk, Considered(s, n, pl, sk), NEW p \in 1..n,
         s.content[p].surface \in Surfaces
  PROVE  /\ Cardinality(PlacesOf(pl, p)) + Cardinality(PassedOf(sk, p)) = 1
         /\ PlacesOf(pl, p) # {} => Skips(s, p) = {}
         /\ \A place \in PlacesOf(pl, p) : place[1] = s.content[p].surface
<1>1. /\ pl \in [Surfaces -> Seq(1..NumFiles)]
      /\ \A t \in Surfaces : Increasing(pl[t])
      /\ \A t \in Surfaces : \A k \in DOMAIN pl[t] :
           Skips(s, pl[t][k]) = {} /\ s.content[pl[t][k]].surface = t
  BY DEF Considered, PlanOfFirst
<1>2. /\ \A j, k \in DOMAIN sk : j < k => sk[j].file < sk[k].file
      /\ \A k \in DOMAIN sk : sk[k].reason \in Skips(s, sk[k].file)
      /\ SkippedOfFirst(s, n, sk)
  BY DEF Considered, SkippedOfFirst
<1>3. \A place \in PlacesOf(pl, p) : place[1] = s.content[p].surface /\ Skips(s, p) = {}
  BY <1>1 DEF PlacesOf
<1>4. \A k \in PassedOf(sk, p) : Skips(s, p) # {}
  BY <1>2 DEF PassedOf
<1>5. Cardinality({}) = 0
  BY FS_EmptySet
<1>6. CASE Skips(s, p) = {}
  <2>1. PICK t \in Surfaces : t = s.content[p].surface
    OBVIOUS
  <2>2. PICK k \in DOMAIN pl[t] : pl[t][k] = p
    BY <1>6, <2>1 DEF Considered, PlanOfFirst
  <2>3. pl[t] \in Seq(1..NumFiles) /\ Increasing(pl[t])
    BY <1>1
  <2>4. k \in 1..NumFiles
    BY <2>3, PlacesAreFiles
  <2>5. <<t, k>> \in PlacesOf(pl, p)
    BY <2>2, <2>4 DEF PlacesOf
  <2>6. ASSUME NEW place \in PlacesOf(pl, p) PROVE place = <<t, k>>
    <3>1. place = <<place[1], place[2]>> /\ place[1] = t /\ place[2] \in DOMAIN pl[t]
          /\ pl[t][place[2]] = p
      BY <1>3, <2>1 DEF PlacesOf
    <3>2. PICK j \in DOMAIN pl[t] : j = place[2]
      BY <3>1
    <3>3. j \in Nat /\ k \in Nat
      BY <2>3
    <3>4. ~(j < k) /\ ~(k < j)
      <4>1. ~(p < p)
        BY <2>2, <2>3, FilesType
      <4> QED
        BY <2>2, <2>3, <3>1, <3>2, <4>1 DEF Increasing
    <3> QED
      BY <3>1, <3>2, <3>3, <3>4
  <2>7. PlacesOf(pl, p) = {<<t, k>>}
    BY <2>5, <2>6
  <2>8. PassedOf(sk, p) = {}
    BY <1>4, <1>6
  <2>9. Cardinality(PlacesOf(pl, p)) = 1
    BY <2>7, FS_Singleton
  <2>10. Cardinality(PassedOf(sk, p)) = 0
    BY <1>5, <2>8
  <2> QED
    BY <1>3, <2>9, <2>10
<1>7. CASE Skips(s, p) # {}
  <2>1. PICK k \in DOMAIN sk : sk[k].file = p
    BY <1>2, <1>7 DEF SkippedOfFirst
  <2>2. DOMAIN sk \subseteq Nat
    <3>1. DOMAIN sk = 1..Len(sk) /\ Len(sk) \in Nat
      BY <1>2, FilesOfType
    <3> QED
      BY <3>1
  <2>3. ASSUME NEW j \in PassedOf(sk, p) PROVE j = k
    <3>1. j \in DOMAIN sk /\ sk[j].file = p /\ ~(p < p)
      BY DEF PassedOf
    <3>2. ~(j < k) /\ ~(k < j)
      BY <1>2, <2>1, <3>1
    <3> QED
      BY <2>1, <2>2, <3>1, <3>2
  <2>4. PassedOf(sk, p) = {k}
    BY <2>1, <2>3 DEF PassedOf
  <2>5. PlacesOf(pl, p) = {}
    BY <1>3, <1>7
  <2>6. Cardinality(PassedOf(sk, p)) = 1
    BY <2>4, FS_Singleton
  <2>7. Cardinality(PlacesOf(pl, p)) = 0
    BY <1>5, <2>5
  <2> QED
    BY <1>3, <2>6, <2>7
<1> QED
  BY <1>6, <1>7

-----------------------------------------------------------------------------
(* The theorems.                                                            *)

\* The settings a situation gives are settings a planner takes: a protocol and
\* at least one surface among them.
LEMMA SettingsType ==
  ASSUME NEW s \in Situations
  PROVE  SettingsOf(s) \in Planner!Settings
<1>1. /\ s.config \in Config /\ s.root \in Root /\ s.flag \subseteq Nat
      /\ \A p, q \in s.flag : p = q
  BY SituationsAssumption
<1>2. /\ s.config.protocol \in Nat /\ s.config.off \subseteq Surfaces
      /\ s.config.explicit \in ProjectTypes \cup {"auto"}
  BY <1>1 DEF Config
<1>3. /\ ConfigOf(s).protocol \in Nat \ {0}
      /\ ConfigOf(s).off \subseteq Surfaces /\ ConfigOf(s).off # Surfaces
      /\ ConfigOf(s).explicit \in ProjectTypes \cup {"auto"}
  <2>1. CASE s.config.text = "ok" /\ Loads(s)
    BY <1>2, <2>1 DEF ConfigOf, Loads
  <2>2. CASE ~(s.config.text = "ok" /\ Loads(s))
    <3>1. ConfigOf(s) = DefaultConfig
      BY <2>2 DEF ConfigOf
    <3>2. /\ DefaultConfig.protocol = 28 /\ DefaultConfig.off = {}
          /\ DefaultConfig.explicit = "auto"
      BY DEF DefaultConfig
    <3> QED
      BY <3>1, <3>2 DEF Surfaces
  <2> QED
    BY <2>1, <2>2
<1>4. Target(s) \in Nat \ {0}
  <2>1. CASE s.flag \in {{}, {0}}
    BY <1>3, <2>1 DEF Target
  <2>2. CASE s.flag \notin {{}, {0}}
    <3>1. PICK q \in s.flag : TRUE
      BY <2>2
    <3>2. s.flag = {q}
      BY <1>1, <3>1
    <3>3. (CHOOSE p \in s.flag : TRUE) = q
      BY <3>2
    <3>4. q # 0
      BY <2>2, <3>2
    <3> QED
      BY <1>1, <2>2, <3>1, <3>3, <3>4 DEF Target
  <2> QED
    BY <2>1, <2>2
<1>5. SignalsOf(s.root) \in Signals
  <2>1. ReadCargoManifest(s.root) \subseteq DependencyGroups
    BY DEF ReadCargoManifest
  <2>2. s.root.stellarToml \in BOOLEAN
    BY <1>1 DEF Root
  <2>3. FindWasmArtifact(s.root.artifacts) \in BOOLEAN
    BY DEF FindWasmArtifact
  <2> QED
    BY <2>1, <2>2, <2>3 DEF SignalsOf, Signals
<1>6. Surfaces \ ConfigOf(s).off \in (SUBSET Surfaces) \ {{}}
  BY <1>3
<1>7. SettingsOf(s) \in
        [target : Nat \ {0}, enabled : (SUBSET Surfaces) \ {{}}, signals : Signals,
         explicit : ProjectTypes \cup {"auto"}]
  BY <1>3, <1>4, <1>5, <1>6 DEF SettingsOf
<1> QED
  BY <1>7, Zenon
     DEF Planner!Settings, Planner!Surfaces, Surfaces, Planner!Signals, Signals,
         Planner!DependencyGroups, DependencyGroups, Planner!ProjectTypes, ProjectTypes

\* Type correctness of the commands and of the planner of whichever runs.
THEOREM TypeCorrect == Spec => []TypeOK
<1>1. ASSUME CommandInv PROVE TypeOK
  <2>1. situation \in Situations /\ PlanInv
    BY <1>1 DEF CommandInv
  <2>2. Planner!TypeOK
    <3>1. PlannerSettings \in Planner!Settings
      BY <2>1, SettingsType DEF PlannerSettings
    <3>2. /\ plan \in [Surfaces -> Seq(1..NumFiles)]
          /\ skipped \in Seq([file : 1..NumFiles, reason : SkipReasonNames])
      BY <2>1 DEF PlanInv, Considered, PlanOfFirst, SkippedOfFirst
    <3>3. /\ paths \in Seq(1..NumFiles) /\ parsed \in 0..Len(paths)
          /\ considered \in 0..Len(paths)
          /\ stage \in {"collect", "parse", "validate", "plan", "ready", "failed"}
          /\ exit \in {ExitPass, ExitExecutionError, ExitInvalidFixture}
      BY <2>1 DEF PlanInv
    <3>4. /\ situation.directory \in {"missing", "readable", "broken"}
          /\ situation.content \in [1..NumFiles -> Contents]
      BY <2>1, SituationType
    <3> QED
      BY <3>1, <3>2, <3>3, <3>4, Zenon
         DEF Planner!TypeOK, Planner!Files, Planner!Surfaces, Surfaces, Planner!Reasons,
             SkipReasonNames, Planner!ExitPass, ExitPass, Planner!ExitExecutionError,
             ExitExecutionError, Planner!ExitInvalidFixture, ExitInvalidFixture
  <2>3. DOMAIN outcome = CommandNames
    BY <1>1 DEF CommandInv
  <2> QED
    BY <1>1, <2>2, <2>3 DEF CommandInv, TypeOK
<1> QED
  BY <1>1, CommandsInvariant, PTL

\* Every file of the directory is on its own surface's list once, or among the
\* skipped fixtures once, and no id is planned twice.
THEOREM AccountsForEveryFile == Spec => []PlanAccountsForEveryFile
<1>1. ASSUME CommandInv PROVE PlanAccountsForEveryFile
  <2> DEFINE planned(p) ==
        {place \in Planner!Surfaces \X (1..NumFiles) :
           place[2] \in DOMAIN plan[place[1]] /\ plan[place[1]][place[2]] = p}
      passed(p) == {k \in DOMAIN skipped : skipped[k].file = p}
  <2> SUFFICES ASSUME stage = "ready"
               PROVE  /\ \A p \in Planner!Present :
                           /\ Planner!Cardinality(planned(p)) + Planner!Cardinality(passed(p)) = 1
                           /\ \A place \in planned(p) :
                                place[1] = situation.content[p].surface
                      /\ \A p \in Planner!Files \ Planner!Present :
                           planned(p) = {} /\ passed(p) = {}
                      /\ \A p, q \in Planner!Present :
                           planned(p) # {} /\ planned(q) # {}
                             /\ situation.content[p].id = situation.content[q].id => p = q
    BY DEF PlanAccountsForEveryFile, Planner!PlanAccountsForEveryFile
  <2>1. PICK n \in Nat : n = NumPresent(situation)
    BY NumPresentType
  <2>2. /\ Considered(situation, n, plan, skipped) /\ ValidSet(situation)
        /\ situation \in Situations
    BY <1>1, <2>1 DEF CommandInv, PlanInv
  <2>3. Planner!Present = 1..n /\ n <= NumFiles
    BY <2>1, FilesType DEF Planner!Present, Planner!Files, NumPresent
  <2>4. \A p : planned(p) = PlacesOf(plan, p) /\ passed(p) = PassedOf(skipped, p)
    BY DEF PlacesOf, PassedOf, Planner!Surfaces, Surfaces
  <2> HIDE DEF planned, passed
  <2>5. ASSUME NEW p \in 1..n
        PROVE  /\ Planner!Cardinality(planned(p)) + Planner!Cardinality(passed(p)) = 1
               /\ \A place \in planned(p) : place[1] = situation.content[p].surface
    <3>1. situation.content[p].surface \in Surfaces
      BY <2>2, <2>3, FilesType, SituationType
    <3>2. /\ Cardinality(PlacesOf(plan, p)) + Cardinality(PassedOf(skipped, p)) = 1
          /\ \A place \in PlacesOf(plan, p) : place[1] = situation.content[p].surface
      <4>1. PICK s, pl, sk : s = situation /\ pl = plan /\ sk = skipped
        OBVIOUS
      <4>2. Considered(s, n, pl, sk) /\ s.content[p].surface \in Surfaces
        BY <2>2, <3>1, <4>1
      <4>3. /\ Cardinality(PlacesOf(pl, p)) + Cardinality(PassedOf(sk, p)) = 1
            /\ \A place \in PlacesOf(pl, p) : place[1] = s.content[p].surface
        BY <4>2, AccountedOnce
      <4> QED
        BY <4>1, <4>3
    <3> QED
      BY <2>4, <3>2, SameCardinality
  <2>6. ASSUME NEW p \in Planner!Files \ Planner!Present
        PROVE  planned(p) = {} /\ passed(p) = {}
    <3>1. p \notin 1..n
      BY <2>3
    <3>2. PlacesOf(plan, p) = {}
      BY <2>2, <3>1 DEF PlacesOf, Considered, PlanOfFirst
    <3>3. PassedOf(skipped, p) = {}
      BY <2>2, <3>1 DEF PassedOf, Considered, SkippedOfFirst
    <3> QED
      BY <2>4, <3>2, <3>3
  <2>7. \A p, q \in 1..n : situation.content[p].id = situation.content[q].id => p = q
    BY <2>1, <2>2 DEF ValidSet
  <2> QED
    BY <2>3, <2>5, <2>6, <2>7
<1> QED
  BY <1>1, CommandsInvariant, PTL

\* The plan and the skipped fixtures follow the order of the paths, whatever
\* order the directory was listed in.
THEOREM FollowsPathOrder == Spec => []PlanFollowsPathOrder
<1>1. ASSUME CommandInv PROVE PlanFollowsPathOrder
  <2>1. Considered(situation, considered, plan, skipped)
    BY <1>1 DEF CommandInv, PlanInv
  <2>2. \A s \in Surfaces : Increasing(plan[s])
    BY <2>1 DEF Considered, PlanOfFirst
  <2>3. \A j, k \in DOMAIN skipped : j < k => skipped[j].file < skipped[k].file
    BY <2>1 DEF Considered, SkippedOfFirst
  <2> QED
    BY <2>2, <2>3
       DEF PlanFollowsPathOrder, Planner!PlanFollowsPathOrder, Increasing, Planner!Surfaces, Surfaces
<1> QED
  BY <1>1, CommandsInvariant, PTL

\* A plan is handed on only when every file loaded, the set is valid and every
\* applicable body was readable; an execution error means exactly that the last of
\* these was not so, an invalid fixture that the directory, a file or the set was
\* at fault.
THEOREM AllOrNothing == Spec => []PlanIsAllOrNothing
<1>1. ASSUME CommandInv PROVE PlanIsAllOrNothing
  <2> DEFINE n == NumPresent(situation)
             fits == \A p \in 1..n : Fits(situation, p)
  <2>1. PlanInv /\ situation \in Situations
    BY <1>1 DEF CommandInv
  <2>2. n \in Nat /\ Planner!Present = 1..n
    BY FilesType DEF Planner!Present, Planner!Files, NumPresent
  <2>3. situation.directory # "readable" => n = 0
    BY DEF NumPresent
  <2>4. ASSUME stage = "ready"
        PROVE  LoadsAll(situation) /\ ValidSet(situation) /\ fits
    BY <2>1, <2>4 DEF PlanInv, LoadsAll, Considered
  <2>5. ASSUME stage = "plan"
        PROVE  LoadsAll(situation) /\ ValidSet(situation)
    BY <2>1, <2>5 DEF PlanInv, LoadsAll
  <2>6. ASSUME stage = "failed"
        PROVE  \/ /\ exit = ExitInvalidFixture
                  /\ \/ situation.directory = "broken"
                     \/ ~(LoadsAll(situation) /\ ValidSet(situation))
               \/ /\ exit = ExitExecutionError
                  /\ situation.directory = "readable"
                  /\ LoadsAll(situation) /\ ValidSet(situation) /\ ~fits
    <3>1. /\ Settled(situation, exit, plan, skipped)
          /\ exit \in {ExitExecutionError, ExitInvalidFixture}
      BY <2>1, <2>6 DEF PlanInv
    <3>2. CASE exit = ExitExecutionError
      <4>1. /\ LoadsAll(situation) /\ ValidSet(situation)
            /\ \E k \in 0..n : k < n /\ ~Fits(situation, k + 1)
        BY <3>1, <3>2 DEF Settled, ExitExecutionError, ExitInvalidFixture, ExitPass
      <4>2. PICK k \in 0..n : k < n /\ ~Fits(situation, k + 1)
        BY <4>1
      <4>3. k + 1 \in 1..n
        BY <2>2, <4>2
      <4>4. n # 0
        BY <2>2, <4>3
      <4> QED
        BY <2>3, <3>2, <4>1, <4>2, <4>3, <4>4
    <3>3. CASE exit = ExitInvalidFixture
      BY <3>1, <3>3 DEF Settled, ExitExecutionError, ExitInvalidFixture, ExitPass
    <3> QED
      BY <3>1, <3>2, <3>3
  <2>7. fits <=> \A p \in Planner!Present :
                   Planner!SkipReasons(p) = {} => situation.content[p].body = "ok"
    BY <2>2, SameSkips DEF Fits
  <2>8. LoadsAll(situation) <=> \A p \in Planner!Present : situation.content[p].text = "ok"
    BY <2>2 DEF LoadsAll
  <2>9. ValidSet(situation) <=>
          \A p, q \in Planner!Present :
            situation.content[p].refs = "ok"
              /\ (situation.content[p].id = situation.content[q].id => p = q)
    BY <2>2 DEF ValidSet
  <2> HIDE DEF fits, n
  <2> QED
    BY <2>4, <2>5, <2>6, <2>7, <2>8, <2>9
       DEF PlanIsAllOrNothing, Planner!PlanIsAllOrNothing, Planner!ExitExecutionError,
           ExitExecutionError, Planner!ExitInvalidFixture, ExitInvalidFixture
<1> QED
  BY <1>1, CommandsInvariant, PTL

\* Whatever check sends goes to the endpoint the user chose or to testnet's, and
\* a command that ends with a configuration error has sent nothing.
THEOREM ChosenEndpoint == Spec => []RequestsGoToAChosenEndpoint
<1>1. ASSUME CommandInv PROVE RequestsGoToAChosenEndpoint
  <2> SUFFICES ASSUME command \in {"fixtures", "none"}
               PROVE  LET check == outcome["check"] IN
                      /\ check.endpoint = "default" => situation.network = "testnet" /\ ~situation.url
                      /\ check.plan["rpc"] # <<>> \/ check.plan["soroban"] # <<>>
                           => check.endpoint # "none"
                      /\ check.exit = ExitConfigurationError => check.endpoint = "none"
    BY DEF RequestsGoToAChosenEndpoint
  <2>1. PICK s, o : s = situation /\ o = outcome["check"]
    OBVIOUS
  <2>2. Concluded(s, "check", o)
    BY <1>1, <2>1 DEF CommandInv
  <2>3. CASE \/ o = Outcome("configure", RefusalCode(s), "none", NoLists, <<>>)
             \/ o = Outcome("endpoint", ExitConfigurationError, "none", NoLists, <<>>)
    <3>1. o.endpoint = "none" /\ o.plan["rpc"] = <<>> /\ o.plan["soroban"] = <<>>
      BY <2>3 DEF Outcome, NoLists, Surfaces
    <3> QED
      BY <2>1, <3>1
  <2>4. CASE \E e, end, pl, sk :
               /\ Settled(s, e, pl, sk) /\ o = Outcome("plan", e, end, pl, sk)
               /\ EndpointChosen(s, end)
    <3>1. PICK e, end, pl, sk :
            /\ Settled(s, e, pl, sk) /\ o = Outcome("plan", e, end, pl, sk)
            /\ EndpointChosen(s, end)
      BY <2>4
    <3>2. o.exit = e /\ o.endpoint = end /\ o.plan = pl
      BY <3>1 DEF Outcome
    <3>3. e # ExitConfigurationError
      BY <3>1, SettledCodes
         DEF ExitConfigurationError, ExitPass, ExitExecutionError, ExitInvalidFixture
    <3>4. ASSUME NEW t \in {"rpc", "soroban"}, pl[t] # <<>>
          PROVE  end # "none"
      <4>1. pl = NoLists \/ \E n \in 0..NumPresent(s) : PlanOfFirst(s, n, pl)
        BY <3>1 DEF Settled, Considered
      <4>2. t \in Surfaces
        BY DEF Surfaces
      <4>3. PICK n : PlanOfFirst(s, n, pl)
        BY <3>4, <4>1, <4>2 DEF NoLists
      <4>4. pl[t] \in Seq(1..NumFiles)
        BY <4>2, <4>3 DEF PlanOfFirst
      <4>5. 1 \in DOMAIN pl[t]
        BY <3>4, <4>4
      <4>6. PICK p : p = pl[t][1]
        OBVIOUS
      <4>7. Skips(s, p) = {} /\ s.content[p].surface = t
        BY <4>2, <4>3, <4>5, <4>6 DEF PlanOfFirst
      <4>8. t \in Surfaces \ ConfigOf(s).off
        BY <4>7 DEF Skips
      <4> QED
        BY <3>1, <4>8 DEF EndpointChosen
    <3>5. end = "default" => s.network = "testnet" /\ ~s.url
      BY <3>1 DEF EndpointChosen
    <3> QED
      BY <2>1, <3>2, <3>3, <3>4, <3>5
  <2> QED
    BY <2>2, <2>3, <2>4 DEF Concluded
<1> QED
  BY <1>1, CommandsInvariant, PTL

\* inspect and check of one situation come to the same, unless check lacks an
\* endpoint: the situation settles what planning hands on (SettledOnce), whatever
\* order each of them lists the directory in.
THEOREM InspectForesees == Spec => []InspectForeseesCheck
<1>1. ASSUME CommandInv PROVE InspectForeseesCheck
  <2> SUFFICES ASSUME command = "none", outcome["check"].reached # "endpoint"
               PROVE  [outcome["inspect"] EXCEPT !.endpoint = outcome["check"].endpoint]
                        = outcome["check"]
    BY DEF InspectForeseesCheck
  <2>1. PICK s, i, o : s = situation /\ i = outcome["inspect"] /\ o = outcome["check"]
    OBVIOUS
  <2>2. Concluded(s, "inspect", i) /\ Concluded(s, "check", o) /\ o.reached # "endpoint"
    BY <1>1, <2>1 DEF CommandInv
  <2>3. CASE Refused(s)
    <3>1. /\ i = Outcome("configure", RefusalCode(s), "none", NoLists, <<>>)
          /\ o = Outcome("configure", RefusalCode(s), "none", NoLists, <<>>)
      BY <2>2, <2>3 DEF Concluded
    <3> QED
      BY <2>1, <3>1 DEF Outcome
  <2>4. CASE ~Refused(s)
    <3>1. PICK e1, end1, p1, k1 :
            Settled(s, e1, p1, k1) /\ i = Outcome("plan", e1, end1, p1, k1)
      BY <2>2, <2>4 DEF Concluded
    <3>2. ~(o = Outcome("endpoint", ExitConfigurationError, "none", NoLists, <<>>))
      BY <2>2 DEF Outcome
    <3>3. PICK e2, end2, p2, k2 :
            Settled(s, e2, p2, k2) /\ o = Outcome("plan", e2, end2, p2, k2)
      BY <2>2, <2>4, <3>2 DEF Concluded
    <3>4. e1 = e2 /\ p1 = p2 /\ k1 = k2
      BY <3>1, <3>3, SettledOnce
    <3> QED
      BY <2>1, <3>1, <3>3, <3>4 DEF Outcome
  <2> QED
    BY <2>3, <2>4
<1> QED
  BY <1>1, CommandsInvariant, PTL

\* Of one surface, the target protocol's files are those planned and those
\* skipped for a reason other than the protocol.
LEMMA ListingIsPlanAndSkipped ==
  ASSUME NEW s, NEW n, n = NumPresent(s), NEW pl, NEW sk, Considered(s, n, pl, sk),
         NEW t \in Surfaces, NEW p
  PROVE  p \in 1..n /\ s.content[p].protocol = Target(s) /\ s.content[p].surface = t
           <=> \/ \E k \in DOMAIN pl[t] : pl[t][k] = p
               \/ \E k \in DOMAIN sk : /\ sk[k].file = p /\ sk[k].reason # "protocol"
                                       /\ s.content[p].surface = t
<1>1. PlanOfFirst(s, n, pl) /\ SkippedOfFirst(s, n, sk)
  BY DEF Considered
<1>2. ASSUME p \in 1..n, s.content[p].protocol = Target(s), s.content[p].surface = t
      PROVE  \/ \E k \in DOMAIN pl[t] : pl[t][k] = p
             \/ \E k \in DOMAIN sk : /\ sk[k].file = p /\ sk[k].reason # "protocol"
                                     /\ s.content[p].surface = t
  <2>1. CASE Skips(s, p) = {}
    <3>1. \E k \in DOMAIN pl[s.content[p].surface] : pl[s.content[p].surface][k] = p
      BY <1>1, <1>2, <2>1 DEF PlanOfFirst
    <3> QED
      BY <1>2, <3>1
  <2>2. CASE Skips(s, p) # {}
    <3>1. PICK k \in DOMAIN sk : sk[k].file = p
      BY <1>1, <1>2, <2>2 DEF SkippedOfFirst
    <3>2. sk[k].reason \in Skips(s, p)
      BY <1>1, <3>1 DEF SkippedOfFirst
    <3>3. "protocol" \notin Skips(s, p)
      BY <1>2 DEF Skips
    <3> QED
      BY <1>2, <3>1, <3>2, <3>3
  <2> QED
    BY <2>1, <2>2
<1>3. ASSUME NEW k \in DOMAIN pl[t], pl[t][k] = p
      PROVE  p \in 1..n /\ s.content[p].protocol = Target(s) /\ s.content[p].surface = t
  <2>1. p \in 1..n /\ Skips(s, p) = {} /\ s.content[p].surface = t
    BY <1>1, <1>3 DEF PlanOfFirst
  <2> QED
    BY <2>1 DEF Skips
<1>4. ASSUME NEW k \in DOMAIN sk, sk[k].file = p, sk[k].reason # "protocol",
             s.content[p].surface = t
      PROVE  p \in 1..n /\ s.content[p].protocol = Target(s) /\ s.content[p].surface = t
  <2>1. p \in 1..n /\ sk[k].reason \in Skips(s, p)
    BY <1>1, <1>4 DEF SkippedOfFirst
  <2>2. s.content[p].protocol # Target(s) => Skips(s, p) = {"protocol"}
    BY DEF Skips
  <2> QED
    BY <1>4, <2>1, <2>2
<1> QED
  BY <1>2, <1>3, <1>4

\* In sequences that both grow, common elements come in one order.
LEMMA SameOrder ==
  ASSUME NEW q, NEW r, DOMAIN q \subseteq Nat, DOMAIN r \subseteq Nat,
         Increasing(q), Increasing(r), \A k \in DOMAIN r : r[k] \in Nat,
         NEW j \in DOMAIN q, NEW k \in DOMAIN q, NEW a \in DOMAIN r, NEW b \in DOMAIN r,
         q[j] = r[a], q[k] = r[b]
  PROVE  j < k <=> a < b
<1>1. /\ j \in Nat /\ k \in Nat /\ a \in Nat /\ b \in Nat /\ r[a] \in Nat /\ r[b] \in Nat
      /\ q[j] \in Nat /\ q[k] \in Nat
  OBVIOUS
<1>2. j < k => q[j] < q[k]
  BY DEF Increasing
<1>3. k < j => q[k] < q[j]
  BY DEF Increasing
<1>4. a < b => r[a] < r[b]
  BY DEF Increasing
<1>5. b < a => r[b] < r[a]
  BY DEF Increasing
<1>6. j = k => q[j] = q[k]
  OBVIOUS
<1>7. a = b => r[a] = r[b]
  OBVIOUS
<1> QED
  BY <1>1, <1>2, <1>3, <1>4, <1>5, <1>6, <1>7

\* An increasing sequence of numbers repeats none.
LEMMA IncreasingIsInjective ==
  ASSUME NEW q, DOMAIN q \subseteq Nat, Increasing(q), Range(q) \subseteq Nat
  PROVE  IsInjective(q)
<1> SUFFICES ASSUME NEW j \in DOMAIN q, NEW k \in DOMAIN q, q[j] = q[k] PROVE j = k
  BY DEF IsInjective
<1>1. j \in Nat /\ k \in Nat /\ q[j] \in Nat
  BY DEF Range
<1>2. ~(j < k) /\ ~(k < j)
  BY <1>1 DEF Increasing
<1> QED
  BY <1>1, <1>2

\* ListingCoversPlan of one surface, of an outcome of check and one of fixtures.
CoversSurface(s, o, f, t) ==
  LET skippedOf == {k \in DOMAIN o.skipped :
                      /\ o.skipped[k].reason # "protocol"
                      /\ s.content[o.skipped[k].file].surface = t}
  IN /\ Range(f.listed[t]) = Range(o.plan[t]) \cup {o.skipped[k].file : k \in skippedOf}
     /\ IsInjective(f.listed[t])
     /\ \A j, k \in DOMAIN f.listed[t] : \A a, b \in DOMAIN o.plan[t] :
          f.listed[t][j] = o.plan[t][a] /\ f.listed[t][k] = o.plan[t][b] => (j < k <=> a < b)

LEMMA ListingOutcome ==
  ASSUME NEW s, NEW o, NEW f, Concluded(s, "check", o), FixturesConcluded(s, f)
  PROVE  /\ o.reached = "plan" /\ o.exit = ExitPass => \A t \in Surfaces : CoversSurface(s, o, f, t)
         /\ o.reached = "plan" /\ o.exit = ExitInvalidFixture => f.exit = ExitInvalidFixture
<1>1. ASSUME o.reached = "plan"
      PROVE  ~Refused(s) /\ Settled(s, o.exit, o.plan, o.skipped)
  BY <1>1 DEF Concluded, Outcome
<1>2. ASSUME o.reached = "plan", o.exit = ExitPass
      PROVE  /\ Lists(s, f.listed)
             /\ \E n : n = NumPresent(s) /\ Considered(s, n, o.plan, o.skipped)
  <2>1. ~Refused(s) /\ Settled(s, ExitPass, o.plan, o.skipped)
    BY <1>1, <1>2
  <2>2. ASSUME NEW pl, NEW sk, f.exit # ExitPass, Settled(s, f.exit, pl, sk)
        PROVE  FALSE
    BY <2>1, <2>2, SettledOnce
  <2>3. Lists(s, f.listed)
    BY <2>1, <2>2 DEF FixturesConcluded
  <2>4. \E n : n = NumPresent(s) /\ Considered(s, n, o.plan, o.skipped)
    BY <2>1 DEF Settled, ExitPass, ExitInvalidFixture, ExitExecutionError
  <2> QED
    BY <2>3, <2>4
<1>3. ASSUME o.reached = "plan", o.exit = ExitInvalidFixture
      PROVE  f.exit = ExitInvalidFixture
  <2>1. ~Refused(s) /\ Settled(s, ExitInvalidFixture, o.plan, o.skipped)
    BY <1>1, <1>3
  <2>2. s.directory = "broken" \/ ~LoadsAll(s) \/ ~ValidSet(s)
    BY <2>1 DEF Settled, ExitPass, ExitInvalidFixture, ExitExecutionError
  <2>3. PICK pl, sk : Settled(s, f.exit, pl, sk)
    BY <2>1, <2>2 DEF FixturesConcluded
  <2> QED
    BY <2>1, <2>3, SettledOnce
<1>4. ASSUME o.reached = "plan", o.exit = ExitPass, NEW t \in Surfaces
      PROVE  CoversSurface(s, o, f, t)
  <2>1. PICK n : n = NumPresent(s) /\ Considered(s, n, o.plan, o.skipped)
    BY <1>2, <1>4
  <2>2. PICK q, r, pl, sk : /\ q = f.listed[t] /\ r = pl[t] /\ pl = o.plan /\ sk = o.skipped
    OBVIOUS
  <2>3. /\ Increasing(q) /\ DOMAIN q \subseteq Nat
        /\ Range(q) = {p \in 1..n : s.content[p].protocol = Target(s) /\ s.content[p].surface = t}
    BY <1>2, <1>4, <2>1, <2>2 DEF Lists
  <2>4. /\ Increasing(r) /\ DOMAIN r \subseteq Nat /\ \A k \in DOMAIN r : r[k] \in Nat
    <3>1. r \in Seq(1..NumFiles) /\ Increasing(r)
      BY <2>1, <2>2 DEF Considered, PlanOfFirst
    <3>2. r \in Seq(Nat)
      BY <3>1, NumbersAreNat
    <3> QED
      BY <3>1, <3>2
  <2> DEFINE skippedOf == {k \in DOMAIN sk : /\ sk[k].reason # "protocol"
                                            /\ s.content[sk[k].file].surface = t}
  <2>5. ASSUME NEW p
        PROVE  p \in Range(q) <=> p \in Range(r) \cup {sk[k].file : k \in skippedOf}
    <3>1. p \in Range(q) <=>
            p \in 1..n /\ s.content[p].protocol = Target(s) /\ s.content[p].surface = t
      BY <2>3
    <3>2. p \in Range(r) <=> \E k \in DOMAIN pl[t] : pl[t][k] = p
      BY <2>2 DEF Range
    <3>3. p \in {sk[k].file : k \in skippedOf} <=>
            \E k \in DOMAIN sk : /\ sk[k].file = p /\ sk[k].reason # "protocol"
                                 /\ s.content[p].surface = t
      OBVIOUS
    <3>4. p \in 1..n /\ s.content[p].protocol = Target(s) /\ s.content[p].surface = t
            <=> \/ \E k \in DOMAIN pl[t] : pl[t][k] = p
                \/ \E k \in DOMAIN sk : /\ sk[k].file = p /\ sk[k].reason # "protocol"
                                        /\ s.content[p].surface = t
      BY <2>1, <2>2, ListingIsPlanAndSkipped
    <3> QED
      BY <3>1, <3>2, <3>3, <3>4
  <2>6. Range(q) = Range(r) \cup {sk[k].file : k \in skippedOf}
    BY <2>5
  <2>7. IsInjective(q)
    <3>1. Range(q) \subseteq Nat
      <4>1. n \in Nat
        BY <2>1, NumPresentType
      <4> QED
        BY <2>3, <4>1
    <3> QED
      BY <2>3, <3>1, IncreasingIsInjective
  <2>8. \A j, k \in DOMAIN q : \A a, b \in DOMAIN r :
          q[j] = r[a] /\ q[k] = r[b] => (j < k <=> a < b)
    BY <2>3, <2>4, SameOrder
  <2> QED
    BY <2>2, <2>6, <2>7, <2>8 DEF CoversSurface
<1> QED
  BY <1>3, <1>4

\* What fixtures lists of each surface is what check would run of it and what it
\* would skip for a reason other than the protocol, in one order, and loading
\* that stops check stops it too.
THEOREM ListingCovers == Spec => []ListingCoversPlan
<1>1. ASSUME CommandInv, command = "none"
      PROVE  ListingCoversPlan
  <2>1. /\ Concluded(situation, "check", outcome["check"])
        /\ FixturesConcluded(situation, outcome["fixtures"])
    BY <1>1 DEF CommandInv
  <2> QED
    BY <2>1, ListingOutcome DEF ListingCoversPlan, CoversSurface
<1>2. CommandInv => ListingCoversPlan
  BY <1>1 DEF ListingCoversPlan
<1> QED
  BY <1>2, CommandsInvariant, PTL
=============================================================================
