------------------------------- MODULE CheckRuns -------------------------------
(***************************************************************************)
(* Runs of `check` in one working tree, one after the other or at the same *)
(* time, sharing the tree's result cache while the world moves on: the     *)
(* network upgrades its protocol, fixtures are edited, commits made and    *)
(* checked out, and fixtures kept elsewhere replaced without git's notice. *)
(* A result is known by what it was made from: the fixture contents the    *)
(* run had loaded and the protocol the network ran when it answered.  The  *)
(* target protocol and the endpoint are the same throughout.               *)
(***************************************************************************)
EXTENDS Naturals, Sequences

CONSTANTS
  Runs,            \* the runs of the check command
  Fixtures,        \* the network fixtures each of them plans
  Tracked,         \* what --fixtures-dir may name in the project's work tree
  Elsewhere,       \* and outside of it, or where git ignores it
  MaxProtocol,     \* bound on the network's protocol
  MaxEdits,        \* bound on the edits of the work tree
  MaxUpdates,      \* bound on the updates of each directory elsewhere
  MaxCommits,      \* bound on the commits
  InGit,           \* whether the project is a git work tree
  CacheIgnored,    \* whether git ignores the cache directory in it
  ProbesMayFail,   \* whether getNetwork can fail before the fixtures run
  StatusMayFail,   \* whether `git status` can fail where `git rev-parse` did not
  EditsDuringRuns  \* whether the tree may change under a run

ASSUME BoundsAssumption ==
  /\ MaxProtocol \in Nat \ {0} /\ MaxCommits \in Nat \ {0}
  /\ MaxEdits \in Nat /\ MaxUpdates \in Nat

ASSUME SwitchesAssumption ==
  {InGit, CacheIgnored, ProbesMayFail, StatusMayFail, EditsDuringRuns} \subseteq BOOLEAN

Protocols == 1..MaxProtocol

\* CacheKey::observed_protocol is None when the probe failed.
Unknown == 0

\* cache_key's fingerprint: the commit, "-dirty" or not, or without a commit
\* the project's name (commit 0).
Fingerprint == [commit : 0..MaxCommits, dirty : BOOLEAN]

ByName == [commit |-> 0, dirty |-> FALSE]

\* What a stored key tells apart here.
Key == [fixture : Fixtures, print : Fingerprint, observed : Protocols \cup {Unknown}]

NoContent == [directory |-> "none", version |-> 0]

\* The fixtures a run has loaded: a directory in one of its versions, or nothing
\* yet.
Content ==
  [directory : Tracked \cup Elsewhere, version : 0..MaxEdits \cup 0..MaxUpdates]
    \cup {NoContent}

\* What a result was made from.
Made == [content : Content, protocol : Protocols]

NoEntry == [content |-> NoContent, protocol |-> 0]

VARIABLES
  protocol,  \* the network's protocol now
  tree,      \* the version of the work tree now: the number of its last edit
  commits,   \* commits[c]: the version commit c holds
  head,      \* the commit checked out
  edits,     \* edits so far
  elsewhere, \* elsewhere[d]: the version of directory d, outside the work tree
  cache,     \* cache[k]: what the entry of key k was made from
  stage,     \* stage[r]: how far run r is
  begun,     \* begun[r]: the network's protocol when run r began (history)
  observed,  \* observed[r]: what its probe returned
  loaded,    \* loaded[r]: the fixtures it loaded
  print,     \* print[r]: its project fingerprint
  sure,      \* sure[r]: when git was asked, it answered, and the fixtures were
             \* still the ones loaded (history)
  calling,   \* calling[r]: its fixtures awaiting an answer
  reported   \* reported[r]: its results

world == <<protocol, tree, commits, head, edits, elsewhere>>
runs  == <<stage, begun, observed, loaded, print, sure, calling, reported>>
vars  == <<world, cache, runs>>

Stages == {"waiting", "started", "probed", "loaded", "executing", "ended"}

\* A result, and whether it came from the cache.
Reported == [fixture : Fixtures, hit : BOOLEAN, made : Made \cup {NoEntry}]

TypeOK ==
  /\ protocol \in Protocols
  /\ tree \in 0..MaxEdits /\ edits \in 0..MaxEdits
  /\ commits \in Seq(0..MaxEdits) /\ Len(commits) \in 1..MaxCommits
  /\ head \in 1..Len(commits)
  /\ elsewhere \in [Elsewhere -> 0..MaxUpdates]
  /\ cache \in [Key -> Made \cup {NoEntry}]
  /\ stage \in [Runs -> Stages]
  /\ begun \in [Runs -> Protocols]
  /\ observed \in [Runs -> Protocols \cup {Unknown}]
  /\ loaded \in [Runs -> Content]
  /\ print \in [Runs -> Fingerprint]
  /\ sure \in [Runs -> BOOLEAN]
  /\ calling \in [Runs -> SUBSET Fixtures]
  /\ reported \in [Runs -> SUBSET Reported]

Init ==
  /\ protocol = 1
  /\ tree = 0 /\ edits = 0
  /\ commits = <<0>> /\ head = 1
  /\ elsewhere = [d \in Elsewhere |-> 0]
  /\ cache = [k \in Key |-> NoEntry]
  /\ stage = [r \in Runs |-> "waiting"]
  /\ begun = [r \in Runs |-> 1]
  /\ observed = [r \in Runs |-> Unknown]
  /\ loaded = [r \in Runs |-> NoContent]
  /\ print = [r \in Runs |-> ByName]
  /\ sure = [r \in Runs |-> TRUE]
  /\ calling = [r \in Runs |-> {}]
  /\ reported = [r \in Runs |-> {}]

-----------------------------------------------------------------------------
(* The world.                                                              *)

\* A network only ever moves to a later protocol.
Upgrade ==
  /\ protocol < MaxProtocol
  /\ protocol' = protocol + 1
  /\ UNCHANGED <<tree, commits, head, edits, elsewhere, cache, runs>>

TreeMayChange ==
  EditsDuringRuns \/ \A r \in Runs : stage[r] \in {"waiting", "ended"}

Edit ==
  /\ TreeMayChange
  /\ edits < MaxEdits
  /\ edits' = edits + 1
  /\ tree' = edits + 1
  /\ UNCHANGED <<protocol, commits, head, elsewhere, cache, runs>>

Commit ==
  /\ TreeMayChange
  /\ Len(commits) < MaxCommits
  /\ tree # commits[head]
  /\ commits' = Append(commits, tree)
  /\ head' = Len(commits) + 1
  /\ UNCHANGED <<protocol, tree, edits, elsewhere, cache, runs>>

Checkout(c) ==
  /\ TreeMayChange
  /\ tree = commits[head]
  /\ c # head
  /\ head' = c
  /\ tree' = commits[c]
  /\ UNCHANGED <<protocol, commits, edits, elsewhere, cache, runs>>

\* Fixtures kept in a checkout of their own are pulled, or edited there.
UpdateElsewhere(d) ==
  /\ elsewhere[d] < MaxUpdates
  /\ elsewhere' = [elsewhere EXCEPT ![d] = @ + 1]
  /\ UNCHANGED <<protocol, tree, commits, head, edits, cache, runs>>

\* An entry is gone, by hand, by a put that failed half-way or by a damaged file
\* (modules CacheStore and ResultCache).
LoseEntry(k) ==
  /\ cache[k] # NoEntry
  /\ cache' = [cache EXCEPT ![k] = NoEntry]
  /\ UNCHANGED <<world, runs>>

-----------------------------------------------------------------------------
(* One run: run_check_inner.                                               *)

Advance(r, from, to) ==
  /\ stage[r] = from
  /\ stage' = [stage EXCEPT ![r] = to]

Start(r) ==
  /\ Advance(r, "waiting", "started")
  /\ begun' = [begun EXCEPT ![r] = protocol]
  /\ UNCHANGED <<world, cache, observed, loaded, print, sure, calling, reported>>

\* Variant: the key holds the protocol aimed at instead of the one observed.
ProbeOfTarget(r) ==
  /\ Advance(r, "started", "probed")
  /\ observed' = [observed EXCEPT ![r] = MaxProtocol]
  /\ UNCHANGED <<world, cache, begun, loaded, print, sure, calling, reported>>

\* get_network().await.ok(): the protocol the cache keys of the whole run hold.
Probe(r) ==
  /\ Advance(r, "started", "probed")
  /\ observed' = [observed EXCEPT ![r] = protocol]
  /\ UNCHANGED <<world, cache, begun, loaded, print, sure, calling, reported>>

ProbeFails(r) ==
  /\ ProbesMayFail
  /\ Advance(r, "started", "probed")
  /\ observed' = [observed EXCEPT ![r] = Unknown]
  /\ UNCHANGED <<world, cache, begun, loaded, print, sure, calling, reported>>

\* What the directory d holds now.
Found(d) ==
  [directory |-> d, version |-> IF d \in Tracked THEN tree ELSE elsewhere[d]]

\* Load, validate and plan (module Planning) the directory this run's
\* --fixtures-dir names, before git is asked.
LoadFixtures(r, d) ==
  /\ Advance(r, "probed", "loaded")
  /\ loaded' = [loaded EXCEPT ![r] = Found(d)]
  /\ UNCHANGED <<world, cache, begun, observed, print, sure, calling, reported>>

\* A configuration, fixture or body error: no results, nothing stored.
EndsEarly(r) ==
  /\ stage[r] \in {"started", "probed"}
  /\ stage' = [stage EXCEPT ![r] = "ended"]
  /\ UNCHANGED <<world, cache, begun, observed, loaded, print, sure, calling, reported>>

\* `git status` in the project's root reports an edited work tree, tracked
\* fixtures with it but none kept elsewhere, and the cache directory itself as
\* soon as it exists, unless it is ignored.
ReportedDirty ==
  tree # commits[head] \/ (~CacheIgnored /\ \E k \in Key : cache[k] # NoEntry)

\* Variant: uncommitted changes do not show in the fingerprint.
FingerprintByCommit(answered) ==
  IF InGit THEN [commit |-> head, dirty |-> FALSE] ELSE ByName

\* collect_git_context and cache_key, with a `git status` that answers or fails,
\* which is taken for a clean tree.
FingerprintNow(answered) ==
  IF InGit THEN [commit |-> head, dirty |-> answered /\ ReportedDirty] ELSE ByName

CollectGit(r) ==
  /\ Advance(r, "loaded", "executing")
  /\ \E answered \in {TRUE, ~StatusMayFail} :
       /\ print' = [print EXCEPT ![r] = FingerprintNow(answered)]
       /\ sure' = [sure EXCEPT ![r] = answered /\ loaded[r] = Found(loaded[r].directory)]
  /\ UNCHANGED <<world, cache, begun, observed, loaded, calling, reported>>

\* Variant: the protocol is left out of the key.
CacheKeyWithoutProtocol(r, f) ==
  [fixture |-> f, print |-> print[r], observed |-> Unknown]

CacheKey(r, f) == [fixture |-> f, print |-> print[r], observed |-> observed[r]]

ToRun(r, f) ==
  /\ stage[r] = "executing"
  /\ f \notin calling[r]
  /\ \A x \in reported[r] : x.fixture # f

Add(r, f, hit, made) ==
  reported' = [reported EXCEPT ![r] = @ \cup {[fixture |-> f, hit |-> hit, made |-> made]}]

Hit(r, f) ==
  /\ ToRun(r, f)
  /\ cache[CacheKey(r, f)] # NoEntry
  /\ Add(r, f, TRUE, cache[CacheKey(r, f)])
  /\ UNCHANGED <<world, cache, stage, begun, observed, loaded, print, sure, calling>>

Miss(r, f) ==
  /\ ToRun(r, f)
  /\ cache[CacheKey(r, f)] = NoEntry
  /\ calling' = [calling EXCEPT ![r] = @ \cup {f}]
  /\ UNCHANGED <<world, cache, stage, begun, observed, loaded, print, sure, reported>>

\* Variant: the stored entry is stamped with the probed protocol.
AnsweredAsProbed(r, f) ==
  /\ f \in calling[r]
  /\ LET made == [content |-> loaded[r], protocol |-> observed[r]] IN
       /\ Add(r, f, FALSE, made)
       /\ cache' = [cache EXCEPT ![CacheKey(r, f)] = made]
  /\ calling' = [calling EXCEPT ![r] = @ \ {f}]
  /\ UNCHANGED <<world, stage, begun, observed, loaded, print, sure>>

\* The network answers: the result is stored, under the key of this run.
Answered(r, f) ==
  /\ f \in calling[r]
  /\ LET made == [content |-> loaded[r], protocol |-> protocol] IN
       /\ Add(r, f, FALSE, made)
       /\ cache' = [cache EXCEPT ![CacheKey(r, f)] = made]
  /\ calling' = [calling EXCEPT ![r] = @ \ {f}]
  /\ UNCHANGED <<world, stage, begun, observed, loaded, print, sure>>

\* The call fails: an error result, which is not stored.
CallFails(r, f) ==
  /\ f \in calling[r]
  /\ Add(r, f, FALSE, NoEntry)
  /\ calling' = [calling EXCEPT ![r] = @ \ {f}]
  /\ UNCHANGED <<world, cache, stage, begun, observed, loaded, print, sure>>

Report(r) ==
  /\ Advance(r, "executing", "ended")
  /\ {x.fixture : x \in reported[r]} = Fixtures
  /\ UNCHANGED <<world, cache, begun, observed, loaded, print, sure, calling, reported>>

Run(r) ==
  \/ Start(r)
  \/ Probe(r)
  \/ ProbeFails(r)
  \/ \E d \in Tracked \cup Elsewhere : LoadFixtures(r, d)
  \/ EndsEarly(r)
  \/ CollectGit(r)
  \/ \E f \in Fixtures : Hit(r, f) \/ Miss(r, f) \/ Answered(r, f) \/ CallFails(r, f)
  \/ Report(r)

Next ==
  \/ Upgrade
  \/ Edit
  \/ Commit
  \/ \E c \in 1..Len(commits) : Checkout(c)
  \/ \E d \in Elsewhere : UpdateElsewhere(d)
  \/ \E k \in Key : LoseEntry(k)
  \/ \E r \in Runs : Run(r)

Spec == Init /\ [][Next]_vars

-----------------------------------------------------------------------------
(* Properties.                                                             *)

\* No run whose probe was answered reports a cached result of a protocol the
\* network had already left when the run began, even where other runs store
\* without having been answered and the network upgrades under all of them: the
\* cached answer is no older than one the run could have got itself
\* (commands.rs:75-80, execution.rs:152-165).
ProbedHitsAreNotFromAnOlderNetwork ==
  \A r \in Runs : \A x \in reported[r] :
    x.hit /\ observed[r] # Unknown => x.made.protocol >= begun[r]

\* cache.rs:16, of the key: "Everything that must match for a cached result to be
\* safe to reuse": the same of every run, probed or not.
HitsAreNotFromAnOlderNetwork ==
  \A r \in Runs : \A x \in reported[r] : x.hit => x.made.protocol >= begun[r]

\* An entry stored under a protocol the network still runs was made by that
\* protocol, whichever run stored it and however runs overlapped.
EntriesMatchTheirProtocol ==
  \A k \in Key :
    cache[k] # NoEntry /\ k.observed = protocol => cache[k].protocol = protocol

\* A commit stands for the fixtures it holds: of a directory in the work tree, a
\* run of a clean tree reports no cached result made from another version of that
\* directory, whatever dirty trees, other directories, overlapping runs and lost
\* entries came between (execution.rs:153-157), unless one of the two runs could
\* not be sure of its own fingerprint: the fixtures changed between their load and
\* git's answer (commands.rs:105-119), or `git status` failed (repository.rs:80).
\* No other edit, commit or checkout under a run can do it.  Neither the path nor
\* the contents of --fixtures-dir are part of the key, so nothing is said of a
\* result made from another directory, nor of directories git does not see.
CleanHitsMatchFixtures ==
  \A r \in Runs : \A x \in reported[r] :
    /\ x.hit /\ print[r].commit # 0 /\ ~print[r].dirty
    /\ loaded[r].directory \in Tracked /\ x.made.content.directory = loaded[r].directory
    => \/ x.made.content = loaded[r]
       \/ \E q \in Runs :
            ~sure[q] /\ print[q] = print[r] /\ loaded[q] \in {loaded[r], x.made.content}

\* cache.rs:3-5: a cache entry is "keyed by everything that can invalidate
\* reuse": a cached result is one of the fixtures this run loaded.
HitsMatchFixtures ==
  \A r \in Runs : \A x \in reported[r] : x.hit => x.made.content = loaded[r]
=============================================================================
