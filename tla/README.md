# A formal model of Protocol Canary

Protocol Canary (`stellar-canary`) is a command line tool, a Rust workspace of
eleven crates. `check` loads TOML fixtures from a directory, plans the ones that
apply to a project and a target protocol, runs them against the XDR codec and a
Stellar RPC endpoint, and turns the results into a report and an exit code.
`report` reads such a report back and shows it again.

This directory holds TLA+ modules that model that program, TLC configurations that
check them on small instances, and theorems about them checked by TLAPS. All line
numbers refer to the sources under `src/`; crate names stand for `src/crates/<name>`.

1. [Inventory](#1-inventory)
2. [Modules and how they map to the code](#2-modules-and-how-they-map-to-the-code)
3. [Runs, bounds and fairness](#3-runs-bounds-and-fairness)
4. [What is proved](#4-what-is-proved)
5. [Where code and documents disagree](#5-where-code-and-documents-disagree)
6. [What is not modelled, and the plan](#6-what-is-not-modelled-and-the-plan)

## 1. Inventory

| Component | State it keeps | Operations | What is hard | What makes it correct |
|---|---|---|---|---|
| **Plan execution** `canary-runner/execution.rs` | position in the plan, calls in flight, indexed results, the cache directory | `execute`, `run_xdr`, `run_rpc`, `run_soroban`, `cache_key` | up to *n* calls at once, finishing in any order; cache hits among them; stores that fail | one result per fixture, in plan order, independent of the schedule; bounded concurrency; it ends |
| **Result cache** `canary-core/cache.rs` | one JSON file per key under `.stellar-canary-cache` | `get`, `put`, `clear`, `file_path` | written without locks by several processes; key components sanitized into a path; errors must not be stored | whatever overlaps or dies, a hit is a result once stored under its own key, or nothing, and never an error |
| **Check command** `canary-cli/commands.rs` | context, observed protocol, fixtures, plan, git metadata | probe, load, validate, plan, git, execute, report | each step reads the world at another time; the probe's failure is swallowed | the key under which a result is stored describes what it was made from |
| **RPC client** `canary-rpc/client.rs` | attempt counter, back-off | `call`, `try_call`, `classify_send_error` | time-outs, rate limits, broken bodies, retries | the first definite reply is returned; no request beyond the budget; it ends |
| **Runners** `canary-xdr`, `canary-rpc`, `canary-soroban` | none | `from_loaded`, `run`/`evaluate`, envelope building, `json_of` | many kinds of body and answer; a re-serialized response | a verdict rests on evidence, an error on the lack of it; kinds of assertion never contradict each other |
| **Fixture loading** `canary-fixtures` | collected paths, parsed fixtures | `load_directory`, `parse_file`, `validate` | unordered directory listings; one bad file among many | path order; all or nothing |
| **Planner** `canary-runner/scheduler.rs` | the plan and the skipped list | `build_plan` | three reasons to skip, body errors of applicable fixtures only | every fixture planned or skipped, once |
| **Project detection** `canary-project` | none | `detect`, `classify`, `resolve_project_type` | explicit type against detected capabilities; a bounded search for artifacts | the type is what the capabilities say; the search finds what lies near |
| **Policy and exit codes** `canary-core/policy.rs`, `errors.rs` | none | `evaluate`, `exit_code_for_run`, `exit_code` | an execution error is no compatibility failure | error over failure over warning, everywhere |
| **Reports** `canary-report`, `report` command | a report file | `render` (JSON, terminal, Markdown), `parse` | the decision is not stored; three renderers count on their own | the verdict survives reading back; all views agree |
| **Git metadata** `canary-git` | none (the work tree) | `commit`, `branch`, `is_dirty` | a failed `git status` is taken for a clean tree | the fingerprint separates fixture contents |
| **Configuration** `canary-config` | none | `load`, `load_from_root`, validation, defaults | a file that was named against one that was found; each command asks for it in its own order | only valid settings are handed on |
| **Command line, network names** `canary-cli/cli.rs`, `network.rs`, `main.rs` | none | argument parsing, dispatch, default endpoints | — | nothing is sent to an endpoint nobody chose |
| **`inspect`, `fixtures`** `canary-cli/commands.rs` | none | configure, load, plan or filter, print | code repeated from `check` in another order; a filter of its own next to the planner's | `inspect` foresees `check`; `fixtures` lists what `check` runs or skips |

How the parts interact: `check` builds a project context, probes the network once
(`getNetwork`), loads and validates the fixtures, builds the plan, asks git for the
commit, and hands everything to `execute`. `execute` polls one stream of futures
per network surface; each future looks in the cache, calls the surface's runner
(which calls the RPC client) and stores the result. The results go through the
policy to the exit code and to a reporter. There are no threads that share memory
between fixtures: interleaving happens at the `await` of a network call within one
process, and at every file operation between processes.

The hazards of this code, each at its line and with the properties that watch it,
are listed in `PROJECT.json` under `hazards`.

## 2. Modules and how they map to the code

`PROJECT.json` maps every definition to the lines it models. In outline:

| Module | Models | State | Actions |
|---|---|---|---|
| `Outcomes` | `model.rs`, `policy.rs`, `errors.rs`, `aggregation.rs`: statuses, decision, exit codes, counts | — | pure operators |
| `Project` | `canary-project`: the tables searched, the artifact search, capabilities and project type | — | pure operators, one recursive function (`ShallowScan`) |
| `Execution` | one call of `execute` with the cache it uses | the verdict each fixture would get, cache before and now, surface, stream position, calls in flight, collected and final results | `XdrFromCache`, `XdrRun`, `AnswerFromCache`, `FailToBuild`, `SendCall`, `FinishCall`, `EndSurface` |
| `OneAnswerEach` | what a run comes to, seen from outside; implemented by `Execution` | fixtures answered, what was handed over | `Answer`, `HandOver` |
| `RunCalls` | `Execution` with one `RpcClient` behind every fixture in flight | those of `Execution`; per fixture the variables of its client | `RunAlone`, `StartCall`, `RetryLater`, `RequestAgain`, `EndCall` |
| `ExecutionPair` | two executions of one plan from one cache (two instances of `Execution`) | both states | steps of the first, then of the second |
| `RpcClient` | one JSON-RPC call | program counter, attempt, delay so far, log of replies, outcome | `SendRequest`, `BackOff`, `Return` |
| `ResultCache` | what the cache promises; implemented by `CacheStore` | entries, keys somebody works on, results offered, last answers | `Offer`, `Change`, `Touch`, `Look` |
| `CacheStore` | the cache as files under several processes | directory, files, and per process its next system call, put, handle, files to remove | `Get`; `PutBegins`, `MakeDirectory`, `CreateFile`, `WriteFile`, `WriteBreaksOff`, `PutFails`; `ClearBegins`, `Unlink`, `RemoveDirectory`; `Crash` |
| `Planning` | `load_directory`, `validate`, `build_plan` | the directory, file contents, settings, stage, collected paths, plan, skipped | one action per step and per way it fails |
| `Commands` | `inspect`, `check` up to the execution of its plan, and `fixtures`, around one `Planning` each | situation (configuration, flags, project, files), command, step, endpoint, outcomes | `ConfigureOffline`, `ConfigureCheck`, `ConfigurationIsRefused`, `NoWorkingDirectory`; `NoEndpointNeeded`, `ChooseEndpointAndProbe`, `EndpointIsMissing`; `LoadAndValidate`, `BuildPlan`, `PlanningFails`, `PlanIsReady`, `ListFixtures` |
| `Runners` | one fixture of any surface, from its body to its result | body, codec, stage, answer, status | `ReadBody`, `RunXdr`, `BuildFails`, `SendCall`, `CallFails`, `RpcAnswered`, `SimulationAnswered` |
| `Report` | a report file, the `check` that writes it, and `report` | file, its origin, last command, its input and exit code | `CheckCompletes`, `CheckEndsEarly`, `ReportShown`, `ReportAsJson` |
| `CheckRuns` | several runs of `check` in one project, and the world around them | protocol, tree, commits, HEAD, fixture directories elsewhere, cache; per run its stage and what it read | the world: `Upgrade`, `Edit`, `Commit`, `Checkout`, `UpdateElsewhere`, `LoseEntry`; a run: `Start`, `Probe`, `ProbeFails`, `LoadFixtures`, `CollectGit`, `Hit`, `Miss`, `Answered`, `CallFails`, `Report`, `EndsEarly` |

`MC*` modules hold the instances; `MCRunCalls` also has TLC compare `InIndexOrder` with
a sort by index, and `MCCommands` the artifact search with what it should find.
`*Proofs` modules hold the theorems. Definitions introduced by a comment "Variant:" are
not part of the model: each is a form the definition after it could plausibly have
taken by mistake, and shows that a named property would notice.

How the modules compose: `RunCalls` is `Execution` and its `RpcClient`s in one step
relation, and is shown to implement both (`RunsAsExecution`, `EachCallIsAClient`);
`Execution` implements `OneAnswerEach`; `Commands` instantiates `Planning` once per
command; `CacheStore` implements `ResultCache`, whose entries may vanish at any moment
while somebody works on them: that is the cache `Execution` (a failing store) and
`CheckRuns` (`LoseEntry`) are written against.

Abstractions worth knowing before reading:

* **Steps.** In `Execution` what one fixture does between two awaits is one step,
  because one task polls the stream (`buffer_unordered`). A fixture's result is
  drawn in `Init`, since a fixture runs at most once per execution and its result
  depends on the network, not on the other fixtures.
* **Cache entries.** `Execution` identifies an entry by its file name, since the
  other components of the key are the same all run long; `CheckRuns` identifies it
  by fixture, fingerprint and observed protocol, and remembers *what the result was
  made from*: the fixture contents loaded and the protocol the network ran at the
  moment of the answer. Hits and misses are steps of their own; an entry may be lost at any
  moment, as `clear` and broken writes do.
* **Fixture directories.** Each run of `CheckRuns` has a `--fixtures-dir` of its own
  choice. Contents are a directory and a version of it: the directories of `Tracked` lie
  in the project's work tree and change with it (`Edit`, `Commit`, `Checkout`), those of
  `Elsewhere`, a checkout beside the project or a directory git ignores, change by
  themselves (`UpdateElsewhere`) and never show in `git status`. Different directories
  are taken to differ in content.
* **Files.** In `CacheStore` each system call of `put`, `get` and `clear` is a step
  (reading a file is one). A file is known by its length, the results it has bytes of and
  the result it parses as: a broken write over another result leaves a document or none.
  That the operating system keeps a directory with files in it, and forgets what is
  written to an unlinked file, is modelled; its own crashes are not.
* **Commands.** The three commands run one after the other in one situation; as none
  writes what another reads, this compares them and loses no interleaving. `check` stops
  where its plan is ready.
* **Projects.** `Cargo.toml` is the groups of dependency names per table; artifacts are
  the directories on their way from the root.
* **Replies.** `RpcClient` enumerates what one HTTP exchange can come to (send
  result × status × body × `error` field × `result` field) in place of bytes. Time is
  counted in units of `base_delay`.
* **Data.** Base64 texts, XDR values, error messages and JSON scalars are model
  values; `stellar-xdr` is an arbitrary partial decoding and an arbitrary encoding.
  TOML parsing is "parses or does not".

## 3. Runs, bounds and fairness

| Run | Expected | Question and answer |
|---|---|---|
| `execution` | pass | Five fixtures on three surfaces, a window of one (configured as zero) or two, every set of earlier entries, failing stores. Results are those of the plan order and do not depend on the schedule (`ResultsAreDeterministic`); no more calls than the window (`CallsAreBounded`); none lost or collected twice (`NoFixtureLostOrDoubled`); what the next run finds is the result this one reports, or nothing, and never an error (`NextRunRepeatsOrRetries`); hits are not rewritten (`HitsAreLeftAlone`); and seen from outside every fixture is answered once and the answers are handed over once (`AnswersEachFixtureOnce`). |
| `run_calls` | pass | The same with the retry loops of all calls: the whole is a run of `Execution` under the fairness that module assumes (`RunsAsExecution`), every call is a client (`EachCallIsAClient`), open requests stay within the window, the requests of each fixture within its attempts, and a fixture that needs no call sends none (`ServerLoadIsBounded`), each error in the report is of the fixture's own call (`ReportTellsOwnCall`), and `execute` returns (`RunCompletes`). |
| `execution_pair` | violation | Two ids that sanitize to one file name: the list depends on the schedule (`SameResultsOnEverySchedule`). |
| `rpc_client` | pass | Every mix of replies with `max_attempts` zero, one or three: budget and linear back-off (`AttemptsAndDelaysAreBounded`), the first definite reply is returned with the number of requests sent (`ReturnsFirstDefiniteReply`), and the call returns (`CallReturns`). |
| `commands` | pass | Three files of eight kinds in every listing order, and every configuration and flag: plans are complete (`PlanAccountsForEveryFile`), ordered (`PlanFollowsPathOrder`), all or nothing, with exit code 4 for the directory, a file or the set and 3 for a body (`PlanIsAllOrNothing`); `inspect` foresees `check` (`InspectForeseesCheck`); `fixtures` lists what `check` runs or skips for another reason than the protocol, each once and in the order `check` has (`ListingCoversPlan`); nothing is sent without an endpoint, and only testnet's is the tool's own choice (`RequestsGoToAChosenEndpoint`). |
| `runners` | pass | XDR kinds never contradict each other (`XdrKindsAreCoherent`); a verdict rests on the fields its fixture mentions, as the server sent them where they are declared and not null, and no change of another field moves it (`MentionedFieldsDecide`); the two simulation expectations are opposites (`SimulationKindsAreCoherent`); an error means exactly missing evidence (`ErrorsAreMissingEvidence`). |
| `runners_typed` | violation | Assertions are not checked against the response the server gave (`AssertionsSeeTheResponse`). |
| `report` | pass | The verdict survives any number of readings (`ReportKeepsVerdict`); printing again is idempotent (`PrintingAgainChangesNothing`); all views agree with the exit code and each other (`ViewsAgree`). |
| `check_runs` | pass | Two overlapping runs, a network upgrade, failing probes, lost entries, and fixtures that are edited, committed, checked out and updated under the runs: a run whose probe was answered reports no hit older than the network it began on (`ProbedHitsAreNotFromAnOlderNetwork`); entries under the current protocol were made by it (`EntriesMatchTheirProtocol`); in a clean tree a hit is of the version loaded, if it was made from the same directory of the work tree and both runs were given the fingerprint of their fixtures (`CleanHitsMatchFixtures`). |
| `runs_unknown` | violation | With a failed probe the first of these does not hold (`HitsAreNotFromAnOlderNetwork`). |
| `runs_checkout` | violation | With fixtures kept outside the project a hit need not be of the fixtures loaded, although the project is clean and nothing changes under a run (`HitsMatchFixtures`). |
| `cache_store` | pass | Three processes on one key, each system call a step, with crashes, full disks and `clear`: the files keep the promise of `ResultCache` (`FilesKeepThePromise`), and a put nobody disturbs is read back (`UndisturbedPutsAreReadBack`). |

**Bounds.** Every bound is a CONSTANT given in a `.cfg` or an `MC` module.

* `Execution`: three RPC fixtures and a window of two are the least with which a
  later call can overtake an earlier one *and* the stream refill; XDR and Soroban
  have one fixture each, which is enough for hits, misses, unbuildable invocations
  and the transitions between surfaces. The proofs remove the bound.
* `RunCalls`: three RPC fixtures fill a window of two while a third waits, one Soroban
  fixture follows; two attempts give a call that is retried and one that gives up; the
  three replies are a value, a definite error and a transient one. Proved for all, but
  for `RunCompletes` and the fairness in `RunsAsExecution`.
* `RpcClient`: three attempts is the default policy, and has a first, a middle and a
  last one; zero and one are the edges. Proved for all.
* `Commands`: three files admit a duplicate pair next to a third file, and every
  order of three. The situations are all contents under the usual settings, all sound
  contents under four settings, and all configurations and flags over one set of files;
  full products of the three would not say more, since configuration and flags reach
  the planner only through `SettingsOf`. Proved for all files, contents and situations.
* `CacheStore`: one key, since files of different keys meet only in the directory, which
  `clear` and `MakeDirectory` cover with one; three processes are two writers and one that
  clears. A failure is longer than a pass, so either can stick out behind the other.
  Processes are symmetric. Proved for all keys and processes.
* `Report`: up to three results over all statuses and two surfaces: every pair of
  statuses on one surface, and every triple over two. Proved for all lists.
* `CheckRuns`: two runs are needed for a hit, and what a third would store in between
  a lost entry and the second run's own answers stand for; one upgrade separates "older"
  from "current"; one edit and two commits give a clean state, a dirty one, and a return
  to the first; one directory in the work tree and one elsewhere, updated at most once,
  share a key. Runs are symmetric. Deadlock is not checked, since all runs end and the
  bounds stop the world. Proved for all.
* `Runners`: the two values and two texts that tell equal from different; JSON over
  two strings, a `u32`, a number no `u32` holds, a bool and null; at most two
  assertions per fixture. Proved for all bodies, codecs and JSON values.

**What `CleanHitsMatchFixtures` says, and what it cannot.** A clean fingerprint stands
for the fixtures of its commit under four conditions, which are part of the property.

* The run's fixtures lie in the project's work tree. `commands.rs:105` loads whatever
  `--fixtures-dir` names (`cli.rs:60`), by the documents a checkout of its own
  (`README.md:132-135`, `docs/architecture.md:57` and `69-71`), while git is asked about
  the project only. For such a directory nothing is guaranteed (`runs_checkout`).
* The cached result was made from the same directory: its path is no part of the key.
* The fixtures were still the ones loaded when git was asked: they are read at
  `commands.rs:105-110`, git at `commands.rs:119`.
* `git status` answered: `repository.rs:80` takes a failed one for a clean tree.

The last two are what a run is `sure` of (a history variable): a result of another
version is reported only if the run itself, or one whose fixtures and fingerprint it
shares, was not. `check_runs` has both happen (`EditsDuringRuns`, `StatusMayFail`), and
all other edits, commits, checkouts and updates under a run as well, which do no harm.
With both switches off every run on the work tree is sure (`StableTreeHits`). They are
off in the two violation runs, so that these show one cause each.

**Fairness.** Weak fairness on the program's own steps: a Tokio task that can make
progress is polled. Weak fairness on *replies* (`ReplyArrives`) is an
assumption about the world: `reqwest::Client::new()` (`client.rs:109`) sets no
time-out, so a server that accepts a connection and never answers holds a run for
ever. `CallReturns` and `RunCompletes` say that this is the *only* way to hang. The fairness
of `Execution` (that calls return, `FinishCall`) is no assumption of its own: the run
`run_calls` derives it from that of the requests (`RunsAsExecution`), because every call
gives up after its last attempt. Deadlock is not checked in `rpc_client` and
`run_calls`, whose liveness properties subsume it.

## 4. What is proved

For every plan, window, policy, list of results, number of runs and bound, from the
assumptions each module names (`ASSUME`), all checked by TLAPS:

| Theorem | States | Extra assumption |
|---|---|---|
| `ExecutionProofs!TypeCorrect`, `BoundedCalls`, `NothingLostOrDoubled` | `TypeOK`, `CallsAreBounded`, `NoFixtureLostOrDoubled` | — |
| `ExecutionProofs!Determinism` | `ResultsAreDeterministic` | `StemsAreDistinct` |
| `ExecutionProofs!HitsUntouched` | `HitsAreLeftAlone` | — |
| `ExecutionProofs!RepeatOrRetry` | `NextRunRepeatsOrRetries` | `StemsAreDistinct` |
| `ExecutionProofs!AnswersOnce` | `AnswersEachFixtureOnce` | `StemsAreDistinct` |
| `RunCallsProofs!RunIsExecution` | `Execution`'s `Spec`, the safety half of `RunsAsExecution` | — |
| `RunCallsProofs!CallsAreClients`, `BoundedLoad` | `EachCallIsAClient`, `ServerLoadIsBounded` | — |
| `RunCallsProofs!TellsOwnCall` | `ReportTellsOwnCall` | `StemsAreDistinct` |
| `RunCallsProofs!RetriesAnswerOnce` | `AnswersEachFixtureOnce` and `ResultsAreDeterministic` of the run with its calls | `StemsAreDistinct` |
| `CommandsProofs!TypeCorrect` | `TypeOK` | — |
| `CommandsProofs!AccountsForEveryFile`, `FollowsPathOrder`, `AllOrNothing` | `PlanAccountsForEveryFile`, `PlanFollowsPathOrder`, `PlanIsAllOrNothing` | — |
| `CommandsProofs!ChosenEndpoint`, `InspectForesees`, `ListingCovers` | `RequestsGoToAChosenEndpoint`, `InspectForeseesCheck`, `ListingCoversPlan` | — |
| `RunnersProofs!TypeCorrect`, `ErrorsMeanNoEvidence` | `TypeOK`, `ErrorsAreMissingEvidence` | — |
| `RunnersProofs!XdrKindsAgree`, `MentionedFieldsAlone`, `SimulationKindsAgree` | `XdrKindsAreCoherent`, `MentionedFieldsDecide`, `SimulationKindsAreCoherent` | — |
| `CacheStoreProofs!TypeCorrect` | `TypeOK` | — |
| `CacheStoreProofs!FilesImplementPromise`, `UndisturbedPuts` | `FilesKeepThePromise`, `UndisturbedPutsAreReadBack` | — |
| `RpcClientProofs!TypeCorrect`, `BoundedAttempts`, `FirstDefiniteReply` | `TypeOK`, `AttemptsAndDelaysAreBounded`, `ReturnsFirstDefiniteReply` | — |
| `ReportProofs!TypeCorrect`, `VerdictSurvives`, `PrintingIsIdempotent`, `ViewsTellOneStory` | `TypeOK`, `ReportKeepsVerdict`, `PrintingAgainChangesNothing`, `ViewsAgree` | — |
| `CheckRunsProofs!TypeCorrect`, `ProbedHitsAreRecent`, `EntriesMatch` | `TypeOK`, `ProbedHitsAreNotFromAnOlderNetwork`, `EntriesMatchTheirProtocol` | — |
| `CheckRunsProofs!CleanHits` | `CleanHitsMatchFixtures` | — |
| `CheckRunsProofs!StableTreeHits` | `CleanHitsMatchFixtures` without its exception | `TreeIsStable` |

* **Execution.** `UniqueIdsAssumption` is what `validate` ensures before a plan is
  built. `StemsAreDistinct` is *not* ensured by the code; the run `execution_pair`
  shows what happens without it. The type invariant is strengthened with the
  bookkeeping of slots (what is in flight, what is collected and what the stream has
  yielded partition `1..next`), which is what makes the reordering by index
  well-defined. Determinism then needs, of the cache, that a stem holds its old entry,
  or nothing, or what its only fixture yields in this run; and, of the collected
  results, that each is what its index is due.
* **OneAnswerEach.** The mapping takes a fixture for answered when it is taken off its
  stream and not in flight, a finished surface for answered altogether. Taking a fixture
  that need not wait, and the return of a call, are `Answer`; `SendCall` and the end of
  the first two surfaces are stutters; the last end is `HandOver`, whose list is the one
  determinism gives. Safety only: the fairness is checked in `run_calls`.
* **RunCalls.** That a step of the whole is a step of `Execution` or leaves it alone needs
  no invariant, so everything proved of a run holds of the run with its calls
  (`RetriesAnswerOnce`). The calls need one: a fixture not yet taken has begun no call,
  one in flight awaits a reply or sleeps, any other has returned or needed none, and a
  returned call ended in an error exactly when its fixture did. So the calls are as many
  as the fixtures in flight, and that each is a client is decided step by step.
  `ReportTellsOwnCall` adds that a fixture which is taken and has sent nothing never
  will. `RunAssumptions` and `ClientAssumptions` ask of the constants what `Execution`
  and `RpcClient` ask.
* **Commands.** The argument is that a situation *settles* what planning hands on
  (`Settled`): either nothing and an invalid fixture, or the plan and skipped list of the
  first *n* files in path order and what ended it there. `PlanInv` says that after *n*
  files the planner has just that (`Considered`), whatever order the directory was listed
  in, since sorting *n* distinct ranks gives `1..n`; two such plans are the same, since
  increasing sequences with the same elements are (`SettledOnce`). The outcome of each
  command is then one its situation settles (`Concluded`, `FixturesConcluded`), and
  `inspect`, `check` and `fixtures` can be compared although each lists the directory for
  itself. The shape of `Situations` (`SituationsAssumption`) is what the TOML schema and
  the flags admit.
* **Runners.** Until a fixture is done it has no answer, and then its status is what the
  runner makes of body, codec and answer (`Verdict`); the coherence of the kinds follows
  by cases, for codecs that need not invert each other. For `MentionedFieldsDecide` the
  assertions read no field but those they mention (`MentionedAgree`), and changing another
  one leaves these, and for an undeclared one the typing, as they were
  (`OneFieldChanged`). `BodiesAssumption` only says
  which bodies there are.
* **CacheStore.** A process has a put in hand exactly at the points of `put`, and what it
  puts was offered; only what may be stored is offered; the results a file has bytes of,
  and the one it parses as, were offered for its key; an open handle that is not "gone"
  is of a file that exists; and a file opened by its only writer is empty until written.
  Each step then is a step of `ResultCache` that changes at most the one entry its
  process works on.
* **RpcClient.** The invariant relates the log's length to the attempt counter at each
  program point and says that all replies but the last were transient; the closed
  form of the back-off follows from it.
* **Report.** The invariant says that a file with a check's origin is the rendering
  of an input with that check's exit code and status; that reading recovers exit code
  and status although the decision is lost when the status is "error"; and that a
  document the tool printed is a fixed point of reading and rendering. For the views
  it says further that what a check with exit code 0 wrote holds neither failures nor
  errors; that the counts agree is shown on the cardinalities of the sets of results by
  status, without induction over the list.
* **CheckRuns.** For the network: observed protocols lie between the protocol at the
  start of the run and the present one, entries between their key's and the present
  one. For the fixtures: a run that is sure of a clean fingerprint
  has loaded the version its commit holds, and an entry under a clean key, made from a
  directory of the work tree, is of that version or of an unsure run with the same
  fingerprint; what was made elsewhere is left open. Commits only grow and a run that has
  asked git keeps what it knows, so both stay true. `StableTreeHits` adds that between
  load and git the tree stays what was loaded.

Only model-checked: what needs fairness and `ENABLED`, which are outside the prover's
reach, namely that calls and runs return (`CallReturns`, `RunCompletes`) and the fairness
in `RunsAsExecution`, whose safety half is `RunIsExecution`; and what is induction over
data: the depth of the artifact search (`ShallowScan`) and that `InIndexOrder` is a sort,
which the `MC` modules compare with reference definitions.

## 5. Where code and documents disagree

Shown by a run (`findings` in `PROJECT.json` quotes both sides):

1. Two fixture ids that differ only in sanitized characters share a cache file, so
   results depend on the schedule, against `execution.rs:6-8` (`execution_pair`).
2. A failed probe makes all protocols share the key "unknown", against
   `cache.rs:16` (`runs_unknown`).
3. Fixtures kept in a checkout of their own are neither in the cache key nor in what git
   reports, so after an update of them the old results come back, against `cache.rs:3-5`
   (`runs_checkout`).
4. Assertions are checked against a re-serialized response, in which undeclared
   fields are always absent, against `canary-rpc/src/runner.rs:1-2` (`runners_typed`).

Of the same kind as the third, without a run of their own:

* All uncommitted states of a commit share one key, against `cache.rs:3-5`. Where git
  does not ignore `.stellar-canary-cache` every tree is dirty once the directory exists.
  With `Tracked = {"fixtures"}`, `Elsewhere = {}` and `MaxEdits = 2` TLC shows
  `HitsMatchFixtures` violated this way.
* Fixtures are read before git is asked, so a commit or checkout in between stores
  results under another version's clean key, against `cache.rs:16`; and a failed
  `git status` counts as a clean tree, against `metadata.rs:7-8`. With either of
  `EditsDuringRuns` and `StatusMayFail` on, the conclusion of `CleanHitsMatchFixtures`
  needs its exception.

Seen in reading:

* `[project].type` does not grant capabilities: `commands.rs:58` replaces the type and
  leaves the detected capabilities, which the planner tests (`HasCapabilities`), against
  `docs/fixture-contract.md:64-67`.
* `docs/architecture.md:294` says the cache is not wired into `check`; `execution.rs:73`
  uses it (`AnswerFromCache`).
* `docs/architecture.md:235-236` says no retry logic exists; `client.rs:137` retries
  (`BackOff`).
* `docs/json-report-contract.md:22` says JSON is printed whatever the exit code; a
  check that ends early prints none (`CheckEndsEarly`).
* `docs-site/src/how-it-works.md:13-16` gives exit code 4 for a fixture that does not
  conform to its schema; a body its surface refuses gives 3 (`BodyIsInvalid`).

## 6. What is not modelled, and the plan

Not modelled, and why:

* *TOML and command line parsing, passphrases, wording and layout of reports*:
  sequential conversions without state; unit tests reach them. `[policy]` is an input of
  `Report`.
* *The contents of a transaction envelope and of XDR*: external library.
* *The tool's version*: it is not part of the cache key, so results of an older
  version are reported after an upgrade of the tool; `CheckRuns` follows one version.
* *`--quiet`, `--verbose`, `version`*: they decide nothing but what is printed.

The modules were written in the order in which a wrong answer would hurt: execution,
RPC client, planning and reports, runs over time, runners; then the cache's files and their
promise, the run seen from outside, the run with its calls, and the commands. What follows:

1. **`CheckRuns`** with the tool's version, and with entries as `ResultCache` has them, so
   that `CacheStore`, `ResultCache` and `CheckRuns` compose.
2. **Composition in proofs**: `RetriesAnswerOnce` carried through `Commands`, from a
   situation to the list of results.
