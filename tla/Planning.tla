------------------------------- MODULE Planning -------------------------------
(***************************************************************************)
(* From a directory of fixture files to a compatibility plan: load the     *)
(* files, validate them as a set, and plan or skip each fixture.  `check`  *)
(* and `inspect` take these steps in this order; the first error ends them.*)
(* A fixture file is known by the rank of its path: 1 sorts first.         *)
(***************************************************************************)
EXTENDS Outcomes, Functions, Project

CONSTANTS
  NumFiles,  \* how many *.toml files the fixture directory holds
  Contents   \* what such a file may hold

Files == 1..NumFiles

\* "text": whether the file reads and parses as a fixture's common metadata.
\* "body": whether its surface accepts the rest (XdrFixture::from_loaded and
\* its two siblings).  "refs": whether the files it names exist.
Content ==
  [text : {"ok", "unreadable", "malformed"}, id : STRING, protocol : Nat,
   surface : Surfaces, needs : SUBSET Capabilities, refs : {"ok", "dangling"},
   body : {"ok", "invalid"}]

\* Module Commands, which instantiates this one, assumes it.
FilesAssumption == NumFiles \in Nat /\ Contents \subseteq Content

\* Target protocol, [tests], detection signals and [project].type.  A protocol
\* of zero and a configuration with every surface off are refused before.
Settings ==
  [target : Nat \ {0}, enabled : (SUBSET Surfaces) \ {{}}, signals : Signals,
   explicit : ProjectTypes \cup {"auto"}]

VARIABLES
  directory, \* --fixtures-dir: "missing", "readable", or "broken", when it or
             \* an entry somewhere below it cannot be read
  content,   \* content[p]: what file p holds
  settings,  \* as the configuration and the flags give them
  stage,     \* "collect", "parse", "validate", "plan", "ready" or "failed"
  paths,     \* the paths collected so far
  parsed,    \* how many of them have been parsed
  plan,      \* plan[s]: the files planned on surface s, in order
  skipped,   \* the skipped ones, each with its reason
  considered,\* how many loaded fixtures the planner has been through
  exit       \* the exit code of a failure

vars == <<directory, content, settings, stage, paths, parsed, plan, skipped, considered, exit>>

Reasons == {"protocol", "disabled", "capability"}

TypeOK ==
  /\ directory \in {"missing", "readable", "broken"}
  /\ content \in [Files -> Contents]
  /\ settings \in Settings
  /\ stage \in {"collect", "parse", "validate", "plan", "ready", "failed"}
  /\ paths \in Seq(Files)
  /\ parsed \in 0..Len(paths)
  /\ plan \in [Surfaces -> Seq(Files)]
  /\ skipped \in Seq([file : Files, reason : Reasons])
  /\ considered \in 0..Len(paths)
  /\ exit \in {ExitPass, ExitExecutionError, ExitInvalidFixture}

Init ==
  /\ directory \in {"missing", "readable", "broken"}
  /\ content \in [Files -> Contents]
  /\ settings \in Settings
  /\ stage = "collect"
  /\ paths = <<>>
  /\ parsed = 0
  /\ plan = [s \in Surfaces |-> <<>>]
  /\ skipped = <<>>
  /\ considered = 0
  /\ exit = ExitPass

Fail(code) ==
  /\ stage' = "failed"
  /\ exit' = code
  /\ UNCHANGED <<directory, content, settings, paths, parsed, plan, skipped, considered>>

-----------------------------------------------------------------------------
(* load_directory                                                          *)

\* The CLI asks for a directory first: a missing one holds no fixtures.
NoDirectory ==
  /\ stage = "collect"
  /\ directory = "missing"
  /\ stage' = "validate"
  /\ UNCHANGED <<directory, content, settings, paths, parsed, plan, skipped, considered, exit>>

\* read_dir yields entries in an order of its own, directory by directory.
Collect(p) ==
  /\ stage = "collect"
  /\ directory # "missing"
  /\ p \notin Range(paths)
  /\ paths' = Append(paths, p)
  /\ UNCHANGED <<directory, content, settings, stage, parsed, plan, skipped, considered, exit>>

\* A subdirectory cannot be read, or an entry of one: some files may have been
\* collected before.
ReadDirFails ==
  /\ stage = "collect"
  /\ directory = "broken"
  /\ Fail(ExitInvalidFixture)

\* paths.sort(): by path, that is by rank.
Sorted(S) ==
  [k \in 1..Cardinality(S) |-> CHOOSE p \in S : Cardinality({q \in S : q < p}) = k - 1]

\* Variant: the sort left out.
KeepListingOrder ==
  /\ stage = "collect"
  /\ directory = "readable"
  /\ Range(paths) = Files
  /\ stage' = "parse"
  /\ UNCHANGED <<directory, content, settings, paths, parsed, plan, skipped, considered, exit>>

SortPaths ==
  /\ stage = "collect"
  /\ directory = "readable"
  /\ Range(paths) = Files
  /\ paths' = Sorted(Range(paths))
  /\ stage' = "parse"
  /\ UNCHANGED <<directory, content, settings, parsed, plan, skipped, considered, exit>>

ParseFile ==
  /\ stage = "parse"
  /\ parsed < Len(paths)
  /\ content[paths[parsed + 1]].text = "ok"
  /\ parsed' = parsed + 1
  /\ UNCHANGED <<directory, content, settings, stage, paths, plan, skipped, considered, exit>>

\* The first file that does not read or parse ends the load.
ParseFails ==
  /\ stage = "parse"
  /\ parsed < Len(paths)
  /\ content[paths[parsed + 1]].text # "ok"
  /\ Fail(ExitInvalidFixture)

ParsingDone ==
  /\ stage = "parse"
  /\ parsed = Len(paths)
  /\ stage' = "validate"
  /\ UNCHANGED <<directory, content, settings, paths, parsed, plan, skipped, considered, exit>>

-----------------------------------------------------------------------------
(* validate                                                                *)

Loaded == IF directory = "readable" THEN Range(paths) ELSE {}

UniqueIds == \A p, q \in Loaded : content[p].id = content[q].id => p = q

ReferencedFilesExist == \A p \in Loaded : content[p].refs = "ok"

Validate ==
  /\ stage = "validate"
  /\ UniqueIds
  /\ ReferencedFilesExist
  /\ stage' = "plan"
  /\ UNCHANGED <<directory, content, settings, paths, parsed, plan, skipped, considered, exit>>

ValidateFails ==
  /\ stage = "validate"
  /\ ~(UniqueIds /\ ReferencedFilesExist)
  /\ Fail(ExitInvalidFixture)

-----------------------------------------------------------------------------
(* build_plan: one fixture after the other.                                *)

\* The capabilities the planner tests are the detected ones: run_check replaces
\* the project's type by the explicit one and nothing else.
HasCapabilities(p) == content[p].needs \subseteq DetectCapabilities(settings.signals)

\* The first test a fixture fails is the reason it is skipped for.
SkipReasons(p) ==
  IF content[p].protocol # settings.target THEN {"protocol"}
  ELSE IF content[p].surface \notin settings.enabled THEN {"disabled"}
  ELSE IF ~HasCapabilities(p) THEN {"capability"} ELSE {}

Upcoming == paths[considered + 1]

Consider ==
  /\ stage = "plan"
  /\ considered < Len(paths)

\* Variant: a skipped fixture is planned all the same.
SkipAndPlan(reason) ==
  /\ Consider
  /\ reason \in SkipReasons(Upcoming)
  /\ skipped' = Append(skipped, [file |-> Upcoming, reason |-> reason])
  /\ plan' = [plan EXCEPT ![content[Upcoming].surface] = Append(@, Upcoming)]
  /\ considered' = considered + 1
  /\ UNCHANGED <<directory, content, settings, stage, paths, parsed, exit>>

SkipFixture(reason) ==
  /\ Consider
  /\ reason \in SkipReasons(Upcoming)
  /\ skipped' = Append(skipped, [file |-> Upcoming, reason |-> reason])
  /\ considered' = considered + 1
  /\ UNCHANGED <<directory, content, settings, stage, paths, parsed, plan, exit>>

\* The surface reads the body, of applicable fixtures only.
PlanFixture ==
  /\ Consider
  /\ SkipReasons(Upcoming) = {}
  /\ content[Upcoming].body = "ok"
  /\ plan' = [plan EXCEPT ![content[Upcoming].surface] = Append(@, Upcoming)]
  /\ considered' = considered + 1
  /\ UNCHANGED <<directory, content, settings, stage, paths, parsed, skipped, exit>>

\* Variant: the surface's error counts as an internal one.
BodyIsInternalError ==
  /\ Consider
  /\ SkipReasons(Upcoming) = {}
  /\ content[Upcoming].body = "invalid"
  /\ Fail(ExitInternalError)

\* Variant: the surface's error counts as one of the fixture files.
BodyIsInvalidFixture ==
  /\ Consider
  /\ SkipReasons(Upcoming) = {}
  /\ content[Upcoming].body = "invalid"
  /\ Fail(ExitInvalidFixture)

\* from_loaded's error is one of the surface's, Xdr, Rpc or Soroban, which the
\* error taxonomy counts among the execution errors.
BodyIsInvalid ==
  /\ Consider
  /\ SkipReasons(Upcoming) = {}
  /\ content[Upcoming].body = "invalid"
  /\ Fail(ExitExecutionError)

PlanReady ==
  /\ stage = "plan"
  /\ considered = Len(paths)
  /\ stage' = "ready"
  /\ UNCHANGED <<directory, content, settings, paths, parsed, plan, skipped, considered, exit>>

\* The caller goes on with the plan, or exits with the error.
Returned ==
  /\ stage \in {"ready", "failed"}
  /\ UNCHANGED vars

Next ==
  \/ NoDirectory
  \/ \E p \in Files : Collect(p)
  \/ ReadDirFails
  \/ SortPaths
  \/ ParseFile
  \/ ParseFails
  \/ ParsingDone
  \/ Validate
  \/ ValidateFails
  \/ \E reason \in Reasons : SkipFixture(reason)
  \/ PlanFixture
  \/ BodyIsInvalid
  \/ PlanReady
  \/ Returned

Spec == Init /\ [][Next]_vars

-----------------------------------------------------------------------------
(* Properties.                                                             *)

Present == IF directory = "readable" THEN Files ELSE {}

\* Every file of the directory is accounted for once: on its own surface's list
\* or among the skipped, never both, never twice, never dropped, and no id
\* occurs twice in the plan, which is what execute and the cache rely on
\* (scheduler.rs:65-111, validator.rs:25-37).
PlanAccountsForEveryFile ==
  stage = "ready" =>
    LET planned(p) == {place \in Surfaces \X (1..NumFiles) :
                         /\ place[2] \in DOMAIN plan[place[1]]
                         /\ plan[place[1]][place[2]] = p}
        passed(p)  == {k \in DOMAIN skipped : skipped[k].file = p}
    IN /\ \A p \in Present :
            /\ Cardinality(planned(p)) + Cardinality(passed(p)) = 1
            /\ \A place \in planned(p) : place[1] = content[p].surface
       /\ \A p \in Files \ Present : planned(p) = {} /\ passed(p) = {}
       /\ \A p, q \in Present :
            planned(p) # {} /\ planned(q) # {} /\ content[p].id = content[q].id => p = q

\* Whatever order read_dir lists files in, each list of the plan and the list
\* of skipped fixtures follow the order of the paths (loader.rs:56-63).
PlanFollowsPathOrder ==
  stage = "ready" =>
    /\ \A s \in Surfaces : \A j, k \in DOMAIN plan[s] : j < k => plan[s][j] < plan[s][k]
    /\ \A j, k \in DOMAIN skipped : j < k => skipped[j].file < skipped[k].file

\* All or nothing: a plan is handed on only when every file loaded, the set is
\* valid and every applicable fixture has a body its surface reads; a fixture
\* that does not apply cannot fail the run by its body, nor an unread capability
\* change that.  And the exit code of a failure tells which of these was not so:
\* 4 the directory, a file or the set, 3 a body, and never the one for the other
\* whatever order the files are met in (scheduler.rs:57-112, errors.rs:57-66).
PlanIsAllOrNothing ==
  LET loads == \A p \in Present : content[p].text = "ok"
      valid == \A p, q \in Present :
                 content[p].refs = "ok" /\ (content[p].id = content[q].id => p = q)
      fits  == \A p \in Present : SkipReasons(p) = {} => content[p].body = "ok"
  IN /\ stage = "ready" => loads /\ valid /\ fits
     /\ stage = "plan" => loads /\ valid
     /\ stage = "failed" =>
          \/ /\ exit = ExitInvalidFixture
             /\ directory = "broken" \/ ~(loads /\ valid)
          \/ /\ exit = ExitExecutionError
             /\ directory = "readable" /\ loads /\ valid /\ ~fits
=============================================================================
