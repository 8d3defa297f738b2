------------------------------- MODULE Commands -------------------------------
(***************************************************************************)
(* The commands that plan: `inspect`, `check` up to the execution of its    *)
(* plan, and `fixtures`, run one after the other in one working tree with   *)
(* the same flags, as a user does who looks before running.  Each reads the *)
(* configuration and the flags in an order of its own, then takes the steps *)
(* of module Planning.  None of them writes what another reads, so their    *)
(* order does not matter.                                                   *)
(***************************************************************************)
EXTENDS Outcomes, Functions, Project

CONSTANTS
  NumFiles, Contents, \* those of Planning
  Situations  \* the working trees and flags to consider

Texts    == {"absent", "unreadable", "malformed", "ok"}
Networks == {"testnet", "futurenet", "mainnet", "custom"}

\* .stellar-canary.toml: "off" are the surfaces [tests] turns off, as one that is
\* not mentioned is on; "explicit" is [project].type, "auto" if not given.
Config ==
  [text : Texts, version : Nat, protocol : Nat, off : SUBSET Surfaces,
   explicit : ProjectTypes \cup {"auto"}]

\* "named": whether --config names the file; --protocol is an optional number;
\* --network is known by what it parses to, in any case of letters; --rpc-url
\* is given or not; "rooted": whether the current directory can be read.
Situation ==
  [rooted : BOOLEAN, named : BOOLEAN, config : Config, flag : {{}} \cup {{p} : p \in Nat},
   network : Networks, url : BOOLEAN, root : Root,
   directory : {"missing", "readable", "broken"}, content : [1..NumFiles -> Contents]]

ASSUME SituationsAssumption ==
  \A s \in Situations :
    /\ DOMAIN s = {"rooted", "named", "config", "flag", "network", "url", "root",
                   "directory", "content"}
    /\ {s.rooted, s.named, s.url} \subseteq BOOLEAN
    /\ s.config \in Config /\ s.network \in Networks /\ s.root \in Root
    /\ s.flag \subseteq Nat /\ \A p, q \in s.flag : p = q
    /\ s.directory \in {"missing", "readable", "broken"}
    /\ s.content \in [1..NumFiles -> Contents]

SupportedConfigVersion == 1

DefaultConfig ==
  [text |-> "absent", version |-> SupportedConfigVersion, protocol |-> 28, off |-> {},
   explicit |-> "auto"]

\* load and load_from_root: a file that was named has to be there.
Loads(s) ==
  \/ s.config.text = "absent" /\ ~s.named
  \/ /\ s.config.text = "ok"
     /\ s.config.version = SupportedConfigVersion
     /\ s.config.protocol # 0
     /\ s.config.off # Surfaces

ConfigOf(s) == IF s.config.text = "ok" /\ Loads(s) THEN s.config ELSE DefaultConfig

\* validated_protocol_flag
FlagIsValid(s) == s.flag # {0}

Target(s) ==
  IF s.flag \in {{}, {0}} THEN ConfigOf(s).protocol ELSE CHOOSE p \in s.flag : TRUE

\* What the planner is given, wherever a command comes to planning.
SettingsOf(s) ==
  [target |-> Target(s), enabled |-> Surfaces \ ConfigOf(s).off, signals |-> SignalsOf(s.root),
   explicit |-> ConfigOf(s).explicit]

VARIABLES
  situation, \* one of the Situations (never changes)
  command,   \* the command that runs, or "none" after the last
  step,      \* "configure", "endpoint" or "plan"
  endpoint,  \* the endpoint of its requests: "none", "given" or "default"
  outcome,   \* what the commands before it came to
  stage, paths, parsed, plan, skipped, considered, exit
             \* those of Planning, of the command that runs

\* Variant: inspect plans for the configured protocol whatever the flag says.
SettingsIgnoringFlag ==
  IF command = "inspect" THEN SettingsOf([situation EXCEPT !.flag = {}])
  ELSE SettingsOf(situation)

PlannerSettings == SettingsOf(situation)

Planner == INSTANCE Planning WITH
  directory <- situation.directory,
  content <- situation.content,
  settings <- PlannerSettings

ASSUME FilesAssumption == Planner!FilesAssumption

planner == <<stage, paths, parsed, plan, skipped, considered, exit>>
vars == <<situation, command, step, endpoint, outcome, planner>>

CommandNames == {"inspect", "check", "fixtures"}

Following == [inspect |-> "check", check |-> "fixtures", fixtures |-> "none"]

NoLists == [s \in Surfaces |-> <<>>]

\* "reached": the step a command ended in.
NotRun ==
  [reached |-> "configure", exit |-> ExitPass, endpoint |-> "none", plan |-> NoLists,
   skipped |-> <<>>, listed |-> NoLists]

TypeOK ==
  /\ situation \in Situations
  /\ command \in CommandNames \cup {"none"}
  /\ step \in {"configure", "endpoint", "plan"}
  /\ endpoint \in {"none", "given", "default"}
  /\ DOMAIN outcome = CommandNames
  /\ \A c \in CommandNames : outcome[c].exit \in ExitPass..ExitInternalError
  /\ Planner!TypeOK

Init ==
  /\ situation \in Situations
  /\ command = "inspect"
  /\ step = "configure"
  /\ endpoint = "none"
  /\ outcome = [c \in CommandNames |-> NotRun]
  /\ Planner!Init

Goes(c, from, to) ==
  /\ command = c
  /\ step = from
  /\ step' = to
  /\ UNCHANGED <<situation, command, outcome, planner>>

\* The command exits with "code", and the next one begins.
Exits(code, listed) ==
  /\ outcome' = [outcome EXCEPT ![command] =
       [reached |-> step, exit |-> code, endpoint |-> endpoint, plan |-> plan,
        skipped |-> skipped, listed |-> listed]]
  /\ command' = Following[command]
  /\ step' = "configure"
  /\ endpoint' = "none"
  /\ stage' = "collect" /\ paths' = <<>> /\ parsed' = 0
  /\ plan' = NoLists /\ skipped' = <<>> /\ considered' = 0 /\ exit' = ExitPass
  /\ UNCHANGED situation

-----------------------------------------------------------------------------
(* Configuration and flags.                                                *)

\* The flag is looked at after the configuration, except by `fixtures`, which
\* reads a configuration only without it.
ReadsConfig(c) == c # "fixtures" \/ situation.flag = {}

NoWorkingDirectory ==
  /\ command # "none"
  /\ step = "configure"
  /\ ~situation.rooted
  /\ Exits(ExitInternalError, NoLists)

ConfigurationIsRefused ==
  /\ command # "none"
  /\ step = "configure"
  /\ situation.rooted
  /\ ~FlagIsValid(situation) \/ (ReadsConfig(command) /\ ~Loads(situation))
  /\ Exits(ExitConfigurationError, NoLists)

Configures(c, to) ==
  /\ situation.rooted
  /\ FlagIsValid(situation)
  /\ ReadsConfig(c) => Loads(situation)
  /\ Goes(c, "configure", to)

\* inspect and fixtures are offline.
ConfigureOffline ==
  /\ \E c \in {"inspect", "fixtures"} : Configures(c, "plan")
  /\ UNCHANGED endpoint

ConfigureCheck ==
  /\ Configures("check", "endpoint")
  /\ UNCHANGED endpoint

-----------------------------------------------------------------------------
(* check's endpoint.                                                       *)

\* Variant: Soroban is not counted among the live surfaces.
LiveChecksNeededForRpc == "rpc" \notin ConfigOf(situation).off

LiveChecksNeeded == ~({"rpc", "soroban"} \subseteq ConfigOf(situation).off)

\* The networks default_rpc_url knows an endpoint of.
WithDefaultUrl == {"testnet"}

NoEndpointNeeded ==
  /\ Goes("check", "endpoint", "plan")
  /\ ~LiveChecksNeeded
  /\ UNCHANGED endpoint

\* The flag, or the network's default.  getNetwork is called at once, and an
\* error of it is no error of the run (what its answer is for: CheckRuns).
ChooseEndpointAndProbe ==
  /\ Goes("check", "endpoint", "plan")
  /\ LiveChecksNeeded
  /\ situation.url \/ situation.network \in WithDefaultUrl
  /\ endpoint' = IF situation.url THEN "given" ELSE "default"

EndpointIsMissing ==
  /\ command = "check"
  /\ step = "endpoint"
  /\ LiveChecksNeeded
  /\ ~situation.url /\ situation.network \notin WithDefaultUrl
  /\ Exits(ExitConfigurationError, NoLists)

-----------------------------------------------------------------------------
(* Loading, validating and planning, or listing.                           *)

Plans ==
  /\ command # "none"
  /\ step = "plan"
  /\ UNCHANGED <<situation, command, step, endpoint, outcome>>

LoadAndValidate ==
  /\ Plans
  /\ \/ Planner!NoDirectory
     \/ \E p \in 1..NumFiles : Planner!Collect(p)
     \/ Planner!ReadDirFails
     \/ Planner!SortPaths
     \/ Planner!ParseFile
     \/ Planner!ParseFails
     \/ Planner!ParsingDone
     \/ Planner!Validate
     \/ Planner!ValidateFails

BuildPlan ==
  /\ Plans
  /\ command # "fixtures"
  /\ \/ \E reason \in Planner!Reasons : Planner!SkipFixture(reason)
     \/ Planner!PlanFixture
     \/ Planner!BodyIsInvalid
     \/ Planner!PlanReady

\* The loader's, the validator's or the planner's error.
PlanningFails ==
  /\ step = "plan"
  /\ stage = "failed"
  /\ Exits(exit, NoLists)

\* inspect prints the plan; check goes on to execute it.
PlanIsReady ==
  /\ step = "plan"
  /\ stage = "ready"
  /\ Exits(ExitPass, NoLists)

\* The elements a filter keeps, those at the places K, in the order they had.
Filtered(seq, K) == [j \in 1..Cardinality(K) |-> seq[Planner!Sorted(K)[j]]]

\* Variant: the listing shows every protocol's fixtures.
ListedOfAnyProtocol(s) ==
  Filtered(paths, {k \in DOMAIN paths : situation.content[paths[k]].surface = s})

\* store.for_protocol, surface by surface; "paths" are the loaded files.
Listed(s) ==
  Filtered(paths, {k \in DOMAIN paths :
                     /\ situation.content[paths[k]].protocol = Target(situation)
                     /\ situation.content[paths[k]].surface = s})

ListFixtures ==
  /\ command = "fixtures"
  /\ step = "plan"
  /\ stage = "plan"
  /\ Exits(ExitPass, [s \in Surfaces |-> Listed(s)])

AllHaveRun ==
  /\ command = "none"
  /\ UNCHANGED vars

Next ==
  \/ NoWorkingDirectory
  \/ ConfigurationIsRefused
  \/ ConfigureOffline
  \/ ConfigureCheck
  \/ NoEndpointNeeded
  \/ ChooseEndpointAndProbe
  \/ EndpointIsMissing
  \/ LoadAndValidate
  \/ BuildPlan
  \/ PlanningFails
  \/ PlanIsReady
  \/ ListFixtures
  \/ AllHaveRun

Spec == Init /\ [][Next]_vars

-----------------------------------------------------------------------------
(* Properties.  The outcomes are compared once all three commands have run. *)

\* README.md:65-68: inspect "uses the same compatibility planner as `check`".  It
\* foresees check: the same plan, the same skipped fixtures for the same
\* reasons, or the same exit code for the same error, unless check lacks an
\* endpoint, which inspect does not ask for (commands.rs:105-117, 279-290).
InspectForeseesCheck ==
  LET inspect == outcome["inspect"]
      check   == outcome["check"]
  IN command = "none" /\ check.reached # "endpoint" =>
       [inspect EXCEPT !.endpoint = check.endpoint] = check

\* What `fixtures` lists of a surface is what check would run of it and what it
\* would skip for a reason other than the protocol, each fixture once and the ones
\* to run in the order check runs them; it lists even fixtures whose bodies stop
\* check, and fails wherever loading makes check fail (commands.rs:359-371,
\* scheduler.rs:65-111).
ListingCoversPlan ==
  LET check == outcome["check"]
      listed == outcome["fixtures"].listed
      skippedOf(s) == {k \in DOMAIN check.skipped :
                         /\ check.skipped[k].reason # "protocol"
                         /\ situation.content[check.skipped[k].file].surface = s}
  IN command = "none" =>
       /\ check.reached = "plan" /\ check.exit = ExitPass =>
            \A s \in Surfaces :
              /\ Range(listed[s]) =
                   Range(check.plan[s]) \cup {check.skipped[k].file : k \in skippedOf(s)}
              /\ IsInjective(listed[s])
              /\ \A j, k \in DOMAIN listed[s] : \A a, b \in DOMAIN check.plan[s] :
                   listed[s][j] = check.plan[s][a] /\ listed[s][k] = check.plan[s][b]
                     => (j < k <=> a < b)
       /\ check.reached = "plan" /\ check.exit = ExitInvalidFixture =>
            outcome["fixtures"].exit = ExitInvalidFixture

\* The network safety rule, over all that check may send, the probe first and the
\* planned fixtures after it: nothing goes out without an endpoint, and none but
\* testnet's is ever the tool's own choice; a command that ends with a
\* configuration error has sent nothing (network.rs:28-38, commands.rs:61-103).
RequestsGoToAChosenEndpoint ==
  LET check == outcome["check"] IN
  command \in {"fixtures", "none"} =>
    /\ check.endpoint = "default" => situation.network = "testnet" /\ ~situation.url
    /\ check.plan["rpc"] # <<>> \/ check.plan["soroban"] # <<>> => check.endpoint # "none"
    /\ check.exit = ExitConfigurationError => check.endpoint = "none"

\* Of module Planning, in every command: no file dropped or doubled, path order,
\* all or nothing.
PlanAccountsForEveryFile == Planner!PlanAccountsForEveryFile
PlanFollowsPathOrder     == Planner!PlanFollowsPathOrder
PlanIsAllOrNothing       == Planner!PlanIsAllOrNothing
=============================================================================
