-------------------------------- MODULE Project --------------------------------
(***************************************************************************)
(* canary-project: what a project is taken to be, from what lies in its     *)
(* root.  Pure definitions.                                                *)
(***************************************************************************)
EXTENDS Naturals, Sequences

\* The groups of dependency names Cargo.toml is searched for (capabilities.rs,
\* the three lists).
DependencyGroups == {"soroban-sdk", "stellar-sdk", "rpc-client"}

\* The tables of Cargo.toml that are searched, at the top and under [workspace];
\* those under [target] are not.
SearchedTables ==
  {"dependencies", "dev-dependencies", "build-dependencies", "workspace.dependencies",
   "workspace.dev-dependencies", "workspace.build-dependencies"}

Tables == SearchedTables \cup {"target.dependencies"}

\* "artifacts": for every *.wasm file that can be reached, the directories on its
\* way from the root.
Root ==
  [manifest : {"absent", "malformed", "ok"}, declares : SUBSET (Tables \X DependencyGroups),
   stellarToml : BOOLEAN, artifacts : SUBSET Seq(STRING)]

\* A manifest that is missing or does not parse names no dependency.
ReadCargoManifest(root) ==
  {g \in DependencyGroups :
     root.manifest = "ok" /\ \E t \in SearchedTables : <<t, g>> \in root.declares}

KnownWasmOutputDirs ==
  {<<"target", t, profile>> :
     t \in {"wasm32-unknown-unknown", "wasm32v1-none"}, profile \in {"release", "debug"}}

SkipDirs == {".git", "node_modules"}

\* shallow_scan_for_wasm: a directory, given by the artifacts below it, with its
\* subdirectories to the remaining depth.
ShallowScan[depth \in Nat, artifacts \in SUBSET Seq(STRING)] ==
  LET deeper == artifacts \ {<<>>} IN
  \/ <<>> \in artifacts
  \/ /\ depth > 0
     /\ \E name \in {Head(dirs) : dirs \in deeper} \ (SkipDirs \cup {"target"}) :
          ShallowScan[depth - 1, {Tail(dirs) : dirs \in {d \in deeper : Head(d) = name}}]

FindWasmArtifact(artifacts) ==
  artifacts \cap KnownWasmOutputDirs # {} \/ ShallowScan[2, artifacts]

\* What detection goes by.
Signals == [dependencies : SUBSET DependencyGroups, stellarToml : BOOLEAN, wasm : BOOLEAN]

SignalsOf(root) ==
  [dependencies |-> ReadCargoManifest(root), stellarToml |-> root.stellarToml,
   wasm |-> FindWasmArtifact(root.artifacts)]

\* Capability::RawLedgerAccess can be required and is never detected.
Capabilities ==
  {"soroban-contract", "rpc-client", "stellar-sdk-dependency", "wasm-artifact",
   "raw-ledger-access"}

DetectCapabilities(signals) ==
  {c \in Capabilities :
     \/ c = "soroban-contract" /\ "soroban-sdk" \in signals.dependencies
     \/ c = "stellar-sdk-dependency" /\ "stellar-sdk" \in signals.dependencies
     \/ c = "rpc-client" /\ "rpc-client" \in signals.dependencies
     \/ c = "wasm-artifact" /\ signals.wasm}

ProjectTypes == {"soroban", "rpc-consumer", "stellar-sdk", "generic-stellar", "unknown"}

Classify(capabilities, stellarToml) ==
  CASE "soroban-contract" \in capabilities       -> "soroban"
    [] "soroban-contract" \notin capabilities /\ "rpc-client" \in capabilities
                                                 -> "rpc-consumer"
    [] capabilities \cap {"soroban-contract", "rpc-client"} = {}
         /\ "stellar-sdk-dependency" \in capabilities -> "stellar-sdk"
    [] capabilities \cap {"soroban-contract", "rpc-client", "stellar-sdk-dependency"} = {}
         /\ (stellarToml \/ "wasm-artifact" \in capabilities) -> "generic-stellar"
    [] OTHER                                     -> "unknown"

\* [project].type: an explicit type replaces the detected one.
ResolveProjectType(detected, explicit) == IF explicit = "auto" THEN detected ELSE explicit
=============================================================================
