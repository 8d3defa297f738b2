------------------------------ MODULE MCCommands ------------------------------
(* Three files of every kind that is told apart (two files of one content    *)
(* share an id) under the usual settings, and every configuration and flag   *)
(* with one set of files.                                                    *)
EXTENDS Commands

Base ==
  [text |-> "ok", id |-> "a", protocol |-> 28, surface |-> "xdr", needs |-> {},
   refs |-> "ok", body |-> "ok"]

OnRpc      == [Base EXCEPT !.id = "c", !.surface = "rpc"]
OnContract == [Base EXCEPT !.id = "d", !.surface = "soroban", !.needs = {"soroban-contract"}]
OnRpcInvalid == [OnRpc EXCEPT !.id = "f", !.body = "invalid"]
OfBefore   == [Base EXCEPT !.id = "e", !.protocol = 27, !.body = "invalid"]

MCContents ==
  {Base, OnRpc, OnRpcInvalid, OnContract, OfBefore,
   [Base EXCEPT !.id = "b"],
   [Base EXCEPT !.id = "g", !.refs = "dangling"],
   [Base EXCEPT !.text = "malformed"]}

Contract ==
  [manifest |-> "ok", declares |-> {<<"workspace.dependencies", "soroban-sdk">>},
   stellarToml |-> FALSE, artifacts |-> {}]
Bare     == [Contract EXCEPT !.manifest = "malformed"]

Usual ==
  [rooted |-> TRUE, named |-> FALSE, config |-> DefaultConfig, flag |-> {},
   network |-> "testnet", url |-> FALSE, root |-> Contract,
   directory |-> "readable", content |-> <<OnRpc, OnContract, OfBefore>>]

Written == [DefaultConfig EXCEPT !.text = "ok"]

\* A contract project; one without any signal that its configuration declares a
\* contract project; an offline run; a run of another protocol.
UsualSettings ==
  {Usual,
   [Usual EXCEPT !.root = Bare, !.config = [Written EXCEPT !.explicit = "soroban"]],
   [Usual EXCEPT !.config = [Written EXCEPT !.off = {"rpc", "soroban"}]],
   [Usual EXCEPT !.flag = {27}]}

Sound == {Base, OnRpc, OnContract, OfBefore, OnRpcInvalid}

Files ==
  {[Usual EXCEPT !.content = c] : c \in [1..3 -> MCContents]} \cup
  {[s EXCEPT !.content = c] : s \in UsualSettings, c \in [1..3 -> Sound]}

Configs ==
  {[Written EXCEPT !.protocol = 27, !.off = o] :
     o \in {{}, {"rpc"}, {"rpc", "soroban"}, Surfaces}}
  \cup {[Written EXCEPT !.version = 2], [Written EXCEPT !.protocol = 0]}
  \cup {[DefaultConfig EXCEPT !.text = t] : t \in Texts}

Flags ==
  {[Usual EXCEPT !.config = c, !.named = n, !.flag = f, !.network = w, !.url = u] :
     c \in Configs, n \in BOOLEAN, f \in {{}, {0}, {27}, {28}},
     w \in {"testnet", "futurenet", "custom"}, u \in BOOLEAN}

MCSituations ==
  Files \cup Flags
  \cup {[Usual EXCEPT !.directory = d] : d \in {"missing", "broken"}}
  \cup {[Usual EXCEPT !.rooted = FALSE]}

\* Classification leaves a project "unknown" exactly when no signal at all was
\* found (detector.rs:59-73 with capabilities.rs:31-51).
ASSUME UnknownMeansNoSignal ==
  \A s \in Signals :
    (Classify(DetectCapabilities(s), s.stellarToml) = "unknown")
      <=> (s.dependencies = {} /\ ~s.stellarToml /\ ~s.wasm)

\* The search for an artifact agrees with what it is meant to find: one that
\* cargo built, or one at most two directories below the root and outside the
\* directories it keeps out of (detector.rs:10-21, 75-114).
Directories == {".git", "target", "src", "wasm32v1-none", "release"}
Places      == UNION {[1..n -> Directories] : n \in 0..3}

ASSUME SearchFindsNearbyArtifacts ==
  \A p, q \in Places :
    FindWasmArtifact({p, q}) <=>
      \E dirs \in {p, q} :
        \/ dirs \in KnownWasmOutputDirs
        \/ Len(dirs) <= 2 /\ Range(dirs) \cap {".git", "node_modules", "target"} = {}
=============================================================================
