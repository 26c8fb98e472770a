------------------------------ MODULE NodeSetup ------------------------------
(***************************************************************************)
(* How a node comes to life.  The panel loads its nodes from nodes.json,   *)
(* or from the backup if that file is damaged, completes their Reality     *)
(* keys and saves them before it listens (loadNodesFile,                   *)
(* ensureRealityKeypair); the agent's service asks /config for every       *)
(* protocol of its mode (authenticate, NodeConfigResponse,                 *)
(* FetchNodeConfig), makes a certificate, writes the sing-box              *)
(* configuration (generateXboardConfig), and starts sing-box from it.      *)
(* Either side may be stopped at any step, between the two renames of a    *)
(* save too, and systemd starts it again.                                  *)
(*                                                                         *)
(* Of a configuration only what decides whether it works is kept: the      *)
(* protocol, the node and the Reality key of each inbound.  A certificate  *)
(* and its key are named by the generation that made them.                 *)
(***************************************************************************)
EXTENDS Integers, Sequences, FiniteSets

CONSTANTS
    NodeIds,        \* ids a node may have
    Shapes,         \* node entries as an operator writes them
    NoNode,         \* no entry with that id
    NoKey, Garbled, \* a key that is not given; one that does not decode
    Absent, Empty, Torn, \* no file, a file of no bytes, a part of its bytes
    VlessId, Hy2Id, \* --vless-node-id and --hy2-node-id
    MaxStops,       \* bound on stops of the panel
    MaxDamages,     \* bound on damage to nodes.json at rest
    MaxKills,       \* bound on stops of the agent or its generator
    MaxIOErrors     \* bound on failing file operations

\* Keys: what operators write, and those the panel makes at its n-th start.
Keys == {n.priv : n \in Shapes} \cup {n.pub : n \in Shapes} \cup {NoKey, Garbled}
        \cup {"made"} \X NodeIds \X Nat

\* An entry of nodes.json, as operators write it or as the panel makes it (see
\* DefaultNode), and a node configuration as the agent receives it.
NodeEntry == [type : {n.type : n \in Shapes} \cup {"vless"}, enabled : BOOLEAN,
              token : {n.token : n \in Shapes} \cup {"random"}, port : Int,
              priv : Keys, pub : Keys]
NodeConfig == [protocol : {"vless", "hysteria"}, id : NodeIds, priv : Keys]

\* A nodes.json: the entry of every id.
Documents == [NodeIds -> NodeEntry \cup {NoNode}]

ASSUME SetupAssumption ==
    /\ {1, VlessId, Hy2Id} \subseteq NodeIds
    /\ Shapes \subseteq NodeEntry /\ NoNode \notin NodeEntry
    /\ NoKey \notin {"made"} \X NodeIds \X Nat
    /\ Absent # Torn /\ Empty # Torn
    /\ Absent \notin Nat /\ Torn \notin Nat
    /\ Torn \notin Seq(NodeConfig) /\ {Absent, Torn} \cap Documents = {}
    /\ {MaxStops, MaxDamages, MaxKills, MaxIOErrors} \subseteq Nat

VARIABLES
    entries,    \* nodes.json as the operator wrote it
    disk, bak,  \* nodes.json and nodes.json.bak
    single,     \* node.json: Absent, or the default node
    nodes,      \* s.nodeList
    panel,      \* "down", "creating" (node.json is to be saved), "saving" and
                \* "promoting" (before each rename of nodes.json), "up"
    starts,     \* starts of the panel; names the keys it generates
    damages,    \* how often nodes.json was damaged
    mode, token,    \* --node-mode and --panel-token of the agent
    pc,         \* where the agent's service is
    fetched,    \* the node configurations received so far
    cert, key,  \* cert.pem and key.pem
    config,     \* config.json
    pairs,      \* certificates generated so far
    stops, kills, ioErrors

setup == <<entries, mode, token>>
files == <<disk, bak, single, damages>>
panelVars == <<files, nodes, panel, starts, stops>>
agentVars == <<pc, fetched, cert, key, config, pairs, kills>>
vars == <<setup, panelVars, agentVars, ioErrors>>

-----------------------------------------------------------------------------
(* Node entries: normalizeNodeType (normalizeNodeMode in the agent),       *)
(* validateNodeEntry and ensureRealityKeypair.                             *)

NormalizeNodeType(t) ==
    CASE t \in {"vless", "vless-reality", "reality"} -> "vless"
      [] t \in {"hy2", "hysteria", "hysteria2"}      -> "hy2"
      [] t \in {"both", "dual", "all"}               -> "both"
      [] OTHER                                       -> t

ValidateNodeEntry(n) ==
    /\ NormalizeNodeType(n.type) \in {"vless", "hy2", "both"}
    /\ n.port \in 1..65535

ServesVless(n) == NormalizeNodeType(n.type) \in {"vless", "both"}

\* A key pair that is neither usable nor to be completed.
KeysRefused(n) ==
    /\ ServesVless(n)
    /\ \/ Garbled \in {n.priv, n.pub}
       \/ n.pub # NoKey /\ n.pub # n.priv

\* The private key is generated if there is none, and the public key, which
\* has the same name here, is derived from it.
EnsureRealityKeypair(n, fresh) ==
    IF ~ServesVless(n) THEN n
    ELSE LET k == IF n.priv = NoKey THEN fresh ELSE n.priv
         IN  [n EXCEPT !.priv = k, !.pub = k]

Managed(file) == {i \in NodeIds : file[i] # NoNode}

\* Mutant: the entries are not validated.
MutValidateNodesFileCounts(file) == Managed(file) # {}

ValidateNodesFile(file) ==
    /\ Managed(file) # {}
    /\ \A i \in Managed(file) : ValidateNodeEntry(file[i])

-----------------------------------------------------------------------------
(* The panel: loadNode, loadNodesFile, loadSingleNode and SaveNode.        *)

Decodes(file) == file \notin {Absent, Torn}
Usable(file) == Decodes(file) /\ ValidateNodesFile(file)

\* The backup is read if nodes.json does not decode or is not valid.
Source == IF Usable(disk) THEN disk ELSE bak

\* loadNodesFile gets through: it has nodes, and can complete their keys.
Loadable ==
    /\ Usable(Source)
    /\ \A i \in Managed(Source) : ~KeysRefused(Source[i])

WithKeys ==
    [i \in NodeIds |-> IF i \in Managed(Source)
                       THEN EnsureRealityKeypair(Source[i], <<"made", i, starts + 1>>)
                       ELSE NoNode]

\* Mutant: new keys are served without being saved.
MutPanelStartUnsaved ==
    /\ panel = "down" /\ disk # Absent
    /\ Loadable
    /\ nodes' = WithKeys
    /\ starts' = starts + 1
    /\ panel' = "up"
    /\ UNCHANGED <<setup, files, stops, agentVars, ioErrors>>

\* A start with a nodes.json.  The nodes have to be saved if a key was added or
\* they come from the backup: in both cases they are not what nodes.json holds.
PanelStart ==
    /\ panel = "down" /\ disk # Absent
    /\ Loadable
    /\ nodes' = WithKeys
    /\ starts' = starts + 1
    /\ panel' = IF nodes' = disk THEN "up" ELSE "saving"
    /\ UNCHANGED <<setup, files, stops, agentVars, ioErrors>>

\* The node of a new node.json.  Its token is random: no agent has it.
DefaultNode ==
    LET k == <<"made", 1, starts + 1>>
    IN  [i \in NodeIds |->
            IF i # 1 THEN NoNode
            ELSE [type |-> "vless", enabled |-> TRUE, token |-> "random", port |-> 443,
                  priv |-> k, pub |-> k]]

\* A start without a nodes.json, whatever its backup holds: node.json is loaded,
\* and made if there is none.
PanelStartSingle ==
    /\ panel = "down" /\ disk = Absent
    /\ nodes' = IF single = Absent THEN DefaultNode ELSE single
    /\ starts' = starts + 1
    /\ panel' = IF single = Absent THEN "creating" ELSE "up"
    /\ UNCHANGED <<setup, files, stops, agentVars, ioErrors>>

\* SaveNode: nodes.json, whatever it holds now, is renamed over its backup; the
\* new file is renamed to nodes.json; then NewStore returns and the server
\* listens.
KeepBackup ==
    /\ panel = "saving"
    /\ bak' = disk
    /\ disk' = Absent
    /\ panel' = "promoting"
    /\ UNCHANGED <<setup, single, damages, nodes, starts, stops, agentVars, ioErrors>>

Promote ==
    /\ panel = "promoting"
    /\ disk' = nodes
    /\ panel' = "up"
    /\ UNCHANGED <<setup, bak, single, damages, nodes, starts, stops, agentVars, ioErrors>>

\* A new node.json has no backup: it is there with one rename.
CreateSingle ==
    /\ panel = "creating"
    /\ single' = nodes
    /\ panel' = "up"
    /\ UNCHANGED <<setup, disk, bak, damages, nodes, starts, stops, agentVars, ioErrors>>

\* The process is stopped, or a step of SaveNode fails and NewStore with it.  If
\* the second rename failed, the backup is renamed back before.
PanelStops ==
    /\ panel # "down"
    /\ stops < MaxStops
    /\ stops' = stops + 1
    /\ panel' = "down"
    /\ \/ UNCHANGED <<disk, bak>>
       \/ panel = "promoting" /\ disk' = bak /\ bak' = Absent
    /\ UNCHANGED <<setup, single, damages, nodes, starts, agentVars, ioErrors>>

\* nodes.json gets damaged where it lies: it does not decode or validate any more.
Damage ==
    /\ Decodes(disk)
    /\ damages < MaxDamages
    /\ damages' = damages + 1
    /\ disk' = Torn
    /\ UNCHANGED <<setup, bak, single, nodes, panel, starts, stops, agentVars, ioErrors>>

-----------------------------------------------------------------------------
(* GET /config: authenticate and NodeConfigResponse.                       *)

ValidToken(n, t) == t = IF n.token # "" THEN n.token ELSE "shared"

MatchNodeType(n, requested) ==
    NormalizeNodeType(n.type) \in {"both", NormalizeNodeType(requested)}

\* Mutant: the requested type is not compared.
MutAuthenticateAnyType(id, t, requested) ==
    nodes[id] # NoNode /\ nodes[id].enabled /\ ValidToken(nodes[id], t)

Authenticate(id, t, requested) ==
    /\ nodes[id] # NoNode
    /\ nodes[id].enabled
    /\ ValidToken(nodes[id], t)
    /\ MatchNodeType(nodes[id], requested)

\* A node of type "both" has no case of its own: the answer names no protocol.
NodeConfigResponse(id) ==
    LET type == NormalizeNodeType(nodes[id].type)
    IN  [protocol |-> CASE type = "vless" -> "vless"
                        [] type = "hy2"   -> "hysteria"
                        [] OTHER          -> "",
         id       |-> id,
         priv     |-> IF type = "vless" THEN nodes[id].priv ELSE NoKey]

-----------------------------------------------------------------------------
(* generate-config.sh and generateXboardConfig.                            *)

\* What the agent asks for in each mode, in this order.
Requests ==
    LET vless == [id |-> VlessId, type |-> "vless"]
        hy2   == [id |-> Hy2Id, type |-> "hysteria"]
    IN  CASE mode = "vless" -> <<vless>>
          [] mode = "hy2"   -> <<hy2>>
          [] mode = "both"  -> <<vless, hy2>>

Uses(inbounds, protocol) ==
    \E i \in 1..Len(inbounds) : inbounds[i].protocol = protocol

Files == <<cert, key, config>>
Goto(step) == pc' = step
Others == <<setup, panelVars>>

\* systemd starts the service: a configuration that is not empty is kept.
Start ==
    /\ pc = "off"
    /\ Goto(IF config \in {Absent, Empty} THEN "fetch" ELSE "load")
    /\ fetched' = <<>>
    /\ UNCHANGED <<Others, Files, pairs, kills, ioErrors>>

\* A command fails: the service ends, to be started again.
Fail ==
    /\ Goto("off")
    /\ UNCHANGED <<Others, fetched, Files, pairs, kills>>

\* The panel answers the next request with something decodeNodeConfig takes.
Answered ==
    LET r == Requests[Len(fetched) + 1]
    IN  /\ panel = "up"
        /\ Authenticate(r.id, token, r.type)
        /\ NodeConfigResponse(r.id).protocol # ""

Fetch ==
    /\ pc = "fetch"
    /\ Answered
    /\ fetched' = Append(fetched, NodeConfigResponse(Requests[Len(fetched) + 1].id))
    /\ Goto(IF Len(fetched') = Len(Requests) THEN "build" ELSE "fetch")
    /\ UNCHANGED <<Others, Files, pairs, kills, ioErrors>>

\* The panel is not there, refuses, answers without a node configuration, or
\* the request is lost.
FetchFails ==
    /\ pc = "fetch"
    /\ \/ ~Answered /\ UNCHANGED ioErrors
       \/ ioErrors < MaxIOErrors /\ ioErrors' = ioErrors + 1
    /\ Fail

\* A VLESS inbound needs a private key.  With this panel it always has one (see
\* TypeOK), so the error return of inboundFromNodeConfig is never taken.
Buildable ==
    \A i \in 1..Len(fetched) : fetched[i].protocol = "vless" => fetched[i].priv # NoKey

\* Mutant: the certificate alone is looked for.
MutBuildLooksForCert ==
    /\ pc = "build"
    /\ Buildable
    /\ Goto(IF Uses(fetched, "hysteria") /\ cert = Absent THEN "openCert" ELSE "openConfig")
    /\ UNCHANGED <<Others, fetched, Files, pairs, kills, ioErrors>>

\* inboundFromNodeConfig.  Hysteria 2 needs a certificate: ensureSelfSignedCert
\* keeps what is there if both files exist, whatever they hold.
Build ==
    /\ pc = "build"
    /\ Buildable
    /\ Goto(IF Uses(fetched, "hysteria") /\ Absent \in {cert, key}
            THEN "openCert" ELSE "openConfig")
    /\ UNCHANGED <<Others, fetched, Files, pairs, kills, ioErrors>>

\* A new pair is generated; cert.pem is truncated, written, then key.pem is.
OpenCert ==
    /\ pc = "openCert"
    /\ pairs' = pairs + 1
    /\ cert' = Torn
    /\ Goto("cert")
    /\ UNCHANGED <<Others, fetched, key, config, kills, ioErrors>>

\* Mutant: a key file that is there is not overwritten.
MutWriteCertKeepsKey ==
    /\ pc = "cert"
    /\ cert' = pairs
    /\ Goto(IF key = Absent THEN "openKey" ELSE "openConfig")
    /\ UNCHANGED <<Others, fetched, key, config, pairs, kills, ioErrors>>

WriteCert ==
    /\ pc = "cert"
    /\ cert' = pairs
    /\ Goto("openKey")
    /\ UNCHANGED <<Others, fetched, key, config, pairs, kills, ioErrors>>

OpenKey ==
    /\ pc = "openKey"
    /\ key' = Torn
    /\ Goto("key")
    /\ UNCHANGED <<Others, fetched, cert, config, pairs, kills, ioErrors>>

WriteKey ==
    /\ pc = "key"
    /\ key' = pairs
    /\ Goto("openConfig")
    /\ UNCHANGED <<Others, fetched, cert, config, pairs, kills, ioErrors>>

\* os.WriteFile truncates config.json and writes it, in place.
OpenConfig ==
    /\ pc = "openConfig"
    /\ config' \in {Empty, Torn}
    /\ Goto("config")
    /\ UNCHANGED <<Others, fetched, cert, key, pairs, kills, ioErrors>>

WriteConfig ==
    /\ pc = "config"
    /\ config' = fetched
    /\ Goto("load")
    /\ UNCHANGED <<Others, fetched, cert, key, pairs, kills, ioErrors>>

\* Opening or writing a file fails.
WriteFails ==
    /\ pc \in {"openCert", "cert", "openKey", "key", "openConfig", "config"}
    /\ ioErrors < MaxIOErrors
    /\ ioErrors' = ioErrors + 1
    /\ Fail

-----------------------------------------------------------------------------
(* main: loadOptions, box.New and Start.                                   *)

PairMatches == cert = key /\ cert \notin {Absent, Torn}

\* The configuration decodes, and sing-box can load the pair it names.
Startable ==
    /\ config \notin {Absent, Empty, Torn}
    /\ Uses(config, "hysteria") => PairMatches

Run ==
    /\ pc = "load"
    /\ Startable
    /\ Goto("running")
    /\ UNCHANGED <<Others, fetched, Files, pairs, kills, ioErrors>>

RunFails ==
    /\ pc = "load"
    /\ ~Startable
    /\ Fail
    /\ UNCHANGED ioErrors

\* The generator or the agent is killed, or the machine goes down.
Kill ==
    /\ pc # "off"
    /\ kills < MaxKills
    /\ kills' = kills + 1
    /\ Goto("off")
    /\ UNCHANGED <<Others, fetched, Files, pairs, ioErrors>>

-----------------------------------------------------------------------------
(* A first start, with whatever the operator has put there: any entries,   *)
(* and, where Hysteria 2 is to use them, a certificate, a key or both.     *)

Init ==
    /\ entries \in [NodeIds -> Shapes \cup {NoNode}]
    /\ disk = entries /\ bak = Absent /\ single = Absent
    /\ nodes = [i \in NodeIds |-> NoNode]
    /\ panel = "down"
    /\ mode \in {"vless", "hy2", "both"}
    /\ token \in {"shared", "own"}
    /\ pc = "off"
    /\ fetched = <<>>
    /\ \E own \in SUBSET (IF mode = "vless" THEN {} ELSE {"cert", "key"}) :
        /\ cert = IF "cert" \in own THEN 0 ELSE Absent
        /\ key = IF "key" \in own THEN 0 ELSE Absent
    /\ config = Absent
    /\ pairs = 0
    /\ starts = 0 /\ stops = 0 /\ damages = 0 /\ kills = 0 /\ ioErrors = 0

Generate ==
    \/ Fetch \/ FetchFails \/ Build
    \/ OpenCert \/ WriteCert \/ OpenKey \/ WriteKey \/ OpenConfig \/ WriteConfig

PanelStarts == PanelStart \/ PanelStartSingle
SaveNode == KeepBackup \/ Promote \/ CreateSingle

Next ==
    \/ PanelStarts \/ SaveNode \/ PanelStops \/ Damage
    \/ Start \/ Generate \/ WriteFails \/ Run \/ RunFails \/ Kill

Spec == Init /\ [][Next]_vars

(***************************************************************************)
(* systemd starts both services whenever they are down (Restart=always;    *)
(* RestartSec keeps them below its start limit), and their steps end.      *)
(***************************************************************************)
Fairness ==
    /\ WF_vars(PanelStarts) /\ WF_vars(SaveNode)
    /\ WF_vars(Start) /\ WF_vars(Generate) /\ WF_vars(Run \/ RunFails)

FairSpec == Spec /\ Fairness

Contents == {Absent, Torn} \cup 0..pairs

TypeOK ==
    /\ entries \in Documents /\ nodes \in Documents
    /\ disk \in Documents \cup {Absent, Torn} /\ bak \in Documents \cup {Absent, Torn}
    /\ single \in Documents \cup {Absent}
    /\ panel \in {"down", "creating", "saving", "promoting", "up"}
    /\ pc \in {"off", "fetch", "build", "openCert", "cert", "openKey", "key",
               "openConfig", "config", "load", "running"}
    /\ fetched \in Seq(NodeConfig) /\ Len(fetched) <= Len(Requests)
    /\ cert \in Contents /\ key \in Contents /\ pairs \in Nat
    /\ \/ config \in {Absent, Empty, Torn}
       \/ config \in Seq(NodeConfig) /\ Len(config) = Len(Requests)
    /\ panel # "down" => \A i \in NodeIds : nodes[i] # NoNode =>
          ValidateNodeEntry(nodes[i]) /\ (ServesVless(nodes[i]) => nodes[i].priv # NoKey)

-----------------------------------------------------------------------------
(* Properties.                                                             *)

\* The protocols of a mode, and the node that is to serve each of them.
Modes == [vless |-> {"vless"}, hy2 |-> {"hysteria"}, both |-> {"vless", "hysteria"}]
NodeOf(protocol) == entries[IF protocol = "vless" THEN VlessId ELSE Hy2Id]

\* The node of a protocol is of that protocol alone and the agent may use it.
Suited(protocol) ==
    LET n == NodeOf(protocol)
    IN  /\ n # NoNode
        /\ n.enabled
        /\ token = (IF n.token = "" THEN "shared" ELSE n.token)
        /\ NormalizeNodeType(n.type) = NormalizeNodeType(protocol)

(***************************************************************************)
(* Whatever stops and retries come between, a node that runs has exactly   *)
(* one inbound for each protocol of its mode, each one set up from an      *)
(* enabled node of that protocol whose token the agent has: the checks of  *)
(* authenticate, decodeNodeConfig and inboundFromNodeConfig together.      *)
(***************************************************************************)
RunsWhatWasAsked ==
    pc = "running" =>
        /\ {config[i].protocol : i \in 1..Len(config)} = Modes[mode]
        /\ \A protocol \in Modes[mode] : Suited(protocol)

(***************************************************************************)
(* The Reality key in an agent's configuration is the one in nodes.json,   *)
(* over every later stop and start of the panel: a key is saved before it  *)
(* is served, the agent is never given a key of another start, and a save  *)
(* that is cut short never leaves an agent with a key that is gone.  For a *)
(* key that the operator wrote this holds also when nodes.json is damaged  *)
(* and recovered from its backup.  For one that the panel made it does not *)
(* (see KeyIsReused): the backup is from before the key was made.          *)
(***************************************************************************)
KeysAgree ==
    config \notin {Absent, Empty, Torn} => \A i \in 1..Len(config) :
        config[i].protocol = "vless" =>
            /\ damages = 0 => Decodes(disk)
            /\ Decodes(disk) /\ (damages = 0 \/ NodeOf("vless").priv # NoKey) =>
                  config[i].priv = disk[config[i].id].priv

(***************************************************************************)
(* "The private key is generated at most once and reused on later starts"  *)
(* (reality.go): the key given to an agent is the one in nodes.json        *)
(* whenever that file can be read, also after it was damaged and recovered.*)
(***************************************************************************)
KeyIsReused ==
    config \notin {Absent, Empty, Torn} => \A i \in 1..Len(config) :
        config[i].protocol = "vless" /\ Decodes(disk) =>
            config[i].priv = disk[config[i].id].priv

\* Files the start will not replace and cannot use.
Wedged ==
    \/ config = Torn
    \/ mode # "vless" /\ Absent \notin {cert, key} /\ ~PairMatches

\* The panel accepts what the operator wrote.
Accepted ==
    /\ ValidateNodesFile(entries)
    /\ \A i \in Managed(entries) : ~KeysRefused(entries[i])

\* nodes.json is gone, after a stop between the renames of a save, and the panel
\* serves a default node; or it is damaged and there is no backup to use.
Forgotten == disk = Absent /\ panel # "promoting"
Damaged == disk = Torn /\ panel = "down" /\ ~Loadable

(***************************************************************************)
(* A node whose panel accepts its entries and offers the nodes it asks for *)
(* comes up, after every stop of either side, and after damage to          *)
(* nodes.json that the panel has recovered from or not noticed yet.  Three *)
(* things keep it down for good: its own files, written in part, that it   *)
(* cannot use and does not replace; a nodes.json that a stop in a save has *)
(* made disappear, for which the panel makes a node of its own; and one    *)
(* that is damaged and has no backup.                                      *)
(***************************************************************************)
AgentComesUp ==
    Accepted /\ (\A protocol \in Modes[mode] : Suited(protocol))
        ~> pc = "running" \/ Wedged \/ Forgotten \/ Damaged

(***************************************************************************)
(* Only a write that was cut short or failed can leave such files: error   *)
(* returns between the steps, and a certificate without its key or a key   *)
(* without its certificate, do not.                                        *)
(***************************************************************************)
OnlyInterruptionsWedge ==
    kills = 0 /\ ioErrors = 0 /\ pc \in {"off", "load", "running"} => ~Wedged
=============================================================================
