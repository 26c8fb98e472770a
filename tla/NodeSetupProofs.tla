--------------------------- MODULE NodeSetupProofs ---------------------------
(***************************************************************************)
(* Proofs about NodeSetup for any nodes and node entries and any number of *)
(* stops, kills, damaged files and I/O errors.                             *)
(***************************************************************************)
EXTENDS NodeSetup, TLAPS

-----------------------------------------------------------------------------
(* The inductive invariant.                                                *)

CountInv == starts \in Nat /\ kills \in Nat /\ ioErrors \in Nat /\ damages \in Nat

\* A version of what the operator wrote: the same entries, with keys added.
Derived(file) ==
    \A i \in NodeIds :
        /\ file[i] = NoNode <=> entries[i] = NoNode
        /\ file[i] # NoNode =>
             /\ file[i].type = entries[i].type
             /\ file[i].enabled = entries[i].enabled
             /\ file[i].token = entries[i].token
             /\ entries[i].priv # NoKey => file[i].priv = entries[i].priv

\* The nodes of node.json, that nobody can use.
Random(file) == \A i \in NodeIds : file[i] # NoNode => file[i].token = "random"

\* Nodes that a start neither refuses nor changes.
Complete(file) ==
    \A i \in NodeIds : file[i] # NoNode =>
        /\ ValidateNodeEntry(file[i])
        /\ ServesVless(file[i]) => file[i].priv # NoKey /\ file[i].pub = file[i].priv

\* nodes.json is as it stays: nothing but damage changes it any more.
Settled ==
    /\ Decodes(disk) /\ ValidateNodesFile(disk) /\ Complete(disk)
    /\ panel \in {"down", "up"}
    /\ panel = "up" => nodes = disk

\* Both files hold versions of the operator's entries, and so does the memory of
\* a panel that anybody can use.  Unless there was damage, it is what is on disk.
PanelInv ==
    /\ Decodes(disk) => Derived(disk)
    /\ Decodes(bak) => Derived(bak)
    /\ single # Absent => Random(single) /\ Complete(single)
    /\ panel # "down" => Complete(nodes)
    /\ panel = "creating" => Random(nodes)
    /\ panel \in {"saving", "promoting"} => Derived(nodes) /\ ValidateNodesFile(nodes)
    /\ panel = "up" => Random(nodes) \/ (Derived(nodes) /\ (damages = 0 => Settled))

\* x is a right answer to the k-th request, now and after anything but damage.
Answers(x, k) ==
    /\ k \in DOMAIN Requests
    /\ x.id = Requests[k].id /\ x.protocol = Requests[k].type
    /\ Suited(x.protocol)
    /\ damages = 0 => Settled
    /\ x.protocol = "vless" =>
         /\ x.priv # NoKey
         /\ entries[x.id].priv # NoKey => x.priv = entries[x.id].priv
         /\ damages = 0 => x.priv = disk[x.id].priv

FetchInv ==
    /\ mode \in {"vless", "hy2", "both"} /\ token \in {"shared", "own"}
    /\ \A k \in 1..Len(fetched) : Answers(fetched[k], k)
    /\ pc = "fetch" => Len(fetched) < Len(Requests)
    /\ pc \in {"build", "openCert", "cert", "openKey", "key", "openConfig", "config"} =>
         Len(fetched) = Len(Requests)

ConfigInv ==
    /\ config \notin {Absent, Empty, Torn} =>
         \A k \in 1..Len(config) : Answers(config[k], k)
    /\ pc = "running" => config \notin {Absent, Empty, Torn}

\* As long as nothing was interrupted, the files are in order except where the
\* generator is writing them.
PairInv ==
    kills = 0 /\ ioErrors = 0 =>
        /\ pc \notin {"cert", "openKey", "key"} => Absent \in {cert, key} \/ PairMatches
        /\ pc \in {"openKey", "key"} => cert = pairs
        /\ config = Torn => pc = "config"

Inv == TypeOK /\ CountInv /\ PanelInv /\ FetchInv /\ ConfigInv /\ PairInv

-----------------------------------------------------------------------------
(* Lemmas about the operators.                                             *)

\* Completing the keys of an entry changes nothing else, and no private key
\* that is given.
LEMMA EnsureKeeps ==
    ASSUME NEW n \in NodeEntry, NEW fresh \in Keys
    PROVE  LET e == EnsureRealityKeypair(n, fresh)
           IN  /\ e \in NodeEntry
               /\ e.type = n.type /\ e.enabled = n.enabled /\ e.token = n.token
               /\ e.port = n.port
               /\ e.priv = IF ServesVless(n) /\ n.priv = NoKey THEN fresh ELSE n.priv
               /\ ServesVless(n) => e.pub = e.priv
               /\ ServesVless(n) /\ n.priv # NoKey /\ n.pub = n.priv => e = n
               /\ ~ServesVless(n) => e = n
<1> DEFINE k == IF n.priv = NoKey THEN fresh ELSE n.priv
           f == [n EXCEPT !.priv = k, !.pub = k]
<1>1. k \in Keys
  BY DEF NodeEntry
<1>2. /\ f \in NodeEntry
      /\ f.type = n.type /\ f.enabled = n.enabled /\ f.token = n.token /\ f.port = n.port
      /\ f.priv = k /\ f.pub = k
      /\ n.priv = k /\ n.pub = k => f = n
  BY <1>1 DEF NodeEntry
<1>3. EnsureRealityKeypair(n, fresh) = IF ~ServesVless(n) THEN n ELSE f
  BY DEF EnsureRealityKeypair
<1> QED
  BY <1>2, <1>3

\* A key the panel makes is a key, and is given.
LEMMA MadeKeys ==
    ASSUME NEW i \in NodeIds, NEW n \in Nat
    PROVE  <<"made", i, n>> \in Keys /\ <<"made", i, n>> # NoKey
BY SetupAssumption DEF Keys

\* Whether an entry is valid and serves VLESS depends on its type and port.
LEMMA SameTypeSameUse ==
    ASSUME NEW n, NEW e, e.type = n.type, e.port = n.port
    PROVE  ValidateNodeEntry(e) = ValidateNodeEntry(n) /\ ServesVless(e) = ServesVless(n)
BY DEF ValidateNodeEntry, ServesVless

\* A mode has one request for each of its protocols, to the node of that
\* protocol.
LEMMA RequestsFacts ==
    ASSUME mode \in {"vless", "hy2", "both"}
    PROVE  /\ Len(Requests) \in {1, 2} /\ DOMAIN Requests = 1..Len(Requests)
           /\ \A k \in DOMAIN Requests :
                /\ Requests[k].type \in {"vless", "hysteria"}
                /\ Requests[k].id = IF Requests[k].type = "vless" THEN VlessId ELSE Hy2Id
                /\ Requests[k].id \in NodeIds
           /\ {Requests[k].type : k \in DOMAIN Requests} = Modes[mode]
<1> DEFINE vless == [id |-> VlessId, type |-> "vless"]
           hy2 == [id |-> Hy2Id, type |-> "hysteria"]
<1>1. CASE mode = "vless"
  <2>1. Requests = <<vless>> /\ Modes[mode] = {"vless"}
    BY <1>1 DEF Requests, Modes
  <2> QED
    BY <2>1, SetupAssumption
<1>2. CASE mode = "hy2"
  <2>1. Requests = <<hy2>> /\ Modes[mode] = {"hysteria"}
    BY <1>2 DEF Requests, Modes
  <2> QED
    BY <2>1, SetupAssumption
<1>3. CASE mode = "both"
  <2>1. Requests = <<vless, hy2>> /\ Modes[mode] = {"vless", "hysteria"}
    BY <1>3 DEF Requests, Modes
  <2>2. Len(Requests) = 2 /\ DOMAIN Requests = 1..2
    BY <2>1
  <2>3. Requests[1] = vless /\ Requests[2] = hy2 /\ \A k \in 1..2 : k = 1 \/ k = 2
    BY <2>1
  <2>4. {Requests[k].type : k \in 1..2} = {"vless", "hysteria"}
    BY <2>3
  <2> QED
    BY <2>1, <2>2, <2>3, <2>4, SetupAssumption
<1> QED
  BY <1>1, <1>2, <1>3

\* An answer that names a protocol comes from a node of the type requested.
LEMMA AnswerMatches ==
    ASSUME NEW id, NEW requested \in {"vless", "hysteria"},
           Authenticate(id, token, requested), NodeConfigResponse(id).protocol # ""
    PROVE  /\ NodeConfigResponse(id).protocol = requested
           /\ NormalizeNodeType(nodes[id].type) = NormalizeNodeType(requested)
           /\ requested = "vless" => NodeConfigResponse(id).priv = nodes[id].priv
           /\ requested # "vless" => NodeConfigResponse(id).priv = NoKey
           /\ NodeConfigResponse(id).id = id
<1> DEFINE type == NormalizeNodeType(nodes[id].type)
<1>1. type \in {"both", NormalizeNodeType(requested)}
  BY DEF Authenticate, MatchNodeType
<1>2. NormalizeNodeType(requested) = IF requested = "vless" THEN "vless" ELSE "hy2"
  BY DEF NormalizeNodeType
<1>3. /\ NodeConfigResponse(id).protocol = CASE type = "vless" -> "vless"
                                             [] type = "hy2"   -> "hysteria"
                                             [] OTHER          -> ""
      /\ NodeConfigResponse(id).priv = IF type = "vless" THEN nodes[id].priv ELSE NoKey
      /\ NodeConfigResponse(id).id = id
  BY DEF NodeConfigResponse
<1> QED
  BY <1>1, <1>2, <1>3
-----------------------------------------------------------------------------
(* The steps of the two sides.                                             *)

Panel == PanelStart \/ PanelStartSingle \/ KeepBackup \/ Promote \/ CreateSingle \/ PanelStops
         \/ Damage
Writes == OpenCert \/ WriteCert \/ OpenKey \/ WriteKey \/ OpenConfig \/ WriteConfig
Ends == FetchFails \/ WriteFails \/ RunFails \/ Kill
Agent == Start \/ Fetch \/ Build \/ Writes \/ Run \/ Ends

\* Every step is one of the panel or of the agent.
LEMMA NextCases ==
    ASSUME [Next]_vars
    PROVE  Panel \/ Agent \/ UNCHANGED vars
BY DEF Next, Generate, PanelStarts, SaveNode, Panel, Agent, Writes, Ends

\* Neither side touches the other's state, nor what was set up.
LEMMA SidesKeep ==
    /\ Panel => UNCHANGED <<setup, agentVars, ioErrors>>
    /\ Agent => UNCHANGED <<setup, panelVars>>
<1>1. Panel => UNCHANGED <<setup, agentVars, ioErrors>>
  BY DEF Panel, PanelStart, PanelStartSingle, KeepBackup, Promote, CreateSingle, PanelStops, Damage
<1>2. Agent => UNCHANGED <<setup, panelVars>>
  BY DEF Agent, Start, Fetch, Build, Writes, OpenCert, WriteCert, OpenKey, WriteKey,
         OpenConfig, WriteConfig, Run, Ends, FetchFails, WriteFails, RunFails, Kill,
         Fail, Others
<1> QED
  BY <1>1, <1>2

\* Stopping the agent changes no file and none of its locals.
LEMMA EndsKeep ==
    Ends => pc' = "off" /\ UNCHANGED <<fetched, cert, key, config, pairs>>
BY DEF Ends, FetchFails, WriteFails, RunFails, Kill, Fail, Goto, Files

\* The initial states satisfy the invariant.
LEMMA InvInit == Init => Inv
<1> SUFFICES ASSUME Init
             PROVE  Inv
  OBVIOUS
<1>1. /\ entries \in Documents /\ nodes \in Documents /\ disk = entries
      /\ bak = Absent /\ single = Absent
  BY SetupAssumption DEF Init, Documents
<1>2. fetched \in Seq(NodeConfig) /\ Len(fetched) = 0
  BY DEF Init
<1>3. Len(Requests) \in {1, 2}
  BY RequestsFacts DEF Init
<1>4. cert \in {0, Absent} /\ key \in {0, Absent} /\ pairs = 0
  BY DEF Init
<1>5. TypeOK
  BY <1>1, <1>2, <1>3, <1>4 DEF Init, TypeOK, Contents
<1>6. CountInv /\ PanelInv
  BY <1>1 DEF Init, CountInv, PanelInv, Decodes, Derived
<1>7. FetchInv
  BY <1>2 DEF Init, FetchInv
<1>8. ConfigInv
  BY DEF Init, ConfigInv
<1>9. PairInv
  BY <1>4, SetupAssumption DEF Init, PairInv, PairMatches
<1> QED
  BY <1>5, <1>6, <1>7, <1>8, <1>9 DEF Inv

-----------------------------------------------------------------------------
(* Steps of the panel.                                                     *)

\* What a start that gets through loads: a version of the entries, with all keys.
LEMMA WithKeysFacts ==
    ASSUME Inv, Loadable
    PROVE  /\ WithKeys \in Documents
           /\ Complete(WithKeys) /\ Derived(WithKeys) /\ ValidateNodesFile(WithKeys)
           /\ Source = disk /\ Complete(disk) => WithKeys = disk
<1>1. Source \in {disk, bak} /\ Decodes(Source) /\ ValidateNodesFile(Source)
  BY DEF Loadable, Usable, Source
<1>2. Source \in Documents /\ Derived(Source)
  BY <1>1 DEF Inv, TypeOK, PanelInv, Decodes
<1>3. ASSUME NEW i \in NodeIds
      PROVE  /\ WithKeys[i] \in NodeEntry \cup {NoNode}
             /\ WithKeys[i] = NoNode <=> Source[i] = NoNode
             /\ Source[i] # NoNode =>
                  /\ WithKeys[i].type = Source[i].type /\ WithKeys[i].enabled = Source[i].enabled
                  /\ WithKeys[i].token = Source[i].token
                  /\ Source[i].priv # NoKey => WithKeys[i].priv = Source[i].priv
                  /\ ValidateNodeEntry(WithKeys[i])
                  /\ ServesVless(WithKeys[i]) =>
                       WithKeys[i].priv # NoKey /\ WithKeys[i].pub = WithKeys[i].priv
                  /\ (ServesVless(Source[i]) =>
                         Source[i].priv # NoKey /\ Source[i].pub = Source[i].priv)
                     => WithKeys[i] = Source[i]
  <2> DEFINE fresh == <<"made", i, starts + 1>>
             n == Source[i]
             e == EnsureRealityKeypair(n, fresh)
  <2>1. WithKeys[i] = IF n # NoNode THEN e ELSE NoNode
    BY DEF WithKeys, Managed
  <2>2. n \in NodeEntry \cup {NoNode} /\ starts + 1 \in Nat
    BY <1>2 DEF Inv, CountInv, Documents
  <2>3. fresh \in Keys /\ fresh # NoKey
    BY <2>2, MadeKeys
  <2>4. CASE n # NoNode
    <3>1. /\ e \in NodeEntry /\ e.type = n.type /\ e.port = n.port
          /\ e.enabled = n.enabled /\ e.token = n.token
          /\ e.priv = IF ServesVless(n) /\ n.priv = NoKey THEN fresh ELSE n.priv
          /\ ServesVless(n) => e.pub = e.priv
          /\ ServesVless(n) /\ n.priv # NoKey /\ n.pub = n.priv => e = n
          /\ ~ServesVless(n) => e = n
      BY <2>2, <2>3, <2>4, EnsureKeeps
    <3>2. ValidateNodeEntry(e) = ValidateNodeEntry(n) /\ ServesVless(e) = ServesVless(n)
      BY <3>1, SameTypeSameUse
    <3>3. ValidateNodeEntry(n)
      BY <1>1, <2>4 DEF ValidateNodesFile, Managed
    <3>4. e # NoNode
      BY <3>1, SetupAssumption
    <3> HIDE DEF e, n, fresh
    <3> QED
      BY <2>1, <2>3, <2>4, <3>1, <3>2, <3>3, <3>4 DEF n
  <2>5. CASE n = NoNode
    BY <2>1, <2>5
  <2> QED
    BY <2>4, <2>5
<1>4. WithKeys \in Documents
  BY <1>3 DEF WithKeys, Documents
<1>5. Complete(WithKeys)
  BY <1>3 DEF Complete
<1>6. Derived(WithKeys)
  BY <1>2, <1>3 DEF Derived
<1>7. ValidateNodesFile(WithKeys)
  <2>1. Managed(WithKeys) = Managed(Source)
    BY <1>3 DEF Managed
  <2> QED
    BY <1>1, <1>3, <2>1 DEF ValidateNodesFile, Managed
<1>8. ASSUME Source = disk, Complete(disk)
      PROVE  WithKeys = disk
  <2>1. \A i \in NodeIds : WithKeys[i] = disk[i]
    BY <1>3, <1>8 DEF Complete
  <2> QED
    BY <1>2, <1>4, <1>8, <2>1 DEF Documents
<1> QED
  BY <1>4, <1>5, <1>6, <1>7, <1>8

\* The node of a new node.json has its keys, and a token of its own.
LEMMA DefaultNodeFacts ==
    ASSUME Inv
    PROVE  DefaultNode \in Documents /\ Complete(DefaultNode) /\ Random(DefaultNode)
<1> DEFINE k == <<"made", 1, starts + 1>>
           n == [type |-> "vless", enabled |-> TRUE, token |-> "random", port |-> 443,
                 priv |-> k, pub |-> k]
<1>1. k \in Keys /\ k # NoKey
  BY MadeKeys, SetupAssumption DEF Inv, CountInv
<1>2. DefaultNode = [i \in NodeIds |-> IF i # 1 THEN NoNode ELSE n]
  BY DEF DefaultNode
<1> HIDE DEF k
<1>3. n \in NodeEntry /\ n.priv # NoKey /\ n.pub = n.priv /\ n.token = "random"
  <2>1. n.priv # NoKey /\ n.pub = n.priv /\ n.token = "random"
    BY <1>1
  <2>2. n \in NodeEntry
    BY <1>1 DEF NodeEntry
  <2> QED
    BY <2>1, <2>2
<1>4. ValidateNodeEntry(n)
  BY DEF ValidateNodeEntry, NormalizeNodeType
<1> HIDE DEF n
<1>5. DefaultNode \in Documents
  BY <1>2, <1>3 DEF Documents
<1>6. Complete(DefaultNode)
  BY <1>2, <1>3, <1>4 DEF Complete
<1>7. Random(DefaultNode)
  BY <1>2, <1>3 DEF Random
<1> QED
  BY <1>5, <1>6, <1>7

\* A step of the panel leaves the requests of the agent as they are.
LEMMA RequestsStay ==
    ASSUME UNCHANGED mode
    PROVE  Requests' = Requests
BY DEF Requests

\* Once nodes.json is settled, nothing but damage changes it.
LEMMA SettledStays ==
    ASSUME Inv, Panel, Settled, ~Damage
    PROVE  Settled' /\ disk' = disk /\ damages' = damages
<1>0. Decodes(disk) /\ disk # Absent /\ panel \in {"down", "up"}
  BY DEF Settled, Decodes
<1>1. CASE PanelStart
  <2>1. Source = disk
    BY DEF Settled, Source, Usable
  <2>2. nodes' = disk /\ panel' = "up" /\ disk' = disk /\ damages' = damages
    BY <1>1, <2>1, WithKeysFacts DEF PanelStart, Settled, files
  <2> QED
    BY <2>2 DEF Settled, Decodes, Complete, ValidateNodesFile, Managed
<1>2. CASE PanelStops
  <2>1. disk' = disk /\ damages' = damages /\ panel' = "down"
    BY <1>0, <1>2 DEF PanelStops
  <2> QED
    BY <2>1 DEF Settled, Decodes, Complete, ValidateNodesFile, Managed
<1>3. ~(PanelStartSingle \/ KeepBackup \/ Promote \/ CreateSingle)
  BY <1>0 DEF PanelStartSingle, KeepBackup, Promote, CreateSingle
<1> QED
  BY <1>1, <1>2, <1>3 DEF Panel

\* Whatever the panel does, what it answered before is still right.
LEMMA PanelKeepsAnswers ==
    ASSUME Inv, Panel, NEW x, NEW k, Answers(x, k)
    PROVE  Answers(x, k)'
<1>1. UNCHANGED <<entries, mode, token>> /\ Requests' = Requests
  BY SidesKeep, RequestsStay DEF setup
<1>2. Suited(x.protocol)' = Suited(x.protocol)
  BY <1>1 DEF Suited, NodeOf
<1>3. damages' = 0 => damages = 0 /\ Settled' /\ disk' = disk
  <2>1. CASE Damage
    BY <2>1 DEF Damage, Inv, CountInv
  <2>2. CASE ~Damage
    <3>1. damages' = damages
      BY <2>2 DEF Panel, PanelStart, PanelStartSingle, KeepBackup, Promote, CreateSingle,
                  PanelStops, files
    <3> QED
      BY <2>2, <3>1, SettledStays DEF Answers
  <2> QED
    BY <2>1, <2>2
<1> QED
  BY <1>1, <1>2, <1>3 DEF Answers

\* A step of the panel keeps its files and its memory in order.
LEMMA PanelKeepsFiles ==
    ASSUME Inv, Panel
    PROVE  PanelInv' /\ CountInv'
<1>0. entries' = entries /\ kills' = kills /\ ioErrors' = ioErrors
  BY SidesKeep DEF setup, agentVars
<1> USE DEF Derived, Random, Complete, ValidateNodesFile, Managed
<1>1. CASE PanelStart
  <2>1. /\ nodes' = WithKeys /\ starts' = starts + 1
        /\ panel' = IF nodes' = disk THEN "up" ELSE "saving"
        /\ UNCHANGED <<disk, bak, single, damages>>
    BY <1>1 DEF PanelStart, files
  <2> HIDE DEF Derived, Random, Complete, ValidateNodesFile, Managed
  <2>2. /\ WithKeys \in Documents /\ Complete(WithKeys) /\ Derived(WithKeys)
        /\ ValidateNodesFile(WithKeys)
    BY <1>1, WithKeysFacts DEF PanelStart
  <2>3. /\ Complete(nodes)' /\ Derived(nodes)' /\ ValidateNodesFile(nodes)'
    BY <1>0, <2>1, <2>2 DEF Derived, Complete, ValidateNodesFile, Managed
  <2>4. panel' = "up" => Settled'
    BY <2>1, <2>2, <2>3, SetupAssumption DEF Settled, Decodes, Complete, ValidateNodesFile, Managed
  <2>5. /\ Decodes(disk)' => Derived(disk)'
        /\ Decodes(bak)' => Derived(bak)'
        /\ single' # Absent => Random(single)' /\ Complete(single)'
    BY <1>0, <2>1 DEF Inv, PanelInv, Decodes, Derived, Random, Complete
  <2> QED
    BY <1>0, <2>1, <2>3, <2>4, <2>5 DEF Inv, PanelInv, CountInv
<1>2. CASE PanelStartSingle
  <2>1. /\ nodes' = IF single = Absent THEN DefaultNode ELSE single
        /\ starts' = starts + 1 /\ panel' = IF single = Absent THEN "creating" ELSE "up"
        /\ UNCHANGED <<disk, bak, single, damages>>
    BY <1>2 DEF PanelStartSingle, files
  <2> HIDE DEF Derived, Random, Complete, ValidateNodesFile, Managed
  <2>2. Complete(nodes)' /\ Random(nodes)'
    BY <2>1, DefaultNodeFacts DEF Inv, PanelInv, Random, Complete
  <2>3. /\ Decodes(disk)' => Derived(disk)'
        /\ Decodes(bak)' => Derived(bak)'
        /\ single' # Absent => Random(single)' /\ Complete(single)'
    BY <1>0, <2>1 DEF Inv, PanelInv, Decodes, Derived, Random, Complete
  <2> QED
    BY <1>0, <2>1, <2>2, <2>3 DEF Inv, PanelInv, CountInv
<1>3. CASE KeepBackup
  BY <1>0, <1>3 DEF KeepBackup, Inv, PanelInv, CountInv, Decodes
<1>4. CASE Promote
  <2>1. /\ disk' = nodes /\ panel = "promoting" /\ panel' = "up"
        /\ UNCHANGED <<bak, single, damages, nodes, starts>>
    BY <1>4 DEF Promote
  <2> HIDE DEF Derived, Random, Complete, ValidateNodesFile, Managed
  <2>2. Derived(nodes) /\ Complete(nodes) /\ ValidateNodesFile(nodes) /\ nodes \in Documents
    BY <2>1 DEF Inv, PanelInv, TypeOK
  <2>3. Derived(nodes)' /\ Complete(nodes)' /\ ValidateNodesFile(nodes)'
    BY <1>0, <2>1, <2>2 DEF Derived, Complete, ValidateNodesFile, Managed
  <2>4. Settled'
    BY <2>1, <2>2, <2>3, SetupAssumption DEF Settled, Decodes, Complete, ValidateNodesFile, Managed
  <2>5. /\ Derived(disk)'
        /\ Decodes(bak)' => Derived(bak)'
        /\ single' # Absent => Random(single)' /\ Complete(single)'
    BY <1>0, <2>1, <2>3 DEF Inv, PanelInv, Decodes, Derived, Random, Complete
  <2> QED
    BY <1>0, <2>1, <2>3, <2>4, <2>5 DEF Inv, PanelInv, CountInv
<1>5. CASE CreateSingle
  BY <1>0, <1>5 DEF CreateSingle, Inv, PanelInv, CountInv, Decodes
<1>6. CASE PanelStops
  BY <1>0, <1>6 DEF PanelStops, Inv, PanelInv, CountInv, Decodes
<1>7. CASE Damage
  BY <1>0, <1>7 DEF Damage, Inv, PanelInv, CountInv, Decodes
<1> QED
  BY <1>1, <1>2, <1>3, <1>4, <1>5, <1>6, <1>7 DEF Panel

\* A step of the panel keeps the types of its files and its memory.
LEMMA PanelTypes ==
    ASSUME Inv, Panel
    PROVE  /\ nodes' \in Documents
           /\ disk' \in Documents \cup {Absent, Torn} /\ bak' \in Documents \cup {Absent, Torn}
           /\ single' \in Documents \cup {Absent}
           /\ panel' \in {"down", "creating", "saving", "promoting", "up"}
<1>0. /\ nodes \in Documents /\ single \in Documents \cup {Absent}
      /\ disk \in Documents \cup {Absent, Torn} /\ bak \in Documents \cup {Absent, Torn}
      /\ panel \in {"down", "creating", "saving", "promoting", "up"}
  BY DEF Inv, TypeOK
<1>1. CASE PanelStart
  BY <1>0, <1>1, WithKeysFacts DEF PanelStart, files
<1>2. CASE PanelStartSingle
  BY <1>0, <1>2, DefaultNodeFacts DEF PanelStartSingle, files
<1>3. CASE KeepBackup \/ Promote \/ CreateSingle
  BY <1>0, <1>3 DEF KeepBackup, Promote, CreateSingle
<1>4. CASE PanelStops \/ Damage
  BY <1>0, <1>4 DEF PanelStops, Damage
<1> QED
  BY <1>1, <1>2, <1>3, <1>4 DEF Panel

\* A step of the panel keeps the invariant.
LEMMA PanelStep == Inv /\ Panel => Inv'
<1> SUFFICES ASSUME Inv, Panel
             PROVE  Inv'
  OBVIOUS
<1>0. /\ UNCHANGED <<pc, fetched, cert, key, config, pairs, kills, entries, mode, token, ioErrors>>
      /\ Requests' = Requests
  BY SidesKeep, RequestsStay DEF agentVars, setup
<1>1. CountInv' /\ PanelInv'
  BY PanelKeepsFiles
<1>2. TypeOK'
  <2>1. panel' # "down" => \A i \in NodeIds : nodes'[i] # NoNode =>
          ValidateNodeEntry(nodes'[i]) /\ (ServesVless(nodes'[i]) => nodes'[i].priv # NoKey)
    BY <1>1 DEF PanelInv, Complete
  <2>2. Contents' = Contents
    BY <1>0 DEF Contents
  <2> QED
    BY <1>0, <2>1, <2>2, PanelTypes DEF Inv, TypeOK
<1>3. FetchInv'
  <2>1. \A k \in 1..Len(fetched) : Answers(fetched[k], k)'
    BY <1>0, PanelKeepsAnswers DEF Inv, FetchInv
  <2> QED
    BY <1>0, <2>1 DEF Inv, FetchInv
<1>4. ConfigInv'
  <2>1. config \notin {Absent, Empty, Torn} => \A k \in 1..Len(config) : Answers(config[k], k)'
    BY <1>0, PanelKeepsAnswers DEF Inv, ConfigInv
  <2> QED
    BY <1>0, <2>1 DEF Inv, ConfigInv
<1>5. PairInv'
  BY <1>0 DEF Inv, PairInv, PairMatches
<1> QED
  BY <1>1, <1>2, <1>3, <1>4, <1>5 DEF Inv
-----------------------------------------------------------------------------
(* Steps of the agent.                                                     *)

\* A step of the agent changes neither the nodes nor what an answer to it is.
LEMMA AgentKeeps ==
    ASSUME Agent
    PROVE  /\ UNCHANGED <<entries, disk, bak, single, damages, nodes, panel, starts, mode, token>>
           /\ Requests' = Requests
           /\ \A x, k : Answers(x, k)' = Answers(x, k)
<1>1. UNCHANGED <<entries, disk, bak, single, damages, nodes, panel, starts, mode, token>>
  BY SidesKeep DEF panelVars, files, setup
<1>2. Requests' = Requests
  BY <1>1, RequestsStay
<1>3. \A p : Suited(p)' = Suited(p)
  BY <1>1 DEF Suited, NodeOf
<1>4. Settled' = Settled
  BY <1>1 DEF Settled, Decodes, ValidateNodesFile, Complete, Managed
<1> QED
  BY <1>1, <1>2, <1>3, <1>4 DEF Answers

\* The answer that Fetch appends is a right one.
LEMMA FetchAnswers ==
    ASSUME Inv, Fetch
    PROVE  LET k == Len(fetched) + 1
               x == NodeConfigResponse(Requests[k].id)
           IN  x \in NodeConfig /\ Answers(x, k)
<1> DEFINE k == Len(fetched) + 1
           r == Requests[k]
           x == NodeConfigResponse(r.id)
<1>1. k \in DOMAIN Requests
  BY RequestsFacts DEF Inv, TypeOK, FetchInv, Fetch
<1>2. /\ r.type \in {"vless", "hysteria"} /\ r.id \in NodeIds
      /\ r.id = IF r.type = "vless" THEN VlessId ELSE Hy2Id
  BY <1>1, RequestsFacts DEF Inv, FetchInv
<1>3. panel = "up" /\ Authenticate(r.id, token, r.type) /\ x.protocol # ""
  BY DEF Fetch, Answered
<1>4. /\ x.protocol = r.type /\ x.id = r.id
      /\ NormalizeNodeType(nodes[r.id].type) = NormalizeNodeType(r.type)
      /\ x.priv = IF r.type = "vless" THEN nodes[r.id].priv ELSE NoKey
  BY <1>2, <1>3, AnswerMatches
<1>5. /\ nodes[r.id] # NoNode /\ nodes[r.id] \in NodeEntry /\ nodes[r.id].enabled
      /\ token = IF nodes[r.id].token # "" THEN nodes[r.id].token ELSE "shared"
  BY <1>2, <1>3 DEF Inv, TypeOK, Documents, Authenticate, ValidToken
<1>6. nodes[r.id].priv \in Keys /\ NoKey \in Keys
  BY <1>5 DEF NodeEntry, Keys
<1>7. x \in NodeConfig
  <2>1. x = [protocol |-> x.protocol, id |-> x.id, priv |-> x.priv]
    BY DEF NodeConfigResponse
  <2> QED
    BY <1>2, <1>4, <1>6, <2>1 DEF NodeConfig
<1>8. Derived(nodes) /\ (damages = 0 => Settled /\ nodes = disk)
  <2>1. nodes[r.id].token # "random"
    BY <1>5 DEF Inv, FetchInv
  <2>2. ~Random(nodes)
    BY <1>2, <1>5, <2>1 DEF Random
  <2> QED
    BY <1>3, <2>2 DEF Inv, PanelInv, Settled
<1>9. /\ entries[r.id] # NoNode /\ entries[r.id].type = nodes[r.id].type
      /\ entries[r.id].enabled = nodes[r.id].enabled /\ entries[r.id].token = nodes[r.id].token
      /\ entries[r.id].priv # NoKey => nodes[r.id].priv = entries[r.id].priv
  BY <1>2, <1>5, <1>8 DEF Derived
<1>10. Suited(x.protocol)
  BY <1>2, <1>4, <1>5, <1>9 DEF Suited, NodeOf
<1>11. ASSUME x.protocol = "vless"
       PROVE  /\ x.priv # NoKey /\ x.priv = nodes[x.id].priv
              /\ entries[x.id].priv # NoKey => x.priv = entries[x.id].priv
  <2>1. NormalizeNodeType(nodes[r.id].type) = "vless"
    BY <1>4, <1>11 DEF NormalizeNodeType
  <2>2. ServesVless(nodes[r.id])
    BY <2>1 DEF ServesVless
  <2>3. nodes[r.id].priv # NoKey
    BY <1>2, <1>3, <1>5, <2>2 DEF Inv, TypeOK
  <2> QED
    BY <1>4, <1>9, <1>11, <2>3
<1> HIDE DEF x
<1> QED
  BY <1>1, <1>4, <1>7, <1>8, <1>10, <1>11 DEF Answers, x

\* A configuration that is complete is not taken for a torn one.
LEMMA FetchedIsConfig ==
    ASSUME TypeOK
    PROVE  fetched # Torn
BY SetupAssumption DEF TypeOK

\* A step of the agent keeps the counters and the panel's part.
LEMMA AgentCounts == Inv /\ Agent => CountInv' /\ PanelInv'
<1> SUFFICES ASSUME Inv, Agent
             PROVE  CountInv' /\ PanelInv'
  OBVIOUS
<1>1. kills' \in {kills, kills + 1} /\ ioErrors' \in {ioErrors, ioErrors + 1}
  BY DEF Agent, Start, Fetch, Build, Writes, OpenCert, WriteCert, OpenKey, WriteKey,
         OpenConfig, WriteConfig, Run, Ends, FetchFails, WriteFails, RunFails, Kill, Fail
<1> QED
  BY <1>1, AgentKeeps
     DEF Inv, CountInv, PanelInv, Decodes, Derived, Random, Complete, ValidateNodesFile, Managed,
         Settled

\* It keeps what is fetched right.
LEMMA AgentFetches == Inv /\ Agent => FetchInv' /\ fetched' \in Seq(NodeConfig)
<1> SUFFICES ASSUME Inv, Agent
             PROVE  FetchInv' /\ fetched' \in Seq(NodeConfig)
  OBVIOUS
<1>0. /\ FetchInv /\ fetched \in Seq(NodeConfig) /\ Len(fetched) \in Nat
      /\ Requests' = Requests /\ mode' = mode /\ token' = token
      /\ \A x, k : Answers(x, k)' = Answers(x, k)
      /\ Len(Requests) \in {1, 2}
  BY AgentKeeps, RequestsFacts DEF Inv, TypeOK, FetchInv
<1>1. CASE Start
  <2>1. fetched' = <<>> /\ pc' \in {"fetch", "load"}
    BY <1>1 DEF Start, Goto
  <2>2. Len(fetched') = 0 /\ fetched' \in Seq(NodeConfig)
    BY <2>1
  <2>3. 1..Len(fetched') = {}
    BY <2>2
  <2>4. 0 < Len(Requests)
    <3>1. Len(Requests) = 1 \/ Len(Requests) = 2
      BY <1>0
    <3> QED
      BY <3>1
  <2> QED
    BY <1>0, <2>1, <2>2, <2>3, <2>4 DEF FetchInv
<1>2. CASE Fetch
  <2> DEFINE n == Len(fetched) + 1
             x == NodeConfigResponse(Requests[n].id)
  <2>1. x \in NodeConfig /\ Answers(x, n)
    BY <1>2, FetchAnswers
  <2>2. fetched' = Append(fetched, x) /\ pc = "fetch"
        /\ pc' = IF Len(fetched') = Len(Requests) THEN "build" ELSE "fetch"
    BY <1>2 DEF Fetch, Goto
  <2> HIDE DEF x
  <2>3. /\ fetched' \in Seq(NodeConfig) /\ Len(fetched') = n
        /\ \A k \in 1..n : fetched'[k] = IF k = n THEN x ELSE fetched[k]
    BY <1>0, <2>1, <2>2
  <2>4. \A k \in 1..n : Answers(fetched'[k], k)
    BY <1>0, <2>1, <2>3 DEF FetchInv
  <2>5. \A k \in 1..Len(fetched') : Answers(fetched[k], k)'
    BY <1>0, <2>3, <2>4 DEF Answers
  <2>6. n <= Len(Requests)
    BY <1>0, <2>2 DEF FetchInv
  <2> QED
    BY <1>0, <2>2, <2>3, <2>5, <2>6 DEF FetchInv
<1>3. ASSUME fetched' = fetched, pc' \in {"off", "load", "running"} \/
                (Len(fetched) = Len(Requests) /\ pc' # "fetch")
      PROVE  FetchInv' /\ fetched' \in Seq(NodeConfig)
  <2>1. \A k \in 1..Len(fetched) : Answers(fetched[k], k)'
    BY <1>0, <1>3 DEF FetchInv
  <2> QED
    BY <1>0, <1>3, <2>1 DEF FetchInv
<1>4. Build \/ Writes => fetched' = fetched /\ Len(fetched) = Len(Requests) /\ pc' # "fetch"
  BY <1>0 DEF Build, Writes, OpenCert, WriteCert, OpenKey, WriteKey, OpenConfig, WriteConfig,
              Goto, FetchInv
<1>5. Run => fetched' = fetched /\ pc' = "running"
  BY DEF Run, Goto
<1> QED
  BY <1>1, <1>2, <1>3, <1>4, <1>5, EndsKeep DEF Agent

\* It writes right configurations, and runs only with one.
LEMMA AgentConfigures == Inv /\ Agent => ConfigInv'
<1> SUFFICES ASSUME Inv, Agent
             PROVE  ConfigInv'
  OBVIOUS
<1>0. ConfigInv /\ \A x, k : Answers(x, k)' = Answers(x, k)
  BY AgentKeeps DEF Inv
<1>1. CASE OpenConfig
  BY <1>1 DEF OpenConfig, Goto, ConfigInv
<1>2. CASE WriteConfig
  <2>1. config' = fetched /\ fetched' = fetched /\ pc' = "load"
    BY <1>2 DEF WriteConfig, Goto
  <2>2. \A k \in 1..Len(config') : Answers(config'[k], k)
    BY <2>1 DEF Inv, FetchInv
  <2>3. \A k \in 1..Len(config') : Answers(config[k], k)'
    BY <1>0, <2>2 DEF Answers
  <2> QED
    BY <2>1, <2>3 DEF ConfigInv
<1>3. ASSUME config' = config, pc' = "running" => Startable
      PROVE  ConfigInv'
  <2>1. config \notin {Absent, Empty, Torn} => \A k \in 1..Len(config) : Answers(config[k], k)'
    BY <1>0, <1>3 DEF ConfigInv
  <2> QED
    BY <1>3, <2>1 DEF ConfigInv, Startable
<1>4. Start \/ Fetch \/ Build \/ OpenCert \/ WriteCert \/ OpenKey \/ WriteKey =>
        config' = config /\ pc' # "running"
  BY DEF Start, Fetch, Build, OpenCert, WriteCert, OpenKey, WriteKey, Goto, Files
<1>5. Run => config' = config /\ Startable
  BY DEF Run, Files
<1> QED
  BY <1>1, <1>2, <1>3, <1>4, <1>5, EndsKeep DEF Agent, Writes

\* It writes certificates and keys in pairs, unless it is interrupted.
LEMMA AgentPairs == Inv /\ Agent => PairInv'
<1> SUFFICES ASSUME Inv, Agent, kills' = 0, ioErrors' = 0
             PROVE  PairInv'
  BY DEF PairInv
<1>0. TypeOK /\ PairInv /\ kills \in Nat /\ ioErrors \in Nat
  BY DEF Inv, CountInv
<1>1. /\ kills = 0 /\ ioErrors = 0 /\ ~Kill /\ ~WriteFails
      /\ config = Torn => pc = "config"
  BY <1>0 DEF Kill, WriteFails, PairInv, Agent, Start, Fetch, Build, Writes, OpenCert, WriteCert,
              OpenKey, WriteKey, OpenConfig, WriteConfig, Run, Ends, FetchFails, RunFails, Fail
<1>2. CASE OpenCert
  BY <1>0, <1>1, <1>2 DEF OpenCert, Goto, PairInv
<1>3. CASE WriteCert
  BY <1>0, <1>1, <1>3 DEF WriteCert, Goto, PairInv
<1>4. CASE OpenKey
  BY <1>0, <1>1, <1>4 DEF OpenKey, Goto, PairInv
<1>5. CASE WriteKey
  <2>1. key' = pairs /\ cert' = pairs /\ pairs \in Nat /\ pc' = "openConfig" /\ config' = config
    BY <1>0, <1>1, <1>5 DEF WriteKey, Goto, PairInv, TypeOK
  <2>2. PairMatches'
    BY <2>1, SetupAssumption DEF PairMatches
  <2> QED
    BY <1>1, <1>5, <2>1, <2>2 DEF WriteKey, PairInv
<1>6. CASE OpenConfig
  BY <1>0, <1>1, <1>6, SetupAssumption DEF OpenConfig, Goto, PairInv, PairMatches
<1>7. CASE WriteConfig
  BY <1>0, <1>1, <1>7, FetchedIsConfig DEF WriteConfig, Goto, PairInv, PairMatches
<1>8. ASSUME UNCHANGED <<cert, key, config, pairs>>, pc' \notin {"cert", "openKey", "key"},
             pc \notin {"cert", "openKey", "key", "config"}
      PROVE  PairInv'
  BY <1>0, <1>1, <1>8 DEF PairInv, PairMatches
<1>9. Start \/ Fetch \/ Build \/ Run =>
        /\ UNCHANGED <<cert, key, config, pairs>> /\ pc' \notin {"cert", "openKey", "key"}
        /\ pc \notin {"cert", "openKey", "key", "config"}
  BY DEF Start, Fetch, Build, Run, Goto, Files
<1>10. FetchFails \/ RunFails => pc \in {"fetch", "load"}
  BY DEF FetchFails, RunFails
<1> QED
  BY <1>1, <1>2, <1>3, <1>4, <1>5, <1>6, <1>7, <1>8, <1>9, <1>10, EndsKeep DEF Agent, Writes, Ends

\* It keeps the types.
LEMMA AgentType == Inv /\ Agent => TypeOK'
<1> SUFFICES ASSUME Inv, Agent
             PROVE  TypeOK'
  OBVIOUS
<1>0. /\ TypeOK /\ FetchInv /\ FetchInv' /\ fetched' \in Seq(NodeConfig)
      /\ UNCHANGED <<entries, disk, bak, single, nodes, panel, mode>> /\ Requests' = Requests
      /\ Len(Requests) \in {1, 2}
  BY AgentFetches, AgentKeeps, RequestsFacts DEF Inv, FetchInv
<1>1. Len(fetched') <= Len(Requests)
  <2>1. CASE Start
    <3>1. Len(fetched') = 0
      BY <2>1 DEF Start
    <3> QED
      BY <1>0, <3>1
  <2>2. CASE Fetch
    <3>1. pc' \in {"fetch", "build"}
      BY <2>2 DEF Fetch, Goto
    <3> QED
      BY <1>0, <3>1 DEF FetchInv
  <2>3. Build \/ Writes \/ Run \/ Ends => fetched' = fetched
    BY EndsKeep DEF Build, Writes, OpenCert, WriteCert, OpenKey, WriteKey, OpenConfig,
                    WriteConfig, Run
  <2> QED
    BY <1>0, <2>1, <2>2, <2>3 DEF Agent, TypeOK
<1>2. pc' \in {"off", "fetch", "build", "openCert", "cert", "openKey", "key",
               "openConfig", "config", "load", "running"}
  BY EndsKeep DEF Agent, Start, Fetch, Build, Writes, OpenCert, WriteCert, OpenKey, WriteKey,
                  OpenConfig, WriteConfig, Run, Goto
<1>3. cert' \in Contents' /\ key' \in Contents' /\ pairs' \in Nat
  <2>1. CASE OpenCert
    BY <1>0, <2>1 DEF OpenCert, TypeOK, Contents
  <2>2. CASE WriteCert \/ WriteKey \/ OpenKey
    BY <1>0, <2>2 DEF WriteCert, WriteKey, OpenKey, TypeOK, Contents
  <2>3. CASE UNCHANGED <<cert, key, pairs>>
    BY <1>0, <2>3 DEF TypeOK, Contents
  <2>4. Start \/ Fetch \/ Build \/ OpenConfig \/ WriteConfig \/ Run \/ Ends =>
          UNCHANGED <<cert, key, pairs>>
    BY EndsKeep DEF Start, Fetch, Build, OpenConfig, WriteConfig, Run, Files
  <2> QED
    BY <2>1, <2>2, <2>3, <2>4 DEF Agent, Writes
<1>4. \/ config' \in {Absent, Empty, Torn}
      \/ config' \in Seq(NodeConfig) /\ Len(config') = Len(Requests)
  <2>1. CASE OpenConfig
    BY <2>1 DEF OpenConfig
  <2>2. CASE WriteConfig
    BY <1>0, <2>2 DEF WriteConfig, TypeOK, FetchInv
  <2>3. Start \/ Fetch \/ Build \/ OpenCert \/ WriteCert \/ OpenKey \/ WriteKey \/ Run \/ Ends =>
          config' = config
    BY EndsKeep DEF Start, Fetch, Build, OpenCert, WriteCert, OpenKey, WriteKey, Run, Files
  <2> QED
    BY <1>0, <2>1, <2>2, <2>3 DEF Agent, Writes, TypeOK
<1> QED
  BY <1>0, <1>1, <1>2, <1>3, <1>4 DEF TypeOK

\* A step of the agent keeps the invariant.
LEMMA AgentStep == Inv /\ Agent => Inv'
BY AgentType, AgentCounts, AgentFetches, AgentConfigures, AgentPairs DEF Inv

\* So does stuttering.
LEMMA StutterStep == Inv /\ UNCHANGED vars => Inv'
<1> SUFFICES ASSUME Inv, UNCHANGED vars
             PROVE  Inv'
  OBVIOUS
<1>1. /\ UNCHANGED <<entries, disk, bak, single, damages, nodes, panel, starts, stops, pc, fetched,
                     cert, key, config, pairs, kills, mode, token, ioErrors>>
      /\ Requests' = Requests
  BY RequestsStay DEF vars, setup, files, panelVars, agentVars
<1>2. \A x, k : Answers(x, k)' = Answers(x, k)
  BY <1>1 DEF Answers, Suited, NodeOf, Settled, Decodes, ValidateNodesFile, Complete, Managed
<1>3. TypeOK'
  BY <1>1 DEF Inv, TypeOK, Contents
<1>4. CountInv' /\ PanelInv' /\ PairInv'
  BY <1>1 DEF Inv, CountInv, PanelInv, PairInv, PairMatches, Decodes, Derived, Random, Complete,
              ValidateNodesFile, Managed, Settled
<1>5. FetchInv'
  BY <1>1, <1>2 DEF Inv, FetchInv
<1>6. ConfigInv'
  BY <1>1, <1>2 DEF Inv, ConfigInv
<1> QED
  BY <1>3, <1>4, <1>5, <1>6 DEF Inv

-----------------------------------------------------------------------------
(* The theorems.                                                           *)

(***************************************************************************)
(* The invariant holds throughout.                                         *)
(***************************************************************************)
THEOREM Invariance == Spec => []Inv
<1>1. Inv /\ [Next]_vars => Inv'
  BY PanelStep, AgentStep, StutterStep, NextCases
<1> QED
  BY InvInit, <1>1, PTL DEF Spec

(***************************************************************************)
(* Every variable keeps its type, and a panel that has loaded its nodes    *)
(* has only valid ones, each VLESS node with a private key.                *)
(***************************************************************************)
THEOREM TypeCorrect == Spec => []TypeOK
<1>1. Inv => TypeOK
  BY DEF Inv
<1> QED
  BY <1>1, Invariance, PTL

(***************************************************************************)
(* A node that runs has exactly the inbounds of its mode, each set up from *)
(* a node of its protocol that the agent may use.                          *)
(***************************************************************************)
THEOREM RunsAsAsked == Spec => []RunsWhatWasAsked
<1>1. Inv => RunsWhatWasAsked
  <2> SUFFICES ASSUME Inv, pc = "running"
               PROVE  /\ {config[i].protocol : i \in 1..Len(config)} = Modes[mode]
                      /\ \A protocol \in Modes[mode] : Suited(protocol)
    BY DEF RunsWhatWasAsked
  <2>1. /\ config \in Seq(NodeConfig) /\ Len(config) = Len(Requests)
        /\ \A k \in 1..Len(config) : Answers(config[k], k)
    BY DEF Inv, TypeOK, ConfigInv
  <2>2. /\ DOMAIN Requests = 1..Len(config)
        /\ {Requests[k].type : k \in DOMAIN Requests} = Modes[mode]
    BY <2>1, RequestsFacts DEF Inv, FetchInv
  <2>3. \A k \in 1..Len(config) : config[k].protocol = Requests[k].type /\ Suited(config[k].protocol)
    BY <2>1 DEF Answers
  <2>4. {config[i].protocol : i \in 1..Len(config)} = Modes[mode]
    BY <2>2, <2>3
  <2> QED
    BY <2>3, <2>4
<1> QED
  BY <1>1, Invariance, PTL

(***************************************************************************)
(* The Reality key of a configuration is the one in nodes.json, over every *)
(* stop and start of the panel, also between the renames of a save, as     *)
(* long as that file is not damaged; and over its damage and the recovery  *)
(* from the backup too, if the key was the operator's.                     *)
(***************************************************************************)
THEOREM KeysStayInStep == Spec => []KeysAgree
<1>1. Inv => KeysAgree
  <2> SUFFICES ASSUME Inv, config \notin {Absent, Empty, Torn},
                      NEW i \in 1..Len(config), config[i].protocol = "vless"
               PROVE  /\ damages = 0 => Decodes(disk)
                      /\ Decodes(disk) /\ (damages = 0 \/ NodeOf("vless").priv # NoKey) =>
                            config[i].priv = disk[config[i].id].priv
    BY DEF KeysAgree
  <2>1. Answers(config[i], i)
    BY DEF Inv, ConfigInv
  <2>2. config[i].id = VlessId /\ VlessId \in NodeIds
    BY <2>1, RequestsFacts, SetupAssumption DEF Inv, FetchInv, Answers
  <2>3. CASE damages = 0
    BY <2>1, <2>3 DEF Answers, Settled
  <2>4. CASE damages # 0
    <3>1. Suited("vless") /\ entries[VlessId] # NoNode /\ NodeOf("vless") = entries[VlessId]
      BY <2>1 DEF Answers, Suited, NodeOf
    <3> QED
      BY <2>1, <2>2, <2>4, <3>1 DEF Inv, PanelInv, Derived, Answers
  <2> QED
    BY <2>3, <2>4
<1> QED
  BY <1>1, Invariance, PTL

(***************************************************************************)
(* Without a kill or a failing write no files are left that the next start *)
(* neither replaces nor can use.                                           *)
(***************************************************************************)
THEOREM WedgedByInterruptionsOnly == Spec => []OnlyInterruptionsWedge
<1>1. Inv => OnlyInterruptionsWedge
  BY DEF Inv, PairInv, OnlyInterruptionsWedge, Wedged
<1> QED
  BY <1>1, Invariance, PTL
=============================================================================
