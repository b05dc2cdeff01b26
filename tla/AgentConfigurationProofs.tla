---------------------- MODULE AgentConfigurationProofs ----------------------
(* Theorems about AgentConfiguration, for all its constants. *)
EXTENDS AgentConfiguration, TLAPS

-----------------------------------------------------------------------------
(* Configurations and rows *)

LEMMA FrozenTyped == \A c \in Config : Frozen(c) \in Config
BY DEF Frozen, Config

\* What an update, a binding, or the assignment of tools writes.
LEMMA WrittenTyped ==
  ASSUME NEW c \in Config
  PROVE  /\ \A v \in Values : [c EXCEPT !.value = v] \in Config
         /\ \A t \in {"cloud", "local"} : [c EXCEPT !.target = t] \in Config
         /\ [c EXCEPT !.mode = "server_proxy"] \in Config
         /\ \A d, w \in Devices : [c EXCEPT !.device = d, !.workspace = w] \in Config
         /\ [c EXCEPT !.key = TRUE] \in Config
BY DEF Config, DeviceOrNone

LEMMA RunFields ==
  \A x \in Run : /\ x.agent \in Agents /\ x.version \in 1..MaxVersion
                 /\ x.snapshot \in Config /\ x.given \in Config \cup {NoConfig}
BY DEF Run

LEMMA RunMoves ==
  ASSUME NEW x \in Run
  PROVE  /\ [x EXCEPT !.state = "running"] \in Run
         /\ [x EXCEPT !.state = "ended"] \in Run
         /\ [x EXCEPT !.given = x.snapshot] \in Run
         /\ [x EXCEPT !.state = "running", !.given = x.snapshot] \in Run
BY DEF Run

-----------------------------------------------------------------------------
(* Type correctness *)

Typed ==
  /\ TypeOK
  /\ config \in [Agents -> Config \cup {NoConfig}]
  /\ run \in [Runs -> Run \cup {NoRun}]

LEMMA InitTyped == Init => Typed
<1> SUFFICES ASSUME Init  PROVE Typed
  OBVIOUS
<1>1. 1 \in 1..MaxVersion
  BY ConfigurationAssumption
<1>2. Made = {}
  BY DEF Init, Made
<1>3. TypeOK
  BY <1>1, <1>2 DEF Init, TypeOK, DeviceOrNone, Exists
<1> QED  BY <1>3 DEF Init, Typed

\* The configuration of an Agent with a row.
LEMMA HasConfig == Typed => \A a \in Agents : Exists(a) => config[a] \in Config
BY DEF Typed, TypeOK

LEMMA HasRow == Typed => \A r \in Runs : run[r] # NoRun => run[r] \in Run
BY DEF Typed

LEMMA SaveTyped ==
  ASSUME Typed, NEW a \in Agents, NEW c \in Config, NEW vs \in SUBSET (1..MaxVersion),
         Save(a, c, vs)
  PROVE  Typed'
<1> USE DEF Save
<1>1. version' \in [Agents -> 1..MaxVersion]
  BY ConfigurationAssumption DEF Typed, TypeOK
<1>2. recorded' \in [Agents -> SUBSET (1..MaxVersion)]
  BY DEF Typed, TypeOK
<1>3. config' \in [Agents -> Config \cup {NoConfig}]
  BY DEF Typed
<1>4. \A b \in Agents : config'[b] \in IF Exists(b)' THEN Config ELSE {NoConfig}
  BY DEF Typed, TypeOK, Exists
<1>5. \A r \in Made' : run'[r] \in Run
  BY DEF Typed, TypeOK, Made
<1> QED  BY <1>1, <1>2, <1>3, <1>4, <1>5 DEF Typed, TypeOK, deviceVars

LEMMA RunTyped ==
  ASSUME Typed, NEW r \in Runs, NEW x \in Run, run' = [run EXCEPT ![r] = x],
         UNCHANGED <<agentVars, deviceVars>>
  PROVE  Typed'
<1>1. run' \in [Runs -> Run \cup {NoRun}]
  BY DEF Typed
<1>2. \A q \in Made' : run'[q] \in Run
  BY <1>1 DEF Made
<1>3. \A b \in Agents : config'[b] \in IF Exists(b)' THEN Config ELSE {NoConfig}
  BY DEF Typed, TypeOK, Exists, agentVars
<1> QED  BY <1>1, <1>2, <1>3 DEF Typed, TypeOK, agentVars, deviceVars

\* Devices, and pauses of an Agent, touch neither configurations nor runs.
LEMMA QuietTyped ==
  ASSUME Typed, UNCHANGED <<version, config, recorded, run>>,
         state' \in [Agents -> {"none", "active", "paused", "archived"}],
         \A a \in Agents : Exists(a)' <=> Exists(a),
         device' \in [Devices -> {"none", "offline", "online", "revoked"}],
         workspace' \in SUBSET Devices, connected' \in SUBSET Devices,
         model' \in [Agents -> DeviceOrNone],
         pairing' \in [Devices -> [state : {"none", "pending", "approved"},
                                   consumed : BOOLEAN, expired : BOOLEAN]],
         cli' \in [Devices -> {"off", "polling", "paired", "failed"}]
  PROVE  Typed'
<1>1. \A q \in Made' : run'[q] \in Run
  BY DEF Typed, TypeOK, Made
<1>2. \A b \in Agents : config'[b] \in IF Exists(b)' THEN Config ELSE {NoConfig}
  BY DEF Typed, TypeOK
<1> QED  BY <1>1, <1>2 DEF Typed, TypeOK

\* Every command on an Agent is a creation, a save of a configuration, or a state.
LEMMA AgentSteps ==
  ASSUME Typed, AgentNext
  PROVE  \E a \in Agents :
           \/ \E c \in Config : CreateAgent(a, c)
           \/ \E c \in Config, vs \in SUBSET (1..MaxVersion) : Save(a, c, vs)
           \/ \E s \in {"active", "paused", "archived"} : SetAgentState(a, s)
<1>1. PICK a \in Agents :
        \/ \E c \in Config : CreateAgent(a, c)
        \/ UpdateAgent(a)
        \/ \E v \in Values : SetAgentTools(a, v)
        \/ \E d \in Devices, m \in {"server_proxy", "local_direct"}, e \in {"model", "codex"} :
              BindLocalAgent(a, d, m, e)
        \/ \E d \in Devices : BindAwcAgent(a, d)
        \/ \E s \in {"active", "paused", "archived"} : SetAgentState(a, s)
  BY Zenon DEF AgentNext
<1> DEFINE Saved == \E c \in Config, vs \in SUBSET (1..MaxVersion) : Save(a, c, vs)
<1>2. ASSUME Exists(a), version[a] < MaxVersion
      PROVE  {version[a] + 1} \in SUBSET (1..MaxVersion)
  BY <1>2, ConfigurationAssumption DEF Typed, TypeOK
<1>3. CASE UpdateAgent(a)
  <2>1. config[a] \in Config
    BY <1>3, HasConfig DEF UpdateAgent
  <2>2. \E c \in Config : Save(a, c, {version[a] + 1})
    BY <1>3, <2>1, WrittenTyped DEF UpdateAgent
  <2> QED  BY <2>2, <1>2, <1>3 DEF Save, UpdateAgent
<1>4. CASE \E v \in Values : SetAgentTools(a, v)
  <2>1. PICK v \in Values : SetAgentTools(a, v)
    BY <1>4
  <2>2. [config[a] EXCEPT !.value = v] \in Config
    BY <2>1, HasConfig, WrittenTyped DEF SetAgentTools
  <2> QED  BY <2>1, <2>2, <1>2 DEF SetAgentTools, Save
<1>5. ASSUME NEW d \in Devices, NEW m \in {"server_proxy", "local_direct"},
             NEW e \in {"model", "codex"}, BindLocalAgent(a, d, m, e)
      PROVE  Saved
  <2>1. config[a] \in Config /\ {} \in SUBSET (1..MaxVersion)
    BY <1>5, HasConfig DEF BindLocalAgent
  <2> DEFINE direct == [config[a] EXCEPT !.target = "local", !.device = d, !.workspace = d,
                           !.mode = "local_direct", !.executor = e, !.awc = FALSE]
             proxy == [config[a] EXCEPT !.target = "local", !.device = d, !.workspace = d,
                          !.mode = "server_proxy", !.executor = e]
  <2>2. direct \in Config /\ proxy \in Config
    BY <2>1 DEF Config, DeviceOrNone
  <2>3. Save(a, direct, {}) \/ Save(a, proxy, {})
    BY <1>5 DEF BindLocalAgent
  <2> QED  BY <2>1, <2>2, <2>3, Zenon
<1>6. ASSUME NEW d \in Devices, BindAwcAgent(a, d)
      PROVE  Saved
  <2>1. config[a] \in Config /\ {} \in SUBSET (1..MaxVersion)
    BY <1>6, HasConfig DEF BindAwcAgent
  <2> DEFINE awc == [config[a] EXCEPT !.target = "local", !.device = d, !.workspace = d,
                        !.mode = "local_direct", !.awc = TRUE, !.key = FALSE]
  <2>2. awc \in Config
    BY <2>1 DEF Config, DeviceOrNone
  <2>3. Save(a, awc, {})
    BY <1>6 DEF BindAwcAgent
  <2> QED  BY <2>1, <2>2, <2>3, Zenon
<1> QED  BY <1>1, <1>3, <1>4, <1>5, <1>6, Zenon

\* Every step of a run is a creation, a hand-over of its own snapshot, or a move.
RunMoved(r, x) ==
  /\ run[r] # NoRun
  /\ run' = [run EXCEPT ![r] = x]
  /\ x \in Run
  /\ x.agent = run[r].agent /\ x.version = run[r].version /\ x.snapshot = run[r].snapshot
  /\ x.given \in {run[r].given, run[r].snapshot}

LEMMA RunSteps ==
  ASSUME Typed, RunNext
  PROVE  /\ UNCHANGED <<agentVars, deviceVars>>
         /\ \E r \in Runs : \/ \E a \in Agents : CreateRun(r, a)
                            \/ \E x : RunMoved(r, x)
<1>1. PICK r \in Runs :
        \/ \E a \in Agents : CreateRun(r, a)
        \/ StartRun(r) \/ OfferLocalRun(r) \/ ClaimLocalRun(r) \/ EndRun(r) \/ CancelRun(r)
  BY Zenon DEF RunNext
<1>2. UNCHANGED <<agentVars, deviceVars>>
  BY <1>1 DEF CreateRun, StartRun, OfferLocalRun, ClaimLocalRun, EndRun, CancelRun
<1>3. CASE StartRun(r)
  <2> DEFINE x == [run[r] EXCEPT !.state = "running", !.given = run[r].snapshot]
  <2>1. run[r] # NoRun /\ run[r] \in Run
    BY <1>3, HasRow DEF StartRun
  <2>2. run' = [run EXCEPT ![r] = x]
    BY <1>3 DEF StartRun, RunContext
  <2>3. x \in Run
    BY <2>1, RunMoves
  <2>4. RunMoved(r, x)
    BY <2>1, <2>2, <2>3 DEF RunMoved, Run
  <2> QED  BY <1>2, <2>4, Zenon
<1>4. CASE OfferLocalRun(r)
  <2> DEFINE x == [run[r] EXCEPT !.given = run[r].snapshot]
  <2>1. run[r] # NoRun /\ run[r] \in Run
    BY <1>4, HasRow DEF OfferLocalRun, Offerable
  <2>2. run' = [run EXCEPT ![r] = x]
    BY <1>4 DEF OfferLocalRun, RunContext
  <2>3. x \in Run
    BY <2>1, RunMoves
  <2>4. RunMoved(r, x)
    BY <2>1, <2>2, <2>3 DEF RunMoved, Run
  <2> QED  BY <1>2, <2>4, Zenon
<1>5. CASE ClaimLocalRun(r)
  <2> DEFINE x == [run[r] EXCEPT !.state = "running"]
  <2>1. run[r] # NoRun /\ run[r] \in Run
    BY <1>5, HasRow DEF ClaimLocalRun
  <2>2. run' = [run EXCEPT ![r] = x]
    BY <1>5 DEF ClaimLocalRun
  <2>3. x \in Run
    BY <2>1, RunMoves
  <2>4. RunMoved(r, x)
    BY <2>1, <2>2, <2>3 DEF RunMoved, Run
  <2> QED  BY <1>2, <2>4, Zenon
<1>6. CASE EndRun(r) \/ CancelRun(r)
  <2> DEFINE x == [run[r] EXCEPT !.state = "ended"]
  <2>1. run[r] # NoRun /\ run[r] \in Run
    BY <1>6, HasRow DEF EndRun, CancelRun
  <2>2. run' = [run EXCEPT ![r] = x]
    BY <1>6 DEF EndRun, CancelRun
  <2>3. x \in Run
    BY <2>1, RunMoves
  <2>4. RunMoved(r, x)
    BY <2>1, <2>2, <2>3 DEF RunMoved, Run
  <2> QED  BY <1>2, <2>4, Zenon
<1> QED  BY <1>1, <1>2, <1>3, <1>4, <1>5, <1>6, Zenon

\* The row create_run inserts.
NewRow(a) ==
  [agent |-> a, version |-> version[a], snapshot |-> Frozen(config[a]),
   place |-> IF config[a].target = "local" THEN "dispatch" ELSE "outbox",
   state |-> "queued", given |-> NoConfig]

LEMMA CreateRunRow ==
  ASSUME Typed, NEW r \in Runs, NEW a \in Agents, CreateRun(r, a)
  PROVE  /\ Exists(a) /\ r \notin Made
         /\ NewRow(a) \in Run
         /\ run' = [run EXCEPT ![r] = NewRow(a)]
         /\ UNCHANGED <<agentVars, deviceVars>>
<1>1. Exists(a) /\ r \notin Made /\ UNCHANGED <<agentVars, deviceVars>>
  BY DEF CreateRun, Exists
<1>2. run' = [run EXCEPT ![r] = NewRow(a)]
  BY DEF CreateRun, NewRow
<1>3. Frozen(config[a]) \in Config /\ version[a] \in 1..MaxVersion
  BY <1>1, HasConfig, FrozenTyped DEF Typed, TypeOK
<1>4. NewRow(a) \in Run
  BY <1>3 DEF NewRow, Run
<1> QED  BY <1>1, <1>2, <1>4

LEMMA DeviceStepQuiet ==
  ASSUME Typed, DeviceNext
  PROVE  UNCHANGED <<agentVars, run>> /\ Typed'
<1>1. PICK d \in Devices :
        \/ CreateLocalDevice(d) \/ StartPairing(d) \/ ApprovePairing(d) \/ PairingExpires(d)
        \/ PairingFails(d) \/ \E result \in {"paired", "failed"} : ClaimPairing(d, result)
        \/ Connect(d) \/ Disconnect(d) \/ AddLocalWorkspace(d) \/ RevokeLocalDevice(d)
        \/ \E a \in Agents : RegisterLocalModel(a, d) \/ RemoveLocalModel(a, d)
  BY Zenon DEF DeviceNext
<1>2. UNCHANGED <<agentVars, run>>
  BY <1>1 DEF CreateLocalDevice, StartPairing, ApprovePairing, PairingExpires, PairingFails,
     ClaimPairing, Connect, Disconnect, AddLocalWorkspace, RevokeLocalDevice,
     RegisterLocalModel, RemoveLocalModel, Same
<1>3. device' \in [Devices -> {"none", "offline", "online", "revoked"}]
  BY <1>1 DEF CreateLocalDevice, StartPairing, ApprovePairing, PairingExpires, PairingFails,
     ClaimPairing, Connect, Disconnect, AddLocalWorkspace, RevokeLocalDevice,
     RegisterLocalModel, RemoveLocalModel, Typed, TypeOK
<1>4. workspace' \in SUBSET Devices /\ connected' \in SUBSET Devices
  BY <1>1 DEF CreateLocalDevice, StartPairing, ApprovePairing, PairingExpires, PairingFails,
     ClaimPairing, Connect, Disconnect, AddLocalWorkspace, RevokeLocalDevice,
     RegisterLocalModel, RemoveLocalModel, Typed, TypeOK
<1>5. model' \in [Agents -> DeviceOrNone]
  BY <1>1 DEF CreateLocalDevice, StartPairing, ApprovePairing, PairingExpires, PairingFails,
     ClaimPairing, Connect, Disconnect, AddLocalWorkspace, RevokeLocalDevice,
     RegisterLocalModel, RemoveLocalModel, Typed, TypeOK, DeviceOrNone
<1>6. pairing' \in [Devices -> [state : {"none", "pending", "approved"},
                                consumed : BOOLEAN, expired : BOOLEAN]]
  <2> DEFINE Session == [state : {"none", "pending", "approved"},
                         consumed : BOOLEAN, expired : BOOLEAN]
  <2>1. pairing \in [Devices -> Session]
    BY DEF Typed, TypeOK
  <2>2. ASSUME NEW s \in Session
        PROVE  /\ [s EXCEPT !.state = "pending"] \in Session
               /\ [s EXCEPT !.state = "approved"] \in Session
               /\ [s EXCEPT !.expired = TRUE] \in Session
               /\ [s EXCEPT !.consumed = TRUE] \in Session
    OBVIOUS
  <2>3. \/ pairing' = pairing
        \/ pairing' = [pairing EXCEPT ![d] = [pairing[d] EXCEPT !.state = "pending"]]
        \/ pairing' = [pairing EXCEPT ![d] = [pairing[d] EXCEPT !.state = "approved"]]
        \/ pairing' = [pairing EXCEPT ![d] = [pairing[d] EXCEPT !.expired = TRUE]]
        \/ pairing' = [pairing EXCEPT ![d] = [pairing[d] EXCEPT !.consumed = TRUE]]
    BY <1>1 DEF CreateLocalDevice, StartPairing, ApprovePairing, PairingExpires, PairingFails,
       ClaimPairing, Connect, Disconnect, AddLocalWorkspace, RevokeLocalDevice,
       RegisterLocalModel, RemoveLocalModel
  <2> HIDE DEF Session
  <2>4. pairing' \in [Devices -> Session]
    BY <2>1, <2>2, <2>3
  <2> QED  BY <2>4 DEF Session
<1>7. cli' \in [Devices -> {"off", "polling", "paired", "failed"}]
  BY <1>1 DEF CreateLocalDevice, StartPairing, ApprovePairing, PairingExpires, PairingFails,
     ClaimPairing, Connect, Disconnect, AddLocalWorkspace, RevokeLocalDevice,
     RegisterLocalModel, RemoveLocalModel, Typed, TypeOK
<1>8. /\ UNCHANGED <<version, config, recorded, run>> /\ state' = state
      /\ state' \in [Agents -> {"none", "active", "paused", "archived"}]
      /\ \A a \in Agents : Exists(a)' <=> Exists(a)
  BY <1>2 DEF agentVars, Typed, TypeOK, Exists
<1>9. Typed'
  BY <1>3, <1>4, <1>5, <1>6, <1>7, <1>8, QuietTyped
<1> QED  BY <1>2, <1>9

LEMMA NextTyped == Typed /\ [Next]_vars => Typed'
<1> SUFFICES ASSUME Typed, [Next]_vars  PROVE Typed'
  OBVIOUS
<1>1. CASE AgentNext
  <2>1. PICK a \in Agents :
          \/ \E c \in Config : CreateAgent(a, c)
          \/ \E c \in Config, vs \in SUBSET (1..MaxVersion) : Save(a, c, vs)
          \/ \E s \in {"active", "paused", "archived"} : SetAgentState(a, s)
    BY <1>1, AgentSteps, Zenon
  <2>2. ASSUME NEW c \in Config, CreateAgent(a, c)
        PROVE  Typed'
    <3>1. 1 \in 1..MaxVersion
      BY ConfigurationAssumption
    <3>2. config' \in [Agents -> Config \cup {NoConfig}]
      BY <2>2 DEF CreateAgent, Typed
    <3>3. \A b \in Agents : config'[b] \in IF Exists(b)' THEN Config ELSE {NoConfig}
      BY <2>2 DEF CreateAgent, Typed, TypeOK, Exists
    <3>4. recorded' \in [Agents -> SUBSET (1..MaxVersion)]
      BY <2>2, <3>1 DEF CreateAgent, Typed, TypeOK
    <3>5. state' \in [Agents -> {"none", "active", "paused", "archived"}]
      BY <2>2 DEF CreateAgent, Typed, TypeOK
    <3>6. \A q \in Made' : run'[q] \in Run
      BY <2>2 DEF CreateAgent, Typed, TypeOK, Made
    <3> QED  BY <2>2, <3>2, <3>3, <3>4, <3>5, <3>6 DEF CreateAgent, Typed, TypeOK, deviceVars
  <2>3. ASSUME NEW c \in Config, NEW vs \in SUBSET (1..MaxVersion), Save(a, c, vs)
        PROVE  Typed'
    BY <2>3, SaveTyped
  <2>4. ASSUME NEW s \in {"active", "paused", "archived"}, SetAgentState(a, s)
        PROVE  Typed'
    <3>1. UNCHANGED <<version, config, recorded, run>>
      BY <2>4 DEF SetAgentState
    <3>2. /\ state' \in [Agents -> {"none", "active", "paused", "archived"}]
          /\ \A b \in Agents : Exists(b)' <=> Exists(b)
      BY <2>4 DEF SetAgentState, Exists, Typed, TypeOK
    <3> QED  BY <2>4, <3>1, <3>2, QuietTyped DEF SetAgentState, deviceVars, Typed, TypeOK
  <2> QED  BY <2>1, <2>2, <2>3, <2>4
<1>2. CASE RunNext
  <2>1. UNCHANGED <<agentVars, deviceVars>>
    BY <1>2, RunSteps
  <2>2. PICK r \in Runs : (\E a \in Agents : CreateRun(r, a)) \/ (\E x : RunMoved(r, x))
    BY <1>2, RunSteps, Zenon
  <2>3. ASSUME NEW a \in Agents, CreateRun(r, a)
        PROVE  Typed'
    BY <2>1, <2>3, CreateRunRow, RunTyped
  <2>4. ASSUME NEW x, RunMoved(r, x)
        PROVE  Typed'
    BY <2>1, <2>4, RunTyped DEF RunMoved
  <2> QED  BY <2>2, <2>3, <2>4
<1>3. CASE DeviceNext
  BY <1>3, DeviceStepQuiet
<1>4. CASE UNCHANGED vars
  <2>1. UNCHANGED <<version, config, recorded, run, state>>
    BY <1>4 DEF vars, agentVars
  <2> QED  BY <1>4, <2>1, QuietTyped DEF vars, deviceVars, Typed, TypeOK, Exists
<1> QED  BY <1>1, <1>2, <1>3, <1>4 DEF Next

\* Every variable keeps its type; a run has the snapshot of a configuration.
THEOREM TypeCorrect == Spec => []TypeOK
<1>1. Typed => TypeOK
  BY DEF Typed
<1> QED  BY <1>1, InitTyped, NextTyped, PTL DEF Spec

-----------------------------------------------------------------------------
(* Versions *)

OfExisting == \A r \in Made : Exists(run[r].agent)
NotAhead == \A r \in Made : run[r].version <= version[run[r].agent]
CurrentAsSaved ==
  \A r \in Made : run[r].version = version[run[r].agent]
                    => run[r].snapshot = Frozen(config[run[r].agent])
SnapshotsAgree ==
  \A r, q \in Made : run[r].agent = run[q].agent /\ run[r].version = run[q].version
                       => run[r].snapshot = run[q].snapshot
GivenTheSnapshot == \A r \in Made : run[r].given \in {NoConfig, run[r].snapshot}

\* A run of an earlier version is never compared with what is saved now; one of
\* the present version has what is saved, since a save counts the version.
VersionInv ==
  /\ Typed /\ OfExisting /\ NotAhead /\ CurrentAsSaved /\ SnapshotsAgree /\ GivenTheSnapshot

LEMMA MadeFields ==
  Typed => \A r \in Made : run[r] \in Run /\ r \in Runs /\ run[r].agent \in Agents
BY RunFields DEF Typed, TypeOK, Made

LEMMA SaveKeepsVersions ==
  ASSUME VersionInv, NEW a \in Agents, NEW c \in Config, NEW vs \in SUBSET (1..MaxVersion),
         Save(a, c, vs)
  PROVE  VersionInv'
<1>1. Typed'
  BY SaveTyped DEF VersionInv
<1>2. /\ run' = run /\ Made' = Made /\ state' = state
      /\ version' = [version EXCEPT ![a] = @ + 1] /\ config' = [config EXCEPT ![a] = c]
  BY DEF Save, Made
<1>3. \A r \in Made : /\ run[r].agent \in Agents /\ run[r].version \in Nat
                      /\ version[run[r].agent] \in Nat
  BY MadeFields, RunFields, ConfigurationAssumption DEF VersionInv, Typed, TypeOK
<1>4. OfExisting' /\ SnapshotsAgree' /\ GivenTheSnapshot'
  BY <1>2 DEF VersionInv, OfExisting, SnapshotsAgree, GivenTheSnapshot, Exists
<1>5. ASSUME NEW r \in Made
      PROVE  /\ run[r].version <= version'[run[r].agent]
             /\ run[r].version = version'[run[r].agent]
                  => run[r].snapshot = Frozen(config'[run[r].agent])
  <2>1. run[r].version <= version[run[r].agent]
    BY DEF VersionInv, NotAhead
  <2>2. CASE run[r].agent = a
    BY <1>2, <1>3, <2>1, <2>2 DEF VersionInv, Typed, TypeOK
  <2>3. CASE run[r].agent # a
    <3>1. version'[run[r].agent] = version[run[r].agent]
          /\ config'[run[r].agent] = config[run[r].agent]
      BY <1>2, <1>3, <2>3 DEF VersionInv, Typed, TypeOK
    <3> QED  BY <2>1, <3>1 DEF VersionInv, CurrentAsSaved
  <2> QED  BY <2>2, <2>3
<1>6. NotAhead' /\ CurrentAsSaved'
  <2>1. Made' = Made /\ run' = run
    BY <1>2
  <2> QED  BY <1>5, <2>1 DEF NotAhead, CurrentAsSaved, Frozen
<1> QED  BY <1>1, <1>4, <1>6 DEF VersionInv

\* Steps that leave the runs, and what is saved of Agents with a row, alone.
LEMMA QuietKeepsVersions ==
  ASSUME VersionInv, Typed', UNCHANGED run,
         \A a \in Agents : Exists(a) => /\ Exists(a)'
                                        /\ version'[a] = version[a] /\ config'[a] = config[a]
  PROVE  VersionInv'
<1>1. Made' = Made
  BY DEF Made
<1>2. \A r \in Made : /\ run[r].agent \in Agents /\ Exists(run[r].agent)
                      /\ Exists(run[r].agent)'
                      /\ version'[run[r].agent] = version[run[r].agent]
                      /\ config'[run[r].agent] = config[run[r].agent]
  BY MadeFields DEF VersionInv, OfExisting
<1>3. OfExisting'
  BY <1>1, <1>2 DEF OfExisting, Exists
<1>4. OfExisting' /\ SnapshotsAgree' /\ GivenTheSnapshot'
  BY <1>1, <1>3 DEF VersionInv, OfExisting, SnapshotsAgree, GivenTheSnapshot
<1>5. NotAhead' /\ CurrentAsSaved'
  BY <1>1, <1>2 DEF VersionInv, NotAhead, CurrentAsSaved, Frozen
<1> QED  BY <1>4, <1>5 DEF VersionInv

LEMMA CreateRunKeepsVersions ==
  ASSUME VersionInv, Typed', NEW r \in Runs, NEW a \in Agents, CreateRun(r, a)
  PROVE  VersionInv'
<1>1. /\ Exists(a) /\ r \notin Made /\ NewRow(a) \in Run
      /\ run' = [run EXCEPT ![r] = NewRow(a)]
      /\ state' = state /\ version' = version /\ config' = config
  BY CreateRunRow DEF VersionInv, agentVars
<1>2. Made' \subseteq Made \cup {r} /\ \A q \in Made : run'[q] = run[q]
  BY <1>1 DEF Made
<1>3. run'[r] = NewRow(a)
  BY <1>1 DEF VersionInv, Typed
<1>4. /\ NewRow(a).agent = a /\ NewRow(a).version = version[a]
      /\ NewRow(a).snapshot = Frozen(config[a]) /\ NewRow(a).given = NoConfig
  BY DEF NewRow
<1>5. version[a] \in Nat
  BY ConfigurationAssumption DEF VersionInv, Typed, TypeOK
<1>6. ASSUME NEW q \in Made'
      PROVE  /\ Exists(run'[q].agent)
             /\ run'[q].version <= version[run'[q].agent]
             /\ run'[q].version = version[run'[q].agent]
                  => run'[q].snapshot = Frozen(config[run'[q].agent])
             /\ run'[q].given \in {NoConfig, run'[q].snapshot}
  <2>1. CASE q = r
    BY <1>1, <1>3, <1>4, <1>5, <2>1
  <2>2. CASE q # r
    <3>1. q \in Made /\ run'[q] = run[q]
      BY <1>2, <2>2
    <3> QED  BY <3>1 DEF VersionInv, OfExisting, NotAhead, CurrentAsSaved, GivenTheSnapshot
  <2> QED  BY <2>1, <2>2
<1>7. OfExisting' /\ NotAhead' /\ CurrentAsSaved' /\ GivenTheSnapshot'
  <2>1. OfExisting'
    BY <1>1, <1>6 DEF OfExisting, Exists
  <2>2. NotAhead'
    BY <1>1, <1>6 DEF NotAhead
  <2>3. CurrentAsSaved'
    BY <1>1, <1>6 DEF CurrentAsSaved, Frozen
  <2>4. GivenTheSnapshot'
    BY <1>6 DEF GivenTheSnapshot
  <2> QED  BY <2>1, <2>2, <2>3, <2>4
<1>8. ASSUME NEW p \in Made', NEW q \in Made',
             run'[p].agent = run'[q].agent, run'[p].version = run'[q].version
      PROVE  run'[p].snapshot = run'[q].snapshot
  <2>1. CASE p = r \/ q = r
    BY <1>3, <1>4, <1>6, <1>8, <2>1
  <2>2. CASE p # r /\ q # r
    <3>1. /\ p \in Made /\ run'[p] = run[p]
          /\ q \in Made /\ run'[q] = run[q]
      BY <1>2, <2>2
    <3> QED  BY <3>1, <1>8 DEF VersionInv, SnapshotsAgree
  <2> QED  BY <2>1, <2>2
<1>9. SnapshotsAgree'
  BY <1>8 DEF SnapshotsAgree
<1> QED  BY <1>7, <1>9 DEF VersionInv

LEMMA MoveKeepsVersions ==
  ASSUME VersionInv, Typed', NEW r \in Runs, NEW x, RunMoved(r, x), UNCHANGED agentVars
  PROVE  VersionInv'
<1>1. /\ r \in Made /\ run'[r] = x /\ Made' \subseteq Made
      /\ \A q \in Made : q # r => run'[q] = run[q]
  BY DEF RunMoved, Made, VersionInv, Typed
<1>2. \A q \in Made : /\ run'[q].agent = run[q].agent /\ run'[q].version = run[q].version
                      /\ run'[q].snapshot = run[q].snapshot
                      /\ run'[q].given \in {run[q].given, run[q].snapshot}
  BY <1>1 DEF RunMoved
<1>3. state' = state /\ version' = version /\ config' = config
  BY DEF agentVars
<1>4. OfExisting' /\ NotAhead'
  BY <1>1, <1>2, <1>3 DEF VersionInv, OfExisting, NotAhead, Exists
<1>5. CurrentAsSaved'
  BY <1>1, <1>2, <1>3 DEF VersionInv, CurrentAsSaved, Frozen
<1>6. SnapshotsAgree'
  BY <1>1, <1>2 DEF VersionInv, SnapshotsAgree
<1>7. GivenTheSnapshot'
  BY <1>1, <1>2 DEF VersionInv, GivenTheSnapshot
<1> QED  BY <1>4, <1>5, <1>6, <1>7 DEF VersionInv

LEMMA VersionInvHolds == Spec => []VersionInv
<1>1. Init => VersionInv
  <2> SUFFICES ASSUME Init  PROVE VersionInv
    OBVIOUS
  <2>1. Made = {}
    BY DEF Init, Made
  <2> QED  BY <2>1, InitTyped
           DEF VersionInv, OfExisting, NotAhead, CurrentAsSaved, SnapshotsAgree, GivenTheSnapshot
<1>2. VersionInv /\ [Next]_vars => VersionInv'
  <2> SUFFICES ASSUME VersionInv, [Next]_vars  PROVE VersionInv'
    OBVIOUS
  <2>1. Typed /\ Typed'
    BY NextTyped DEF VersionInv
  <2>2. CASE AgentNext
    <3>1. PICK a \in Agents :
            \/ \E c \in Config : CreateAgent(a, c)
            \/ \E c \in Config, vs \in SUBSET (1..MaxVersion) : Save(a, c, vs)
            \/ \E s \in {"active", "paused", "archived"} : SetAgentState(a, s)
      BY <2>1, <2>2, AgentSteps, Zenon
    <3>2. ASSUME NEW c \in Config, CreateAgent(a, c)
          PROVE  VersionInv'
      <4>1. UNCHANGED run
        BY <3>2 DEF CreateAgent
      <4>2. ASSUME NEW b \in Agents, Exists(b)
            PROVE  Exists(b)' /\ version'[b] = version[b] /\ config'[b] = config[b]
        BY <3>2, <4>2, <2>1 DEF CreateAgent, Exists, Typed, TypeOK
      <4> QED  BY <4>1, <4>2, <2>1, QuietKeepsVersions
    <3>3. ASSUME NEW c \in Config, NEW vs \in SUBSET (1..MaxVersion), Save(a, c, vs)
          PROVE  VersionInv'
      BY <3>3, SaveKeepsVersions
    <3>4. ASSUME NEW s \in {"active", "paused", "archived"}, SetAgentState(a, s)
          PROVE  VersionInv'
      <4>1. UNCHANGED <<run, version, config>>
        BY <3>4 DEF SetAgentState
      <4>2. ASSUME NEW b \in Agents, Exists(b)
            PROVE  Exists(b)'
        BY <3>4, <4>2, <2>1 DEF SetAgentState, Exists, Typed, TypeOK
      <4> QED  BY <4>1, <4>2, <2>1, QuietKeepsVersions
    <3> QED  BY <3>1, <3>2, <3>3, <3>4
  <2>3. CASE RunNext
    <3>1. UNCHANGED <<agentVars, deviceVars>>
      BY <2>1, <2>3, RunSteps
    <3>2. PICK r \in Runs : (\E a \in Agents : CreateRun(r, a)) \/ (\E x : RunMoved(r, x))
      BY <2>1, <2>3, RunSteps, Zenon
    <3>3. ASSUME NEW a \in Agents, CreateRun(r, a)
          PROVE  VersionInv'
      BY <2>1, <3>3, CreateRunKeepsVersions
    <3>4. ASSUME NEW x, RunMoved(r, x)
          PROVE  VersionInv'
      BY <2>1, <3>1, <3>4, MoveKeepsVersions
    <3> QED  BY <3>2, <3>3, <3>4
  <2>4. CASE DeviceNext \/ UNCHANGED vars
    <3>1. UNCHANGED <<agentVars, run>>
      BY <2>1, <2>4, DeviceStepQuiet DEF vars
    <3>2. UNCHANGED <<state, version, config, run>>
      BY <3>1 DEF agentVars
    <3> QED  BY <2>1, <3>2, QuietKeepsVersions DEF Exists
  <2> QED  BY <2>2, <2>3, <2>4 DEF Next
<1> QED  BY <1>1, <1>2, PTL DEF Spec

\* Runs that name the same version of an Agent are executed with the same
\* configuration: what get_run_context hands out is the row's own snapshot, and
\* the UPDATE that changes a configuration counts its version.
THEOREM OneConfigurationPerVersion == Spec => []RunsOfAVersionAgree
<1>1. VersionInv => RunsOfAVersionAgree
  BY DEF VersionInv, SnapshotsAgree, GivenTheSnapshot, RunsOfAVersionAgree
<1> QED  BY <1>1, VersionInvHolds, PTL

\* A run is handed to its executor with the configuration it froze when it was
\* created, or has not been handed out.
THEOREM HandedOutAsFrozen == Spec => []GivenTheSnapshot
<1>1. VersionInv => GivenTheSnapshot
  BY DEF VersionInv
<1> QED  BY <1>1, VersionInvHolds, PTL
=============================================================================
