------------------------- MODULE AgentConfiguration -------------------------
(***************************************************************************)
(* Configurations of Agents in agent-service/app/main.py: their versions,   *)
(* the snapshot a run freezes, and the pairing of the local devices an      *)
(* Agent may be bound to.                                                   *)
(*                                                                          *)
(* The API is one process and a command holds its lock, or does not await,  *)
(* until it commits: a command is one step.  Leases are the subject of      *)
(* LocalLease, queues of RunDispatch: a run here is offered, started, ended.*)
(***************************************************************************)
EXTENDS Naturals, FiniteSets

CONSTANTS
    Agents,         \* of one owner
    Devices,        \* ids; the pairing that would create a device has its id
    None,
    Runs,           \* run ids
    Values,         \* the content: prompt, model, parameters, policy, tools
    MaxConcurrent,  \* run_policy.max_concurrent_runs
    MaxVersion      \* bound on the saved versions of an Agent

ASSUME ConfigurationAssumption ==
    /\ None \notin Devices /\ None \notin Agents
    /\ MaxConcurrent \in Nat \ {0} /\ MaxVersion \in Nat \ {0}

VARIABLES
    state,      \* per Agent: agents.state, "none" without a row
    version,    \* per Agent: current_version
    config,     \* per Agent: what a run freezes
    recorded,   \* per Agent: the versions of agent_versions
    run,        \* per run: the row, its snapshot and its place
    device,     \* local_agent_devices.status, "none" without a row
    workspace,  \* devices with a row of local_workspaces
    model,      \* per Agent: device_id of local_agent_models
    pairing,    \* per device: pairing_sessions
    cli,        \* per device: the command `auth login` that pairs it
    connected   \* devices with an open websocket

agentVars == <<state, version, config, recorded>>
deviceVars == <<device, workspace, model, pairing, cli, connected>>
vars == <<agentVars, run, deviceVars>>

DeviceOrNone == Devices \cup {None}
Config == [target : {"cloud", "local"}, mode : {"server_proxy", "local_direct"},
           key : BOOLEAN, awc : BOOLEAN, device : DeviceOrNone, workspace : DeviceOrNone,
           executor : {"model", "codex"}, value : Values]
NoConfig == [target |-> "none"]
NoRun == [state |-> "none"]
Run == [agent : Agents, version : 1..MaxVersion, snapshot : Config,
        place : {"outbox", "dispatch"}, state : {"queued", "running", "ended"},
        given : Config \cup {NoConfig}]

Init ==
    /\ state = [a \in Agents |-> "none"]
    /\ version = [a \in Agents |-> 1]
    /\ config = [a \in Agents |-> NoConfig]
    /\ recorded = [a \in Agents |-> {}]
    /\ run = [r \in Runs |-> NoRun]
    /\ device = [d \in Devices |-> "none"]
    /\ workspace = {}
    /\ model = [a \in Agents |-> None]
    /\ pairing = [d \in Devices |-> [state |-> "none", consumed |-> FALSE, expired |-> FALSE]]
    /\ cli = [d \in Devices |-> "off"]
    /\ connected = {}

-----------------------------------------------------------------------------
(* Configurations *)

Exists(a) == state[a] # "none"
Known(d) == d \in Devices /\ device[d] \in {"offline", "online"}

\* get_local_workspace, and the device it belongs to; a workspace has the name
\* of its device.
Usable(d, w) == Known(d) /\ w = d /\ w \in workspace

\* What POST /agents accepts.
Direct(c) == c.target = "local" /\ c.mode = "local_direct"
Creatable(c) ==
    /\ c.executor = "model"
    /\ c.key = ~Direct(c)
    /\ c.awc => Direct(c) /\ Usable(c.device, c.workspace) /\ device[c.device] = "online"

CreateAgent(a, c) ==
    /\ ~Exists(a) /\ Creatable(c)
    /\ state' = [state EXCEPT ![a] = "active"]
    /\ config' = [config EXCEPT ![a] = c]
    /\ recorded' = [recorded EXCEPT ![a] = {1}]
    /\ UNCHANGED <<version, run, deviceVars>>

\* Mutant: a command that counts the version its UPDATE has counted.
SaveTwice(a, c, versions) ==
    /\ Exists(a) /\ version[a] < MaxVersion
    /\ version' = [version EXCEPT ![a] = @ + 2]
    /\ config' = [config EXCEPT ![a] = c]
    /\ recorded' = [recorded EXCEPT ![a] = @ \cup versions]
    /\ UNCHANGED <<state, run, deviceVars>>

\* The UPDATE of agents; versions: what _insert_version records with it.
Save(a, c, versions) ==
    /\ Exists(a) /\ version[a] < MaxVersion
    /\ version' = [version EXCEPT ![a] = @ + 1]
    /\ config' = [config EXCEPT ![a] = c]
    /\ recorded' = [recorded EXCEPT ![a] = @ \cup versions]
    /\ UNCHANGED <<state, run, deviceVars>>

\* update_agent stores what it is given, but for the model of a local_direct
\* Agent, which is the daemon's.
UpdateAgent(a) ==
    LET c == config[a]
        Update(n) == Save(a, n, {version[a] + 1})
    IN  /\ Exists(a)
        /\ \/ \E v \in Values : Update([c EXCEPT !.value = v])
           \/ \E t \in {"cloud", "local"} : Update([c EXCEPT !.target = t])
           \/ Update([c EXCEPT !.mode = "server_proxy"])
           \/ \E d, w \in Devices : Update([c EXCEPT !.device = d, !.workspace = w])
           \/ c.mode # "local_direct" /\ Update([c EXCEPT !.key = TRUE])

SetAgentTools(a, v) ==
    Exists(a) /\ Save(a, [config[a] EXCEPT !.value = v], {version[a] + 1})

\* bind_local_agent writes the row itself and records no version.
BindLocalAgent(a, d, mode, executor) ==
    /\ Exists(a) /\ Usable(d, d)
    /\ IF mode = "local_direct"
       THEN /\ ~config[a].key
            /\ executor = "model" => model[a] = d
            /\ Save(a, [config[a] EXCEPT !.target = "local", !.device = d, !.workspace = d,
                           !.mode = mode, !.executor = executor, !.awc = FALSE], {})
       ELSE /\ config[a].key
            /\ Save(a, [config[a] EXCEPT !.target = "local", !.device = d, !.workspace = d,
                           !.mode = mode, !.executor = executor], {})

BindAwcAgent(a, d) ==
    /\ Exists(a) /\ Usable(d, d) /\ device[d] = "online"
    /\ Save(a, [config[a] EXCEPT !.target = "local", !.device = d, !.workspace = d,
                   !.mode = "local_direct", !.awc = TRUE, !.key = FALSE], {})

\* pause, resume, archive
SetAgentState(a, s) ==
    /\ Exists(a) /\ state' = [state EXCEPT ![a] = s]
    /\ UNCHANGED <<version, config, recorded, run, deviceVars>>

-----------------------------------------------------------------------------
(* Runs *)

Made == {r \in Runs : run[r] # NoRun}
Active(a) == {r \in Made : run[r].agent = a /\ run[r].state \in {"queued", "running"}}

\* _freeze_run: a local_direct snapshot has no key.
Frozen(c) == IF c.mode = "local_direct" THEN [c EXCEPT !.key = FALSE] ELSE c

\* The checks of create_run for a local Agent, each followed by a rollback.
Dispatchable(c) ==
    /\ c.device # None /\ c.workspace # None
    /\ c.awc => device[c.device] = "online"
    /\ Usable(c.device, c.workspace)

CreateRun(r, a) ==
    LET c == config[a] IN
    /\ r \notin Made /\ state[a] = "active"
    /\ Cardinality(Active(a)) < MaxConcurrent
    /\ c.target = "local" => Dispatchable(c)
    /\ run' = [run EXCEPT ![r] =
         [agent |-> a, version |-> version[a], snapshot |-> Frozen(c),
          place |-> IF c.target = "local" THEN "dispatch" ELSE "outbox",
          state |-> "queued", given |-> NoConfig]]
    /\ UNCHANGED <<agentVars, deviceVars>>

\* Mutant: the row of the Agent is not overlaid with the snapshot.
LiveContext(r) == Frozen(config[run[r].agent])

\* get_run_context
RunContext(r) == run[r].snapshot

\* A worker takes a run of the outbox.
StartRun(r) ==
    /\ run[r] # NoRun /\ run[r].place = "outbox" /\ run[r].state = "queued"
    /\ run' = [run EXCEPT ![r].state = "running", ![r].given = RunContext(r)]
    /\ UNCHANGED <<agentVars, deviceVars>>

\* What offer_local_run selects: the mode is that of the Agent today.
Offerable(r) ==
    /\ run[r] # NoRun /\ run[r].place = "dispatch" /\ run[r].state = "queued"
    /\ run[r].snapshot.device \in connected
    /\ config[run[r].agent].mode = "local_direct"

\* The lease is taken; the offer is sent when the snapshot is local_direct.
OfferLocalRun(r) ==
    /\ Offerable(r) /\ run[r].snapshot.mode = "local_direct"
    /\ run' = [run EXCEPT ![r].given = RunContext(r)]
    /\ UNCHANGED <<agentVars, deviceVars>>
ClaimLocalRun(r) ==
    /\ run[r] # NoRun /\ run[r].place = "dispatch" /\ run[r].state = "queued"
    /\ run[r].given # NoConfig /\ run[r].snapshot.device \in connected
    /\ run' = [run EXCEPT ![r].state = "running"]
    /\ UNCHANGED <<agentVars, deviceVars>>

\* A worker that finds no key in the context raises before it calls the model;
\* the run stays running.
EndRun(r) ==
    /\ run[r] # NoRun /\ run[r].state = "running"
    /\ \/ run[r].place = "outbox" /\ run[r].given.mode = "server_proxy"
       \/ run[r].place = "dispatch" /\ run[r].snapshot.device \in connected
    /\ run' = [run EXCEPT ![r].state = "ended"]
    /\ UNCHANGED <<agentVars, deviceVars>>
CancelRun(r) ==
    /\ run[r] # NoRun /\ run[r].state \in {"queued", "running"}
    /\ run' = [run EXCEPT ![r].state = "ended"]
    /\ UNCHANGED <<agentVars, deviceVars>>

-----------------------------------------------------------------------------
(* Devices *)

Same == UNCHANGED <<agentVars, run>>

CreateLocalDevice(d) ==
    /\ device[d] = "none" /\ pairing[d].state = "none"
    /\ device' = [device EXCEPT ![d] = "offline"]
    /\ Same /\ UNCHANGED <<workspace, model, pairing, cli, connected>>

\* auth login: the session is stored, then polled every two seconds.
StartPairing(d) ==
    /\ device[d] = "none" /\ pairing[d].state = "none"
    /\ pairing' = [pairing EXCEPT ![d].state = "pending"]
    /\ cli' = [cli EXCEPT ![d] = "polling"]
    /\ Same /\ UNCHANGED <<device, workspace, model, connected>>

ApprovePairing(d) ==
    /\ pairing[d].state = "pending" /\ ~pairing[d].expired
    /\ pairing' = [pairing EXCEPT ![d].state = "approved"]
    /\ device' = [device EXCEPT ![d] = "offline"]
    /\ Same /\ UNCHANGED <<workspace, model, cli, connected>>

PairingExpires(d) ==
    /\ pairing[d].state # "none" /\ ~pairing[d].expired
    /\ pairing' = [pairing EXCEPT ![d].expired = TRUE]
    /\ Same /\ UNCHANGED <<device, workspace, model, cli, connected>>

\* The deadline of the CLI, and the 404 of claim_pairing.
PairingFails(d) ==
    /\ cli[d] = "polling" /\ (pairing[d].expired \/ pairing[d].consumed)
    /\ cli' = [cli EXCEPT ![d] = "failed"]
    /\ Same /\ UNCHANGED <<device, workspace, model, pairing, connected>>

\* claim_pairing consumes the session; the reply, or the CLI, may be lost.
ClaimPairing(d, result) ==
    /\ cli[d] = "polling"
    /\ pairing[d].state = "approved" /\ ~pairing[d].expired /\ ~pairing[d].consumed
    /\ pairing' = [pairing EXCEPT ![d].consumed = TRUE]
    /\ cli' = [cli EXCEPT ![d] = result]
    /\ Same /\ UNCHANGED <<device, workspace, model, connected>>

\* issue_device_access_token and authenticate_device_access_token
Authenticated(d) == cli[d] = "paired" /\ Known(d)

Connect(d) ==
    /\ Authenticated(d) /\ d \notin connected
    /\ connected' = connected \cup {d}
    /\ device' = [device EXCEPT ![d] = "online"]
    /\ Same /\ UNCHANGED <<workspace, model, pairing, cli>>
Disconnect(d) ==
    /\ d \in connected
    /\ connected' = connected \ {d}
    /\ device' = [device EXCEPT ![d] = IF @ = "revoked" THEN @ ELSE "offline"]
    /\ Same /\ UNCHANGED <<workspace, model, pairing, cli>>

AddLocalWorkspace(d) ==
    /\ Known(d) /\ d \notin workspace
    /\ workspace' = workspace \cup {d}
    /\ Same /\ UNCHANGED <<device, model, pairing, cli, connected>>
RegisterLocalModel(a, d) ==
    /\ Authenticated(d) /\ Exists(a)
    /\ model' = [model EXCEPT ![a] = d]
    /\ Same /\ UNCHANGED <<device, workspace, pairing, cli, connected>>
RemoveLocalModel(a, d) ==
    /\ Authenticated(d) /\ model[a] = d
    /\ model' = [model EXCEPT ![a] = None]
    /\ Same /\ UNCHANGED <<device, workspace, pairing, cli, connected>>
RevokeLocalDevice(d) ==
    /\ Known(d)
    /\ device' = [device EXCEPT ![d] = "revoked"]
    /\ Same /\ UNCHANGED <<workspace, model, pairing, cli, connected>>

-----------------------------------------------------------------------------

AgentNext ==
    \E a \in Agents :
        \/ \E c \in Config : CreateAgent(a, c)
        \/ UpdateAgent(a)
        \/ \E v \in Values : SetAgentTools(a, v)
        \/ \E d \in Devices, m \in {"server_proxy", "local_direct"}, e \in {"model", "codex"} :
              BindLocalAgent(a, d, m, e)
        \/ \E d \in Devices : BindAwcAgent(a, d)
        \/ \E s \in {"active", "paused", "archived"} : SetAgentState(a, s)
RunNext ==
    \E r \in Runs :
        \/ \E a \in Agents : CreateRun(r, a)
        \/ StartRun(r) \/ OfferLocalRun(r) \/ ClaimLocalRun(r) \/ EndRun(r) \/ CancelRun(r)
DeviceNext ==
    \E d \in Devices :
        \/ CreateLocalDevice(d) \/ StartPairing(d) \/ ApprovePairing(d) \/ PairingExpires(d)
        \/ PairingFails(d) \/ \E result \in {"paired", "failed"} : ClaimPairing(d, result)
        \/ Connect(d) \/ Disconnect(d) \/ AddLocalWorkspace(d) \/ RevokeLocalDevice(d)
        \/ \E a \in Agents : RegisterLocalModel(a, d) \/ RemoveLocalModel(a, d)

Next == AgentNext \/ RunNext \/ DeviceNext
Spec == Init /\ [][Next]_vars

-----------------------------------------------------------------------------

\* Type invariant.
TypeOK ==
    /\ state \in [Agents -> {"none", "active", "paused", "archived"}]
    /\ version \in [Agents -> 1..MaxVersion]
    /\ \A a \in Agents : config[a] \in IF Exists(a) THEN Config ELSE {NoConfig}
    /\ recorded \in [Agents -> SUBSET (1..MaxVersion)]
    /\ \A r \in Made : run[r] \in Run
    /\ device \in [Devices -> {"none", "offline", "online", "revoked"}]
    /\ workspace \in SUBSET Devices /\ connected \in SUBSET Devices
    /\ model \in [Agents -> DeviceOrNone]
    /\ pairing \in [Devices -> [state : {"none", "pending", "approved"},
                                consumed : BOOLEAN, expired : BOOLEAN]]
    /\ cli \in [Devices -> {"off", "polling", "paired", "failed"}]

\* Runs that name the same version of an Agent are executed with the same
\* configuration, whatever is saved, bound or assigned after they were queued.
RunsOfAVersionAgree ==
    \A r, q \in Made :
        (/\ run[r].agent = run[q].agent /\ run[r].version = run[q].version
         /\ run[r].given # NoConfig /\ run[q].given # NoConfig) => run[r].given = run[q].given

\* (Violated) The version a run names can be looked up.
RunVersionsRecorded == \A r \in Made : run[r].version \in recorded[run[r].agent]

\* (Violated) A run of a local_direct configuration is left to the daemon.
LocalDirectStaysLocal ==
    \A r \in Made : run[r].snapshot.mode = "local_direct" => run[r].place = "dispatch"

\* (Violated) A configuration change does not take a queued run from the daemon
\* that it waits for.
UpdatesKeepQueuedRuns ==
    [][\A r \in Runs : Offerable(r) /\ UNCHANGED <<run, device, connected>> => Offerable(r)']_vars

\* (Violated) An approved device has a CLI that holds its credential.
ApprovedIsPaired ==
    \A d \in Devices : pairing[d].state = "approved" => cli[d] # "failed"
=============================================================================
