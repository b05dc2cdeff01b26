# Verification of AgentWorkCluster

TLA+ models of the parts of AgentWorkCluster whose correctness depends on the
order in which processes, requests, messages and crashes interleave, checked
with TLC on small instances and, where it is worth it, proved for every
instance with TLAPS.

## 1. The system

| Part | Source | State | Operations | Talks to |
|---|---|---|---|---|
| Run dispatch | `agent-service/app/main.py` (`create_run`, outbox, confirmations, `orchestrate_run`), `worker.py`, `state_machine.py` | tables `runs`, `outbox_events`, `tool_confirmations`, `tool_invocations`, `messages`; Redis stream `agent-runs` with its consumer group | create, cancel, decide, erase, publish, claim, execute, suspend, resume, complete, fail | workers and API share Postgres; outbox to Redis; Redis to workers |
| Task layer | `main.py` 760-1808, `task_state_machine.py` | tables `tasks`, `task_assignments`, `task_results`, `notifications`, `task_command_deduplications` | create, assign, resume, start, close, cancel, task tools, `sync_task_run_state`, budgets, delegation | API handlers and workers write the same rows |
| Local execution | `main.py` 2251-2531, 5025-5073; `local-agent/src` | `local_run_dispatches` (lease), daemon's journal, leases and runs | offer, claim, renew, event, finish, cancel, reconnect | daemon and API over a websocket |
| Schedules, channel events, memories | `main.py` 2703-3125, 3652-3700, 4616-4632 | `agent_schedules`, `channel_event_deduplications`, `memories` | due timers and gateway events become runs; runs send messages | API and QQ gateway call each other |
| Configurations and devices | `main.py` 2251-3050 | `agents`, `agent_versions`, a run's snapshot; `local_agent_devices`, `pairing_sessions`, workspaces, models | create, update, bind, pause, archive; pair, connect, revoke | API, terminal command and daemon |
| QQ gateway | `qq-gateway/app/main.py` | `inbox_events`, `outbound_messages`, `proactive_outbound`, `qq_connections`; session of the QQ websocket | claim, process, wait, reply, retry, expire; connect, resume, heartbeat | QQ and the agent-service API |
| Event relay | `main.py` `EventHub`, `redis_event_relay`, `agent_websocket`, `task_websocket`; `chat-client/src/lib/agent-ws.js` | events with a sequence per run; queues of subscribers | replay, then follow | workers to API to browser |
| Chat server | `chat-server/src` (`ws/manager.rs`, `ws/handler.rs`, `db.rs`, `auth.rs`, `ratelimit.rs`, `routes/*`) | connection counts, broadcast channels, redb tables of users, friends, groups, messages | connect, disconnect, send, friend and group operations, throttling | browsers |
| Chat client | `chat-client/src/lib` (`ws.js`, `message-list.js`, `store.js`, `crypto.js`), views | socket and timers, message cache | reconnect, heartbeat, merge | chat server, agent-service |
| Harness, evaluation, registry, web search | `harness.py`, `safety.py`, `evaluation.py`, `web_search_mcp.py`, rest of `main.py` | none of their own, or plain rows | pure functions, HTTP, CRUD | model services, tools |
| Deployment | `chat-server/deploy`, `start.sh` | | systemd units | |

Two deployments matter. In *production* the API is one uvicorn process
(`agent-api.service`) and the workers are other processes (`agent-worker.service`,
`Restart=on-failure`) on one Postgres database: every process has one connection
in READ COMMITTED mode, and the `RLock` of `AgentStore` orders only the threads of
its own process. In *local* mode there is one process with SQLite and no Redis, so
store methods are atomic.

### Hard behaviours, and what correctness means for each part

* **Run dispatch.** A run crosses three stores (Postgres, Redis, a worker's
  memory), each step may be the last one of its process, and deliveries may be
  repeated. Correct: no queued run is lost; a running run can always be taken
  over; states move only along `TRANSITIONS`; a completed run has its reply; a
  tool that needs confirmation runs only when approved, and at most once; the
  limits on concurrent runs and tool calls hold.
* **Task layer.** API handlers and workers read a task, decide, and write it
  back without a condition. Correct: the task moves only along its state machine,
  a finished task stays finished, at most one assignment is active, nobody waits
  for an assignment that has ended without a notification.
* **Local execution.** Leases expire while a daemon is disconnected or slow.
  Correct: a run is executed under at most one lease, is never stuck, and its
  events are stored in order and once.
* **QQ gateway.** An event may be delivered again, retried while it is being
  processed, or expire. Correct: at most one reply per event, every accepted event
  is answered or expired, one conversation per scope. The session with QQ ends in
  many ways. Correct: a resumed session skips no message, and no end is final.
* **Schedules and proactive messages.** Two loops read the same due row; a call
  times out while the gateway still sends. Correct: one run per timer, one message
  per key.
* **Trees of tasks.** A delegation is checked and committed apart, runs end,
  fail and are cancelled meanwhile. Correct: children are promised no more than
  the parent has, and overspending is bounded.
* **Configurations and devices.** An agent is saved while its runs are queued,
  a device is revoked while it is bound. Correct: a version names one
  configuration, and a run gets the one it was created with.
* **Event relay.** Events published between replay and subscription. Correct:
  a subscriber sees every event in sequence.
* **Chat server.** Counts and broadcasts of several connections of one user.
  Correct: presence converges to what is true, a delivered acknowledgement means
  a receiver existed.
* **Chat client.** A socket replaced while its timers are pending; the same
  message arriving as echo, push and history. Correct: one live socket, one entry
  per message.

## 2. Plan

| Order | Modules | Abstract specification | Status |
|---|---|---|---|
| 1 | `RunDispatch` | `RunStateMachine` | modelled, checked, proved |
| 2 | `TaskLifecycle` | `TaskStateMachine` | one task modelled, checked, proved; trees of tasks are in `TaskDelegation` |
| 3 | `ChannelInbox` | | modelled, checked, proved; proactive messages are in `ScheduledMessages` |
| 4 | `LocalLease` | | lease, daemon and websocket modelled, checked, proved |
| 5 | `EventStream` | | modelled, checked, safety proved |
| 6 | `QQSession` | | modelled, checked, safety proved |
| 7 | `ScheduledMessages` | | modelled, checked, safety proved |
| 8 | `TaskDelegation` | `TaskStateMachine` (its states and transitions) | modelled, checked, proved |
| 9 | `AgentConfiguration` | | modelled, checked, safety proved |

The order follows the weight of the behaviour: first what every run goes through,
then the tasks that own runs, then the two gateways through which work arrives and
is executed, then what they announce to the browser, and last the parts that
decide which runs exist and how they are configured. `RunDispatch`,
`TaskLifecycle`, `LocalLease` and `ChannelInbox` describe the same run from four
sides; each leaves to the others what they describe in detail, as section 3 says of
each. `TaskDelegation` uses the state machine of `TaskStateMachine`.

## 3. Modules

### RunStateMachine

The life of one row of `runs` as `state_machine.py` allows it: `absent`, the six
states, `deleted`. `Spec` lets a run be created, moved along `TRANSITIONS`, and
erased when it is terminal. It is the abstract specification of run dispatch.

### RunDispatch

Production mode. One action is what one process does between two commits or
replies, so anything may happen between two actions.

| Model | Code |
|---|---|
| `run`, `conf`, `outbox`, `invocations`, `replied` | columns of `runs`, `tool_confirmations`, `outbox_events`, `tool_invocations`, `messages` |
| `stream`, `last`, `pending`, `idle` | the Redis stream, the group's cursor, its pending list, the entries idle for 30 s |
| `pub[p]` | an activation of `publish_pending_outbox` (the loop and every `enqueue_run` start one) |
| `worker[w]` | `worker.run`, `process_entry` and `orchestrate_run`: `pc` is the next commit or reply it waits for |
| `deciding[c]` | the route `decide_tool_confirmation` between its two commits |
| `creating` | processes in `create_run` between its COUNT and its INSERT |
| `delegated` | active runs of the Agent that `delegate_task` created in another process |
| `effects` | external: how often a confirmed tool call happened |

Crashes (`Crash`, `ApiCrash`, `PubFail`) are bounded by `MaxFaults`; a stopped
worker forgets what it held and restarts. `GoIdle` is elapsed time: only an entry
nobody heartbeats (10 s, against an idle limit of 30 s) can become idle; the
members of a claimed batch that wait are not heartbeated, as in the code.
A worker also dies without a fault: `ValueError` of a refused `update_run`, an
erased run, an error of the tool, and whatever a turn raises beside
`httpx.HTTPError` and `RuntimeError` (`main.py:4858-4869`; no key in the context, a
malformed chunk). `FinalTurn` may end in `Die` each time, so the entry can be
recovered into the same exception for ever.

The lock of `create_run` belongs to one process. `Creators` are the API and the
processes whose runs delegate to the Agent (`delegate_task` calls `create_run` in a
worker): each counts (`AdmitRun`) and inserts (`CreateRun`, `DelegateRun`) in steps of
its own.

Simplifications, none of which hides a state of the tables above: runs have no
task and a conversation of their own; what delegated runs do beside occupying a slot
is left to `TaskDelegation`; a turn asks for at most one tool call (a
list of calls is a sequence of turns); token budgets are left out; the order of
the outbox query (by wall clock) is left open and its `LIMIT` is not reached;
`update_run` is atomic, because its `UPDATE ... WHERE state = <read>` refuses a
lost race exactly as a refused transition does; runs of local devices are not
dispatched this way.

### TaskStateMachine

The state and version of one row of `tasks`: `TRANSITIONS` of
`task_state_machine.py`, and a new version for every change of the state. It is
the abstract specification of the task layer.

### TaskLifecycle

One task with its assignments (attempt `n`) and their runs (run `n`). Every store
method that changes the task selects the row, checks the transition on what it
read, and updates the row by id. Each is therefore two actions, `Read...` and
`Write...`; what was read is the snapshot in `proc[p]`.

| Model | Code |
|---|---|
| `task` | `tasks.state`, `tasks.state_version` |
| `asg`, `run`, `results`, `notes`, `asked`, `remembered` | `task_assignments.state`, `runs.state`, `task_results`, `notifications.dedupe_key`, undecided `tool_confirmations`, `task_command_deduplications` |
| `due[n][d]` | a start or resume delivery of run `n`: an asyncio task in local mode, an unacknowledged stream entry in production (`again`: delivered before) |
| `proc["api"]` | the route handler the API process is in: read, write, `create_run`, `_remember_task_command`, or the projection of a cancelled run |
| `proc[w]` | `orchestrate_run`: `turn` waits for the model or a tool; `sync` is before `sync_task_run_state`; `write` holds a snapshot |
| `created` | history: attempts created under an idempotency key |

`task_command_deduplications` names the operation beside the key, so that `task.assign`
and `task.reopen` do not share keys. An element of `Keys` is such a pair: it belongs to
the operation that uses it first, and the same text in the other one is another element.

`Undisturbed(p)` is the scheduling: with `OneProcess` (local mode) a handler runs on the event loop and
nobody else moves before it awaits, so a read and its write are one uninterrupted
sequence; in production every process is on its own. Projections that are illegal
or repeat the state are dropped (`SkipSync`) as in the code. The reasons of
attention and the contents of results are not told apart. `create_run` may refuse
(budget, limits, inactive Agent), which leaves an assignment without a run.
The transport of deliveries is what `RunDispatch` models in detail; here a delivery
stays due until its executor returns, and may be delivered again after a crash.

### ChannelInbox

Events of one QQ bot, from the dispatch on the gateway's websocket to the reply.
The gateway is one process with one event loop and synchronous SQLite calls, so an
action is what a task does between two awaits. The bot may be connected to several
agents (`main.py:670`): each has a runtime with a socket, an API client and a set of
active events of its own, and is told of every event, while the keys of the tables
name the bot and the event only.

| Model | Code |
|---|---|
| `inbox[e]`, `outbound[e]`, `mapping[a,s]` | `inbox_events.status`, `outbound_messages.status`, `channel_conversations` by `channel_scope_key`; `old`: `updated_at` is more than `retry_after_seconds` ago |
| `task[t]` | an asyncio task of `_run_event`: `queued` for a slot, `lock` for the agent's scope, `submit` and `answer` around the request to agent-service, `poll` in `wait_for_run`, `send` and `accepted` around the request to QQ; `ag` is its agent, `rt` its runtime |
| `runtime[a]` | the connected `QQRuntime` of an agent, numbered in the order of the dictionary `runtimes`: `start_connection` puts a new one last, `stop_connection` leaves 0. The retry loop takes the first of the bot |
| `starved` | twenty or more older rows, of bots without a runtime, fill `pending_events`; `Crowd` begins and ends it |
| `deliveries`, `overdue`, `seen` | each delivery carries its own `received_at`; the first `overdue` windows have ended. A retry uses the payload stored with the first delivery |
| `agent[e]`, `runs`, `convs` | `channel_event_deduplications` with the state of the run and the agent of the conversation; runs and conversations created so far |
| `sent[e]` | external: replies that QQ accepted |
| `takeovers[e]` | history: replies claimed while another task still had one on its way, its outbound row having become old. Only a task of another agent can do that |

A request is handled before its caller's timeout or not at all; when the answer is
lost (`LoseAnswer`), it has been handled. `create_channel_event` is one action: it runs
on the event loop of the one API process (`Dockerfile`) and awaits nothing between its
commits; only a stop in between is an action of its own (`ForgetRun`). `send_message`
posts up to three times: after an answer for a message that QQ had not accepted the
task is where it was, and after a 5xx for one that it had, `Repost` sends it again, one
fault each; the limit of three is left to the bound on faults. `QQRuntime.stop` closes
the API client, which fails requests in flight and every later one of the old
tasks; the tasks themselves go on.

The agents of the bot belong to one user. With two, `get_conversation` and
`get_channel_run` do not find what belongs to the other: a conversation of the other is
replaced by a new one instead of being refused, so that `ConversationsBounded` is of
the agents of one user.

### LocalLease

Runs of local agents between agent-service and the daemon of a device. Both ends
are event loops: an action is what one of them does with one message, or between
two awaits.

| Model | Code |
|---|---|
| `mode`, `frozen` | `agents.model_mode` today, and in the snapshot of the run (`_freeze_run`) |
| `run`, `final`, `disp`, `lease`, `expired`, `acked` | `runs.state`, `runs.final_content` is not empty; `local_run_dispatches`: `executor_state`, `lease_id` (as the number of the offer), `lease_expires_at` in the past, `last_acked_sequence` |
| `stored`, `replies` | trace events and assistant messages of a run |
| `handlers`, `online` | activations of `local_agent_websocket`; `local_agent_devices.status` |
| `sock`, `pending`, `exec`, `journal` | daemon: `transport.socket`, `pendingOffers`, the runs it executes with their tracked lease, `Journal.sequence` |
| `writing[r]` | `journal.append` calls that have taken a sequence and wait for the file |
| `up[c]`, `down[c]` | messages under way on connection `c`, in order; acknowledgements nobody looks at are left out |
| `starts`, `overtaken` | history: executions started; an append to the journal of the run has ended before an earlier one |

The runs are of one Agent. Its owner may save it as `server_proxy` and bind it to
the device again at any time (`UpdateAgent`); `offer_local_run` asks for the mode of
today, and withholds an offer, after it has taken the row for 90 seconds, from a run
whose snapshot says otherwise (`TellOffer`). An execution may complete without a
content (`content` of `run.finish`), and then no assistant message is stored.

A connection breaks on either side first (`Close`, `HandlerEnds`), and the other
side may notice after the daemon has connected again; what was under way is lost.
`LeaseExpires` is free when nobody is about to claim or renew, and a fault (a
stall of more than 90 seconds) otherwise. `EndExecution` is the end of a model
request or of Codex, with its last event. With `Executor` "codex" events are
appended without waiting (`void emit`), which includes what a model executor does;
the sequence that `run.cancel` writes to the journal is left out.

### EventStream

The events of one run, of one task, or of all tasks, from the commit to the browser.
`kind` says which subscription is looked at. The API and the worker number and
commit an event under the database's lock and publish it afterwards, so between
the two anybody may be faster.

| Model | Code |
|---|---|
| `stored` | `trace_events.sequence`, `task_dispatch_events.sequence`: the last committed number |
| `emitting[p]` | an `emit` or `_append_task_dispatch` of process `p` after its commit and before its publication |
| `outbox`, `pass[p]` | task rows of `outbox_events`, and a pass of `publish_pending_outbox` over them |
| `channel`, `relayUp` | Redis Pub/Sub and `redis_event_relay` with its second of sleep |
| `phase`, `last`, `upto`, `queue` | `agent_websocket` and `task_websocket`: replaying or following, `last_sequence`, the rows being sent, the queue in `EventHub` or `TaskEventHub` |
| `wire`, `got`, `panel`, `reload` | `agent-ws.js` (its cursor is the maximum of `got`) and `TaskPanel.svelte` |
| `hubbed`, `exposed` | history: what the hub has handed out, and the events a later one overtook there |

Reading the stored rows and registering the queue is one step, because nothing is
awaited in between; the rows are sent one by one afterwards. `exposed` is what
makes the property precise: the code's only ways to lose an event are a hub that
hands out a later one first, and a first page of `task_dispatch_events` that ends
before the newest row.

### QQSession

The connection of one agent to QQ: `QQRuntime.run` and the commands that replace
or remove it. QQ is the environment: it opens sessions, expires them, and repeats
the dispatches after the sequence of a Resume.

| Model | Code |
|---|---|
| `row`, `runtime` | `qq_connections.status`; whether the agent is in `runtimes` |
| `phase`, `session`, `sequence`, `awaitingAck` | the task of `QQRuntime.run`: before or behind the connection, before Hello, in the receive loop; its fields |
| `lock`, `saved` | `runtime_lock`; `start_connection` calls that saved their row and wait for it |
| `claimed`, `failed` | the dispatches `claim_event` recorded, and those whose handler raised |
| `frames`, `silent` | messages from QQ; a half-open connection on which nothing arrives any more |
| `qqSession`, `qqValid`, `qqCount` | external: QQ's last session, whether it can be resumed, its dispatches |

`HeartbeatOverdue` is a fault: the interval has passed while an acknowledgement
waits in the socket, and `wait_for` with no time left does not look at it.
`GoesSilent` may happen before Hello: `socket.recv()` for it has no timeout and
`ping_interval` is `None`, so `Hello` is disabled for ever and only a connection that
breaks after all, a command or a restart ends it. `Mute` names that state, the
exception of both liveness properties; `ReconnectsAlways` leaves it out and is violated.

### ScheduledMessages

A one-shot timer, the run it starts, and the message that run sends to a QQ group. A
key is the idempotency key of both.

| Model | Code |
|---|---|
| `schedule`, `selected[p]`, `batch[p]`, `runs` | `agent_schedules.status`; `schedule_loop` of process `p` between the SELECT, the claim and `create_run`; runs created |
| `connected`, `known`, `status` | the gateway: a runtime, the directory, `proactive_outbound.status` |
| `call[c]`, `answer[c]` | a call of the send tool: its handler in the gateway, and what `qq_gateway_request` returned |
| `accepted` | external: messages QQ has taken |
| `lost`, `doubted` | history: timers consumed without a run; keys with a delivery that was answered with an error, or that failed |

The deployment has one API process; several are allowed because nothing in
`claim_due_schedules` relies on that. A handler of the gateway goes on after its caller
has stopped waiting (20 s), and ends with its process.

### TaskDelegation

Trees of tasks and their budgets: the agent that executes a task delegates parts of it, with a
share of the token budget.

| Model | Code |
|---|---|
| `parent`, `budget`, `state` | `tasks.parent_task_id`, `budget_snapshot`, `state` |
| `assignment[t][a]`, `runState[t][a]`, `usage[t][a]` | attempt `a` of task `t`: the assignment, its run and the run's `total_tokens` |
| `calls[t]` | rows of `tool_invocations` of the task |
| `executor[t][a]` | `orchestrate_run` of the run, with the tokens it has used and not yet stored |
| `asking[t]` | delegations between the checks of `delegate_task` and its commit |
| `overlapped` | history: tasks with two of those at a time |

`delegate_task` is two steps, its checks and its commit; every other command is
one, and `create_run` is one step with the command it follows (or is refused):
what happens between read and write of a command is the subject of
`TaskLifecycle`. An attempt has one executor, a call of a tool or an answer costs
one token. Names start with `Tree` where `TaskLifecycle` has the same name, so that
one proof module can extend both. A sum of budgets or tokens is the cardinality of
a set of pairs, which needs no recursion and can be reasoned about.

### AgentConfiguration

The configurations of agents and their versions, what a run freezes of them, and
the devices an agent may be bound to.

| Model | Code |
|---|---|
| `state`, `version`, `config`, `recorded` | `agents.state`, `current_version`, what `create_run` freezes of the row; `agent_versions` |
| `run[r]` | a row of `runs` with `agent_version`, its snapshot, and whether it waits in the outbox or in `local_run_dispatches`; `given`: what `get_run_context` or the offer handed out |
| `device`, `workspace`, `model` | `local_agent_devices.status`, `local_workspaces`, `local_agent_models` |
| `pairing`, `cli`, `connected` | `pairing_sessions`, the terminal command that pairs, the open websocket of the daemon |

The API is one process, and a command holds the lock or does not await until it
commits: it is one step. The content (prompt, model, parameters, policy, tools) is one value.
Runs of tasks are left out; a revoked device keeps its open connection, as in the code.

## 4. Runs

| Run | Instance | Shows |
|---|---|---|
| `run_dispatch` | 1 run, 1 confirmation, 2 workers, 1 publisher, 1 fault | safety and refinement of the whole life of a run; unless workers keep dying of what a turn does not catch, every queued run starts and every running run settles |
| `run_dispatch_two_runs` | 2 runs, 1 confirmation of the first, 1 worker, a second process that delegates, 1 fault, `max_concurrent_runs` 1 | by how much the limit that only `create_run` checks can be exceeded, through batches and suspension and resumption in every order |
| `task_local` | local mode, 2 attempts, 1 executor, 1 key, no crash | the state machine and versions are kept (refinement); a retried command assigns once; a task waits only while a run does; an assigned task with a queued run moves on |
| `task_production` | API and 1 worker, 2 attempts, 1 round, 1 crash | the invariants that survive lost updates |
| `channel_inbox` | 1 event delivered twice, 2 agents of the bot, 2 tasks side by side, 1 fault, refused run or crowded inbox | a completed event was answered; no agent has a reply on its way twice; every accepted event is answered or expires while the bot is connected and the retry loop comes to it |
| `local_lease` | 1 run of Codex, 2 events, 3 connections, 3 offers, 2 faults | executed once and under its lease, no event twice and in order unless appends overtook each other, one reply if it completed with a content; without faults every run ends, unless it is queued and its Agent has left the device |
| `event_stream` | each kind of subscription, 2 events from 2 processes, 1 outbox pass, 1 broken connection, 1 failure of relay or pass, pages of 1 | order, no duplicates, no event lost on a path of its own; everything stored is caught up with |
| `nothing_skipped` | 1 run, 2 events, no fault | the violation of section 7 |
| `qq_session` | 3 sessions of up to 3 dispatches, 3 faults, 3 commands | a Resume skips no message that is not in the inbox; messages arrive and a runtime comes back to a living session through every way a connection can end, but for a connection that is mute before Hello |
| `scheduled_messages` | 2 timers, 2 API processes, 2 calls, 2 attempts each, 3 faults | one run per timer; a message reaches the group again only after an error or a failed delivery |
| `task_delegation` | 1 root and 2 tasks to delegate, 2 attempts, budgets of 1 and 2 tokens, 1 crash | children are promised no more than the parent has; a task overspends by one execution per concurrent run at most |
| `agent_configuration` | 1 agent, 1 device, 2 runs, 2 contents, 2 versions | two runs that name one version were executed with one configuration |

Larger or longer instances, and properties beside those of the runs above, have
configurations of their own, which pass: `MCRunDispatchAll.cfg` (two runs, two confirmations, every
safety property of `RunDispatch`, `CompletedHasReply` and `InvocationsBounded`
among them), `MCTaskTwoExecutors.cfg` (`MCTaskLifecycle`, local mode with a crash),
`MCChannelTwoEvents.cfg` and `MCChannelOneAgent.cfg` (two events of one scope, with two
agents and no fault and with one agent and a fault: the bounds on replies, runs and
conversations), `MCLocalLeaseAll.cfg` (`EndsOnce`,
`QueuedRunsClaimed`) and `MCDueTimersRun.cfg` (`MCScheduledMessages`: every timer
gets its run or was consumed).

Why the bounds are enough for what they show: every hazard listed needs at most
two processes that interleave and one fault; the second run is there for batches
and for the limit of active runs, the second process for the count. Two
workers, two entries and one fault already reach every program counter with every
state of the run. A publisher that fails between XADD and `mark_outbox_published`
delivers a row twice, so one publisher is enough for duplicates.

### Fairness

`FairSpec` of `RunDispatch` assumes that a process that runs goes on (worker and
publisher loops, and a handler of the API between its two commits), that a stopped
worker is started again (`Restart=on-failure`), and that time passes for entries
nobody heartbeats. Users, faults and the answers of models and tools are not fair:
a model turn always ends (the HTTP client has a timeout), but how is open. Liveness
holds for finitely many faults. It is claimed of behaviours in which workers do not
die again and again (`WorkersKeepDying`): a turn may raise what nobody catches every
time it is recovered, and the worker then also drops the other entries of its batch.
`RunningRunsAlwaysSettle`, without that condition, is violated (section 7).

`FairSpec` of `TaskLifecycle` assumes the same of handlers, projections and
executors: a process that runs finishes its handler (`WF` of `Handle` and
`Project`), a due delivery is received, a tool that has read writes, and a turn of
the model ends. Commands of the proposer and tool calls of the model are not fair.
`MaxRounds` bounds start commands, decision requests and suspensions together,
which could repeat for ever; one of each order already gives every lost update.

`FairSpec` of `ChannelInbox` assumes that the retry loop goes round and comes to an
event unless it is starved (`pending_events` lists the twenty oldest rows, and one that
is claimed becomes the youngest, so only rows that are skipped untouched can keep an
event from its turn), that time
passes (rows age, reply windows end) and that a task does not stay where it is,
because each request has a timeout and `wait_for_run` a deadline. Deliveries, the
end of runs, QQ's acceptance and the end of a crowded inbox are not fair. The gateway may stop for good when
it is disconnected, so deadlock is not checked.

`FairSpec` of `LocalLease` assumes that both event loops go on, that the daemon
reconnects (`scheduleReconnect`), that leases nobody renews run out, and that an
execution ends; the last is about the model service or Codex and not in the code's
hands. A finished instance stops, so deadlock is not checked.

`FairSpec` of `EventStream` assumes that a writer publishes what it has committed,
that the loops of the API process (outbox, relay, websocket) go round, and that
the browser reconnects and reads. Commits, broken connections and failures are
free. The poll of the store (nothing for a second) needs no fairness of Redis.

`FairSpec` of `QQSession` assumes that the runtime's task and the handlers of
commands go on and that a due heartbeat happens. Hello is handled when it has come:
that it comes is not assumed. QQ's messages, faults and commands are free, and
QQ answers an Identify while it has sessions left.

`FairSpec` of `ScheduledMessages` (used by `MCDueTimersRun.cfg`) assumes that the schedule
loops and the gateway's handlers run.

## 5. Proofs

`RunDispatchProofs` proves for all runs, confirmations, workers, publishers,
limits and faults, from `ConfsAssumption`, `CreatorsAssumption` and
`LimitsAssumption` only:

| Theorem | Property | Inductive argument |
|---|---|---|
| `TypeCorrect` | `TypeOK` | `TypeOK` is inductive |
| `Refinement` | `RunLifecycle` | every action moves a run along `TRANSITIONS` or stutters |
| `QueuedRunsKept` | `NoLostRun` | `DispatchInv`: every row that left `queued` or was XADDed is known to somebody; an acknowledged entry's run has left the queue |
| `RunningRunsRecoverable` | `RunningRecoverable` | `RecoverInv`: a worker that holds a first delivery holds it alone, and each `running` run has a witness among the pending entries, because nobody acknowledges an entry whose run is running |
| `CompletedRunsReplied` | `CompletedHasReply` | `ReplyInv`: a worker at `complete` has saved the reply or the run is erased |
| `RejectedToolsNeverRun` | `RejectedNeverRuns` | `ApprovalInv`: who holds a confirmation found it approved, and decisions are final |
| `ActiveRunsLimited` | `ActiveRunsBounded` | `ActiveInv`: active runs, delegated runs and processes between COUNT and INSERT together stay within the limit and one for each further process, because who counts finds the inserted ones |
| `ToolCallsLimited` | `InvocationsBounded`, if `Workers` is finite | `RateInv`: the recorded calls of a tool and the workers that have counted them and not yet recorded theirs stay within the limit and one for each further worker |

Type correctness comes first since the other proofs need it; each invariant is
then shown step by step, one named step per action. Each strengthening was an
invariant of a TLC run before it was proved. Liveness is model-checked only.

`TaskLifecycleProofs` proves, from `ProcessAssumption` and `BoundsAssumption` only
and for any set of executors, number of attempts, keys and crashes, in both modes
unless stated:

| Theorem | Property | Inductive argument |
|---|---|---|
| `TypeCorrect` | `TypeOK` | `TypeOK` is inductive; `ProcOK` relates a process to the operation in hand |
| `Notified` | `WaitingIsNotified` | inductive: who writes a waiting state adds the notification of the version it writes |
| `ClosedAfterResult` | `ClosedHasResult` | `ClosingInv`: a result exists in `awaiting_proposer_close` as well, and whenever a close command has read, however stale |
| `OneExecutor` | `OneActiveAssignment` | only `WriteAssign` activates an assignment, and it supersedes the others |
| `RetriedCommands` | `OneKeyOneAssignment`, if `MaxCrashes = 0` | `KeyInv`: only the process that works on a command holds its key between the first and the last of its three commits |
| `WaitingRuns` | `WaitingRunWaits`, if `OneProcess` and `MaxCrashes = 0` | `WaitInv`: from the moment the run leaves its waiting state, somebody is about to project that |
| `EndedAttemptsStay` | `AttemptsFinal`, if `OneProcess` | `EndsInv`: what a process has read of an attempt is still so when it writes |
| `Refinement` | `TaskMachine`, if `OneProcess` | `Fresh`: at most one process is between its statements, and what it has read is still the row |

Lemma `Steps` carries them: every step is made by one undisturbed process that
reads the task, writes it from its snapshot, or leaves it alone, or it is a crash.
The hypotheses are needed: section 7 has the counterexamples of a crash between two
commits and of production mode. Only liveness is model-checked and not proved.

`ChannelInboxProofs` proves, from `ScopesAssumption` and `LimitsAssumption`:

| Theorem | Property | Inductive argument |
|---|---|---|
| `TypeCorrect` | `TypeOK` | `TypeOK` is inductive |
| `CompletedWasReplied` | `CompletedIsReplied` | `ReplyInv` below: nothing overwrites a recorded reply |
| `OneReplyOnItsWay` | `OneReplyInFlight` | `TasksKnown`: one task per event and runtime; `SendersKnown`: a sender belongs to the connected runtime of its agent, since its client is open |
| `RepliesRepeatedByFaults` | `RepliesBounded` | `RepliesCounted`: accepted replies and posts under way together are at most one more than the faults and takeovers, and none more than those while the row is open and nobody has the reply on its way |
| `RunsRepeatedByFaults` | `RunsBounded` | `RunsCounted`: a run that agent-service does not remember has its own fault |
| `ConversationsSplitByFaults` | `ConversationsBounded` | `ConvInv`: the lock of an agent and a scope lets one request through, which names the conversation of the mapping; when neither that nor the answer under way is remembered for the scope, a fault explains it, and when it is another agent's, the request is refused |

`ReplyInv` is the conjunction of `TasksKnown`, `SendersKnown`, `RepliesCounted` and
`CompletedIsReplied`. Lemma `QuietStep` carries the steps in which replies are neither
sent nor recorded, and `ConvQuiet` those in which no task starts to ask.
`EventsSettle` is liveness and model-checked only.

`LocalLeaseProofs` proves, from `ExecutorAssumption` and `BoundsAssumption`:

| Theorem | Property | Inductive argument |
|---|---|---|
| `TypeCorrect` | `TypeOK` | `TypeInv`: an execution that runs has not had its last event |
| `ExecutedAtMostOnce` | `ExecutedOnce` | `StartedAtMostOnce` and `ExecutionsHoldTheirLease` |
| `StartedAtMostOnce` | `StartedOnce` | `OnceInv`: a positive answer under way is the only one of its run, the run was not started and is not queued any more; only a queued run is granted, and no run is queued again |
| `ExecutionsHoldTheirLease` | `ExecutesItsLease` | `OffersInv`: offers of a run reach the daemon in order, over one connection at a time; when the last one is claimed none is on its way, so a positive answer, which names no lease, is about the lease that agent-service knows |
| `EndedRunsStay` | `EndsOnce` | `StepsMoveRuns`: every step leaves runs, contents and replies alone or moves one run that has not ended |
| `OneReplyEach` | `OneReply` | the same lemma; `OneReply` is inductive |
| `EventsStoredInOrder` | `StoredInOrder` | `OrderInv`: the events of a run that are stored, under way, being written and still to come follow each other, and the server has acknowledged none above what it stored |

Liveness is model-checked only.

`EventStreamProofs` proves, from `KindsAssumption` and `BoundsAssumption`:

| Theorem | Property | Inductive argument |
|---|---|---|
| `TypeCorrect` | `TypeOK` | `TypeOK` is inductive, once `Least` and `Greatest` (every set of events has both, by well-founded induction from the library) give `Min` and `Max` a value |
| `InOrder` | `DeliveredInOrder` | `OrderInv`: what was received followed by what is on the wire ascends and ends at `last`; `Stored`: whatever waits anywhere has been committed |
| `SkippedWereExposed` | `SkippedOnlyIfExposed` | `GapInv`: up to `last`, each event has been received, is on the wire, or is exposed; a publication in the queue has exposed or queued every event before it |

`CaughtUp` is liveness and model-checked only.

`QQSessionProofs` proves, from `BoundsAssumption`:

| Theorem | Property | Inductive argument |
|---|---|---|
| `TypeCorrect` | `TypeOK` | needs all of `SeenInv`: a message is claimed under the session the runtime knows, so there must be one |
| `ResumeSkipsNothing` | `SequenceIsSeen` | `SeenInv`: the numbers under way ascend without a gap from the sequence to QQ's last dispatch (`FramesInv`), a known session is QQ's last one (`SessionInv`), and only a session has frames (`PhaseInv`); so the number that is taken is always the next one |

Lemma `QuietFrames` carries the steps in which frames without a number come and go.
`MessagesArrive` and `Reconnects` are liveness and model-checked only.

`ScheduledMessagesProofs` proves, from `AttemptsAssumption` and `MaxFaultsAssumption`,
for any sets of keys, processes and calls:

| Theorem | Property | Inductive argument |
|---|---|---|
| `TypeCorrect` | `TypeOK` | `TypeOK`, and a call under way has an attempt left |
| `TimersStartOnce` | `OneRunPerTimer` | `TimerInv`: a timer that is not triggered has neither run nor claim, and a triggered one either at most one claim or at most one run |
| `MessagesSentOnce` | `RepeatedOnlyAfterFailure` | `MessageInv`: without doubt, a key without a row was never sent, `sending` has one sender, and `sent` has none |

`TaskLifecycleProofs` also proves about `TaskDelegation`, from `TasksAssumption`,
`BudgetsAssumption` and `TreeBoundsAssumption`, for any tree, budgets, attempts and crashes:

| Theorem | Property | Inductive argument |
|---|---|---|
| `TreeCorrect` | `TreeTypeOK` | `TreeInv`: rows, runs, workers and delegations under way fit each other |
| `PromisesKept` | `ChildrenWithinBudget` | `PromiseInv`: unless two attempts asked at a time, what the children have and what is being asked stay within the budget of the task |
| `UseWithinBudget` | `UseBounded` | `UseInv`: a run was admitted below the budget and weighs at most one execution until it ends |

`AgentConfigurationProofs` proves, from `ConfigurationAssumption`, for any agents,
devices, runs, contents and versions:

| Theorem | Property | Inductive argument |
|---|---|---|
| `TypeCorrect` | `TypeOK` | `Typed`: besides `TypeOK`, what `EXCEPT` needs of the rows of `config` and `run` |
| `OneConfigurationPerVersion` | `RunsOfAVersionAgree` | `VersionInv`: no run names a version ahead of its agent's, a run of the current version froze the current configuration, and two of one version froze the same; every UPDATE of the configuration counts the version |
| `HandedOutAsFrozen` | `GivenTheSnapshot` (defined with the proofs) | a part of `VersionInv`: what a run is given comes from its own row |

## 6. Not modelled

`PROJECT.json` lists every part with its reason.

* The harness, evaluation, registry, storage adapter, migrations, views,
  cryptography and deployment files are pure functions, input and output, or rows
  without interleavings. A turn of the model and a tool call are nondeterministic
  answers in the models.
* The chat server is a separate program: each request is one redb transaction, and
  its shared state is a connection count and a broadcast channel per user, each
  under a lock. What is hard there (presence of two connections that end together,
  `manager.rs:52`) is listed as a hazard without a property.
* The chat client's own socket and message list run in one browser thread; the
  agent socket, whose cursor matters, is in `EventStream`.
* Inside the modelled parts: the contents of contexts, results and messages;
  memories and context epochs; handoffs recorded by the user; runs started at the
  terminal, which never leave the device; token counts other than those of
  `TaskDelegation`.
* What the proofs do not reach: liveness under fairness, and the properties that
  section 5 calls model-checked only. Every safety and action property of a run, and
  of the passing configurations beside them, is proved.

## 7. Where the code and its documents disagree

One run expects a violation; `PROJECT.json` quotes the document.

* `nothing_skipped` (`NothingSkipped`): two processes commit two events of a run,
  the later one is published first, and the websocket drops the earlier one
  because its number is lower. `chat-server/docs/agent-platform-design.md:486`
  promises that no event is lost.

Other statements of documents, comments and tests that the code does not keep are
stated in the modules under "(Violated)". To see the counterexample of one, run
TLC on the module with the configuration named; of a `...Claims.cfg` leave only
the line of the property.

| Property | Module | Configuration | What happens |
|---|---|---|---|
| `ToolAtMostOnce` | `MCRunDispatch` | `MCToolAtMostOnce.cfg` | a confirmed tool call is repeated when the worker stops between the call and `mark_confirmation_executed` |
| `SingleExecutor` | `MCRunDispatch` | `MCSingleExecutor.cfg` | `try_start_run(recover=True)` starts a run that another worker is executing, when a row was delivered twice |
| `ApprovedRunResumes` | `MCRunDispatch` | `MCRunDispatchClaims.cfg` | the decision and its resume row are two transactions; a crash in between leaves the approved run waiting |
| `ReclaimedResumeStarts` | `MCRunDispatch` | `MCRunDispatchClaims.cfg` | a reclaimed resume entry is tried with `recover=True`, which does not admit `waiting_confirmation`, and then acknowledged |
| `RunningRunsAlwaysSettle` | `MCRunDispatch` | `MCRunDispatchClaims.cfg` | a turn that raises what `orchestrate_run` does not catch ends the worker, is recovered and raises again, for ever |
| `MaxConcurrentKept` | `MCRunDispatch` | `MCRunDispatchClaims.cfg` | the API and a delegating worker both count before either inserts |
| `CancelStopsTool` | `MCRunDispatch` | `MCRunDispatchClaims.cfg` | a resumed run is not checked for cancellation before its tool call |
| `TerminalTasksStay` | `MCTaskLifecycle` | `MCTaskProductionClaims.cfg` | production: a write decided on a stale row revives a closed or cancelled task |
| `StaleRunKeepsTask` | `MCTaskLifecycle` | `MCTaskLocalClaims.cfg` | the end of a superseded attempt's run blocks the task while the new attempt works |
| `AttemptsFinal` | `MCTaskLifecycle` | `MCTaskProductionClaims.cfg` | production: `submit_task_result` completes an attempt that was superseded after the check |
| `OneKeyOneAssignment` | `MCTaskLifecycle` | `MCTaskLocalClaims.cfg` | assignment, run and idempotency key are three commits; a crash between them makes a retry assign again |
| `EndedRunReported` | `MCTaskLifecycle` | `MCTaskLocalClaims.cfg` | a rejected confirmation cancels the run and tells the task nothing |
| `TaskCancelStopsRuns` | `MCTaskLifecycle` | `MCTaskLocalClaims.cfg` | cancelling a task leaves its runs alone |
| `WaitingRunWaits` | `MCTaskLifecycle` | `MCTaskProductionClaims.cfg` | production: the late projection of a suspension overtakes the resumption, and the result of the run is then refused |
| `SupersededHasSuccessor` | `MCTaskLifecycle` | `MCTaskLocalClaims.cfg` | a refused assignment command has already superseded the active attempt |
| `OneReplyPerEvent` | `MCChannelInbox` | `MCChannelInboxClaims.cfg` | two agents of a bot: the first one's request to QQ takes longer than `retry_after_seconds`, and the second answers the event again, without any fault; with one agent, QQ accepts a reply, the answer is lost, and the event is answered again. `qq-gateway-websocket-plan.md:103` asks for at most one effective reply |
| `ScopesApart` | `MCChannelInbox` | `MCChannelInboxClaims.cfg` | an event delivered to two agents of a bot: the second is told the conversation of the first (`channel_event_result` knows no agent) and stores it in its own mapping; its next new event of the scope is refused with 409 until that conversation is erased. The comment at `qq-gateway/app/main.py:670` keeps scopes separate so that no connection can reuse another agent's history |
| `EventsAlwaysSettle` | `MCChannelInbox` | `MCChannelInboxClaims.cfg` | twenty older rows of bots without a runtime fill `pending_events` and are skipped untouched (`main.py:915`), so that a failed event of a connected bot is never retried |
| `StoredAlwaysInOrder` | `MCLocalLease` | `MCLocalLeaseClaims.cfg` | two appends of Codex events are under way, the later one ends first, and the next event gets a smaller sequence than one already stored (`local-agent-design.md:168` and `local-agent-technical-design.md:23` promise monotonic sequences) |
| `FailureReported` | `MCLocalLease` | `MCLocalLeaseClaims.cfg` | a Codex that fails is reported as a completed run, with both final events |
| `LostLeaseEnds` | `MCLocalLease` | `MCLostLeaseEnds.cfg` | a claimed run whose lease was lost stays running for ever: no code looks for it (`agent-cluster-execution-plan.md:124` sends its task to `attention_required`) |
| `RunsSettleInAnyMode` | `MCLocalLease` | `MCLostLeaseEnds.cfg` | the owner saves the Agent as `server_proxy`: its queued local run is offered to nobody (`main.py:2425`); `RunsSettle` excepts it |
| `CompletedHasReply` | `MCLocalLease` | `MCLocalLeaseClaims.cfg` | Codex ends without a visible output: the run is completed and no assistant message is stored (`main.py:2507`) |
| `EventsKept` | `MCLocalLease` | `MCLocalLeaseClaims.cfg` | Codex events appended together share a sequence, and the server keeps one of them |
| `OnlineWhileConnected` | `MCLocalLease` | `MCLocalLeaseClaims.cfg` | the handler of an old connection ends late and sets the connected device offline |
| `RuntimeHasRow` | `MCQQSession` | `MCQQSessionClaims.cfg` | a disconnect that holds the lock deletes the row a waiting connect has saved: the runtime works until the next restart, which does not start it |
| `ReconnectsAlways` | `MCQQSession` | `MCQQSessionClaims.cfg` | a connection goes silent before its Hello: no timeout, ping or heartbeat ends the wait, and the runtime stays disconnected until it is replaced |
| `SentIsFinal` | `MCScheduledMessages` | `MCSentIsFinal.cfg` | a failed key is sent again by two calls at a time, and the one that fails last overwrites `sent` (`autonomous-qq-agent-design.md:49`, `:101`) |
| `ChildrenAlwaysWithinBudget` | `MCTaskDelegation` | `MCTaskDelegationClaims.cfg` | the worker of a superseded attempt is between check and commit when the next attempt delegates |
| `TreeWithinBudget` | `MCTaskDelegation` | `MCTaskDelegationClaims.cfg` | a task spends on its own what it has promised to its children (`agent-cluster-execution-plan.md:326`, `:328`) |
| `ChildCanBeClosed` | `MCTaskDelegation` | `MCTaskDelegationClaims.cfg` | a parent ends while the result of its child waits; only an executor of the parent may close the child |
| `RunVersionsRecorded` | `MCAgentConfiguration` | `MCAgentConfigurationClaims.cfg` | binding and assigning tools count a version that `agent_versions` does not get (`agent-platform-design.md:56`, `:493`) |
| `LocalDirectStaysLocal` | `MCAgentConfiguration` | `MCAgentConfigurationClaims.cfg` | an update of the target sends runs of a `local_direct` configuration to the workers, who have no key (`chat-client/README.md:83`) |
| `UpdatesKeepQueuedRuns` | `MCAgentConfiguration` | `MCAgentConfigurationClaims.cfg` | an update to `server_proxy` takes the agent's queued runs from the daemon they wait for (`agent-platform-design.md:73`) |
| `ApprovedIsPaired` | `MCAgentConfiguration` | `MCAgentConfigurationClaims.cfg` | the answer that carries the credential is lost after its commit: the pairing is used up and the terminal has nothing |
