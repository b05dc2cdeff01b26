----------------------------- MODULE RunDispatch -----------------------------
(***************************************************************************)
(* Durable dispatch of Agent runs in the production deployment: the API    *)
(* process commits a run together with an outbox row, publishers copy      *)
(* outbox rows to the Redis stream "agent-runs", and worker processes of   *)
(* the consumer group "agent-workers" execute the entries, suspend runs    *)
(* that need a tool confirmation, and resume them after the user decides.  *)
(*                                                                         *)
(* A step is what one process does between two commits (database) or       *)
(* replies (Redis, model, tool): everything else may happen in between.    *)
(* The runs are conversation runs of one Agent (task_id is NULL), each in  *)
(* a conversation of its own.  Runs that other Agents delegate to it only  *)
(* occupy its slots.                                                       *)
(***************************************************************************)
EXTENDS Integers, Sequences, FiniteSets

CONSTANTS
  Runs,          \* runs that users may create
  Confs,         \* tool confirmations that may be created, numbered in order of created_at
  ConfRun,       \* the run a confirmation belongs to
  Workers,       \* worker processes
  Publishers,    \* concurrent activations of publish_pending_outbox
  Api,           \* the API process
  Creators,      \* it, and the worker processes whose runs delegate to the Agent
  MaxConcurrent, \* max(1, run_policy.max_concurrent_runs)
  MaxToolCalls,  \* run_policy.max_tool_calls
  RateLimit,     \* rate_limit_per_run of the tool that needs confirmation
  ClaimCount,    \* count= of XAUTOCLAIM
  MaxFaults      \* bound on crashes and lost replies

ASSUME ConfsAssumption ==
  /\ Confs \subseteq Nat \ {0}
  /\ ConfRun \in [Confs -> Runs]
  /\ Runs \cap Confs = {}

ASSUME CreatorsAssumption == Api \in Creators /\ IsFiniteSet(Creators)

ASSUME LimitsAssumption ==
  /\ MaxConcurrent \in Nat \ {0} /\ MaxToolCalls \in Nat /\ RateLimit \in Nat
  /\ ClaimCount \in Nat \ {0} /\ MaxFaults \in Nat

VARIABLES
  run,         \* table runs: the state column
  conf,        \* table tool_confirmations: state and checkpoint's tool_calls_used
  outbox,      \* table outbox_events: the row of a run (queued) or a confirmation (confirmed)
  invocations, \* table tool_invocations: rows of the confirmed tool, per run
  replied,     \* table messages: runs that have an assistant message
  effects,     \* external: how often the confirmed tool call really happened
  stream,      \* Redis: the entries of "agent-runs", each naming its outbox row
  last,        \* Redis: the group's last delivered entry
  pending,     \* Redis: delivered entries not yet acknowledged
  idle,        \* Redis: pending entries idle for 30 seconds
  pub,         \* publishers
  worker,      \* workers
  deciding,    \* what the API handler of a confirmation still has to do
  creating,    \* processes in create_run, between its COUNT and its INSERT
  delegated,   \* table runs: active runs that delegate_task created
  faults       \* faults so far

database == <<run, conf, outbox, invocations, replied>>
slots    == <<creating, delegated>>
redis    == <<stream, last, pending, idle>>
vars     == <<run, conf, outbox, invocations, replied, effects, stream, last,
              pending, idle, pub, worker, deciding, creating, delegated, faults>>

RSM == INSTANCE RunStateMachine

Rows == Runs \cup Confs
RowRun(k) == IF k \in Confs THEN ConfRun[k] ELSE k
NoConf == 0

\* A worker in its loop: entry in hand, claimed entries that wait, recover flag.
At(pc, cur, batch, recover) ==
  [pc |-> pc, cur |-> cur, batch |-> batch, recover |-> recover, conf |-> NoConf, calls |-> 0]
Ready == At("claim", 0, {}, FALSE)
Down  == At("down", 0, {}, FALSE)    \* its process is not running

\* Program counters: where the process is between two commits or replies.
Looping   == {"claim", "next"}                       \* worker.run
Executing == {"lookup", "count", "record", "exec", "mark", "model",
              "suspend", "fail", "save", "complete"} \* orchestrate_run after try_start_run
Holding   == {"start", "ack"} \cup Executing         \* process_entry

RunOf(w) == RowRun(stream[worker[w].cur])
Goto(w, pc) == worker' = [worker EXCEPT ![w].pc = pc]
Die(w) == worker' = [worker EXCEPT ![w] = Down]
Fault == faults < MaxFaults /\ faults' = faults + 1

Init ==
  /\ run = [r \in Runs |-> "absent"]
  /\ conf = [c \in Confs |-> [st |-> "none", used |-> 0]]
  /\ outbox = [k \in Rows |-> "none"]
  /\ invocations = [r \in Runs |-> 0]
  /\ replied = {}
  /\ effects = [c \in Confs |-> 0]
  /\ stream = <<>> /\ last = 0 /\ pending = {} /\ idle = {}
  /\ pub = [p \in Publishers |-> [pc |-> "idle", todo |-> {}, row |-> {}]]
  /\ worker = [w \in Workers |-> Ready]
  /\ deciding = [c \in Confs |-> "no"]
  /\ creating = {} /\ delegated = 0
  /\ faults = 0

-----------------------------------------------------------------------------
(* The API process *)

\* The runs that count against max_concurrent_runs.
ActiveRuns == Cardinality({r \in Runs : run[r] \in RSM!ACTIVE_STATES}) + delegated

\* create_run counts the active runs.  Its lock orders the callers of one process.
AdmitRun(p) ==
  /\ p \notin creating
  /\ p = Api => \E r \in Runs : run[r] = "absent"
  /\ ActiveRuns < MaxConcurrent
  /\ creating' = creating \cup {p}
  /\ UNCHANGED <<database, effects, redis, pub, worker, deciding, delegated, faults>>

\* A token budget is spent, or the process stops: no run.
RefuseRun(p) ==
  /\ p \in creating
  /\ creating' = creating \ {p}
  /\ UNCHANGED <<database, effects, redis, pub, worker, deciding, delegated, faults>>

\* The INSERT: the run and its outbox row are one transaction.
CreateRun(r) ==
  /\ Api \in creating /\ run[r] = "absent"
  /\ creating' = creating \ {Api}
  /\ run' = [run EXCEPT ![r] = "queued"]
  /\ outbox' = [outbox EXCEPT ![r] = "pending"]
  /\ UNCHANGED <<conf, invocations, replied, effects, redis, pub, worker, deciding, delegated, faults>>

\* The INSERT of delegate_task, in the worker that executes the parent.
DelegateRun(p) ==
  /\ p \in creating \ {Api}
  /\ creating' = creating \ {p}
  /\ delegated' = delegated + 1
  /\ UNCHANGED <<database, effects, redis, pub, worker, deciding, faults>>

DelegatedRunEnds ==
  /\ delegated > 0
  /\ delegated' = delegated - 1
  /\ UNCHANGED <<database, effects, redis, pub, worker, deciding, creating, faults>>

\* Mutant: update_run without require_transition.
UpdateRunUnchecked(r, state) ==
  /\ run[r] \notin {"absent", "deleted"}
  /\ run' = [run EXCEPT ![r] = state]

\* update_run: refused (ValueError) unless the transition is allowed; the
\* UPDATE is conditional on the state it read.
UpdateRun(r, state) ==
  /\ RSM!CanTransition(run[r], state)
  /\ run' = [run EXCEPT ![r] = state]

\* Route cancel_run.
CancelRun(r) ==
  /\ run[r] \in RSM!ACTIVE_STATES
  /\ UpdateRun(r, "cancelled")
  /\ UNCHANGED <<conf, outbox, invocations, replied, effects, redis, pub, worker, deciding, slots, faults>>

\* Mutant: a decision can be made again.
DecideAgain(c, state, todo) ==
  /\ conf[c].st \in {"pending", "approved", "executed"}
  /\ conf' = [conf EXCEPT ![c].st = state]
  /\ deciding' = [deciding EXCEPT ![c] = todo]
  /\ UNCHANGED <<run, outbox, invocations, replied, effects, redis, pub, worker, slots, faults>>

\* decide_confirmation: only a pending confirmation can be decided.
Decide(c, state, todo) ==
  /\ conf[c].st = "pending"
  /\ conf' = [conf EXCEPT ![c].st = state]
  /\ deciding' = [deciding EXCEPT ![c] = todo]
  /\ UNCHANGED <<run, outbox, invocations, replied, effects, redis, pub, worker, slots, faults>>

Approve(c) == Decide(c, "approved", "enqueue")
Reject(c)  == Decide(c, "rejected", "cancel")

\* enqueue_confirmation, after the decision has been committed.
EnqueueConfirmation(c) ==
  /\ deciding[c] = "enqueue"
  /\ outbox' = [outbox EXCEPT ![c] = "pending"]
  /\ deciding' = [deciding EXCEPT ![c] = "no"]
  /\ UNCHANGED <<run, conf, invocations, replied, effects, redis, pub, worker, slots, faults>>

\* The rejecting branch of the route: update_run may refuse (HTTP 500).
CancelRejected(c) ==
  /\ deciding[c] = "cancel"
  /\ \/ UpdateRun(ConfRun[c], "cancelled")
     \/ ~RSM!CanTransition(run[ConfRun[c]], "cancelled") /\ UNCHANGED run
  /\ deciding' = [deciding EXCEPT ![c] = "no"]
  /\ UNCHANGED <<conf, outbox, invocations, replied, effects, redis, pub, worker, slots, faults>>

\* The API process stops between the two commits of a decision.
ApiCrash(c) ==
  /\ deciding[c] # "no"
  /\ Fault
  /\ deciding' = [deciding EXCEPT ![c] = "no"]
  /\ UNCHANGED <<database, effects, redis, pub, worker, slots>>

\* delete_conversation: refused while the run is active; outbox rows stay.
DeleteConversation(r) ==
  /\ run[r] \in RSM!TERMINAL_STATES
  /\ run' = [run EXCEPT ![r] = "deleted"]
  /\ conf' = [c \in Confs |-> IF ConfRun[c] = r /\ conf[c].st # "none"
                                THEN [conf[c] EXCEPT !.st = "deleted"] ELSE conf[c]]
  /\ invocations' = [invocations EXCEPT ![r] = 0]
  /\ replied' = replied \ {r}
  /\ UNCHANGED <<outbox, effects, redis, pub, worker, deciding, slots, faults>>

-----------------------------------------------------------------------------
(* Publishers: publish_pending_outbox *)

\* Mutant: rows are marked published when they are read.
PubReadMarks(p) ==
  LET rows == {k \in Rows : outbox[k] = "pending"} IN
  /\ pub[p].pc = "idle" /\ rows # {}
  /\ pub' = [pub EXCEPT ![p] = [pc |-> "xadd", todo |-> rows, row |-> {}]]
  /\ outbox' = [k \in Rows |-> IF k \in rows THEN "published" ELSE outbox[k]]
  /\ UNCHANGED <<run, conf, invocations, replied, effects, redis, worker, deciding, slots, faults>>

\* pending_outbox_events (the order, by wall-clock created_at, is left open).
PubRead(p) ==
  LET rows == {k \in Rows : outbox[k] = "pending"} IN
  /\ pub[p].pc = "idle" /\ rows # {}
  /\ pub' = [pub EXCEPT ![p] = [pc |-> "xadd", todo |-> rows, row |-> {}]]
  /\ UNCHANGED <<database, effects, redis, worker, deciding, slots, faults>>

\* XADD of the next row read.
PubXadd(p) ==
  /\ pub[p].pc = "xadd"
  /\ \E k \in pub[p].todo :
       /\ stream' = Append(stream, k)
       /\ pub' = [pub EXCEPT ![p] = [pc |-> "mark", todo |-> @.todo \ {k}, row |-> {k}]]
  /\ UNCHANGED <<database, effects, last, pending, idle, worker, deciding, slots, faults>>

\* mark_outbox_published, and on to the next row or the end of the loop.
PubMark(p) ==
  /\ pub[p].pc = "mark"
  /\ outbox' = [k \in Rows |-> IF k \in pub[p].row /\ outbox[k] = "pending"
                                 THEN "published" ELSE outbox[k]]
  /\ pub' = [pub EXCEPT ![p] =
       [pc |-> IF @.todo = {} THEN "idle" ELSE "xadd", todo |-> @.todo, row |-> {}]]
  /\ UNCHANGED <<run, conf, invocations, replied, effects, redis, worker, deciding, slots, faults>>

\* An exception or a stop of the process before XADD, after it, or on a lost reply.
PubFail(p) ==
  /\ pub[p].pc # "idle"
  /\ Fault
  /\ pub' = [pub EXCEPT ![p] = [pc |-> "idle", todo |-> {}, row |-> {}]]
  /\ UNCHANGED <<database, effects, redis, worker, deciding, slots>>

-----------------------------------------------------------------------------
(* Workers: the loop of worker.run *)

\* XAUTOCLAIM: the oldest idle entries, at most ClaimCount of them, become ours.
Autoclaim(w) ==
  /\ worker[w].pc = "claim"
  /\ \E claimed \in SUBSET idle :
       /\ Cardinality(claimed) <= ClaimCount
       /\ \A i \in claimed, j \in idle \ claimed : i < j
       /\ claimed # idle => Cardinality(claimed) = ClaimCount
       /\ idle' = idle \ claimed
       /\ worker' = [worker EXCEPT ![w] = At("next", 0, claimed, FALSE)]
  /\ UNCHANGED <<database, effects, stream, last, pending, pub, deciding, slots, faults>>

\* process_entry(recover=True) on the next claimed entry.
TakeClaimed(w) ==
  /\ worker[w].pc = "next"
  /\ \E i \in worker[w].batch :
       /\ \A j \in worker[w].batch : i <= j
       /\ worker' = [worker EXCEPT ![w] = At("start", i, worker[w].batch \ {i}, TRUE)]
  /\ UNCHANGED <<database, effects, redis, pub, deciding, slots, faults>>

\* XREADGROUP ">": process_entry(recover=False) on the next new entry, if any.
ReadNew(w) ==
  /\ worker[w].pc = "next" /\ worker[w].batch = {}
  /\ \/ /\ last < Len(stream)
        /\ last' = last + 1 /\ pending' = pending \cup {last + 1}
        /\ worker' = [worker EXCEPT ![w] = At("start", last + 1, {}, FALSE)]
     \/ /\ last = Len(stream)
        /\ worker' = [worker EXCEPT ![w] = Ready]
        /\ UNCHANGED <<last, pending>>
  /\ UNCHANGED <<database, effects, stream, idle, pub, deciding, slots, faults>>

\* Mutant: the acknowledged entry keeps its idle mark.
XackKeepsIdle(w) ==
  /\ worker[w].pc = "ack"
  /\ pending' = pending \ {worker[w].cur}
  /\ worker' = [worker EXCEPT ![w] =
       At(IF worker[w].recover THEN "next" ELSE "claim", 0, worker[w].batch, FALSE)]
  /\ UNCHANGED <<database, effects, stream, last, idle, pub, deciding, slots, faults>>

\* XACK after orchestrate_run returned; then the rest of the batch, or the loop again.
Xack(w) ==
  /\ worker[w].pc = "ack"
  /\ pending' = pending \ {worker[w].cur} /\ idle' = idle \ {worker[w].cur}
  /\ worker' = [worker EXCEPT ![w] =
       At(IF worker[w].recover THEN "next" ELSE "claim", 0, worker[w].batch, FALSE)]
  /\ UNCHANGED <<database, effects, stream, last, pub, deciding, slots, faults>>

\* The 10-second XCLAIM of process_entry resets the idle time of the entry in hand.
Heartbeat(w) ==
  /\ worker[w].pc \in Holding /\ worker[w].cur \in idle
  /\ idle' = idle \ {worker[w].cur}
  /\ UNCHANGED <<database, effects, stream, last, pending, pub, worker, deciding, slots, faults>>

\* Only the entry in hand is refreshed: a claimed entry that waits in the batch while
\* another one is processed is not. Between two entries no time passes.
Heartbeating(i) ==
  \E w \in Workers :
    \/ worker[w].pc \in Holding /\ worker[w].cur = i
    \/ worker[w].pc = "next" /\ i \in worker[w].batch

\* 30 seconds pass without a refresh.
GoIdle(i) ==
  /\ i \in pending \ idle /\ ~Heartbeating(i)
  /\ idle' = idle \cup {i}
  /\ UNCHANGED <<database, effects, stream, last, pending, pub, worker, deciding, slots, faults>>

\* A fault ends the process; systemd starts it again (Restart=on-failure).
Crash(w) ==
  /\ worker[w].pc # "down"
  /\ Fault /\ Die(w)
  /\ UNCHANGED <<database, effects, redis, pub, deciding, slots>>

Restart(w) ==
  /\ worker[w].pc = "down"
  /\ worker' = [worker EXCEPT ![w] = Ready]
  /\ UNCHANGED <<database, effects, redis, pub, deciding, slots, faults>>

-----------------------------------------------------------------------------
(* Workers: orchestrate_run *)

\* Mutants: recovery that cannot take over a running run, or restarts a cancelled one.
StartableOnce(recover, resume) ==
  IF resume THEN {"waiting_confirmation"} ELSE {"queued"}
StartableAgain(recover, resume) ==
  IF recover THEN {"queued", "running", "cancelled"}
  ELSE IF resume THEN {"waiting_confirmation"} ELSE {"queued"}

\* The states from which try_start_run claims the run.
Startable(recover, resume) ==
  CASE recover -> {"queued", "running"}
    [] ~recover /\ resume -> {"waiting_confirmation"}
    [] OTHER -> {"queued"}

Resuming(w) == stream[worker[w].cur] \in Confs

\* try_start_run (a missing or cancelled run is in no Startable set).
TryStartRun(w) ==
  /\ worker[w].pc = "start"
  /\ \/ /\ run[RunOf(w)] \in Startable(worker[w].recover, Resuming(w))
        /\ run' = [run EXCEPT ![RunOf(w)] = "running"]
        /\ Goto(w, IF Resuming(w) THEN "lookup" ELSE "model")
     \/ /\ run[RunOf(w)] \notin Startable(worker[w].recover, Resuming(w))
        /\ Goto(w, "ack") /\ UNCHANGED run
  /\ UNCHANGED <<conf, outbox, invocations, replied, effects, redis, pub, deciding, slots, faults>>

\* pending_confirmation: the newest approved confirmation of the run.
NewestApproved(r) ==
  {c \in Confs : /\ ConfRun[c] = r /\ conf[c].st = "approved"
                 /\ \A d \in Confs : ConfRun[d] = r /\ conf[d].st = "approved" => d <= c}

LookupConfirmation(w) ==
  /\ worker[w].pc = "lookup" /\ run[RunOf(w)] # "deleted"
  /\ \/ \E c \in NewestApproved(RunOf(w)) :
          worker' = [worker EXCEPT ![w] =
                       [@ EXCEPT !.pc = "count", !.conf = c, !.calls = conf[c].used]]
     \/ NewestApproved(RunOf(w)) = {} /\ Goto(w, "fail")
  /\ UNCHANGED <<database, effects, redis, pub, deciding, slots, faults>>

\* count_tool_invocations: at the limit the call is answered "denied".
CountInvocations(w) ==
  /\ worker[w].pc = "count" /\ run[RunOf(w)] # "deleted"
  /\ Goto(w, IF invocations[RunOf(w)] >= RateLimit THEN "mark" ELSE "record")
  /\ UNCHANGED <<database, effects, redis, pub, deciding, slots, faults>>

\* record_tool_invocation.
RecordInvocation(w) ==
  /\ worker[w].pc = "record" /\ run[RunOf(w)] # "deleted"
  /\ invocations' = [invocations EXCEPT ![RunOf(w)] = @ + 1]
  /\ Goto(w, "exec")
  /\ UNCHANGED <<run, conf, outbox, replied, effects, redis, pub, deciding, slots, faults>>

\* execute_tool: the call may take effect whatever it returns. RuntimeError and
\* transport errors fail the run; ValueError and HTTPException end the process.
ExecuteTool(w) ==
  /\ worker[w].pc = "exec"
  /\ effects' \in {effects, [effects EXCEPT ![worker[w].conf] = @ + 1]}
  /\ \/ effects' # effects /\ Goto(w, "mark")
     \/ Goto(w, "fail")
     \/ Die(w)
  /\ UNCHANGED <<database, redis, pub, deciding, slots, faults>>

\* add_message of the tool result, then mark_confirmation_executed.
MarkExecuted(w) ==
  LET c == worker[w].conf IN
  /\ worker[w].pc = "mark" /\ run[RunOf(w)] # "deleted"
  /\ conf' = [conf EXCEPT ![c].st = IF @ = "approved" THEN "executed" ELSE @]
  /\ Goto(w, "model")
  /\ UNCHANGED <<run, outbox, invocations, replied, effects, redis, pub, deciding, slots, faults>>

\* A streamed chunk arrives after the run was cancelled or erased: return.
SeeCancelled(w) ==
  /\ worker[w].pc = "model" /\ run[RunOf(w)] \in {"cancelled", "deleted"}
  /\ Goto(w, "ack")
  /\ UNCHANGED <<database, effects, redis, pub, deciding, slots, faults>>

\* The turn ends without tool calls, or with an error of the model service.  Any
\* other exception (no key in the context, a malformed chunk) is not caught: it ends
\* the process, and recovery comes to the same place again.
FinalTurn(w) ==
  /\ worker[w].pc = "model"
  /\ Goto(w, "save") \/ Goto(w, "fail") \/ Die(w)
  /\ UNCHANGED <<database, effects, redis, pub, deciding, slots, faults>>

\* A tool call answered at once (read-only result, denied or refused); one call
\* more than max_tool_calls is a RuntimeError.
ToolTurn(w) ==
  /\ worker[w].pc = "model" /\ run[RunOf(w)] # "deleted"
  /\ \/ /\ worker[w].calls < MaxToolCalls
        /\ worker' = [worker EXCEPT ![w].calls = @ + 1]
     \/ worker[w].calls >= MaxToolCalls /\ Goto(w, "fail")
  /\ UNCHANGED <<database, effects, redis, pub, deciding, slots, faults>>

\* A write or destructive call: create_confirmation with the checkpoint.
ConfirmTurn(w, c) ==
  /\ worker[w].pc = "model" /\ run[RunOf(w)] # "deleted"
  /\ worker[w].calls < MaxToolCalls
  /\ ConfRun[c] = RunOf(w) /\ conf[c].st = "none"
  /\ \A d \in Confs : ConfRun[d] = RunOf(w) /\ d < c => conf[d].st # "none"
  /\ conf' = [conf EXCEPT ![c] = [st |-> "pending", used |-> worker[w].calls + 1]]
  /\ worker' = [worker EXCEPT ![w] =
                       [@ EXCEPT !.pc = "suspend", !.calls = worker[w].calls + 1]]
  /\ UNCHANGED <<run, outbox, invocations, replied, effects, redis, pub, deciding, slots, faults>>

\* update_run(waiting_confirmation); a refusal becomes an error result of the call.
Suspend(w) ==
  /\ worker[w].pc = "suspend"
  /\ \/ UpdateRun(RunOf(w), "waiting_confirmation") /\ Goto(w, "ack")
     \/ /\ ~RSM!CanTransition(run[RunOf(w)], "waiting_confirmation")
        /\ Goto(w, "model") /\ UNCHANGED run
  /\ UNCHANGED <<conf, outbox, invocations, replied, effects, redis, pub, deciding, slots, faults>>

\* The last update_run: a refusal is not caught and ends the worker process.
Finish(w, pc, state) ==
  /\ worker[w].pc = pc
  /\ \/ UpdateRun(RunOf(w), state) /\ Goto(w, "ack")
     \/ ~RSM!CanTransition(run[RunOf(w)], state) /\ Die(w) /\ UNCHANGED run
  /\ UNCHANGED <<conf, outbox, invocations, replied, effects, redis, pub, deciding, slots, faults>>

FailRun(w)     == Finish(w, "fail", "failed")
CompleteRun(w) == Finish(w, "complete", "completed")

\* update_usage and add_message of the assistant's reply, before the run completes.
SaveReply(w) ==
  /\ worker[w].pc = "save" /\ run[RunOf(w)] # "deleted"
  /\ replied' = replied \cup {RunOf(w)}
  /\ Goto(w, "complete")
  /\ UNCHANGED <<run, conf, outbox, invocations, effects, redis, pub, deciding, slots, faults>>

\* Events and rows of an erased run cannot be written: the exception ends the process.
DieOnErased(w) ==
  /\ worker[w].pc \in {"lookup", "count", "record", "mark", "model", "save"}
  /\ run[RunOf(w)] = "deleted"
  /\ Die(w)
  /\ UNCHANGED <<database, effects, redis, pub, deciding, slots, faults>>

-----------------------------------------------------------------------------
Loop(w) == Autoclaim(w) \/ TakeClaimed(w) \/ ReadNew(w) \/ Xack(w)

Orchestrate(w) ==
  \/ TryStartRun(w) \/ LookupConfirmation(w) \/ CountInvocations(w)
  \/ RecordInvocation(w) \/ ExecuteTool(w) \/ MarkExecuted(w)
  \/ SeeCancelled(w) \/ FinalTurn(w) \/ ToolTurn(w)
  \/ \E c \in Confs : ConfirmTurn(w, c)
  \/ Suspend(w) \/ FailRun(w) \/ SaveReply(w) \/ CompleteRun(w) \/ DieOnErased(w)

WorkerStep(w) == Loop(w) \/ Orchestrate(w)
PubStep(p) == PubRead(p) \/ PubXadd(p) \/ PubMark(p)
ApiStep(c) == EnqueueConfirmation(c) \/ CancelRejected(c)

Next ==
  \/ \E r \in Runs : CreateRun(r) \/ CancelRun(r) \/ DeleteConversation(r)
  \/ \E p \in Creators : AdmitRun(p) \/ RefuseRun(p) \/ DelegateRun(p)
  \/ DelegatedRunEnds
  \/ \E c \in Confs : Approve(c) \/ Reject(c) \/ ApiStep(c) \/ ApiCrash(c)
  \/ \E p \in Publishers : PubStep(p) \/ PubFail(p)
  \/ \E w \in Workers : WorkerStep(w) \/ Heartbeat(w) \/ Crash(w) \/ Restart(w)
  \/ \E i \in pending : GoIdle(i)

Spec == Init /\ [][Next]_vars

\* A running process goes on, a stopped one is restarted, and time passes.
Fairness ==
  /\ \A p \in Publishers : WF_vars(PubStep(p))
  /\ \A w \in Workers : WF_vars(WorkerStep(w)) /\ WF_vars(Restart(w))
  /\ \A c \in Confs : WF_vars(ApiStep(c))
  /\ WF_vars(\E i \in pending : GoIdle(i))

FairSpec == Spec /\ Fairness

-----------------------------------------------------------------------------
(* Properties *)

ConfState == [st : {"none", "pending", "approved", "rejected", "executed", "deleted"}, used : Nat]
WorkerState == [pc : {"down"} \cup Looping \cup Holding, cur : Nat, batch : SUBSET Nat,
                recover : BOOLEAN, conf : Confs \cup {NoConf}, calls : Nat]

\* Types of the tables, of the Redis structures and of the processes; an entry
\* somebody holds was delivered, and a pending entry is one of the stream.
TypeOK ==
  /\ run \in [Runs -> RSM!RunState]
  /\ conf \in [Confs -> ConfState]
  /\ outbox \in [Rows -> {"none", "pending", "published"}]
  /\ invocations \in [Runs -> Nat]
  /\ replied \subseteq Runs
  /\ effects \in [Confs -> Nat]
  /\ stream \in Seq(Rows)
  /\ last \in 0..Len(stream) /\ pending \subseteq 1..last /\ idle \subseteq pending
  /\ pub \in [Publishers -> [pc : {"idle", "xadd", "mark"}, todo : SUBSET Rows, row : SUBSET Rows]]
  /\ worker \in [Workers -> WorkerState]
  /\ \A w \in Workers :
       /\ worker[w].pc \in Holding => worker[w].cur \in 1..last
       /\ worker[w].batch \subseteq 1..last
       /\ worker[w].pc \in {"count", "record", "exec", "mark"} => worker[w].conf \in Confs
  /\ deciding \in [Confs -> {"no", "enqueue", "cancel"}]
  /\ creating \subseteq Creators /\ delegated \in Nat
  /\ faults \in 0..MaxFaults

\* An entry of the stream that the group still has to deliver or to acknowledge.
Outstanding(i) == i \in last + 1 .. Len(stream) \/ i \in pending

\* A queued run is never forgotten: its outbox row is unpublished, or an entry of
\* the stream that carries it is undelivered or unacknowledged, whatever crashes
\* between XADD, mark_outbox_published, try_start_run and XACK.
NoLostRun ==
  \A r \in Runs : run[r] = "queued" =>
    \/ outbox[r] = "pending"
    \/ \E i \in DOMAIN stream : RowRun(stream[i]) = r /\ Outstanding(i)

\* A running run always has an unacknowledged delivery, so XAUTOCLAIM can hand
\* it to another worker when the one executing it stops.
RunningRecoverable ==
  \A r \in Runs : run[r] = "running" => \E i \in pending : RowRun(stream[i]) = r

\* A completed run has its assistant message: the reply is saved before
\* update_run(completed), so no crash leaves a completed run without one.
CompletedHasReply ==
  \A r \in Runs : run[r] = "completed" => r \in replied

\* The tool of a rejected confirmation never ran and never will, even when the
\* decision races with a resumed run of an earlier confirmation.
RejectedNeverRuns ==
  \A c \in Confs : conf[c].st \in {"pending", "rejected"} =>
    /\ effects[c] = 0
    /\ \A w \in Workers : worker[w].pc \in {"count", "record", "exec"} => worker[w].conf # c

\* Count-then-record of two workers can overshoot rate_limit_per_run, but by no
\* more than one call per additional worker.
InvocationsBounded ==
  \A r \in Runs :
    invocations[r] <= IF RateLimit = 0 THEN 0 ELSE RateLimit + Cardinality(Workers) - 1

\* max_concurrent_runs is counted before the INSERT, and the lock of create_run orders
\* only one process: the API and delegating workers that count side by side exceed it
\* by at most one run for each further process.  Nothing else adds an active run: no
\* resume, retry or recovery makes a finished run active again.
ActiveRunsBounded == ActiveRuns <= MaxConcurrent + Cardinality(Creators) - 1

\* The run states follow state_machine.py whatever API, workers and recovery do.
RunLifecycle == RSM!Spec

\* Workers are ended again and again, by exceptions that their turns do not catch.  Such
\* a worker loses all it claimed, so that other runs depend on this too.
WorkersKeepDying == []<>(\E w \in Workers : worker[w].pc = "down")

\* Every queued run leaves the queue, unless workers keep dying.
QueuedRunsStart ==
  WorkersKeepDying \/ \A r \in Runs : run[r] = "queued" ~> run[r] # "queued"

\* No run stays running for ever: a stopped worker's run is taken over, and the
\* tool-call limits end every execution, unless workers keep dying.
RunningRunsSettle ==
  WorkersKeepDying \/ \A r \in Runs : run[r] = "running" ~> run[r] # "running"

-----------------------------------------------------------------------------
(* What the design documents say and the code does not do *)

\* A confirmed tool call takes effect at most once, even when the worker stops
\* between execute_tool and mark_confirmation_executed.
ToolAtMostOnce == \A c \in Confs : effects[c] <= 1

\* The heartbeat keeps a run that is being executed from being claimed by
\* another worker: no two workers execute the same run.
SingleExecutor ==
  \A w, v \in Workers :
    /\ worker[w].pc \in Executing /\ worker[v].pc \in Executing
    /\ RunOf(w) = RunOf(v)
    => w = v

\* An approved run resumes from its checkpoint: while it waits, the resume
\* request is still on its way (to be inserted, unpublished or unacknowledged).
ApprovedRunResumes ==
  \A c \in Confs :
    conf[c].st = "approved" /\ run[ConfRun[c]] = "waiting_confirmation" =>
      \/ deciding[c] = "enqueue" \/ outbox[c] = "pending"
      \/ \E i \in DOMAIN stream : stream[i] = c /\ Outstanding(i)

\* A worker that holds the resume request of an approved, waiting run starts the
\* run, also when the request was first delivered to a worker that stopped.
ReclaimedResumeStarts ==
  [][\A w \in Workers :
       /\ worker[w].pc = "start" /\ Resuming(w)
       /\ run[RunOf(w)] = "waiting_confirmation"
       /\ conf[stream[worker[w].cur]].st = "approved"
       => worker'[w].pc # "ack"]_vars

\* A run that is running ends, or waits for its user: an exception that is not
\* recorded as a failure is recovered into itself for ever.
RunningRunsAlwaysSettle ==
  \A r \in Runs : run[r] = "running" ~> run[r] # "running"

\* The Agent never has more than max_concurrent_runs active runs: the API and a
\* delegating worker count before either inserts.
MaxConcurrentKept == ActiveRuns <= MaxConcurrent

\* A worker that is about to call the confirmed tool does not start the call of
\* a run that has been cancelled.
CancelStopsTool ==
  [][\A w \in Workers :
       worker[w].pc = "count" /\ run[RunOf(w)] = "cancelled" => worker'[w].pc # "record"]_vars
=============================================================================
