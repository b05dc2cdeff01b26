--------------------------- MODULE TaskLifecycle ---------------------------
(***************************************************************************)
(* One task of agent-service, its assignments and their runs: the commands *)
(* of the proposer (API process), and the executors (orchestrate_run) that *)
(* project the state of a run into the task and call the task tools.       *)
(*                                                                         *)
(* Every method of AgentStore that changes the task reads the row, checks  *)
(* the transition on what it read, and writes the row without a condition: *)
(* two steps, Read and Write. In local mode (OneProcess, SQLite) all of    *)
(* them run on one event loop, and nothing happens between two steps that  *)
(* have no await between them. In production the API and the workers are   *)
(* processes of their own on Postgres (READ COMMITTED, no SELECT ... FOR   *)
(* UPDATE), and only the steps of one process are ordered.                 *)
(*                                                                         *)
(* Assignment n is the attempt n of the task; it has at most one run,      *)
(* which is named n as well. All executors are cloud Agents.               *)
(***************************************************************************)
EXTENDS Integers, FiniteSets

CONSTANTS
  MaxAttempts,  \* bound on the assignments of the task
  Workers,      \* executors: worker processes, or asyncio tasks when OneProcess
  Keys,         \* idempotency keys of assignment commands
  OneProcess,   \* local mode (TRUE) or production (FALSE)
  MaxRounds,    \* bound on start commands, decision requests and suspensions together
  MaxCrashes    \* bound on crashes

Api == "api"    \* the API process; it handles one command at a time
NoKey == "no key"

ASSUME ProcessAssumption == Api \notin Workers /\ NoKey \notin Keys
ASSUME BoundsAssumption ==
  /\ MaxAttempts \in Nat \ {0} /\ MaxRounds \in Nat /\ MaxCrashes \in Nat
  /\ OneProcess \in BOOLEAN

VARIABLES
  task,       \* table tasks: state and state_version
  asg,        \* table task_assignments: state of attempt n ("none": no row)
  run,        \* table runs: state of the run of attempt n
  results,    \* table task_results: attempts that submitted one
  notes,      \* table notifications: dedupe keys (state, state_version)
  asked,      \* table tool_confirmations: runs with an undecided confirmation
  due,        \* deliveries (stream entries, or asyncio tasks) that execute a run
  proc,       \* what each process is doing
  remembered, \* table task_command_deduplications: keys of finished commands
  created,    \* history: attempts created by commands with this key
  rounds,     \* start commands, decision requests and suspensions so far
  crashes     \* crashes so far

vars == <<task, asg, run, results, notes, asked, due, proc, remembered, created, rounds, crashes>>

TSM == INSTANCE TaskStateMachine
RSM == INSTANCE RunStateMachine WITH Runs <- 1..MaxAttempts

Attempts  == 1..MaxAttempts
Processes == Workers \cup {Api}
Delivery  == {"start", "resume"}

ACTIVE   == {"assigned", "accepted"}
ENDED    == {"completed", "superseded", "expired", "cancelled", "declined"}
ATTENTION == "attention_required"
LIVE     == RSM!ACTIVE_STATES

\* The operations that write the task, by the state they aim at.
Moves == [start |-> "in_progress", close |-> "closed", cancel |-> "cancelled"]
Syncs == [running |-> "in_progress", waiting |-> "waiting_confirmation",
          failed |-> ATTENTION, stopped |-> ATTENTION]
Assigning == {"assign", "reopen"}
Tools == {"submit", "decide", "decline", "budget"}
Target(op) ==
  CASE op \in DOMAIN Moves -> Moves[op]
    [] op \in DOMAIN Syncs -> Syncs[op]
    [] op \in Assigning    -> "assigned"
    [] op = "submit"       -> "awaiting_proposer_close"
    [] OTHER               -> ATTENTION

(* proc[p]: pc says what comes next. "turn": the executor waits for the    *)
(* model or a tool. "write": a snapshot (st, ver) is read and op is to be  *)
(* written. "sync": a run's change (op) is to be projected into the task.  *)
(* n is the attempt; arg the delivery in hand, or the key of the command.  *)
Doing(pc, op, n, arg) == [pc |-> pc, op |-> op, n |-> n, arg |-> arg, st |-> "draft", ver |-> 0]
Idle == Doing("idle", "none", 0, NoKey)

\* Where a process waits for something else than its own next statement.
Awaiting == {"idle", "turn", "declined"}
Undisturbed(p) == OneProcess => \A q \in Processes \ {p} : proc[q].pc \in Awaiting

Set(p, x)   == proc' = [proc EXCEPT ![p] = x]
Goto(p, pc) == Set(p, Doing(pc, "none", proc[p].n, proc[p].arg))
Exists(n)   == asg[n] # "none"

\* One of the steps that could be repeated for ever.
Round(once) == IF once THEN rounds < MaxRounds /\ rounds' = rounds + 1 ELSE UNCHANGED rounds

\* create_task: queued, or with its first assignment, whose run comes next.
Init ==
  /\ \E st \in {"queued", "assigned"} :
       /\ task = [st |-> st, ver |-> 1]
       /\ asg = [n \in Attempts |-> IF st = "assigned" /\ n = 1 THEN "assigned" ELSE "none"]
       /\ proc = [p \in Processes |-> IF st = "assigned" /\ p = Api
                                      THEN Doing("run", "none", 1, NoKey) ELSE Idle]
  /\ run = [n \in Attempts |-> "absent"]
  /\ results = {} /\ notes = {} /\ asked = {}
  /\ due = [n \in Attempts |-> [d \in Delivery |-> "none"]]
  /\ remembered = {} /\ created = [k \in Keys |-> {}] /\ rounds = 0 /\ crashes = 0

-----------------------------------------------------------------------------
(* Read, decide, write *)

Snapshot(p, op, n, arg) ==
  Set(p, [Doing("write", op, n, arg) EXCEPT !.st = task.st, !.ver = task.ver])

\* Commands that repeat the state they find keep its version.
NewVersion(p) ==
  IF proc[p].op \in DOMAIN Moves \cup {"assign"} /\ proc[p].st = Target(proc[p].op)
  THEN proc[p].ver ELSE proc[p].ver + 1

\* Mutant: the version of a change is not counted.
WriteTaskKeepVersion(p) == task' = [st |-> Target(proc[p].op), ver |-> proc[p].ver]

\* UPDATE tasks SET state = ?, state_version = ? WHERE id = ?
WriteTask(p) == task' = [st |-> Target(proc[p].op), ver |-> NewVersion(p)]

\* _create_notification: ON CONFLICT (dedupe_key) DO NOTHING. The reasons for
\* attention (decision, end of a run, decline, budget) are not told apart.
Notify(p) == notes' = notes \cup {<<Target(proc[p].op), NewVersion(p)>>}

Writing(p, ops) == proc[p].pc = "write" /\ proc[p].op \in ops /\ Undisturbed(p)

\* An executor is done with its delivery. A newer one stays due.
Return(w) ==
  /\ Set(w, Idle)
  /\ due' = [due EXCEPT ![proc[w].n][proc[w].arg] = IF @ = "again" THEN "none" ELSE @]

-----------------------------------------------------------------------------
(* Commands of the proposer: API process *)

Superseded == [n \in Attempts |-> IF asg[n] \in ACTIVE THEN "superseded" ELSE asg[n]]

\* Mutant: the idempotency key is not looked up.
MayAssignAgain(op, key) ==
  /\ proc[Api].pc = "idle" /\ Undisturbed(Api)
  /\ TSM!CanTransition(task.st, "assigned")
  /\ op = "reopen" => task.st \in {"awaiting_proposer_close", ATTENTION} /\ Exists(1)

\* What assign_cloud_task and resume_task check. The table keys commands by their
\* operation too: a key here is one of the operation that uses it first.
MayAssign(op, key) ==
  /\ proc[Api].pc = "idle" /\ Undisturbed(Api)
  /\ key \notin remembered
  /\ TSM!CanTransition(task.st, "assigned")
  /\ op = "reopen" => task.st \in {"awaiting_proposer_close", ATTENTION} /\ Exists(1)

ReadAssign(op, key) ==
  /\ MayAssign(op, key)
  /\ \E n \in Attempts :
       /\ \A m \in Attempts : Exists(m) <=> m < n      \* MAX(attempt) + 1
       /\ Snapshot(Api, op, n, key)
  /\ UNCHANGED <<task, asg, run, results, notes, asked, due, remembered, created, rounds, crashes>>

\* Mutant: _supersede_active_assignments is forgotten.
WriteAssignBeside(p) ==
  /\ Writing(p, Assigning)
  /\ WriteTask(p)
  /\ asg' = [asg EXCEPT ![proc[p].n] = "assigned"]
  /\ created' = [k \in Keys |-> created[k] \cup (IF k = proc[p].arg THEN {proc[p].n} ELSE {})]
  /\ Goto(p, "run")
  /\ UNCHANGED <<run, results, notes, asked, due, remembered, rounds, crashes>>

\* The first transaction of assign_cloud_task and resume_task.
WriteAssign(p) ==
  /\ Writing(p, Assigning)
  /\ WriteTask(p)
  /\ asg' = [Superseded EXCEPT ![proc[p].n] = "assigned"]
  /\ created' = [k \in Keys |-> created[k] \cup (IF k = proc[p].arg THEN {proc[p].n} ELSE {})]
  /\ Goto(p, "run")
  /\ UNCHANGED <<run, results, notes, asked, due, remembered, rounds, crashes>>

\* An Agent that does not exist: _create_task_assignment raises after the
\* active assignments were superseded, and nobody rolls back: the next commit
\* of the connection commits that.
AssignUnknownAgent(key) ==
  /\ MayAssign("assign", key)
  /\ asg' = Superseded
  /\ UNCHANGED <<task, run, results, notes, asked, due, proc, remembered, created, rounds, crashes>>

\* Mutant: the run is committed without its delivery.
CreateRunNotDue(p) ==
  /\ proc[p].pc = "run" /\ Undisturbed(p)
  /\ \/ /\ asg[proc[p].n] = "assigned"
        /\ run' = [run EXCEPT ![proc[p].n] = "queued"]
     \/ UNCHANGED run
  /\ Goto(p, "remember")
  /\ UNCHANGED <<task, asg, results, notes, asked, due, remembered, created, rounds, crashes>>

\* create_run: a run, due to be executed, or refused (budgets, concurrent
\* runs, Agent inactive): then the task stays assigned without a run.
CreateRun(p) ==
  /\ proc[p].pc = "run" /\ Undisturbed(p)
  /\ \/ /\ asg[proc[p].n] = "assigned"
        /\ run' = [run EXCEPT ![proc[p].n] = "queued"]
        /\ due' = [due EXCEPT ![proc[p].n]["start"] = "new"]
     \/ UNCHANGED <<run, due>>
  /\ Goto(p, "remember")
  /\ UNCHANGED <<task, asg, results, notes, asked, remembered, created, rounds, crashes>>

\* _remember_task_command, a transaction of its own.
Remember(p) ==
  /\ proc[p].pc = "remember" /\ Undisturbed(p)
  /\ remembered' = remembered \cup ({proc[p].arg} \cap Keys)
  /\ Set(p, Idle)
  /\ UNCHANGED <<task, asg, run, results, notes, asked, due, created, rounds, crashes>>

\* transition_task, for the routes start, close and cancel.
ReadMove(op) ==
  /\ proc[Api].pc = "idle" /\ Undisturbed(Api)
  /\ TSM!CanTransition(task.st, Moves[op])
  /\ Round(op = "start")
  /\ Snapshot(Api, op, 0, NoKey)
  /\ UNCHANGED <<task, asg, run, results, notes, asked, due, remembered, created, crashes>>

WriteMove(p) ==
  /\ Writing(p, DOMAIN Moves)
  /\ WriteTask(p)
  /\ Set(p, Idle)
  /\ UNCHANGED <<asg, run, results, notes, asked, due, remembered, created, rounds, crashes>>

\* Route cancel_run.
CancelRun(n) ==
  /\ proc[Api].pc = "idle" /\ Undisturbed(Api)
  /\ run[n] \in LIVE
  /\ run' = [run EXCEPT ![n] = "cancelled"]
  /\ Set(Api, Doing("sync", "stopped", n, NoKey))
  /\ UNCHANGED <<task, asg, results, notes, asked, due, remembered, created, rounds, crashes>>

\* Route decide_tool_confirmation. A rejected tool cancels the run and leaves
\* the task alone.
ApproveTool(n) ==
  /\ proc[Api].pc = "idle" /\ Undisturbed(Api)
  /\ n \in asked /\ asked' = asked \ {n}
  /\ due' = [due EXCEPT ![n]["resume"] = "new"]
  /\ UNCHANGED <<task, asg, run, results, notes, proc, remembered, created, rounds, crashes>>

RejectTool(n) ==
  /\ proc[Api].pc = "idle" /\ Undisturbed(Api)
  /\ n \in asked /\ asked' = asked \ {n}
  /\ RSM!CanTransition(run[n], "cancelled")
  /\ run' = [run EXCEPT ![n] = "cancelled"]
  /\ UNCHANGED <<task, asg, results, notes, due, proc, remembered, created, rounds, crashes>>

-----------------------------------------------------------------------------
(* sync_task_run_state, called after each change of a run *)

\* Mutant: a finished task is projected into as well.
SyncAppliesAnyway(p) == task.st # Target(proc[p].op)

SyncApplies(p) ==
  /\ task.st \notin TSM!TERMINAL_STATES
  /\ task.st # Target(proc[p].op)
  /\ TSM!CanTransition(task.st, Target(proc[p].op))

\* After its last projection an executor returns; the API handler ends.
AfterSync(p) ==
  IF proc[p].op = "running" THEN Goto(p, "turn") /\ UNCHANGED due
  ELSE IF p \in Workers THEN Return(p)
  ELSE Set(p, Idle) /\ UNCHANGED due

\* A change that says nothing new, or nothing legal, is dropped altogether:
\* the assignment is not updated either.
SkipSync(p) ==
  /\ proc[p].pc = "sync" /\ Undisturbed(p)
  /\ ~SyncApplies(p)
  /\ AfterSync(p)
  /\ UNCHANGED <<task, asg, run, results, notes, asked, remembered, created, rounds, crashes>>

ReadSync(p) ==
  /\ proc[p].pc = "sync" /\ Undisturbed(p)
  /\ SyncApplies(p)
  /\ Snapshot(p, proc[p].op, proc[p].n, proc[p].arg)
  /\ UNCHANGED <<task, asg, run, results, notes, asked, due, remembered, created, rounds, crashes>>

\* Mutant: the state of the run is written into the assignment.
SyncedAssignmentRaw(op, st) ==
  CASE op = "running" /\ st = "assigned" -> "running"
    [] op = "failed"  /\ st \in ACTIVE   -> "failed"
    [] op = "stopped" /\ st \in ACTIVE   -> "cancelled"
    [] OTHER -> st

\* UPDATE task_assignments ... WHERE state IN (...)
SyncedAssignment(op, st) ==
  CASE op = "running" /\ st = "assigned" -> "accepted"
    [] op = "failed"  /\ st \in ACTIVE   -> "expired"
    [] op = "stopped" /\ st \in ACTIVE   -> "cancelled"
    [] OTHER -> st

WriteSync(p) ==
  /\ Writing(p, DOMAIN Syncs)
  /\ WriteTask(p)
  /\ asg' = [asg EXCEPT ![proc[p].n] = SyncedAssignment(proc[p].op, @)]
  /\ IF Target(proc[p].op) = ATTENTION THEN Notify(p) ELSE UNCHANGED notes
  /\ AfterSync(p)
  /\ UNCHANGED <<run, results, asked, remembered, created, rounds, crashes>>

-----------------------------------------------------------------------------
(* Executors: orchestrate_run *)

Held(n, d) == \E w \in Workers : proc[w].pc # "idle" /\ proc[w].n = n /\ proc[w].arg = d

\* What try_start_run accepts: a delivery seen before is a recovery.
Startable(n, d) ==
  IF due[n][d] = "again" THEN {"queued", "running"}
  ELSE IF d = "resume" THEN {"waiting_confirmation"} ELSE {"queued"}

Deliverable(w, n, d) ==
  /\ proc[w].pc = "idle" /\ Undisturbed(w)
  /\ due[n][d] = "new" \/ (due[n][d] = "again" /\ ~Held(n, d))

\* Mutant: the start of a run is projected, its resumption is not.
StartRunSilently(w, n, d) ==
  /\ Deliverable(w, n, d) /\ run[n] \in Startable(n, d)
  /\ run' = [run EXCEPT ![n] = "running"]
  /\ due' = [due EXCEPT ![n][d] = "again"]
  /\ Set(w, IF d = "resume" THEN Doing("turn", "none", n, d) ELSE Doing("sync", "running", n, d))
  /\ UNCHANGED <<task, asg, results, notes, asked, remembered, created, rounds, crashes>>

\* try_start_run, before the task hears of it.
StartRun(w, n, d) ==
  /\ Deliverable(w, n, d) /\ run[n] \in Startable(n, d)
  /\ run' = [run EXCEPT ![n] = "running"]
  /\ due' = [due EXCEPT ![n][d] = "again"]
  /\ Set(w, Doing("sync", "running", n, d))
  /\ UNCHANGED <<task, asg, results, notes, asked, remembered, created, rounds, crashes>>

\* A run that cannot start (any more): the delivery is acknowledged.
DropDelivery(w, n, d) ==
  /\ Deliverable(w, n, d) /\ run[n] \notin Startable(n, d)
  /\ due' = [due EXCEPT ![n][d] = "none"]
  /\ UNCHANGED <<task, asg, run, results, notes, asked, proc, remembered, created, rounds, crashes>>

Turn(w) == proc[w].pc = "turn" /\ Undisturbed(w)

\* is_cancelled, seen while the model streams.
SeeCancelled(w) ==
  /\ Turn(w) /\ run[proc[w].n] = "cancelled"
  /\ Return(w)
  /\ UNCHANGED <<task, asg, run, results, notes, asked, remembered, created, rounds, crashes>>

\* submit_result and request_proposer_decision: the assignment is active and
\* the transition is legal; otherwise the model is told and goes on.
ReadTool(w, op) ==
  /\ Turn(w)
  /\ asg[proc[w].n] \in ACTIVE
  /\ TSM!CanTransition(task.st, Target(op))
  /\ Round(op = "decide")
  /\ Snapshot(w, op, proc[w].n, proc[w].arg)
  /\ UNCHANGED <<task, asg, run, results, notes, asked, due, remembered, created, crashes>>

\* submit_task_result; the assignment is updated whatever its state is by now.
WriteSubmit(w) ==
  /\ Writing(w, {"submit"})
  /\ WriteTask(w)
  /\ results' = results \cup {proc[w].n}
  /\ asg' = [asg EXCEPT ![proc[w].n] = "completed"]
  /\ Notify(w)
  /\ Goto(w, "turn")
  /\ UNCHANGED <<run, asked, due, remembered, created, rounds, crashes>>

WriteDecide(w) ==
  /\ Writing(w, {"decide"})
  /\ WriteTask(w)
  /\ Notify(w)
  /\ Goto(w, "turn")
  /\ UNCHANGED <<asg, run, results, asked, due, remembered, created, rounds, crashes>>

AcceptAssignment(w) ==
  /\ Turn(w) /\ asg[proc[w].n] = "assigned"
  /\ asg' = [asg EXCEPT ![proc[w].n] = "accepted"]
  /\ UNCHANGED <<task, run, results, notes, asked, due, proc, remembered, created, rounds, crashes>>

ReadDecline(w) ==
  /\ Turn(w) /\ asg[proc[w].n] \in ACTIVE
  /\ Snapshot(w, "decline", proc[w].n, proc[w].arg)
  /\ UNCHANGED <<task, asg, run, results, notes, asked, due, remembered, created, rounds, crashes>>

WriteDecline(w) ==
  /\ Writing(w, {"decline"})
  /\ asg' = [asg EXCEPT ![proc[w].n] = IF @ \in ACTIVE THEN "declined" ELSE @]
  /\ IF proc[w].st \in TSM!TERMINAL_STATES \cup {ATTENTION}
     THEN UNCHANGED <<task, notes>>
     ELSE WriteTask(w) /\ Notify(w)
  /\ Goto(w, "declined")
  /\ UNCHANGED <<run, results, asked, due, remembered, created, rounds, crashes>>

\* update_usage before the run completes: _mark_task_budget_exhausted.
ReadBudget(w) ==
  /\ Turn(w)
  /\ task.st # ATTENTION /\ TSM!CanTransition(task.st, ATTENTION)
  /\ Snapshot(w, "budget", proc[w].n, proc[w].arg)
  /\ UNCHANGED <<task, asg, run, results, notes, asked, due, remembered, created, rounds, crashes>>

WriteBudget(w) ==
  /\ Writing(w, {"budget"})
  /\ WriteTask(w)
  /\ Notify(w)
  /\ Goto(w, "finish")
  /\ UNCHANGED <<asg, run, results, asked, due, remembered, created, rounds, crashes>>

\* update_run, then the projection of the new state. The projection of
\* "completed" changes no state: only submit_result ends the work.
EndRun(w, state, op) ==
  /\ Undisturbed(w)
  /\ RSM!CanTransition(run[proc[w].n], state)
  /\ run' = [run EXCEPT ![proc[w].n] = state]
  /\ Set(w, Doing("sync", op, proc[w].n, proc[w].arg))
  /\ Round(op = "waiting")
  /\ UNCHANGED <<task, asg, results, notes, due, remembered, created, crashes>>

FailRun(w) == proc[w].pc = "turn" /\ EndRun(w, "failed", "failed") /\ UNCHANGED asked
StopDeclined(w) == proc[w].pc = "declined" /\ EndRun(w, "cancelled", "stopped") /\ UNCHANGED asked

Suspend(w) ==
  /\ proc[w].pc = "turn"
  /\ EndRun(w, "waiting_confirmation", "waiting")
  /\ asked' = asked \cup {proc[w].n}

CompleteRun(w) ==
  /\ proc[w].pc \in {"turn", "finish"} /\ Undisturbed(w)
  /\ RSM!CanTransition(run[proc[w].n], "completed")
  /\ run' = [run EXCEPT ![proc[w].n] = "completed"]
  /\ Return(w)
  /\ UNCHANGED <<task, asg, results, notes, asked, remembered, created, rounds, crashes>>

\* update_run refuses: the exception ends the worker, its delivery stays due;
\* in local mode it ends the asyncio task.
Refused(w) ==
  /\ Undisturbed(w)
  /\ \/ proc[w].pc = "turn" /\ \E s \in {"failed", "completed"} : ~RSM!CanTransition(run[proc[w].n], s)
     \/ proc[w].pc = "finish" /\ ~RSM!CanTransition(run[proc[w].n], "completed")
     \/ proc[w].pc = "declined" /\ ~RSM!CanTransition(run[proc[w].n], "cancelled")
  /\ IF OneProcess THEN Return(w) ELSE Set(w, Idle) /\ UNCHANGED due
  /\ UNCHANGED <<task, asg, run, results, notes, asked, remembered, created, rounds, crashes>>

-----------------------------------------------------------------------------
(* Crashes: a process forgets what it was doing; what it had not written is  *)
(* rolled back. In local mode everything stops and deliveries are lost.      *)

Crash(p) ==
  /\ crashes < MaxCrashes /\ crashes' = crashes + 1
  /\ IF OneProcess
     THEN /\ proc' = [q \in Processes |-> Idle]
          /\ due' = [n \in Attempts |-> [d \in Delivery |-> "none"]]
     ELSE proc[p].pc # "idle" /\ Set(p, Idle) /\ UNCHANGED due
  /\ UNCHANGED <<task, asg, run, results, notes, asked, remembered, created, rounds>>

-----------------------------------------------------------------------------
Command ==
  \/ \E key \in Keys \cup {NoKey} :
       AssignUnknownAgent(key) \/ \E op \in Assigning : ReadAssign(op, key)
  \/ \E op \in DOMAIN Moves : ReadMove(op)
  \/ \E n \in Attempts : CancelRun(n) \/ ApproveTool(n) \/ RejectTool(n)

\* What a handler of the API does after its first step.
Handle(p) == WriteAssign(p) \/ CreateRun(p) \/ Remember(p) \/ WriteMove(p)

Project(p) == SkipSync(p) \/ ReadSync(p) \/ WriteSync(p)

UseTool(w) ==
  \/ \E op \in {"submit", "decide"} : ReadTool(w, op)
  \/ AcceptAssignment(w) \/ ReadDecline(w)

WriteTool(w) == WriteSubmit(w) \/ WriteDecide(w) \/ WriteDecline(w) \/ WriteBudget(w)

EndTurn(w) ==
  \/ SeeCancelled(w) \/ ReadBudget(w) \/ FailRun(w) \/ StopDeclined(w)
  \/ Suspend(w) \/ CompleteRun(w) \/ Refused(w)

Receive(w) == \E n \in Attempts, d \in Delivery : StartRun(w, n, d) \/ DropDelivery(w, n, d)

Execute(w) == Receive(w) \/ UseTool(w) \/ WriteTool(w) \/ EndTurn(w)

Next ==
  \/ Command \/ Handle(Api)
  \/ \E p \in Processes : Project(p) \/ Crash(p)
  \/ \E w \in Workers : Execute(w)

Spec == Init /\ [][Next]_vars

\* A process that runs goes on, and a turn of the model ends (the HTTP client
\* has a timeout); how it ends is open. Commands and tool calls are not fair.
Fairness ==
  /\ WF_vars(Handle(Api))
  /\ \A p \in Processes : WF_vars(Project(p))
  /\ \A w \in Workers : WF_vars(Receive(w)) /\ WF_vars(WriteTool(w)) /\ WF_vars(EndTurn(w))

FairSpec == Spec /\ Fairness

-----------------------------------------------------------------------------
(* Properties *)

Op == {"none"} \cup DOMAIN Moves \cup DOMAIN Syncs \cup Assigning \cup Tools
PC == Awaiting \cup {"write", "run", "remember", "sync", "finish"}
ProcState == [pc : PC, op : Op, n : Attempts \cup {0}, arg : Delivery \cup Keys \cup {NoKey},
              st : TSM!State, ver : Nat]

\* A process works on an attempt; an executor holds a delivery.
ProcOK(p) ==
  /\ (p \in Workers /\ proc[p].pc # "idle") \/ proc[p].pc \in {"run", "sync"}
       \/ (proc[p].pc = "write" /\ proc[p].op \notin DOMAIN Moves) => proc[p].n \in Attempts
  /\ p \in Workers /\ proc[p].pc # "idle" => proc[p].arg \in Delivery
  /\ proc[p].pc \in {"run", "remember"} => p = Api
  /\ proc[p].pc \in {"turn", "finish", "declined"} => p \in Workers
  /\ proc[p].pc = "sync" => proc[p].op \in IF p = Api THEN {"stopped"} ELSE DOMAIN Syncs
  /\ proc[p].pc = "write" => proc[p].op \in IF p = Api THEN {"stopped"} \cup Assigning \cup DOMAIN Moves
                                            ELSE DOMAIN Syncs \cup Tools

TypeOK ==
  /\ task \in [st : TSM!State, ver : Nat]
  /\ asg \in [Attempts -> {"none"} \cup ACTIVE \cup ENDED]
  /\ run \in [Attempts -> RSM!RunState]
  /\ results \subseteq Attempts
  /\ notes \subseteq {ATTENTION, "awaiting_proposer_close"} \X Nat
  /\ asked \subseteq Attempts
  /\ due \in [Attempts -> [Delivery -> {"none", "new", "again"}]]
  /\ proc \in [Processes -> ProcState] /\ \A p \in Processes : ProcOK(p)
  /\ remembered \subseteq Keys
  /\ created \in [Keys -> SUBSET Attempts]
  /\ rounds \in 0..MaxRounds /\ crashes \in 0..MaxCrashes

\* At any time at most one executor is entitled to the task, in both modes:
\* _supersede_active_assignments and the insert are one transaction.
OneActiveAssignment ==
  \A m, n \in Attempts : asg[m] \in ACTIVE /\ asg[n] \in ACTIVE => m = n

\* A task never waits for its proposer without a notification of that very
\* version: nobody writes attention_required or awaiting_proposer_close
\* without _create_notification in the same transaction.
WaitingIsNotified ==
  task.st \in {ATTENTION, "awaiting_proposer_close"} => <<task.st, task.ver>> \in notes

\* A task is closed only after some executor has submitted a structured
\* result: a run that completes never closes it (transition_task,
\* submit_task_result).
ClosedHasResult == task.st = "closed" => results # {}

\* Local mode: the lifecycle of task_state_machine.py is kept, and every
\* change of the state gets a version of its own.
TaskMachine == TSM!Spec

\* A finished task stays as it is (TERMINAL_STATES, and TRANSITIONS has
\* nothing after closed and cancelled).
TerminalTasksStay ==
  [][task.st \in TSM!TERMINAL_STATES => task'.st = task.st]_vars

\* An attempt that has ended keeps how it ended: no later write changes it.
AttemptsFinal == [][\A n \in Attempts : asg[n] \in ENDED => asg'[n] = asg[n]]_vars

\* The end of a run blocks the task only if no other assignment of the task
\* is active with a run that is queued, running or waiting.
StaleRunKeepsTask ==
  [][\A p \in Processes :
       /\ Writing(p, {"failed", "stopped"}) /\ proc'[p].pc # "write"
       /\ task'.st = ATTENTION /\ crashes' = crashes
       => \A m \in Attempts \ {proc[p].n} : ~(asg[m] \in ACTIVE /\ run[m] \in LIVE)]_vars

\* One idempotency key, one assignment, however often the command is retried.
OneKeyOneAssignment == \A k \in Keys : Cardinality(created[k]) <= 1

Quiet == \A p \in Processes : proc[p].pc = "idle"

\* When nobody is about to write it, a task whose run has failed or was
\* cancelled is no longer shown as working, while its assignment is active.
EndedRunReported ==
  Quiet => \A n \in Attempts :
    run[n] \in {"failed", "cancelled"} /\ asg[n] \in ACTIVE
      => task.st \notin {"in_progress", "waiting_confirmation"}

\* A cancelled task has no run that may still execute.
TaskCancelStopsRuns ==
  Quiet /\ task.st = "cancelled" => \A n \in Attempts : run[n] \notin LIVE

\* A task waits for a confirmation only if, once every write is done, one of its
\* runs does (or was cancelled while it did: sync_task_run_state is not called
\* for a rejected confirmation).
WaitingRunWaits ==
  (task.st = "waiting_confirmation" /\ \A p \in Processes : proc[p].pc \in Awaiting)
    => \E n \in Attempts : run[n] \in {"waiting_confirmation", "cancelled"}

\* An attempt is superseded only by a later one.
SupersededHasSuccessor ==
  \A n \in Attempts : asg[n] = "superseded" => \E m \in Attempts : m > n /\ Exists(m)

\* A queued run of an assigned task makes the task move on.
AssignedStarts ==
  \A n \in Attempts :
    (run[n] = "queued" /\ task.st = "assigned") ~> task.st # "assigned"
=============================================================================
