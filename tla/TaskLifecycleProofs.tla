------------------------ MODULE TaskLifecycleProofs ------------------------
(* Theorems about one task (TaskLifecycle) and about trees of tasks and their *)
(* budgets (TaskDelegation), for all constants of the two modules.            *)
EXTENDS TaskLifecycle, TaskDelegation, FiniteSetTheorems, TLAPS

-----------------------------------------------------------------------------
(* Facts about the constants *)

LEMMA Names ==
  /\ DOMAIN Moves = {"start", "close", "cancel"}
  /\ DOMAIN Syncs = {"running", "waiting", "failed", "stopped"}
  /\ TSM!State = {"draft", "queued", "assigned", "in_progress", "waiting_confirmation",
                  "awaiting_proposer_close", "attention_required", "closed", "cancelled"}
  /\ Api \in Processes /\ Workers = Processes \ {Api} /\ Api \notin Workers
BY ProcessAssumption DEF Moves, Syncs, TSM!State, TSM!TRANSITIONS, Processes, Api

\* What each operation aims at.
LEMMA Targets ==
  /\ \A op \in Op : Target(op) \in TSM!State \ {"draft"}
  /\ \A op \in Op : Target(op) = "closed" <=> op = "close"
  /\ \A op \in Op : Target(op) = "awaiting_proposer_close" <=> op = "submit"
  /\ \A op \in Op : (Target(op) = ATTENTION /\ op # "none")
                      <=> op \in {"failed", "stopped", "decide", "decline", "budget"}
  /\ \A op \in Assigning : Target(op) = "assigned"
BY Names DEF Target, Op, Moves, Syncs, Assigning, Tools, ATTENTION

\* Only a submitted result leads to closed, and no state leads back to draft.
LEMMA Transitions ==
  /\ \A s \in TSM!State : TSM!CanTransition(s, "closed") => s \in {"awaiting_proposer_close", "closed"}
  /\ \A s \in TSM!State \ (TSM!TERMINAL_STATES \cup {"draft"}) : TSM!CanTransition(s, ATTENTION)
BY Names DEF TSM!CanTransition, TSM!TRANSITIONS, TSM!TERMINAL_STATES, ATTENTION

-----------------------------------------------------------------------------
(* Type correctness *)

LEMMA SetProc ==
  ASSUME TypeOK, NEW p \in Processes, NEW x \in ProcState, Set(p, x),
         ProcOK(p)'
  PROVE  proc' \in [Processes -> ProcState] /\ \A q \in Processes : ProcOK(q)'
BY DEF TypeOK, Set, ProcOK

LEMMA IdleOK ==
  /\ Idle \in ProcState
  /\ \A pc \in PC, op \in Op, n \in Attempts \cup {0}, arg \in Delivery \cup Keys \cup {NoKey} :
       Doing(pc, op, n, arg) \in ProcState
BY Names DEF Idle, Doing, ProcState, PC, Op, Awaiting, Delivery

LEMMA TypeInit == Init => TypeOK
<1> SUFFICES ASSUME Init PROVE TypeOK
  OBVIOUS
<1>1. proc \in [Processes -> ProcState]
  <2>1. Doing("run", "none", 1, NoKey) \in ProcState
    <3>1. "run" \in PC /\ "none" \in Op /\ 1 \in Attempts \cup {0}
      BY BoundsAssumption DEF PC, Op, Attempts
    <3> QED BY <3>1, IdleOK
  <2> QED BY <2>1, IdleOK DEF Init
<1>2. \A p \in Processes : ProcOK(p)
  BY BoundsAssumption, Names DEF Init, ProcOK, Idle, Doing, Attempts
<1>3. task \in [st : TSM!State, ver : Nat]
  BY Names DEF Init
<1> QED
  BY <1>1, <1>2, <1>3, BoundsAssumption
  DEF Init, TypeOK, RSM!RunState, ACTIVE, Attempts, Delivery

\* What a process may be doing next, for the steps of its own.
LEMMA SnapshotOK ==
  ASSUME TypeOK, NEW p \in Processes, NEW op \in Op \ {"none"}, NEW n \in Attempts \cup {0},
         NEW arg \in Delivery \cup Keys \cup {NoKey}, Snapshot(p, op, n, arg),
         op \notin DOMAIN Moves => n \in Attempts,
         p \in Workers => arg \in Delivery /\ op \in DOMAIN Syncs \cup Tools /\ n \in Attempts,
         p = Api => op \in {"stopped"} \cup Assigning \cup DOMAIN Moves
  PROVE  proc' \in [Processes -> ProcState] /\ \A q \in Processes : ProcOK(q)'
<1> DEFINE x == [Doing("write", op, n, arg) EXCEPT !.st = task.st, !.ver = task.ver]
<1>1. x \in ProcState /\ x.pc = "write" /\ x.op = op /\ x.n = n /\ x.arg = arg
  BY DEF TypeOK, Doing, ProcState, PC
<1>2. Set(p, x)
  BY DEF Snapshot
<1> HIDE DEF x
<1>3. proc'[p] = x
  BY <1>2 DEF TypeOK, Set
<1>4. ProcOK(p)'
  BY <1>1, <1>3, Names DEF ProcOK
<1> QED BY <1>1, <1>2, <1>4, SetProc

LEMMA DoingOK ==
  ASSUME TypeOK, NEW p \in Processes, NEW pc \in PC \ {"write"}, NEW op \in Op, NEW n \in Attempts \cup {0},
         NEW arg \in Delivery \cup Keys \cup {NoKey}, Set(p, Doing(pc, op, n, arg)),
         pc # "idle" => n \in Attempts,
         p \in Workers /\ pc # "idle" => arg \in Delivery,
         pc \in {"run", "remember"} => p = Api,
         pc \in {"turn", "finish", "declined"} => p \in Workers,
         pc = "sync" => op \in IF p = Api THEN {"stopped"} ELSE DOMAIN Syncs
  PROVE  proc' \in [Processes -> ProcState] /\ \A q \in Processes : ProcOK(q)'
<1> DEFINE x == Doing(pc, op, n, arg)
<1>1. x \in ProcState /\ x.pc = pc /\ x.op = op /\ x.n = n /\ x.arg = arg
  BY IdleOK DEF Doing
<1> HIDE DEF x
<1>2. proc'[p] = x
  BY DEF TypeOK, Set, x
<1>4. ProcOK(p)'
  BY <1>1, <1>2, Names DEF ProcOK
<1> QED BY <1>1, <1>4, SetProc DEF x

LEMMA IdleSetOK ==
  ASSUME TypeOK, NEW p \in Processes, Set(p, Idle)
  PROVE  proc' \in [Processes -> ProcState] /\ \A q \in Processes : ProcOK(q)'
<1>1. "idle" \in PC \ {"write"} /\ "none" \in Op
  BY DEF PC, Op, Awaiting
<1> QED BY <1>1, DoingOK DEF Idle

LEMMA ReturnOK ==
  ASSUME TypeOK, NEW w \in Workers, Return(w)
  PROVE  /\ proc' \in [Processes -> ProcState] /\ \A q \in Processes : ProcOK(q)'
         /\ due' \in [Attempts -> [Delivery -> {"none", "new", "again"}]]
BY IdleSetOK, Names DEF Return, TypeOK

LEMMA GotoOK ==
  ASSUME TypeOK, NEW p \in Processes, NEW pc \in PC \ {"write", "sync"}, Goto(p, pc),
         proc[p].n \in Attempts, p \in Workers => proc[p].arg \in Delivery,
         pc \in {"run", "remember"} => p = Api,
         pc \in {"turn", "finish", "declined"} => p \in Workers
  PROVE  proc' \in [Processes -> ProcState] /\ \A q \in Processes : ProcOK(q)'
<1>1. proc[p].arg \in Delivery \cup Keys \cup {NoKey} /\ "none" \in Op
  BY DEF TypeOK, ProcState, Op
<1> QED BY <1>1, DoingOK DEF Goto

\* The row a process writes.
LEMMA WriteOK ==
  ASSUME TypeOK, NEW p \in Processes, WriteTask(p)
  PROVE  /\ task' \in [st : TSM!State, ver : Nat]
         /\ task'.st # "draft" /\ NewVersion(p) \in Nat
<1>1. proc[p].op \in Op /\ proc[p].ver \in Nat
  BY DEF TypeOK, ProcState
<1>2. NewVersion(p) \in Nat
  BY <1>1 DEF NewVersion
<1> QED BY <1>1, <1>2, Targets DEF WriteTask

LEMMA NotifyOK ==
  ASSUME TypeOK, NEW p \in Processes, Notify(p), WriteTask(p),
         proc[p].op \in {"failed", "stopped", "decide", "decline", "budget", "submit"}
  PROVE  notes' \subseteq {ATTENTION, "awaiting_proposer_close"} \X Nat
<1>1. Target(proc[p].op) \in {ATTENTION, "awaiting_proposer_close"}
  BY Targets, Names DEF Op, Tools
<1>2. NewVersion(p) \in Nat
  BY WriteOK
<1> QED BY <1>1, <1>2 DEF Notify, TypeOK

\* The commands of the proposer and what their handlers do next.
LEMMA TypeApi ==
  ASSUME TypeOK, Command \/ Handle(Api)
  PROVE  TypeOK'
<1> USE Names
<1>0. /\ proc[Api] \in ProcState /\ ProcOK(Api) /\ NoKey \in Delivery \cup Keys \cup {NoKey}
      /\ asg \in [Attempts -> {"none"} \cup ACTIVE \cup ENDED]
      /\ Superseded \in [Attempts -> {"none"} \cup ACTIVE \cup ENDED]
  BY DEF TypeOK, Superseded, ENDED
<1>1. ASSUME NEW key \in Keys \cup {NoKey}, AssignUnknownAgent(key) PROVE TypeOK'
  BY <1>0, <1>1 DEF AssignUnknownAgent, TypeOK, ProcOK
<1>2. ASSUME NEW key \in Keys \cup {NoKey}, NEW op \in Assigning, ReadAssign(op, key) PROVE TypeOK'
  <2>1. PICK n \in Attempts : Snapshot(Api, op, n, key)
    BY <1>2 DEF ReadAssign
  <2>2. op \in Op \ {"none"}
    BY DEF Op, Assigning
  <2>3. proc' \in [Processes -> ProcState] /\ \A q \in Processes : ProcOK(q)'
    BY <2>1, <2>2, SnapshotOK
  <2> QED BY <1>2, <2>3 DEF ReadAssign, TypeOK
<1>3. ASSUME NEW op \in DOMAIN Moves, ReadMove(op) PROVE TypeOK'
  <2>1. op \in Op \ {"none"} /\ 0 \in Attempts \cup {0}
    BY DEF Op
  <2>2. proc' \in [Processes -> ProcState] /\ \A q \in Processes : ProcOK(q)'
    BY <1>0, <1>3, <2>1, SnapshotOK DEF ReadMove
  <2>3. rounds' \in 0..MaxRounds
    BY <1>3, BoundsAssumption DEF ReadMove, Round, TypeOK
  <2> QED BY <1>3, <2>2, <2>3 DEF ReadMove, TypeOK
<1>4. ASSUME NEW n \in Attempts, CancelRun(n) PROVE TypeOK'
  <2>1. "stopped" \in Op /\ "sync" \in PC \ {"write"}
    BY DEF Op, PC
  <2>2. proc' \in [Processes -> ProcState] /\ \A q \in Processes : ProcOK(q)'
    BY <1>0, <1>4, <2>1, DoingOK DEF CancelRun
  <2>3. run' \in [Attempts -> RSM!RunState]
    BY <1>4 DEF CancelRun, TypeOK, RSM!RunState, RSM!TERMINAL_STATES
  <2> QED BY <1>4, <2>2, <2>3 DEF CancelRun, TypeOK
<1>5. ASSUME NEW n \in Attempts, ApproveTool(n) \/ RejectTool(n) PROVE TypeOK'
  <2>1. run' \in [Attempts -> RSM!RunState]
    BY <1>5 DEF ApproveTool, RejectTool, TypeOK, RSM!RunState, RSM!TERMINAL_STATES
  <2>2. due' \in [Attempts -> [Delivery -> {"none", "new", "again"}]]
    BY <1>5 DEF ApproveTool, RejectTool, TypeOK, Delivery
  <2> QED BY <1>5, <2>1, <2>2 DEF ApproveTool, RejectTool, TypeOK, ProcOK
<1>6. CASE WriteAssign(Api)
  <2>1. proc[Api].n \in Attempts
    BY <1>0, <1>6 DEF WriteAssign, Writing, Assigning, ProcOK
  <2>2. "run" \in PC \ {"write", "sync"}
    BY DEF PC
  <2>3. proc' \in [Processes -> ProcState] /\ \A q \in Processes : ProcOK(q)'
    BY <1>6, <2>1, <2>2, GotoOK DEF WriteAssign
  <2>4. task' \in [st : TSM!State, ver : Nat]
    BY <1>6, WriteOK DEF WriteAssign
  <2>5. asg' \in [Attempts -> {"none"} \cup ACTIVE \cup ENDED]
    BY <1>0, <1>6 DEF WriteAssign, ACTIVE
  <2>6. created' \in [Keys -> SUBSET Attempts]
    BY <1>6, <2>1 DEF WriteAssign, TypeOK
  <2> QED BY <1>6, <2>3, <2>4, <2>5, <2>6 DEF WriteAssign, TypeOK
<1>7. CASE CreateRun(Api)
  <2>1. proc[Api].n \in Attempts /\ "remember" \in PC \ {"write", "sync"}
    BY <1>0, <1>7 DEF CreateRun, ProcOK, PC
  <2>2. proc' \in [Processes -> ProcState] /\ \A q \in Processes : ProcOK(q)'
    BY <1>7, <2>1, GotoOK DEF CreateRun
  <2>3. run' \in [Attempts -> RSM!RunState]
    BY <1>7 DEF CreateRun, TypeOK, RSM!RunState, RSM!ACTIVE_STATES
  <2>4. due' \in [Attempts -> [Delivery -> {"none", "new", "again"}]]
    BY <1>7 DEF CreateRun, TypeOK, Delivery
  <2> QED BY <1>7, <2>2, <2>3, <2>4 DEF CreateRun, TypeOK
<1>8. CASE Remember(Api)
  BY <1>8, IdleSetOK DEF Remember, TypeOK
<1>9. CASE WriteMove(Api)
  BY <1>9, IdleSetOK, WriteOK DEF WriteMove, TypeOK
<1> QED BY <1>1, <1>2, <1>3, <1>4, <1>5, <1>6, <1>7, <1>8, <1>9 DEF Command, Handle

\* sync_task_run_state, by whoever calls it, and crashes.
LEMMA TypeProject ==
  ASSUME TypeOK, NEW p \in Processes, Project(p) \/ Crash(p)
  PROVE  TypeOK'
<1> USE Names
<1>0. proc[p] \in ProcState /\ ProcOK(p)
  BY DEF TypeOK
<1>1. ASSUME AfterSync(p), proc[p].n \in Attempts, proc[p].op \in DOMAIN Syncs,
             p \in Workers => proc[p].arg \in Delivery,
             proc[p].op = "running" => p \in Workers
      PROVE  /\ proc' \in [Processes -> ProcState] /\ \A q \in Processes : ProcOK(q)'
             /\ due' \in [Attempts -> [Delivery -> {"none", "new", "again"}]]
  <2>1. "turn" \in PC \ {"write", "sync"}
    BY DEF PC, Awaiting
  <2>2. CASE proc[p].op = "running"
    BY <1>1, <2>1, <2>2, GotoOK DEF AfterSync, TypeOK
  <2>3. CASE proc[p].op # "running" /\ p \in Workers
    BY <1>1, <2>3, ReturnOK DEF AfterSync
  <2>4. CASE proc[p].op # "running" /\ p \notin Workers
    BY <1>1, <2>4, IdleSetOK DEF AfterSync, TypeOK
  <2> QED BY <2>2, <2>3, <2>4
<1>2. ASSUME proc[p].pc \in {"sync", "write"}, proc[p].op \in DOMAIN Syncs
      PROVE  /\ proc[p].n \in Attempts /\ (p \in Workers => proc[p].arg \in Delivery)
             /\ proc[p].op = "running" => p \in Workers
  BY <1>0, <1>2 DEF ProcOK, Assigning
<1>3. CASE SkipSync(p)
  <2>1. proc[p].pc = "sync" /\ AfterSync(p)
    BY <1>3 DEF SkipSync
  <2>2. proc[p].op \in DOMAIN Syncs
    BY <1>0, <2>1 DEF ProcOK
  <2> QED BY <1>1, <1>2, <1>3, <2>1, <2>2 DEF SkipSync, TypeOK
<1>4. CASE ReadSync(p)
  <2>1. proc[p].pc = "sync"
    BY <1>4 DEF ReadSync
  <2>2. proc[p].op \in DOMAIN Syncs /\ (p = Api => proc[p].op = "stopped")
    BY <1>0, <2>1 DEF ProcOK
  <2>3. proc[p].op \in Op \ {"none"} /\ proc[p].arg \in Delivery \cup Keys \cup {NoKey}
    BY <1>0, <2>2 DEF ProcState, Op
  <2>4. proc' \in [Processes -> ProcState] /\ \A q \in Processes : ProcOK(q)'
    BY <1>2, <1>4, <2>1, <2>2, <2>3, SnapshotOK DEF ReadSync
  <2> QED BY <1>4, <2>4 DEF ReadSync, TypeOK
<1>5. CASE WriteSync(p)
  <2>1. proc[p].pc = "write" /\ proc[p].op \in DOMAIN Syncs /\ AfterSync(p) /\ WriteTask(p)
    BY <1>5 DEF WriteSync, Writing
  <2>2. task' \in [st : TSM!State, ver : Nat]
    BY <2>1, WriteOK
  <2>3. asg' \in [Attempts -> {"none"} \cup ACTIVE \cup ENDED]
    BY <1>5 DEF WriteSync, SyncedAssignment, TypeOK, ACTIVE, ENDED
  <2>4. notes' \subseteq {ATTENTION, "awaiting_proposer_close"} \X Nat
    <3>1. CASE Target(proc[p].op) = ATTENTION
      <4>1. proc[p].op \in {"failed", "stopped"}
        BY <2>1, <3>1 DEF Target, Moves, Syncs, ATTENTION
      <4> QED BY <1>5, <2>1, <3>1, <4>1, NotifyOK DEF WriteSync
    <3>2. CASE Target(proc[p].op) # ATTENTION
      BY <1>5, <3>2 DEF WriteSync, TypeOK
    <3> QED BY <3>1, <3>2
  <2> QED BY <1>1, <1>2, <1>5, <2>1, <2>2, <2>3, <2>4 DEF WriteSync, TypeOK
<1>6. CASE Crash(p)
  <2>1. crashes' \in 0..MaxCrashes
    BY <1>6, BoundsAssumption DEF Crash, TypeOK
  <2>2. CASE OneProcess
    <3>1. proc' = [q \in Processes |-> Idle]
      BY <1>6, <2>2 DEF Crash
    <3>2. proc' \in [Processes -> ProcState] /\ \A q \in Processes : ProcOK(q)'
      BY <3>1, IdleOK DEF ProcOK, Idle, Doing
    <3> QED BY <1>6, <2>1, <2>2, <3>2 DEF Crash, TypeOK, Delivery
  <2>3. CASE ~OneProcess
    BY <1>6, <2>1, <2>3, IdleSetOK DEF Crash, TypeOK
  <2> QED BY <2>2, <2>3
<1> QED BY <1>3, <1>4, <1>5, <1>6 DEF Project

\* The executors.
LEMMA TypeExecute ==
  ASSUME TypeOK, NEW w \in Workers, Execute(w)
  PROVE  TypeOK'
<1> USE Names
<1>0. proc[w] \in ProcState /\ ProcOK(w) /\ w \in Processes
  BY DEF TypeOK
<1>1. ASSUME NEW n \in Attempts, NEW d \in Delivery, StartRun(w, n, d) PROVE TypeOK'
  <2>1. "sync" \in PC \ {"write"} /\ "running" \in Op
    BY DEF PC, Op
  <2>2. proc' \in [Processes -> ProcState] /\ \A q \in Processes : ProcOK(q)'
    BY <1>0, <1>1, <2>1, DoingOK DEF StartRun
  <2>3. run' \in [Attempts -> RSM!RunState]
    BY <1>1 DEF StartRun, TypeOK, RSM!RunState, RSM!ACTIVE_STATES
  <2>4. due' \in [Attempts -> [Delivery -> {"none", "new", "again"}]]
    BY <1>1 DEF StartRun, TypeOK
  <2> QED BY <1>1, <2>2, <2>3, <2>4 DEF StartRun, TypeOK
<1>2. ASSUME NEW n \in Attempts, NEW d \in Delivery, DropDelivery(w, n, d) PROVE TypeOK'
  <2>1. due' \in [Attempts -> [Delivery -> {"none", "new", "again"}]]
    BY <1>2 DEF DropDelivery, TypeOK
  <2> QED BY <1>2, <2>1 DEF DropDelivery, TypeOK, ProcOK
<1>3. proc[w].pc # "idle" => proc[w].n \in Attempts /\ proc[w].arg \in Delivery
  BY <1>0 DEF ProcOK
\* The model calls a tool that will write the task.
<1>4. ASSUME NEW op \in Tools, Turn(w), Snapshot(w, op, proc[w].n, proc[w].arg)
      PROVE  proc' \in [Processes -> ProcState] /\ \A q \in Processes : ProcOK(q)'
  <2>1. op \in Op \ {"none"} /\ op \notin DOMAIN Moves
    BY DEF Op, Tools
  <2> QED BY <1>0, <1>3, <1>4, <2>1, SnapshotOK DEF Turn
<1>5. ASSUME NEW op \in {"submit", "decide"}, ReadTool(w, op) PROVE TypeOK'
  <2>1. proc' \in [Processes -> ProcState] /\ \A q \in Processes : ProcOK(q)'
    BY <1>4, <1>5 DEF ReadTool, Tools
  <2>2. rounds' \in 0..MaxRounds
    BY <1>5, BoundsAssumption DEF ReadTool, Round, TypeOK
  <2> QED BY <1>5, <2>1, <2>2 DEF ReadTool, TypeOK
<1>6. CASE AcceptAssignment(w)
  <2>1. asg' \in [Attempts -> {"none"} \cup ACTIVE \cup ENDED]
    BY <1>6 DEF AcceptAssignment, TypeOK, ACTIVE
  <2> QED BY <1>6, <2>1 DEF AcceptAssignment, TypeOK, ProcOK
<1>7. CASE ReadDecline(w)
  BY <1>4, <1>7 DEF ReadDecline, TypeOK, Tools
<1>8. CASE ReadBudget(w)
  BY <1>4, <1>8 DEF ReadBudget, TypeOK, Tools
\* The tool writes the task and the turn goes on.
<1>9. ASSUME NEW pc \in {"turn", "declined", "finish"}, proc[w].pc # "idle", Goto(w, pc)
      PROVE  proc' \in [Processes -> ProcState] /\ \A q \in Processes : ProcOK(q)'
  <2>1. pc \in PC \ {"write", "sync"}
    BY DEF PC, Awaiting
  <2> QED BY <1>0, <1>3, <1>9, <2>1, GotoOK
<1>10. CASE WriteSubmit(w)
  <2>1. task' \in [st : TSM!State, ver : Nat]
    BY <1>0, <1>10, WriteOK DEF WriteSubmit
  <2>2. notes' \subseteq {ATTENTION, "awaiting_proposer_close"} \X Nat
    BY <1>0, <1>10, NotifyOK DEF WriteSubmit, Writing
  <2>3. asg' \in [Attempts -> {"none"} \cup ACTIVE \cup ENDED]
    BY <1>10 DEF WriteSubmit, TypeOK, ENDED
  <2>4. results' \subseteq Attempts
    BY <1>3, <1>10 DEF WriteSubmit, Writing, TypeOK
  <2>5. proc' \in [Processes -> ProcState] /\ \A q \in Processes : ProcOK(q)'
    BY <1>9, <1>10 DEF WriteSubmit, Writing
  <2> QED BY <1>10, <2>1, <2>2, <2>3, <2>4, <2>5 DEF WriteSubmit, TypeOK
<1>11. CASE WriteDecide(w)
  <2>1. task' \in [st : TSM!State, ver : Nat]
    BY <1>0, <1>11, WriteOK DEF WriteDecide
  <2>2. notes' \subseteq {ATTENTION, "awaiting_proposer_close"} \X Nat
    BY <1>0, <1>11, NotifyOK DEF WriteDecide, Writing
  <2>3. proc' \in [Processes -> ProcState] /\ \A q \in Processes : ProcOK(q)'
    BY <1>9, <1>11 DEF WriteDecide, Writing
  <2> QED BY <1>11, <2>1, <2>2, <2>3 DEF WriteDecide, TypeOK
<1>12. CASE WriteDecline(w)
  <2>1. task' \in [st : TSM!State, ver : Nat]
    BY <1>0, <1>12, WriteOK DEF WriteDecline, TypeOK
  <2>2. notes' \subseteq {ATTENTION, "awaiting_proposer_close"} \X Nat
    BY <1>0, <1>12, NotifyOK DEF WriteDecline, Writing, TypeOK
  <2>3. asg' \in [Attempts -> {"none"} \cup ACTIVE \cup ENDED]
    BY <1>12 DEF WriteDecline, TypeOK, ENDED
  <2>4. proc' \in [Processes -> ProcState] /\ \A q \in Processes : ProcOK(q)'
    BY <1>9, <1>12 DEF WriteDecline, Writing
  <2> QED BY <1>12, <2>1, <2>2, <2>3, <2>4 DEF WriteDecline, TypeOK
<1>13. CASE WriteBudget(w)
  <2>1. task' \in [st : TSM!State, ver : Nat]
    BY <1>0, <1>13, WriteOK DEF WriteBudget
  <2>2. notes' \subseteq {ATTENTION, "awaiting_proposer_close"} \X Nat
    BY <1>0, <1>13, NotifyOK DEF WriteBudget, Writing
  <2>3. proc' \in [Processes -> ProcState] /\ \A q \in Processes : ProcOK(q)'
    BY <1>9, <1>13 DEF WriteBudget, Writing
  <2> QED BY <1>13, <2>1, <2>2, <2>3 DEF WriteBudget, TypeOK
\* The run ends or suspends.
<1>14. ASSUME NEW ended \in RSM!RunState, NEW op \in DOMAIN Syncs, proc[w].pc # "idle", EndRun(w, ended, op)
       PROVE  /\ proc' \in [Processes -> ProcState] /\ \A q \in Processes : ProcOK(q)'
              /\ run' \in [Attempts -> RSM!RunState] /\ rounds' \in 0..MaxRounds
  <2>1. "sync" \in PC \ {"write"} /\ op \in Op
    BY DEF PC, Op
  <2>2. proc' \in [Processes -> ProcState] /\ \A q \in Processes : ProcOK(q)'
    BY <1>0, <1>3, <1>14, <2>1, DoingOK DEF EndRun
  <2>3. run' \in [Attempts -> RSM!RunState]
    BY <1>14 DEF EndRun, TypeOK
  <2>4. rounds' \in 0..MaxRounds
    BY <1>14, BoundsAssumption DEF EndRun, Round, TypeOK
  <2> QED BY <2>2, <2>3, <2>4
<1>15. {"failed", "cancelled", "waiting_confirmation", "completed"} \subseteq RSM!RunState
  BY DEF RSM!RunState, RSM!ACTIVE_STATES, RSM!TERMINAL_STATES
<1>16. CASE FailRun(w)
  BY <1>14, <1>15, <1>16 DEF FailRun, EndRun, TypeOK
<1>17. CASE StopDeclined(w)
  BY <1>14, <1>15, <1>17 DEF StopDeclined, EndRun, TypeOK
<1>18. CASE Suspend(w)
  <2>1. EndRun(w, "waiting_confirmation", "waiting") /\ proc[w].pc # "idle"
    BY <1>18 DEF Suspend
  <2>2. asked' \subseteq Attempts
    BY <1>3, <1>18, <2>1 DEF Suspend, TypeOK
  <2> QED BY <1>14, <1>15, <2>1, <2>2 DEF EndRun, TypeOK
<1>19. CASE CompleteRun(w)
  <2>1. run' \in [Attempts -> RSM!RunState]
    BY <1>15, <1>19 DEF CompleteRun, TypeOK
  <2> QED BY <1>19, <2>1, ReturnOK DEF CompleteRun, TypeOK
<1>20. CASE SeeCancelled(w)
  BY <1>20, ReturnOK DEF SeeCancelled, TypeOK
<1>21. CASE Refused(w)
  <2>1. CASE OneProcess
    BY <1>21, <2>1, ReturnOK DEF Refused, TypeOK
  <2>2. CASE ~OneProcess
    BY <1>0, <1>21, <2>2, IdleSetOK DEF Refused, TypeOK
  <2> QED BY <2>1, <2>2
<1> QED BY <1>1, <1>2, <1>5, <1>6, <1>7, <1>8, <1>10, <1>11, <1>12, <1>13, <1>16, <1>17, <1>18,
           <1>19, <1>20, <1>21 DEF Execute, Receive, UseTool, WriteTool, EndTurn

LEMMA TypeNext == TypeOK /\ [Next]_vars => TypeOK'
<1> SUFFICES ASSUME TypeOK, [Next]_vars PROVE TypeOK'
  OBVIOUS
<1>1. CASE Next
  BY <1>1, TypeApi, TypeProject, TypeExecute DEF Next
<1>2. CASE UNCHANGED vars
  BY <1>2 DEF vars, TypeOK, ProcOK
<1> QED BY <1>1, <1>2

\* Every row, and what every process is doing, stays well formed.
THEOREM TypeCorrect == Spec => []TypeOK
BY TypeInit, TypeNext, PTL DEF Spec

-----------------------------------------------------------------------------
(* What a step does to the task, its notifications and its results: it is  *)
(* made by one process, which reads or writes the task, or it is a crash.  *)

Kept(p) == \A q \in Processes \ {p} : proc'[q] = proc[q]

Reads(p) ==
  /\ UNCHANGED <<task, notes, results>>
  /\ proc'[p].st = task.st /\ proc'[p].ver = task.ver
  /\ proc'[p].op \in Op \ {"none"}
  /\ proc'[p].op = "decline" \/ TSM!CanTransition(task.st, Target(proc'[p].op))

Writes(p) ==
  /\ proc[p].pc = "write" /\ proc[p].op \in Op \ {"none"} /\ WriteTask(p)
  /\ proc'[p].pc # "write"
  /\ proc[p].op = "decline" => proc[p].st \notin TSM!TERMINAL_STATES \cup {ATTENTION}
  /\ proc[p].op = "submit" => results' # {}
  /\ Target(proc[p].op) \in {ATTENTION, "awaiting_proposer_close"} => Notify(p)

StepBy(p) ==
  /\ Undisturbed(p) /\ Kept(p)
  /\ proc'[p].pc = "write" => proc'[p] = proc[p] \/ Reads(p)
  /\ results \subseteq results' /\ notes \subseteq notes'
  /\ task' = task \/ Writes(p)

LEMMA SetFacts ==
  ASSUME TypeOK, NEW p \in Processes, NEW x, Set(p, x)
  PROVE  Kept(p) /\ proc'[p] = x
BY DEF TypeOK, Set, Kept

\* A process that keeps its hands off the task.
LEMMA OtherStep ==
  ASSUME TypeOK, NEW p \in Processes, Undisturbed(p), UNCHANGED <<task, notes, results>>,
         proc' = proc \/ (\E x : Set(p, x) /\ x.pc # "write")
  PROVE  StepBy(p)
<1>1. CASE proc' = proc
  BY <1>1 DEF StepBy, Kept
<1>2. CASE \E x : Set(p, x) /\ x.pc # "write"
  BY <1>2, SetFacts DEF StepBy
<1> QED BY <1>1, <1>2

LEMMA DoingPc ==
  ASSUME NEW pc, NEW op, NEW n, NEW arg
  PROVE  Doing(pc, op, n, arg).pc = pc /\ Idle.pc = "idle"
BY DEF Doing, Idle

LEMMA LeaveSteps ==
  ASSUME NEW p \in Processes
  PROVE  /\ \A pc : pc # "write" /\ Goto(p, pc) => \E x : Set(p, x) /\ x.pc # "write"
         /\ Set(p, Idle) \/ Return(p) => \E x : Set(p, x) /\ x.pc # "write"
<1>1. ASSUME NEW pc, pc # "write", Goto(p, pc) PROVE \E x : Set(p, x) /\ x.pc # "write"
  BY <1>1, DoingPc DEF Goto
<1>2. ASSUME Set(p, Idle) \/ Return(p) PROVE \E x : Set(p, x) /\ x.pc # "write"
  BY <1>2, DoingPc DEF Return
<1> QED BY <1>1, <1>2

LEMMA SyncLeaves ==
  ASSUME NEW p \in Processes, AfterSync(p)
  PROVE  \E x : Set(p, x) /\ x.pc # "write"
BY LeaveSteps DEF AfterSync

LEMMA ReadStep ==
  ASSUME TypeOK, NEW p \in Processes, Undisturbed(p), UNCHANGED <<task, notes, results>>,
         NEW op \in Op \ {"none"}, NEW n, NEW arg, Snapshot(p, op, n, arg),
         op = "decline" \/ TSM!CanTransition(task.st, Target(op))
  PROVE  StepBy(p)
<1> DEFINE x == [Doing("write", op, n, arg) EXCEPT !.st = task.st, !.ver = task.ver]
<1>1. x.op = op /\ x.st = task.st /\ x.ver = task.ver
  BY DEF Doing
<1>2. Kept(p) /\ proc'[p] = x
  BY SetFacts DEF Snapshot
<1> QED BY <1>1, <1>2 DEF StepBy, Reads

LEMMA WriteStep ==
  ASSUME TypeOK, NEW p \in Processes, NEW ops, ops \subseteq Op \ {"none"}, Writing(p, ops),
         \E x : Set(p, x) /\ x.pc # "write",
         results \subseteq results', notes \subseteq notes',
         task' = task
         \/ (/\ WriteTask(p)
             /\ proc[p].op = "decline" => proc[p].st \notin TSM!TERMINAL_STATES \cup {ATTENTION}
             /\ proc[p].op = "submit" => results' # {}
             /\ Target(proc[p].op) \in {ATTENTION, "awaiting_proposer_close"} => Notify(p))
  PROVE  StepBy(p)
<1>1. Kept(p) /\ proc'[p].pc # "write"
  BY SetFacts
<1> QED BY <1>1 DEF StepBy, Writes, Writing

LEMMA SnapshotFacts ==
  ASSUME TypeOK, NEW p \in Processes, NEW op, NEW n, NEW arg, Snapshot(p, op, n, arg)
  PROVE  /\ proc'[p].pc = "write" /\ proc'[p].op = op /\ proc'[p].n = n /\ proc'[p].arg = arg
         /\ proc'[p].st = task.st /\ proc'[p].ver = task.ver
<1> DEFINE x == [Doing("write", op, n, arg) EXCEPT !.st = task.st, !.ver = task.ver]
<1>1. /\ x.pc = "write" /\ x.op = op /\ x.n = n /\ x.arg = arg
      /\ x.st = task.st /\ x.ver = task.ver
  BY DEF Doing
<1>2. proc'[p] = x
  BY SetFacts DEF Snapshot
<1> HIDE DEF x
<1> QED BY <1>1, <1>2

LEMMA StepApi ==
  ASSUME TypeOK, Command \/ Handle(Api)
  PROVE  StepBy(Api)
<1> USE Names
<1>0. proc[Api] \in ProcState
  BY DEF TypeOK
<1>1. ASSUME NEW key \in Keys \cup {NoKey}, AssignUnknownAgent(key) PROVE StepBy(Api)
  BY <1>1, OtherStep DEF AssignUnknownAgent, MayAssign
<1>2. ASSUME NEW key \in Keys \cup {NoKey}, NEW op \in Assigning, ReadAssign(op, key) PROVE StepBy(Api)
  <2>1. PICK n \in Attempts : Snapshot(Api, op, n, key)
    BY <1>2 DEF ReadAssign
  <2>2. op \in Op \ {"none"} /\ Target(op) = "assigned"
    BY Targets DEF Op, Assigning
  <2> QED BY <1>2, <2>1, <2>2, ReadStep DEF ReadAssign, MayAssign
<1>3. ASSUME NEW op \in DOMAIN Moves, ReadMove(op) PROVE StepBy(Api)
  <2>1. op \in Op \ {"none"} /\ Target(op) = Moves[op]
    BY DEF Op, Target, Moves, Syncs, Assigning
  <2> QED BY <1>3, <2>1, ReadStep DEF ReadMove
<1>4. ASSUME NEW n \in Attempts, CancelRun(n) PROVE StepBy(Api)
  <2>1. Doing("sync", "stopped", n, NoKey).pc # "write"
    BY DoingPc
  <2>2. \E x : Set(Api, x) /\ x.pc # "write"
    BY <1>4, <2>1 DEF CancelRun
  <2> QED BY <1>4, <2>2, OtherStep DEF CancelRun
<1>5. ASSUME NEW n \in Attempts, ApproveTool(n) \/ RejectTool(n) PROVE StepBy(Api)
  BY <1>5, OtherStep DEF ApproveTool, RejectTool
<1>6. CASE WriteAssign(Api)
  <2>1. Target(proc[Api].op) = "assigned" /\ Assigning \subseteq Op \ {"none"}
        /\ proc[Api].op \notin {"decline", "submit"} /\ Writing(Api, Assigning)
    BY <1>6, Targets DEF WriteAssign, Writing, Assigning, Op
  <2>2. \E x : Set(Api, x) /\ x.pc # "write"
    BY <1>6, LeaveSteps DEF WriteAssign
  <2> QED BY <1>6, <2>1, <2>2, WriteStep DEF WriteAssign, ATTENTION
<1>7. CASE CreateRun(Api)
  BY <1>7, OtherStep, LeaveSteps DEF CreateRun
<1>8. CASE Remember(Api)
  BY <1>8, OtherStep, LeaveSteps DEF Remember
<1>9. CASE WriteMove(Api)
  <2>1. Writing(Api, DOMAIN Moves) /\ DOMAIN Moves \subseteq Op \ {"none"}
    BY <1>9 DEF WriteMove, Op
  <2>2. Target(proc[Api].op) \notin {ATTENTION, "awaiting_proposer_close"}
        /\ proc[Api].op \notin {"decline", "submit"}
    BY <2>1 DEF Writing, Target, Moves, ATTENTION
  <2>3. \E x : Set(Api, x) /\ x.pc # "write"
    BY <1>9, LeaveSteps DEF WriteMove
  <2> QED BY <1>9, <2>1, <2>2, <2>3, WriteStep DEF WriteMove
<1> QED BY <1>1, <1>2, <1>3, <1>4, <1>5, <1>6, <1>7, <1>8, <1>9 DEF Command, Handle

LEMMA StepProject ==
  ASSUME TypeOK, NEW p \in Processes, Project(p)
  PROVE  StepBy(p)
<1> USE Names
<1>0. proc[p] \in ProcState /\ ProcOK(p)
  BY DEF TypeOK
<1>1. CASE SkipSync(p)
  BY <1>1, OtherStep, SyncLeaves DEF SkipSync
<1>2. CASE ReadSync(p)
  <2>1. proc[p].op \in DOMAIN Syncs
    BY <1>0, <1>2 DEF ReadSync, ProcOK
  <2>2. proc[p].op \in Op \ {"none"}
    BY <2>1 DEF Op
  <2> QED BY <1>2, <2>2, ReadStep DEF ReadSync, SyncApplies
<1>3. CASE WriteSync(p)
  <2>1. Writing(p, DOMAIN Syncs) /\ DOMAIN Syncs \subseteq Op \ {"none"}
    BY <1>3 DEF WriteSync, Op
  <2>2. /\ proc[p].op \notin {"decline", "submit"}
        /\ Target(proc[p].op) # "awaiting_proposer_close"
    BY <2>1, Targets DEF Writing
  <2>3. \E x : Set(p, x) /\ x.pc # "write"
    BY <1>3, SyncLeaves DEF WriteSync
  <2>4. notes \subseteq notes' /\ (Target(proc[p].op) = ATTENTION => Notify(p))
    BY <1>3 DEF WriteSync, Notify
  <2>5. results' = results /\ WriteTask(p)
    BY <1>3 DEF WriteSync
  <2> QED BY <2>1, <2>2, <2>3, <2>4, <2>5, WriteStep
<1> QED BY <1>1, <1>2, <1>3 DEF Project

LEMMA StepExecute ==
  ASSUME TypeOK, NEW w \in Workers, Execute(w)
  PROVE  StepBy(w)
<1> USE Names
<1>0. proc[w] \in ProcState /\ ProcOK(w) /\ w \in Processes
  BY DEF TypeOK
<1>1. ASSUME NEW n \in Attempts, NEW d \in Delivery, StartRun(w, n, d) PROVE StepBy(w)
  <2>1. Doing("sync", "running", n, d).pc # "write"
    BY DoingPc
  <2>2. \E x : Set(w, x) /\ x.pc # "write"
    BY <1>1, <2>1 DEF StartRun
  <2> QED BY <1>0, <1>1, <2>2, OtherStep DEF StartRun, Deliverable
<1>2. ASSUME NEW n \in Attempts, NEW d \in Delivery, DropDelivery(w, n, d) PROVE StepBy(w)
  BY <1>0, <1>2, OtherStep DEF DropDelivery, Deliverable
<1>3. Tools \subseteq Op \ {"none"} /\ Target("budget") = ATTENTION
  BY Targets DEF Op, Tools, ATTENTION
<1>4. ASSUME NEW op \in {"submit", "decide"}, ReadTool(w, op) PROVE StepBy(w)
  BY <1>0, <1>3, <1>4, ReadStep DEF ReadTool, Turn, Tools
<1>5. CASE AcceptAssignment(w)
  BY <1>0, <1>5, OtherStep DEF AcceptAssignment, Turn
<1>6. CASE ReadDecline(w)
  BY <1>0, <1>3, <1>6, ReadStep DEF ReadDecline, Turn, Tools
<1>7. CASE ReadBudget(w)
  BY <1>0, <1>3, <1>7, ReadStep DEF ReadBudget, Turn, Tools
<1>8. ASSUME NEW op \in Tools, Writing(w, {op}), WriteTask(w), Notify(w),
             \E x : Set(w, x) /\ x.pc # "write",
             op = "decline" => proc[w].st \notin TSM!TERMINAL_STATES \cup {ATTENTION},
             results \subseteq results', op = "submit" => results' # {}
      PROVE  StepBy(w)
  <2>1. proc[w].op = op /\ {op} \subseteq Op \ {"none"} /\ notes \subseteq notes'
    BY <1>3, <1>8 DEF Writing, Notify
  <2> QED BY <1>0, <1>8, <2>1, WriteStep
<1>9. CASE WriteSubmit(w)
  <2>1. \E x : Set(w, x) /\ x.pc # "write"
    BY <1>0, <1>9, LeaveSteps DEF WriteSubmit
  <2>2. results \subseteq results' /\ results' # {}
    BY <1>9 DEF WriteSubmit
  <2>3. Writing(w, {"submit"}) /\ WriteTask(w) /\ Notify(w) /\ "submit" \in Tools
    BY <1>9 DEF WriteSubmit, Tools
  <2> QED BY <1>8, <2>1, <2>2, <2>3
<1>10. CASE WriteDecide(w)
  <2>1. \E x : Set(w, x) /\ x.pc # "write"
    BY <1>0, <1>10, LeaveSteps DEF WriteDecide
  <2>2. Writing(w, {"decide"}) /\ WriteTask(w) /\ Notify(w) /\ results' = results /\ "decide" \in Tools
    BY <1>10 DEF WriteDecide, Tools
  <2> QED BY <1>8, <2>1, <2>2
<1>11. CASE WriteDecline(w)
  <2>1. \E x : Set(w, x) /\ x.pc # "write"
    BY <1>0, <1>11, LeaveSteps DEF WriteDecline
  <2>2. Writing(w, {"decline"}) /\ results' = results /\ "decline" \in Tools
    BY <1>11 DEF WriteDecline, Tools
  <2>3. CASE proc[w].st \in TSM!TERMINAL_STATES \cup {ATTENTION}
    <3>1. task' = task /\ notes' = notes
      BY <1>11, <2>3 DEF WriteDecline
    <3> QED BY <1>0, <1>3, <2>1, <2>2, <3>1, WriteStep
  <2>4. CASE proc[w].st \notin TSM!TERMINAL_STATES \cup {ATTENTION}
    <3>1. WriteTask(w) /\ Notify(w)
      BY <1>11, <2>4 DEF WriteDecline
    <3> QED BY <1>8, <2>1, <2>2, <2>4, <3>1
  <2> QED BY <2>3, <2>4
<1>12. CASE WriteBudget(w)
  <2>1. \E x : Set(w, x) /\ x.pc # "write"
    BY <1>0, <1>12, LeaveSteps DEF WriteBudget
  <2>2. Writing(w, {"budget"}) /\ WriteTask(w) /\ Notify(w) /\ results' = results /\ "budget" \in Tools
    BY <1>12 DEF WriteBudget, Tools
  <2> QED BY <1>8, <2>1, <2>2
<1>13. ASSUME NEW ended, NEW op, EndRun(w, ended, op) PROVE StepBy(w)
  <2>1. Doing("sync", op, proc[w].n, proc[w].arg).pc # "write"
    BY DoingPc
  <2>2. \E x : Set(w, x) /\ x.pc # "write"
    BY <1>13, <2>1 DEF EndRun
  <2> QED BY <1>0, <1>13, <2>2, OtherStep DEF EndRun
<1>14. CASE FailRun(w) \/ StopDeclined(w) \/ Suspend(w)
  BY <1>13, <1>14 DEF FailRun, StopDeclined, Suspend
<1>15. CASE CompleteRun(w)
  BY <1>0, <1>15, OtherStep, LeaveSteps DEF CompleteRun
<1>16. CASE SeeCancelled(w)
  BY <1>0, <1>16, OtherStep, LeaveSteps DEF SeeCancelled, Turn
<1>17. CASE Refused(w)
  BY <1>0, <1>17, OtherStep, LeaveSteps DEF Refused
<1> QED BY <1>1, <1>2, <1>4, <1>5, <1>6, <1>7, <1>9, <1>10, <1>11, <1>12, <1>14, <1>15, <1>16, <1>17
     DEF Execute, Receive, UseTool, WriteTool, EndTurn

LEMMA Steps ==
  ASSUME TypeOK, [Next]_vars
  PROVE  \/ \E p \in Processes : StepBy(p)
         \/ /\ UNCHANGED <<task, notes, results>>
            /\ \A q \in Processes : proc'[q] \in {proc[q], Idle}
<1>1. CASE Command \/ Handle(Api)
  BY <1>1, StepApi, Names
<1>2. ASSUME NEW p \in Processes, Project(p) PROVE StepBy(p)
  BY <1>2, StepProject
<1>3. ASSUME NEW w \in Workers, Execute(w) PROVE StepBy(w) /\ w \in Processes
  BY <1>3, StepExecute, Names
<1>4. ASSUME NEW p \in Processes, Crash(p)
      PROVE  /\ UNCHANGED <<task, notes, results>>
             /\ \A q \in Processes : proc'[q] \in {proc[q], Idle}
  <2>1. CASE OneProcess
    BY <1>4, <2>1 DEF Crash
  <2>2. CASE ~OneProcess
    BY <1>4, <2>2, SetFacts DEF Crash, Kept
  <2> QED BY <1>4, <2>1, <2>2 DEF Crash
<1>5. CASE UNCHANGED vars
  BY <1>5 DEF vars
<1> QED BY <1>1, <1>2, <1>3, <1>4, <1>5 DEF Next

-----------------------------------------------------------------------------
(* A task that waits for its proposer is notified *)

LEMMA NotifiedStep == TypeOK /\ WaitingIsNotified /\ [Next]_vars => WaitingIsNotified'
<1> SUFFICES ASSUME TypeOK, WaitingIsNotified, [Next]_vars PROVE WaitingIsNotified'
  OBVIOUS
<1>1. CASE UNCHANGED <<task, notes, results>>
  BY <1>1 DEF WaitingIsNotified
<1>2. ASSUME NEW p \in Processes, StepBy(p) PROVE WaitingIsNotified'
  <2>1. CASE task' = task
    BY <1>2, <2>1 DEF StepBy, WaitingIsNotified
  <2>2. CASE Writes(p)
    <3>1. task'.st = Target(proc[p].op) /\ task'.ver = NewVersion(p)
      BY <2>2 DEF Writes, WriteTask
    <3>2. task'.st \in {ATTENTION, "awaiting_proposer_close"} => <<task'.st, task'.ver>> \in notes'
      BY <2>2, <3>1 DEF Writes, Notify
    <3> QED BY <3>2 DEF WaitingIsNotified
  <2> QED BY <1>2, <2>1, <2>2 DEF StepBy
<1> QED BY <1>1, <1>2, Steps

\* Whenever the task waits for its proposer, a notification of this version
\* of it exists, whichever process wrote the state and from whatever it read.
THEOREM Notified == Spec => []WaitingIsNotified
<1>1. Init => WaitingIsNotified
  BY DEF Init, WaitingIsNotified, ATTENTION
<1> QED BY <1>1, NotifiedStep, TypeCorrect, PTL DEF Spec

-----------------------------------------------------------------------------
(* A task is closed only with a result *)

\* Who may lead to closed, and who is about to close, has seen a result.
ClosingInv ==
  /\ task.st \in {"awaiting_proposer_close", "closed"} => results # {}
  /\ \A p \in Processes : proc[p].pc = "write" /\ proc[p].op = "close" => results # {}

LEMMA ClosingStep == TypeOK /\ ClosingInv /\ [Next]_vars => ClosingInv'
<1> SUFFICES ASSUME TypeOK, ClosingInv, [Next]_vars PROVE ClosingInv'
  OBVIOUS
<1>1. CASE UNCHANGED <<task, notes, results>> /\ \A q \in Processes : proc'[q] \in {proc[q], Idle}
  BY <1>1, DoingPc DEF ClosingInv
<1>2. ASSUME NEW p \in Processes, StepBy(p) PROVE ClosingInv'
  <2>1. task'.st \in {"awaiting_proposer_close", "closed"} => results' # {}
    <3>1. CASE task' = task
      BY <1>2, <3>1 DEF StepBy, ClosingInv
    <3>2. CASE Writes(p)
      <4>1. task'.st = Target(proc[p].op) /\ proc[p].op \in Op
        BY <3>2 DEF Writes, WriteTask
      <4>2. CASE proc[p].op = "submit"
        BY <3>2, <4>2 DEF Writes
      <4>3. CASE proc[p].op = "close"
        BY <1>2, <3>2, <4>3 DEF StepBy, Writes, ClosingInv
      <4> QED BY <4>1, <4>2, <4>3, Targets
    <3> QED BY <1>2, <3>1, <3>2 DEF StepBy
  <2>2. ASSUME proc'[p].pc = "write", proc'[p].op = "close" PROVE results' # {}
    <3>1. CASE proc'[p] = proc[p]
      BY <1>2, <2>2, <3>1 DEF StepBy, ClosingInv
    <3>2. CASE Reads(p)
      <4>1. TSM!CanTransition(task.st, "closed") /\ results' = results
        BY <2>2, <3>2, Targets DEF Reads
      <4>2. task.st \in TSM!State
        BY DEF TypeOK
      <4> QED BY <4>1, <4>2, Transitions DEF ClosingInv
    <3> QED BY <1>2, <2>2, <3>1, <3>2 DEF StepBy
  <2>3. ASSUME NEW q \in Processes \ {p}, proc'[q].pc = "write", proc'[q].op = "close" PROVE results' # {}
    BY <1>2, <2>3 DEF StepBy, Kept, ClosingInv
  <2> QED BY <2>1, <2>2, <2>3 DEF ClosingInv
<1> QED BY <1>1, <1>2, Steps

\* However a task was closed, some executor had submitted a result, although
\* the command that closes it decides on a state that may be stale.
THEOREM ClosedAfterResult == Spec => []ClosedHasResult
<1>1. Init => ClosingInv
  BY DoingPc DEF Init, ClosingInv
<1>2. ClosingInv => ClosedHasResult
  BY DEF ClosingInv, ClosedHasResult
<1> QED BY <1>1, <1>2, ClosingStep, TypeCorrect, PTL DEF Spec

-----------------------------------------------------------------------------
(* At most one active assignment *)

\* Only the transaction that supersedes the others makes an assignment active.
LEMMA AssignmentSteps ==
  ASSUME TypeOK, [Next]_vars
  PROVE  \/ \A n \in Attempts : asg'[n] \in ACTIVE => asg[n] \in ACTIVE
         \/ \E n \in Attempts : asg' = [Superseded EXCEPT ![n] = "assigned"]
<1> USE Names
<1> DEFINE Fewer == \A n \in Attempts : asg'[n] \in ACTIVE => asg[n] \in ACTIVE
<1>1. CASE asg' = asg
  BY <1>1
<1>2. ASSUME NEW key \in Keys \cup {NoKey}, AssignUnknownAgent(key) PROVE Fewer
  BY <1>2 DEF AssignUnknownAgent, Superseded, ACTIVE
<1>3. CASE WriteAssign(Api)
  <2>1. proc[Api].n \in Attempts
    BY <1>3 DEF WriteAssign, Writing, Assigning, TypeOK, ProcOK
  <2> QED BY <1>3, <2>1 DEF WriteAssign
<1>4. ASSUME NEW p \in Processes, WriteSync(p) PROVE Fewer
  BY <1>4 DEF WriteSync, SyncedAssignment, TypeOK, ACTIVE
<1>5. ASSUME NEW w \in Workers, WriteSubmit(w) \/ WriteDecline(w) \/ AcceptAssignment(w) PROVE Fewer
  BY <1>5 DEF WriteSubmit, WriteDecline, AcceptAssignment, TypeOK, ACTIVE
<1>6. CASE Command
  BY <1>1, <1>2, <1>6 DEF Command, ReadAssign, ReadMove, CancelRun, ApproveTool, RejectTool
<1>7. CASE Handle(Api)
  BY <1>1, <1>3, <1>7 DEF Handle, CreateRun, Remember, WriteMove
<1>8. ASSUME NEW p \in Processes, Project(p) \/ Crash(p) PROVE Fewer
  BY <1>1, <1>4, <1>8 DEF Project, SkipSync, ReadSync, Crash
<1>9. ASSUME NEW w \in Workers, Execute(w) PROVE Fewer
  <2>1. CASE Receive(w)
    BY <1>1, <2>1 DEF Receive, StartRun, DropDelivery
  <2>2. CASE UseTool(w)
    BY <1>1, <1>5, <2>2 DEF UseTool, ReadTool, ReadDecline
  <2>3. CASE WriteTool(w)
    BY <1>1, <1>5, <2>3 DEF WriteTool, WriteDecide, WriteBudget
  <2>4. CASE EndTurn(w)
    BY <1>1, <2>4 DEF EndTurn, SeeCancelled, ReadBudget, FailRun, StopDeclined, Suspend, CompleteRun,
                      Refused, EndRun
  <2> QED BY <1>9, <2>1, <2>2, <2>3, <2>4 DEF Execute
<1>10. CASE UNCHANGED vars
  BY <1>1, <1>10 DEF vars
<1> QED BY <1>6, <1>7, <1>8, <1>9, <1>10 DEF Next

\* At most one executor is entitled to the task, however commands, tools,
\* projections and crashes interleave.
THEOREM OneExecutor == Spec => []OneActiveAssignment
<1>1. Init => OneActiveAssignment
  BY DEF Init, OneActiveAssignment, ACTIVE
<1>2. TypeOK /\ OneActiveAssignment /\ [Next]_vars => OneActiveAssignment'
  <2> SUFFICES ASSUME TypeOK, OneActiveAssignment, [Next]_vars PROVE OneActiveAssignment'
    OBVIOUS
  <2>1. CASE \A n \in Attempts : asg'[n] \in ACTIVE => asg[n] \in ACTIVE
    BY <2>1 DEF OneActiveAssignment
  <2>2. ASSUME NEW n \in Attempts, asg' = [Superseded EXCEPT ![n] = "assigned"]
        PROVE  OneActiveAssignment'
    <3>1. \A m \in Attempts \ {n} : asg'[m] \notin ACTIVE
      BY <2>2 DEF Superseded, ACTIVE
    <3> QED BY <3>1 DEF OneActiveAssignment
  <2> QED BY <2>1, <2>2, AssignmentSteps
<1> QED BY <1>1, <1>2, TypeCorrect, PTL DEF Spec

-----------------------------------------------------------------------------
(* One process: the lifecycle of the task is kept *)

\* Nobody writes on a stale snapshot: what is about to be written was read
\* from the present row, and checked.
Fresh ==
  /\ task.st # "draft"
  /\ OneProcess =>
       /\ \A p, q \in Processes : p # q => proc[p].pc \in Awaiting \/ proc[q].pc \in Awaiting
       /\ \A p \in Processes : proc[p].pc = "write" =>
            /\ proc[p].st = task.st /\ proc[p].ver = task.ver
            /\ proc[p].op = "decline" \/ TSM!CanTransition(task.st, Target(proc[p].op))

LEMMA FreshStep == TypeOK /\ Fresh /\ [Next]_vars => Fresh'
<1> SUFFICES ASSUME TypeOK, Fresh, [Next]_vars PROVE Fresh'
  OBVIOUS
<1> USE DEF Awaiting
<1>1. CASE UNCHANGED <<task, notes, results>> /\ \A q \in Processes : proc'[q] \in {proc[q], Idle}
  BY <1>1, DoingPc DEF Fresh
<1>2. ASSUME NEW p \in Processes, StepBy(p) PROVE Fresh'
  <2>1. task'.st # "draft"
    BY <1>2, WriteOK DEF StepBy, Writes, Fresh
  <2>2. ASSUME OneProcess, NEW q \in Processes, NEW r \in Processes, q # r
        PROVE  proc'[q].pc \in Awaiting \/ proc'[r].pc \in Awaiting
    BY <1>2, <2>2 DEF StepBy, Kept, Undisturbed
  <2>3. ASSUME OneProcess, NEW q \in Processes, proc'[q].pc = "write"
        PROVE  /\ proc'[q].st = task'.st /\ proc'[q].ver = task'.ver
               /\ proc'[q].op = "decline" \/ TSM!CanTransition(task'.st, Target(proc'[q].op))
    <3>1. q = p
      BY <1>2, <2>3 DEF StepBy, Kept, Undisturbed
    <3>2. CASE Reads(p)
      BY <3>1, <3>2 DEF Reads
    <3>3. CASE proc'[p] = proc[p]
      <4>1. task' = task
        BY <1>2, <2>3, <3>1 DEF StepBy, Writes
      <4> QED BY <2>3, <3>1, <3>3, <4>1 DEF Fresh
    <3> QED BY <1>2, <2>3, <3>1, <3>2, <3>3 DEF StepBy
  <2> QED BY <2>1, <2>2, <2>3 DEF Fresh
<1> QED BY <1>1, <1>2, Steps

LEMMA MachineStep ==
  ASSUME TypeOK, Fresh, OneProcess, [Next]_vars
  PROVE  [TSM!Next]_task
<1>1. ASSUME NEW p \in Processes, Writes(p) PROVE TSM!Next
  <2>1. proc[p].st = task.st /\ proc[p].ver = task.ver /\ task.st \in TSM!State /\ task.ver \in Nat
    BY <1>1 DEF Writes, Fresh, TypeOK
  <2>2. TSM!CanTransition(task.st, Target(proc[p].op))
    <3>1. CASE proc[p].op = "decline"
      <4>1. Target("decline") = ATTENTION
        BY Targets DEF Op, Tools
      <4> QED BY <1>1, <2>1, <3>1, <4>1, Transitions DEF Writes, Fresh
    <3>2. CASE proc[p].op # "decline"
      BY <1>1, <3>2 DEF Writes, Fresh
    <3> QED BY <3>1, <3>2
  <2>3. task' = [st |-> Target(proc[p].op), ver |-> NewVersion(p)]
    BY <1>1 DEF Writes, WriteTask
  <2>4. /\ NewVersion(p) \in {task.ver, task.ver + 1}
        /\ Target(proc[p].op) # task.st => NewVersion(p) = task.ver + 1
    BY <2>1 DEF NewVersion
  <2>5. Target(proc[p].op) \in TSM!State
    BY <1>1, Targets DEF Writes
  <2> QED BY <2>2, <2>3, <2>4, <2>5 DEF TSM!Next, TSM!Transition
<1> QED BY <1>1, Steps DEF StepBy

\* In local mode every change of the task is a transition of
\* task_state_machine.py and a new version, however many executors, commands
\* and crashes there are.
THEOREM Refinement == Spec /\ OneProcess => TaskMachine
<1> SUFFICES ASSUME OneProcess PROVE Spec => TaskMachine
  OBVIOUS
<1>1. Init => Fresh /\ TSM!Init
  <2>1. Init => Fresh
    BY Names DEF Init, Fresh, Awaiting, Idle, Doing
  <2>2. Init => TSM!Init
    BY DEF Init, TSM!Init
  <2> QED BY <2>1, <2>2
<1>2. TypeOK /\ Fresh /\ [Next]_vars => [TSM!Next]_task
  BY MachineStep
<1> QED BY <1>1, <1>2, FreshStep, TypeCorrect, PTL DEF Spec, TaskMachine, TSM!Spec

-----------------------------------------------------------------------------
(* One process: an attempt that has ended keeps how it ended *)

\* An assignment that is about to be completed is active, and one that is about
\* to be made has no row yet: nobody else acts between the read and the write.
EndsOK(p) ==
  proc[p].pc = "write" =>
    /\ proc[p].op = "submit" => asg[proc[p].n] \in ACTIVE
    /\ proc[p].op \in Assigning => asg[proc[p].n] = "none"

EndsInv == \A p \in Processes : EndsOK(p)

\* Only the process that acts can be between its statements.
LEMMA EndsActor ==
  ASSUME OneProcess, NEW p \in Processes, Undisturbed(p), Kept(p), EndsOK(p)'
  PROVE  EndsInv'
<1> SUFFICES ASSUME NEW q \in Processes, q # p PROVE EndsOK(q)'
  BY DEF EndsInv
<1> QED BY DEF Undisturbed, Kept, EndsOK, Awaiting

\* The process does not read, or reads for another purpose.
LEMMA EndsQuiet ==
  ASSUME OneProcess, NEW p \in Processes, Undisturbed(p), Kept(p),
         proc'[p].pc # "write" \/ proc'[p].op \notin {"submit"} \cup Assigning
  PROVE  EndsInv'
BY EndsActor DEF EndsOK

LEMMA EndsStay ==
  ASSUME TypeOK, OneProcess, NEW p \in Processes, Undisturbed(p), proc' = proc, proc[p].pc # "write"
  PROVE  EndsInv'
BY EndsQuiet DEF Kept

LEMMA EndsLeave ==
  ASSUME TypeOK, OneProcess, NEW p \in Processes, Undisturbed(p), \E x : Set(p, x) /\ x.pc # "write"
  PROVE  EndsInv'
BY EndsQuiet, SetFacts

LEMMA EndsRead ==
  ASSUME TypeOK, OneProcess, NEW p \in Processes, Undisturbed(p), asg' = asg,
         NEW op, NEW n, NEW arg, Snapshot(p, op, n, arg),
         op = "submit" => asg[n] \in ACTIVE,
         op \in Assigning => asg[n] = "none"
  PROVE  EndsInv'
<1>1. Kept(p)
  BY SetFacts DEF Snapshot
<1> QED BY <1>1, EndsActor, SnapshotFacts DEF EndsOK

LEMMA EndsApi ==
  ASSUME TypeOK, OneProcess, Command \/ Handle(Api)
  PROVE  EndsInv'
<1> USE Names
<1>1. ASSUME NEW key \in Keys \cup {NoKey}, AssignUnknownAgent(key) PROVE EndsInv'
  BY <1>1, EndsStay DEF AssignUnknownAgent, MayAssign
<1>2. ASSUME NEW key \in Keys \cup {NoKey}, NEW op \in Assigning, ReadAssign(op, key) PROVE EndsInv'
  <2>1. PICK n \in Attempts : (\A m \in Attempts : Exists(m) <=> m < n) /\ Snapshot(Api, op, n, key)
    BY <1>2 DEF ReadAssign
  <2>2. asg[n] = "none" /\ op # "submit"
    BY <2>1 DEF Exists, Assigning, Attempts
  <2>3. Undisturbed(Api) /\ asg' = asg
    BY <1>2 DEF ReadAssign, MayAssign
  <2> QED BY <2>1, <2>2, <2>3, EndsRead
<1>3. ASSUME NEW op \in DOMAIN Moves, ReadMove(op) PROVE EndsInv'
  BY <1>3, EndsRead DEF ReadMove, Assigning
<1>4. ASSUME NEW n \in Attempts, CancelRun(n) PROVE EndsInv'
  BY <1>4, EndsLeave, DoingPc DEF CancelRun
<1>5. ASSUME NEW n \in Attempts, ApproveTool(n) \/ RejectTool(n) PROVE EndsInv'
  BY <1>5, EndsStay DEF ApproveTool, RejectTool
<1>6. CASE WriteAssign(Api)
  BY <1>6, EndsLeave, LeaveSteps DEF WriteAssign, Writing
<1>7. CASE CreateRun(Api)
  BY <1>7, EndsLeave, LeaveSteps DEF CreateRun
<1>8. CASE Remember(Api)
  BY <1>8, EndsLeave, LeaveSteps DEF Remember
<1>9. CASE WriteMove(Api)
  BY <1>9, EndsLeave, LeaveSteps DEF WriteMove, Writing
<1> QED BY <1>1, <1>2, <1>3, <1>4, <1>5, <1>6, <1>7, <1>8, <1>9 DEF Command, Handle

LEMMA EndsProject ==
  ASSUME TypeOK, OneProcess, NEW p \in Processes, Project(p)
  PROVE  EndsInv'
<1>1. CASE SkipSync(p) \/ WriteSync(p)
  BY <1>1, EndsLeave, SyncLeaves DEF SkipSync, WriteSync, Writing
<1>2. CASE ReadSync(p)
  <2>1. proc[p].op \in DOMAIN Syncs
    BY <1>2, Names DEF ReadSync, TypeOK, ProcOK
  <2>2. proc[p].op \notin {"submit"} \cup Assigning
    BY <2>1, Names DEF Assigning
  <2> QED BY <1>2, <2>2, EndsRead DEF ReadSync
<1> QED BY <1>1, <1>2 DEF Project

LEMMA EndsExecute ==
  ASSUME TypeOK, OneProcess, NEW w \in Workers, Execute(w)
  PROVE  EndsInv'
<1> USE Names
<1>1. ASSUME NEW n \in Attempts, NEW d \in Delivery, StartRun(w, n, d) PROVE EndsInv'
  BY <1>1, EndsLeave, DoingPc DEF StartRun, Deliverable
<1>2. ASSUME NEW n \in Attempts, NEW d \in Delivery, DropDelivery(w, n, d) PROVE EndsInv'
  BY <1>2, EndsStay DEF DropDelivery, Deliverable
<1>3. ASSUME NEW op \in {"submit", "decide"}, ReadTool(w, op) PROVE EndsInv'
  BY <1>3, EndsRead DEF ReadTool, Turn, Assigning
<1>4. CASE AcceptAssignment(w)
  BY <1>4, EndsStay DEF AcceptAssignment, Turn
<1>5. CASE ReadDecline(w)
  BY <1>5, EndsRead DEF ReadDecline, Turn, Assigning
<1>6. CASE WriteTool(w)
  BY <1>6, EndsLeave, LeaveSteps DEF WriteTool, WriteSubmit, WriteDecide, WriteDecline, WriteBudget, Writing
<1>7. CASE ReadBudget(w)
  BY <1>7, EndsRead DEF ReadBudget, Turn, Assigning
<1>8. CASE SeeCancelled(w) \/ CompleteRun(w)
  BY <1>8, EndsLeave, LeaveSteps DEF SeeCancelled, CompleteRun, Turn
<1>9. ASSUME NEW ended, NEW op, EndRun(w, ended, op) PROVE EndsInv'
  BY <1>9, EndsLeave, DoingPc DEF EndRun
<1>10. CASE Refused(w)
  BY <1>10, EndsLeave, LeaveSteps DEF Refused
<1> QED BY <1>1, <1>2, <1>3, <1>4, <1>5, <1>6, <1>7, <1>8, <1>9, <1>10
     DEF Execute, Receive, UseTool, EndTurn, FailRun, StopDeclined, Suspend

LEMMA EndsStep == TypeOK /\ EndsInv /\ OneProcess /\ [Next]_vars => EndsInv'
<1> SUFFICES ASSUME TypeOK, EndsInv, OneProcess, [Next]_vars PROVE EndsInv'
  OBVIOUS
<1>1. ASSUME NEW p \in Processes, Crash(p) PROVE EndsInv'
  BY <1>1, DoingPc DEF Crash, EndsInv, EndsOK
<1>2. CASE UNCHANGED vars
  BY <1>2 DEF vars, EndsInv, EndsOK
<1> QED BY <1>1, <1>2, EndsApi, EndsProject, EndsExecute DEF Next

\* Local mode: an assignment that is completed, superseded, expired, declined or
\* cancelled keeps that state; submit_task_result and _create_task_assignment
\* write without a condition, but on what they have just read.
THEOREM EndedAttemptsStay == Spec /\ OneProcess => AttemptsFinal
<1> SUFFICES ASSUME OneProcess PROVE Spec => AttemptsFinal
  OBVIOUS
<1>1. Init => EndsInv
  BY DoingPc DEF Init, EndsInv, EndsOK
<1>2. TypeOK /\ EndsInv /\ [Next]_vars => [\A n \in Attempts : asg[n] \in ENDED => asg'[n] = asg[n]]_vars
  <2> SUFFICES ASSUME TypeOK, EndsInv, [Next]_vars, NEW n \in Attempts, asg[n] \in ENDED
               PROVE  asg'[n] = asg[n]
    OBVIOUS
  <2> USE Names DEF ACTIVE, ENDED
  <2>1. CASE asg' = asg
    BY <2>1
  <2>2. ASSUME NEW key \in Keys \cup {NoKey}, AssignUnknownAgent(key) PROVE asg'[n] = asg[n]
    BY <2>2 DEF AssignUnknownAgent, Superseded
  <2>3. CASE WriteAssign(Api)
    <3>1. asg[proc[Api].n] = "none"
      BY <2>3 DEF WriteAssign, Writing, EndsInv, EndsOK
    <3> QED BY <2>3, <3>1 DEF WriteAssign, Superseded
  <2>4. ASSUME NEW p \in Processes, WriteSync(p) PROVE asg'[n] = asg[n]
    <3>1. asg' = [asg EXCEPT ![proc[p].n] = SyncedAssignment(proc[p].op, @)]
      BY <2>4 DEF WriteSync
    <3>2. SyncedAssignment(proc[p].op, asg[n]) = asg[n]
      BY DEF SyncedAssignment
    <3> QED BY <3>1, <3>2 DEF TypeOK
  <2>5. ASSUME NEW w \in Workers, WriteSubmit(w) PROVE asg'[n] = asg[n]
    <3>1. asg[proc[w].n] \in ACTIVE
      BY <2>5 DEF WriteSubmit, Writing, EndsInv, EndsOK
    <3> QED BY <2>5, <3>1 DEF WriteSubmit, TypeOK
  <2>6. ASSUME NEW w \in Workers, WriteDecline(w) \/ AcceptAssignment(w) PROVE asg'[n] = asg[n]
    BY <2>6 DEF WriteDecline, AcceptAssignment, TypeOK
  <2>7. CASE Command
    BY <2>1, <2>2, <2>7 DEF Command, ReadAssign, ReadMove, CancelRun, ApproveTool, RejectTool
  <2>8. CASE Handle(Api)
    BY <2>1, <2>3, <2>8 DEF Handle, CreateRun, Remember, WriteMove
  <2>9. ASSUME NEW p \in Processes, Project(p) \/ Crash(p) PROVE asg'[n] = asg[n]
    BY <2>1, <2>4, <2>9 DEF Project, SkipSync, ReadSync, Crash
  <2>10. ASSUME NEW w \in Workers, Execute(w) PROVE asg'[n] = asg[n]
    <3>1. CASE Receive(w)
      BY <2>1, <3>1 DEF Receive, StartRun, DropDelivery
    <3>2. CASE UseTool(w)
      BY <2>1, <2>6, <3>2 DEF UseTool, ReadTool, ReadDecline
    <3>3. CASE WriteTool(w)
      BY <2>1, <2>5, <2>6, <3>3 DEF WriteTool, WriteDecide, WriteBudget
    <3>4. CASE EndTurn(w)
      BY <2>1, <3>4 DEF EndTurn, SeeCancelled, ReadBudget, FailRun, StopDeclined, Suspend, CompleteRun,
                        Refused, EndRun
    <3> QED BY <2>10, <3>1, <3>2, <3>3, <3>4 DEF Execute
  <2>11. CASE UNCHANGED vars
    BY <2>1, <2>11 DEF vars
  <2> QED BY <2>7, <2>8, <2>9, <2>10, <2>11 DEF Next
<1> QED BY <1>1, <1>2, EndsStep, TypeCorrect, PTL DEF Spec, AttemptsFinal

-----------------------------------------------------------------------------
(* One key, one assignment *)

\* A key that has led to an assignment is remembered, or the handler that is
\* about to remember it still runs.
KeyInv ==
  \A k \in Keys :
    /\ created[k] = {} \/ \E n \in Attempts : created[k] = {n}
    /\ created[k] # {} => k \in remembered \/ (proc[Api].pc \in {"run", "remember"} /\ proc[Api].arg = k)
    /\ proc[Api].pc = "write" /\ proc[Api].op \in Assigning /\ proc[Api].arg = k => created[k] = {}

\* Steps that create no assignment.
LEMMA KeyKept ==
  ASSUME KeyInv, created' = created, remembered \subseteq remembered',
         \A k \in Keys : proc[Api].pc \in {"run", "remember"} /\ proc[Api].arg = k =>
           k \in remembered' \/ (proc'[Api].pc \in {"run", "remember"} /\ proc'[Api].arg = k),
         \A k \in Keys : proc'[Api].pc = "write" /\ proc'[Api].op \in Assigning /\ proc'[Api].arg = k
           => created[k] = {}
  PROVE  KeyInv'
BY DEF KeyInv

\* What the API does next, as far as keys go.
LEMMA KeyApi ==
  ASSUME TypeOK, KeyInv, Command \/ Handle(Api) \/ Project(Api)
  PROVE  KeyInv'
<1> USE Names
<1>0. proc[Api] \in ProcState /\ ProcOK(Api)
  BY DEF TypeOK
<1>1. ASSUME NEW key \in Keys \cup {NoKey}, AssignUnknownAgent(key) PROVE KeyInv'
  BY <1>1, KeyKept DEF AssignUnknownAgent, MayAssign
<1>2. ASSUME NEW key \in Keys \cup {NoKey}, NEW op \in Assigning, ReadAssign(op, key) PROVE KeyInv'
  <2>1. PICK n \in Attempts : Snapshot(Api, op, n, key)
    BY <1>2 DEF ReadAssign
  <2>2. proc'[Api].arg = key
    BY <2>1, SnapshotFacts
  <2>3. proc[Api].pc = "idle" /\ key \notin remembered /\ created' = created /\ remembered' = remembered
    BY <1>2 DEF ReadAssign, MayAssign
  <2>4. \A k \in Keys : k = key => created[k] = {}
    BY <2>3 DEF KeyInv
  <2> QED BY <2>2, <2>3, <2>4, KeyKept
<1>3. ASSUME NEW op \in DOMAIN Moves, ReadMove(op) PROVE KeyInv'
  <2>1. proc'[Api].op = op /\ op \notin Assigning
    BY <1>3, SnapshotFacts DEF ReadMove, Moves, Assigning
  <2> QED BY <1>3, <2>1, KeyKept DEF ReadMove
<1>4. ASSUME NEW n \in Attempts, CancelRun(n) PROVE KeyInv'
  <2>1. proc'[Api].pc = "sync"
    BY <1>4, SetFacts, DoingPc DEF CancelRun
  <2> QED BY <1>4, <2>1, KeyKept DEF CancelRun
<1>5. ASSUME NEW n \in Attempts, ApproveTool(n) \/ RejectTool(n) PROVE KeyInv'
  BY <1>5, KeyKept DEF ApproveTool, RejectTool
<1>6. CASE WriteAssign(Api)
  <2>1. proc[Api].pc = "write" /\ proc[Api].op \in Assigning /\ proc[Api].n \in Attempts
    BY <1>0, <1>6 DEF WriteAssign, Writing, Assigning, ProcOK
  <2>2. proc'[Api].pc = "run" /\ proc'[Api].arg = proc[Api].arg
    BY <1>6, SetFacts DEF WriteAssign, Goto, Doing
  <2>3. ASSUME NEW k \in Keys
        PROVE  created'[k] = created[k] \cup (IF k = proc[Api].arg THEN {proc[Api].n} ELSE {})
    BY <1>6 DEF WriteAssign
  <2>4. ASSUME NEW k \in Keys, k = proc[Api].arg PROVE created'[k] = {proc[Api].n}
    <3>1. created[k] = {}
      BY <2>1, <2>4 DEF KeyInv
    <3> QED BY <2>3, <2>4, <3>1
  <2>5. ASSUME NEW k \in Keys, k # proc[Api].arg PROVE created'[k] = created[k]
    BY <2>3, <2>5
  <2>6. remembered' = remembered
    BY <1>6 DEF WriteAssign
  <2> QED BY <2>1, <2>2, <2>4, <2>5, <2>6 DEF KeyInv
<1>7. CASE CreateRun(Api)
  <2>1. proc'[Api].pc = "remember" /\ proc'[Api].arg = proc[Api].arg
    BY <1>7, SetFacts DEF CreateRun, Goto, Doing
  <2> QED BY <1>7, <2>1, KeyKept DEF CreateRun
<1>8. CASE Remember(Api)
  <2>1. proc'[Api].pc = "idle"
    BY <1>8, SetFacts, DoingPc DEF Remember
  <2> QED BY <1>8, <2>1, KeyKept DEF Remember
<1>9. CASE WriteMove(Api)
  <2>1. proc[Api].pc = "write" /\ proc'[Api].pc = "idle"
    BY <1>9, SetFacts, DoingPc DEF WriteMove, Writing
  <2> QED BY <1>9, <2>1, KeyKept DEF WriteMove
<1>10. ASSUME AfterSync(Api) PROVE proc'[Api].pc \in {"turn", "idle"}
  BY <1>10, SetFacts, DoingPc DEF AfterSync, Goto, Return
<1>11. CASE SkipSync(Api) \/ WriteSync(Api)
  <2>1. proc'[Api].pc \in {"turn", "idle"} /\ proc[Api].pc \in {"sync", "write"}
    BY <1>10, <1>11 DEF SkipSync, WriteSync, Writing
  <2> QED BY <1>11, <2>1, KeyKept DEF SkipSync, WriteSync
<1>12. CASE ReadSync(Api)
  <2>1. proc[Api].pc = "sync" /\ proc'[Api].op \notin Assigning
    BY <1>0, <1>12, SnapshotFacts DEF ReadSync, ProcOK, Assigning
  <2> QED BY <1>12, <2>1, KeyKept DEF ReadSync
<1> QED BY <1>1, <1>2, <1>3, <1>4, <1>5, <1>6, <1>7, <1>8, <1>9, <1>11, <1>12
     DEF Command, Handle, Project

LEMMA KeyStep == TypeOK /\ KeyInv /\ MaxCrashes = 0 /\ [Next]_vars => KeyInv'
<1> SUFFICES ASSUME TypeOK, KeyInv, MaxCrashes = 0, [Next]_vars PROVE KeyInv'
  OBVIOUS
<1>1. CASE Command \/ Handle(Api) \/ Project(Api)
  BY <1>1, KeyApi
<1>2. ASSUME NEW w \in Workers, Project(w) \/ Execute(w) PROVE KeyInv'
  <2>1. proc'[Api] = proc[Api]
    BY <1>2, StepProject, StepExecute, Names DEF StepBy, Kept
  <2>2. UNCHANGED <<created, remembered>>
    <3>1. CASE Project(w)
      BY <3>1 DEF Project, SkipSync, ReadSync, WriteSync
    <3>2. CASE Receive(w) \/ UseTool(w) \/ WriteTool(w)
      BY <3>2 DEF Receive, StartRun, DropDelivery, UseTool, ReadTool, AcceptAssignment, ReadDecline,
                  WriteTool, WriteSubmit, WriteDecide, WriteDecline, WriteBudget
    <3>3. CASE EndTurn(w)
      BY <3>3 DEF EndTurn, SeeCancelled, ReadBudget, FailRun, StopDeclined, Suspend, CompleteRun,
                  Refused, EndRun
    <3> QED BY <1>2, <3>1, <3>2, <3>3 DEF Execute
  <2> QED BY <2>1, <2>2, KeyKept DEF KeyInv
<1>3. ASSUME NEW p \in Processes, Crash(p) PROVE FALSE
  BY <1>3 DEF Crash, TypeOK
<1>4. CASE UNCHANGED vars
  BY <1>4 DEF vars, KeyInv
<1> QED BY <1>1, <1>2, <1>3, <1>4, Names DEF Next

\* Without crashes a command that is retried with its idempotency key creates
\* one assignment, in local mode and in production (_remember_task_command).
THEOREM RetriedCommands == Spec /\ MaxCrashes = 0 => []OneKeyOneAssignment
<1> SUFFICES ASSUME MaxCrashes = 0 PROVE Spec => []OneKeyOneAssignment
  OBVIOUS
<1>1. Init => KeyInv
  BY ProcessAssumption, Names, DoingPc DEF Init, KeyInv
<1>2. KeyInv => OneKeyOneAssignment
  <2> SUFFICES ASSUME KeyInv, NEW k \in Keys PROVE Cardinality(created[k]) <= 1
    BY DEF OneKeyOneAssignment
  <2>1. CASE created[k] = {}
    BY <2>1, FS_EmptySet
  <2>2. ASSUME NEW n \in Attempts, created[k] = {n} PROVE Cardinality(created[k]) <= 1
    <3>1. Cardinality(created[k]) = 1
      BY <2>2, FS_Singleton, Zenon
    <3> QED BY <3>1
  <2> QED BY <2>1, <2>2 DEF KeyInv
<1>3. TypeOK /\ KeyInv /\ [Next]_vars => KeyInv'
  BY KeyStep
<1> QED BY <1>1, <1>2, <1>3, TypeCorrect, PTL DEF Spec

-----------------------------------------------------------------------------
(* One process: a task that waits has a run that waits *)

HELD == {"waiting_confirmation", "cancelled"}

\* p has changed a run and is about to project that into the task.
Projecting(p) == proc[p].pc \in {"sync", "write"} /\ proc[p].op \in DOMAIN Syncs

\* p is about to create the run of its attempt.
Creating(p) == proc[p].pc = "run" \/ (proc[p].pc = "write" /\ proc[p].op \in Assigning)

\* A run is created once, for an assignment that exists. While the task waits a
\* run does as well, unless the projection of its next state is on its way.
WaitInv ==
  /\ \A n \in Attempts : ~Exists(n) => run[n] = "absent"
  /\ Creating(Api) => run[proc[Api].n] = "absent"
  /\ \A p \in Processes : Projecting(p) /\ proc[p].op = "waiting" => run[proc[p].n] \in HELD
  /\ task.st = "waiting_confirmation" =>
       \/ \E n \in Attempts : run[n] \in HELD
       \/ \E p \in Processes : Projecting(p) /\ proc[p].op # "waiting"

\* A step of a process that has nothing to project yet.
LEMMA WaitKept ==
  ASSUME OneProcess, WaitInv, NEW p \in Processes, Undisturbed(p), Kept(p), ~Projecting(p),
         \A n \in Attempts : ~Exists(n)' => run'[n] = "absent",
         p = Api /\ Creating(Api)' => run'[proc'[Api].n] = "absent",
         Projecting(p)' /\ proc'[p].op = "waiting" => run'[proc'[p].n] \in HELD,
         \/ \A n \in Attempts : run[n] \in HELD => run'[n] \in HELD
         \/ Projecting(p)' /\ proc'[p].op # "waiting",
         task'.st = "waiting_confirmation" => task.st = "waiting_confirmation"
  PROVE  WaitInv'
<1>1. ASSUME NEW q \in Processes \ {p} PROVE ~Projecting(q) /\ ~Projecting(q)' /\ ~Creating(q)'
  <2>1. proc[q].pc \in Awaiting /\ proc'[q] = proc[q]
    BY <1>1 DEF Undisturbed, Kept
  <2> QED BY <2>1 DEF Awaiting, Projecting, Creating
<1>2. Creating(Api)' => run'[proc'[Api].n] = "absent"
  BY <1>1, Names
<1>3. \A q \in Processes : Projecting(q)' /\ proc'[q].op = "waiting" => run'[proc'[q].n] \in HELD
  BY <1>1
<1>4. task'.st = "waiting_confirmation" =>
        \/ \E n \in Attempts : run'[n] \in HELD
        \/ \E q \in Processes : Projecting(q)' /\ proc'[q].op # "waiting"
  BY <1>1 DEF WaitInv
<1> QED BY <1>2, <1>3, <1>4 DEF WaitInv

\* Steps that change no run, and leave the assignments there.
LEMMA WaitQuiet ==
  ASSUME OneProcess, TypeOK, WaitInv, NEW p \in Processes, Undisturbed(p), Kept(p), ~Projecting(p),
         run' = run, \A n \in Attempts : Exists(n) => Exists(n)',
         p = Api => ~Creating(Api)', ~Projecting(p)',
         task'.st = "waiting_confirmation" => task.st = "waiting_confirmation"
  PROVE  WaitInv'
<1>1. \A n \in Attempts : ~Exists(n)' => run'[n] = "absent"
  BY DEF WaitInv
<1> QED BY <1>1, WaitKept

\* The states that operations other than a projection lead to.
LEMMA OtherTargets ==
  /\ \A op \in DOMAIN Moves \cup Assigning \cup Tools :
       op \notin DOMAIN Syncs /\ Target(op) # "waiting_confirmation"
  /\ \A op \in DOMAIN Syncs : op # "waiting" =>
       /\ Target(op) # "waiting_confirmation"
       /\ "waiting_confirmation" \notin TSM!TERMINAL_STATES
       /\ TSM!CanTransition("waiting_confirmation", Target(op))
BY Names DEF Target, Moves, Syncs, Assigning, Tools, ATTENTION, TSM!CanTransition, TSM!TRANSITIONS,
             TSM!TERMINAL_STATES

LEMMA WaitApi ==
  ASSUME OneProcess, TypeOK, WaitInv, Command \/ Handle(Api)
  PROVE  WaitInv'
<1> USE Names
<1>0. proc[Api] \in ProcState /\ ProcOK(Api) /\ StepBy(Api)
  BY StepApi DEF TypeOK
<1> Undisturbed(Api) /\ Kept(Api)
  BY <1>0 DEF StepBy
<1>1. ASSUME NEW key \in Keys \cup {NoKey}, AssignUnknownAgent(key) PROVE WaitInv'
  <2>1. proc[Api].pc = "idle" /\ proc'[Api] = proc[Api] /\ run' = run /\ task' = task
    BY <1>1 DEF AssignUnknownAgent, MayAssign
  <2>2. \A n \in Attempts : Exists(n) => Exists(n)'
    BY <1>1 DEF AssignUnknownAgent, Superseded, Exists
  <2> QED BY <2>1, <2>2, WaitQuiet DEF Projecting, Creating
<1>2. ASSUME NEW key \in Keys \cup {NoKey}, NEW op \in Assigning, ReadAssign(op, key) PROVE WaitInv'
  <2>1. PICK n \in Attempts : ~Exists(n) /\ Snapshot(Api, op, n, key)
    BY <1>2 DEF ReadAssign, Attempts
  <2>2. proc'[Api].pc = "write" /\ proc'[Api].op = op /\ proc'[Api].n = n /\ proc[Api].pc = "idle"
    BY <1>2, <2>1, SnapshotFacts DEF ReadAssign, MayAssign
  <2>3. UNCHANGED <<task, asg, run>> /\ run[n] = "absent"
    BY <1>2, <2>1 DEF ReadAssign, WaitInv
  <2>4. ~Projecting(Api) /\ ~Projecting(Api)'
    BY <2>2, OtherTargets DEF Projecting
  <2>5. \A m \in Attempts : ~Exists(m)' => run'[m] = "absent"
    BY <2>3 DEF WaitInv, Exists
  <2> QED BY <2>2, <2>3, <2>4, <2>5, WaitKept
<1>3. ASSUME NEW op \in DOMAIN Moves, ReadMove(op) PROVE WaitInv'
  <2>1. proc'[Api].pc = "write" /\ proc'[Api].op = op /\ proc[Api].pc = "idle"
    BY <1>3, SnapshotFacts DEF ReadMove
  <2>2. UNCHANGED <<task, asg, run>> /\ op \notin Assigning
    BY <1>3 DEF ReadMove, Moves, Assigning
  <2>3. ~Projecting(Api) /\ ~Projecting(Api)' /\ ~Creating(Api)'
    BY <2>1, <2>2, OtherTargets DEF Projecting, Creating
  <2> QED BY <2>2, <2>3, WaitQuiet DEF Exists
<1>4. ASSUME NEW n \in Attempts, CancelRun(n) PROVE WaitInv'
  <2>1. /\ proc'[Api].pc = "sync" /\ proc'[Api].op = "stopped" /\ proc[Api].pc = "idle"
        /\ run' = [run EXCEPT ![n] = "cancelled"] /\ run[n] # "absent" /\ UNCHANGED <<task, asg>>
    <3>1. proc'[Api] = Doing("sync", "stopped", n, NoKey)
      BY <1>4, SetFacts DEF CancelRun
    <3>2. run[n] # "absent"
      BY <1>4 DEF CancelRun, LIVE, RSM!ACTIVE_STATES
    <3> QED BY <1>4, <3>1, <3>2 DEF CancelRun, Doing
  <2>2. \A m \in Attempts : run'[m] = run[m] \/ (m = n /\ run'[m] = "cancelled")
    BY <2>1 DEF TypeOK
  <2>3. \A m \in Attempts : ~Exists(m)' => run'[m] = "absent"
    BY <2>1, <2>2 DEF WaitInv, Exists
  <2>4. ~Projecting(Api) /\ ~Creating(Api)'
    BY <2>1 DEF Projecting, Creating
  <2> QED BY <2>1, <2>2, <2>3, <2>4, WaitKept DEF HELD
<1>5. ASSUME NEW n \in Attempts, ApproveTool(n) PROVE WaitInv'
  <2>1. proc[Api].pc = "idle" /\ UNCHANGED <<task, asg, run, proc>>
    BY <1>5 DEF ApproveTool
  <2> QED BY <2>1, WaitQuiet DEF Exists, Projecting, Creating
<1>6. ASSUME NEW n \in Attempts, RejectTool(n) PROVE WaitInv'
  <2>1. proc[Api].pc = "idle" /\ UNCHANGED <<task, asg, proc>> /\ run[n] # "absent"
    BY <1>6 DEF RejectTool, RSM!CanTransition, RSM!TRANSITIONS
  <2>2. \A m \in Attempts : run'[m] = run[m] \/ (m = n /\ run'[m] = "cancelled")
    BY <1>6 DEF RejectTool, TypeOK
  <2>3. \A m \in Attempts : ~Exists(m)' => run'[m] = "absent"
    BY <2>1, <2>2 DEF WaitInv, Exists
  <2>4. ~Projecting(Api) /\ ~Projecting(Api)' /\ ~Creating(Api)'
    BY <2>1 DEF Projecting, Creating
  <2> QED BY <2>1, <2>2, <2>3, <2>4, WaitKept DEF HELD
<1>7. CASE WriteAssign(Api)
  <2>1. /\ proc[Api].pc = "write" /\ proc[Api].op \in Assigning /\ proc[Api].n \in Attempts
        /\ run' = run /\ task'.st = Target(proc[Api].op)
    BY <1>0, <1>7 DEF WriteAssign, Writing, WriteTask, Assigning, ProcOK
  <2>2. proc'[Api].pc = "run" /\ proc'[Api].n = proc[Api].n
    BY <1>7, SetFacts DEF WriteAssign, Goto, Doing
  <2>3. \A m \in Attempts : Exists(m) => Exists(m)'
    BY <1>7, <2>1 DEF WriteAssign, Superseded, Exists
  <2>4. ~Projecting(Api) /\ ~Projecting(Api)' /\ Creating(Api)
    BY <2>1, <2>2, OtherTargets DEF Projecting, Creating
  <2>5. \A m \in Attempts : ~Exists(m)' => run'[m] = "absent"
    BY <2>1, <2>3 DEF WaitInv
  <2>6. run'[proc'[Api].n] = "absent"
    BY <2>1, <2>2, <2>4 DEF WaitInv
  <2>7. task'.st # "waiting_confirmation"
    BY <2>1, OtherTargets
  <2> QED BY <2>1, <2>4, <2>5, <2>6, <2>7, WaitKept
<1>8. CASE CreateRun(Api)
  <2>1. proc[Api].pc = "run" /\ proc'[Api].pc = "remember" /\ UNCHANGED <<task, asg>>
    BY <1>8, SetFacts DEF CreateRun, Goto, Doing
  <2>2. proc[Api].n \in Attempts /\ run[proc[Api].n] = "absent"
    BY <1>0, <2>1 DEF ProcOK, WaitInv, Creating
  <2>3. \A m \in Attempts :
          run'[m] = run[m] \/ (run[m] = "absent" /\ asg[m] = "assigned")
    BY <1>8, <2>2 DEF CreateRun, TypeOK
  <2>4. \A m \in Attempts : ~Exists(m)' => run'[m] = "absent"
    BY <2>1, <2>3 DEF WaitInv, Exists
  <2>5. ~Projecting(Api) /\ ~Projecting(Api)' /\ ~Creating(Api)'
    BY <2>1 DEF Projecting, Creating
  <2>6. \A m \in Attempts : run[m] \in HELD => run'[m] \in HELD
    BY <2>3 DEF HELD
  <2> QED BY <2>1, <2>4, <2>5, <2>6, WaitKept
<1>9. CASE Remember(Api) \/ WriteMove(Api)
  <2>1. proc'[Api].pc = "idle" /\ UNCHANGED <<asg, run>>
    BY <1>9, SetFacts, DoingPc DEF Remember, WriteMove
  <2>2. ~Projecting(Api) /\ ~Projecting(Api)' /\ ~Creating(Api)'
    BY <1>9, <2>1, OtherTargets DEF Remember, WriteMove, Writing, Projecting, Creating
  <2>3. task' = task \/ (proc[Api].op \in DOMAIN Moves /\ task'.st = Target(proc[Api].op))
    BY <1>9 DEF Remember, WriteMove, Writing, WriteTask
  <2>4. task'.st = "waiting_confirmation" => task.st = "waiting_confirmation"
    BY <2>3, OtherTargets
  <2> QED BY <2>1, <2>2, <2>4, WaitQuiet DEF Exists
<1> QED BY <1>1, <1>2, <1>3, <1>4, <1>5, <1>6, <1>7, <1>8, <1>9 DEF Command, Handle

\* The projection itself.
LEMMA WaitProject ==
  ASSUME OneProcess, TypeOK, WaitInv, NEW p \in Processes, Project(p)
  PROVE  WaitInv'
<1> USE Names
<1>0. proc[p] \in ProcState /\ ProcOK(p) /\ StepBy(p)
  BY StepProject DEF TypeOK
<1> Undisturbed(p) /\ Kept(p)
  BY <1>0 DEF StepBy
<1>1. Projecting(p) /\ proc[p].n \in Attempts /\ proc[p].op \in DOMAIN Syncs
  BY <1>0 DEF Project, SkipSync, ReadSync, WriteSync, Writing, Projecting, ProcOK
<1>2. ASSUME NEW q \in Processes \ {p} PROVE ~Projecting(q)' /\ ~Projecting(q) /\ ~Creating(q)'
  <2>1. proc[q].pc \in Awaiting /\ proc'[q] = proc[q]
    BY <1>2 DEF Undisturbed, Kept
  <2> QED BY <2>1 DEF Awaiting, Projecting, Creating
<1>3. proc[p].op = "waiting" => run[proc[p].n] \in HELD
  BY <1>1 DEF WaitInv
<1>4. run' = run /\ \A n \in Attempts : Exists(n) => Exists(n)'
  BY DEF Project, SkipSync, ReadSync, WriteSync, Exists, SyncedAssignment, TypeOK
<1>5. \A n \in Attempts : ~Exists(n)' => run'[n] = "absent"
  BY <1>4 DEF WaitInv
<1>6. ASSUME AfterSync(p) PROVE proc'[p].pc \in {"turn", "idle"}
  BY <1>6, SetFacts, DoingPc DEF AfterSync, Goto, Return
<1>7. CASE ReadSync(p)
  <2>1. /\ proc'[p].pc = "write" /\ proc'[p].op = proc[p].op /\ proc'[p].n = proc[p].n
        /\ task' = task
    BY <1>7, SnapshotFacts DEF ReadSync
  <2>2. ~Creating(p)' /\ Projecting(p)'
    BY <1>1, <2>1, OtherTargets DEF Creating, Projecting
  <2>3. ~Creating(Api)'
    BY <1>2, <2>2
  <2>4. task'.st = "waiting_confirmation" =>
          \/ \E n \in Attempts : run'[n] \in HELD
          \/ \E q \in Processes : Projecting(q)' /\ proc'[q].op # "waiting"
    <3>1. CASE proc[p].op = "waiting"
      BY <1>1, <1>3, <1>4, <3>1
    <3>2. CASE proc[p].op # "waiting"
      BY <2>1, <2>2, <3>2
    <3> QED BY <3>1, <3>2
  <2>5. \A q \in Processes : Projecting(q)' /\ proc'[q].op = "waiting" => run'[proc'[q].n] \in HELD
    BY <1>2, <1>3, <1>4, <2>1
  <2> QED BY <1>5, <2>3, <2>4, <2>5 DEF WaitInv
<1>8. CASE SkipSync(p) \/ WriteSync(p)
  <2>1. ~Projecting(p)' /\ ~Creating(p)'
    BY <1>6, <1>8 DEF SkipSync, WriteSync, Projecting, Creating
  <2>2. ~Creating(Api)' /\ \A q \in Processes : ~Projecting(q)'
    BY <1>2, <2>1
  <2>3. task'.st = "waiting_confirmation" => proc[p].op = "waiting"
    <3>1. CASE SkipSync(p)
      BY <1>1, <3>1, OtherTargets DEF SkipSync, SyncApplies
    <3>2. CASE WriteSync(p)
      BY <1>1, <3>2, OtherTargets DEF WriteSync, WriteTask
    <3> QED BY <1>8, <3>1, <3>2
  <2>4. task'.st = "waiting_confirmation" => \E n \in Attempts : run'[n] \in HELD
    BY <1>1, <1>3, <1>4, <2>3
  <2> QED BY <1>5, <2>2, <2>4 DEF WaitInv
<1> QED BY <1>7, <1>8 DEF Project

LEMMA WaitExecute ==
  ASSUME OneProcess, TypeOK, WaitInv, NEW w \in Workers, Execute(w)
  PROVE  WaitInv'
<1> USE Names
<1>0. proc[w] \in ProcState /\ ProcOK(w) /\ StepBy(w) /\ w \in Processes /\ w # Api
  BY StepExecute DEF TypeOK
<1> Undisturbed(w) /\ Kept(w)
  BY <1>0 DEF StepBy
<1>1. ASSUME NEW n \in Attempts, NEW d \in Delivery, StartRun(w, n, d) PROVE WaitInv'
  <2>1. /\ proc[w].pc = "idle" /\ proc'[w].pc = "sync" /\ proc'[w].op = "running"
        /\ UNCHANGED <<task, asg>> /\ run[n] # "absent"
    BY <1>0, <1>1, SetFacts DEF StartRun, Deliverable, Doing, Startable
  <2>2. \A m \in Attempts : run'[m] = run[m] \/ run[m] # "absent"
    BY <1>1, <2>1 DEF StartRun, TypeOK
  <2>3. \A m \in Attempts : ~Exists(m)' => run'[m] = "absent"
    BY <2>1, <2>2 DEF WaitInv, Exists
  <2>4. ~Projecting(w) /\ Projecting(w)' /\ proc'[w].op # "waiting"
    BY <2>1 DEF Projecting
  <2> QED BY <1>0, <2>1, <2>3, <2>4, WaitKept
<1>2. ASSUME ~Projecting(w), ~Projecting(w)', run' = run, \A n \in Attempts : Exists(n) => Exists(n)',
             task'.st = "waiting_confirmation" => task.st = "waiting_confirmation"
      PROVE  WaitInv'
  BY <1>0, <1>2, WaitQuiet
<1>3. ASSUME NEW n \in Attempts, NEW d \in Delivery, DropDelivery(w, n, d) PROVE WaitInv'
  <2>1. proc[w].pc = "idle" /\ UNCHANGED <<task, asg, run, proc>>
    BY <1>3 DEF DropDelivery, Deliverable
  <2> QED BY <1>2, <2>1 DEF Exists, Projecting
<1>4. ASSUME NEW op \in Tools, Turn(w), Snapshot(w, op, proc[w].n, proc[w].arg), UNCHANGED <<task, asg, run>>
      PROVE  WaitInv'
  <2>1. proc'[w].op = op /\ proc[w].pc = "turn"
    BY <1>0, <1>4, SnapshotFacts DEF Turn
  <2> QED BY <1>2, <1>4, <2>1, OtherTargets DEF Exists, Projecting
<1>5. CASE UseTool(w) \/ ReadBudget(w)
  <2>1. CASE AcceptAssignment(w)
    <3>1. proc[w].pc = "turn" /\ UNCHANGED <<task, run, proc>>
      BY <2>1 DEF AcceptAssignment, Turn
    <3>2. \A n \in Attempts : Exists(n) => Exists(n)'
      BY <2>1 DEF AcceptAssignment, Exists, TypeOK
    <3> QED BY <1>2, <3>1, <3>2 DEF Projecting
  <2>2. ASSUME NEW op \in {"submit", "decide"}, ReadTool(w, op) PROVE WaitInv'
    BY <1>4, <2>2 DEF ReadTool, Tools
  <2>3. CASE ReadDecline(w)
    BY <1>4, <2>3 DEF ReadDecline, Tools
  <2>4. CASE ReadBudget(w)
    BY <1>4, <2>4 DEF ReadBudget, Tools
  <2> QED BY <1>5, <2>1, <2>2, <2>3, <2>4 DEF UseTool
<1>6. CASE WriteTool(w)
  <2>1. proc[w].pc = "write" /\ proc[w].op \in Tools /\ run' = run
    BY <1>6 DEF WriteTool, WriteSubmit, WriteDecide, WriteDecline, WriteBudget, Writing, Tools
  <2>2. proc'[w].pc \in {"turn", "declined", "finish"}
    BY <1>0, <1>6, SetFacts, DoingPc DEF WriteTool, WriteSubmit, WriteDecide, WriteDecline, WriteBudget, Goto
  <2>3. task' = task \/ task'.st = Target(proc[w].op)
    BY <1>6 DEF WriteTool, WriteSubmit, WriteDecide, WriteDecline, WriteBudget, WriteTask
  <2>4. \A n \in Attempts : Exists(n) => Exists(n)'
    BY <1>6 DEF WriteTool, WriteSubmit, WriteDecide, WriteDecline, WriteBudget, Exists, TypeOK
  <2>5. task'.st = "waiting_confirmation" => task.st = "waiting_confirmation"
    BY <2>1, <2>3, OtherTargets
  <2>6. ~Projecting(w) /\ ~Projecting(w)'
    BY <2>1, <2>2, OtherTargets DEF Projecting
  <2> QED BY <1>2, <2>1, <2>4, <2>5, <2>6
<1>7. CASE SeeCancelled(w) \/ Refused(w)
  <2>1. /\ proc[w].pc \in {"turn", "finish", "declined"} /\ proc'[w].pc = "idle"
        /\ UNCHANGED <<task, asg, run>>
    BY <1>0, <1>7, SetFacts, DoingPc DEF SeeCancelled, Refused, Turn, Return
  <2> QED BY <1>2, <2>1 DEF Exists, Projecting
<1>8. CASE CompleteRun(w)
  <2>1. /\ proc[w].pc \in {"turn", "finish"} /\ proc'[w].pc = "idle" /\ UNCHANGED <<task, asg>>
        /\ proc[w].n \in Attempts
    BY <1>0, <1>8, SetFacts, DoingPc DEF CompleteRun, Return, ProcOK
  <2>2. run[proc[w].n] \in {"running", "completed"}
    BY <1>8 DEF CompleteRun, RSM!CanTransition, RSM!TRANSITIONS
  <2>3. \A m \in Attempts : run'[m] = run[m] \/ run[m] \in {"running", "completed"}
    BY <1>8, <2>1, <2>2 DEF CompleteRun, TypeOK
  <2>4. \A m \in Attempts : ~Exists(m)' => run'[m] = "absent"
    BY <2>1, <2>3 DEF WaitInv, Exists
  <2>5. \A m \in Attempts : run[m] \in HELD => run'[m] \in HELD
    BY <2>3 DEF HELD
  <2>6. ~Projecting(w) /\ ~Projecting(w)'
    BY <2>1 DEF Projecting
  <2> QED BY <1>0, <2>1, <2>4, <2>5, <2>6, WaitKept
<1>9. CASE FailRun(w) \/ StopDeclined(w) \/ Suspend(w)
  <2>1. PICK ended, op : /\ EndRun(w, ended, op) /\ proc[w].pc \in {"turn", "declined"}
                         /\ op \in {"failed", "stopped", "waiting"}
                         /\ op = "waiting" => ended \in HELD
    BY <1>9 DEF FailRun, StopDeclined, Suspend, HELD
  <2>2. proc'[w].pc = "sync" /\ proc'[w].op = op /\ proc'[w].n = proc[w].n /\ proc[w].n \in Attempts
    BY <1>0, <2>1, SetFacts DEF EndRun, Doing, ProcOK
  <2>3. run[proc[w].n] # "absent" /\ UNCHANGED <<task, asg>>
    BY <2>1 DEF EndRun, RSM!CanTransition, RSM!TRANSITIONS
  <2>4. run'[proc[w].n] = ended /\ \A m \in Attempts : m # proc[w].n => run'[m] = run[m]
    BY <2>1, <2>2 DEF EndRun, TypeOK
  <2>5. \A m \in Attempts : ~Exists(m)' => run'[m] = "absent"
    BY <2>3, <2>4 DEF WaitInv, Exists
  <2>6. ~Projecting(w) /\ Projecting(w)'
    BY <2>1, <2>2 DEF Projecting
  <2>7. op = "waiting" =>
          \A m \in Attempts : run[m] \in HELD => run'[m] \in HELD
    BY <2>1, <2>4
  <2> QED BY <1>0, <2>1, <2>2, <2>3, <2>4, <2>5, <2>6, <2>7, WaitKept
<1> QED BY <1>1, <1>3, <1>5, <1>6, <1>7, <1>8, <1>9 DEF Execute, Receive, EndTurn

LEMMA WaitStep == TypeOK /\ WaitInv /\ OneProcess /\ MaxCrashes = 0 /\ [Next]_vars => WaitInv'
<1> SUFFICES ASSUME TypeOK, WaitInv, OneProcess, MaxCrashes = 0, [Next]_vars PROVE WaitInv'
  OBVIOUS
<1>1. CASE Command \/ Handle(Api)
  BY <1>1, WaitApi
<1>2. ASSUME NEW p \in Processes, Project(p) PROVE WaitInv'
  BY <1>2, WaitProject
<1>3. ASSUME NEW w \in Workers, Execute(w) PROVE WaitInv'
  BY <1>3, WaitExecute
<1>4. ASSUME NEW p \in Processes, Crash(p) PROVE FALSE
  BY <1>4 DEF Crash, TypeOK
<1>5. CASE UNCHANGED vars
  BY <1>5 DEF vars, WaitInv, Exists, Projecting, Creating
<1> QED BY <1>1, <1>2, <1>3, <1>4, <1>5 DEF Next

\* In local mode, while the process lives, the task is shown as waiting for a
\* confirmation only if a run of it waits for one, or was cancelled meanwhile.
THEOREM WaitingRuns == Spec /\ OneProcess /\ MaxCrashes = 0 => []WaitingRunWaits
<1> SUFFICES ASSUME OneProcess, MaxCrashes = 0 PROVE Spec => []WaitingRunWaits
  OBVIOUS
<1>1. Init => WaitInv
  <2> SUFFICES ASSUME Init PROVE WaitInv
    OBVIOUS
  <2>1. \A p \in Processes : proc[p].pc \in {"run", "idle"}
    BY DoingPc DEF Init
  <2>2. Creating(Api) => proc[Api].n \in Attempts
    BY TypeInit, Names, <2>1 DEF TypeOK, ProcOK, Creating
  <2> QED BY <2>1, <2>2 DEF Init, WaitInv, Projecting
<1>2. WaitInv => WaitingRunWaits
  BY DEF WaitInv, WaitingRunWaits, Projecting, Awaiting, HELD
<1>3. TypeOK /\ WaitInv /\ [Next]_vars => WaitInv'
  BY WaitStep
<1> QED BY <1>1, <1>2, <1>3, TypeCorrect, PTL DEF Spec

-----------------------------------------------------------------------------
(* Delegated tasks: type correctness *)

LEMMA TreeNames ==
  /\ States!State = {"draft", "queued", "assigned", "in_progress", "waiting_confirmation",
                     "awaiting_proposer_close", "attention_required", "closed", "cancelled"}
  /\ States!TERMINAL_STATES = {"closed", "cancelled"}
  /\ MaxCalls \in Nat /\ MaxTokens \in Nat /\ MaxTokens = MaxCalls + 1 /\ MaxFaults \in Nat
  /\ 1 \in Attempt /\ Attempt \subseteq Nat
  /\ NoTask \notin Tasks /\ Roots \subseteq Tasks
BY TreeBoundsAssumption, TasksAssumption
   DEF States!State, States!TRANSITIONS, States!TERMINAL_STATES, MaxTokens, Attempt

LEMMA BudgetFacts ==
  \A b \in Budgets \cup {Nothing} :
    /\ b.tokens \in Nat /\ b.calls \in Nat /\ b.runs \in Nat
    /\ b.depth \in Nat /\ b.subtasks \in Nat
BY BudgetsAssumption DEF Nothing

\* A run projects into its task, or nothing happens.
LEMMA ProjectRunType ==
  ASSUME TreeTypeOK, NEW t \in Tasks, NEW a \in Attempt, NEW target \in States!State,
         NEW written \in OPEN \cup {"none", "over"},
         ProjectRun(t, a, target, written)
  PROVE  /\ state' \in [Tasks -> States!State \cup {"none"}]
         /\ assignment' \in [Tasks -> [Attempt -> OPEN \cup {"none", "over"}]]
<1> state \in [Tasks -> States!State \cup {"none"}]
    /\ assignment \in [Tasks -> [Attempt -> OPEN \cup {"none", "over"}]]
  BY DEF TreeTypeOK
<1>1. CASE Projects(t, target)
  <2>1. /\ state' = [state EXCEPT ![t] = target]
        /\ assignment' = [assignment EXCEPT ![t][a] = written]
    BY <1>1 DEF ProjectRun
  <2> QED BY <2>1
<1>2. CASE ~Projects(t, target)
  BY <1>2 DEF ProjectRun
<1> QED BY <1>1, <1>2

LEMMA AdmitType ==
  ASSUME TreeTypeOK, NEW t \in Tasks, NEW a \in Attempt, NEW admitted, AdmitRun(t, a, admitted)
  PROVE  runState' \in [Tasks -> [Attempt -> UNFINISHED \cup {"none", "completed", "failed", "cancelled"}]]
<1>1. runState \in [Tasks -> [Attempt -> UNFINISHED \cup {"none", "completed", "failed", "cancelled"}]]
  BY DEF TreeTypeOK
<1>2. CASE runState' = [runState EXCEPT ![t][a] = "queued"]
  BY <1>1, <1>2 DEF UNFINISHED
<1>3. CASE runState' = runState
  BY <1>1, <1>3
<1> QED BY <1>2, <1>3 DEF AdmitRun

LEMMA EndedType ==
  ASSUME TreeTypeOK, NEW t \in Tasks, NEW a \in Attempt
  PROVE  Ended(t, a) \in OPEN \cup {"none", "over"}
BY DEF TreeTypeOK, Ended, OPEN

LEMMA SpendType ==
  ASSUME TreeTypeOK, NEW t \in Tasks, NEW a \in Attempt,
         NEW pc \in {"turn", "delegating"}, CallsLeft(t, a), Spend(t, a, pc)
  PROVE  executor' \in [Tasks -> [Attempt ->
           [pc : {"off", "turn", "delegating", "reported"}, tokens : 0..MaxCalls]]]
BY TreeNames DEF TreeTypeOK, CallsLeft, Executing, Spend

LEMMA CallsType ==
  ASSUME TreeTypeOK, NEW t \in Tasks, NEW a \in Attempt,
         NEW pc \in {"turn", "delegating"}, Calls(t, a, pc)
  PROVE  /\ calls' \in [Tasks -> Nat]
         /\ executor' \in [Tasks -> [Attempt ->
              [pc : {"off", "turn", "delegating", "reported"}, tokens : 0..MaxCalls]]]
<1>1. executor' \in [Tasks -> [Attempt ->
              [pc : {"off", "turn", "delegating", "reported"}, tokens : 0..MaxCalls]]]
  BY SpendType DEF Calls
<1>2. calls \in [Tasks -> Nat] /\ calls[t] \in Nat
  BY DEF TreeTypeOK
<1>3. (IF budget[t].calls = 0 THEN 0 ELSE calls[t] + 1) \in Nat
  BY <1>2
<1> QED BY <1>1, <1>2, <1>3 DEF Calls

LEMMA TreeTypeInit == TreeInit => TreeTypeOK
BY TreeNames DEF TreeInit, TreeTypeOK, Off, Nothing

LEMMA TreeTypeProposer ==
  ASSUME TreeTypeOK, NEW t \in Tasks, Proposer(t)
  PROVE  TreeTypeOK'
<1>1. ASSUME NEW b \in Budgets, CreateTask(t, b)
      PROVE  TreeTypeOK'
  <2>1. runState' \in [Tasks -> [Attempt -> UNFINISHED \cup {"none", "completed", "failed", "cancelled"}]]
    BY <1>1, TreeNames, AdmitType DEF CreateTask
  <2>2. assignment' \in [Tasks -> [Attempt -> OPEN \cup {"none", "over"}]]
    BY <1>1, TreeNames DEF CreateTask, TreeTypeOK, OPEN
  <2> QED BY <1>1, <2>1, <2>2, TreeNames DEF CreateTask, TreeTypeOK
<1>2. ASSUME NEW target \in {"closed", "cancelled"}, EndTask(t, target)
      PROVE  TreeTypeOK'
  BY <1>2, TreeNames DEF EndTask, TreeTypeOK, rows
<1>3. ASSUME NEW a \in Attempt, Reopen(t, a)
      PROVE  TreeTypeOK'
  <2>1. SupersededIn(t) \in [Attempt -> OPEN \cup {"none", "over"}]
    BY EndedType DEF SupersededIn
  <2>2. assignment' \in [Tasks -> [Attempt -> OPEN \cup {"none", "over"}]]
    BY <1>3, <2>1 DEF Reopen, TreeTypeOK, OPEN
  <2>3. state' \in [Tasks -> States!State \cup {"none"}]
    BY <1>3, TreeNames DEF Reopen, TreeTypeOK
  <2>4. runState' \in [Tasks -> [Attempt -> UNFINISHED \cup {"none", "completed", "failed", "cancelled"}]]
    BY <1>3, AdmitType DEF Reopen
  <2> QED BY <1>3, <2>2, <2>3, <2>4 DEF Reopen, TreeTypeOK, rows
<1>4. ASSUME NEW a \in Attempt, CancelAttempt(t, a)
      PROVE  TreeTypeOK'
  <2>1. /\ state' \in [Tasks -> States!State \cup {"none"}]
        /\ assignment' \in [Tasks -> [Attempt -> OPEN \cup {"none", "over"}]]
    BY <1>4, TreeNames, EndedType, ProjectRunType DEF CancelAttempt
  <2> QED BY <1>4, <2>1 DEF CancelAttempt, TreeTypeOK, rows
<1> QED BY <1>1, <1>2, <1>3, <1>4 DEF Proposer

LEMMA TreeTypeTool ==
  ASSUME TreeTypeOK, NEW t \in Tasks, NEW a \in Attempt, Tool(t, a)
  PROVE  TreeTypeOK'
<1>1. CASE ToolDenied(t, a)
  <2>1. /\ calls' \in [Tasks -> Nat]
        /\ executor' \in [Tasks -> [Attempt ->
             [pc : {"off", "turn", "delegating", "reported"}, tokens : 0..MaxCalls]]]
    <3>1. CASE CallsLeft(t, a) /\ BudgetError(t, 0) /\ Spend(t, a, "turn") /\ UNCHANGED calls
      BY <3>1, SpendType DEF TreeTypeOK
    <3>2. CASE Calls(t, a, "turn")
      BY <3>2, CallsType
    <3> QED BY <1>1, <3>1, <3>2 DEF ToolDenied
  <2> QED BY <1>1, <2>1 DEF ToolDenied, TreeTypeOK, rows
<1>2. ASSUME NEW pc \in {"turn", "delegating"}, CallsTask(t, a, pc)
      PROVE  /\ calls' \in [Tasks -> Nat]
             /\ executor' \in [Tasks -> [Attempt ->
                  [pc : {"off", "turn", "delegating", "reported"}, tokens : 0..MaxCalls]]]
  BY <1>2, CallsType DEF CallsTask
<1>3. CASE SubmitResult(t, a)
  BY <1>2, <1>3, TreeNames DEF SubmitResult, TreeTypeOK, rows
<1>4. CASE AskProposer(t, a)
  BY <1>2, <1>4, TreeNames DEF AskProposer, TreeTypeOK, rows
<1>5. ASSUME NEW b \in Budgets, AdmitDelegation(t, a, b)
      PROVE  TreeTypeOK'
  <2>1. asking' \in [Tasks -> SUBSET (Attempt \X Budgets)] /\ overlapped' \subseteq Tasks
    BY <1>5 DEF AdmitDelegation, TreeTypeOK
  <2> QED BY <1>2, <1>5, <2>1 DEF AdmitDelegation, TreeTypeOK, rows
<1>6. ASSUME NEW c \in Tasks, CollectChild(t, a, c)
      PROVE  TreeTypeOK'
  BY <1>2, <1>6 DEF CollectChild, TreeTypeOK, rows
<1>7. ASSUME NEW c \in Tasks, CloseChild(t, a, c)
      PROVE  TreeTypeOK'
  BY <1>2, <1>7, TreeNames DEF CloseChild, TreeTypeOK, rows
<1> QED BY <1>1, <1>3, <1>4, <1>5, <1>6, <1>7 DEF Tool

LEMMA TreeTypeExecution ==
  ASSUME TreeTypeOK, NEW t \in Tasks, NEW a \in Attempt, Execution(t, a)
  PROVE  TreeTypeOK'
<1>0. Leave(t, a) => executor' \in [Tasks -> [Attempt ->
        [pc : {"off", "turn", "delegating", "reported"}, tokens : 0..MaxCalls]]]
  BY TreeNames DEF Leave, Off, TreeTypeOK
<1>1. CASE Start(t, a)
  <2>1. /\ state' \in [Tasks -> States!State \cup {"none"}]
        /\ assignment' \in [Tasks -> [Attempt -> OPEN \cup {"none", "over"}]]
    <3>1. (IF assignment[t][a] = "assigned" THEN "accepted" ELSE assignment[t][a])
            \in OPEN \cup {"none", "over"}
      BY DEF TreeTypeOK, OPEN
    <3> QED BY <1>1, <3>1, TreeNames, ProjectRunType DEF Start
  <2>2. executor' \in [Tasks -> [Attempt ->
          [pc : {"off", "turn", "delegating", "reported"}, tokens : 0..MaxCalls]]]
    BY <1>1, TreeNames DEF Start, TreeTypeOK
  <2> QED BY <1>1, <2>1, <2>2 DEF Start, TreeTypeOK, rows, UNFINISHED
<1>2. CASE ReportUsage(t, a)
  <2>1. usage' \in [Tasks -> [Attempt -> 0..MaxTokens]]
    BY <1>2, TreeNames DEF ReportUsage, StoreUsage, TreeTypeOK
  <2>2. executor' \in [Tasks -> [Attempt ->
          [pc : {"off", "turn", "delegating", "reported"}, tokens : 0..MaxCalls]]]
    BY <1>2, TreeNames DEF ReportUsage, TreeTypeOK
  <2>3. state' \in [Tasks -> States!State \cup {"none"}]
    BY <1>2, TreeNames DEF ReportUsage, TreeTypeOK
  <2> QED BY <1>2, <2>1, <2>2, <2>3 DEF ReportUsage, TreeTypeOK, rows
<1>3. CASE CompleteAttempt(t, a)
  BY <1>0, <1>3 DEF CompleteAttempt, TreeTypeOK, rows
<1>4. CASE FailAttempt(t, a)
  <2>1. /\ state' \in [Tasks -> States!State \cup {"none"}]
        /\ assignment' \in [Tasks -> [Attempt -> OPEN \cup {"none", "over"}]]
    BY <1>4, TreeNames, EndedType, ProjectRunType DEF FailAttempt
  <2> QED BY <1>0, <1>4, <2>1 DEF FailAttempt, TreeTypeOK, rows
<1>5. CASE NoticeCancelled(t, a)
  BY <1>0, <1>5 DEF NoticeCancelled, TreeTypeOK, rows
<1>6. CASE WorkerDies(t, a)
  <2>1. asking' \in [Tasks -> SUBSET (Attempt \X Budgets)]
    BY <1>6 DEF WorkerDies, TreeTypeOK
  <2>2. faults' \in 0..MaxFaults
    BY <1>6, TreeNames DEF WorkerDies, TreeTypeOK
  <2> QED BY <1>0, <1>6, <2>1, <2>2 DEF WorkerDies, TreeTypeOK, rows
<1> QED BY <1>1, <1>2, <1>3, <1>4, <1>5, <1>6 DEF Execution

LEMMA TreeTypeWrite ==
  ASSUME TreeTypeOK, NEW t \in Tasks, NEW c \in Tasks, WriteDelegation(t, c)
  PROVE  TreeTypeOK'
<1>1. PICK a \in Attempt, b \in Budgets :
        /\ parent' = [parent EXCEPT ![c] = t]
        /\ budget' = [budget EXCEPT ![c] = b]
        /\ state' = [state EXCEPT ![c] = "assigned"]
        /\ assignment' = [assignment EXCEPT ![c][1] = "assigned"]
        /\ AdmitRun(c, 1, TRUE)
        /\ asking' = [asking EXCEPT ![t] = @ \ {<<a, b>>}]
        /\ executor' = [executor EXCEPT ![t][a].pc = "turn"]
        /\ UNCHANGED <<usage, calls, overlapped, faults>>
  BY DEF WriteDelegation
<1>3. budget' \in [Tasks -> Budgets \cup {Nothing}] /\ parent' \in [Tasks -> Tasks \cup {NoTask}]
  BY <1>1 DEF TreeTypeOK
<1>4. /\ state' \in [Tasks -> States!State \cup {"none"}]
      /\ assignment' \in [Tasks -> [Attempt -> OPEN \cup {"none", "over"}]]
  BY <1>1, TreeNames DEF TreeTypeOK, OPEN
<1>5. runState' \in [Tasks -> [Attempt -> UNFINISHED \cup {"none", "completed", "failed", "cancelled"}]]
  BY <1>1, TreeNames, AdmitType
<1>6. executor' \in [Tasks -> [Attempt ->
        [pc : {"off", "turn", "delegating", "reported"}, tokens : 0..MaxCalls]]]
  <2>1. executor \in [Tasks -> [Attempt ->
          [pc : {"off", "turn", "delegating", "reported"}, tokens : 0..MaxCalls]]]
    BY DEF TreeTypeOK
  <2>2. [executor[t][a] EXCEPT !.pc = "turn"]
           \in [pc : {"off", "turn", "delegating", "reported"}, tokens : 0..MaxCalls]
    BY <2>1
  <2>3. executor' = [executor EXCEPT ![t][a] = [executor[t][a] EXCEPT !.pc = "turn"]]
    BY <1>1
  <2> QED BY <2>1, <2>2, <2>3
<1>7. asking' \in [Tasks -> SUBSET (Attempt \X Budgets)]
  BY <1>1 DEF TreeTypeOK
<1> QED BY <1>1, <1>3, <1>4, <1>5, <1>6, <1>7 DEF TreeTypeOK

LEMMA TreeTypeStep == TreeTypeOK /\ [TreeNext]_treeVars => TreeTypeOK'
<1> SUFFICES ASSUME TreeTypeOK, [TreeNext]_treeVars PROVE TreeTypeOK' OBVIOUS
<1>1. CASE UNCHANGED treeVars
  BY <1>1 DEF treeVars, rows, TreeTypeOK
<1>2. CASE TreeNext
  BY <1>2, TreeTypeProposer, TreeTypeTool, TreeTypeExecution, TreeTypeWrite DEF TreeNext
<1> QED BY <1>1, <1>2

\* Every variable of a tree of tasks keeps its type; the tokens a worker counts
\* stay within the calls of its policy, whatever the budget says.
THEOREM TreeCorrect == TreeSpec => []TreeTypeOK
BY TreeTypeInit, TreeTypeStep, PTL DEF TreeSpec

-----------------------------------------------------------------------------
(* Rows, runs and executors belong together *)

\* A worker executes only a run that was started and not cleared by a later
\* command; an assignment and its run are of one attempt; without a row there is
\* neither a run nor a parent; an admitted delegation is its worker's only one.
PairOK(t, a) ==
  /\ executor[t][a].pc # "off" => runState[t][a] \in {"running", "cancelled"}
  /\ assignment[t][a] = "none" => runState[t][a] = "none"
  /\ ~HasRow(t) => runState[t][a] = "none" /\ usage[t][a] = 0

RowOK(t) ==
  /\ ~HasRow(t) => parent[t] = NoTask /\ asking[t] = {}
  /\ parent[t] # NoTask => HasRow(parent[t])
  /\ \A p \in asking[t] : executor[t][p[1]].pc = "delegating"
  /\ \A p, q \in asking[t] : p[1] = q[1] => p = q

TreeInv == \A t \in Tasks : RowOK(t) /\ \A a \in Attempt : PairOK(t, a)

LEMMA TreeInvInit == TreeInit => TreeInv
BY DEF TreeInit, TreeInv, RowOK, PairOK, HasRow, Off

\* Rows stay, and what is attached to them with them.
LEMMA RowsStay ==
  ASSUME TreeTypeOK, TreeTypeOK', TreeInv, UNCHANGED parent,
         \A t \in Tasks : HasRow(t) => HasRow(t)',
         \A t \in Tasks : asking'[t] = asking[t]
           \/ (asking'[t] \subseteq asking[t]
                 /\ \A p \in asking'[t] : executor'[t][p[1]] = executor[t][p[1]]),
         \A t \in Tasks, a \in Attempt :
           executor[t][a].pc = "delegating" => executor'[t][a].pc = "delegating"
              \/ \A p \in asking'[t] : p[1] # a,
         \A t \in Tasks, a \in Attempt : PairOK(t, a)'
  PROVE  TreeInv'
<1> SUFFICES ASSUME NEW t \in Tasks PROVE RowOK(t)'
  BY DEF TreeInv
<1>1. RowOK(t)
  BY DEF TreeInv
<1>2. parent[t] \in Tasks \cup {NoTask} /\ asking[t] \subseteq Attempt \X Budgets
      /\ asking'[t] \subseteq asking[t]
  BY DEF TreeTypeOK
<1>3. (~HasRow(t) => parent[t] = NoTask /\ asking[t] = {})'
  BY <1>1, <1>2 DEF RowOK
<1>4. (parent[t] # NoTask => HasRow(parent[t]))'
  <2> SUFFICES ASSUME parent[t] # NoTask PROVE HasRow(parent[t])'
    OBVIOUS
  <2>1. HasRow(parent[t])
    BY <1>1 DEF RowOK
  <2> QED BY <1>2, <2>1 DEF HasRow
<1>5. ASSUME NEW p \in asking'[t] PROVE executor'[t][p[1]].pc = "delegating"
  <2>1. p \in asking[t] /\ p[1] \in Attempt
    BY <1>2
  <2>2. executor[t][p[1]].pc = "delegating"
    BY <1>1, <2>1 DEF RowOK
  <2> QED BY <2>1, <2>2
<1>6. \A p, q \in asking'[t] : p[1] = q[1] => p = q
  BY <1>1, <1>2 DEF RowOK
<1> QED BY <1>3, <1>4, <1>5, <1>6 DEF RowOK

\* A run's change in its task: rows stay, and assignments.
LEMMA ProjectRunKeeps ==
  ASSUME TreeTypeOK, NEW t \in Tasks, NEW a \in Attempt, NEW target \in States!State,
         NEW written, written = "none" => assignment[t][a] = "none",
         ProjectRun(t, a, target, written), HasRow(t)
  PROVE  /\ \A x \in Tasks : HasRow(x) <=> HasRow(x)'
         /\ \A x \in Tasks, y \in Attempt : assignment'[x][y] = "none" => assignment[x][y] = "none"
<1>1. /\ state \in [Tasks -> States!State \cup {"none"}] /\ "none" \notin States!State
      /\ assignment \in [Tasks -> [Attempt -> OPEN \cup {"none", "over"}]]
  BY TreeNames DEF TreeTypeOK
<1>2. CASE Projects(t, target)
  <2>1. /\ state' = [state EXCEPT ![t] = target]
        /\ assignment' = [assignment EXCEPT ![t][a] = written]
    BY <1>2 DEF ProjectRun
  <2> QED BY <1>1, <2>1 DEF HasRow
<1>3. CASE ~Projects(t, target)
  BY <1>3 DEF ProjectRun, HasRow
<1> QED BY <1>2, <1>3

LEMMA EndedNone ==
  ASSUME NEW t \in Tasks, NEW a \in Attempt
  PROVE  Ended(t, a) = "none" => assignment[t][a] = "none"
BY DEF Ended

\* A call of a tool moves only the worker's own counters.
LEMMA TurnKeeps ==
  ASSUME TreeTypeOK, TreeTypeOK', TreeInv, NEW t \in Tasks, NEW a \in Attempt,
         NEW pc \in {"turn", "delegating"}, CallsLeft(t, a), Spend(t, a, pc),
         UNCHANGED <<runState, usage>>,
         \A x \in Tasks : HasRow(x) => HasRow(x)',
         \A x \in Tasks, y \in Attempt : assignment'[x][y] = "none" => assignment[x][y] = "none"
  PROVE  /\ \A x \in Tasks, y \in Attempt : PairOK(x, y)'
         /\ \A x \in Tasks, y \in Attempt :
              executor[x][y].pc = "delegating" => executor'[x][y].pc = "delegating"
         /\ HasRow(t)
         /\ \A y \in Attempt : y # a => executor'[t][y] = executor[t][y]
         /\ executor[t][a].pc = "turn" /\ executor'[t][a].pc = pc
<1>1. executor[t][a].pc = "turn" /\ executor \in [Tasks -> [Attempt ->
         [pc : {"off", "turn", "delegating", "reported"}, tokens : 0..MaxCalls]]]
  BY DEF CallsLeft, Executing, TreeTypeOK
<1>2. executor' = [executor EXCEPT ![t][a] = [pc |-> pc, tokens |-> @.tokens + 1]]
  BY DEF Spend
<1>3. \A x \in Tasks, y \in Attempt : executor'[x][y].pc = executor[x][y].pc
                                        \/ (x = t /\ y = a /\ executor'[x][y].pc = pc)
  BY <1>1, <1>2
<1>4. executor'[t][a].pc = pc /\ \A y \in Attempt : y # a => executor'[t][y] = executor[t][y]
  BY <1>1, <1>2
<1>5. PairOK(t, a)
  BY DEF TreeInv
<1>6. HasRow(t)
  BY <1>1, <1>5 DEF PairOK
<1>7. ASSUME NEW x \in Tasks, NEW y \in Attempt
      PROVE  PairOK(x, y)'
  <2>1. PairOK(x, y)
    BY DEF TreeInv
  <2>2. executor'[x][y].pc # "off" => executor[x][y].pc # "off"
    BY <1>1, <1>3
  <2> QED BY <2>1, <2>2 DEF PairOK
<1> QED BY <1>1, <1>3, <1>4, <1>6, <1>7

LEMMA TreeInvTool ==
  ASSUME TreeTypeOK, TreeTypeOK', TreeInv, NEW t \in Tasks, NEW a \in Attempt, Tool(t, a)
  PROVE  TreeInv'
<1> USE DEF CallsTask, Calls
<1>0. "none" \notin States!State /\ state \in [Tasks -> States!State \cup {"none"}]
      /\ assignment \in [Tasks -> [Attempt -> OPEN \cup {"none", "over"}]]
      /\ asking \in [Tasks -> SUBSET (Attempt \X Budgets)]
  BY TreeNames DEF TreeTypeOK
<1>1. CASE ToolDenied(t, a)
  <2>1. CallsLeft(t, a) /\ Spend(t, a, "turn")
    BY <1>1 DEF ToolDenied
  <2>2. UNCHANGED <<rows, state, assignment, runState, usage, asking, overlapped, faults>>
    BY <1>1 DEF ToolDenied
  <2> QED BY <2>1, <2>2, TurnKeeps, RowsStay DEF rows, HasRow
<1>2. CASE SubmitResult(t, a)
  <2>1. /\ CallsLeft(t, a) /\ Spend(t, a, "turn")
        /\ UNCHANGED <<rows, runState, usage, asking, overlapped, faults>>
        /\ state' = [state EXCEPT ![t] = "awaiting_proposer_close"]
        /\ assignment' = [assignment EXCEPT ![t][a] = "over"]
    BY <1>2 DEF SubmitResult
  <2>2. \A x \in Tasks : HasRow(x) => HasRow(x)'
    BY <1>0, <2>1 DEF HasRow
  <2>3. \A x \in Tasks, y \in Attempt : assignment'[x][y] = "none" => assignment[x][y] = "none"
    BY <1>0, <2>1
  <2> QED BY <2>1, <2>2, <2>3, TurnKeeps, RowsStay DEF rows
<1>3. CASE AskProposer(t, a)
  <2>1. /\ CallsLeft(t, a) /\ Spend(t, a, "turn")
        /\ UNCHANGED <<rows, assignment, runState, usage, asking, overlapped, faults>>
        /\ state' = [state EXCEPT ![t] = "attention_required"]
    BY <1>3 DEF AskProposer
  <2>2. \A x \in Tasks : HasRow(x) => HasRow(x)'
    BY <1>0, <2>1 DEF HasRow
  <2> QED BY <2>1, <2>2, TurnKeeps, RowsStay DEF rows
<1>4. ASSUME NEW c \in Tasks, CollectChild(t, a, c)
      PROVE  TreeInv'
  <2>1. /\ CallsLeft(t, a) /\ Spend(t, a, "turn")
        /\ UNCHANGED <<rows, state, assignment, runState, usage, asking, overlapped, faults>>
    BY <1>4 DEF CollectChild
  <2> QED BY <2>1, TurnKeeps, RowsStay DEF rows, HasRow
<1>5. ASSUME NEW c \in Tasks, CloseChild(t, a, c)
      PROVE  TreeInv'
  <2>1. /\ CallsLeft(t, a) /\ Spend(t, a, "turn")
        /\ UNCHANGED <<rows, assignment, runState, usage, asking, overlapped, faults>>
        /\ state' = [state EXCEPT ![c] = "closed"]
    BY <1>5 DEF CloseChild
  <2>2. \A x \in Tasks : HasRow(x) => HasRow(x)'
    BY <1>0, <2>1 DEF HasRow
  <2> QED BY <2>1, <2>2, TurnKeeps, RowsStay DEF rows
<1>6. ASSUME NEW b \in Budgets, AdmitDelegation(t, a, b)
      PROVE  TreeInv'
  <2>1. /\ CallsLeft(t, a) /\ Spend(t, a, "delegating")
        /\ UNCHANGED <<rows, state, assignment, runState, usage, faults>>
        /\ asking' = [asking EXCEPT ![t] = @ \cup {<<a, b>>}]
    BY <1>6 DEF AdmitDelegation
  <2>2. /\ \A x \in Tasks, y \in Attempt : PairOK(x, y)'
        /\ \A x \in Tasks, y \in Attempt :
              executor[x][y].pc = "delegating" => executor'[x][y].pc = "delegating"
        /\ HasRow(t) /\ executor[t][a].pc = "turn" /\ executor'[t][a].pc = "delegating"
    BY <2>1, TurnKeeps DEF HasRow
  <2> SUFFICES ASSUME NEW x \in Tasks PROVE RowOK(x)'
    BY <2>2 DEF TreeInv
  <2>3. RowOK(x) /\ RowOK(t)
    BY DEF TreeInv
  <2>4. (HasRow(x) <=> HasRow(x)') /\ (parent[x] # NoTask => HasRow(parent[x]))'
    BY <2>1, <2>3 DEF RowOK, HasRow, rows
  <2>5. CASE x # t
    <3>1. asking'[x] = asking[x] /\ asking[x] \subseteq Attempt \X Budgets
      BY <1>0, <2>1, <2>5
    <3>2. ASSUME NEW p \in asking[x] PROVE executor'[x][p[1]].pc = "delegating"
      BY <2>2, <2>3, <3>1 DEF RowOK
    <3> QED BY <2>1, <2>3, <2>4, <3>1, <3>2 DEF RowOK, rows
  <2>6. CASE x = t
    <3>1. asking'[x] = asking[x] \cup {<<a, b>>} /\ asking[x] \subseteq Attempt \X Budgets
      BY <1>0, <2>1, <2>6
    <3>2. ASSUME NEW p \in asking[x] PROVE executor'[x][p[1]].pc = "delegating" /\ p[1] # a
      BY <2>2, <2>3, <2>6, <3>1 DEF RowOK
    <3>3. \A p \in asking'[x] : executor'[x][p[1]].pc = "delegating"
      BY <2>2, <2>6, <3>1, <3>2
    <3>4. \A p, q \in asking'[x] : p[1] = q[1] => p = q
      BY <2>3, <3>1, <3>2 DEF RowOK
    <3> QED BY <2>2, <2>4, <2>6, <3>3, <3>4 DEF RowOK
  <2> QED BY <2>5, <2>6
<1> QED BY <1>1, <1>2, <1>3, <1>4, <1>5, <1>6 DEF Tool

LEMMA TreeInvExecution ==
  ASSUME TreeTypeOK, TreeTypeOK', TreeInv, NEW t \in Tasks, NEW a \in Attempt, Execution(t, a)
  PROVE  TreeInv'
<1>0. /\ "none" \notin States!State /\ state \in [Tasks -> States!State \cup {"none"}]
      /\ assignment \in [Tasks -> [Attempt -> OPEN \cup {"none", "over"}]]
      /\ runState \in [Tasks -> [Attempt -> UNFINISHED \cup {"none", "completed", "failed", "cancelled"}]]
      /\ usage \in [Tasks -> [Attempt -> 0..MaxTokens]]
      /\ executor \in [Tasks -> [Attempt ->
           [pc : {"off", "turn", "delegating", "reported"}, tokens : 0..MaxCalls]]]
      /\ asking \in [Tasks -> SUBSET (Attempt \X Budgets)]
  BY TreeNames DEF TreeTypeOK
<1>1. /\ PairOK(t, a) /\ RowOK(t)
      /\ \A x \in Tasks, y \in Attempt : PairOK(x, y)
  BY DEF TreeInv
<1>2. CASE Start(t, a)
  <2>1. /\ executor[t][a].pc = "off" /\ runState[t][a] \in UNFINISHED
        /\ runState' = [runState EXCEPT ![t][a] = "running"]
        /\ executor' = [executor EXCEPT ![t][a] = [pc |-> "turn", tokens |-> 0]]
        /\ UNCHANGED <<rows, usage, calls, asking, overlapped, faults>>
    BY <1>2 DEF Start
  <2>2. HasRow(t)
    BY <1>1, <2>1 DEF PairOK, UNFINISHED
  <2>3. /\ \A x \in Tasks : HasRow(x) <=> HasRow(x)'
        /\ \A x \in Tasks, y \in Attempt : assignment'[x][y] = "none" => assignment[x][y] = "none"
    <3>1. "in_progress" \in States!State
      BY TreeNames
    <3> DEFINE written == IF assignment[t][a] = "assigned" THEN "accepted" ELSE assignment[t][a]
    <3>2. (written = "none" => assignment[t][a] = "none") /\ ProjectRun(t, a, "in_progress", written)
      BY <1>2 DEF Start
    <3> HIDE DEF written
    <3> QED BY <2>2, <3>1, <3>2, ProjectRunKeeps
  <2>4. /\ runState'[t][a] = "running" /\ executor'[t][a].pc = "turn"
        /\ \A x \in Tasks, y \in Attempt : (x # t \/ y # a) =>
              runState'[x][y] = runState[x][y] /\ executor'[x][y] = executor[x][y]
    BY <1>0, <2>1
  <2>5. assignment[t][a] # "none"
    BY <1>1, <2>1 DEF PairOK, UNFINISHED
  <2>6. ASSUME NEW x \in Tasks, NEW y \in Attempt PROVE PairOK(x, y)'
    <3>1. PairOK(x, y)
      BY <1>1
    <3>2. CASE x = t /\ y = a
      BY <2>2, <2>3, <2>4, <2>5, <3>2 DEF PairOK
    <3>3. CASE x # t \/ y # a
      BY <2>1, <2>3, <2>4, <3>1, <3>3 DEF PairOK
    <3> QED BY <3>2, <3>3
  <2>7. \A x \in Tasks, y \in Attempt :
          executor[x][y].pc = "delegating" => executor'[x][y].pc = "delegating"
    BY <2>1, <2>4
  <2> QED BY <2>1, <2>3, <2>6, <2>7, RowsStay DEF rows
<1>3. CASE ReportUsage(t, a)
  <2>1. /\ executor[t][a].pc = "turn"
        /\ usage' = [usage EXCEPT ![t][a] = executor[t][a].tokens + 1]
        /\ executor' = [executor EXCEPT ![t][a] = [pc |-> "reported", tokens |-> 0]]
        /\ UNCHANGED <<rows, assignment, runState, calls, asking, overlapped, faults>>
    BY <1>3 DEF ReportUsage, Executing, StoreUsage
  <2>2. HasRow(t)
    BY <1>1, <2>1 DEF PairOK
  <2>3. \A x \in Tasks : HasRow(x) <=> HasRow(x)'
    BY <1>0, <1>3, <2>2, TreeNames DEF ReportUsage, HasRow
  <2>4. /\ executor'[t][a].pc = "reported"
        /\ \A x \in Tasks, y \in Attempt : (x # t \/ y # a) =>
              usage'[x][y] = usage[x][y] /\ executor'[x][y] = executor[x][y]
    BY <1>0, <2>1
  <2>5. ASSUME NEW x \in Tasks, NEW y \in Attempt PROVE PairOK(x, y)'
    <3>1. PairOK(x, y)
      BY <1>1
    <3>2. CASE x = t /\ y = a
      BY <2>1, <2>2, <2>3, <2>4, <3>1, <3>2 DEF PairOK
    <3>3. CASE x # t \/ y # a
      BY <2>1, <2>3, <2>4, <3>1, <3>3 DEF PairOK
    <3> QED BY <3>2, <3>3
  <2>6. \A x \in Tasks, y \in Attempt :
          executor[x][y].pc = "delegating" => executor'[x][y].pc = "delegating"
    BY <2>1, <2>4
  <2> QED BY <2>1, <2>3, <2>5, <2>6, RowsStay DEF rows
\* The worker leaves the run, and the run may end with it.
<1>4. ASSUME Leave(t, a), UNCHANGED <<rows, usage, overlapped>>,
             runState' = [runState EXCEPT ![t][a] = IF @ = "running" THEN "completed" ELSE @]
               \/ runState' = [runState EXCEPT ![t][a] = IF @ = "running" THEN "failed" ELSE @]
               \/ runState' = runState,
             \A x \in Tasks : HasRow(x) <=> HasRow(x)',
             \A x \in Tasks, y \in Attempt : assignment'[x][y] = "none" => assignment[x][y] = "none",
             executor[t][a].pc # "off",
             \/ executor[t][a].pc # "delegating" /\ UNCHANGED asking
             \/ asking' = [asking EXCEPT ![t] = {x \in @ : x[1] # a}]
      PROVE  TreeInv'
  <2>1. /\ executor'[t][a].pc = "off"
        /\ \A x \in Tasks, y \in Attempt : (x # t \/ y # a) => executor'[x][y] = executor[x][y]
    BY <1>0, <1>4 DEF Leave, Off
  <2>2. \A x \in Tasks, y \in Attempt :
          (x # t \/ y # a) => runState'[x][y] = runState[x][y]
    BY <1>0, <1>4
  <2>3. runState[t][a] = "none" => runState'[t][a] = "none"
    BY <1>0, <1>4
  <2>4. ASSUME NEW x \in Tasks, NEW y \in Attempt PROVE PairOK(x, y)'
    <3>1. PairOK(x, y)
      BY <1>1
    <3>2. CASE x = t /\ y = a
      BY <1>4, <2>1, <2>3, <3>1, <3>2 DEF PairOK
    <3>3. CASE x # t \/ y # a
      BY <1>4, <2>1, <2>2, <3>1, <3>3 DEF PairOK
    <3> QED BY <3>2, <3>3
  <2>5. \A x \in Tasks, y \in Attempt :
          executor[x][y].pc = "delegating" => executor'[x][y].pc = "delegating"
             \/ \A p \in asking'[x] : p[1] # y
    <3> SUFFICES ASSUME NEW x \in Tasks, NEW y \in Attempt, executor[x][y].pc = "delegating"
                 PROVE  executor'[x][y].pc = "delegating" \/ \A p \in asking'[x] : p[1] # y
      OBVIOUS
    <3>1. CASE x = t /\ y = a
      BY <1>0, <1>4, <3>1
    <3>2. CASE x # t \/ y # a
      BY <2>1, <3>2
    <3> QED BY <3>1, <3>2
  <2>6. ASSUME NEW x \in Tasks
        PROVE  asking'[x] = asking[x] \/ (asking'[x] \subseteq asking[x]
                 /\ \A p \in asking'[x] : executor'[x][p[1]] = executor[x][p[1]])
    <3>1. CASE UNCHANGED asking
      BY <3>1
    <3>2. CASE asking' = [asking EXCEPT ![t] = {z \in @ : z[1] # a}]
      <4>1. CASE x # t
        BY <1>0, <3>2, <4>1
      <4>2. CASE x = t
        <5>1. asking'[x] = {z \in asking[x] : z[1] # a} /\ asking[x] \subseteq Attempt \X Budgets
          BY <1>0, <3>2, <4>2
        <5>2. \A p \in asking'[x] : p[1] \in Attempt /\ p[1] # a
          BY <5>1
        <5> QED BY <2>1, <5>1, <5>2
      <4> QED BY <4>1, <4>2
    <3> QED BY <1>4, <3>1, <3>2
  <2> QED BY <1>4, <2>4, <2>5, <2>6, RowsStay DEF rows
<1>5. ASSUME UNCHANGED <<state, assignment>>
      PROVE  /\ \A x \in Tasks : HasRow(x) <=> HasRow(x)'
             /\ \A x \in Tasks, y \in Attempt : assignment'[x][y] = "none" => assignment[x][y] = "none"
  BY <1>5 DEF HasRow
<1>6. CASE CompleteAttempt(t, a)
  BY <1>4, <1>5, <1>6 DEF CompleteAttempt
<1>7. CASE FailAttempt(t, a)
  <2>1. /\ executor[t][a].pc = "turn" /\ Leave(t, a)
        /\ ProjectRun(t, a, "attention_required", Ended(t, a))
        /\ UNCHANGED <<rows, usage, calls, asking, overlapped, faults>>
        /\ runState' = [runState EXCEPT ![t][a] = IF @ = "running" THEN "failed" ELSE @]
    BY <1>7 DEF FailAttempt, Executing
  <2>2. HasRow(t) /\ "attention_required" \in States!State
    BY <1>1, <2>1, TreeNames DEF PairOK
  <2>3. /\ \A x \in Tasks : HasRow(x) <=> HasRow(x)'
        /\ \A x \in Tasks, y \in Attempt : assignment'[x][y] = "none" => assignment[x][y] = "none"
    BY <2>1, <2>2, EndedNone, ProjectRunKeeps
  <2> QED BY <1>4, <2>1, <2>3
<1>8. CASE NoticeCancelled(t, a)
  BY <1>4, <1>5, <1>8 DEF NoticeCancelled, Executing
<1>9. CASE WorkerDies(t, a)
  BY <1>4, <1>5, <1>9 DEF WorkerDies
<1> QED BY <1>2, <1>3, <1>6, <1>7, <1>8, <1>9 DEF Execution

\* The first run of a task that gets its row, or the next run of one that has it.
LEMMA AdmittedPairs ==
  ASSUME TreeTypeOK, TreeTypeOK', TreeInv, NEW t \in Tasks, NEW a \in Attempt, NEW admitted,
         AdmitRun(t, a, admitted), assignment[t][a] = "none", assignment'[t][a] = "assigned",
         HasRow(t)', \A x \in Tasks : HasRow(x) => HasRow(x)',
         \A x \in Tasks, y \in Attempt : assignment'[x][y] = "none" => assignment[x][y] = "none",
         \A x \in Tasks, y \in Attempt : executor'[x][y].pc # "off" => executor[x][y].pc # "off",
         UNCHANGED usage
  PROVE  \A x \in Tasks, y \in Attempt : PairOK(x, y)'
<1>1. runState \in [Tasks -> [Attempt -> UNFINISHED \cup {"none", "completed", "failed", "cancelled"}]]
  BY DEF TreeTypeOK
<1>2. \A x \in Tasks, y \in Attempt : (x # t \/ y # a) => runState'[x][y] = runState[x][y]
  BY <1>1 DEF AdmitRun
<1>3. \A x \in Tasks, y \in Attempt : PairOK(x, y)
  BY DEF TreeInv
<1> SUFFICES ASSUME NEW x \in Tasks, NEW y \in Attempt PROVE PairOK(x, y)'
  OBVIOUS
<1>4. CASE x = t /\ y = a
  <2>1. executor[t][a].pc = "off"
    BY <1>3 DEF PairOK
  <2>2. executor'[t][a].pc = "off"
    BY <2>1
  <2> QED BY <1>4, <2>2 DEF PairOK
<1>5. CASE x # t \/ y # a
  BY <1>2, <1>3, <1>5 DEF PairOK
<1> QED BY <1>4, <1>5

LEMMA TreeInvProposer ==
  ASSUME TreeTypeOK, TreeTypeOK', TreeInv, NEW t \in Tasks, Proposer(t)
  PROVE  TreeInv'
<1>0. /\ "none" \notin States!State /\ state \in [Tasks -> States!State \cup {"none"}]
      /\ assignment \in [Tasks -> [Attempt -> OPEN \cup {"none", "over"}]]
      /\ runState \in [Tasks -> [Attempt -> UNFINISHED \cup {"none", "completed", "failed", "cancelled"}]]
  BY TreeNames DEF TreeTypeOK
<1>1. \A x \in Tasks, y \in Attempt : PairOK(x, y)
  BY DEF TreeInv
<1>2. ASSUME NEW b \in Budgets, CreateTask(t, b)
      PROVE  TreeInv'
  <2>1. /\ ~HasRow(t)
        /\ state' = [state EXCEPT ![t] = "assigned"]
        /\ assignment' = [assignment EXCEPT ![t][1] = "assigned"]
        /\ AdmitRun(t, 1, TRUE)
        /\ UNCHANGED <<parent, usage, calls, executor, asking, overlapped, faults>>
    BY <1>2 DEF CreateTask
  <2>2. HasRow(t)' /\ \A x \in Tasks : HasRow(x) => HasRow(x)'
    BY <1>0, <2>1 DEF HasRow
  <2>3. /\ \A x \in Tasks, y \in Attempt : assignment'[x][y] = "none" => assignment[x][y] = "none"
        /\ assignment'[t][1] = "assigned"
    BY <1>0, <2>1, TreeNames
  <2>4. ASSUME NEW x \in Tasks, NEW y \in Attempt
        PROVE  PairOK(x, y)'
    <3>1. PairOK(x, y)
      BY <1>1
    <3>2. CASE x # t
      <4>1. runState'[x][y] = runState[x][y]
        BY <1>0, <2>1, <3>2 DEF AdmitRun
      <4> QED BY <2>1, <2>2, <2>3, <3>1, <4>1 DEF PairOK
    <3>3. CASE x = t
      <4>1. executor[x][y].pc = "off" /\ runState[x][y] = "none" 
        BY <2>1, <3>1, <3>3 DEF PairOK
      <4>2. CASE y = 1
        BY <2>1, <2>2, <2>3, <3>3, <4>1, <4>2 DEF PairOK
      <4>3. CASE y # 1
        <5>1. runState'[x][y] = runState[x][y]
          BY <1>0, <2>1, <3>3, <4>3 DEF AdmitRun
        <5> QED BY <2>1, <2>2, <3>3, <4>1, <5>1 DEF PairOK
      <4> QED BY <4>2, <4>3
    <3> QED BY <3>2, <3>3
  <2> QED BY <2>1, <2>2, <2>4, RowsStay
<1>3. ASSUME NEW target \in {"closed", "cancelled"}, EndTask(t, target)
      PROVE  TreeInv'
  <2>1. /\ UNCHANGED <<rows, assignment, runState, usage, calls, executor, asking, overlapped, faults>>
        /\ state' = [state EXCEPT ![t] = target]
    BY <1>3 DEF EndTask
  <2>2. \A x \in Tasks : HasRow(x) => HasRow(x)'
    BY <1>0, <2>1 DEF HasRow
  <2>3. \A x \in Tasks, y \in Attempt : PairOK(x, y)'
    BY <1>1, <2>1, <2>2 DEF PairOK
  <2> QED BY <2>1, <2>2, <2>3, RowsStay DEF rows
<1>4. ASSUME NEW a \in Attempt, Reopen(t, a)
      PROVE  TreeInv'
  <2>1. /\ state[t] \in {"awaiting_proposer_close", "attention_required"} /\ assignment[t][a] = "none"
        /\ state' = [state EXCEPT ![t] = "assigned"]
        /\ assignment' = [assignment EXCEPT ![t] = [SupersededIn(t) EXCEPT ![a] = "assigned"]]
        /\ AdmitRun(t, a, ~BudgetError(t, 1))
        /\ UNCHANGED <<rows, usage, calls, executor, asking, overlapped, faults>>
    BY <1>4 DEF Reopen
  <2>2. HasRow(t)' /\ \A x \in Tasks : HasRow(x) => HasRow(x)'
    BY <1>0, <2>1 DEF HasRow
  <2>3. assignment'[t] = [SupersededIn(t) EXCEPT ![a] = "assigned"]
        /\ \A x \in Tasks : x # t => assignment'[x] = assignment[x]
    BY <1>0, <2>1
  <2>4. assignment'[t][a] = "assigned" /\ \A y \in Attempt : y # a => assignment'[t][y] = Ended(t, y)
    BY <2>3 DEF SupersededIn
  <2>5. \A x \in Tasks, y \in Attempt : assignment'[x][y] = "none" => assignment[x][y] = "none"
    <3> SUFFICES ASSUME NEW x \in Tasks, NEW y \in Attempt, assignment'[x][y] = "none"
                 PROVE  assignment[x][y] = "none"
      OBVIOUS
    <3>1. CASE x # t
      BY <2>3, <3>1
    <3>2. CASE x = t
      <4>1. y # a /\ Ended(t, y) = "none"
        BY <2>4, <3>2
      <4> QED BY <3>2, <4>1, EndedNone
    <3> QED BY <3>1, <3>2
  <2>6. \A x \in Tasks, y \in Attempt : PairOK(x, y)'
    BY <2>1, <2>2, <2>4, <2>5, AdmittedPairs
  <2> QED BY <2>1, <2>2, <2>6, RowsStay DEF rows
<1>5. ASSUME NEW a \in Attempt, CancelAttempt(t, a)
      PROVE  TreeInv'
  <2>1. /\ runState[t][a] \in UNFINISHED
        /\ runState' = [runState EXCEPT ![t][a] = "cancelled"]
        /\ ProjectRun(t, a, "attention_required", Ended(t, a))
        /\ UNCHANGED <<rows, usage, calls, executor, asking, overlapped, faults>>
    BY <1>5 DEF CancelAttempt
  <2>2. HasRow(t) /\ assignment[t][a] # "none"
    BY <1>1, <2>1 DEF PairOK, UNFINISHED
  <2>3. /\ \A x \in Tasks : HasRow(x) <=> HasRow(x)'
        /\ \A x \in Tasks, y \in Attempt : assignment'[x][y] = "none" => assignment[x][y] = "none"
    <3>1. "attention_required" \in States!State
      BY TreeNames
    <3> QED BY <2>1, <2>2, <3>1, EndedNone, ProjectRunKeeps
  <2>4. /\ runState'[t][a] = "cancelled"
        /\ \A x \in Tasks, y \in Attempt : (x # t \/ y # a) => runState'[x][y] = runState[x][y]
    BY <1>0, <2>1
  <2>5. ASSUME NEW x \in Tasks, NEW y \in Attempt PROVE PairOK(x, y)'
    <3>1. PairOK(x, y)
      BY <1>1
    <3>2. CASE x = t /\ y = a
      BY <2>1, <2>2, <2>3, <2>4, <3>2 DEF PairOK
    <3>3. CASE x # t \/ y # a
      BY <2>1, <2>3, <2>4, <3>1, <3>3 DEF PairOK
    <3> QED BY <3>2, <3>3
  <2> QED BY <2>1, <2>3, <2>5, RowsStay DEF rows
<1> QED BY <1>2, <1>3, <1>4, <1>5 DEF Proposer

LEMMA TreeInvWrite ==
  ASSUME TreeTypeOK, TreeTypeOK', TreeInv, NEW t \in Tasks, NEW c \in Tasks, WriteDelegation(t, c)
  PROVE  TreeInv'
<1>0. /\ "none" \notin States!State /\ state \in [Tasks -> States!State \cup {"none"}]
      /\ assignment \in [Tasks -> [Attempt -> OPEN \cup {"none", "over"}]]
      /\ runState \in [Tasks -> [Attempt -> UNFINISHED \cup {"none", "completed", "failed", "cancelled"}]]
      /\ executor \in [Tasks -> [Attempt ->
           [pc : {"off", "turn", "delegating", "reported"}, tokens : 0..MaxCalls]]]
      /\ asking \in [Tasks -> SUBSET (Attempt \X Budgets)]
      /\ parent \in [Tasks -> Tasks \cup {NoTask}]
  BY TreeNames DEF TreeTypeOK
<1>1. PICK a \in Attempt, b \in Budgets :
        /\ <<a, b>> \in asking[t] /\ ~HasRow(c)
        /\ parent' = [parent EXCEPT ![c] = t]
        /\ state' = [state EXCEPT ![c] = "assigned"]
        /\ assignment' = [assignment EXCEPT ![c][1] = "assigned"]
        /\ AdmitRun(c, 1, TRUE)
        /\ asking' = [asking EXCEPT ![t] = @ \ {<<a, b>>}]
        /\ executor' = [executor EXCEPT ![t][a].pc = "turn"]
        /\ UNCHANGED usage
  BY DEF WriteDelegation
<1>2. \A x \in Tasks : RowOK(x) /\ \A y \in Attempt : PairOK(x, y)
  BY DEF TreeInv
<1>3. HasRow(t) /\ c # t /\ executor[t][a].pc = "delegating"
  BY <1>1, <1>2 DEF RowOK
<1>4. HasRow(c)' /\ \A x \in Tasks : HasRow(x) => HasRow(x)'
  BY <1>0, <1>1 DEF HasRow
<1>5. /\ \A x \in Tasks, y \in Attempt : assignment'[x][y] = "none" => assignment[x][y] = "none"
      /\ assignment'[c][1] = "assigned"
  BY <1>0, <1>1, TreeNames
<1>6. /\ \A x \in Tasks, y \in Attempt : (x # t \/ y # a) => executor'[x][y] = executor[x][y]
      /\ executor'[t][a].pc = "turn"
  BY <1>0, <1>1
<1>7. ASSUME NEW x \in Tasks, NEW y \in Attempt
      PROVE  PairOK(x, y)'
  <2>1. PairOK(x, y)
    BY <1>2
  <2>2. CASE x # c
    <3>1. runState'[x][y] = runState[x][y]
      BY <1>0, <1>1, <2>2 DEF AdmitRun
    <3>2. executor'[x][y].pc # "off" => executor[x][y].pc # "off"
      BY <1>3, <1>6
    <3> QED BY <1>1, <1>4, <1>5, <2>1, <3>1, <3>2 DEF PairOK
  <2>3. CASE x = c
    <3>1. executor[x][y].pc = "off" /\ runState[x][y] = "none" /\ executor'[x][y] = executor[x][y]
      BY <1>1, <1>3, <1>6, <2>1, <2>3 DEF PairOK
    <3>2. CASE y = 1
      BY <1>1, <1>4, <1>5, <2>3, <3>1, <3>2 DEF PairOK
    <3>3. CASE y # 1
      <4>1. runState'[x][y] = runState[x][y]
        BY <1>0, <1>1, <2>3, <3>3 DEF AdmitRun
      <4> QED BY <1>1, <1>4, <2>3, <3>1, <4>1 DEF PairOK
    <3> QED BY <3>2, <3>3
  <2> QED BY <2>2, <2>3
<1>8. ASSUME NEW x \in Tasks
      PROVE  RowOK(x)'
  <2>1. RowOK(x) /\ asking[x] \subseteq Attempt \X Budgets
    BY <1>0, <1>2
  <2>2. asking'[x] \subseteq asking[x]
    BY <1>0, <1>1
  <2>3. (~HasRow(x) => parent[x] = NoTask /\ asking[x] = {})'
    <3>1. CASE x = c
      BY <1>4, <3>1
    <3>2. CASE x # c
      BY <1>0, <1>1, <1>4, <2>1, <2>2, <3>2 DEF RowOK
    <3> QED BY <3>1, <3>2
  <2>4. (parent[x] # NoTask => HasRow(parent[x]))'
    <3>1. CASE x = c
      <4>1. parent'[x] = t /\ state'[t] # "none"
        BY <1>0, <1>1, <1>3, <1>4, <3>1 DEF HasRow
      <4> QED BY <4>1 DEF HasRow
    <3>2. CASE x # c
      <4>1. parent'[x] = parent[x] /\ parent[x] \in Tasks \cup {NoTask}
        BY <1>0, <1>1, <3>2
      <4> QED BY <1>4, <2>1, <4>1 DEF RowOK, HasRow
    <3> QED BY <3>1, <3>2
  <2>5. ASSUME NEW p \in asking'[x]
        PROVE  executor'[x][p[1]].pc = "delegating"
    <3>1. p \in asking[x] /\ p[1] \in Attempt /\ executor[x][p[1]].pc = "delegating"
      BY <2>1, <2>2 DEF RowOK
    <3>2. x # t \/ p[1] # a
      <4> SUFFICES ASSUME x = t PROVE p[1] # a
        OBVIOUS
      <4>1. p # <<a, b>>
        BY <1>0, <1>1
      <4>2. <<a, b>>[1] = a /\ <<a, b>> \in asking[x]
        BY <1>1
      <4> QED BY <2>1, <3>1, <4>1, <4>2 DEF RowOK
    <3> QED BY <1>6, <3>1, <3>2
  <2>6. \A p, q \in asking'[x] : p[1] = q[1] => p = q
    BY <2>1, <2>2 DEF RowOK
  <2> QED BY <2>3, <2>4, <2>5, <2>6 DEF RowOK
<1> QED BY <1>7, <1>8 DEF TreeInv

LEMMA TreeInvStep == TreeTypeOK /\ TreeTypeOK' /\ TreeInv /\ [TreeNext]_treeVars => TreeInv'
<1> SUFFICES ASSUME TreeTypeOK, TreeTypeOK', TreeInv, [TreeNext]_treeVars PROVE TreeInv' OBVIOUS
<1>1. CASE UNCHANGED treeVars
  BY <1>1 DEF treeVars, rows, TreeInv, RowOK, PairOK, HasRow
<1>2. CASE TreeNext
  BY <1>2, TreeInvProposer, TreeInvTool, TreeInvExecution, TreeInvWrite DEF TreeNext
<1> QED BY <1>1, <1>2

-----------------------------------------------------------------------------
(* Sums as cardinalities *)

Pairs(S, n) == UNION {{x} \X (1..n[x]) : x \in S}

LEMMA PairsIn ==
  ASSUME NEW S, NEW n, NEW p
  PROVE  p \in Pairs(S, n) <=> \E x \in S : \E i \in 1..n[x] : p = <<x, i>>
BY DEF Pairs

LEMMA RowOfPairs ==
  ASSUME NEW x, NEW m \in Nat
  PROVE  IsFiniteSet({x} \X (1..m)) /\ Cardinality({x} \X (1..m)) = m
<1>1. IsFiniteSet({x}) /\ Cardinality({x}) = 1
  BY FS_Singleton, Zenon
<1>2. IsFiniteSet(1..m) /\ Cardinality(1..m) = m
  <2>1. IsFiniteSet(1..m) /\ Cardinality(1..m) = IF 1 > m THEN 0 ELSE m - 1 + 1
    BY FS_Interval
  <2> QED BY <2>1
<1>3. IsFiniteSet({x} \X (1..m)) /\ Cardinality({x} \X (1..m)) = Cardinality({x}) * Cardinality(1..m)
  BY <1>1, <1>2, FS_Product
<1> QED BY <1>1, <1>2, <1>3

\* One more summand.
LEMMA SumWithOneMore ==
  ASSUME NEW S, NEW c, c \notin S, NEW n, NEW k, \A x \in S : k[x] = n[x], k[c] \in Nat,
         IsFiniteSet(Pairs(S, n))
  PROVE  /\ IsFiniteSet(Pairs(S \cup {c}, k))
         /\ SumOver(S, n) \in Nat
         /\ SumOver(S \cup {c}, k) = SumOver(S, n) + k[c]
<1> DEFINE R == {c} \X (1..k[c])
<1>1. IsFiniteSet(R) /\ Cardinality(R) = k[c]
  BY RowOfPairs
<1>2. Pairs(S \cup {c}, k) = Pairs(S, n) \cup R
  <2>1. ASSUME NEW p PROVE p \in Pairs(S \cup {c}, k) <=> p \in Pairs(S, n) \cup R
    <3>1. p \in R <=> \E i \in 1..k[c] : p = <<c, i>>
      OBVIOUS
    <3>2. p \in Pairs(S, n) <=> \E x \in S : \E i \in 1..n[x] : p = <<x, i>>
      BY PairsIn
    <3>3. p \in Pairs(S \cup {c}, k) <=> \E x \in S \cup {c} : \E i \in 1..k[x] : p = <<x, i>>
      BY PairsIn
    <3> QED BY <3>1, <3>2, <3>3
  <2> QED BY <2>1
<1>3. Pairs(S, n) \cap R = {}
  <2> SUFFICES ASSUME NEW p \in Pairs(S, n), p \in R PROVE FALSE
    OBVIOUS
  <2>1. PICK x \in S : \E i \in 1..n[x] : p = <<x, i>>
    BY PairsIn
  <2> QED BY <2>1
<1> HIDE DEF R
<1>4. /\ IsFiniteSet(Pairs(S, n) \cup R)
      /\ Cardinality(Pairs(S, n) \cup R)
           = Cardinality(Pairs(S, n)) + Cardinality(R) - Cardinality(Pairs(S, n) \cap R)
  BY <1>1, FS_Union
<1>5. Cardinality(Pairs(S, n)) \in Nat /\ Cardinality(Pairs(S, n) \cap R) = 0
  BY <1>3, FS_CardinalityType, FS_EmptySet
<1>6. SumOver(S, n) = Cardinality(Pairs(S, n)) /\ SumOver(S \cup {c}, k) = Cardinality(Pairs(S \cup {c}, k))
  BY DEF SumOver, Pairs
<1>7. IsFiniteSet(Pairs(S \cup {c}, k))
  BY <1>2, <1>4
<1>8. SumOver(S \cup {c}, k) = Cardinality(Pairs(S, n) \cup R)
  BY <1>2, <1>6
<1>9. Cardinality(Pairs(S, n) \cup R) = Cardinality(Pairs(S, n)) + k[c]
  <2> DEFINE s == Cardinality(Pairs(S, n) \cup R) p == Cardinality(Pairs(S, n))
             r == Cardinality(R) i == Cardinality(Pairs(S, n) \cap R)
  <2>1. s = p + r - i /\ p \in Nat /\ r = k[c] /\ i = 0
    BY <1>1, <1>4, <1>5
  <2> HIDE DEF s, p, r, i
  <2>2. s = p + k[c]
    BY <2>1
  <2> QED BY <2>2 DEF s, p
<1> QED BY <1>5, <1>6, <1>7, <1>8, <1>9

LEMMA EmptySum ==
  ASSUME NEW n
  PROVE  IsFiniteSet(Pairs({}, n)) /\ SumOver({}, n) = 0
<1>1. Pairs({}, n) = {}
  BY DEF Pairs
<1> QED BY <1>1, FS_EmptySet DEF SumOver, Pairs

LEMMA SameSum ==
  ASSUME NEW S, NEW n, NEW k, \A x \in S : n[x] = k[x]
  PROVE  Pairs(S, n) = Pairs(S, k) /\ SumOver(S, n) = SumOver(S, k)
<1>1. ASSUME NEW p PROVE p \in Pairs(S, n) <=> p \in Pairs(S, k)
  BY PairsIn
<1>2. Pairs(S, n) = Pairs(S, k)
  BY <1>1
<1> QED BY <1>2 DEF SumOver, Pairs

\* A sum whose summands are the same, or smaller.
LEMMA SumSmaller ==
  ASSUME NEW S, NEW n, NEW k, IsFiniteSet(Pairs(S, k)),
         \A x \in S : 1..n[x] \subseteq 1..k[x]
  PROVE  /\ IsFiniteSet(Pairs(S, n))
         /\ SumOver(S, n) \in Nat /\ SumOver(S, k) \in Nat
         /\ SumOver(S, n) <= SumOver(S, k)
<1>1. Pairs(S, n) \subseteq Pairs(S, k)
  <2> SUFFICES ASSUME NEW p \in Pairs(S, n) PROVE p \in Pairs(S, k)
    OBVIOUS
  <2>1. PICK x \in S : \E i \in 1..n[x] : p = <<x, i>>
    BY PairsIn
  <2> QED BY <2>1, PairsIn
<1>2. /\ IsFiniteSet(Pairs(S, n)) /\ Cardinality(Pairs(S, n)) <= Cardinality(Pairs(S, k))
  BY <1>1, FS_Subset
<1>3. Cardinality(Pairs(S, n)) \in Nat /\ Cardinality(Pairs(S, k)) \in Nat
  BY <1>2, FS_CardinalityType
<1> QED BY <1>2, <1>3 DEF SumOver, Pairs

LEMMA UnionBound ==
  ASSUME NEW P, NEW Q, NEW R, IsFiniteSet(Q), IsFiniteSet(R), P \subseteq Q \cup R
  PROVE  Cardinality(P) \in Nat /\ Cardinality(P) <= Cardinality(Q) + Cardinality(R)
<1>1. /\ IsFiniteSet(Q \cup R)
      /\ Cardinality(Q \cup R) = Cardinality(Q) + Cardinality(R) - Cardinality(Q \cap R)
  BY FS_Union
<1>2. IsFiniteSet(P) /\ Cardinality(P) <= Cardinality(Q \cup R)
  BY <1>1, FS_Subset
<1>3. IsFiniteSet(Q \cap R)
  BY FS_Intersection
<1>4. /\ Cardinality(P) \in Nat /\ Cardinality(Q) \in Nat /\ Cardinality(R) \in Nat
      /\ Cardinality(Q \cap R) \in Nat
  BY <1>2, <1>3, FS_CardinalityType
<1> QED BY <1>1, <1>2, <1>4

\* Over the attempts of a task.
LEMMA AttemptSum ==
  ASSUME NEW m \in Nat, NEW n, \A a \in Attempt : n[a] \in 0..m
  PROVE  IsFiniteSet(Pairs(Attempt, n)) /\ SumOver(Attempt, n) \in Nat
<1>1. IsFiniteSet(Attempt)
  BY FS_Interval, TreeBoundsAssumption DEF Attempt
<1>2. IsFiniteSet(1..m)
  BY FS_Interval
<1>3. IsFiniteSet(Attempt \X (1..m))
  BY <1>1, <1>2, FS_Product
<1>4. Pairs(Attempt, n) \subseteq Attempt \X (1..m)
  <2> SUFFICES ASSUME NEW p \in Pairs(Attempt, n) PROVE p \in Attempt \X (1..m)
    OBVIOUS
  <2>1. PICK x \in Attempt : \E i \in 1..n[x] : p = <<x, i>>
    BY PairsIn
  <2> QED BY <2>1
<1>5. IsFiniteSet(Pairs(Attempt, n))
  BY <1>3, <1>4, FS_Subset
<1> QED BY <1>5, FS_CardinalityType DEF SumOver, Pairs

-----------------------------------------------------------------------------
(* What the children are promised *)

PromiseOK(t) ==
  /\ IsFiniteSet(Pairs(Children(t), Shares))
  /\ \/ asking[t] = {} /\ Allocated(t) <= budget[t].tokens
     \/ \E a \in Attempt, b \in Budgets :
          asking[t] = {<<a, b>>} /\ Allocated(t) + b.tokens <= budget[t].tokens

\* What a transaction of delegate_task was admitted for is still free when it commits.
PromiseInv == \A t \in Tasks \ overlapped : PromiseOK(t)

LEMMA PromiseInit == TreeInit => PromiseInv
<1> SUFFICES ASSUME TreeInit, NEW t \in Tasks PROVE PromiseOK(t)
  BY DEF PromiseInv
<1>1. Children(t) = {}
  BY TreeNames DEF Children, TreeInit
<1>2. budget[t].tokens = 0 /\ asking[t] = {}
  BY DEF TreeInit, Nothing
<1>3. IsFiniteSet(Pairs(Children(t), Shares)) /\ Allocated(t) = 0
  BY <1>1, EmptySum DEF Allocated
<1> QED BY <1>2, <1>3 DEF PromiseOK

LEMMA SharesType ==
  ASSUME TreeTypeOK
  PROVE  \A c \in Tasks : Shares[c] \in Nat /\ Shares[c] = budget[c].tokens /\ budget[c].tokens \in Nat
BY BudgetFacts DEF TreeTypeOK, Shares

\* Nothing is promised, and no transaction begins.
LEMMA PromiseKept ==
  ASSUME TreeTypeOK, PromiseInv, UNCHANGED rows, overlapped' = overlapped,
         \A t \in Tasks : asking'[t] \subseteq asking[t]
  PROVE  PromiseInv'
<1> SUFFICES ASSUME NEW t \in Tasks \ overlapped PROVE PromiseOK(t)'
  BY DEF PromiseInv
<1>1. PromiseOK(t)
  BY DEF PromiseInv
<1>2. Children(t)' = Children(t) /\ Shares' = Shares /\ Allocated(t)' = Allocated(t) /\ budget' = budget
  BY DEF Children, Shares, Allocated, rows
<1>3. Pairs(Children(t), Shares)' = Pairs(Children(t), Shares)
  BY <1>2 DEF Pairs
<1>4. IsFiniteSet(Pairs(Children(t), Shares))'
  BY <1>1, <1>3 DEF PromiseOK
<1>5. Allocated(t) \in Nat /\ budget[t].tokens \in Nat
  BY <1>1, FS_CardinalityType, SharesType DEF PromiseOK, Allocated, SumOver, Pairs
<1>6. CASE asking[t] = {} /\ Allocated(t) <= budget[t].tokens
  BY <1>2, <1>4, <1>6 DEF PromiseOK
<1>7. ASSUME NEW a \in Attempt, NEW b \in Budgets,
             asking[t] = {<<a, b>>}, Allocated(t) + b.tokens <= budget[t].tokens
      PROVE  PromiseOK(t)'
  <2>1. asking'[t] = {} \/ asking'[t] = {<<a, b>>}
    BY <1>7
  <2>2. Allocated(t) <= budget[t].tokens
    BY <1>5, <1>7, BudgetFacts
  <2>3. CASE asking'[t] = {}
    BY <1>2, <1>4, <2>2, <2>3 DEF PromiseOK
  <2>4. CASE asking'[t] = {<<a, b>>}
    <3>1. (Allocated(t) + b.tokens <= budget[t].tokens)'
      BY <1>2, <1>7
    <3> QED BY <1>4, <2>4, <3>1 DEF PromiseOK
  <2> QED BY <2>1, <2>3, <2>4
<1> QED BY <1>1, <1>6, <1>7 DEF PromiseOK

LEMMA PromiseAdmit ==
  ASSUME TreeTypeOK, PromiseInv, NEW t \in Tasks, NEW a \in Attempt, NEW b \in Budgets,
         AdmitDelegation(t, a, b)
  PROVE  PromiseInv'
<1>1. /\ UNCHANGED rows
      /\ Used(t) + Allocated(t) + b.tokens <= budget[t].tokens
      /\ asking' = [asking EXCEPT ![t] = @ \cup {<<a, b>>}]
      /\ overlapped' = IF asking[t] = {} THEN overlapped ELSE overlapped \cup {t}
  BY DEF AdmitDelegation
<1> SUFFICES ASSUME NEW x \in Tasks, x \notin overlapped' PROVE PromiseOK(x)'
  BY DEF PromiseInv
<1>2. PromiseOK(x) /\ x \notin overlapped
  BY <1>1 DEF PromiseInv
<1>3. Children(x)' = Children(x) /\ Shares' = Shares /\ Allocated(x)' = Allocated(x) /\ budget' = budget
  BY <1>1 DEF Children, Shares, Allocated, rows
<1>4. Pairs(Children(x), Shares)' = Pairs(Children(x), Shares)
  BY <1>3 DEF Pairs
<1>5. asking \in [Tasks -> SUBSET (Attempt \X Budgets)]
  BY DEF TreeTypeOK
<1>6. CASE x # t
  <2>1. asking'[x] = asking[x]
    BY <1>1, <1>6
  <2> QED BY <1>2, <1>3, <1>4, <2>1 DEF PromiseOK
<1>7. CASE x = t
  <2>1. asking[t] = {} /\ asking'[t] = {<<a, b>>}
    BY <1>1, <1>5, <1>7
  <2>2. Used(t) \in Nat
    BY TreeNames, AttemptSum DEF TreeTypeOK, Used
  <2>3. Allocated(t) \in Nat
    BY <1>2, <1>7, FS_CardinalityType DEF PromiseOK, Allocated, SumOver, Pairs
  <2>4. b.tokens \in Nat /\ budget[t].tokens \in Nat
    BY BudgetFacts, SharesType
  <2>5. Allocated(t) + b.tokens <= budget[t].tokens
    BY <1>1, <2>2, <2>3, <2>4
  <2>6. (Allocated(t) + b.tokens <= budget[t].tokens)'
    BY <1>3, <1>7, <2>5
  <2> QED BY <1>2, <1>4, <1>7, <2>1, <2>6 DEF PromiseOK
<1> QED BY <1>6, <1>7

\* A new row changes the promises of its parent only.
LEMMA NewRow ==
  ASSUME TreeTypeOK, TreeInv, PromiseInv, NEW c \in Tasks, ~HasRow(c),
         NEW b \in Budgets, budget' = [budget EXCEPT ![c] = b],
         overlapped' = overlapped,
         NEW x \in Tasks \ overlapped, Children(x)' = Children(x), asking'[x] = asking[x]
  PROVE  PromiseOK(x)'
<1>1. \A y \in Tasks : RowOK(y)
  BY DEF TreeInv
<1>2. parent[c] = NoTask /\ NoTask \notin Tasks
  BY <1>1, TreeNames DEF RowOK
<1>3. c \notin Children(x)
  BY <1>2 DEF Children
<1>4. Shares'[c] = b.tokens /\ \A y \in Children(x) : Shares'[y] = Shares[y]
  BY <1>3 DEF Shares, Children, TreeTypeOK
<1>5. Pairs(Children(x), Shares') = Pairs(Children(x), Shares)
      /\ SumOver(Children(x), Shares') = SumOver(Children(x), Shares)
  BY <1>4, SameSum
<1>6. /\ Pairs(Children(x), Shares)' = Pairs(Children(x), Shares')
      /\ SumOver(Children(x), Shares)' = SumOver(Children(x), Shares')
  BY DEF Pairs, SumOver
<1>7. Allocated(x)' = Allocated(x) /\ Pairs(Children(x), Shares)' = Pairs(Children(x), Shares)
  BY <1>5, <1>6 DEF Allocated
<1>8. PromiseOK(x)
  BY DEF PromiseInv
<1>9. CASE x # c
  <2>1. budget'[x] = budget[x]
    BY <1>9 DEF TreeTypeOK
  <2> QED BY <1>7, <1>8, <2>1 DEF PromiseOK
<1>10. CASE x = c
  <2>1. Children(c) = {} /\ asking[c] = {}
    BY <1>1, <1>2 DEF RowOK, Children
  <2>2. Allocated(x) = 0
    BY <1>10, <2>1, EmptySum DEF Allocated
  <2>3. budget'[x].tokens \in Nat
    BY <1>10, BudgetFacts DEF TreeTypeOK
  <2>4. (asking[x] = {} /\ Allocated(x) <= budget[x].tokens)'
    BY <1>7, <1>10, <2>1, <2>2, <2>3
  <2> QED BY <1>7, <1>8, <2>4 DEF PromiseOK
<1> QED BY <1>9, <1>10

LEMMA PromiseWrite ==
  ASSUME TreeTypeOK, TreeInv, PromiseInv, NEW t \in Tasks, NEW c \in Tasks, WriteDelegation(t, c)
  PROVE  PromiseInv'
<1>1. PICK a \in Attempt, b \in Budgets :
        /\ <<a, b>> \in asking[t] /\ ~HasRow(c)
        /\ parent' = [parent EXCEPT ![c] = t]
        /\ budget' = [budget EXCEPT ![c] = b]
        /\ asking' = [asking EXCEPT ![t] = @ \ {<<a, b>>}]
        /\ UNCHANGED overlapped
  BY DEF WriteDelegation
<1>2. RowOK(t) /\ RowOK(c)
  BY DEF TreeInv
<1>3. c # t /\ parent[c] = NoTask /\ NoTask \notin Tasks
  BY <1>1, <1>2, TreeNames DEF RowOK
<1>4. /\ parent \in [Tasks -> Tasks \cup {NoTask}] /\ DOMAIN budget = Tasks
      /\ asking \in [Tasks -> SUBSET (Attempt \X Budgets)]
  BY DEF TreeTypeOK
<1> SUFFICES ASSUME NEW x \in Tasks \ overlapped PROVE PromiseOK(x)'
  BY <1>1 DEF PromiseInv
<1>5. CASE x # t
  <2>1. Children(x)' = Children(x)
    BY <1>1, <1>3, <1>4, <1>5 DEF Children
  <2>2. asking'[x] = asking[x]
    BY <1>1, <1>4, <1>5
  <2> QED BY <1>1, <2>1, <2>2, NewRow
<1>6. CASE x = t
  <2>1. Children(t)' = Children(t) \cup {c} /\ c \notin Children(t)
    BY <1>1, <1>3, <1>4 DEF Children
  <2>2. PromiseOK(t)
    BY <1>6 DEF PromiseInv
  <2>3. asking[t] = {<<a, b>>} /\ Allocated(t) + b.tokens <= budget[t].tokens
    <3>1. PICK d \in Attempt, e \in Budgets :
            asking[t] = {<<d, e>>} /\ Allocated(t) + e.tokens <= budget[t].tokens
      BY <1>1, <2>2 DEF PromiseOK
    <3>2. d = a /\ e = b
      BY <1>1, <3>1
    <3> QED BY <3>1, <3>2
  <2>4. Shares'[c] = b.tokens /\ b.tokens \in Nat /\ \A y \in Children(t) : Shares'[y] = Shares[y]
    BY <1>1, <1>4, <2>1, BudgetFacts DEF Shares, Children
  <2>5. /\ IsFiniteSet(Pairs(Children(t) \cup {c}, Shares'))
        /\ SumOver(Children(t) \cup {c}, Shares') = SumOver(Children(t), Shares) + b.tokens
    <3>1. IsFiniteSet(Pairs(Children(t), Shares))
      BY <2>2 DEF PromiseOK
    <3> QED BY <2>1, <2>4, <3>1, SumWithOneMore
  <2>6. /\ Pairs(Children(t), Shares)' = Pairs(Children(t) \cup {c}, Shares')
        /\ SumOver(Children(t), Shares)' = SumOver(Children(t) \cup {c}, Shares')
    BY <2>1 DEF Pairs, SumOver
  <2>7. Allocated(t)' = Allocated(t) + b.tokens /\ IsFiniteSet(Pairs(Children(t), Shares))'
    BY <2>5, <2>6 DEF Allocated
  <2>8. asking'[t] = {} /\ budget'[t] = budget[t]
    BY <1>1, <1>3, <1>4, <2>3
  <2>9. (asking[t] = {} /\ Allocated(t) <= budget[t].tokens)'
    BY <2>3, <2>7, <2>8
  <2> QED BY <1>6, <2>7, <2>9 DEF PromiseOK
<1> QED BY <1>5, <1>6

LEMMA PromiseStep == TreeTypeOK /\ TreeInv /\ PromiseInv /\ [TreeNext]_treeVars => PromiseInv'
<1> SUFFICES ASSUME TreeTypeOK, TreeInv, PromiseInv, [TreeNext]_treeVars PROVE PromiseInv'
  OBVIOUS
<1>1. ASSUME UNCHANGED <<rows, asking, overlapped>> PROVE PromiseInv'
  BY <1>1, PromiseKept
<1>2. CASE UNCHANGED treeVars
  BY <1>1, <1>2 DEF treeVars
<1>3. ASSUME NEW t \in Tasks, Proposer(t) PROVE PromiseInv'
  <2>1. ASSUME NEW b \in Budgets, CreateTask(t, b) PROVE PromiseInv'
    <3>1. /\ ~HasRow(t) /\ budget' = [budget EXCEPT ![t] = b]
          /\ UNCHANGED <<parent, asking, overlapped>>
      BY <2>1 DEF CreateTask
    <3>2. ASSUME NEW x \in Tasks \ overlapped PROVE PromiseOK(x)'
      <4>1. Children(x)' = Children(x) /\ asking'[x] = asking[x]
        BY <3>1 DEF Children
      <4> QED BY <3>1, <4>1, NewRow
    <3> QED BY <3>1, <3>2 DEF PromiseInv
  <2>2. ASSUME NEW target \in {"closed", "cancelled"}, EndTask(t, target) PROVE PromiseInv'
    BY <1>1, <2>2 DEF EndTask
  <2>3. ASSUME NEW a \in Attempt, Reopen(t, a) PROVE PromiseInv'
    BY <1>1, <2>3 DEF Reopen
  <2>4. ASSUME NEW a \in Attempt, CancelAttempt(t, a) PROVE PromiseInv'
    BY <1>1, <2>4 DEF CancelAttempt
  <2> QED BY <1>3, <2>1, <2>2, <2>3, <2>4 DEF Proposer
<1>4. ASSUME NEW t \in Tasks, NEW a \in Attempt, Tool(t, a) PROVE PromiseInv'
  <2>1. CASE ToolDenied(t, a)
    BY <1>1, <2>1 DEF ToolDenied
  <2>2. CASE SubmitResult(t, a)
    BY <1>1, <2>2 DEF SubmitResult
  <2>3. CASE AskProposer(t, a)
    BY <1>1, <2>3 DEF AskProposer
  <2>4. ASSUME NEW b \in Budgets, AdmitDelegation(t, a, b) PROVE PromiseInv'
    BY <2>4, PromiseAdmit
  <2>5. ASSUME NEW c \in Tasks, CollectChild(t, a, c) \/ CloseChild(t, a, c) PROVE PromiseInv'
    BY <1>1, <2>5 DEF CollectChild, CloseChild
  <2> QED BY <1>4, <2>1, <2>2, <2>3, <2>4, <2>5 DEF Tool
<1>5. ASSUME NEW t \in Tasks, NEW a \in Attempt, Execution(t, a) PROVE PromiseInv'
  <2>1. CASE Start(t, a)
    BY <1>1, <2>1 DEF Start
  <2>2. CASE ReportUsage(t, a)
    BY <1>1, <2>2 DEF ReportUsage
  <2>3. CASE CompleteAttempt(t, a)
    BY <1>1, <2>3 DEF CompleteAttempt
  <2>4. CASE FailAttempt(t, a)
    BY <1>1, <2>4 DEF FailAttempt
  <2>5. CASE NoticeCancelled(t, a)
    BY <1>1, <2>5 DEF NoticeCancelled
  <2>6. CASE WorkerDies(t, a)
    <3>1. UNCHANGED <<rows, overlapped>> /\ asking' = [asking EXCEPT ![t] = {x \in @ : x[1] # a}]
      BY <2>6 DEF WorkerDies
    <3>2. \A x \in Tasks : asking'[x] \subseteq asking[x]
      BY <3>1 DEF TreeTypeOK
    <3> QED BY <3>1, <3>2, PromiseKept
  <2> QED BY <1>5, <2>1, <2>2, <2>3, <2>4, <2>5, <2>6 DEF Execution
<1>6. CASE TreeNext
  BY <1>3, <1>4, <1>5, <1>6, PromiseWrite DEF TreeNext
<1> QED BY <1>2, <1>6

\* The children of a task are never promised more than the task has, however
\* its attempts delegate and whatever ends or crashes between the check and the
\* commit, unless two of its attempts were between them at a time.
THEOREM PromisesKept == TreeSpec => []ChildrenWithinBudget
<1>1. TreeInit => TreeTypeOK /\ TreeInv /\ PromiseInv
  BY TreeTypeInit, TreeInvInit, PromiseInit
<1>2. TreeTypeOK /\ TreeInv /\ PromiseInv /\ [TreeNext]_treeVars => (TreeTypeOK /\ TreeInv /\ PromiseInv)'
  BY TreeTypeStep, TreeInvStep, PromiseStep
<1>3. TreeTypeOK /\ PromiseInv => ChildrenWithinBudget
  <2> SUFFICES ASSUME TreeTypeOK, NEW t \in Tasks, PromiseOK(t)
               PROVE  SumOver(Children(t), Shares) <= budget[t].tokens
    BY DEF PromiseInv, ChildrenWithinBudget
  <2>1. Allocated(t) \in Nat /\ budget[t].tokens \in Nat
    BY FS_CardinalityType, SharesType DEF PromiseOK, Allocated, SumOver, Pairs
  <2>2. Allocated(t) <= budget[t].tokens
    BY <2>1, BudgetFacts DEF PromiseOK
  <2> QED BY <2>2 DEF Allocated
<1> QED BY <1>1, <1>2, <1>3, PTL DEF TreeSpec

-----------------------------------------------------------------------------
(* What a task may spend *)

\* What a run may still report, or has reported.
Weight(t) == [a \in Attempt |-> IF runState[t][a] \in UNFINISHED THEN MaxTokens
                                ELSE IF runState[t][a] = "cancelled" THEN 0 ELSE usage[t][a]]

Limited(t) == budget[t].tokens # 0 /\ budget[t].runs # 0

UseOK(t) == Limited(t) => SumOver(Attempt, Weight(t)) < budget[t].tokens + budget[t].runs * MaxTokens

UseInv == \A t \in Tasks : UseOK(t)

LEMMA BudgetNats ==
  ASSUME TreeTypeOK, NEW t \in Tasks
  PROVE  budget[t].tokens \in Nat /\ budget[t].runs \in Nat
BY BudgetFacts DEF TreeTypeOK

LEMMA WeightType ==
  ASSUME TreeTypeOK, NEW t \in Tasks
  PROVE  \A a \in Attempt : Weight(t)[a] \in 0..MaxTokens
BY TreeNames DEF TreeTypeOK, Weight

LEMMA UseInit == TreeInit => UseInv
BY DEF TreeInit, UseInv, UseOK, Limited, Nothing

\* No weight grows: a run that may still report has its full weight already.
LEMMA UseKept ==
  ASSUME TreeTypeOK, TreeTypeOK', UseInv, NEW t \in Tasks, budget'[t] = budget[t],
         \A a \in Attempt : Weight(t)'[a] <= Weight(t)[a]
  PROVE  UseOK(t)'
<1> SUFFICES ASSUME Limited(t)' PROVE (SumOver(Attempt, Weight(t)) < budget[t].tokens + budget[t].runs * MaxTokens)'
  BY DEF UseOK
<1>1. Limited(t) /\ UseOK(t)
  BY DEF UseInv, Limited
<1>2. PICK k, n : k = Weight(t) /\ n = Weight(t)'
  OBVIOUS
<1>3. \A a \in Attempt : n[a] \in 0..MaxTokens /\ k[a] \in 0..MaxTokens /\ n[a] <= k[a]
  <2>1. \A a \in Attempt : Weight(t)[a] \in 0..MaxTokens
    BY WeightType
  <2>2. \A a \in Attempt : Weight(t)'[a] \in 0..MaxTokens
    BY TreeNames DEF TreeTypeOK, Weight
  <2> QED BY <1>2, <2>1, <2>2
<1>4. IsFiniteSet(Pairs(Attempt, k))
  BY <1>3, AttemptSum, TreeNames
<1>5. \A a \in Attempt : 1..n[a] \subseteq 1..k[a]
  BY <1>3, TreeNames
<1>6. SumOver(Attempt, n) \in Nat /\ SumOver(Attempt, k) \in Nat /\ SumOver(Attempt, n) <= SumOver(Attempt, k)
  BY <1>4, <1>5, SumSmaller
<1>7. PICK m \in Nat : m = budget[t].runs * MaxTokens
  BY BudgetNats, TreeNames
<1>8. SumOver(Attempt, k) < budget[t].tokens + m
  BY <1>1, <1>2, <1>7 DEF UseOK
<1>9. budget[t].tokens \in Nat
  BY BudgetNats
<1>10. SumOver(Attempt, n) < budget[t].tokens + m
  BY <1>6, <1>8, <1>9
<1>11. SumOver(Attempt, Weight(t))' = SumOver(Attempt, n)
  BY <1>2 DEF SumOver
<1>12. (budget[t].tokens + budget[t].runs * MaxTokens)' = budget[t].tokens + m
  BY <1>7 DEF MaxTokens
<1> QED BY <1>10, <1>11, <1>12

\* A row that gets its first run.
LEMMA FirstRun ==
  ASSUME TreeTypeOK, TreeTypeOK', TreeInv, NEW c \in Tasks, ~HasRow(c),
         AdmitRun(c, 1, TRUE), UNCHANGED usage
  PROVE  UseOK(c)'
<1> SUFFICES ASSUME Limited(c)'
             PROVE  (SumOver(Attempt, Weight(c)) < budget[c].tokens + budget[c].runs * MaxTokens)'
  BY DEF UseOK
<1>1. \A a \in Attempt : runState[c][a] = "none" /\ usage[c][a] = 0
  BY DEF TreeInv, PairOK
<1>2. PICK n : n = Weight(c)'
  OBVIOUS
<1>3. /\ \A a \in Attempt : n[a] \in Nat
      /\ n[1] <= MaxTokens /\ \A a \in Attempt : a # 1 => n[a] = 0
  <2>1. \A a \in Attempt : a # 1 => runState'[c][a] = "none"
    BY <1>1 DEF AdmitRun, TreeTypeOK
  <2>2. \A a \in Attempt : n[a] \in 0..MaxTokens
    BY <1>2, TreeNames DEF TreeTypeOK, Weight
  <2>3. ASSUME NEW a \in Attempt, a # 1 PROVE n[a] = 0
    BY <1>1, <1>2, <2>1, <2>3 DEF Weight, UNFINISHED
  <2> QED BY <2>2, <2>3, TreeNames
<1>4. Pairs(Attempt, n) \subseteq {1} \X (1..MaxTokens)
  <2> SUFFICES ASSUME NEW p \in Pairs(Attempt, n) PROVE p \in {1} \X (1..MaxTokens)
    OBVIOUS
  <2>1. PICK x \in Attempt : \E i \in 1..n[x] : p = <<x, i>>
    BY PairsIn
  <2>2. PICK i \in 1..n[x] : p = <<x, i>>
    BY <2>1
  <2>3. x = 1 /\ i \in 1..MaxTokens
    BY <1>3, <2>2, TreeNames
  <2> QED BY <2>2, <2>3
<1>5. IsFiniteSet({1} \X (1..MaxTokens)) /\ Cardinality({1} \X (1..MaxTokens)) = MaxTokens
  BY RowOfPairs, TreeNames
<1>6. IsFiniteSet(Pairs(Attempt, n)) /\ Cardinality(Pairs(Attempt, n)) <= MaxTokens
  <2>1. IsFiniteSet(Pairs(Attempt, n))
        /\ Cardinality(Pairs(Attempt, n)) <= Cardinality({1} \X (1..MaxTokens))
    BY <1>4, <1>5, FS_Subset
  <2> QED BY <1>5, <2>1
<1>7. SumOver(Attempt, n) \in Nat /\ SumOver(Attempt, n) <= MaxTokens
  BY <1>6, FS_CardinalityType DEF SumOver, Pairs
<1>8. PICK k, m : k = budget'[c].tokens /\ m = budget'[c].runs /\ k \in Nat \ {0} /\ m \in Nat \ {0}
  BY BudgetFacts DEF TreeTypeOK, Limited
<1>9. MaxTokens <= m * MaxTokens /\ m * MaxTokens \in Nat
  <2>1. \A y \in Nat : \A z \in Nat \ {0} : y <= z * y /\ z * y \in Nat
    OBVIOUS
  <2> QED BY <1>8, <2>1, TreeNames
<1>10. SumOver(Attempt, n) < k + m * MaxTokens
  BY <1>7, <1>8, <1>9, TreeNames
<1>11. SumOver(Attempt, Weight(c))' = SumOver(Attempt, n)
  BY <1>2 DEF SumOver
<1>12. (budget[c].tokens + budget[c].runs * MaxTokens)' = k + m * MaxTokens
  BY <1>8 DEF MaxTokens
<1> QED BY <1>10, <1>11, <1>12

\* The next run of a task: what was reported is below the budget, and the runs
\* that are still to report, with this one, are no more than allowed.
LEMMA NextRun ==
  ASSUME TreeTypeOK, TreeTypeOK', UseInv, NEW t \in Tasks, NEW a \in Attempt,
         AdmitRun(t, a, ~BudgetError(t, 1)), UNCHANGED <<budget, usage>>
  PROVE  UseOK(t)'
<1>1. CASE runState' = runState
  <2>1. Weight(t)' = Weight(t)
    BY <1>1 DEF Weight
  <2>2. \A y \in Attempt : Weight(t)'[y] <= Weight(t)[y]
    BY <2>1, WeightType, TreeNames
  <2> QED BY <2>2, UseKept
<1>2. CASE ~BudgetError(t, 1) /\ runState' = [runState EXCEPT ![t][a] = "queued"]
  <2> SUFFICES ASSUME Limited(t)'
               PROVE  (SumOver(Attempt, Weight(t)) < budget[t].tokens + budget[t].runs * MaxTokens)'
    BY DEF UseOK
  <2> DEFINE L == {y \in Attempt : runState[t][y] \in UNFINISHED}
  <2>1. budget[t].tokens # 0 /\ budget[t].runs # 0
    BY DEF Limited
  <2>2. ~(Used(t) >= budget[t].tokens) /\ ~(Cardinality(Runs({t})) + 1 > budget[t].runs)
    BY <1>2, <2>1 DEF BudgetError
  <2>3. IsFiniteSet(L)
    <3>1. IsFiniteSet(Attempt)
      BY FS_Interval, TreeBoundsAssumption DEF Attempt
    <3> QED BY <3>1, FS_Subset
  <2>4. Cardinality(Runs({t})) = Cardinality(L)
    <3>1. Runs({t}) = {t} \X L
      BY DEF Runs
    <3>2. IsFiniteSet({t}) /\ Cardinality({t}) = 1
      BY FS_Singleton, Zenon
    <3> HIDE DEF L
    <3>3. Cardinality({t} \X L) = Cardinality({t}) * Cardinality(L) /\ Cardinality(L) \in Nat
      BY <2>3, <3>2, FS_Product, FS_CardinalityType
    <3>4. 1 * Cardinality(L) = Cardinality(L)
      BY <3>3
    <3> QED BY <3>1, <3>2, <3>3, <3>4
  <2>5. PICK K : K = L \cup {a}
    OBVIOUS
  <2>6. IsFiniteSet(K) /\ Cardinality(K) \in Nat /\ Cardinality(K) <= Cardinality(L) + 1
    <3> HIDE DEF L
    <3>1. Cardinality(L) \in Nat
      BY <2>3, FS_CardinalityType
    <3>2. IsFiniteSet(K)
          /\ Cardinality(K) = IF a \in L THEN Cardinality(L) ELSE Cardinality(L) + 1
      BY <2>3, <2>5, FS_AddElement
    <3> QED BY <3>1, <3>2
  <2>7. PICK n : n = Weight(t)'
    OBVIOUS
  <2>8. \A y \in Attempt : n[y] \in 0..MaxTokens /\ (y \in K \/ n[y] <= usage[t][y])
    <3>1. \A y \in Attempt : n[y] \in 0..MaxTokens
      BY <2>7, TreeNames DEF TreeTypeOK, Weight
    <3>2. ASSUME NEW y \in Attempt, y \notin K PROVE n[y] <= usage[t][y]
      <4>1. y # a /\ runState[t][y] \notin UNFINISHED
        BY <2>5, <3>2
      <4>2. runState'[t][y] = runState[t][y]
        BY <1>2, <4>1 DEF TreeTypeOK
      <4>3. n[y] = IF runState[t][y] = "cancelled" THEN 0 ELSE usage[t][y]
        BY <2>7, <4>1, <4>2 DEF Weight
      <4>4. usage[t][y] \in 0..MaxTokens
        BY DEF TreeTypeOK
      <4> QED BY <4>3, <4>4, TreeNames
    <3> QED BY <3>1, <3>2
  <2>9. \A y \in Attempt : usage[t][y] \in 0..MaxTokens
    BY DEF TreeTypeOK
  <2>10. PICK u : u = usage[t]
    OBVIOUS
  <2>11. IsFiniteSet(Pairs(Attempt, u)) /\ SumOver(Attempt, u) \in Nat /\ SumOver(Attempt, u) = Used(t)
    BY <2>9, <2>10, AttemptSum, TreeNames DEF Used
  <2>12. PICK Q : Q = K \X (1..MaxTokens)
    OBVIOUS
  <2>13. Pairs(Attempt, n) \subseteq Q \cup Pairs(Attempt, u)
    <3> SUFFICES ASSUME NEW p \in Pairs(Attempt, n) PROVE p \in Q \cup Pairs(Attempt, u)
      OBVIOUS
    <3>1. PICK x \in Attempt : \E i \in 1..n[x] : p = <<x, i>>
      BY PairsIn
    <3>2. PICK i \in 1..n[x] : p = <<x, i>>
      BY <3>1
    <3>3. CASE x \in K
      <4>1. i \in 1..MaxTokens
        BY <2>8, <3>2, TreeNames
      <4> QED BY <2>12, <3>2, <3>3, <4>1
    <3>4. CASE x \notin K
      <4>1. i \in 1..u[x]
        BY <2>8, <2>9, <2>10, <3>2, <3>4, TreeNames
      <4>2. p \in Pairs(Attempt, u)
        BY <3>2, <4>1, PairsIn
      <4> QED BY <4>2
    <3> QED BY <3>3, <3>4
  <2>14. IsFiniteSet(Q) /\ Cardinality(Q) = Cardinality(K) * MaxTokens
    <3>1. IsFiniteSet(1..MaxTokens) /\ Cardinality(1..MaxTokens) = MaxTokens
      <4>1. IsFiniteSet(1..MaxTokens)
            /\ Cardinality(1..MaxTokens) = IF 1 > MaxTokens THEN 0 ELSE MaxTokens - 1 + 1
        BY FS_Interval, TreeNames
      <4> QED BY <4>1, TreeNames
    <3>2. IsFiniteSet(Q) /\ Cardinality(Q) = Cardinality(K) * Cardinality(1..MaxTokens)
      BY <2>6, <2>12, <3>1, FS_Product
    <3> QED BY <3>1, <3>2
  <2>15. Cardinality(Pairs(Attempt, n)) \in Nat
         /\ Cardinality(Pairs(Attempt, n)) <= Cardinality(Q) + Cardinality(Pairs(Attempt, u))
    BY <2>11, <2>13, <2>14, UnionBound
  <2>16. PICK k, m : k = budget[t].tokens /\ m = budget[t].runs /\ k \in Nat /\ m \in Nat
    BY BudgetNats
  <2>17. Cardinality(K) <= m
    <3>1. Cardinality(L) \in Nat
      BY <2>3, FS_CardinalityType
    <3> HIDE DEF L
    <3> QED BY <2>2, <2>4, <2>6, <2>16, <3>1
  <2>18. Cardinality(K) * MaxTokens <= m * MaxTokens /\ Cardinality(K) * MaxTokens \in Nat
         /\ m * MaxTokens \in Nat
    <3>1. \A x, y, z \in Nat : x <= y => x * z <= y * z /\ x * z \in Nat /\ y * z \in Nat
      OBVIOUS
    <3> QED BY <2>6, <2>16, <2>17, <3>1, TreeNames
  <2>19. SumOver(Attempt, n) = Cardinality(Pairs(Attempt, n)) /\ SumOver(Attempt, u) = Cardinality(Pairs(Attempt, u))
    BY DEF SumOver, Pairs
  <2>20. SumOver(Attempt, n) < k + m * MaxTokens
    BY <2>2, <2>11, <2>14, <2>15, <2>16, <2>18, <2>19
  <2>21. SumOver(Attempt, Weight(t))' = SumOver(Attempt, n)
    BY <2>7 DEF SumOver
  <2>22. (budget[t].tokens + budget[t].runs * MaxTokens)' = k + m * MaxTokens
    BY <2>16 DEF MaxTokens
  <2> QED BY <2>20, <2>21, <2>22
<1> QED BY <1>1, <1>2 DEF AdmitRun

\* One run changes, and its weight does not grow.
LEMMA UseOneRun ==
  ASSUME TreeTypeOK, TreeTypeOK', UseInv, UNCHANGED budget, NEW t \in Tasks, NEW a \in Attempt,
         \A x \in Tasks, y \in Attempt : (x # t \/ y # a) =>
           runState'[x][y] = runState[x][y] /\ usage'[x][y] = usage[x][y],
         Weight(t)'[a] <= Weight(t)[a]
  PROVE  UseInv'
<1> SUFFICES ASSUME NEW x \in Tasks PROVE UseOK(x)'
  BY DEF UseInv
<1>1. ASSUME NEW y \in Attempt PROVE Weight(x)'[y] <= Weight(x)[y]
  <2>1. CASE x = t /\ y = a
    BY <2>1
  <2>2. CASE x # t \/ y # a
    <3>1. Weight(x)'[y] = Weight(x)[y]
      BY <2>2 DEF Weight
    <3> QED BY <3>1, WeightType, TreeNames
  <2> QED BY <2>1, <2>2
<1> QED BY <1>1, UseKept

LEMMA UseQuiet ==
  ASSUME TreeTypeOK, TreeTypeOK', UseInv, UNCHANGED <<budget, runState, usage>>
  PROVE  UseInv'
<1> SUFFICES ASSUME NEW x \in Tasks PROVE UseOK(x)'
  BY DEF UseInv
<1>1. Weight(x)' = Weight(x)
  BY DEF Weight
<1>2. \A y \in Attempt : Weight(x)'[y] <= Weight(x)[y]
  BY <1>1, WeightType, TreeNames
<1> QED BY <1>2, UseKept

\* A new row and its run leave the other tasks alone.
LEMMA UseNewRow ==
  ASSUME TreeTypeOK, TreeTypeOK', TreeInv, UseInv, NEW c \in Tasks, ~HasRow(c),
         NEW b, budget' = [budget EXCEPT ![c] = b], AdmitRun(c, 1, TRUE), UNCHANGED usage
  PROVE  UseInv'
<1> SUFFICES ASSUME NEW x \in Tasks, x # c PROVE UseOK(x)'
  BY FirstRun DEF UseInv
<1>1. budget'[x] = budget[x] /\ runState'[x] = runState[x]
  BY DEF AdmitRun, TreeTypeOK
<1>2. Weight(x)' = Weight(x)
  BY <1>1 DEF Weight
<1>3. \A y \in Attempt : Weight(x)'[y] <= Weight(x)[y]
  BY <1>2, WeightType, TreeNames
<1> QED BY <1>1, <1>3, UseKept

LEMMA UseProposer ==
  ASSUME TreeTypeOK, TreeTypeOK', TreeInv, UseInv, NEW t \in Tasks, Proposer(t)
  PROVE  UseInv'
<1>1. ASSUME NEW b \in Budgets, CreateTask(t, b) PROVE UseInv'
  BY <1>1, UseNewRow DEF CreateTask
<1>2. ASSUME NEW target \in {"closed", "cancelled"}, EndTask(t, target) PROVE UseInv'
  BY <1>2, UseQuiet DEF EndTask, rows
<1>3. ASSUME NEW a \in Attempt, Reopen(t, a) PROVE UseInv'
  <2>1. AdmitRun(t, a, ~BudgetError(t, 1)) /\ UNCHANGED <<budget, usage>>
    BY <1>3 DEF Reopen, rows
  <2>2. UseOK(t)'
    BY <2>1, NextRun
  <2>3. ASSUME NEW x \in Tasks, x # t PROVE UseOK(x)'
    <3>1. runState'[x] = runState[x]
      BY <2>1, <2>3 DEF AdmitRun, TreeTypeOK
    <3>2. Weight(x)' = Weight(x)
      BY <2>1, <3>1 DEF Weight
    <3>3. \A y \in Attempt : Weight(x)'[y] <= Weight(x)[y]
      BY <3>2, WeightType, TreeNames
    <3> QED BY <2>1, <3>3, UseKept
  <2> QED BY <2>2, <2>3 DEF UseInv
<1>4. ASSUME NEW a \in Attempt, CancelAttempt(t, a) PROVE UseInv'
  <2>1. /\ runState[t][a] \in UNFINISHED /\ runState' = [runState EXCEPT ![t][a] = "cancelled"]
        /\ UNCHANGED <<budget, usage>>
    BY <1>4 DEF CancelAttempt, rows
  <2>2. runState'[t][a] = "cancelled" /\ \A x \in Tasks, y \in Attempt : (x # t \/ y # a) =>
           runState'[x][y] = runState[x][y] /\ usage'[x][y] = usage[x][y]
    BY <2>1 DEF TreeTypeOK
  <2>3. Weight(t)'[a] = 0 /\ Weight(t)[a] = MaxTokens
    BY <2>1, <2>2 DEF Weight, UNFINISHED
  <2> QED BY <2>1, <2>2, <2>3, UseOneRun, TreeNames
<1> QED BY <1>1, <1>2, <1>3, <1>4 DEF Proposer

LEMMA UseCalls ==
  ASSUME TreeTypeOK, TreeTypeOK', TreeInv, UseInv, NEW t \in Tasks, NEW a \in Attempt, Tool(t, a)
  PROVE  UseInv'
<1>1. UNCHANGED <<budget, runState, usage>>
  <2>1. ASSUME NEW b \in Budgets, AdmitDelegation(t, a, b) PROVE UNCHANGED <<budget, runState, usage>>
    BY <2>1 DEF AdmitDelegation, rows
  <2>2. ASSUME NEW c \in Tasks, CollectChild(t, a, c) \/ CloseChild(t, a, c)
        PROVE  UNCHANGED <<budget, runState, usage>>
    BY <2>2 DEF CollectChild, CloseChild, rows
  <2>3. CASE ToolDenied(t, a) \/ SubmitResult(t, a) \/ AskProposer(t, a)
    BY <2>3 DEF ToolDenied, SubmitResult, AskProposer, rows
  <2> QED BY <2>1, <2>2, <2>3 DEF Tool
<1> QED BY <1>1, UseQuiet

LEMMA UseExecution ==
  ASSUME TreeTypeOK, TreeTypeOK', TreeInv, UseInv, NEW t \in Tasks, NEW a \in Attempt, Execution(t, a)
  PROVE  UseInv'
<1>0. /\ usage[t][a] \in 0..MaxTokens /\ usage'[t][a] \in 0..MaxTokens
      /\ runState \in [Tasks -> [Attempt -> UNFINISHED \cup {"none", "completed", "failed", "cancelled"}]]
      /\ usage \in [Tasks -> [Attempt -> 0..MaxTokens]]
  BY TreeNames DEF TreeTypeOK
<1>1. CASE Start(t, a)
  <2>1. /\ runState[t][a] \in UNFINISHED /\ runState' = [runState EXCEPT ![t][a] = "running"]
        /\ UNCHANGED <<budget, usage>>
    BY <1>1 DEF Start, rows
  <2>2. runState'[t][a] = "running" /\ \A x \in Tasks, y \in Attempt : (x # t \/ y # a) =>
           runState'[x][y] = runState[x][y] /\ usage'[x][y] = usage[x][y]
    BY <1>0, <2>1
  <2>3. Weight(t)'[a] = MaxTokens /\ Weight(t)[a] = MaxTokens
    BY <2>1, <2>2 DEF Weight, UNFINISHED, MaxTokens
  <2> QED BY <2>1, <2>2, <2>3, UseOneRun, TreeNames
<1>2. CASE ReportUsage(t, a)
  <2>1. /\ executor[t][a].pc = "turn" /\ UNCHANGED <<budget, runState>>
        /\ usage' = [usage EXCEPT ![t][a] = executor[t][a].tokens + 1]
    BY <1>2 DEF ReportUsage, Executing, StoreUsage, rows
  <2>2. runState[t][a] \in {"running", "cancelled"}
    BY <2>1 DEF TreeInv, PairOK
  <2>3. \A x \in Tasks, y \in Attempt : (x # t \/ y # a) =>
           runState'[x][y] = runState[x][y] /\ usage'[x][y] = usage[x][y]
    BY <1>0, <2>1
  <2>4. Weight(t)'[a] = Weight(t)[a]
    BY <2>1, <2>2 DEF Weight, UNFINISHED, MaxTokens
  <2> QED BY <2>1, <2>3, <2>4, UseOneRun, WeightType, TreeNames
\* The run ends, or stays as it is.
<1>3. ASSUME NEW ended \in {"completed", "failed"},
             runState' = [runState EXCEPT ![t][a] = IF @ = "running" THEN ended ELSE @],
             UNCHANGED <<budget, usage>>
      PROVE  UseInv'
  <2>1. /\ runState'[t][a] = IF runState[t][a] = "running" THEN ended ELSE runState[t][a]
        /\ \A x \in Tasks, y \in Attempt : (x # t \/ y # a) =>
             runState'[x][y] = runState[x][y] /\ usage'[x][y] = usage[x][y]
    BY <1>0, <1>3
  <2>2. Weight(t)'[a] <= Weight(t)[a]
    <3>1. CASE runState[t][a] = "running"
      <4>1. Weight(t)'[a] = usage[t][a] /\ Weight(t)[a] = MaxTokens
        BY <1>3, <2>1, <3>1 DEF Weight, UNFINISHED
      <4> QED BY <1>0, <4>1, TreeNames
    <3>2. CASE runState[t][a] # "running"
      <4>1. Weight(t)'[a] = Weight(t)[a]
        BY <1>3, <2>1, <3>2 DEF Weight, MaxTokens
      <4> QED BY <4>1, WeightType, TreeNames
    <3> QED BY <3>1, <3>2
  <2> QED BY <1>3, <2>1, <2>2, UseOneRun
<1>4. CASE CompleteAttempt(t, a)
  BY <1>3, <1>4 DEF CompleteAttempt, rows
<1>5. CASE FailAttempt(t, a)
  BY <1>3, <1>5 DEF FailAttempt, rows
<1>6. CASE NoticeCancelled(t, a)
  BY <1>6, UseQuiet DEF NoticeCancelled, rows
<1>7. CASE WorkerDies(t, a)
  BY <1>7, UseQuiet DEF WorkerDies, rows
<1> QED BY <1>1, <1>2, <1>4, <1>5, <1>6, <1>7 DEF Execution

LEMMA UseStep == TreeTypeOK /\ TreeTypeOK' /\ TreeInv /\ UseInv /\ [TreeNext]_treeVars => UseInv'
<1> SUFFICES ASSUME TreeTypeOK, TreeTypeOK', TreeInv, UseInv, [TreeNext]_treeVars PROVE UseInv'
  OBVIOUS
<1>1. CASE UNCHANGED treeVars
  BY <1>1, UseQuiet DEF treeVars, rows
<1>2. ASSUME NEW t \in Tasks, NEW c \in Tasks, WriteDelegation(t, c) PROVE UseInv'
  <2>1. PICK b \in Budgets : /\ ~HasRow(c) /\ budget' = [budget EXCEPT ![c] = b]
                             /\ AdmitRun(c, 1, TRUE) /\ UNCHANGED usage
    BY <1>2 DEF WriteDelegation
  <2> QED BY <2>1, UseNewRow
<1>3. CASE TreeNext
  BY <1>2, <1>3, UseProposer, UseCalls, UseExecution DEF TreeNext
<1> QED BY <1>1, <1>3

\* However the attempts of a task overlap, and however often their runs are
\* executed again, what they report exceeds the budget of the task by at most
\* one execution for each run that may be unfinished at a time.
THEOREM UseWithinBudget == TreeSpec => []UseBounded
<1>1. TreeInit => TreeTypeOK /\ TreeInv /\ UseInv
  BY TreeTypeInit, TreeInvInit, UseInit
<1>2. TreeTypeOK /\ TreeInv /\ UseInv /\ [TreeNext]_treeVars => (TreeTypeOK /\ TreeInv /\ UseInv)'
  BY TreeTypeStep, TreeInvStep, UseStep
<1>3. TreeTypeOK /\ UseInv => UseBounded
  <2> SUFFICES ASSUME TreeTypeOK, UseInv, NEW t \in Tasks, Limited(t)
               PROVE  SumOver(Attempt, [a \in Attempt |-> IF runState[t][a] = "cancelled" THEN 0 ELSE usage[t][a]])
                        < budget[t].tokens + budget[t].runs * MaxTokens
    BY DEF UseBounded, Limited
  <2>1. PICK n : n = [a \in Attempt |-> IF runState[t][a] = "cancelled" THEN 0 ELSE usage[t][a]]
    OBVIOUS
  <2>2. PICK k : k = Weight(t)
    OBVIOUS
  <2>3. \A a \in Attempt : n[a] \in 0..MaxTokens /\ k[a] \in 0..MaxTokens /\ n[a] <= k[a]
    BY <2>1, <2>2, TreeNames DEF TreeTypeOK, Weight, UNFINISHED
  <2>4. IsFiniteSet(Pairs(Attempt, k))
    BY <2>3, AttemptSum, TreeNames
  <2>5. \A a \in Attempt : 1..n[a] \subseteq 1..k[a]
    BY <2>3, TreeNames
  <2>6. SumOver(Attempt, n) \in Nat /\ SumOver(Attempt, k) \in Nat /\ SumOver(Attempt, n) <= SumOver(Attempt, k)
    BY <2>4, <2>5, SumSmaller
  <2>7. PICK m \in Nat : m = budget[t].runs * MaxTokens
    BY BudgetNats, TreeNames
  <2>8. SumOver(Attempt, k) < budget[t].tokens + m
    BY <2>2, <2>7 DEF UseInv, UseOK
  <2>9. SumOver(Attempt, n) < budget[t].tokens + m
    BY <2>6, <2>8, BudgetNats
  <2> QED BY <2>1, <2>7, <2>9
<1> QED BY <1>1, <1>2, <1>3, PTL DEF TreeSpec
============================================================================
