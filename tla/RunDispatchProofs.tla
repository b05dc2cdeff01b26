-------------------------- MODULE RunDispatchProofs --------------------------
(***************************************************************************)
(* Proofs about RunDispatch, for every set of runs, confirmations, workers *)
(* and publishers, every limit and every number of faults.                 *)
(***************************************************************************)
EXTENDS RunDispatch, FiniteSetTheorems, TLAPS

\* Every outbox row carries exactly one run; a run's own row carries that run.
LEMMA RowRunType ==
  /\ \A k \in Rows : RowRun(k) \in Runs
  /\ \A r \in Runs : r \in Rows /\ r \notin Confs /\ RowRun(r) = r
  /\ \A c \in Confs : c \in Rows /\ RowRun(c) = ConfRun[c]
BY ConfsAssumption DEF Rows, RowRun

\* XADD appends: the entries already there keep their numbers and rows.
LEMMA AppendEntry ==
  ASSUME NEW S, NEW s \in Seq(S), NEW k \in S
  PROVE  /\ Append(s, k) \in Seq(S)
         /\ Len(Append(s, k)) = Len(s) + 1
         /\ Len(s) \in Nat
         /\ DOMAIN s = 1..Len(s) /\ DOMAIN Append(s, k) = 1..(Len(s) + 1)
         /\ \A i \in 1..Len(s) : Append(s, k)[i] = s[i] /\ s[i] \in S
         /\ Append(s, k)[Len(s) + 1] = k
OBVIOUS

\* A decision, an execution or an erasure rewrites one field of a confirmation.
LEMMA ConfField ==
  ASSUME NEW x \in ConfState,
         NEW s \in {"none", "pending", "approved", "rejected", "executed", "deleted"}
  PROVE  /\ [x EXCEPT !.st = s] \in ConfState
         /\ [x EXCEPT !.st = s].st = s
BY DEF ConfState

\* create_run's COUNT, its refusal, and the runs that other Agents delegate: they
\* take and free slots, and nothing else.
SlotStep ==
  \/ \E p \in Creators : AdmitRun(p) \/ RefuseRun(p) \/ DelegateRun(p)
  \/ DelegatedRunEnds
Quiet == UNCHANGED <<database, effects, redis, pub, worker, deciding, faults>>

LEMMA SlotsQuiet == SlotStep \/ UNCHANGED vars => Quiet
BY DEF SlotStep, Quiet, vars, AdmitRun, RefuseRun, DelegateRun, DelegatedRunEnds, database, redis

-----------------------------------------------------------------------------
(* Types *)

LEMMA TypeInit == Init => TypeOK
BY ConfsAssumption, LimitsAssumption
   DEF Init, TypeOK, ConfState, WorkerState, Ready, At, Looping, Holding, Executing, Rows, NoConf, RSM!RunState

\* The actions of the API process and of the publishers.
LEMMA TypeApi ==
  ASSUME TypeOK,
         \/ \E r \in Runs : CreateRun(r) \/ CancelRun(r) \/ DeleteConversation(r)
         \/ \E c \in Confs : Approve(c) \/ Reject(c) \/ ApiStep(c) \/ ApiCrash(c)
  PROVE  TypeOK'
<1> USE ConfsAssumption, LimitsAssumption DEF TypeOK, database, redis, slots
<1>1. ASSUME NEW r \in Runs, CreateRun(r) PROVE TypeOK'
  BY <1>1 DEF CreateRun, RSM!RunState, RSM!ACTIVE_STATES, Rows
<1>2. ASSUME NEW r \in Runs, CancelRun(r) PROVE TypeOK'
  BY <1>2 DEF CancelRun, UpdateRun, RSM!RunState, RSM!TERMINAL_STATES
<1>3. ASSUME NEW r \in Runs, DeleteConversation(r) PROVE TypeOK'
  <2>1. run' \in [Runs -> RSM!RunState] /\ invocations' \in [Runs -> Nat] /\ replied' \subseteq Runs
    BY <1>3 DEF DeleteConversation, RSM!RunState
  <2>2. conf' \in [Confs -> ConfState]
    BY <1>3, ConfField DEF DeleteConversation
  <2> QED BY <1>3, <2>1, <2>2 DEF DeleteConversation, ConfState
<1>4. ASSUME NEW c \in Confs, Approve(c) \/ Reject(c) PROVE TypeOK'
  <2>1. PICK s \in {"approved", "rejected"}, d \in {"enqueue", "cancel"} : Decide(c, s, d)
    BY <1>4 DEF Approve, Reject
  <2>2. conf' = [conf EXCEPT ![c] = [conf[c] EXCEPT !.st = s]]
    BY <2>1 DEF Decide
  <2>3. conf' \in [Confs -> ConfState]
    BY <2>2, ConfField
  <2> QED BY <2>1, <2>3 DEF Decide, ConfState
<1>5. ASSUME NEW c \in Confs, EnqueueConfirmation(c) PROVE TypeOK'
  BY <1>5 DEF EnqueueConfirmation, Rows
<1>6. ASSUME NEW c \in Confs, CancelRejected(c) PROVE TypeOK'
  BY <1>6 DEF CancelRejected, UpdateRun, RSM!RunState, RSM!TERMINAL_STATES
<1>7. ASSUME NEW c \in Confs, ApiCrash(c) PROVE TypeOK'
  BY <1>7 DEF ApiCrash, Fault
<1> QED BY <1>1, <1>2, <1>3, <1>4, <1>5, <1>6, <1>7 DEF ApiStep

LEMMA TypePub ==
  ASSUME TypeOK, NEW p \in Publishers, PubStep(p) \/ PubFail(p)
  PROVE  TypeOK'
<1> USE ConfsAssumption, LimitsAssumption DEF TypeOK, database, redis, slots
<1>1. CASE PubRead(p)
  BY <1>1 DEF PubRead
<1>2. CASE PubXadd(p)
  BY <1>2, AppendEntry DEF PubXadd
<1>3. CASE PubMark(p)
  BY <1>3 DEF PubMark
<1>4. CASE PubFail(p)
  BY <1>4 DEF PubFail, Fault
<1> QED BY <1>1, <1>2, <1>3, <1>4 DEF PubStep

LEMMA TypeSlots == TypeOK /\ (SlotStep \/ UNCHANGED vars) => TypeOK'
<1> SUFFICES ASSUME TypeOK, SlotStep \/ UNCHANGED vars
             PROVE  creating' \subseteq Creators /\ delegated' \in Nat
  BY SlotsQuiet DEF TypeOK, Quiet, database, redis
<1>1. CASE SlotStep
  BY <1>1 DEF SlotStep, AdmitRun, RefuseRun, DelegateRun, DelegatedRunEnds, TypeOK
<1>2. CASE UNCHANGED vars
  BY <1>2 DEF vars, TypeOK
<1> QED BY <1>1, <1>2

\* The program counters a step of a worker moves to.
PC == {"down"} \cup Looping \cup Holding

\* Moving the program counter keeps the rest of the worker.
LEMMA PcField ==
  ASSUME NEW x \in WorkerState, NEW pc \in PC
  PROVE  LET y == [x EXCEPT !.pc = pc] IN
         /\ y \in WorkerState
         /\ y.pc = pc /\ y.cur = x.cur /\ y.batch = x.batch /\ y.recover = x.recover
         /\ y.conf = x.conf /\ y.calls = x.calls
BY DEF WorkerState, PC

\* After Goto the worker is at pc, with the entry it had.
LEMMA GotoField ==
  ASSUME worker \in [Workers -> WorkerState], NEW w \in Workers, NEW pc \in PC, Goto(w, pc)
  PROVE  /\ worker'[w].pc = pc /\ worker'[w].cur = worker[w].cur
         /\ worker'[w].conf = worker[w].conf
         /\ \A v \in Workers \ {w} : worker'[v] = worker[v]
<1>1. worker'[w] = [worker[w] EXCEPT !.pc = pc] /\ \A v \in Workers \ {w} : worker'[v] = worker[v]
  BY DEF Goto
<1> QED BY <1>1, PcField

\* The worker records of the loop.
LEMMA AtField ==
  ASSUME NEW pc \in PC, NEW cur \in Nat, NEW batch \in SUBSET Nat, NEW recover \in BOOLEAN
  PROVE  LET y == At(pc, cur, batch, recover) IN
         y \in WorkerState /\ y.pc = pc /\ y.cur = cur /\ y.batch = batch /\ y.recover = recover
BY DEF At, WorkerState, PC, NoConf

\* The part of TypeOK about one worker.
WorkerOK(x) ==
  /\ x \in WorkerState
  /\ x.pc \in Holding => x.cur \in 1..last
  /\ x.batch \subseteq 1..last
  /\ x.pc \in {"count", "record", "exec", "mark"} => x.conf \in Confs

\* A step that replaces one worker and leaves the stream alone keeps the types.
LEMMA OneWorker ==
  ASSUME TypeOK, NEW w \in Workers, NEW x, WorkerOK(x),
         worker' = [worker EXCEPT ![w] = x], UNCHANGED last
  PROVE  /\ worker' \in [Workers -> WorkerState]
         /\ \A v \in Workers : WorkerOK(worker[v])'
         /\ worker'[w] = x
BY DEF TypeOK, WorkerOK

LEMMA TypeWorkers == TypeOK => \A w \in Workers : WorkerOK(worker[w])
BY DEF TypeOK, WorkerOK

LEMMA TypeGoto ==
  ASSUME TypeOK, NEW w \in Workers, NEW pc \in PC, Goto(w, pc), UNCHANGED last,
         pc \in Holding => worker[w].pc \in Holding,
         pc \in {"count", "record", "exec", "mark"} => worker[w].conf \in Confs
  PROVE  /\ worker' \in [Workers -> WorkerState]
         /\ \A v \in Workers : WorkerOK(worker[v])'
<1>1. worker' = [worker EXCEPT ![w] = [worker[w] EXCEPT !.pc = pc]]
  BY DEF Goto
<1>2. worker[w] \in WorkerState /\ WorkerOK(worker[w])
  BY TypeWorkers DEF TypeOK
<1>3. WorkerOK([worker[w] EXCEPT !.pc = pc])
  BY <1>2, PcField DEF WorkerOK
<1> QED BY <1>1, <1>3, OneWorker

LEMMA TypeDie ==
  ASSUME TypeOK, NEW w \in Workers, NEW x \in {Ready, Down},
         worker' = [worker EXCEPT ![w] = x], UNCHANGED last
  PROVE  /\ worker' \in [Workers -> WorkerState]
         /\ \A v \in Workers : WorkerOK(worker[v])'
<1>1. WorkerOK(Ready)
  BY DEF At, WorkerState, NoConf, WorkerOK, Ready, Looping, Holding, Executing
<1>2. WorkerOK(Down)
  BY DEF At, WorkerState, NoConf, WorkerOK, Down, Looping, Holding, Executing
<1> QED BY <1>1, <1>2, OneWorker

\* The loop of worker.run, the heartbeat and the restarts.
LEMMA TypeLoop ==
  ASSUME TypeOK, NEW w \in Workers, Loop(w) \/ Crash(w) \/ Restart(w) \/ Heartbeat(w)
  PROVE  TypeOK'
<1> SUFFICES /\ worker' \in [Workers -> WorkerState]
             /\ \A v \in Workers : WorkerOK(worker[v])'
             /\ last' \in 0..Len(stream) /\ pending' \subseteq 1..last' /\ idle' \subseteq pending'
             /\ UNCHANGED <<database, effects, stream, pub, deciding, slots>> /\ faults' \in 0..MaxFaults
  BY DEF TypeOK, WorkerOK, database, slots
<1> USE LimitsAssumption
<1>0. /\ last \in 0..Len(stream) /\ pending \subseteq 1..last /\ idle \subseteq pending
      /\ worker \in [Workers -> WorkerState] /\ faults \in 0..MaxFaults
      /\ WorkerOK(worker[w]) /\ stream \in Seq(Rows) /\ Len(stream) \in Nat
  BY TypeWorkers DEF TypeOK
<1>1. CASE Autoclaim(w)
  <2>1. PICK claimed \in SUBSET idle :
          /\ idle' = idle \ claimed
          /\ worker' = [worker EXCEPT ![w] = At("next", 0, claimed, FALSE)]
    BY <1>1 DEF Autoclaim
  <2>2. WorkerOK(At("next", 0, claimed, FALSE))
    BY <1>0 DEF At, WorkerState, NoConf, WorkerOK, PC, Looping, Holding, Executing
  <2> QED BY <1>0, <1>1, <2>1, <2>2, OneWorker DEF Autoclaim
<1>2. CASE TakeClaimed(w)
  <2>1. PICK i \in worker[w].batch :
          worker' = [worker EXCEPT ![w] = At("start", i, worker[w].batch \ {i}, TRUE)]
    BY <1>2 DEF TakeClaimed
  <2>2. WorkerOK(At("start", i, worker[w].batch \ {i}, TRUE))
    BY <1>0 DEF At, WorkerState, NoConf, WorkerOK, PC, Holding
  <2> QED BY <1>0, <1>2, <2>1, <2>2, OneWorker DEF TakeClaimed, redis
<1>3. CASE ReadNew(w)
  <2>1. CASE last < Len(stream)
    <3> DEFINE x == At("start", last + 1, {}, FALSE)
    <3>0. last # Len(stream)
      BY <1>0, <2>1
    <3>1. /\ last' = last + 1 /\ pending' = pending \cup {last + 1} /\ UNCHANGED idle
          /\ worker' = [worker EXCEPT ![w] = x]
      BY <1>3, <3>0 DEF ReadNew
    <3>2. x \in WorkerState /\ x.pc = "start" /\ x.cur = last + 1 /\ x.batch = {}
      BY <1>0 DEF At, WorkerState, NoConf, PC, Holding
    <3> HIDE DEF x
    <3>3. worker' \in [Workers -> WorkerState]
      BY <1>0, <3>1, <3>2
    <3>4. ASSUME NEW v \in Workers PROVE WorkerOK(worker[v])'
      <4>1. CASE v = w
        BY <1>0, <3>1, <3>2, <4>1 DEF WorkerOK
      <4>2. CASE v # w
        <5>1. worker'[v] = worker[v] /\ WorkerOK(worker[v])
          BY <1>0, <3>1, <4>2, TypeWorkers
        <5>2. 1..last \subseteq 1..last'
          BY <1>0, <3>1
        <5> QED BY <5>1, <5>2 DEF WorkerOK
      <4> QED BY <4>1, <4>2
    <3>5. UNCHANGED <<database, effects, stream, pub, deciding, slots, faults>>
      BY <1>3 DEF ReadNew
    <3>6. last' \in 0..Len(stream)
      BY <1>0, <2>1, <3>1
    <3>7. pending' \subseteq 1..last' /\ idle' \subseteq pending'
      BY <1>0, <3>1
    <3>8. faults' \in 0..MaxFaults
      BY <1>0, <3>5
    <3> QED BY <3>3, <3>4, <3>5, <3>6, <3>7, <3>8
  <2>2. CASE ~(last < Len(stream))
    <3>1. worker' = [worker EXCEPT ![w] = Ready] /\ UNCHANGED <<last, pending, idle>>
      BY <1>0, <1>3, <2>2 DEF ReadNew
    <3> QED BY <1>0, <1>3, <3>1, TypeDie DEF ReadNew
  <2> QED BY <2>1, <2>2
<1>4. CASE Xack(w)
  <2> DEFINE pc == IF worker[w].recover THEN "next" ELSE "claim"
  <2>1. WorkerOK(At(pc, 0, worker[w].batch, FALSE))
    BY <1>0 DEF At, WorkerState, NoConf, WorkerOK, PC, Looping, Holding, Executing
  <2> QED BY <1>0, <1>4, <2>1, OneWorker DEF Xack
<1>5. CASE Crash(w)
  <2>1. faults' \in 0..MaxFaults
    BY <1>0, <1>5 DEF Crash, Fault
  <2>2. worker' = [worker EXCEPT ![w] = Down] /\ UNCHANGED <<database, effects, stream, last, pending, idle, pub, deciding, slots>>
    BY <1>5 DEF Crash, Die, redis
  <2> QED BY <1>0, <2>1, <2>2, TypeDie
<1>6. CASE Restart(w)
  BY <1>0, <1>6, TypeDie DEF Restart, redis
<1>7. CASE Heartbeat(w)
  BY <1>0, <1>7, TypeWorkers DEF Heartbeat, WorkerOK
<1> QED BY <1>1, <1>2, <1>3, <1>4, <1>5, <1>6, <1>7 DEF Loop

\* The entry in hand is one of the stream and its row carries a run.
LEMMA EntryInHand ==
  ASSUME TypeOK, NEW w \in Workers, worker[w].pc \in Holding
  PROVE  /\ worker[w].cur \in 1..last /\ worker[w].cur \in DOMAIN stream
         /\ stream[worker[w].cur] \in Rows
         /\ RunOf(w) \in Runs
<1>1. worker[w].cur \in 1..last /\ last \in 0..Len(stream) /\ stream \in Seq(Rows)
  BY DEF TypeOK
<1>2. Len(stream) \in Nat /\ DOMAIN stream = 1..Len(stream)
  BY <1>1
<1>3. stream[worker[w].cur] \in Rows
  BY <1>1, <1>2
<1> QED BY <1>1, <1>2, <1>3, RowRunType DEF RunOf

\* update_run keeps the type of the table.
LEMMA UpdateRunType ==
  ASSUME run \in [Runs -> RSM!RunState], NEW r \in Runs, NEW s \in RSM!RunState, UpdateRun(r, s)
  PROVE  run' \in [Runs -> RSM!RunState]
BY DEF UpdateRun

\* What a step of orchestrate_run leaves alone.
OrchestrateFrame == UNCHANGED <<outbox, redis, pub, deciding, slots, faults>>

LEMMA TypeOrchestrate ==
  ASSUME TypeOK, NEW w \in Workers, Orchestrate(w)
  PROVE  TypeOK' /\ OrchestrateFrame
<1> SUFFICES /\ worker' \in [Workers -> WorkerState]
             /\ \A v \in Workers : WorkerOK(worker[v])'
             /\ run' \in [Runs -> RSM!RunState] /\ conf' \in [Confs -> ConfState]
             /\ invocations' \in [Runs -> Nat] /\ replied' \subseteq Runs
             /\ effects' \in [Confs -> Nat] /\ OrchestrateFrame
  BY DEF TypeOK, WorkerOK, redis, slots, OrchestrateFrame
<1> DEFINE x == worker[w]
<1>0. /\ worker \in [Workers -> WorkerState] /\ x \in WorkerState /\ WorkerOK(x)
      /\ run \in [Runs -> RSM!RunState] /\ conf \in [Confs -> ConfState]
      /\ invocations \in [Runs -> Nat] /\ replied \subseteq Runs /\ effects \in [Confs -> Nat]
  BY TypeWorkers DEF TypeOK
<1>a. x.pc \in Holding => RunOf(w) \in Runs
  BY EntryInHand
<1>b. {"queued", "running", "waiting_confirmation", "completed", "failed"} \subseteq RSM!RunState
  BY DEF RSM!RunState, RSM!ACTIVE_STATES, RSM!TERMINAL_STATES
<1> HIDE DEF x
<1> USE DEF database, OrchestrateFrame, redis
<1>1. CASE TryStartRun(w)
  <2>1. x.pc = "start" /\ \E pc \in {"lookup", "model", "ack"} : Goto(w, pc)
    BY <1>1 DEF TryStartRun, x
  <2>2. run' \in [Runs -> RSM!RunState]
    BY <1>0, <1>1, <1>a, <1>b DEF TryStartRun
  <2> QED BY <1>0, <1>1, <2>1, <2>2, TypeGoto DEF TryStartRun, PC, Holding, Executing, x
<1>2. CASE LookupConfirmation(w)
  <2>1. x.pc = "lookup"
    BY <1>2 DEF LookupConfirmation, x
  <2>2. CASE Goto(w, "fail")
    BY <1>0, <1>2, <2>1, <2>2, TypeGoto DEF LookupConfirmation, PC, Holding, Executing, x
  <2>3. ASSUME NEW c \in Confs,
               worker' = [worker EXCEPT ![w] =
                            [@ EXCEPT !.pc = "count", !.conf = c, !.calls = conf[c].used]]
        PROVE  /\ worker' \in [Workers -> WorkerState]
               /\ \A v \in Workers : WorkerOK(worker[v])'
    <3> DEFINE y == [x EXCEPT !.pc = "count", !.conf = c, !.calls = conf[c].used]
    <3>1. worker' = [worker EXCEPT ![w] = y]
      BY <2>3 DEF x
    <3>2. conf[c].used \in Nat
      BY <1>0 DEF ConfState
    <3>3. WorkerOK(y)
      BY <1>0, <2>1, <3>2 DEF WorkerOK, WorkerState, Holding, Executing
    <3> QED BY <1>2, <3>1, <3>3, OneWorker DEF LookupConfirmation
  <2> QED BY <1>0, <1>2, <2>2, <2>3 DEF LookupConfirmation, NewestApproved
<1>3. CASE CountInvocations(w)
  <2>1. x.pc = "count" /\ \E pc \in {"mark", "record"} : Goto(w, pc)
    BY <1>3 DEF CountInvocations, x
  <2> QED BY <1>0, <1>3, <2>1, TypeGoto DEF CountInvocations, PC, Holding, Executing, x, WorkerOK
<1>4. CASE RecordInvocation(w)
  <2>1. x.pc = "record" /\ Goto(w, "exec")
    BY <1>4 DEF RecordInvocation, x
  <2>2. invocations' \in [Runs -> Nat]
    BY <1>0, <1>4, <1>a, <2>1 DEF RecordInvocation, Holding, Executing
  <2> QED BY <1>0, <1>4, <2>1, <2>2, TypeGoto DEF RecordInvocation, PC, Holding, Executing, x, WorkerOK
<1>5. CASE ExecuteTool(w)
  <2>1. x.pc = "exec" /\ x.conf \in Confs
    BY <1>0, <1>5 DEF ExecuteTool, x, WorkerOK
  <2>2. effects' \in [Confs -> Nat]
    BY <1>0, <1>5, <2>1 DEF ExecuteTool, x
  <2>3. CASE Goto(w, "mark") \/ Goto(w, "fail")
    BY <1>0, <1>5, <2>1, <2>2, <2>3, TypeGoto DEF ExecuteTool, PC, Holding, Executing, x
  <2>4. CASE Die(w)
    BY <1>0, <1>5, <2>2, <2>4, TypeDie DEF ExecuteTool, Die
  <2> QED BY <1>5, <2>3, <2>4 DEF ExecuteTool
<1>6. CASE MarkExecuted(w)
  <2>1. x.pc = "mark" /\ x.conf \in Confs /\ Goto(w, "model")
    BY <1>0, <1>6 DEF MarkExecuted, x, WorkerOK
  <2>2. conf' \in [Confs -> ConfState]
    <3> DEFINE st == conf[x.conf].st
    <3>1. st \in {"none", "pending", "approved", "rejected", "executed", "deleted"}
      BY <1>0, <2>1 DEF ConfState
    <3>2. [conf[x.conf] EXCEPT !.st = IF st = "approved" THEN "executed" ELSE st] \in ConfState
      BY <1>0, <2>1, <3>1, ConfField
    <3>3. conf' = [conf EXCEPT ![x.conf] =
                     [conf[x.conf] EXCEPT !.st = IF st = "approved" THEN "executed" ELSE st]]
      BY <1>6 DEF MarkExecuted, x
    <3> QED BY <1>0, <2>1, <3>2, <3>3
  <2> QED BY <1>0, <1>6, <2>1, <2>2, TypeGoto DEF MarkExecuted, PC, Holding, Executing, x
<1>7. CASE SeeCancelled(w)
  BY <1>0, <1>7, TypeGoto DEF SeeCancelled, PC, Holding, Executing
<1>8. CASE FinalTurn(w)
  <2>1. x.pc = "model"
    BY <1>8 DEF FinalTurn, x
  <2>2. CASE Goto(w, "save") \/ Goto(w, "fail")
    BY <1>0, <1>8, <2>1, <2>2, TypeGoto DEF FinalTurn, PC, Holding, Executing, x
  <2>3. CASE Die(w)
    BY <1>0, <1>8, <2>3, TypeDie DEF FinalTurn, Die
  <2> QED BY <1>8, <2>2, <2>3 DEF FinalTurn
<1>9. CASE ToolTurn(w)
  <2>1. x.pc = "model"
    BY <1>9 DEF ToolTurn, x
  <2>2. CASE Goto(w, "fail")
    BY <1>0, <1>9, <2>1, <2>2, TypeGoto DEF ToolTurn, PC, Holding, Executing, x
  <2>3. CASE worker' = [worker EXCEPT ![w].calls = @ + 1]
    <3> DEFINE y == [x EXCEPT !.calls = x.calls + 1]
    <3>1. worker' = [worker EXCEPT ![w] = y]
      BY <2>3 DEF x
    <3>2. WorkerOK(y)
      BY <1>0, <2>1 DEF WorkerOK, WorkerState
    <3> QED BY <1>0, <1>9, <3>1, <3>2, OneWorker DEF ToolTurn
  <2> QED BY <1>9, <2>2, <2>3 DEF ToolTurn
<1>10. ASSUME NEW c \in Confs, ConfirmTurn(w, c)
       PROVE  /\ worker' \in [Workers -> WorkerState]
              /\ \A v \in Workers : WorkerOK(worker[v])'
              /\ conf' \in [Confs -> ConfState]
  <2> DEFINE y == [x EXCEPT !.pc = "suspend", !.calls = x.calls + 1]
  <2>1. x.pc = "model" /\ worker' = [worker EXCEPT ![w] = y]
    BY <1>10 DEF ConfirmTurn, x
  <2>0. x.calls + 1 \in Nat /\ x.cur \in 1..last
    BY <1>0, <2>1 DEF WorkerOK, WorkerState, Holding, Executing
  <2>2. WorkerOK(y)
    BY <1>0, <2>0 DEF WorkerOK, WorkerState, Holding, Executing
  <2>3. [st |-> "pending", used |-> x.calls + 1] \in ConfState
    BY <1>0 DEF ConfState, WorkerState
  <2>4. conf' \in [Confs -> ConfState]
    BY <1>0, <1>10, <2>3 DEF ConfirmTurn, x
  <2> QED BY <1>10, <2>1, <2>2, <2>4, OneWorker DEF ConfirmTurn
<1>11. CASE Suspend(w)
  <2>1. x.pc = "suspend" /\ \E pc \in {"ack", "model"} : Goto(w, pc)
    BY <1>11 DEF Suspend, x
  <2>2. run' \in [Runs -> RSM!RunState]
    BY <1>0, <1>11, <1>a, <1>b, <2>1, UpdateRunType DEF Suspend, Holding, Executing
  <2> QED BY <1>0, <1>11, <2>1, <2>2, TypeGoto DEF Suspend, PC, Holding, Executing, x
<1>12. CASE FailRun(w) \/ CompleteRun(w)
  <2>1. PICK pc \in {"fail", "complete"}, s \in {"failed", "completed"} : Finish(w, pc, s)
    BY <1>12 DEF FailRun, CompleteRun
  <2>2. x.pc \in Holding /\ (Goto(w, "ack") \/ Die(w))
    BY <2>1 DEF Finish, Holding, Executing, x
  <2>3. run' \in [Runs -> RSM!RunState]
    BY <1>0, <1>a, <1>b, <2>1, <2>2, UpdateRunType DEF Finish
  <2>4. /\ worker' \in [Workers -> WorkerState]
        /\ \A v \in Workers : WorkerOK(worker[v])'
    <3>1. UNCHANGED last
      BY <2>1 DEF Finish
    <3> QED BY <2>2, <3>1, TypeGoto, TypeDie DEF Die, PC, Holding, x
  <2> QED BY <1>0, <2>1, <2>3, <2>4 DEF Finish
<1>13. CASE SaveReply(w)
  <2>1. x.pc = "save" /\ Goto(w, "complete")
    BY <1>13 DEF SaveReply, x
  <2> QED BY <1>0, <1>13, <1>a, <2>1, TypeGoto DEF SaveReply, PC, Holding, Executing, x
<1>14. CASE DieOnErased(w)
  BY <1>0, <1>14, TypeDie DEF DieOnErased, Die
<1>15. ASSUME NEW c \in Confs, ConfirmTurn(w, c)
       PROVE  /\ run' = run /\ invocations' = invocations /\ replied' = replied
              /\ effects' = effects /\ OrchestrateFrame
  BY <1>15 DEF ConfirmTurn
<1> QED BY <1>0, <1>1, <1>2, <1>3, <1>4, <1>5, <1>6, <1>7, <1>8, <1>9, <1>10, <1>11, <1>12,
           <1>13, <1>14, <1>15 DEF Orchestrate

LEMMA TypeNext == TypeOK /\ [Next]_vars => TypeOK'
<1> SUFFICES ASSUME TypeOK, [Next]_vars PROVE TypeOK'
  OBVIOUS
<1>1. CASE SlotStep \/ UNCHANGED vars
  BY <1>1, TypeSlots
<1>2. ASSUME NEW i \in pending, GoIdle(i) PROVE TypeOK'
  BY <1>2 DEF GoIdle, TypeOK, database, slots
<1>3. ASSUME NEW w \in Workers, WorkerStep(w) PROVE TypeOK'
  BY <1>3, TypeLoop, TypeOrchestrate DEF WorkerStep
<1> QED BY <1>1, <1>2, <1>3, TypeApi, TypePub, TypeLoop DEF Next, SlotStep

\* The tables, the stream and the processes always have their types: no entry is
\* executed that was not delivered, and none is idle that is not pending.
THEOREM TypeCorrect == Spec => []TypeOK
BY TypeInit, TypeNext, PTL DEF Spec

-----------------------------------------------------------------------------
(* Refinement of the run lifecycle *)

\* The states a run can be moved to, and the ways a step can change the table of runs.
Targets == {"running", "waiting_confirmation", "completed", "failed", "cancelled"}
Moves(r, s) == RSM!CanTransition(run[r], s) /\ run' = [run EXCEPT ![r] = s]
RunStep ==
  \/ UNCHANGED run
  \/ \E r \in Runs : CreateRun(r)
  \/ \E r \in Runs, s \in Targets :
       Moves(r, s) /\ (s = "running" => \E w \in Workers : TryStartRun(w))
  \/ \E r \in Runs : run[r] \in RSM!TERMINAL_STATES /\ run' = [run EXCEPT ![r] = "deleted"]

LEMMA TargetTypes == Targets \subseteq RSM!RunState
BY DEF Targets, RSM!RunState, RSM!ACTIVE_STATES, RSM!TERMINAL_STATES

\* try_start_run claims the run from a state that may become running.
LEMMA TryStartMoves ==
  ASSUME TypeOK, NEW w \in Workers, TryStartRun(w)
  PROVE  RunStep
<1>1. RunOf(w) \in Runs
  BY EntryInHand DEF TryStartRun, Holding
<1>2. CASE UNCHANGED run
  BY <1>2 DEF RunStep
<1>3. CASE /\ run[RunOf(w)] \in Startable(worker[w].recover, Resuming(w))
           /\ run' = [run EXCEPT ![RunOf(w)] = "running"]
  <2>1. run[RunOf(w)] \in {"queued", "running", "waiting_confirmation"}
    BY <1>3 DEF Startable
  <2>2. RSM!CanTransition(run[RunOf(w)], "running")
    BY <2>1 DEF RSM!CanTransition, RSM!TRANSITIONS
  <2> QED BY <1>1, <1>3, <2>2 DEF RunStep, Moves, Targets
<1> QED BY <1>2, <1>3 DEF TryStartRun

LEMMA StepRun == TypeOK /\ [Next]_vars => RunStep
<1> SUFFICES ASSUME TypeOK, [Next]_vars, run' # run PROVE RunStep
  BY DEF RunStep
<1> USE DEF RunStep, Moves, Targets, UpdateRun
<1>1. ASSUME NEW r \in Runs, CreateRun(r) PROVE RunStep
  BY <1>1
<1>2. ASSUME NEW r \in Runs, CancelRun(r) PROVE RunStep
  BY <1>2 DEF CancelRun
<1>3. ASSUME NEW r \in Runs, DeleteConversation(r) PROVE RunStep
  BY <1>3 DEF DeleteConversation
<1>4. ASSUME NEW c \in Confs, CancelRejected(c) PROVE RunStep
  <2>1. ConfRun[c] \in Runs
    BY ConfsAssumption
  <2> QED BY <1>4, <2>1 DEF CancelRejected
<1>5. ASSUME NEW w \in Workers, TryStartRun(w) PROVE RunStep
  BY <1>5, TryStartMoves
<1>6. ASSUME NEW w \in Workers, Suspend(w) \/ FailRun(w) \/ CompleteRun(w) PROVE RunStep
  <2>1. worker[w].pc \in Holding
    BY <1>6 DEF Suspend, FailRun, CompleteRun, Finish, Holding, Executing
  <2>2. RunOf(w) \in Runs
    BY <2>1, EntryInHand
  <2> QED BY <1>6, <2>2 DEF Suspend, FailRun, CompleteRun, Finish
<1>7. CASE \E w \in Workers : Loop(w) \/ Heartbeat(w) \/ Crash(w) \/ Restart(w)
  BY <1>7 DEF Loop, Autoclaim, TakeClaimed, ReadNew, Xack, Heartbeat, Crash, Restart, database
<1>8. CASE \/ \E p \in Publishers : PubStep(p) \/ PubFail(p)
           \/ \E i \in pending : GoIdle(i)
           \/ \E c \in Confs : Approve(c) \/ Reject(c) \/ EnqueueConfirmation(c) \/ ApiCrash(c)
  BY <1>8 DEF PubStep, PubRead, PubXadd, PubMark, PubFail, GoIdle, Approve, Reject, Decide,
              EnqueueConfirmation, ApiCrash, database
<1>9. ASSUME NEW w \in Workers,
             \/ LookupConfirmation(w) \/ CountInvocations(w) \/ RecordInvocation(w)
             \/ ExecuteTool(w) \/ MarkExecuted(w) \/ SeeCancelled(w) \/ FinalTurn(w)
             \/ ToolTurn(w) \/ SaveReply(w) \/ DieOnErased(w)
             \/ \E c \in Confs : ConfirmTurn(w, c)
      PROVE  UNCHANGED run
  BY <1>9 DEF LookupConfirmation, CountInvocations, RecordInvocation, ExecuteTool, MarkExecuted,
              SeeCancelled, FinalTurn, ToolTurn, SaveReply, DieOnErased, ConfirmTurn, database
<1> HIDE DEF RunStep
<1>10. CASE SlotStep \/ UNCHANGED vars
  BY <1>10, SlotsQuiet DEF Quiet, database
<1> QED BY <1>1, <1>2, <1>3, <1>4, <1>5, <1>6, <1>7, <1>8, <1>9, <1>10
        DEF Next, ApiStep, WorkerStep, Orchestrate, SlotStep

LEMMA StepRefines == TypeOK /\ [Next]_vars => [RSM!Next]_run
<1> SUFFICES ASSUME RunStep, run' # run PROVE RSM!Next
  BY StepRun
<1>1. ASSUME NEW r \in Runs, CreateRun(r) PROVE RSM!Next
  BY <1>1 DEF CreateRun, RSM!Next, RSM!Create
<1>2. ASSUME NEW r \in Runs, NEW s \in Targets, Moves(r, s) PROVE RSM!Next
  BY <1>2, TargetTypes DEF Moves, RSM!Next, RSM!Transition
<1>3. ASSUME NEW r \in Runs, run[r] \in RSM!TERMINAL_STATES, run' = [run EXCEPT ![r] = "deleted"]
      PROVE  RSM!Next
  BY <1>3 DEF RSM!Next, RSM!Erase
<1> QED BY <1>1, <1>2, <1>3 DEF RunStep

\* RunDispatch implements RunStateMachine: whatever API handlers, publishers, workers,
\* crashes and reclaimed entries do, a run moves only along TRANSITIONS.
THEOREM Refinement == Spec => RunLifecycle
<1>1. Init => RSM!Init
  BY DEF Init, RSM!Init
<1> QED BY <1>1, StepRefines, TypeCorrect, PTL DEF Spec, RunLifecycle, RSM!Spec

-----------------------------------------------------------------------------
(* No run is lost *)

\* A run, once created, stays created; once out of the queue, it never returns.
LEMMA RunMonotone ==
  ASSUME TypeOK, [Next]_vars
  PROVE  \A r \in Runs :
           /\ run[r] # "absent" => run'[r] # "absent"
           /\ run[r] \notin {"absent", "queued"} => run'[r] \notin {"absent", "queued"}
           /\ run'[r] = "queued" => run[r] \in {"absent", "queued"}
<1>0. run \in [Runs -> RSM!RunState] /\ RunStep
  BY StepRun DEF TypeOK
<1>1. CASE \E r \in Runs : CreateRun(r)
  BY <1>0, <1>1 DEF CreateRun
<1>2. CASE \E r \in Runs, s \in Targets : Moves(r, s)
  BY <1>0, <1>2 DEF Moves, Targets
<1>3. CASE \E r \in Runs : run[r] \in RSM!TERMINAL_STATES /\ run' = [run EXCEPT ![r] = "deleted"]
  BY <1>0, <1>3
<1> QED BY <1>0, <1>1, <1>2, <1>3 DEF RunStep

Sent(k) == \E i \in DOMAIN stream : stream[i] = k

\* Outbox rows, decisions and entries exist only for runs that exist, and those of
\* a confirmation only for runs that left the queue.
RowsKnown ==
  /\ \A k \in Rows : outbox[k] # "none" => run[RowRun(k)] # "absent"
  /\ \A c \in Confs : outbox[c] # "none" \/ conf[c].st # "none" \/ deciding[c] # "no"
       => run[ConfRun[c]] \notin {"absent", "queued"}
  /\ \A p \in Publishers : \A k \in pub[p].todo \cup pub[p].row : outbox[k] # "none"
  /\ \A i \in DOMAIN stream : outbox[stream[i]] # "none"

\* A row is marked published only after it was added to the stream.
RowsSent ==
  /\ \A r \in Runs : run[r] = "queued" => outbox[r] # "none"
  /\ \A k \in Rows : outbox[k] = "published" => Sent(k)
  /\ \A p \in Publishers : \A k \in pub[p].row : Sent(k)

\* An entry is acknowledged, and executed past try_start_run, only when its run
\* has left the queue.
Claimed == Executing \cup {"ack"}
LeftQueue ==
  /\ \A i \in 1..last : i \notin pending => run[RowRun(stream[i])] # "queued"
  /\ \A w \in Workers : worker[w].pc \in Claimed => run[RunOf(w)] # "queued"

DispatchInv == TypeOK /\ RowsKnown /\ RowsSent /\ LeftQueue

LEMMA DispatchSafe == DispatchInv => NoLostRun
<1> SUFFICES ASSUME DispatchInv, NEW r \in Runs, run[r] = "queued", outbox[r] # "pending"
             PROVE  \E i \in DOMAIN stream : RowRun(stream[i]) = r /\ Outstanding(i)
  BY DEF NoLostRun
<1>1. outbox[r] = "published"
  BY RowRunType DEF DispatchInv, TypeOK, RowsSent
<1>2. PICK i \in DOMAIN stream : stream[i] = r
  BY <1>1, RowRunType DEF DispatchInv, RowsSent, Sent
<1>3. RowRun(stream[i]) = r
  BY <1>2, RowRunType
<1>4. i \in 1..Len(stream) /\ last \in 0..Len(stream) /\ Len(stream) \in Nat
  BY DEF DispatchInv, TypeOK
<1>5. i \in 1..last => i \in pending
  BY <1>3 DEF DispatchInv, LeftQueue
<1> QED BY <1>3, <1>4, <1>5 DEF Outstanding

\* A step of orchestrate_run after try_start_run: the worker keeps its entry or its
\* process ends, and it goes on to XACK only when the run is not running any more.
Move(w) ==
  /\ worker[w].pc \in Executing
  /\ \A v \in Workers \ {w} : worker'[v] = worker[v]
  /\ \/ worker'[w] = Down
     \/ /\ worker'[w].pc \in Claimed
        /\ worker'[w].cur = worker[w].cur
        /\ worker'[w].recover = worker[w].recover
        /\ worker'[w].batch = worker[w].batch
  /\ worker'[w].pc = "ack" => run'[RunOf(w)] # "running"

\* Goto seen as a Move.
LEMMA GotoMove ==
  ASSUME TypeOK, NEW w \in Workers, NEW pc \in Claimed, Goto(w, pc), worker[w].pc \in Executing,
         pc = "ack" => run'[RunOf(w)] # "running"
  PROVE  Move(w)
<1>1. worker' = [worker EXCEPT ![w] = [worker[w] EXCEPT !.pc = pc]] /\ pc \in PC
  BY DEF Goto, Claimed, PC, Holding
<1>2. worker \in [Workers -> WorkerState] /\ worker[w] \in WorkerState
  BY DEF TypeOK
<1>3. worker'[w] = [worker[w] EXCEPT !.pc = pc] /\ \A v \in Workers \ {w} : worker'[v] = worker[v]
  BY <1>1, <1>2
<1> QED BY <1>1, <1>2, <1>3, PcField DEF Move

LEMMA DieMove ==
  ASSUME TypeOK, NEW w \in Workers, Die(w), worker[w].pc \in Executing
  PROVE  Move(w)
BY DEF TypeOK, Die, Move, Down, At

LEMMA OrchestrateMove ==
  ASSUME TypeOK, NEW w \in Workers, Orchestrate(w)
  PROVE  TryStartRun(w) \/ Move(w)
<1> SUFFICES ASSUME ~TryStartRun(w) PROVE Move(w)
  OBVIOUS
<1> DEFINE x == worker[w]
<1>0. x \in WorkerState /\ worker \in [Workers -> WorkerState] /\ run \in [Runs -> RSM!RunState]
  BY DEF TypeOK
<1>a. x.pc \in Executing => RunOf(w) \in Runs
  BY EntryInHand DEF Holding
<1>1. CASE LookupConfirmation(w)
  <2>1. CASE Goto(w, "fail")
    BY <1>1, <2>1, GotoMove DEF LookupConfirmation, Executing, Claimed
  <2>2. ASSUME NEW c \in Confs,
               worker' = [worker EXCEPT ![w] =
                            [@ EXCEPT !.pc = "count", !.conf = c, !.calls = conf[c].used]]
        PROVE  Move(w)
    BY <1>0, <1>1, <2>2 DEF LookupConfirmation, Move, Executing, Claimed, WorkerState
  <2> QED BY <1>1, <2>1, <2>2 DEF LookupConfirmation, NewestApproved
<1>2. CASE CountInvocations(w)
  BY <1>2, GotoMove DEF CountInvocations, Executing, Claimed
<1>3. CASE RecordInvocation(w)
  BY <1>3, GotoMove DEF RecordInvocation, Executing, Claimed
<1>4. CASE ExecuteTool(w)
  BY <1>4, GotoMove, DieMove DEF ExecuteTool, Executing, Claimed
<1>5. CASE MarkExecuted(w)
  BY <1>5, GotoMove DEF MarkExecuted, Executing, Claimed
<1>6. CASE SeeCancelled(w)
  <2>1. run'[RunOf(w)] # "running"
    BY <1>6 DEF SeeCancelled, database
  <2> QED BY <1>6, <2>1, GotoMove DEF SeeCancelled, Executing, Claimed
<1>7. CASE FinalTurn(w)
  BY <1>7, GotoMove, DieMove DEF FinalTurn, Executing, Claimed
<1>8. CASE ToolTurn(w)
  <2>1. CASE Goto(w, "fail")
    BY <1>8, <2>1, GotoMove DEF ToolTurn, Executing, Claimed
  <2>2. CASE worker' = [worker EXCEPT ![w].calls = @ + 1]
    BY <1>0, <1>8, <2>2 DEF ToolTurn, Move, Executing, Claimed, WorkerState
  <2> QED BY <1>8, <2>1, <2>2 DEF ToolTurn
<1>9. ASSUME NEW c \in Confs, ConfirmTurn(w, c) PROVE Move(w)
  BY <1>0, <1>9 DEF ConfirmTurn, Move, Executing, Claimed, WorkerState
<1>10. CASE Suspend(w)
  <2>1. x.pc = "suspend"
    BY <1>10 DEF Suspend
  <2>2. CASE UpdateRun(RunOf(w), "waiting_confirmation") /\ Goto(w, "ack")
    <3>1. run'[RunOf(w)] # "running"
      BY <1>0, <1>a, <2>1, <2>2 DEF UpdateRun, Executing
    <3> QED BY <2>1, <2>2, <3>1, GotoMove DEF Executing, Claimed
  <2> QED BY <1>10, <2>1, <2>2, GotoMove DEF Suspend, Executing, Claimed
<1>11. CASE FailRun(w) \/ CompleteRun(w)
  <2>1. PICK pc \in {"fail", "complete"}, s \in {"failed", "completed"} : Finish(w, pc, s)
    BY <1>11 DEF FailRun, CompleteRun
  <2>2. x.pc \in Executing
    BY <2>1 DEF Finish, Executing
  <2>3. CASE UpdateRun(RunOf(w), s) /\ Goto(w, "ack")
    <3>1. run'[RunOf(w)] # "running"
      BY <1>0, <1>a, <2>2, <2>3 DEF UpdateRun
    <3> QED BY <2>2, <2>3, <3>1, GotoMove DEF Claimed
  <2> QED BY <2>1, <2>2, <2>3, DieMove DEF Finish
<1>12. CASE SaveReply(w)
  BY <1>12, GotoMove DEF SaveReply, Executing, Claimed
<1>13. CASE DieOnErased(w)
  BY <1>13, DieMove DEF DieOnErased, Executing
<1> QED BY <1>1, <1>2, <1>3, <1>4, <1>5, <1>6, <1>7, <1>8, <1>9, <1>10, <1>11, <1>12, <1>13
        DEF Orchestrate

LEMMA DispatchInit == Init => DispatchInv
<1> SUFFICES ASSUME Init PROVE RowsKnown /\ RowsSent /\ LeftQueue
  BY TypeInit DEF DispatchInv
<1>1. RowsKnown
  BY DEF Init, RowsKnown, Rows
<1>2. RowsSent
  BY DEF Init, RowsSent, Rows
<1>3. LeftQueue
  BY DEF Init, LeftQueue, Ready, At, Claimed, Executing
<1> QED BY <1>1, <1>2, <1>3

\* A step that leaves outbox, publishers and stream alone keeps the rows in order
\* when it creates confirmations and decisions only for runs that left the queue.
LEMMA RowsFrame ==
  ASSUME DispatchInv, [Next]_vars, UNCHANGED <<outbox, pub, stream>>,
         \A c \in Confs : conf'[c].st # "none" \/ deciding'[c] # "no"
            => \/ conf[c].st # "none" \/ deciding[c] # "no"
               \/ run[ConfRun[c]] \notin {"absent", "queued"}
  PROVE  RowsKnown' /\ RowsSent'
<1>1. \A c \in Confs : ConfRun[c] \in Runs
  BY ConfsAssumption
<1>2. RowsKnown'
  BY <1>1, RunMonotone, RowRunType DEF DispatchInv, RowsKnown
<1>3. ASSUME NEW r \in Runs, run'[r] = "queued", run[r] # "queued" PROVE outbox[r] # "none"
  <2>1. run[r] = "absent" /\ RunStep
    BY <1>3, RunMonotone, StepRun DEF DispatchInv
  <2>2. CASE \E q \in Runs : CreateRun(q)
    BY <1>3, <2>2 DEF CreateRun, DispatchInv, TypeOK, Rows
  <2>3. CASE \E q \in Runs, t \in Targets : Moves(q, t)
    BY <1>3, <2>3 DEF Moves, Targets, DispatchInv, TypeOK
  <2>4. CASE \E q \in Runs : run[q] \in RSM!TERMINAL_STATES /\ run' = [run EXCEPT ![q] = "deleted"]
    BY <1>3, <2>4 DEF DispatchInv, TypeOK
  <2> QED BY <1>3, <2>1, <2>2, <2>3, <2>4 DEF RunStep
<1>4. RowsSent'
  BY <1>3 DEF DispatchInv, RowsSent, Sent
<1> QED BY <1>2, <1>4

LEMMA RowsApi ==
  ASSUME DispatchInv, [Next]_vars,
         \/ \E r \in Runs : CreateRun(r) \/ CancelRun(r) \/ DeleteConversation(r)
         \/ \E c \in Confs : Approve(c) \/ Reject(c) \/ ApiStep(c) \/ ApiCrash(c)
  PROVE  RowsKnown' /\ RowsSent'
<1>0. /\ outbox \in [Rows -> {"none", "pending", "published"}] /\ run \in [Runs -> RSM!RunState]
      /\ conf \in [Confs -> ConfState] /\ deciding \in [Confs -> {"no", "enqueue", "cancel"}]
      /\ \A c \in Confs : ConfRun[c] \in Runs
      /\ \A p \in Publishers : pub[p].todo \subseteq Rows /\ pub[p].row \subseteq Rows
      /\ \A i \in DOMAIN stream : stream[i] \in Rows
  BY ConfsAssumption DEF DispatchInv, TypeOK
<1>1. ASSUME NEW r \in Runs, CreateRun(r) PROVE RowsKnown' /\ RowsSent'
  <2>1. /\ outbox' = [outbox EXCEPT ![r] = "pending"] /\ run' = [run EXCEPT ![r] = "queued"]
        /\ UNCHANGED <<conf, deciding, pub, stream>> /\ run[r] = "absent"
    BY <1>1 DEF CreateRun, redis
  <2>2. RowsKnown'
    BY <1>0, <2>1, RowRunType DEF DispatchInv, RowsKnown
  <2>3. RowsSent'
    BY <1>0, <2>1, RowRunType DEF DispatchInv, RowsSent, Sent
  <2> QED BY <2>2, <2>3
<1>2. ASSUME NEW r \in Runs, CancelRun(r) PROVE RowsKnown' /\ RowsSent'
  BY <1>2, RowsFrame DEF CancelRun, redis
<1>3. ASSUME NEW r \in Runs, DeleteConversation(r) PROVE RowsKnown' /\ RowsSent'
  <2>1. \A c \in Confs : conf'[c].st # "none" => conf[c].st # "none"
    BY <1>3 DEF DeleteConversation
  <2> QED BY <1>3, <2>1, RowsFrame DEF DeleteConversation, redis
<1>4. ASSUME NEW c \in Confs, Approve(c) \/ Reject(c) PROVE RowsKnown' /\ RowsSent'
  <2>1. PICK s \in {"approved", "rejected"}, d \in {"enqueue", "cancel"} : Decide(c, s, d)
    BY <1>4 DEF Approve, Reject
  <2>2. \A e \in Confs : conf'[e].st # "none" \/ deciding'[e] # "no"
           => conf[e].st # "none" \/ deciding[e] # "no"
    BY <1>0, <2>1 DEF Decide
  <2> QED BY <2>1, <2>2, RowsFrame DEF Decide, redis
<1>5. ASSUME NEW c \in Confs, EnqueueConfirmation(c) PROVE RowsKnown' /\ RowsSent'
  <2>1. /\ outbox' = [outbox EXCEPT ![c] = "pending"] /\ deciding[c] # "no"
        /\ deciding' = [deciding EXCEPT ![c] = "no"] /\ UNCHANGED <<run, conf, pub, stream>>
    BY <1>5 DEF EnqueueConfirmation, redis
  <2>2. run[ConfRun[c]] \notin {"absent", "queued"} /\ c \in Rows /\ RowRun(c) = ConfRun[c]
    BY <2>1, RowRunType DEF DispatchInv, RowsKnown
  <2>3. RowsKnown'
    BY <1>0, <2>1, <2>2, RowRunType DEF DispatchInv, RowsKnown
  <2>4. RowsSent'
    BY <1>0, <2>1, <2>2, RowRunType DEF DispatchInv, RowsSent, Sent
  <2> QED BY <2>3, <2>4
<1>6. ASSUME NEW c \in Confs, CancelRejected(c) \/ ApiCrash(c) PROVE RowsKnown' /\ RowsSent'
  <2>1. UNCHANGED <<outbox, pub, stream, conf>> /\ deciding' = [deciding EXCEPT ![c] = "no"]
    BY <1>6 DEF CancelRejected, ApiCrash, redis, database
  <2>2. \A e \in Confs : deciding'[e] # "no" => deciding[e] # "no"
    BY <1>0, <2>1
  <2> QED BY <2>1, <2>2, RowsFrame
<1> QED BY <1>1, <1>2, <1>3, <1>4, <1>5, <1>6 DEF ApiStep

LEMMA RowsPub ==
  ASSUME DispatchInv, [Next]_vars, NEW p \in Publishers, PubStep(p) \/ PubFail(p)
  PROVE  RowsKnown' /\ RowsSent'
<1>0. /\ outbox \in [Rows -> {"none", "pending", "published"}] /\ stream \in Seq(Rows)
      /\ pub \in [Publishers -> [pc : {"idle", "xadd", "mark"}, todo : SUBSET Rows, row : SUBSET Rows]]
  BY DEF DispatchInv, TypeOK
<1>1. CASE PubRead(p)
  <2> DEFINE rows == {k \in Rows : outbox[k] = "pending"}
  <2>1. /\ pub' = [pub EXCEPT ![p] = [pc |-> "xadd", todo |-> rows, row |-> {}]]
        /\ UNCHANGED <<run, outbox, conf, deciding, stream>>
    BY <1>1 DEF PubRead, database, redis
  <2>2. \A q \in Publishers : /\ pub'[q].row \subseteq pub[q].row
                              /\ \A k \in pub'[q].todo : k \in pub[q].todo \/ outbox[k] # "none"
    BY <1>0, <2>1
  <2> QED BY <2>1, <2>2 DEF DispatchInv, RowsKnown, RowsSent, Sent
<1>2. CASE PubXadd(p)
  <2>1. PICK k \in pub[p].todo :
          /\ stream' = Append(stream, k)
          /\ pub' = [pub EXCEPT ![p] = [pc |-> "mark", todo |-> @.todo \ {k}, row |-> {k}]]
    BY <1>2 DEF PubXadd
  <2>2. UNCHANGED <<run, outbox, conf, deciding>>
    BY <1>2 DEF PubXadd, database
  <2>3. k \in Rows /\ outbox[k] # "none"
    BY <1>0 DEF DispatchInv, RowsKnown
  <2>4. \A q \in Publishers : /\ pub'[q].todo \subseteq pub[q].todo
                              /\ pub'[q].row \subseteq pub[q].row \cup {k}
    BY <1>0, <2>1
  <2>5. /\ \A i \in DOMAIN stream' : stream'[i] = k \/ \E j \in DOMAIN stream : stream'[i] = stream[j]
        /\ \E i \in DOMAIN stream' : stream'[i] = k
        /\ \A j \in DOMAIN stream : \E i \in DOMAIN stream' : stream'[i] = stream[j]
    <3>1. /\ Len(stream) \in Nat /\ DOMAIN stream = 1..Len(stream)
          /\ DOMAIN stream' = 1..(Len(stream) + 1)
          /\ \A i \in 1..Len(stream) : stream'[i] = stream[i]
          /\ stream'[Len(stream) + 1] = k
      BY <1>0, <2>1, <2>3, AppendEntry
    <3> QED BY <3>1
  <2>6. RowsKnown'
    BY <2>2, <2>3, <2>4, <2>5 DEF DispatchInv, RowsKnown
  <2>7. \A j \in Rows : Sent(j) \/ j = k => Sent(j)'
    BY <2>5 DEF Sent
  <2>8. RowsSent'
    BY <1>0, <2>2, <2>3, <2>4, <2>7 DEF DispatchInv, RowsSent
  <2> QED BY <2>6, <2>8
<1>3. CASE PubMark(p)
  <2>1. /\ UNCHANGED <<run, conf, deciding, stream>>
        /\ outbox' = [k \in Rows |-> IF k \in pub[p].row /\ outbox[k] = "pending"
                                       THEN "published" ELSE outbox[k]]
        /\ pub' = [pub EXCEPT ![p] =
             [pc |-> IF @.todo = {} THEN "idle" ELSE "xadd", todo |-> @.todo, row |-> {}]]
    BY <1>3 DEF PubMark, redis
  <2>2. \A q \in Publishers : pub'[q].todo = pub[q].todo /\ pub'[q].row \subseteq pub[q].row
    BY <1>0, <2>1
  <2>3. \A k \in Rows : /\ outbox'[k] = "none" <=> outbox[k] = "none"
                        /\ outbox'[k] = "published" => outbox[k] = "published" \/ k \in pub[p].row
    BY <1>0, <2>1
  <2>4. \A i \in DOMAIN stream : stream[i] \in Rows
    BY <1>0
  <2>5. RowsKnown'
    BY <1>0, <2>1, <2>2, <2>3, <2>4, ConfsAssumption DEF DispatchInv, RowsKnown, Rows
  <2>6. RowsSent'
    BY <2>1, <2>2, <2>3, RowRunType DEF DispatchInv, RowsSent, Sent
  <2> QED BY <2>5, <2>6
<1>4. CASE PubFail(p)
  <2>1. /\ pub' = [pub EXCEPT ![p] = [pc |-> "idle", todo |-> {}, row |-> {}]]
        /\ UNCHANGED <<run, outbox, conf, deciding, stream>>
    BY <1>4 DEF PubFail, database, redis
  <2>2. \A q \in Publishers : pub'[q].todo \subseteq pub[q].todo /\ pub'[q].row \subseteq pub[q].row
    BY <1>0, <2>1
  <2> QED BY <2>1, <2>2 DEF DispatchInv, RowsKnown, RowsSent, Sent
<1> QED BY <1>1, <1>2, <1>3, <1>4 DEF PubStep

LEMMA RowsOther ==
  ASSUME DispatchInv, [Next]_vars,
         \/ Quiet
         \/ \E w \in Workers : Loop(w) \/ Heartbeat(w) \/ Crash(w) \/ Restart(w)
         \/ \E i \in pending : GoIdle(i)
  PROVE  RowsKnown' /\ RowsSent'
<1>1. UNCHANGED <<outbox, pub, stream, conf, deciding>>
  BY DEF Quiet, Loop, Autoclaim, TakeClaimed, ReadNew, Xack, Heartbeat, Crash, Restart, GoIdle,
         database, redis
<1> QED BY <1>1, RowsFrame

LEMMA RowsOrchestrate ==
  ASSUME DispatchInv, [Next]_vars, NEW w \in Workers, Orchestrate(w)
  PROVE  RowsKnown' /\ RowsSent'
<1>0. UNCHANGED <<outbox, pub, stream, deciding>>
  BY TypeOrchestrate DEF OrchestrateFrame, redis, DispatchInv
<1>1. CASE UNCHANGED conf
  BY <1>0, <1>1, RowsFrame
<1>2. CASE MarkExecuted(w)
  <2>1. conf \in [Confs -> ConfState] /\ worker[w].conf \in Confs
    BY <1>2 DEF DispatchInv, TypeOK, MarkExecuted
  <2>2. \A e \in Confs : conf'[e].st # "none" => conf[e].st # "none"
    BY <1>2, <2>1, ConfField DEF MarkExecuted, ConfState
  <2> QED BY <1>0, <2>2, RowsFrame
<1>3. ASSUME NEW c \in Confs, ConfirmTurn(w, c) PROVE RowsKnown' /\ RowsSent'
  <2>1. worker[w].pc \in Claimed /\ worker[w].pc \in Holding /\ ConfRun[c] = RunOf(w)
    BY <1>3 DEF ConfirmTurn, Claimed, Executing, Holding
  <2>2. run[ConfRun[c]] \notin {"absent", "queued"}
    <3>1. run[RunOf(w)] # "queued"
      BY <2>1 DEF DispatchInv, LeftQueue
    <3>2. stream[worker[w].cur] \in Rows /\ outbox[stream[worker[w].cur]] # "none"
      BY <2>1, EntryInHand DEF DispatchInv, RowsKnown
    <3> QED BY <2>1, <3>1, <3>2 DEF DispatchInv, RowsKnown, RunOf
  <2>3. \A e \in Confs \ {c} : conf'[e] = conf[e]
    BY <1>3 DEF ConfirmTurn, DispatchInv, TypeOK
  <2> QED BY <1>0, <2>2, <2>3, RowsFrame
<1>4. MarkExecuted(w) \/ (\E c \in Confs : ConfirmTurn(w, c)) \/ UNCHANGED conf
  BY DEF Orchestrate, TryStartRun, LookupConfirmation, CountInvocations, RecordInvocation,
         ExecuteTool, SeeCancelled, FinalTurn, ToolTurn, Suspend, FailRun, CompleteRun, Finish,
         SaveReply, DieOnErased, database
<1> QED BY <1>1, <1>2, <1>3, <1>4

\* A step that hands out no entry, acknowledges none and moves no worker past
\* try_start_run keeps LeftQueue.
LEMMA LeftQueueFrame ==
  ASSUME DispatchInv, [Next]_vars, UNCHANGED <<last, pending>>,
         \A i \in 1..last : stream'[i] = stream[i],
         \A w \in Workers : worker'[w].pc \in Claimed =>
            worker'[w].cur = worker[w].cur /\ worker[w].pc \in Claimed
  PROVE  LeftQueue'
<1>1. \A i \in 1..last : stream[i] \in Rows /\ RowRun(stream[i]) \in Runs
                         /\ run[RowRun(stream[i])] # "absent"
  <2> SUFFICES ASSUME NEW i \in 1..last
               PROVE  stream[i] \in Rows /\ RowRun(stream[i]) \in Runs
                      /\ run[RowRun(stream[i])] # "absent"
    OBVIOUS
  <2>1. i \in DOMAIN stream /\ stream[i] \in Rows
    BY DEF DispatchInv, TypeOK
  <2> QED BY <2>1, RowRunType DEF DispatchInv, RowsKnown
<1>2. \A i \in 1..last : run[RowRun(stream[i])] # "queued" => run'[RowRun(stream[i])] # "queued"
  BY <1>1, RunMonotone DEF DispatchInv
<1>3. \A w \in Workers : worker[w].pc \in Claimed => worker[w].cur \in 1..last
  BY EntryInHand DEF DispatchInv, Claimed, Holding
<1> QED BY <1>2, <1>3 DEF DispatchInv, LeftQueue, RunOf

LEMMA LeftQueueLoop ==
  ASSUME DispatchInv, [Next]_vars, NEW w \in Workers,
         Loop(w) \/ Heartbeat(w) \/ Crash(w) \/ Restart(w)
  PROVE  LeftQueue'
<1>b. UNCHANGED <<stream, run>>
  BY DEF Loop, Autoclaim, TakeClaimed, ReadNew, Xack, Heartbeat, Crash, Restart, database, redis
<1>0. /\ worker \in [Workers -> WorkerState] /\ UNCHANGED <<stream, run>>
      /\ last \in 0..Len(stream) /\ Len(stream) \in Nat /\ pending \subseteq 1..last
  BY <1>b DEF DispatchInv, TypeOK
<1>a. \A pc \in {"claim", "next", "start", "down"}, cur \in Nat, batch \in SUBSET Nat, rec \in BOOLEAN :
        At(pc, cur, batch, rec).pc \notin Claimed
  BY DEF At, Claimed, Executing
<1>1. CASE Autoclaim(w) \/ TakeClaimed(w) \/ Heartbeat(w) \/ Crash(w) \/ Restart(w)
  <2>1. UNCHANGED <<last, pending>>
    BY <1>1 DEF Autoclaim, TakeClaimed, Heartbeat, Crash, Restart, redis
  <2>2. worker'[w].pc \notin Claimed \/ worker' = worker
    BY <1>0, <1>1 DEF Autoclaim, TakeClaimed, Heartbeat, Crash, Restart, Die, Ready, Down,
                      At, Claimed, Executing
  <2>3. \A v \in Workers \ {w} : worker'[v] = worker[v]
    BY <1>0, <1>1 DEF Autoclaim, TakeClaimed, Heartbeat, Crash, Restart, Die
  <2> QED BY <1>0, <2>1, <2>2, <2>3, LeftQueueFrame
<1>2. CASE ReadNew(w)
  <2>1. /\ \A v \in Workers \ {w} : worker'[v] = worker[v]
        /\ worker'[w].pc \notin Claimed
    BY <1>0, <1>2 DEF ReadNew, Ready, At, Claimed, Executing
  <2>2. CASE last' = last + 1 /\ pending' = pending \cup {last + 1}
    BY <1>0, <2>1, <2>2 DEF DispatchInv, LeftQueue, RunOf
  <2>3. CASE UNCHANGED <<last, pending>>
    BY <1>0, <2>1, <2>3, LeftQueueFrame
  <2> QED BY <1>2, <2>2, <2>3 DEF ReadNew
<1>3. CASE Xack(w)
  <2>1. /\ worker[w].pc \in Claimed /\ pending' = pending \ {worker[w].cur} /\ UNCHANGED last
        /\ \A v \in Workers \ {w} : worker'[v] = worker[v]
        /\ worker'[w].pc \notin Claimed
    BY <1>0, <1>3 DEF Xack, At, Claimed, Executing
  <2>2. run[RowRun(stream[worker[w].cur])] # "queued"
    BY <2>1 DEF DispatchInv, LeftQueue, RunOf
  <2> QED BY <1>0, <2>1, <2>2 DEF DispatchInv, LeftQueue, RunOf
<1> QED BY <1>1, <1>2, <1>3 DEF Loop

LEMMA LeftQueueTryStart ==
  ASSUME DispatchInv, [Next]_vars, NEW w \in Workers, TryStartRun(w)
  PROVE  LeftQueue'
<1>0. /\ worker \in [Workers -> WorkerState] /\ run \in [Runs -> RSM!RunState]
      /\ worker[w].pc \in Holding /\ worker[w].pc = "start" /\ UNCHANGED <<stream, last, pending>>
  BY DEF DispatchInv, TypeOK, TryStartRun, Holding, redis
<1>1. /\ RunOf(w) \in Runs /\ stream[worker[w].cur] \in Rows
      /\ worker[w].cur \in 1..last /\ worker[w].cur \in DOMAIN stream
  BY <1>0, EntryInHand DEF DispatchInv
<1>2. run'[RunOf(w)] # "queued"
  <2>1. CASE run' = [run EXCEPT ![RunOf(w)] = "running"]
    BY <1>0, <1>1, <2>1
  <2>2. CASE run[RunOf(w)] \notin Startable(worker[w].recover, Resuming(w)) /\ UNCHANGED run
    <3>1. CASE ~worker[w].recover /\ Resuming(w)
      <4>1. outbox[stream[worker[w].cur]] # "none" /\ stream[worker[w].cur] \in Confs
        BY <1>1, <3>1 DEF Resuming, DispatchInv, RowsKnown
      <4>2. run[ConfRun[stream[worker[w].cur]]] # "queued"
        BY <4>1 DEF DispatchInv, RowsKnown
      <4> QED BY <2>2, <4>1, <4>2 DEF RunOf, RowRun
    <3>2. CASE worker[w].recover \/ ~Resuming(w)
      <4>1. "queued" \in Startable(worker[w].recover, Resuming(w))
        BY <3>2 DEF Startable
      <4> QED BY <2>2, <4>1
    <3> QED BY <3>1, <3>2
  <2> QED BY <2>1, <2>2 DEF TryStartRun
<1>3. /\ worker'[w].cur = worker[w].cur
      /\ \A v \in Workers \ {w} : worker'[v] = worker[v]
  <2>1. PICK pc \in {"lookup", "model", "ack"} : Goto(w, pc)
    BY DEF TryStartRun
  <2> QED BY <1>0, <2>1 DEF Goto, WorkerState
<1>4. \A i \in 1..last : run[RowRun(stream[i])] # "queued" => run'[RowRun(stream[i])] # "queued"
  <2> SUFFICES ASSUME NEW i \in 1..last
               PROVE  run[RowRun(stream[i])] # "queued" => run'[RowRun(stream[i])] # "queued"
    OBVIOUS
  <2>1. i \in DOMAIN stream /\ stream[i] \in Rows
    BY DEF DispatchInv, TypeOK
  <2>2. RowRun(stream[i]) \in Runs /\ run[RowRun(stream[i])] # "absent"
    BY <2>1, RowRunType DEF DispatchInv, RowsKnown
  <2> QED BY <2>2, RunMonotone DEF DispatchInv
<1>5. \A v \in Workers : worker[v].pc \in Claimed => worker[v].cur \in 1..last
  BY EntryInHand DEF DispatchInv, Claimed, Holding
<1> QED BY <1>0, <1>2, <1>3, <1>4, <1>5 DEF DispatchInv, LeftQueue, RunOf

LEMMA DispatchNext == DispatchInv /\ [Next]_vars => DispatchInv'
<1> SUFFICES ASSUME DispatchInv, [Next]_vars PROVE RowsKnown' /\ RowsSent' /\ LeftQueue'
  BY TypeNext DEF DispatchInv
<1>0. stream \in Seq(Rows) /\ last \in 0..Len(stream) /\ Len(stream) \in Nat
      /\ \A p \in Publishers : pub[p].todo \subseteq Rows
  BY DEF DispatchInv, TypeOK
<1>1. CASE Quiet
  <2>1. RowsKnown' /\ RowsSent'
    BY <1>1, RowsOther
  <2> QED BY <1>1, <2>1, LeftQueueFrame DEF Quiet, redis
<1>2. CASE \/ \E r \in Runs : CreateRun(r) \/ CancelRun(r) \/ DeleteConversation(r)
           \/ \E c \in Confs : Approve(c) \/ Reject(c) \/ ApiStep(c) \/ ApiCrash(c)
  <2>1. UNCHANGED <<stream, last, pending, worker>>
    BY <1>2 DEF CreateRun, CancelRun, DeleteConversation, Approve, Reject, Decide, ApiStep,
                EnqueueConfirmation, CancelRejected, ApiCrash, redis
  <2> QED BY <1>2, <2>1, RowsApi, LeftQueueFrame
<1>3. ASSUME NEW p \in Publishers, PubStep(p) \/ PubFail(p) PROVE RowsKnown' /\ RowsSent' /\ LeftQueue'
  <2>1. UNCHANGED <<last, pending, worker>>
    BY <1>3 DEF PubStep, PubRead, PubXadd, PubMark, PubFail, redis
  <2>2. \A i \in 1..last : stream'[i] = stream[i]
    BY <1>0, <1>3, AppendEntry DEF PubStep, PubRead, PubXadd, PubMark, PubFail, redis
  <2> QED BY <1>3, <2>1, <2>2, RowsPub, LeftQueueFrame
<1>4. ASSUME NEW i \in pending, GoIdle(i) PROVE RowsKnown' /\ RowsSent' /\ LeftQueue'
  <2>1. UNCHANGED <<stream, last, pending, worker>>
    BY <1>4 DEF GoIdle
  <2> QED BY <1>4, <2>1, RowsOther, LeftQueueFrame
<1>5. ASSUME NEW w \in Workers, Loop(w) \/ Heartbeat(w) \/ Crash(w) \/ Restart(w)
      PROVE  RowsKnown' /\ RowsSent' /\ LeftQueue'
  BY <1>5, RowsOther, LeftQueueLoop
<1>6. ASSUME NEW w \in Workers, Orchestrate(w) PROVE RowsKnown' /\ RowsSent' /\ LeftQueue'
  <2>1. RowsKnown' /\ RowsSent'
    BY <1>6, RowsOrchestrate
  <2>2. CASE Move(w)
    <3>1. UNCHANGED <<stream, last, pending>>
      BY <1>6, TypeOrchestrate DEF OrchestrateFrame, redis, DispatchInv
    <3>2. \A v \in Workers : worker'[v].pc \in Claimed =>
             worker'[v].cur = worker[v].cur /\ worker[v].pc \in Claimed
      BY <2>2 DEF Move, Claimed, Executing, Down, At
    <3> QED BY <2>1, <3>1, <3>2, LeftQueueFrame
  <2>3. CASE TryStartRun(w)
    BY <2>1, <2>3, LeftQueueTryStart
  <2> QED BY <1>6, <2>1, <2>2, <2>3, OrchestrateMove DEF DispatchInv
<1> QED BY <1>1, <1>2, <1>3, <1>4, <1>5, <1>6, SlotsQuiet DEF Next, WorkerStep, SlotStep

LEMMA DispatchAlways == Spec => []DispatchInv
BY DispatchInit, DispatchNext, PTL DEF Spec

\* A queued run is never forgotten between outbox, stream, worker and acknowledgement,
\* with any number of publishers, workers and faults.
THEOREM QueuedRunsKept == Spec => []NoLostRun
BY DispatchAlways, DispatchSafe, PTL

-----------------------------------------------------------------------------
(* A running run can always be taken over *)

\* The first delivery of an entry is exclusive: nobody else holds it or has claimed it.
Exclusive ==
  \A w \in Workers : worker[w].pc \in Holding /\ ~worker[w].recover =>
    /\ worker[w].cur \in pending \ idle
    /\ \A v \in Workers \ {w} : /\ worker[v].pc \in Holding => worker[v].cur # worker[w].cur
                                /\ worker[w].cur \notin worker[v].batch

\* A worker that acknowledges its entry next, or is about to find that the run of its
\* first delivery is not startable, does not count as somebody who keeps the entry.
Leaving(w) == worker[w].pc = "ack" \/ (worker[w].pc = "start" /\ ~worker[w].recover)

\* Every running run has a pending entry that no worker is about to acknowledge.
Keeps(i, r) == /\ i \in pending /\ RowRun(stream[i]) = r
               /\ \A w \in Workers : Leaving(w) => worker[w].cur # i
Witnessed == \A r \in Runs : run[r] = "running" => \E i \in pending : Keeps(i, r)

RecoverInv == DispatchInv /\ Exclusive /\ Witnessed

LEMMA RecoverSafe == RecoverInv => RunningRecoverable
BY DEF RecoverInv, Witnessed, Keeps, RunningRecoverable

LEMMA RecoverInit == Init => RecoverInv
<1> SUFFICES ASSUME Init PROVE Exclusive /\ Witnessed
  BY DispatchInit DEF RecoverInv
<1>1. Exclusive
  BY DEF Init, Exclusive, Ready, At, Holding, Executing
<1>2. Witnessed
  BY DEF Init, Witnessed
<1> QED BY <1>1, <1>2

\* A step that gives no worker an entry, and takes none of a first delivery away.
LEMMA ExclusiveFrame ==
  ASSUME Exclusive,
         \A v \in Workers : /\ worker'[v].pc \in Holding =>
                                /\ worker[v].pc \in Holding
                                /\ worker'[v].cur = worker[v].cur
                                /\ worker'[v].recover = worker[v].recover
                            /\ worker'[v].batch \subseteq worker[v].batch,
         \A v \in Workers : worker'[v].pc \in Holding /\ ~worker[v].recover
                              => worker[v].cur \notin (pending \ pending') \cup (idle' \ idle)
  PROVE  Exclusive'
BY DEF Exclusive

\* A step that starts no run, and acknowledges only entries of workers that leave.
LEMMA WitnessFrame ==
  ASSUME RecoverInv,
         \A r \in Runs : run'[r] = "running" => run[r] = "running",
         \A i \in pending : stream'[i] = stream[i],
         \A i \in pending \ pending' : \E w \in Workers : Leaving(w) /\ worker[w].cur = i,
         \A w \in Workers : Leaving(w)' =>
            \/ Leaving(w) /\ worker'[w].cur = worker[w].cur
            \/ worker'[w].cur \notin pending
            \/ run'[RowRun(stream[worker'[w].cur])] # "running"
  PROVE  Witnessed'
<1> SUFFICES ASSUME NEW r \in Runs, run'[r] = "running" PROVE \E i \in pending' : Keeps(i, r)'
  BY DEF Witnessed
<1>1. PICK i \in pending : Keeps(i, r)
  BY DEF RecoverInv, Witnessed
<1>2. i \in pending' /\ RowRun(stream'[i]) = r /\ RowRun(stream[i]) = r
  BY <1>1 DEF Keeps
<1>3. ASSUME NEW w \in Workers, Leaving(w)' PROVE worker'[w].cur # i
  BY <1>1, <1>2, <1>3 DEF Keeps
<1> QED BY <1>2, <1>3 DEF Keeps

\* Only try_start_run makes a run running.
LEMMA OnlyTryStart ==
  ASSUME TypeOK, [Next]_vars, \A w \in Workers : ~TryStartRun(w)
  PROVE  \A r \in Runs : run'[r] = "running" => run[r] = "running"
<1>0. run \in [Runs -> RSM!RunState] /\ RunStep
  BY StepRun DEF TypeOK
<1>1. CASE \E r \in Runs : CreateRun(r)
  BY <1>0, <1>1 DEF CreateRun
<1>2. CASE \E r \in Runs, s \in Targets \ {"running"} : Moves(r, s)
  BY <1>0, <1>2 DEF Moves, Targets
<1>3. CASE \E r \in Runs : run[r] \in RSM!TERMINAL_STATES /\ run' = [run EXCEPT ![r] = "deleted"]
  BY <1>0, <1>3
<1> QED BY <1>0, <1>1, <1>2, <1>3 DEF RunStep

LEMMA TryStartMovesPc ==
  ASSUME TypeOK, NEW w \in Workers, TryStartRun(w)
  PROVE  worker[w].pc = "start" /\ worker'[w].pc # "start"
BY DEF TypeOK, TryStartRun, Goto, WorkerState

\* The API process and the publishers touch neither workers nor pending entries.
LEMMA RecoverOutside ==
  ASSUME RecoverInv, [Next]_vars, UNCHANGED <<worker, pending>>, idle' \subseteq idle \/
         \E j \in pending : GoIdle(j),
         \A i \in pending : stream'[i] = stream[i]
  PROVE  Exclusive' /\ Witnessed'
<1>1. \A w \in Workers : ~TryStartRun(w)
  BY TryStartMovesPc DEF RecoverInv, DispatchInv
<1>2. Witnessed'
  BY <1>1, OnlyTryStart, WitnessFrame DEF RecoverInv, DispatchInv, Leaving
<1>3. \A w \in Workers : worker[w].pc \in Holding => worker[w].cur \notin idle' \ idle
  BY DEF GoIdle, Heartbeating
<1>4. Exclusive'
  BY <1>3, ExclusiveFrame DEF RecoverInv
<1> QED BY <1>2, <1>4

LEMMA RecoverLoop ==
  ASSUME RecoverInv, [Next]_vars, NEW w \in Workers, Loop(w) \/ Crash(w) \/ Restart(w)
  PROVE  Exclusive' /\ Witnessed'
<1>b. UNCHANGED <<stream, run>>
  BY DEF Loop, Autoclaim, TakeClaimed, ReadNew, Xack, Crash, Restart, database, redis
<1>0. /\ worker \in [Workers -> WorkerState]
      /\ last \in 0..Len(stream) /\ Len(stream) \in Nat /\ pending \subseteq 1..last /\ idle \subseteq pending
      /\ \A v \in Workers : /\ worker[v].pc \in Holding => worker[v].cur \in 1..last
                            /\ worker[v].batch \subseteq 1..last
  BY DEF RecoverInv, DispatchInv, TypeOK
<1> USE DEF Holding, Executing, Leaving, At
<1>1. CASE Autoclaim(w)
  <2>1. PICK claimed \in SUBSET idle :
          /\ idle' = idle \ claimed
          /\ worker' = [worker EXCEPT ![w] = At("next", 0, claimed, FALSE)]
    BY <1>1 DEF Autoclaim
  <2>2. UNCHANGED <<last, pending>>
    BY <1>1 DEF Autoclaim
  <2>3. /\ \A v \in Workers \ {w} : worker'[v] = worker[v]
        /\ worker'[w].pc = "next" /\ worker'[w].batch = claimed
    BY <1>0, <2>1
  <2>4. Exclusive'
    BY <2>1, <2>2, <2>3 DEF RecoverInv, Exclusive
  <2>5. Witnessed'
    BY <1>b, <2>2, <2>3, WitnessFrame
  <2> QED BY <2>4, <2>5
<1>2. CASE TakeClaimed(w)
  <2>1. PICK i \in worker[w].batch :
          worker' = [worker EXCEPT ![w] = At("start", i, worker[w].batch \ {i}, TRUE)]
    BY <1>2 DEF TakeClaimed
  <2>2. UNCHANGED <<last, pending, idle>>
    BY <1>2 DEF TakeClaimed, redis
  <2>3. /\ \A v \in Workers \ {w} : worker'[v] = worker[v]
        /\ worker'[w].pc = "start" /\ worker'[w].cur = i /\ worker'[w].recover = TRUE
        /\ worker'[w].batch = worker[w].batch \ {i}
    BY <1>0, <2>1
  <2>4. Exclusive'
    BY <2>2, <2>3 DEF RecoverInv, Exclusive
  <2>5. Witnessed'
    BY <1>b, <2>2, <2>3, WitnessFrame
  <2> QED BY <2>4, <2>5
<1>3. CASE ReadNew(w)
  <2>1. CASE /\ last' = last + 1 /\ pending' = pending \cup {last + 1}
             /\ worker' = [worker EXCEPT ![w] = At("start", last + 1, {}, FALSE)]
    <3>1. /\ \A v \in Workers \ {w} : worker'[v] = worker[v]
          /\ worker'[w].pc = "start" /\ worker'[w].cur = last + 1 /\ worker'[w].recover = FALSE
          /\ worker'[w].batch = {} /\ UNCHANGED idle
      BY <1>0, <1>3, <2>1 DEF ReadNew
    <3>2. last + 1 \notin 1..last /\ last + 1 \notin pending /\ last + 1 \notin idle
      BY <1>0
    <3>3. Exclusive'
      <4>1. ASSUME NEW v \in Workers, worker'[v].pc \in Holding, ~worker'[v].recover, v # w
            PROVE  /\ worker'[v].cur \in pending' \ idle'
                   /\ \A u \in Workers \ {v} : /\ worker'[u].pc \in Holding => worker'[u].cur # worker'[v].cur
                                               /\ worker'[v].cur \notin worker'[u].batch
        BY <1>0, <2>1, <3>1, <3>2, <4>1 DEF RecoverInv, Exclusive
      <4>2. /\ worker'[w].cur \in pending' \ idle'
            /\ \A u \in Workers \ {w} : /\ worker'[u].pc \in Holding => worker'[u].cur # worker'[w].cur
                                        /\ worker'[w].cur \notin worker'[u].batch
        BY <1>0, <2>1, <3>1, <3>2
      <4> QED BY <4>1, <4>2 DEF Exclusive
    <3>4. Witnessed'
      BY <1>b, <2>1, <3>1, <3>2, WitnessFrame
    <3> QED BY <3>3, <3>4
  <2>2. CASE worker' = [worker EXCEPT ![w] = Ready] /\ UNCHANGED <<last, pending>>
    <3>1. /\ \A v \in Workers \ {w} : worker'[v] = worker[v]
          /\ worker'[w].pc = "claim" /\ worker'[w].batch = {} /\ UNCHANGED idle
      BY <1>0, <1>3, <2>2 DEF ReadNew, Ready
    <3>2. Exclusive'
      BY <2>2, <3>1 DEF RecoverInv, Exclusive
    <3> QED BY <1>b, <2>2, <3>1, <3>2, WitnessFrame
  <2> QED BY <1>3, <2>1, <2>2 DEF ReadNew
<1>4. CASE Xack(w)
  <2>1. /\ \A v \in Workers \ {w} : worker'[v] = worker[v]
        /\ worker'[w].pc \in {"next", "claim"} /\ worker'[w].batch = worker[w].batch
        /\ pending' = pending \ {worker[w].cur} /\ idle' = idle \ {worker[w].cur}
        /\ worker[w].pc = "ack"
    BY <1>0, <1>4 DEF Xack
  <2>2. Exclusive'
    BY <2>1 DEF RecoverInv, Exclusive
  <2>3. Witnessed'
    BY <1>b, <2>1, WitnessFrame
  <2> QED BY <2>2, <2>3
<1>5. CASE Crash(w) \/ Restart(w)
  <2>1. /\ \A v \in Workers \ {w} : worker'[v] = worker[v]
        /\ worker'[w].pc \in {"down", "claim"} /\ worker'[w].batch = {}
        /\ UNCHANGED <<pending, idle>>
    BY <1>0, <1>5 DEF Crash, Restart, Die, Ready, Down, redis
  <2>2. Exclusive'
    BY <2>1 DEF RecoverInv, Exclusive
  <2>3. Witnessed'
    BY <1>b, <2>1, WitnessFrame
  <2> QED BY <2>2, <2>3
<1> QED BY <1>1, <1>2, <1>3, <1>4, <1>5 DEF Loop

\* A step past try_start_run takes no entry and leaves only a run that is not running.
LEMMA RecoverMove ==
  ASSUME RecoverInv, [Next]_vars, NEW w \in Workers, Move(w), UNCHANGED <<stream, pending, idle>>
  PROVE  Exclusive' /\ Witnessed'
<1>1. \A v \in Workers : ~TryStartRun(v)
  BY TryStartMovesPc DEF RecoverInv, DispatchInv, Move, Executing
<1>2. \A r \in Runs : run'[r] = "running" => run[r] = "running"
  BY <1>1, OnlyTryStart DEF RecoverInv, DispatchInv
<1>3. \A v \in Workers : /\ worker'[v].pc \in Holding =>
                              /\ worker[v].pc \in Holding
                              /\ worker'[v].cur = worker[v].cur
                              /\ worker'[v].recover = worker[v].recover
                         /\ worker'[v].batch \subseteq worker[v].batch
  <2>1. Down.pc = "down" /\ Down.batch = {}
    BY DEF Down, At
  <2> QED BY <2>1 DEF Move, Holding, Executing
<1>4. Exclusive'
  BY <1>3, ExclusiveFrame DEF RecoverInv
<1>5. \A v \in Workers : Leaving(v)' =>
         \/ Leaving(v) /\ worker'[v].cur = worker[v].cur
         \/ run'[RowRun(stream[worker'[v].cur])] # "running"
  <2>1. Leaving(w)' => worker'[w].pc = "ack" /\ worker'[w].cur = worker[w].cur
    BY DEF Move, Leaving, Down, At, Claimed, Executing
  <2> QED BY <2>1 DEF Move, Leaving, RunOf
<1>6. Witnessed'
  BY <1>2, <1>5, WitnessFrame
<1> QED BY <1>4, <1>6

LEMMA RecoverTryStart ==
  ASSUME RecoverInv, [Next]_vars, NEW w \in Workers, TryStartRun(w)
  PROVE  Exclusive' /\ Witnessed'
<1> DEFINE i == worker[w].cur
<1>0. /\ worker \in [Workers -> WorkerState] /\ run \in [Runs -> RSM!RunState]
      /\ worker[w].pc = "start" /\ UNCHANGED <<stream, last, pending, idle>>
      /\ i \in 1..last /\ RunOf(w) \in Runs /\ TypeOK
  BY EntryInHand DEF RecoverInv, DispatchInv, TypeOK, TryStartRun, Holding, redis
<1>1. PICK pc \in {"lookup", "model", "ack"} : Goto(w, pc)
  BY DEF TryStartRun
<1>2. /\ worker'[w].pc = pc /\ worker'[w].cur = i /\ worker'[w].recover = worker[w].recover
      /\ worker'[w].batch = worker[w].batch
      /\ \A v \in Workers \ {w} : worker'[v] = worker[v]
  BY <1>0, <1>1 DEF Goto, WorkerState
<1>3. Exclusive'
  BY <1>0, <1>2, ExclusiveFrame DEF RecoverInv, Holding
<1>4. \A v \in Workers : Leaving(v)' => (Leaving(v) /\ v # w) \/ (v = w /\ pc = "ack")
  <2>1. Leaving(w)' => pc = "ack"
    BY <1>2 DEF Leaving
  <2>2. \A v \in Workers \ {w} : Leaving(v)' => Leaving(v)
    BY <1>2 DEF Leaving
  <2> QED BY <2>1, <2>2 DEF Leaving
<1>5. ASSUME NEW r \in Runs, run'[r] = "running" PROVE \E j \in pending' : Keeps(j, r)'
  <2>1. CASE run[r] = "running" /\ (pc = "ack" /\ worker[w].recover => RunOf(w) # r)
    <3>1. PICK j \in pending : Keeps(j, r)
      BY <2>1 DEF RecoverInv, Witnessed
    <3>2. pc = "ack" => i # j
      BY <1>0, <2>1, <3>1 DEF Keeps, Leaving, RunOf
    <3> QED BY <1>0, <1>2, <1>4, <3>1, <3>2 DEF Keeps
  <2>2. CASE /\ run[r] # "running" \/ (pc = "ack" /\ worker[w].recover /\ RunOf(w) = r)
             /\ run[RunOf(w)] \in Startable(worker[w].recover, Resuming(w))
             /\ run' = [run EXCEPT ![RunOf(w)] = "running"]
             /\ Goto(w, IF Resuming(w) THEN "lookup" ELSE "model")
    <3>1. worker'[w].pc # "ack"
      BY <1>0, <2>2, PcField DEF Goto, PC, Holding, Executing, WorkerState
    <3>2. pc # "ack" /\ RunOf(w) = r /\ run[r] # "running"
      BY <1>0, <1>2, <1>5, <2>2, <3>1
    <3>3. CASE worker[w].recover
      <4>1. run[r] = "queued"
        BY <2>2, <3>2, <3>3 DEF Startable
      <4>2. i \in pending
        BY <1>0, <3>2, <4>1 DEF RecoverInv, DispatchInv, LeftQueue, RunOf
      <4>3. ASSUME NEW v \in Workers, Leaving(v), v # w PROVE worker[v].cur # i
        BY <1>0, <3>2, <4>1, <4>3
           DEF Leaving, RecoverInv, DispatchInv, LeftQueue, Claimed, RunOf, Exclusive, Holding
      <4> QED BY <1>0, <1>2, <1>4, <3>2, <4>2, <4>3 DEF Keeps, RunOf
    <3>4. CASE ~worker[w].recover
      <4>1. i \in pending /\ \A v \in Workers \ {w} : worker[v].pc \in Holding => worker[v].cur # i
        BY <1>0, <3>4 DEF RecoverInv, Exclusive, Holding
      <4>2. \A v \in Workers : Leaving(v) => worker[v].pc \in Holding
        BY DEF Leaving, Holding
      <4> QED BY <1>0, <1>2, <1>4, <3>2, <4>1, <4>2 DEF Keeps, RunOf
    <3> QED BY <3>3, <3>4
  <2>3. CASE run[RunOf(w)] \notin Startable(worker[w].recover, Resuming(w)) /\ UNCHANGED run
    <3>1. run[r] = "running"
      BY <1>5, <2>3
    <3>2. worker[w].recover => RunOf(w) # r
      BY <2>3, <3>1 DEF Startable
    <3> QED BY <2>1, <3>1, <3>2
  <2> QED BY <2>1, <2>2, <2>3 DEF TryStartRun
<1>6. Witnessed'
  BY <1>5 DEF Witnessed
<1> QED BY <1>3, <1>6

LEMMA RecoverNext == RecoverInv /\ [Next]_vars => RecoverInv'
<1> SUFFICES ASSUME RecoverInv, [Next]_vars PROVE Exclusive' /\ Witnessed'
  BY DispatchNext DEF RecoverInv
<1>0. stream \in Seq(Rows) /\ pending \subseteq 1..last /\ last \in 0..Len(stream) /\ TypeOK
      /\ \A p \in Publishers : pub[p].todo \subseteq Rows
  BY DEF RecoverInv, DispatchInv, TypeOK
<1>1. CASE Quiet
  BY <1>1, RecoverOutside DEF Quiet, redis
<1>2. CASE \/ \E r \in Runs : CreateRun(r) \/ CancelRun(r) \/ DeleteConversation(r)
           \/ \E c \in Confs : Approve(c) \/ Reject(c) \/ ApiStep(c) \/ ApiCrash(c)
  <2>1. UNCHANGED <<stream, pending, idle, worker>>
    BY <1>2 DEF CreateRun, CancelRun, DeleteConversation, Approve, Reject, Decide, ApiStep,
                EnqueueConfirmation, CancelRejected, ApiCrash, redis
  <2> QED BY <2>1, RecoverOutside
<1>3. ASSUME NEW p \in Publishers, PubStep(p) \/ PubFail(p) PROVE Exclusive' /\ Witnessed'
  <2>1. UNCHANGED <<pending, idle, worker>>
    BY <1>3 DEF PubStep, PubRead, PubXadd, PubMark, PubFail, redis
  <2>2. \A i \in pending : stream'[i] = stream[i]
    BY <1>0, <1>3, AppendEntry DEF PubStep, PubRead, PubXadd, PubMark, PubFail, redis
  <2> QED BY <2>1, <2>2, RecoverOutside
<1>4. ASSUME NEW i \in pending, GoIdle(i) PROVE Exclusive' /\ Witnessed'
  <2>1. UNCHANGED <<stream, pending, worker>>
    BY <1>4 DEF GoIdle
  <2> QED BY <1>4, <2>1, RecoverOutside
<1>5. ASSUME NEW w \in Workers, Loop(w) \/ Crash(w) \/ Restart(w) PROVE Exclusive' /\ Witnessed'
  BY <1>5, RecoverLoop
<1>6. ASSUME NEW w \in Workers, Heartbeat(w) PROVE Exclusive' /\ Witnessed'
  <2>1. UNCHANGED <<stream, pending, worker>> /\ idle' \subseteq idle
    BY <1>6 DEF Heartbeat
  <2> QED BY <2>1, RecoverOutside
<1>7. ASSUME NEW w \in Workers, Orchestrate(w) PROVE Exclusive' /\ Witnessed'
  <2>1. UNCHANGED <<stream, pending, idle>>
    BY <1>0, <1>7, TypeOrchestrate DEF OrchestrateFrame, redis
  <2> QED BY <1>0, <1>7, <2>1, OrchestrateMove, RecoverMove, RecoverTryStart
<1> QED BY <1>1, <1>2, <1>3, <1>4, <1>5, <1>6, <1>7, SlotsQuiet DEF Next, WorkerStep, SlotStep

\* However workers stop, entries are duplicated or reclaimed, a running run has a
\* delivery that nobody has acknowledged.
THEOREM RunningRunsRecoverable == Spec => []RunningRecoverable
BY RecoverInit, RecoverNext, RecoverSafe, PTL DEF Spec

-----------------------------------------------------------------------------
(* A completed run has its reply *)

\* A worker about to complete a run has saved the reply, unless the user erased it.
ReplyInv ==
  /\ TypeOK
  /\ \A r \in Runs : run[r] = "completed" => r \in replied
  /\ \A w \in Workers : worker[w].pc = "complete" =>
       RunOf(w) \in replied \/ run[RunOf(w)] = "deleted"

\* An erased run stays erased, and only the last step of orchestrate_run completes one.
LEMMA OnlyComplete ==
  ASSUME TypeOK, [Next]_vars
  PROVE  /\ \A r \in Runs : run[r] = "deleted" => run'[r] = "deleted"
         /\ \A r \in Runs : run'[r] = "completed" /\ run[r] # "completed"
              => /\ run[r] = "running"
                 /\ \E w \in Workers : CompleteRun(w) /\ RunOf(w) = r
<1>0. run \in [Runs -> RSM!RunState] /\ RunStep
  BY StepRun DEF TypeOK
<1>1. \A r \in Runs : run[r] = "deleted" => run'[r] = "deleted"
  <2>1. CASE \E r \in Runs : CreateRun(r)
    BY <1>0, <2>1 DEF CreateRun
  <2>2. CASE \E r \in Runs, s \in Targets : Moves(r, s)
    BY <1>0, <2>2 DEF Moves, RSM!CanTransition, RSM!TRANSITIONS
  <2>3. CASE \E r \in Runs : run[r] \in RSM!TERMINAL_STATES /\ run' = [run EXCEPT ![r] = "deleted"]
    BY <1>0, <2>3
  <2> QED BY <1>0, <2>1, <2>2, <2>3 DEF RunStep
<1>2. ASSUME NEW r \in Runs, run'[r] = "completed", run[r] # "completed"
      PROVE  run[r] = "running" /\ \E w \in Workers : CompleteRun(w) /\ RunOf(w) = r
  <2>1. run[r] = "running"
    <3>1. CASE \E q \in Runs : CreateRun(q)
      BY <1>0, <1>2, <3>1 DEF CreateRun
    <3>2. CASE \E q \in Runs, s \in Targets : Moves(q, s)
      <4>1. RSM!CanTransition(run[r], "completed")
        BY <1>0, <1>2, <3>2 DEF Moves
      <4> QED BY <1>2, <4>1 DEF RSM!CanTransition, RSM!TRANSITIONS
    <3>3. CASE \E q \in Runs : run[q] \in RSM!TERMINAL_STATES /\ run' = [run EXCEPT ![q] = "deleted"]
      BY <1>0, <1>2, <3>3
    <3> QED BY <1>0, <1>2, <3>1, <3>2, <3>3 DEF RunStep
  <2>2. run' # run
    BY <1>2
  <2>3. ASSUME NEW q \in Runs, CreateRun(q) \/ CancelRun(q) \/ DeleteConversation(q) PROVE FALSE
    BY <1>0, <1>2, <2>3 DEF CreateRun, CancelRun, DeleteConversation, UpdateRun
  <2>4. ASSUME NEW c \in Confs, CancelRejected(c) PROVE FALSE
    BY <1>0, <1>2, <2>2, <2>4 DEF CancelRejected, UpdateRun
  <2>5. ASSUME NEW w \in Workers, TryStartRun(w) \/ Suspend(w) \/ FailRun(w) PROVE FALSE
    BY <1>0, <1>2, <2>2, <2>5 DEF TryStartRun, Suspend, FailRun, Finish, UpdateRun
  <2>6. ASSUME NEW w \in Workers, CompleteRun(w) PROVE RunOf(w) = r
    BY <1>0, <1>2, <2>2, <2>6 DEF CompleteRun, Finish, UpdateRun
  <2>7. ASSUME NEW w \in Workers, Loop(w) \/ Heartbeat(w) \/ Crash(w) \/ Restart(w) PROVE FALSE
    BY <2>2, <2>7 DEF Loop, Autoclaim, TakeClaimed, ReadNew, Xack, Heartbeat, Crash, Restart, database
  <2>8. ASSUME \/ \E p \in Publishers : PubStep(p) \/ PubFail(p)
               \/ \E i \in pending : GoIdle(i)
               \/ \E c \in Confs : Approve(c) \/ Reject(c) \/ EnqueueConfirmation(c) \/ ApiCrash(c)
        PROVE  FALSE
    BY <2>2, <2>8 DEF PubStep, PubRead, PubXadd, PubMark, PubFail, GoIdle, Approve, Reject, Decide,
              EnqueueConfirmation, ApiCrash, database
  <2>9. ASSUME NEW w \in Workers,
               \/ LookupConfirmation(w) \/ CountInvocations(w) \/ RecordInvocation(w)
               \/ ExecuteTool(w) \/ MarkExecuted(w) \/ SeeCancelled(w) \/ FinalTurn(w)
               \/ ToolTurn(w) \/ SaveReply(w) \/ DieOnErased(w)
               \/ \E c \in Confs : ConfirmTurn(w, c)
        PROVE  FALSE
    BY <2>2, <2>9 DEF LookupConfirmation, CountInvocations, RecordInvocation, ExecuteTool, MarkExecuted,
              SeeCancelled, FinalTurn, ToolTurn, SaveReply, DieOnErased, ConfirmTurn, database
  <2>11. ~(SlotStep \/ UNCHANGED vars)
    BY <2>2, SlotsQuiet DEF Quiet, database
  <2>10. \E w \in Workers : CompleteRun(w)
    BY <2>3, <2>4, <2>5, <2>7, <2>8, <2>9, <2>11 DEF Next, ApiStep, WorkerStep, Orchestrate, SlotStep
  <2> QED BY <2>1, <2>6, <2>10
<1> QED BY <1>1, <1>2

\* Entries of the stream never change.
LEMMA StreamGrows ==
  ASSUME TypeOK, [Next]_vars
  PROVE  \A i \in DOMAIN stream : stream'[i] = stream[i]
<1>1. CASE \E p \in Publishers : PubXadd(p)
  BY <1>1, AppendEntry DEF TypeOK, PubXadd
<1>2. CASE \E p \in Publishers : PubRead(p) \/ PubMark(p) \/ PubFail(p)
  BY <1>2 DEF PubRead, PubMark, PubFail, redis
<1>3. CASE \/ \E r \in Runs : CreateRun(r) \/ CancelRun(r) \/ DeleteConversation(r)
           \/ \E c \in Confs : Approve(c) \/ Reject(c) \/ ApiStep(c) \/ ApiCrash(c)
  BY <1>3 DEF CreateRun, CancelRun, DeleteConversation, Approve, Reject, Decide, ApiStep,
              EnqueueConfirmation, CancelRejected, ApiCrash, redis
<1>4. ASSUME NEW w \in Workers, WorkerStep(w) \/ Heartbeat(w) \/ Crash(w) \/ Restart(w)
      PROVE  UNCHANGED stream
  <2>1. CASE Loop(w) \/ Heartbeat(w) \/ Crash(w) \/ Restart(w)
    BY <2>1 DEF Loop, Autoclaim, TakeClaimed, ReadNew, Xack, Heartbeat, Crash, Restart, redis
  <2>2. CASE Orchestrate(w)
    BY <2>2, TypeOrchestrate DEF OrchestrateFrame, redis
  <2> QED BY <1>4, <2>1, <2>2 DEF WorkerStep
<1>5. CASE Quiet \/ \E i \in pending : GoIdle(i)
  BY <1>5 DEF Quiet, redis, GoIdle
<1> QED BY <1>1, <1>2, <1>3, <1>4, <1>5, SlotsQuiet DEF Next, PubStep, SlotStep

\* Replies disappear only with their erased run; workers reach "complete" only by
\* saving the reply.
LEMMA ReplySteps ==
  ASSUME TypeOK, [Next]_vars
  PROVE  /\ \A r \in replied : r \in replied' \/ run'[r] = "deleted"
         /\ \A w \in Workers : worker'[w].pc = "complete" =>
              \/ worker[w].pc = "complete" /\ worker'[w].cur = worker[w].cur
              \/ SaveReply(w) /\ worker'[w].cur = worker[w].cur
<1>0. /\ worker \in [Workers -> WorkerState] /\ run \in [Runs -> RSM!RunState]
      /\ replied \subseteq Runs
  BY DEF TypeOK
<1>1. CASE Quiet
  BY <1>1 DEF Quiet, database
<1>2. ASSUME NEW r \in Runs, DeleteConversation(r)
      PROVE  UNCHANGED worker /\ \A q \in replied : q \in replied' \/ run'[q] = "deleted"
  BY <1>0, <1>2 DEF DeleteConversation
<1>3. CASE \/ \E r \in Runs : CreateRun(r) \/ CancelRun(r)
           \/ \E c \in Confs : Approve(c) \/ Reject(c) \/ ApiStep(c) \/ ApiCrash(c)
           \/ \E p \in Publishers : PubStep(p) \/ PubFail(p)
           \/ \E i \in pending : GoIdle(i)
           \/ \E w \in Workers : Heartbeat(w)
  BY <1>3 DEF CreateRun, CancelRun, Approve, Reject, Decide, ApiStep, EnqueueConfirmation,
              CancelRejected, ApiCrash, PubStep, PubRead, PubXadd, PubMark, PubFail, GoIdle,
              Heartbeat, database
<1>4. ASSUME NEW w \in Workers, Loop(w) \/ Crash(w) \/ Restart(w)
      PROVE  /\ UNCHANGED replied /\ worker'[w].pc # "complete"
             /\ \A v \in Workers \ {w} : worker'[v] = worker[v]
  BY <1>0, <1>4 DEF Loop, Autoclaim, TakeClaimed, ReadNew, Xack, Crash, Restart, Die, Ready, Down, At,
                    database
<1>5. ASSUME NEW w \in Workers, Orchestrate(w)
      PROVE  /\ replied \subseteq replied'
             /\ worker'[w].pc = "complete" => SaveReply(w) /\ worker'[w].cur = worker[w].cur
             /\ \A v \in Workers \ {w} : worker'[v] = worker[v]
  <2>1. replied \subseteq replied'
    BY <1>5 DEF Orchestrate, TryStartRun, LookupConfirmation, CountInvocations, RecordInvocation,
                ExecuteTool, MarkExecuted, SeeCancelled, FinalTurn, ToolTurn, ConfirmTurn, Suspend,
                FailRun, CompleteRun, Finish, SaveReply, DieOnErased, database
  <2>2. TryStartRun(w) \/ Move(w)
    BY <1>5, OrchestrateMove
  <2>3. \A v \in Workers \ {w} : worker'[v] = worker[v]
    BY <1>0, <2>2 DEF TryStartRun, Goto, Move
  <2>4. ASSUME worker'[w].pc = "complete" PROVE SaveReply(w)
    <3> USE DEF PC, Looping, Holding, Executing
    <3>0. \A pc \in PC : Goto(w, pc) => pc = "complete"
      BY <1>0, <2>4, GotoField
    <3>1. CASE TryStartRun(w) \/ Suspend(w)
      BY <3>0, <3>1 DEF TryStartRun, Suspend
    <3>2. CASE LookupConfirmation(w) \/ ToolTurn(w) \/ \E c \in Confs : ConfirmTurn(w, c)
      BY <1>0, <2>4, <3>0, <3>2 DEF LookupConfirmation, ToolTurn, ConfirmTurn, WorkerState
    <3>3. CASE CountInvocations(w) \/ RecordInvocation(w) \/ MarkExecuted(w)
               \/ SeeCancelled(w)
      BY <3>0, <3>3 DEF CountInvocations, RecordInvocation, MarkExecuted, SeeCancelled
    <3>4. CASE ExecuteTool(w) \/ FinalTurn(w) \/ DieOnErased(w) \/ FailRun(w) \/ CompleteRun(w)
      BY <1>0, <2>4, <3>0, <3>4 DEF ExecuteTool, FinalTurn, DieOnErased, FailRun, CompleteRun, Finish, Die, Down, At
    <3> QED BY <1>5, <3>1, <3>2, <3>3, <3>4 DEF Orchestrate
  <2>5. worker'[w].pc = "complete" => worker'[w].cur = worker[w].cur
    BY <1>0, <2>4, GotoField DEF SaveReply, PC, Holding, Executing
  <2> QED BY <2>1, <2>3, <2>4, <2>5
<1> QED BY <1>0, <1>1, <1>2, <1>3, <1>4, <1>5, SlotsQuiet DEF Next, WorkerStep, SlotStep

LEMMA ReplyNext == ReplyInv /\ [Next]_vars => ReplyInv'
<1> SUFFICES ASSUME ReplyInv, [Next]_vars
             PROVE  /\ \A r \in Runs : run'[r] = "completed" => r \in replied'
                    /\ \A w \in Workers : worker'[w].pc = "complete" =>
                         RunOf(w)' \in replied' \/ run'[RunOf(w)'] = "deleted"
  BY TypeNext DEF ReplyInv
<1>0. TypeOK
  BY DEF ReplyInv
<1>1. ASSUME NEW r \in Runs, run'[r] = "completed" PROVE r \in replied'
  <2>1. CASE run[r] = "completed"
    BY <1>0, <1>1, <2>1, ReplySteps DEF ReplyInv
  <2>2. CASE run[r] # "completed"
    <3>1. run[r] = "running" /\ \E w \in Workers : CompleteRun(w) /\ RunOf(w) = r
      BY <1>0, <1>1, <2>2, OnlyComplete
    <3>2. r \in replied
      BY <3>1 DEF ReplyInv, CompleteRun, Finish
    <3> QED BY <1>0, <1>1, <3>2, ReplySteps
  <2> QED BY <2>1, <2>2
<1>2. ASSUME NEW w \in Workers, worker'[w].pc = "complete"
      PROVE  RunOf(w)' \in replied' \/ run'[RunOf(w)'] = "deleted"
  <2>1. /\ worker'[w].cur = worker[w].cur /\ worker[w].pc \in Holding
        /\ worker[w].pc = "complete" \/ SaveReply(w)
    BY <1>0, <1>2, ReplySteps DEF SaveReply, Holding, Executing
  <2>2. RunOf(w) \in Runs /\ worker[w].cur \in DOMAIN stream
    BY <1>0, <2>1, EntryInHand
  <2>3. RunOf(w)' = RunOf(w)
    <3>1. stream'[worker[w].cur] = stream[worker[w].cur]
      BY <1>0, <2>2, StreamGrows
    <3> QED BY <2>1, <3>1 DEF RunOf
  <2>4. CASE SaveReply(w)
    BY <2>3, <2>4 DEF SaveReply
  <2>5. CASE worker[w].pc = "complete"
    BY <1>0, <2>2, <2>3, <2>5, ReplySteps, OnlyComplete DEF ReplyInv
  <2> QED BY <2>1, <2>4, <2>5
<1> QED BY <1>1, <1>2

\* Cancellations, crashes and reclaimed entries included, no run is completed
\* without an assistant message.
THEOREM CompletedRunsReplied == Spec => []CompletedHasReply
<1>1. Init => ReplyInv
  BY TypeInit DEF Init, ReplyInv, Ready, At
<1>2. ReplyInv => CompletedHasReply
  BY DEF ReplyInv, CompletedHasReply
<1> QED BY <1>1, <1>2, ReplyNext, PTL DEF Spec

-----------------------------------------------------------------------------
(* A tool that was not approved does not run *)

Undecided == {"none", "pending", "rejected"}
Calling   == {"count", "record", "exec"}

\* Until it is approved, a confirmation is in no worker's hands.
ApprovalInv ==
  /\ TypeOK
  /\ \A c \in Confs : conf[c].st \in Undecided =>
       /\ effects[c] = 0
       /\ \A w \in Workers : worker[w].pc \in Calling => worker[w].conf # c

\* A step that approves nothing, calls no tool and gives no worker a confirmation.
LEMMA ApprovalFrame ==
  ASSUME ApprovalInv, UNCHANGED effects,
         \A c \in Confs : conf'[c].st \in Undecided => conf[c].st \in Undecided,
         \A w \in Workers : worker'[w].pc \in Calling =>
            worker[w].pc \in Calling /\ worker'[w].conf = worker[w].conf
  PROVE  \A c \in Confs : conf'[c].st \in Undecided =>
           /\ effects'[c] = 0
           /\ \A w \in Workers : worker'[w].pc \in Calling => worker'[w].conf # c
BY DEF ApprovalInv

LEMMA ApprovalNext == ApprovalInv /\ [Next]_vars => ApprovalInv'
<1> SUFFICES ASSUME ApprovalInv, [Next]_vars
             PROVE  \A c \in Confs : conf'[c].st \in Undecided =>
                      /\ effects'[c] = 0
                      /\ \A w \in Workers : worker'[w].pc \in Calling => worker'[w].conf # c
  BY TypeNext DEF ApprovalInv
<1> DEFINE Goal == \A c \in Confs : conf'[c].st \in Undecided =>
                      /\ effects'[c] = 0
                      /\ \A w \in Workers : worker'[w].pc \in Calling => worker'[w].conf # c
<1> HIDE DEF Goal
<1>0. /\ worker \in [Workers -> WorkerState] /\ conf \in [Confs -> ConfState]
      /\ effects \in [Confs -> Nat] /\ TypeOK
  BY DEF ApprovalInv, TypeOK
<1>1. ASSUME \/ Quiet
             \/ \E r \in Runs : CreateRun(r) \/ CancelRun(r)
             \/ \E c \in Confs : ApiStep(c) \/ ApiCrash(c)
             \/ \E p \in Publishers : PubStep(p) \/ PubFail(p)
             \/ \E i \in pending : GoIdle(i)
             \/ \E w \in Workers : Heartbeat(w)
      PROVE  Goal
  <2>1. UNCHANGED <<worker, conf, effects>>
    BY <1>1 DEF Quiet, CreateRun, CancelRun, ApiStep, EnqueueConfirmation, CancelRejected, ApiCrash,
                PubStep, PubRead, PubXadd, PubMark, PubFail, GoIdle, Heartbeat, database
  <2> QED BY <2>1, ApprovalFrame DEF Goal
<1>2. ASSUME NEW r \in Runs, DeleteConversation(r) PROVE Goal
  <2>1. \A c \in Confs : conf'[c].st \in Undecided => conf[c].st \in Undecided
    BY <1>0, <1>2, ConfField DEF DeleteConversation, Undecided
  <2> QED BY <1>2, <2>1, ApprovalFrame DEF DeleteConversation, Goal
<1>3. ASSUME NEW c \in Confs, Approve(c) \/ Reject(c) PROVE Goal
  <2>1. PICK s \in {"approved", "rejected"}, d \in {"enqueue", "cancel"} : Decide(c, s, d)
    BY <1>3 DEF Approve, Reject
  <2>2. conf[c].st \in Undecided /\ \A e \in Confs \ {c} : conf'[e] = conf[e]
    BY <1>0, <2>1 DEF Decide, Undecided
  <2> QED BY <2>1, <2>2, ApprovalFrame DEF Decide, Goal
<1>4. ASSUME NEW w \in Workers, Loop(w) \/ Crash(w) \/ Restart(w) PROVE Goal
  <2>1. UNCHANGED <<conf, effects>>
    BY <1>4 DEF Loop, Autoclaim, TakeClaimed, ReadNew, Xack, Crash, Restart, database
  <2>2. worker'[w].pc \notin Calling /\ \A v \in Workers \ {w} : worker'[v] = worker[v]
    BY <1>0, <1>4 DEF Loop, Autoclaim, TakeClaimed, ReadNew, Xack, Crash, Restart, Die, Ready, Down,
                      At, Calling
  <2> QED BY <2>1, <2>2, ApprovalFrame DEF Goal
<1>5. ASSUME NEW w \in Workers, Orchestrate(w) PROVE Goal
  <2>0. TryStartRun(w) \/ Move(w)
    BY <1>0, <1>5, OrchestrateMove
  <2>a. \A v \in Workers \ {w} : worker'[v] = worker[v]
    BY <1>0, <2>0 DEF TryStartRun, Goto, Move
  <2>1. CASE LookupConfirmation(w)
    <3>1. CASE NewestApproved(RunOf(w)) = {} /\ Goto(w, "fail")
      <4>1. worker'[w].pc = "fail"
        BY <1>0, <3>1, GotoField DEF PC, Holding, Executing
      <4> QED BY <2>1, <2>a, <4>1, ApprovalFrame DEF LookupConfirmation, database, Calling, Goal
    <3>2. ASSUME NEW c \in NewestApproved(RunOf(w)),
                 worker' = [worker EXCEPT ![w] =
                              [@ EXCEPT !.pc = "count", !.conf = c, !.calls = conf[c].used]]
          PROVE  Goal
      <4>1. worker'[w].conf = c /\ conf[c].st = "approved"
        BY <1>0, <3>2 DEF NewestApproved, WorkerState
      <4>2. UNCHANGED <<conf, effects>>
        BY <2>1 DEF LookupConfirmation, database
      <4> QED BY <2>a, <4>1, <4>2 DEF ApprovalInv, Undecided, Goal
    <3> QED BY <2>1, <3>1, <3>2 DEF LookupConfirmation
  <2>2. CASE TryStartRun(w) \/ SeeCancelled(w) \/ SaveReply(w) \/ Suspend(w)
    <3>1. \E pc \in PC \ Calling : Goto(w, pc)
      BY <2>2 DEF TryStartRun, SeeCancelled, SaveReply, Suspend, PC, Holding, Executing, Calling
    <3>2. worker'[w].pc \notin Calling
      BY <1>0, <3>1, GotoField
    <3>3. UNCHANGED <<conf, effects>>
      BY <2>2 DEF TryStartRun, SeeCancelled, SaveReply, Suspend, database
    <3> QED BY <2>a, <3>2, <3>3, ApprovalFrame DEF Goal
  <2>3. CASE CountInvocations(w) \/ RecordInvocation(w)
    <3>1. worker[w].pc \in Calling /\ \E pc \in PC : Goto(w, pc)
      BY <2>3 DEF CountInvocations, RecordInvocation, PC, Holding, Executing, Calling
    <3>2. worker'[w].conf = worker[w].conf
      BY <1>0, <3>1, GotoField
    <3>3. UNCHANGED <<conf, effects>>
      BY <2>3 DEF CountInvocations, RecordInvocation, database
    <3> QED BY <2>a, <3>1, <3>2, <3>3, ApprovalFrame DEF Goal
  <2>4. CASE ExecuteTool(w)
    <3>1. worker[w].pc = "exec" /\ worker[w].conf \in Confs /\ UNCHANGED conf
      BY <1>0, <2>4 DEF ExecuteTool, database, TypeOK
    <3>2. \A c \in Confs : c # worker[w].conf => effects'[c] = effects[c]
      BY <1>0, <2>4, <3>1 DEF ExecuteTool
    <3>3. worker'[w].pc \notin Calling
      <4>1. ASSUME NEW pc \in {"mark", "fail"}, Goto(w, pc) PROVE worker'[w].pc \notin Calling
        BY <1>0, <4>1, GotoField DEF PC, Holding, Executing, Calling
      <4>2. Die(w) => worker'[w].pc \notin Calling
        BY <1>0 DEF Die, Down, At, Calling
      <4> QED BY <2>4, <4>1, <4>2 DEF ExecuteTool
    <3> QED BY <2>a, <3>1, <3>2, <3>3 DEF ApprovalInv, Calling, Goal
  <2>5. CASE MarkExecuted(w)
    <3>1. worker'[w].pc \notin Calling
      BY <1>0, <2>5, GotoField DEF MarkExecuted, PC, Holding, Executing, Calling
    <3>2. \A c \in Confs : conf'[c].st \in Undecided => conf[c].st \in Undecided
      BY <1>0, <2>5, ConfField DEF MarkExecuted, TypeOK, ConfState, Undecided
    <3> QED BY <2>5, <2>a, <3>1, <3>2, ApprovalFrame DEF MarkExecuted, Goal
  <2>6. CASE ToolTurn(w)
    <3>1. worker'[w].pc \notin Calling
      BY <1>0, <2>6, GotoField DEF ToolTurn, PC, Holding, Executing, Calling, WorkerState
    <3> QED BY <2>6, <2>a, <3>1, ApprovalFrame DEF ToolTurn, database, Goal
  <2>7. ASSUME NEW c \in Confs, ConfirmTurn(w, c) PROVE Goal
    <3>1. worker'[w].pc \notin Calling
      BY <1>0, <2>7 DEF ConfirmTurn, WorkerState, Calling
    <3>2. conf[c].st \in Undecided /\ \A e \in Confs \ {c} : conf'[e] = conf[e]
      BY <1>0, <2>7 DEF ConfirmTurn, Undecided
    <3> QED BY <2>7, <2>a, <3>1, <3>2, ApprovalFrame DEF ConfirmTurn, Goal
  <2>8. CASE FinalTurn(w) \/ FailRun(w) \/ CompleteRun(w) \/ DieOnErased(w)
    <3>1. worker'[w].pc \notin Calling
      <4>1. ASSUME NEW pc \in {"save", "fail", "ack"}, Goto(w, pc) PROVE worker'[w].pc \notin Calling
        BY <1>0, <4>1, GotoField DEF PC, Holding, Executing, Calling
      <4>2. Die(w) => worker'[w].pc \notin Calling
        BY <1>0 DEF Die, Down, At, Calling
      <4> QED BY <2>8, <4>1, <4>2 DEF FinalTurn, FailRun, CompleteRun, Finish, DieOnErased
    <3> QED BY <2>8, <2>a, <3>1, ApprovalFrame DEF FinalTurn, FailRun, CompleteRun, Finish, DieOnErased, database, Goal
  <2> QED BY <1>5, <2>1, <2>2, <2>3, <2>4, <2>5, <2>6, <2>7, <2>8 DEF Orchestrate
<1>6. Goal
  BY <1>1, <1>2, <1>3, <1>4, <1>5, SlotsQuiet DEF Next, WorkerStep, SlotStep
<1> QED BY <1>6 DEF Goal

\* Whoever recovers or resumes a run, and whenever the user decides, no tool call
\* happens for a confirmation that waits or was rejected.
THEOREM RejectedToolsNeverRun == Spec => []RejectedNeverRuns
<1>1. Init => ApprovalInv
  BY TypeInit DEF Init, ApprovalInv, Ready, At, Calling
<1>2. ApprovalInv => RejectedNeverRuns
  BY DEF ApprovalInv, RejectedNeverRuns, Undecided, Calling
<1> QED BY <1>1, <1>2, ApprovalNext, PTL DEF Spec

-----------------------------------------------------------------------------
(* How far the limit of active runs can be exceeded *)

Active == {r \in Runs : run[r] \in RSM!ACTIVE_STATES}

\* Who has counted may insert: whoever counts next finds those that have inserted, and
\* below the limit at most one run of each process is still to come.
SlotsTaken == Cardinality(Active) + delegated + Cardinality(creating)
ActiveInv ==
  /\ TypeOK /\ IsFiniteSet(Active)
  /\ SlotsTaken <= MaxConcurrent + Cardinality(Creators) - 1

\* Only the steps of the slots and CreateRun touch the slots.
LEMMA StepSlots ==
  ASSUME TypeOK, [Next]_vars
  PROVE  SlotStep \/ UNCHANGED slots \/ \E r \in Runs : CreateRun(r)
<1> USE DEF slots
<1>1. CASE \/ \E r \in Runs : CancelRun(r) \/ DeleteConversation(r)
           \/ \E c \in Confs : Approve(c) \/ Reject(c) \/ ApiStep(c) \/ ApiCrash(c)
  BY <1>1 DEF CancelRun, DeleteConversation, Approve, Reject, Decide, ApiStep,
              EnqueueConfirmation, CancelRejected, ApiCrash
<1>2. CASE \/ \E p \in Publishers : PubStep(p) \/ PubFail(p)
           \/ \E i \in pending : GoIdle(i)
  BY <1>2 DEF PubStep, PubRead, PubXadd, PubMark, PubFail, GoIdle
<1>3. CASE \E w \in Workers : Loop(w) \/ Heartbeat(w) \/ Crash(w) \/ Restart(w)
  BY <1>3 DEF Loop, Autoclaim, TakeClaimed, ReadNew, Xack, Heartbeat, Crash, Restart
<1>4. CASE \E w \in Workers : Orchestrate(w)
  BY <1>4, TypeOrchestrate DEF OrchestrateFrame
<1>5. CASE UNCHANGED vars
  BY <1>5 DEF vars
<1> QED BY <1>1, <1>2, <1>3, <1>4, <1>5 DEF Next, WorkerStep, SlotStep

\* No step but CreateRun makes a run active.
LEMMA ActiveShrinks ==
  ASSUME TypeOK, [Next]_vars, ~\E r \in Runs : CreateRun(r), IsFiniteSet(Active)
  PROVE  IsFiniteSet(Active') /\ Cardinality(Active') <= Cardinality(Active)
<1>0. run \in [Runs -> RSM!RunState] /\ RunStep
  BY StepRun DEF TypeOK
<1>1. CASE \E r \in Runs, s \in Targets : Moves(r, s)
  <2>1. Active' \subseteq Active
    BY <1>0, <1>1 DEF Moves, Targets, Active, RSM!CanTransition, RSM!TRANSITIONS, RSM!ACTIVE_STATES
  <2> QED BY <2>1, FS_Subset
<1>2. CASE \E r \in Runs : run[r] \in RSM!TERMINAL_STATES /\ run' = [run EXCEPT ![r] = "deleted"]
  <2>1. Active' \subseteq Active
    BY <1>0, <1>2 DEF Active, RSM!ACTIVE_STATES
  <2> QED BY <2>1, FS_Subset
<1>3. CASE UNCHANGED run
  <2>1. Active' \subseteq Active
    BY <1>3 DEF Active
  <2> QED BY <2>1, FS_Subset
<1> QED BY <1>0, <1>1, <1>2, <1>3 DEF RunStep

LEMMA ActiveNext == ActiveInv /\ [Next]_vars => ActiveInv'
<1> SUFFICES ASSUME ActiveInv, [Next]_vars
             PROVE  IsFiniteSet(Active') /\ SlotsTaken' <= MaxConcurrent + Cardinality(Creators) - 1
  BY TypeNext DEF ActiveInv
<1>0. TypeOK /\ TypeOK' /\ IsFiniteSet(Active) /\ MaxConcurrent \in Nat
  BY TypeNext, LimitsAssumption DEF ActiveInv
<1>1. /\ IsFiniteSet(creating) /\ IsFiniteSet(creating') /\ Cardinality(Creators) \in Nat
      /\ Cardinality(creating) \in Nat /\ Cardinality(creating') \in Nat
      /\ Cardinality(creating') <= Cardinality(Creators)
      /\ Cardinality(Active) \in Nat /\ delegated \in Nat /\ delegated' \in Nat
  BY <1>0, CreatorsAssumption, FS_Subset, FS_CardinalityType DEF TypeOK
<1>2. IsFiniteSet(Active')
      /\ \/ Cardinality(Active') <= Cardinality(Active) /\ ~\E r \in Runs : CreateRun(r)
         \/ Cardinality(Active') = Cardinality(Active) + 1 /\ \E r \in Runs : CreateRun(r)
  <2>1. ASSUME NEW r \in Runs, CreateRun(r)
        PROVE  IsFiniteSet(Active') /\ Cardinality(Active') = Cardinality(Active) + 1
    <3>1. Active' = Active \cup {r} /\ r \notin Active
      BY <1>0, <2>1 DEF CreateRun, Active, RSM!ACTIVE_STATES, TypeOK
    <3> QED BY <1>0, <3>1, FS_AddElement
  <2> QED BY <1>0, <2>1, ActiveShrinks
<1>3. Cardinality(Active') \in Nat
  BY <1>2, FS_CardinalityType
<1>4. ASSUME NEW p \in creating, creating' = creating \ {p}
      PROVE  Cardinality(creating') = Cardinality(creating) - 1
  BY <1>1, <1>4, FS_RemoveElement
\* From here on only the numbers matter.
<1>5. PICK a \in Nat, a1 \in Nat, b \in Nat, b1 \in Nat, d \in Nat, d1 \in Nat, m \in Nat, n \in Nat :
        /\ a = Cardinality(Active) /\ a1 = Cardinality(Active')
        /\ b = Cardinality(creating) /\ b1 = Cardinality(creating')
        /\ d = delegated /\ d1 = delegated' /\ m = MaxConcurrent /\ n = Cardinality(Creators)
  BY <1>0, <1>1, <1>3
<1>6. a + d + b <= m + n - 1 /\ b1 <= n
  BY <1>1, <1>5 DEF ActiveInv, SlotsTaken
<1>7. SlotsTaken' = a1 + d1 + b1
  BY <1>5 DEF SlotsTaken
<1>8. CASE \E r \in Runs : CreateRun(r)
  <2>1. a1 = a + 1
    BY <1>2, <1>5, <1>8
  <2>2. b1 = b - 1 /\ d1 = d
    BY <1>4, <1>5, <1>8 DEF CreateRun
  <2>3. a1 + d1 + b1 <= m + n - 1
    BY <1>6, <2>1, <2>2
  <2> QED BY <1>2, <1>5, <1>7, <2>3
<1>9. CASE ~\E r \in Runs : CreateRun(r)
  <2>1. a1 <= a
    BY <1>2, <1>5, <1>9
  <2>2. \/ d1 = d /\ b1 = b
        \/ d1 = d /\ a + d < m
        \/ (d1 = d \/ d1 = d + 1) /\ b1 = b - 1
        \/ d1 = d - 1 /\ b1 = b
    <3>1. CASE UNCHANGED slots
      BY <1>5, <3>1 DEF slots
    <3>2. ASSUME NEW p \in Creators, AdmitRun(p) PROVE d1 = d /\ a + d < m
      BY <1>5, <3>2 DEF AdmitRun, ActiveRuns, Active
    <3>3. ASSUME NEW p \in Creators, RefuseRun(p) \/ DelegateRun(p)
          PROVE  (d1 = d \/ d1 = d + 1) /\ b1 = b - 1
      <4>1. p \in creating /\ creating' = creating \ {p}
        BY <3>3 DEF RefuseRun, DelegateRun
      <4>2. b1 = b - 1
        BY <1>4, <1>5, <4>1
      <4> QED BY <1>5, <3>3, <4>2 DEF RefuseRun, DelegateRun
    <3>4. CASE DelegatedRunEnds
      BY <1>5, <3>4 DEF DelegatedRunEnds
    <3> QED BY <1>0, <1>9, <3>1, <3>2, <3>3, <3>4, StepSlots DEF SlotStep
  <2>3. a1 + d1 + b1 <= m + n - 1
    BY <1>6, <2>1, <2>2
  <2> QED BY <1>2, <1>5, <1>7, <2>3
<1> QED BY <1>8, <1>9

\* max_concurrent_runs is exceeded by at most one run for each further process that
\* creates runs: the lock of create_run orders only the callers of one process.
THEOREM ActiveRunsLimited == Spec => []ActiveRunsBounded
<1>1. Init => ActiveInv
  <2> SUFFICES ASSUME Init PROVE ActiveInv
    OBVIOUS
  <2>1. Active = {} /\ creating = {} /\ delegated = 0
    BY DEF Init, Active, RSM!ACTIVE_STATES
  <2>2. Cardinality(Creators) \in Nat /\ Cardinality(Creators) # 0
    BY CreatorsAssumption, FS_CardinalityType, FS_EmptySet
  <2> QED BY <2>1, <2>2, FS_EmptySet, LimitsAssumption, TypeInit DEF ActiveInv, SlotsTaken
<1>2. ActiveInv => ActiveRunsBounded
  <2> SUFFICES ASSUME ActiveInv PROVE ActiveRunsBounded
    OBVIOUS
  <2>1. IsFiniteSet(creating) /\ Cardinality(creating) \in Nat /\ Cardinality(Active) \in Nat
        /\ Cardinality(Creators) \in Nat /\ delegated \in Nat /\ MaxConcurrent \in Nat
    BY CreatorsAssumption, LimitsAssumption, FS_Subset, FS_CardinalityType DEF ActiveInv, TypeOK
  <2>2. ActiveRuns = Cardinality(Active) + delegated
    BY DEF ActiveRuns, Active
  <2> QED BY <2>1, <2>2 DEF ActiveInv, SlotsTaken, ActiveRunsBounded
<1> QED BY <1>1, <1>2, ActiveNext, PTL DEF Spec

-----------------------------------------------------------------------------
(* The rate limit of a tool *)

\* Workers that have counted the invocations of run r and are about to add one.
Recording(r) == {w \in Workers : worker[w].pc = "record" /\ RunOf(w) = r}

\* Who passed the limit passed it below, so the invocations and those to come
\* exceed it by what the other workers add.
RateOK(r) ==
  IF RateLimit = 0 THEN invocations[r] = 0 /\ Recording(r) = {}
  ELSE invocations[r] + Cardinality(Recording(r)) <= RateLimit + Cardinality(Workers) - 1

RateInv == TypeOK /\ \A r \in Runs : RateOK(r)

\* A worker that has the entry it had works on the run it worked on.
LEMMA SameRun ==
  ASSUME TypeOK, [Next]_vars, NEW w \in Workers, worker[w].pc \in Holding, worker'[w].cur = worker[w].cur
  PROVE  RunOf(w)' = RunOf(w)
<1>1. worker[w].cur \in DOMAIN stream
  BY EntryInHand
<1>2. stream'[worker[w].cur] = stream[worker[w].cur]
  BY <1>1, StreamGrows
<1> QED BY <1>2 DEF RunOf

\* Who changes the invocations, and how a worker comes to record one.
LEMMA RecordSteps ==
  ASSUME TypeOK, [Next]_vars
  PROVE  /\ \/ UNCHANGED invocations
            \/ \E r \in Runs : DeleteConversation(r)
            \/ \E w \in Workers : RecordInvocation(w)
         /\ \A w \in Workers : worker'[w].pc = "record" =>
              /\ worker'[w].cur = worker[w].cur
              /\ worker[w].pc = "record" \/ CountInvocations(w)
<1>0. worker \in [Workers -> WorkerState]
  BY DEF TypeOK
<1>1. ASSUME \/ Quiet
             \/ \E r \in Runs : CreateRun(r) \/ CancelRun(r)
             \/ \E c \in Confs : Approve(c) \/ Reject(c) \/ ApiStep(c) \/ ApiCrash(c)
             \/ \E p \in Publishers : PubStep(p) \/ PubFail(p)
             \/ \E i \in pending : GoIdle(i)
             \/ \E w \in Workers : Heartbeat(w)
      PROVE  UNCHANGED <<worker, invocations>>
  BY <1>1 DEF Quiet, CreateRun, CancelRun, Approve, Reject, Decide, ApiStep, EnqueueConfirmation,
              CancelRejected, ApiCrash, PubStep, PubRead, PubXadd, PubMark, PubFail, GoIdle,
              Heartbeat, database
<1>2. ASSUME NEW r \in Runs, DeleteConversation(r) PROVE UNCHANGED worker
  BY <1>2 DEF DeleteConversation
<1>3. ASSUME NEW w \in Workers, Loop(w) \/ Crash(w) \/ Restart(w)
      PROVE  /\ UNCHANGED invocations /\ worker'[w].pc # "record"
             /\ \A v \in Workers \ {w} : worker'[v] = worker[v]
  BY <1>0, <1>3 DEF Loop, Autoclaim, TakeClaimed, ReadNew, Xack, Crash, Restart, Die, Ready, Down, At,
                    database
<1>4. ASSUME NEW w \in Workers, Orchestrate(w)
      PROVE  /\ UNCHANGED invocations \/ RecordInvocation(w)
             /\ worker'[w].pc = "record" => CountInvocations(w) /\ worker'[w].cur = worker[w].cur
             /\ \A v \in Workers \ {w} : worker'[v] = worker[v]
  <2>1. UNCHANGED invocations \/ RecordInvocation(w)
    BY <1>4 DEF Orchestrate, TryStartRun, LookupConfirmation, CountInvocations,
                ExecuteTool, MarkExecuted, SeeCancelled, FinalTurn, ToolTurn, ConfirmTurn, Suspend,
                FailRun, CompleteRun, Finish, SaveReply, DieOnErased, database
  <2>2. TryStartRun(w) \/ Move(w)
    BY <1>4, OrchestrateMove
  <2>3. \A v \in Workers \ {w} : worker'[v] = worker[v]
    BY <1>0, <2>2 DEF TryStartRun, Goto, Move
  <2>4. ASSUME worker'[w].pc = "record" PROVE CountInvocations(w)
    <3> USE DEF PC, Looping, Holding, Executing
    <3>0. \A pc \in PC : Goto(w, pc) => pc = "record"
      BY <1>0, <2>4, GotoField
    <3>1. CASE TryStartRun(w) \/ Suspend(w)
      BY <3>0, <3>1 DEF TryStartRun, Suspend
    <3>2. CASE LookupConfirmation(w) \/ ToolTurn(w) \/ \E c \in Confs : ConfirmTurn(w, c)
      BY <1>0, <2>4, <3>0, <3>2 DEF LookupConfirmation, ToolTurn, ConfirmTurn, WorkerState
    <3>3. CASE RecordInvocation(w) \/ MarkExecuted(w) \/ SeeCancelled(w) \/ SaveReply(w)
      BY <3>0, <3>3 DEF RecordInvocation, MarkExecuted, SeeCancelled, SaveReply
    <3>4. CASE ExecuteTool(w) \/ FinalTurn(w) \/ DieOnErased(w) \/ FailRun(w) \/ CompleteRun(w)
      BY <1>0, <2>4, <3>0, <3>4 DEF ExecuteTool, FinalTurn, DieOnErased, FailRun, CompleteRun, Finish, Die, Down, At
    <3> QED BY <1>4, <3>1, <3>2, <3>3, <3>4 DEF Orchestrate
  <2>5. CountInvocations(w) => worker'[w].cur = worker[w].cur
    BY <1>0, GotoField DEF CountInvocations, PC, Holding, Executing
  <2> QED BY <2>1, <2>3, <2>4, <2>5
<1> QED BY <1>0, <1>1, <1>2, <1>3, <1>4, SlotsQuiet DEF Next, WorkerStep, SlotStep

\* Nobody else comes to record, and the rows become fewer.
LEMMA RateKept ==
  ASSUME IsFiniteSet(Workers), TypeOK, NEW r \in Runs, RateOK(r), Recording(r)' \subseteq Recording(r),
         invocations'[r] \in {0, invocations[r]}
  PROVE  RateOK(r)'
<1>1. IsFiniteSet(Recording(r))
  BY FS_Subset DEF Recording
<1>2. IsFiniteSet(Recording(r)') /\ Cardinality(Recording(r)') <= Cardinality(Recording(r))
  BY <1>1, FS_Subset
<1>3. Cardinality(Recording(r)) \in Nat /\ Cardinality(Recording(r)') \in Nat /\ Cardinality(Workers) \in Nat
  BY <1>1, <1>2, FS_CardinalityType
<1>4. invocations[r] \in Nat /\ RateLimit \in Nat
  BY LimitsAssumption DEF TypeOK
<1>5. CASE RateLimit = 0
  BY <1>5 DEF RateOK
<1>6. CASE RateLimit # 0
  BY <1>2, <1>3, <1>4, <1>6 DEF RateOK
<1> QED BY <1>5, <1>6

LEMMA RateNext ==
  ASSUME IsFiniteSet(Workers), RateInv, [Next]_vars
  PROVE  RateInv'
<1> SUFFICES ASSUME NEW r \in Runs PROVE RateOK(r)'
  BY TypeNext DEF RateInv
<1>0. /\ TypeOK /\ RateOK(r) /\ worker \in [Workers -> WorkerState]
      /\ invocations \in [Runs -> Nat] /\ RateLimit \in Nat /\ Cardinality(Workers) \in Nat
  BY LimitsAssumption, FS_CardinalityType DEF RateInv, TypeOK
<1>1. ASSUME NEW w \in Workers, worker'[w].pc = "record", worker[w].pc = "record" \/ CountInvocations(w)
      PROVE  worker'[w].cur = worker[w].cur /\ RunOf(w)' = RunOf(w)
  <2>1. worker'[w].cur = worker[w].cur
    BY <1>0, <1>1, RecordSteps
  <2>2. worker[w].pc \in Holding
    BY <1>1 DEF CountInvocations, Holding, Executing
  <2> QED BY <1>0, <2>1, <2>2, SameRun
<1>2. ASSUME NEW w \in Recording(r)', ~CountInvocations(w) PROVE w \in Recording(r)
  BY <1>0, <1>1, <1>2, RecordSteps DEF Recording
<1>3. CASE \E w \in Recording(r)' : CountInvocations(w)
  <2>1. PICK w \in Recording(r)' : CountInvocations(w)
    BY <1>3
  <2>2. w \in Workers /\ worker'[w].pc = "record"
    BY <2>1 DEF Recording
  <2>3. RunOf(w) = r
    BY <1>1, <2>1, <2>2 DEF Recording
  <2>4. invocations[r] < RateLimit
    <3>1. CASE invocations[r] >= RateLimit
      <4>1. Goto(w, "mark")
        BY <2>1, <2>3, <3>1 DEF CountInvocations
      <4>2. worker'[w].pc = "mark"
        BY <1>0, <2>2, <4>1, GotoField DEF PC, Holding, Executing
      <4> QED BY <2>2, <4>2
    <3> QED BY <1>0, <3>1
  <2>5. invocations' = invocations
    BY <2>1 DEF CountInvocations, database
  <2>6. IsFiniteSet(Recording(r)') /\ Cardinality(Recording(r)') <= Cardinality(Workers)
    <3>1. Recording(r)' \subseteq Workers
      BY DEF Recording
    <3> QED BY <3>1, FS_Subset
  <2>7. Cardinality(Recording(r)') \in Nat
    BY <2>6, FS_CardinalityType
  <2> QED BY <1>0, <2>4, <2>5, <2>6, <2>7 DEF RateOK
<1>4. CASE ~\E w \in Recording(r)' : CountInvocations(w)
  <2>1. Recording(r)' \subseteq Recording(r)
    BY <1>2, <1>4
  <2>2. ASSUME NEW w \in Workers, RecordInvocation(w), RunOf(w) = r PROVE RateOK(r)'
    <3>1. w \in Recording(r) /\ invocations'[r] = invocations[r] + 1
      BY <1>0, <2>2 DEF RecordInvocation, Recording
    <3>2. w \notin Recording(r)'
      BY <1>0, <2>2, GotoField DEF RecordInvocation, Recording, PC, Holding, Executing
    <3>3. IsFiniteSet(Recording(r))
      BY FS_Subset DEF Recording
    <3>4. IsFiniteSet(Recording(r) \ {w}) /\ Cardinality(Recording(r) \ {w}) = Cardinality(Recording(r)) - 1
      BY <3>1, <3>3, FS_RemoveElement
    <3>5. Recording(r)' \subseteq Recording(r) \ {w}
      BY <2>1, <3>2
    <3>6. IsFiniteSet(Recording(r)') /\ Cardinality(Recording(r)') <= Cardinality(Recording(r)) - 1
      BY <3>4, <3>5, FS_Subset
    <3>7. Cardinality(Recording(r)) \in Nat /\ Cardinality(Recording(r)') \in Nat
      BY <3>3, <3>6, FS_CardinalityType
    <3>8. RateLimit # 0
      BY <1>0, <3>1 DEF RateOK
    <3> QED BY <1>0, <3>1, <3>6, <3>7, <3>8 DEF RateOK
  <2>3. ASSUME ~\E w \in Workers : RecordInvocation(w) /\ RunOf(w) = r
        PROVE  invocations'[r] \in {0, invocations[r]}
    <3>1. CASE UNCHANGED invocations
      BY <3>1
    <3>2. CASE \E q \in Runs : DeleteConversation(q)
      BY <1>0, <3>2 DEF DeleteConversation
    <3>3. ASSUME NEW w \in Workers, RecordInvocation(w) PROVE invocations'[r] = invocations[r]
      BY <1>0, <2>3, <3>3 DEF RecordInvocation
    <3> QED BY <1>0, <3>1, <3>2, <3>3, RecordSteps
  <2> QED BY <1>0, <2>1, <2>2, <2>3, RateKept
<1> QED BY <1>3, <1>4

\* count_tool_invocations and record_tool_invocation are two statements: workers
\* that count at the same time overshoot the limit, by one call for each of them but
\* one, however often runs are recovered, resumed and erased.
THEOREM ToolCallsLimited ==
  ASSUME IsFiniteSet(Workers)
  PROVE  Spec => []InvocationsBounded
<1>1. Init => RateInv
  <2> SUFFICES ASSUME Init, NEW r \in Runs PROVE RateOK(r)
    BY TypeInit DEF RateInv
  <2>1. Recording(r) = {} /\ invocations[r] = 0
    BY DEF Init, Recording, Ready, At
  <2>2. Cardinality(Recording(r)) = 0 /\ Cardinality(Workers) \in Nat /\ RateLimit \in Nat
    BY <2>1, FS_EmptySet, FS_CardinalityType, LimitsAssumption
  <2> QED BY <2>1, <2>2 DEF RateOK
<1>2. RateInv => InvocationsBounded
  <2> SUFFICES ASSUME RateInv, NEW r \in Runs
               PROVE  invocations[r] <= IF RateLimit = 0 THEN 0 ELSE RateLimit + Cardinality(Workers) - 1
    BY DEF InvocationsBounded
  <2>1. IsFiniteSet(Recording(r))
    BY FS_Subset DEF Recording
  <2>2. Cardinality(Recording(r)) \in Nat /\ Cardinality(Workers) \in Nat
    BY <2>1, FS_CardinalityType
  <2>3. invocations[r] \in Nat /\ RateLimit \in Nat
    BY LimitsAssumption DEF RateInv, TypeOK
  <2> QED BY <2>2, <2>3 DEF RateInv, RateOK
<1>3. RateInv /\ [Next]_vars => RateInv'
  BY RateNext
<1> QED BY <1>1, <1>2, <1>3, PTL DEF Spec
=============================================================================
