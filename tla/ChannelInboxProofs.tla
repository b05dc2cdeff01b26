------------------------- MODULE ChannelInboxProofs -------------------------
(* Theorems about ChannelInbox, for all its constants. *)
EXTENDS ChannelInbox, FiniteSetTheorems, TLAPS

-----------------------------------------------------------------------------
(* Type correctness *)

Inbox == [Events -> [st : {"none", "processing", "failed"} \cup SETTLED, old : BOOLEAN]]
Outbound == [Events -> [st : {"none", "sending", "sent", "failed"}, old : BOOLEAN]]
PC == {"queued", "lock", "submit", "answer", "poll", "send", "accepted"}
BusyState == [pc : PC, ev : Events, seen : Nat \ {0}, ag : Agents, rt : Nat, run : Nat, conv : Nat]

\* What agent-service and QQ know, the times, and the rows of other bots.
AgentOK ==
  /\ starved \in BOOLEAN
  /\ deliveries \in [Events -> Nat] /\ overdue \in [Events -> Nat]
  /\ \A e \in Events : deliveries[e] <= MaxDeliveries[e] /\ overdue[e] <= deliveries[e]
  /\ agent \in [Events -> [run : Nat, conv : Nat, ag : 0..NumAgents, st : {"none", "active", "done"}]]
  /\ runs \in [Events -> Nat] /\ convs \in Nat
  /\ setbacks \in Nat /\ faults \in Nat /\ faults + setbacks <= MaxFaults

GatewayOK ==
  /\ inbox \in Inbox /\ outbound \in Outbound
  /\ mapping \in [Agents \X Scopes -> Nat]
  /\ task \in [Tasks -> TaskState]
  /\ runtime \in [Agents -> Nat]
  /\ sent \in [Events -> Nat] /\ takeovers \in [Events -> Nat]

LEMMA TypeParts == (TypeOK <=> AgentOK /\ GatewayOK) /\ (AgentOK' /\ GatewayOK' => TypeOK')
BY DEF TypeOK, AgentOK, GatewayOK, Inbox, Outbound

\* A task that is not free has all its fields, and what becomes of it is a task.
LEMMA BusyTask ==
  ASSUME GatewayOK, NEW t \in Tasks, task[t].pc # "free"
  PROVE  /\ task[t] \in BusyState /\ task[t].ev \in Events /\ task[t].ag \in Agents
         /\ Key(t) \in Agents \X Scopes
<1>1. task[t] \in BusyState
  BY DEF GatewayOK, TaskState, BusyState, Free, PC
<1>2. task[t].ev \in Events /\ task[t].ag \in Agents
  BY <1>1 DEF BusyState
<1> QED BY <1>1, <1>2, ScopesAssumption DEF Key

LEMMA TaskTyped ==
  /\ Free \in TaskState /\ BusyState \subseteq TaskState
  /\ \A x \in BusyState, pc \in PC : [x EXCEPT !.pc = pc] \in BusyState
  /\ \A x \in BusyState, pc \in PC, c \in Nat : [x EXCEPT !.pc = pc, !.conv = c] \in BusyState
  /\ \A x \in BusyState, pc \in PC, c, k \in Nat :
       [x EXCEPT !.pc = pc, !.conv = c, !.run = k] \in BusyState
BY DEF TaskState, BusyState, Free, PC

LEMMA EndTyped ==
  ASSUME GatewayOK, NEW t \in Tasks, End(t)
  PROVE  task' \in [Tasks -> TaskState]
BY TaskTyped DEF GatewayOK, End

LEMMA WriteTyped ==
  ASSUME NEW e \in Events
  PROVE  /\ \A st \in {"processing", "failed"} \cup SETTLED :
              inbox \in Inbox /\ Write(inbox, e, st) => inbox' \in Inbox
         /\ \A st \in {"sending", "sent", "failed"} :
              outbound \in Outbound /\ Write(outbound, e, st) => outbound' \in Outbound
         /\ inbox \in Inbox /\ Touch(e) => inbox' \in Inbox
<1>1. ASSUME NEW st \in {"processing", "failed"} \cup SETTLED, inbox \in Inbox, Write(inbox, e, st)
      PROVE  inbox' \in Inbox
  BY <1>1 DEF Write, Inbox, SETTLED
<1>2. ASSUME NEW st \in {"sending", "sent", "failed"}, outbound \in Outbound, Write(outbound, e, st)
      PROVE  outbound' \in Outbound
  BY <1>2 DEF Write, Outbound
<1>3. ASSUME inbox \in Inbox, Touch(e) PROVE inbox' \in Inbox
  <2>1. inbox[e].old \in BOOLEAN /\ FALSE \in BOOLEAN
    BY <1>3 DEF Inbox
  <2>2. (IF inbox[e].st = "processing" THEN FALSE ELSE inbox[e].old) \in BOOLEAN
    BY <2>1
  <2> QED BY <1>3, <2>2 DEF Touch, Inbox
<1> QED BY <1>1, <1>2, <1>3

LEMMA TypeInit == Init => TypeOK
<1> SUFFICES ASSUME Init PROVE AgentOK /\ GatewayOK
  BY TypeParts
<1>1. AgentOK
  <2>1. NotRemembered \in [run : Nat, conv : Nat, ag : 0..NumAgents, st : {"none", "active", "done"}]
    BY LimitsAssumption DEF NotRemembered
  <2>2. /\ agent \in [Events -> [run : Nat, conv : Nat, ag : 0..NumAgents, st : {"none", "active", "done"}]]
        /\ starved \in BOOLEAN
    BY <2>1 DEF Init
  <2>3. \A e \in Events : deliveries[e] <= MaxDeliveries[e] /\ overdue[e] <= deliveries[e]
    BY LimitsAssumption DEF Init
  <2> QED BY <2>2, <2>3, LimitsAssumption DEF Init, AgentOK
<1>2. inbox \in Inbox /\ outbound \in Outbound
  BY DEF Init, Inbox, Outbound, SETTLED
<1>3. task \in [Tasks -> TaskState]
  BY TaskTyped DEF Init
<1>4. /\ runtime \in [Agents -> Nat] /\ sent \in [Events -> Nat] /\ takeovers \in [Events -> Nat]
      /\ mapping \in [Agents \X Scopes -> Nat]
  BY LimitsAssumption DEF Init, Agents
<1> QED BY <1>1, <1>2, <1>3, <1>4 DEF GatewayOK

\* agent-service and the times stay, and at most one fault is counted.
LEMMA AgentSame ==
  ASSUME AgentOK, UNCHANGED <<world, service>>, UNCHANGED faults \/ Fault
  PROVE  AgentOK'
<1>1. UNCHANGED <<starved, deliveries, overdue, agent, runs, convs, setbacks>>
  BY DEF world, service
<1>2. faults' \in Nat /\ faults' + setbacks <= MaxFaults
  BY LimitsAssumption DEF AgentOK, Fault, Hitch
<1> QED BY <1>1, <1>2 DEF AgentOK

\* The gateway's state stays but for the inbox, the outbox and one task.
LEMMA GatewaySame ==
  ASSUME GatewayOK, inbox' \in Inbox, outbound' \in Outbound, task' \in [Tasks -> TaskState],
         UNCHANGED <<mapping, runtime, replies>>
  PROVE  GatewayOK'
BY DEF GatewayOK, replies

LEMMA ScheduleTyped ==
  ASSUME GatewayOK, NEW a \in Agents, NEW e \in Events, NEW seen \in Nat \ {0}, Schedule(a, e, seen)
  PROVE  inbox' \in Inbox /\ task' \in [Tasks -> TaskState]
<1>1. PICK t \in Tasks : task' = [task EXCEPT ![t] = Task(a, e, seen)]
  BY DEF Schedule
<1>2. Task(a, e, seen) \in TaskState
  BY DEF GatewayOK, Task, TaskState
<1>3. inbox' \in Inbox
  BY WriteTyped DEF Schedule, GatewayOK
<1> QED BY <1>1, <1>2, <1>3 DEF GatewayOK

LEMMA TypeScheduled ==
  ASSUME TypeOK, NEW a \in Agents, NEW e \in Events, Deliver(a, e) \/ Retry(a, e)
  PROVE  TypeOK'
<1> AgentOK /\ GatewayOK
  BY TypeParts
<1>1. CASE Deliver(a, e)
  <2>1. deliveries' = [deliveries EXCEPT ![e] = @ + 1] /\ deliveries[e] < MaxDeliveries[e]
        /\ UNCHANGED <<starved, overdue, agent, runs, convs, setbacks, faults>>
    BY <1>1 DEF Deliver, service
  <2>2. deliveries[e] \in Nat /\ MaxDeliveries[e] \in Nat /\ overdue[e] \in Nat
    BY LimitsAssumption DEF AgentOK
  <2>3. AgentOK'
    <3>1. \A d \in Events : deliveries'[d] <= MaxDeliveries[d] /\ overdue'[d] <= deliveries'[d]
      BY <2>1, <2>2 DEF AgentOK
    <3> QED BY <2>1, <3>1 DEF AgentOK
  <2>4. inbox' \in Inbox /\ task' \in [Tasks -> TaskState]
    <3>1. CASE Schedule(a, e, deliveries[e] + 1)
      BY <2>2, <3>1, ScheduleTyped
    <3>2. CASE UNCHANGED <<inbox, task>>
      BY <3>2 DEF GatewayOK
    <3> QED BY <1>1, <3>1, <3>2 DEF Deliver
  <2>5. GatewayOK'
    BY <1>1, <2>4 DEF Deliver, GatewayOK, replies
  <2> QED BY <2>3, <2>5, TypeParts
<1>2. CASE Retry(a, e)
  <2>1. inbox' \in Inbox /\ task' \in [Tasks -> TaskState]
    BY <1>2, ScheduleTyped DEF Retry
  <2>2. GatewayOK'
    BY <1>2, <2>1 DEF Retry, GatewayOK, replies
  <2> QED BY <1>2, <2>2, AgentSame, TypeParts DEF Retry
<1> QED BY <1>1, <1>2

LEMMA TypeEvent ==
  ASSUME TypeOK, NEW e \in Events, RunEnds(e) \/ EventAges(e) \/ OutboundAges(e) \/ WindowEnds(e)
  PROVE  TypeOK'
<1> AgentOK /\ GatewayOK
  BY TypeParts
<1>3. CASE RunEnds(e)
  <2>1. agent' = [agent EXCEPT ![e].st = "done"]
        /\ UNCHANGED <<world, runs, convs, setbacks, faults>>
    BY <1>3 DEF RunEnds
  <2>2. AgentOK'
    BY <2>1 DEF AgentOK, world
  <2>3. GatewayOK'
    BY <1>3 DEF RunEnds, GatewayOK, replies
  <2> QED BY <2>2, <2>3, TypeParts
<1>4. CASE EventAges(e)
  <2>1. inbox' \in Inbox
    BY <1>4 DEF EventAges, GatewayOK, Inbox
  <2>2. GatewayOK'
    BY <1>4, <2>1 DEF EventAges, GatewayOK, replies
  <2> QED BY <1>4, <2>2, AgentSame, TypeParts DEF EventAges
<1>5. CASE OutboundAges(e)
  <2>1. outbound' \in Outbound
    BY <1>5 DEF OutboundAges, GatewayOK, Outbound
  <2>2. GatewayOK'
    BY <1>5, <2>1 DEF OutboundAges, GatewayOK, replies
  <2> QED BY <1>5, <2>2, AgentSame, TypeParts DEF OutboundAges
<1>6. CASE WindowEnds(e)
  <2>1. overdue' = [overdue EXCEPT ![e] = @ + 1] /\ overdue[e] < deliveries[e]
        /\ UNCHANGED <<starved, deliveries, agent, runs, convs, setbacks, faults>>
    BY <1>6 DEF WindowEnds, service
  <2>2. AgentOK'
    <3>1. \A d \in Events : deliveries'[d] <= MaxDeliveries[d] /\ overdue'[d] <= deliveries'[d]
      BY <2>1 DEF AgentOK
    <3> QED BY <2>1, <3>1 DEF AgentOK
  <2>3. GatewayOK'
    BY <1>6 DEF WindowEnds, GatewayOK, replies
  <2> QED BY <2>2, <2>3, TypeParts
<1> QED BY <1>3, <1>4, <1>5, <1>6

\* What task t does to itself, in a step of it.
TaskMoves(t) ==
  \/ UNCHANGED task
  \/ End(t)
  \/ \E pc \in PC : task' = [task EXCEPT ![t].pc = pc]
  \/ \E pc \in PC, c \in Nat : task' = [task EXCEPT ![t].pc = pc, ![t].conv = c]
  \/ \E pc \in PC, c, k \in Nat : task' = [task EXCEPT ![t].pc = pc, ![t].conv = c, ![t].run = k]

LEMMA MovesTyped ==
  ASSUME GatewayOK, NEW t \in Tasks, task[t].pc # "free", TaskMoves(t)
  PROVE  task' \in [Tasks -> TaskState]
<1>1. task[t] \in BusyState
  BY BusyTask
<1>2. CASE UNCHANGED task
  BY <1>2 DEF GatewayOK
<1>3. CASE End(t)
  BY <1>3, EndTyped
<1>4. ASSUME NEW pc \in PC, task' = [task EXCEPT ![t].pc = pc] PROVE task' \in [Tasks -> TaskState]
  <2>1. [task[t] EXCEPT !.pc = pc] \in TaskState
    BY <1>1, TaskTyped
  <2> QED BY <1>4, <2>1 DEF GatewayOK
<1>5. ASSUME NEW pc \in PC, NEW c \in Nat, task' = [task EXCEPT ![t].pc = pc, ![t].conv = c]
      PROVE  task' \in [Tasks -> TaskState]
  <2>1. [task[t] EXCEPT !.pc = pc, !.conv = c] \in TaskState
    BY <1>1, TaskTyped
  <2> QED BY <1>5, <2>1 DEF GatewayOK
<1>6. ASSUME NEW pc \in PC, NEW c \in Nat, NEW k \in Nat,
             task' = [task EXCEPT ![t].pc = pc, ![t].conv = c, ![t].run = k]
      PROVE  task' \in [Tasks -> TaskState]
  <2>1. [task[t] EXCEPT !.pc = pc, !.conv = c, !.run = k] \in TaskState
    BY <1>1, TaskTyped
  <2> QED BY <1>6, <2>1 DEF GatewayOK
<1> QED BY <1>2, <1>3, <1>4, <1>5, <1>6 DEF TaskMoves

LEMMA TypeProcess ==
  ASSUME TypeOK, NEW t \in Tasks, Process(t)
  PROVE  TypeOK'
<1> AgentOK /\ GatewayOK
  BY TypeParts
<1> DEFINE e == task[t].ev
<1> inbox \in Inbox /\ outbound \in Outbound
  BY DEF GatewayOK
<1>1. task[t].pc # "free"
  BY DEF Process, Begin, Lock, Fail, TakeAnswer, LoseAnswer, PollAgain, Reply, Accept, Repost, Sent, NotSent
<1>2. task[t] \in BusyState /\ e \in Events
  BY <1>1, BusyTask
<1>3. AgentOK'
  BY AgentSame DEF Process, Begin, Lock, Fail, TakeAnswer, LoseAnswer, PollAgain, Reply, Accept,
    Repost, Sent, NotSent
<1>4. (/\ inbox' \in Inbox /\ outbound' \in Outbound /\ TaskMoves(t)
       /\ UNCHANGED <<mapping, runtime, replies>>) => GatewayOK'
  BY <1>1, MovesTyped, GatewaySame
<1>5. CASE Begin(t)
  <2>1. inbox' \in Inbox
    BY <1>2, <1>5, WriteTyped DEF Begin, Expire, SETTLED
  <2>2. TaskMoves(t)
    BY <1>5 DEF Begin, Expire, TaskMoves, PC
  <2> QED BY <1>3, <1>4, <1>5, <2>1, <2>2, TypeParts DEF Begin
<1>6. CASE Lock(t)
  <2>1. mapping[Key(t)] \in Nat
    BY <1>1, BusyTask DEF GatewayOK
  <2>2. TaskMoves(t)
    BY <1>6, <2>1 DEF Lock, TaskMoves, PC
  <2> QED BY <1>3, <1>4, <1>6, <2>2, TypeParts DEF Lock
<1>7. CASE Fail(t)
  <2>1. inbox' \in Inbox
    BY <1>2, <1>7, WriteTyped DEF Fail
  <2>2. TaskMoves(t)
    BY <1>7 DEF Fail, TaskMoves
  <2> QED BY <1>3, <1>4, <1>7, <2>1, <2>2, TypeParts DEF Fail
<1>8. CASE TakeAnswer(t)
  <2>1. mapping' \in [Agents \X Scopes -> Nat]
    BY <1>2, <1>8 DEF TakeAnswer, GatewayOK, BusyState
  <2>2. inbox' \in Inbox
    BY <1>8 DEF TakeAnswer, Inbox
  <2>3. TaskMoves(t)
    BY <1>8 DEF TakeAnswer, TaskMoves, PC
  <2>4. task' \in [Tasks -> TaskState]
    BY <1>1, <2>3, MovesTyped
  <2>5. GatewayOK'
    BY <1>8, <2>1, <2>2, <2>4 DEF TakeAnswer, GatewayOK, replies
  <2> QED BY <1>3, <2>5, TypeParts
<1>9. CASE LoseAnswer(t)
  <2>1. inbox' \in Inbox
    BY <1>2, <1>9, WriteTyped DEF LoseAnswer
  <2>2. TaskMoves(t)
    BY <1>9 DEF LoseAnswer, TaskMoves
  <2> QED BY <1>3, <1>4, <1>9, <2>1, <2>2, TypeParts DEF LoseAnswer
<1>10. CASE PollAgain(t)
  <2>1. inbox' \in Inbox
    BY <1>2, <1>10, WriteTyped DEF PollAgain
  <2> QED BY <1>3, <1>4, <1>10, <2>1, TypeParts DEF PollAgain, TaskMoves
<1>11. CASE Reply(t)
  <2>1. CASE ClaimReply(t)
    <3>1. inbox' \in Inbox /\ outbound' \in Outbound
      BY <1>2, <2>1, WriteTyped DEF ClaimReply
    <3>2. TaskMoves(t)
      BY <2>1 DEF ClaimReply, TaskMoves, PC
    <3>3. takeovers' \in [Events -> Nat]
      BY <1>2, <2>1 DEF ClaimReply, GatewayOK
    <3>4. task' \in [Tasks -> TaskState] /\ UNCHANGED <<mapping, runtime, sent>>
      BY <1>1, <1>11, <3>2, MovesTyped DEF Reply
    <3>5. GatewayOK'
      BY <3>1, <3>3, <3>4 DEF GatewayOK
    <3> QED BY <1>3, <3>5, TypeParts
  <2>2. CASE ~ClaimReply(t)
    <3>1. inbox' \in Inbox
      BY <1>2, <1>11, <2>2, WriteTyped DEF Reply, Expire, SETTLED
    <3>2. outbound' \in Outbound
      BY <1>2, <1>11, <2>2, WriteTyped DEF Reply
    <3>3. TaskMoves(t) /\ UNCHANGED <<mapping, runtime, replies>>
      BY <1>11, <2>2 DEF Reply, Expire, TaskMoves, replies
    <3> QED BY <1>3, <1>4, <3>1, <3>2, <3>3, TypeParts
  <2> QED BY <2>1, <2>2
<1>12. CASE Accept(t)
  <2>1. sent' \in [Events -> Nat]
    BY <1>2, <1>12 DEF Accept, GatewayOK
  <2>2. TaskMoves(t)
    BY <1>12 DEF Accept, TaskMoves, PC
  <2>3. task' \in [Tasks -> TaskState]
    BY <1>1, <2>2, MovesTyped
  <2>4. GatewayOK'
    BY <1>12, <2>1, <2>3 DEF Accept, GatewayOK
  <2> QED BY <1>3, <2>4, TypeParts
<1>13. CASE Repost(t)
  <2>1. TaskMoves(t)
    BY <1>13 DEF Repost, TaskMoves, PC
  <2> QED BY <1>3, <1>4, <1>13, <2>1, TypeParts DEF Repost
<1>14. CASE Sent(t)
  <2>1. inbox' \in Inbox /\ outbound' \in Outbound
    BY <1>2, <1>14, WriteTyped DEF Sent, SETTLED
  <2>2. TaskMoves(t)
    BY <1>14 DEF Sent, TaskMoves
  <2> QED BY <1>3, <1>4, <1>14, <2>1, <2>2, TypeParts DEF Sent
<1>15. CASE NotSent(t)
  <2>1. inbox' \in Inbox /\ outbound' \in Outbound
    BY <1>2, <1>15, WriteTyped DEF NotSent
  <2>2. TaskMoves(t)
    BY <1>15 DEF NotSent, TaskMoves
  <2> QED BY <1>3, <1>4, <1>15, <2>1, <2>2, TypeParts DEF NotSent
<1> QED
  BY <1>5, <1>6, <1>7, <1>8, <1>9, <1>10, <1>11, <1>12, <1>13, <1>14, <1>15 DEF Process

LEMMA TypeServe ==
  ASSUME TypeOK, NEW t \in Tasks, Serve(t)
  PROVE  TypeOK'
<1> AgentOK /\ GatewayOK
  BY TypeParts
<1> DEFINE e == task[t].ev
           c == Conversation(task[t].conv)
<1> inbox \in Inbox /\ outbound \in Outbound
  BY DEF GatewayOK
<1>1. task[t].pc # "free"
  BY DEF Serve, FindEvent, CreateChannelRun, RefuseRun, ForgetRun, Admitted
<1>2. task[t] \in BusyState /\ e \in Events
  BY <1>1, BusyTask
<1>3. c \in Nat /\ convs \in Nat /\ runs[e] + 1 \in Nat /\ task[t].ag \in 0..NumAgents
  BY <1>2, LimitsAssumption DEF Conversation, BusyState, AgentOK, Agents
<1>4. (/\ inbox' \in Inbox /\ UNCHANGED outbound /\ TaskMoves(t)
       /\ UNCHANGED <<mapping, runtime, replies>>) => GatewayOK'
  BY <1>1, MovesTyped, GatewaySame
<1>5. CASE FindEvent(t)
  <2>1. agent[e].conv \in Nat /\ agent[e].run \in Nat
    BY <1>2 DEF AgentOK
  <2>2. TaskMoves(t)
    BY <1>5, <2>1 DEF FindEvent, Answered, TaskMoves, PC
  <2> QED BY <1>4, <1>5, <2>2, AgentSame, TypeParts DEF FindEvent
<1>6. CASE CreateChannelRun(t)
  <2>1. /\ runs' = [runs EXCEPT ![e] = @ + 1]
        /\ convs' = IF c > convs THEN c ELSE convs
        /\ agent' = [agent EXCEPT ![e] = [run |-> runs[e] + 1, conv |-> c, ag |-> task[t].ag, st |-> "active"]]
        /\ Answered(t, c, runs[e] + 1)
        /\ UNCHANGED <<inbox, outbound, mapping, runtime, world, replies, setbacks, faults>>
    BY <1>6 DEF CreateChannelRun
  <2> HIDE DEF e, c
  <2>2. AgentOK'
    <3>1. agent' \in [Events -> [run : Nat, conv : Nat, ag : 0..NumAgents, st : {"none", "active", "done"}]]
      BY <1>3, <2>1 DEF AgentOK
    <3>2. runs' \in [Events -> Nat] /\ convs' \in Nat
      BY <1>3, <2>1 DEF AgentOK
    <3> QED BY <2>1, <3>1, <3>2 DEF AgentOK, world
  <2>3. TaskMoves(t)
    BY <1>3, <2>1 DEF Answered, TaskMoves, PC
  <2> QED BY <1>4, <2>1, <2>2, <2>3, TypeParts
<1>7. ASSUME runs' = runs \/ runs' = [runs EXCEPT ![e] = @ + 1],
             convs' = IF c > convs THEN convs + 1 ELSE convs,
             Write(inbox, e, "failed"), End(t),
             UNCHANGED <<outbound, mapping, runtime, world, agent, replies>>,
             setbacks' \in Nat, faults' \in Nat, faults' + setbacks' <= MaxFaults
      PROVE  TypeOK'
  <2>1. runs' \in [Events -> Nat] /\ convs' \in Nat
    <3> HIDE DEF e, c
    <3> QED BY <1>3, <1>7 DEF AgentOK
  <2>2. AgentOK'
    BY <1>7, <2>1 DEF AgentOK, world
  <2>3. inbox' \in Inbox /\ TaskMoves(t)
    BY <1>2, <1>7, WriteTyped DEF TaskMoves
  <2> QED BY <1>4, <1>7, <2>2, <2>3, TypeParts
<1>8. CASE RefuseRun(t)
  <2>1. setbacks' \in Nat /\ faults' \in Nat /\ faults' + setbacks' <= MaxFaults
    BY <1>8, LimitsAssumption DEF RefuseRun, Hitch, AgentOK
  <2> QED BY <1>7, <1>8, <2>1 DEF RefuseRun
<1>9. CASE ForgetRun(t)
  <2>1. setbacks' \in Nat /\ faults' \in Nat /\ faults' + setbacks' <= MaxFaults
    BY <1>9, LimitsAssumption DEF ForgetRun, Fault, Hitch, AgentOK
  <2> QED BY <1>7, <1>9, <2>1 DEF ForgetRun
<1> QED BY <1>5, <1>6, <1>8, <1>9 DEF Serve

\* The environment: connections, crashes, the rows of other bots and erasures.
Environment ==
  \/ \E a \in Agents : Reconnect(a) \/ Disconnect(a)
  \/ Crowd \/ Crash
  \/ \E c \in 1..convs : Erase(c)

LEMMA TypeEnvironment ==
  ASSUME TypeOK, Environment
  PROVE  TypeOK'
<1> AgentOK /\ GatewayOK
  BY TypeParts
<1>1. ASSUME NEW a \in Agents, StopRuntime(a)
      PROVE  inbox' \in Inbox /\ outbound' \in Outbound /\ task' \in [Tasks -> TaskState]
  <2>1. inbox' \in Inbox
    BY <1>1 DEF StopRuntime, GatewayOK, Inbox
  <2>2. outbound' \in Outbound
    BY <1>1 DEF StopRuntime, GatewayOK, Outbound
  <2>3. task' \in [Tasks -> TaskState]
    BY <1>1, TaskTyped DEF StopRuntime, GatewayOK
  <2> QED BY <2>1, <2>2, <2>3
<1>2. ASSUME NEW a \in Agents, Reconnect(a) PROVE TypeOK'
  <2>1. NumAgents + faults + 1 \in Nat
    BY LimitsAssumption DEF AgentOK
  <2>2. runtime' \in [Agents -> Nat]
    BY <1>2, <2>1 DEF Reconnect, GatewayOK
  <2>3. GatewayOK'
    BY <1>1, <1>2, <2>2 DEF Reconnect, GatewayOK, replies
  <2> QED BY <1>2, <2>3, AgentSame, TypeParts DEF Reconnect
<1>3. ASSUME NEW a \in Agents, Disconnect(a) PROVE TypeOK'
  <2>1. GatewayOK'
    BY <1>1, <1>3 DEF Disconnect, GatewayOK, replies
  <2> QED BY <1>3, <2>1, AgentSame, TypeParts DEF Disconnect
<1>4. CASE Crash
  <2>1. 0..NumAgents \subseteq Nat
    BY LimitsAssumption
  <2>2. runtime' \in [Agents -> Nat]
    BY <1>4, <2>1 DEF Crash
  <2>3. GatewayOK'
    BY <1>4, <2>2, TaskTyped DEF Crash, GatewayOK, replies
  <2> QED BY <1>4, <2>3, AgentSame, TypeParts DEF Crash
<1>5. ASSUME NEW c \in 1..convs, Erase(c) PROVE TypeOK'
  <2>1. agent' \in [Events -> [run : Nat, conv : Nat, ag : 0..NumAgents, st : {"none", "active", "done"}]]
    BY <1>5, LimitsAssumption DEF Erase, AgentOK, NotRemembered
  <2>2. faults' \in Nat /\ faults' + setbacks <= MaxFaults
    BY <1>5, LimitsAssumption DEF Erase, Fault, Hitch, AgentOK
  <2>3. AgentOK'
    BY <1>5, <2>1, <2>2 DEF Erase, AgentOK, world
  <2>4. GatewayOK'
    BY <1>5 DEF Erase, GatewayOK, replies
  <2> QED BY <2>3, <2>4, TypeParts
<1>6. CASE Crowd
  <2>1. setbacks' \in Nat /\ faults' \in Nat /\ faults' + setbacks' <= MaxFaults
    BY <1>6, LimitsAssumption DEF Crowd, Hitch, AgentOK
  <2>2. AgentOK'
    BY <1>6, <2>1 DEF Crowd, AgentOK
  <2>3. GatewayOK'
    BY <1>6 DEF Crowd, GatewayOK, replies
  <2> QED BY <2>2, <2>3, TypeParts
<1> QED BY <1>2, <1>3, <1>4, <1>5, <1>6 DEF Environment

LEMMA TypeStep == TypeOK /\ [Next]_vars => TypeOK'
<1> SUFFICES ASSUME TypeOK, [Next]_vars PROVE TypeOK'
  OBVIOUS
<1>1. CASE UNCHANGED vars
  BY <1>1, TypeParts DEF vars, AgentOK, GatewayOK
<1>2. CASE Next
  BY <1>2, TypeScheduled, TypeEvent, TypeProcess, TypeServe, TypeEnvironment DEF Next, Environment
<1> QED BY <1>1, <1>2

\* The tables, tasks and counters of the gateway are well typed.
THEOREM TypeCorrect == Spec => []TypeOK
BY TypeInit, TypeStep, PTL DEF Spec

-----------------------------------------------------------------------------
(* Replies *)

\* The requests of an event that QQ has not yet accepted.
Posts(e) == {t \in Tasks : task[t].pc = "send" /\ task[t].ev = e}

\* An event has one task in a runtime.
TasksKnown ==
  \A t, u \in Tasks :
    task[t].pc # "free" /\ task[u].pc # "free" /\ task[t].ev = task[u].ev /\ task[t].rt = task[u].rt
      => t = u

\* A reply on its way is one of the connected runtime of its agent.
SendersKnown ==
  \A t \in Tasks : OnTheWay(t) =>
    Connected(t) /\ (task[t].pc = "accepted" => sent[task[t].ev] > 0)

\* Each reply but one, accepted or asked for, has a fault or a takeover that explains
\* it, and each of them when none is recorded or on its way.
Counted(e) ==
  /\ sent[e] + Cardinality(Posts(e)) <= faults + takeovers[e] + 1
  /\ outbound[e].st # "sent" /\ Replying(e) = {} => sent[e] <= faults + takeovers[e]
  /\ outbound[e].st = "sent" => sent[e] > 0
RepliesCounted == \A e \in Events : Counted(e)

ReplyInv == TasksKnown /\ SendersKnown /\ RepliesCounted /\ CompletedIsReplied

LEMMA OneSender == ReplyInv => OneReplyInFlight
<1> SUFFICES ASSUME ReplyInv, NEW t \in Tasks, NEW u \in Tasks, OnTheWay(t), OnTheWay(u),
                    task[t].ev = task[u].ev, task[t].ag = task[u].ag
             PROVE  t = u
  BY DEF OneReplyInFlight
<1>1. task[t].rt = task[u].rt
  BY DEF ReplyInv, SendersKnown, Connected
<1> QED BY <1>1 DEF ReplyInv, TasksKnown, OnTheWay

LEMMA TasksFinite ==
  ASSUME NEW S \in SUBSET Tasks
  PROVE  IsFiniteSet(S) /\ Cardinality(S) \in Nat
BY LimitsAssumption, FS_Subset, FS_CardinalityType

\* The task stays, goes on without a reply on its way, or ends: when its reply was
\* accepted, by a fault.
Still(t) ==
  \/ task'[t] = task[t]
  \/ task'[t].pc = "free" /\ (task[t].pc = "accepted" => faults' = faults + 1)
  \/ /\ ~OnTheWay(t) /\ task'[t].pc \notin {"send", "accepted"} /\ task[t].pc # "free"
     /\ task'[t].ev = task[t].ev /\ task'[t].rt = task[t].rt

\* A record of a reply is lost only when another reply of the event is refused or
\* aborted.
LEMMA QuietCounted ==
  ASSUME TypeOK, NEW e \in Events, Counted(e), \A t \in Tasks : Still(t), UNCHANGED replies,
         faults' \in {faults, faults + 1},
         outbound'[e].st = "sent" => outbound[e].st = "sent",
         outbound'[e].st # "sent" => outbound[e].st # "sent" \/ Replying(e) # {}
  PROVE  Counted(e)'
<1>1. PICK f \in Nat, f1 \in Nat, s \in Nat, k \in Nat :
        f = faults /\ f1 = faults' /\ s = sent[e] /\ k = takeovers[e]
  <2>1. faults \in Nat /\ sent[e] \in Nat /\ takeovers[e] \in Nat
    BY DEF TypeOK
  <2>2. faults' \in Nat
    BY <2>1
  <2> QED BY <2>1, <2>2
<1>2. sent'[e] = s /\ takeovers'[e] = k /\ f1 \in {f, f + 1}
  BY <1>1 DEF replies
<1>3. Posts(e)' \subseteq Posts(e)
  BY DEF Posts, Still, OnTheWay
<1>4. /\ IsFiniteSet(Posts(e)) /\ Posts(e) \in SUBSET Tasks /\ Posts(e)' \in SUBSET Tasks
      /\ Cardinality(Posts(e)') <= Cardinality(Posts(e))
  <2>1. Posts(e) \in SUBSET Tasks /\ Posts(e)' \in SUBSET Tasks
    BY DEF Posts
  <2> QED BY <1>3, <2>1, TasksFinite, FS_Subset
<1>5. PICK c \in Nat, c1 \in Nat : c = Cardinality(Posts(e)) /\ c1 = Cardinality(Posts(e)')
  BY <1>4, TasksFinite
<1>6. c1 <= c /\ s + c <= f + k + 1
  BY <1>1, <1>4, <1>5 DEF Counted
<1>7. s + c1 <= f1 + k + 1
  BY <1>2, <1>6
<1>8. ASSUME outbound'[e].st # "sent", Replying(e)' = {} PROVE s <= f1 + k
  <2>1. CASE f1 = f + 1
    BY <1>6, <2>1
  <2>2. CASE f1 = f /\ Replying(e) = {}
    <3>1. s <= f + k
      BY <1>1, <1>8, <2>2 DEF Counted
    <3> QED BY <2>2, <3>1
  <2>3. CASE f1 = f /\ Replying(e) # {}
    <3>1. PICK t \in Tasks : OnTheWay(t) /\ task[t].ev = e
      BY <2>3 DEF Replying
    <3>2. task'[t] # task[t]
      BY <1>8, <3>1 DEF Replying, OnTheWay
    <3>3. faults' # faults + 1
      BY <1>1, <2>3
    <3>4. task[t].pc = "send"
      BY <3>1, <3>2, <3>3 DEF Still, OnTheWay
    <3>5. Posts(e) # {}
      BY <3>1, <3>4 DEF Posts
    <3>6. c # 0
      BY <1>4, <1>5, <3>5, FS_EmptySet
    <3> QED BY <1>6, <2>3, <3>6
  <2> QED BY <1>2, <2>1, <2>2, <2>3
<1>9. outbound'[e].st = "sent" => s > 0
  BY <1>1 DEF Counted
<1> QED BY <1>1, <1>2, <1>5, <1>7, <1>8, <1>9 DEF Counted

\* Steps in which replies are neither sent nor recorded.
LEMMA QuietStep ==
  ASSUME TypeOK, ReplyInv, \A t \in Tasks : Still(t), UNCHANGED replies,
         faults' \in {faults, faults + 1},
         \A t \in Tasks : OnTheWay(t)' => runtime'[task[t].ag] = runtime[task[t].ag],
         \A e \in Events : outbound'[e].st = "sent" => outbound[e].st = "sent",
         \A e \in Events : outbound'[e].st # "sent" => outbound[e].st # "sent" \/ Replying(e) # {},
         \A e \in Events : inbox'[e].st = "completed" =>
           outbound'[e].st = "sent" /\ (inbox[e].st = "completed" \/ outbound[e].st = "sent")
  PROVE  ReplyInv'
<1>1. \A t \in Tasks : task'[t].pc # "free" =>
        task[t].pc # "free" /\ task'[t].ev = task[t].ev /\ task'[t].rt = task[t].rt
  BY DEF Still
<1>2. TasksKnown'
  BY <1>1 DEF ReplyInv, TasksKnown
<1>3. SendersKnown'
  <2> SUFFICES ASSUME NEW t \in Tasks, OnTheWay(t)'
      PROVE  Connected(t)' /\ (task'[t].pc = "accepted" => sent'[task'[t].ev] > 0)
    BY DEF SendersKnown
  <2>1. task'[t] = task[t] /\ OnTheWay(t)
    BY DEF Still, OnTheWay
  <2> QED BY <2>1 DEF ReplyInv, SendersKnown, Connected, replies
<1>4. RepliesCounted'
  BY QuietCounted DEF ReplyInv, RepliesCounted
<1>5. CompletedIsReplied'
  BY DEF ReplyInv, CompletedIsReplied, RepliesCounted, Counted, replies
<1> QED BY <1>2, <1>3, <1>4, <1>5 DEF ReplyInv

LEMMA ReplyInit == Init => ReplyInv
<1> SUFFICES ASSUME Init PROVE ReplyInv
  OBVIOUS
<1>1. \A t \in Tasks : task[t].pc = "free"
  BY DEF Init, Free
<1>2. TasksKnown /\ SendersKnown /\ CompletedIsReplied
  BY <1>1 DEF Init, TasksKnown, SendersKnown, CompletedIsReplied, OnTheWay
<1>3. ASSUME NEW e \in Events PROVE Counted(e)
  <2>1. Posts(e) = {}
    BY <1>1 DEF Posts
  <2>2. Cardinality(Posts(e)) = 0
    BY <2>1, FS_EmptySet
  <2> QED BY <2>2 DEF Init, Counted
<1> QED BY <1>2, <1>3 DEF ReplyInv, RepliesCounted

\* A step of task t, whose event is e, is no matter of the other events.
LEMMA OtherEvents ==
  ASSUME NEW t \in Tasks, NEW e \in Events, NEW d \in Events, d # e,
         \A u \in Tasks : u # t => task'[u] = task[u],
         task[t].pc = "free" \/ task[t].ev = e, task'[t].pc = "free" \/ task'[t].ev = e,
         Counted(d), outbound'[d].st = outbound[d].st, sent'[d] = sent[d],
         takeovers'[d] = takeovers[d], faults' = faults \/ faults' = faults + 1, TypeOK
  PROVE  Counted(d)'
<1>1. Posts(d)' = Posts(d)
  BY DEF Posts
<1>2. Replying(d)' = Replying(d)
  BY DEF Replying, OnTheWay
<1>3. Posts(d) \in SUBSET Tasks
  BY DEF Posts
<1>4. PICK f \in Nat, s \in Nat, k \in Nat, c \in Nat :
        f = faults /\ s = sent[d] /\ k = takeovers[d] /\ c = Cardinality(Posts(d))
  BY <1>3, TasksFinite DEF TypeOK
<1>5. Cardinality(Posts(d)') = c
  BY <1>1, <1>4
<1>6. /\ s + c <= f + k + 1
      /\ outbound[d].st # "sent" /\ Replying(d) = {} => s <= f + k
      /\ outbound[d].st = "sent" => s > 0
  BY <1>4 DEF Counted
<1>7. PICK f1 \in Nat : f1 = faults' /\ f1 \in {f, f + 1}
  BY <1>4
<1>8. /\ s + c <= f1 + k + 1
      /\ outbound'[d].st # "sent" /\ Replying(d)' = {} => s <= f1 + k
      /\ outbound'[d].st = "sent" => s > 0
  <2>1. f1 >= f
    BY <1>7
  <2> QED BY <1>2, <1>6, <2>1
<1> QED BY <1>4, <1>5, <1>7, <1>8 DEF Counted

\* A new task: none of the event in the connected runtime.
LEMMA ReplySchedule ==
  ASSUME TypeOK, ReplyInv, NEW a \in Agents, NEW e \in Events, NEW seen \in Nat, Schedule(a, e, seen),
         ~Active(e, runtime[a]), UNCHANGED <<outbound, runtime, replies, faults>>
  PROVE  ReplyInv'
<1> GatewayOK
  BY TypeParts
<1>1. PICK t \in Tasks : task[t].pc = "free" /\ task' = [task EXCEPT ![t] = Task(a, e, seen)]
  BY DEF Schedule
<1>2. /\ task'[t].pc = "queued" /\ task'[t].ev = e /\ task'[t].rt = runtime[a]
      /\ \A u \in Tasks : u # t => task'[u] = task[u]
  BY <1>1 DEF Task, GatewayOK
<1>3. \A u \in Tasks : task[u].pc # "free" => task[u].ev # e \/ task[u].rt # runtime[a]
  BY DEF Active, Busy
<1>4. TasksKnown'
  <2> SUFFICES ASSUME NEW u \in Tasks, NEW v \in Tasks, task'[u].pc # "free", task'[v].pc # "free",
                      task'[u].ev = task'[v].ev, task'[u].rt = task'[v].rt
               PROVE  u = v
    BY DEF TasksKnown
  <2> QED BY <1>2, <1>3 DEF ReplyInv, TasksKnown
<1>5. SendersKnown'
  BY <1>2 DEF ReplyInv, SendersKnown, OnTheWay, Connected, replies
<1>6. RepliesCounted'
  <2>1. \A d \in Events : Posts(d)' = Posts(d) /\ Replying(d)' = Replying(d)
    BY <1>1, <1>2 DEF Posts, Replying, OnTheWay
  <2> QED BY <2>1 DEF ReplyInv, RepliesCounted, Counted, replies
<1>7. CompletedIsReplied'
  BY DEF ReplyInv, CompletedIsReplied, Schedule, Write, GatewayOK, Inbox, replies
<1> QED BY <1>4, <1>5, <1>6, <1>7 DEF ReplyInv

\* The claimed reply is on its way; when another one is, it was taken over.
LEMMA ReplySends ==
  ASSUME TypeOK, ReplyInv, NEW t \in Tasks, task[t].pc = "poll", ClaimReply(t),
         UNCHANGED <<runtime, sent, faults>>
  PROVE  ReplyInv'
<1>0. PICK e \in Events : e = task[t].ev
  BY TypeParts, BusyTask
<1> GatewayOK /\ e \in Events /\ task[t] \in BusyState /\ outbound[e].st # "sent"
  BY <1>0, TypeParts, BusyTask DEF ClaimReply, OutboundTaken
<1>1. /\ task'[t].pc = "send" /\ task'[t].ev = e /\ task'[t].rt = task[t].rt /\ task'[t].ag = task[t].ag
      /\ \A u \in Tasks : u # t => task'[u] = task[u]
  BY <1>0 DEF ClaimReply, GatewayOK, BusyState
<1>2. /\ outbound'[e].st = "sending" /\ \A d \in Events : d # e => outbound'[d] = outbound[d]
  BY <1>0 DEF ClaimReply, Write, GatewayOK, Outbound
<1>3. \A d \in Events : inbox'[d].st = inbox[d].st
  BY DEF ClaimReply, Touch, GatewayOK, Inbox
<1>4. /\ \A d \in Events : d # e => takeovers'[d] = takeovers[d]
      /\ \/ Replying(e) = {} /\ takeovers'[e] = takeovers[e]
         \/ Replying(e) # {} /\ takeovers'[e] = takeovers[e] + 1
  BY <1>0 DEF ClaimReply, GatewayOK
<1>5. Connected(t)
  BY DEF ClaimReply
<1>6. Counted(e)
  BY DEF ReplyInv, RepliesCounted
<1>7. TasksKnown'
  BY <1>0, <1>1 DEF ReplyInv, TasksKnown
<1>8. SendersKnown'
  <2> SUFFICES ASSUME NEW u \in Tasks, OnTheWay(u)'
      PROVE  Connected(u)' /\ (task'[u].pc = "accepted" => sent[task'[u].ev] > 0)
    BY DEF SendersKnown
  <2>1. CASE u = t
    BY <1>1, <1>5, <2>1 DEF Connected
  <2>2. CASE u # t
    <3>1. task'[u] = task[u] /\ OnTheWay(u)
      BY <1>1, <2>2 DEF OnTheWay
    <3> QED BY <3>1 DEF ReplyInv, SendersKnown, Connected
  <2> QED BY <2>1, <2>2
<1>9. Counted(e)'
  <2>1. Posts(e) \in SUBSET Tasks /\ t \notin Posts(e) /\ Posts(e)' = Posts(e) \cup {t}
    BY <1>1 DEF Posts
  <2>2. IsFiniteSet(Posts(e)) /\ Cardinality(Posts(e)') = Cardinality(Posts(e)) + 1
    BY <2>1, TasksFinite, FS_AddElement
  <2>3. PICK f \in Nat, s \in Nat, k \in Nat, k1 \in Nat, c \in Nat :
          f = faults /\ s = sent[e] /\ k = takeovers[e] /\ c = Cardinality(Posts(e)) /\ k1 = takeovers'[e]
    <3>1. faults \in Nat /\ sent[e] \in Nat /\ takeovers[e] \in Nat /\ Cardinality(Posts(e)) \in Nat
      BY <2>1, TasksFinite DEF TypeOK
    <3>2. takeovers'[e] \in Nat
      BY <1>4, <3>1
    <3> QED BY <3>1, <3>2
  <2>4. s + c <= f + k + 1
    BY <1>6, <2>3 DEF Counted
  <2>5. s + c + 1 <= f + k1 + 1
    <3>1. CASE Replying(e) = {}
      <4>1. Posts(e) = {}
        BY <3>1 DEF Posts, Replying, OnTheWay
      <4>2. c = 0
        BY <2>3, <4>1, FS_EmptySet
      <4>3. s <= f + k
        BY <1>6, <2>3, <3>1 DEF Counted
      <4>4. k1 = k
        BY <1>4, <2>3, <3>1
      <4> QED BY <4>2, <4>3, <4>4
    <3>2. CASE Replying(e) # {}
      <4>1. k1 = k + 1
        BY <1>4, <2>3, <3>2
      <4> QED BY <2>4, <4>1
    <3> QED BY <3>1, <3>2
  <2>6. Replying(e)' # {}
    BY <1>1 DEF Replying, OnTheWay
  <2>7. sent'[e] + Cardinality(Posts(e)') <= faults' + takeovers'[e] + 1
    BY <2>2, <2>3, <2>5
  <2> QED BY <1>2, <2>6, <2>7 DEF Counted
<1>10. RepliesCounted'
  <2> SUFFICES ASSUME NEW d \in Events, d # e PROVE Counted(d)'
    BY <1>9 DEF RepliesCounted
  <2>1. Counted(d)
    BY DEF ReplyInv, RepliesCounted
  <2> QED BY <1>0, <1>1, <1>2, <1>4, <2>1, OtherEvents
<1>11. CompletedIsReplied'
  BY <1>2, <1>3 DEF ReplyInv, CompletedIsReplied
<1> QED BY <1>7, <1>8, <1>10, <1>11 DEF ReplyInv

\* A reply is accepted.
LEMMA ReplyAccepted ==
  ASSUME TypeOK, ReplyInv, NEW t \in Tasks, Accept(t)
  PROVE  ReplyInv'
<1>0. PICK e \in Events : e = task[t].ev
  BY TypeParts, BusyTask DEF Accept
<1> GatewayOK
  BY TypeParts
<1>1. task[t].pc = "send" /\ e \in Events /\ task[t] \in BusyState
  BY BusyTask DEF Accept
<1>2. /\ task'[t].pc = "accepted" /\ task'[t].ev = e /\ task'[t].rt = task[t].rt /\ task'[t].ag = task[t].ag
      /\ \A u \in Tasks : u # t => task'[u] = task[u]
  BY <1>0, <1>1 DEF Accept, GatewayOK, BusyState
<1>3. /\ sent'[e] = sent[e] + 1 /\ \A d \in Events : d # e => sent'[d] = sent[d]
      /\ \A d \in Events : sent[d] \in Nat
  BY <1>0, <1>1 DEF Accept, GatewayOK
<1>4. UNCHANGED <<inbox, outbound, runtime, takeovers, faults>>
  BY DEF Accept
<1>5. Counted(e)
  BY <1>1 DEF ReplyInv, RepliesCounted
<1>6. TasksKnown'
  BY <1>0, <1>1, <1>2, <1>4 DEF ReplyInv, TasksKnown
<1>7. SendersKnown'
  <2> SUFFICES ASSUME NEW u \in Tasks, OnTheWay(u)'
      PROVE  Connected(u)' /\ (task'[u].pc = "accepted" => sent'[task'[u].ev] > 0)
    BY DEF SendersKnown
  <2>1. CASE u = t
    <3>1. Connected(t) /\ sent'[e] > 0
      BY <1>1, <1>3 DEF ReplyInv, SendersKnown, OnTheWay
    <3> QED BY <1>2, <1>4, <2>1, <3>1 DEF Connected
  <2>2. CASE u # t
    <3>1. task'[u] = task[u] /\ OnTheWay(u) /\ task[u].ev \in Events
      BY <1>2, <2>2, BusyTask DEF OnTheWay
    <3>2. sent[task[u].ev] \in Nat /\ sent'[task[u].ev] \in {sent[task[u].ev], sent[task[u].ev] + 1}
      BY <1>3, <3>1
    <3>3. sent[task[u].ev] > 0 => sent'[task[u].ev] > 0
      BY <3>2
    <3> QED BY <1>4, <3>1, <3>3 DEF ReplyInv, SendersKnown, Connected
  <2> QED BY <2>1, <2>2
<1>8. Counted(e)'
  <2>1. Posts(e) \in SUBSET Tasks /\ t \in Posts(e) /\ Posts(e)' = Posts(e) \ {t}
    BY <1>0, <1>1, <1>2 DEF Posts
  <2>2. IsFiniteSet(Posts(e)) /\ Cardinality(Posts(e)') = Cardinality(Posts(e)) - 1
    BY <2>1, TasksFinite, FS_RemoveElement
  <2>3. PICK f \in Nat, s \in Nat, k \in Nat, c \in Nat :
          f = faults /\ s = sent[e] /\ k = takeovers[e] /\ c = Cardinality(Posts(e))
    BY <1>1, <2>1, TasksFinite DEF TypeOK
  <2>4. s + c <= f + k + 1
    BY <1>5, <2>3 DEF Counted
  <2>5. s + 1 + (c - 1) <= f + k + 1
    BY <2>4
  <2>6. Replying(e)' # {}
    BY <1>2 DEF Replying, OnTheWay
  <2>7. s + 1 > 0
    OBVIOUS
  <2>8. sent'[e] = s + 1 /\ takeovers'[e] = k /\ faults' = f /\ Cardinality(Posts(e)') = c - 1
    BY <1>3, <1>4, <2>2, <2>3
  <2> QED BY <2>5, <2>6, <2>7, <2>8 DEF Counted
<1>9. RepliesCounted'
  <2> SUFFICES ASSUME NEW d \in Events, d # e PROVE Counted(d)'
    BY <1>8 DEF RepliesCounted
  <2>1. Counted(d)
    BY DEF ReplyInv, RepliesCounted
  <2> QED BY <1>0, <1>1, <1>2, <1>3, <1>4, <2>1, OtherEvents
<1>10. CompletedIsReplied'
  <2> SUFFICES ASSUME NEW d \in Events, inbox'[d].st = "completed"
      PROVE  outbound'[d].st = "sent" /\ sent'[d] > 0
    BY DEF CompletedIsReplied
  <2>1. outbound[d].st = "sent" /\ sent[d] > 0
    BY <1>4 DEF ReplyInv, CompletedIsReplied
  <2>2. sent'[d] \in {sent[d], sent[d] + 1} /\ sent[d] \in Nat
    BY <1>3
  <2> QED BY <1>4, <2>1, <2>2
<1> QED BY <1>6, <1>7, <1>9, <1>10 DEF ReplyInv

\* A message that was accepted is posted again, by a fault.
LEMMA ReplyPosted ==
  ASSUME TypeOK, ReplyInv, NEW t \in Tasks, Repost(t)
  PROVE  ReplyInv'
<1>0. PICK e \in Events : e = task[t].ev
  BY TypeParts, BusyTask DEF Repost
<1> GatewayOK
  BY TypeParts
<1>1. task[t].pc = "accepted" /\ e \in Events /\ task[t] \in BusyState
  BY BusyTask DEF Repost
<1>2. /\ task'[t].pc = "send" /\ task'[t].ev = e /\ task'[t].rt = task[t].rt /\ task'[t].ag = task[t].ag
      /\ \A u \in Tasks : u # t => task'[u] = task[u]
  BY <1>0, <1>1 DEF Repost, GatewayOK, BusyState
<1>3. UNCHANGED <<inbox, outbound, runtime, sent, takeovers>> /\ faults' = faults + 1
  BY DEF Repost, Fault, replies
<1>4. Counted(e)
  BY <1>1 DEF ReplyInv, RepliesCounted
<1>5. TasksKnown'
  BY <1>0, <1>1, <1>2 DEF ReplyInv, TasksKnown
<1>6. SendersKnown'
  <2> SUFFICES ASSUME NEW u \in Tasks, OnTheWay(u)'
      PROVE  Connected(u)' /\ (task'[u].pc = "accepted" => sent'[task'[u].ev] > 0)
    BY DEF SendersKnown
  <2>1. CASE u = t
    <3>1. Connected(t)
      BY <1>1 DEF ReplyInv, SendersKnown, OnTheWay
    <3> QED BY <1>2, <1>3, <2>1, <3>1 DEF Connected
  <2>2. CASE u # t
    <3>1. task'[u] = task[u] /\ OnTheWay(u)
      BY <1>2, <2>2 DEF OnTheWay
    <3> QED BY <1>3, <3>1 DEF ReplyInv, SendersKnown, Connected
  <2> QED BY <2>1, <2>2
<1>7. Counted(e)'
  <2>1. Posts(e) \in SUBSET Tasks /\ t \notin Posts(e) /\ Posts(e)' = Posts(e) \cup {t}
    BY <1>1, <1>2 DEF Posts
  <2>2. IsFiniteSet(Posts(e)) /\ Cardinality(Posts(e)') = Cardinality(Posts(e)) + 1
    BY <2>1, TasksFinite, FS_AddElement
  <2>3. PICK f \in Nat, s \in Nat, k \in Nat, c \in Nat :
          f = faults /\ s = sent[e] /\ k = takeovers[e] /\ c = Cardinality(Posts(e))
    BY <1>1, <2>1, TasksFinite DEF TypeOK
  <2>4. s + c <= f + k + 1 /\ (outbound[e].st = "sent" => s > 0)
    BY <1>4, <2>3 DEF Counted
  <2>5. s + (c + 1) <= (f + 1) + k + 1
    BY <2>4
  <2>6. Replying(e)' # {}
    BY <1>2 DEF Replying, OnTheWay
  <2>7. sent'[e] = s /\ takeovers'[e] = k /\ faults' = f + 1 /\ Cardinality(Posts(e)') = c + 1
    BY <1>3, <2>2, <2>3
  <2> QED BY <1>3, <2>4, <2>5, <2>6, <2>7 DEF Counted
<1>8. RepliesCounted'
  <2> SUFFICES ASSUME NEW d \in Events, d # e PROVE Counted(d)'
    BY <1>7 DEF RepliesCounted
  <2>1. Counted(d)
    BY DEF ReplyInv, RepliesCounted
  <2> QED BY <1>0, <1>1, <1>2, <1>3, <2>1, OtherEvents
<1>9. CompletedIsReplied'
  BY <1>3 DEF ReplyInv, CompletedIsReplied
<1> QED BY <1>5, <1>6, <1>8, <1>9 DEF ReplyInv

\* The accepted reply is recorded.
LEMMA ReplyRecorded ==
  ASSUME TypeOK, ReplyInv, NEW t \in Tasks, Sent(t)
  PROVE  ReplyInv'
<1>0. PICK e \in Events : e = task[t].ev
  BY TypeParts, BusyTask DEF Sent
<1> GatewayOK
  BY TypeParts
<1>1. task[t].pc = "accepted" /\ e \in Events
  BY BusyTask DEF Sent
<1>2. task'[t].pc = "free" /\ \A u \in Tasks : u # t => task'[u] = task[u]
  BY DEF Sent, End, Free, GatewayOK
<1>3. UNCHANGED <<sent, takeovers, runtime, faults>>
  BY DEF Sent, replies
<1>4. /\ outbound'[e].st = "sent" /\ inbox'[e].st = "completed"
      /\ \A d \in Events : d # e => outbound'[d] = outbound[d] /\ inbox'[d] = inbox[d]
  BY <1>0, <1>1 DEF Sent, Write, GatewayOK, Outbound, Inbox
<1>5. sent[e] > 0 /\ Counted(e)
  BY <1>0, <1>1 DEF ReplyInv, SendersKnown, RepliesCounted, OnTheWay
<1>6. TasksKnown'
  BY <1>2, <1>3 DEF ReplyInv, TasksKnown
<1>7. SendersKnown'
  <2> SUFFICES ASSUME NEW u \in Tasks, OnTheWay(u)'
      PROVE  Connected(u)' /\ (task'[u].pc = "accepted" => sent'[task'[u].ev] > 0)
    BY DEF SendersKnown
  <2>1. u # t /\ task'[u] = task[u] /\ OnTheWay(u)
    BY <1>2 DEF OnTheWay
  <2> QED BY <2>1, <1>3 DEF ReplyInv, SendersKnown, Connected
<1>8. Counted(e)'
  <2>1. Posts(e)' = Posts(e)
    BY <1>1, <1>2 DEF Posts
  <2> QED BY <1>3, <1>4, <1>5, <2>1 DEF Counted
<1>9. RepliesCounted'
  <2> SUFFICES ASSUME NEW d \in Events, d # e PROVE Counted(d)'
    BY <1>8 DEF RepliesCounted
  <2>1. Counted(d)
    BY DEF ReplyInv, RepliesCounted
  <2> QED BY <1>0, <1>1, <1>2, <1>3, <1>4, <2>1, OtherEvents
<1>10. CompletedIsReplied'
  BY <1>3, <1>4, <1>5 DEF ReplyInv, CompletedIsReplied
<1> QED BY <1>6, <1>7, <1>9, <1>10 DEF ReplyInv

\* The same, for a step of one task that has no reply on its way.
LEMMA QuietTask ==
  ASSUME TypeOK, ReplyInv, NEW t \in Tasks, task[t].pc # "free", ~OnTheWay(t),
         \/ UNCHANGED task
         \/ End(t)
         \/ \E pc \in PC \ {"send", "accepted"} :
              \/ task' = [task EXCEPT ![t].pc = pc]
              \/ \E c \in Nat : task' = [task EXCEPT ![t].pc = pc, ![t].conv = c]
              \/ \E c, k \in Nat : task' = [task EXCEPT ![t].pc = pc, ![t].conv = c, ![t].run = k],
         UNCHANGED <<runtime, replies>>, faults' \in {faults, faults + 1},
         \A e \in Events : outbound'[e].st = "sent" <=> outbound[e].st = "sent",
         \A e \in Events : inbox'[e].st = "completed" =>
           inbox[e].st = "completed" \/ outbound[e].st = "sent"
  PROVE  ReplyInv'
<1> GatewayOK /\ task[t] \in BusyState
  BY TypeParts, BusyTask
<1>1. \A u \in Tasks : u # t => task'[u] = task[u]
  BY DEF End, GatewayOK
<1>2. Still(t)
  <2>1. CASE UNCHANGED task
    BY <2>1 DEF Still
  <2>2. CASE End(t)
    BY <2>2 DEF End, Free, Still, OnTheWay, GatewayOK
  <2>3. ASSUME NEW pc \in PC \ {"send", "accepted"},
               \/ task' = [task EXCEPT ![t].pc = pc]
               \/ \E c \in Nat : task' = [task EXCEPT ![t].pc = pc, ![t].conv = c]
               \/ \E c, k \in Nat : task' = [task EXCEPT ![t].pc = pc, ![t].conv = c, ![t].run = k]
        PROVE  Still(t)
    <3> DEFINE kept == task'[t].pc = pc /\ task'[t].ev = task[t].ev /\ task'[t].rt = task[t].rt
    <3>1. task' = [task EXCEPT ![t].pc = pc] => kept
      BY DEF GatewayOK, BusyState
    <3>2. ASSUME NEW c \in Nat, task' = [task EXCEPT ![t].pc = pc, ![t].conv = c] PROVE kept
      <4>1. task'[t] = [task[t] EXCEPT !.pc = pc, !.conv = c]
        BY <3>2 DEF GatewayOK
      <4> QED BY <4>1 DEF BusyState
    <3>3. ASSUME NEW c \in Nat, NEW k \in Nat,
                 task' = [task EXCEPT ![t].pc = pc, ![t].conv = c, ![t].run = k]
          PROVE  kept
      <4>1. task'[t] = [task[t] EXCEPT !.pc = pc, !.conv = c, !.run = k]
        BY <3>3 DEF GatewayOK
      <4> QED BY <4>1 DEF BusyState
    <3> QED BY <2>3, <3>1, <3>2, <3>3 DEF Still
  <2> QED BY <2>1, <2>2, <2>3
<1>3. \A u \in Tasks : Still(u)
  BY <1>1, <1>2 DEF Still
<1>4. \A e \in Events : inbox'[e].st = "completed" =>
        outbound'[e].st = "sent" /\ (inbox[e].st = "completed" \/ outbound[e].st = "sent")
  BY DEF ReplyInv, CompletedIsReplied
<1> QED BY <1>3, <1>4, QuietStep

LEMMA WriteStates ==
  ASSUME TypeOK, NEW e \in Events
  PROVE  /\ \A st \in {"processing", "failed"} \cup SETTLED : Write(inbox, e, st) =>
              inbox'[e].st = st /\ \A d \in Events : d # e => inbox'[d].st = inbox[d].st
         /\ Touch(e) => \A d \in Events : inbox'[d].st = inbox[d].st
<1> inbox \in Inbox
  BY TypeParts DEF GatewayOK
<1>1. ASSUME NEW st \in {"processing", "failed"} \cup SETTLED, Write(inbox, e, st)
      PROVE  inbox'[e].st = st /\ \A d \in Events : d # e => inbox'[d].st = inbox[d].st
  BY <1>1 DEF Write, Inbox
<1>2. ASSUME Touch(e) PROVE \A d \in Events : inbox'[d].st = inbox[d].st
  BY <1>2 DEF Touch, Inbox
<1> QED BY <1>1, <1>2

LEMMA ReplyProcess ==
  ASSUME TypeOK, ReplyInv, NEW t \in Tasks, Process(t)
  PROVE  ReplyInv'
<1> DEFINE e == task[t].ev
<1> GatewayOK
  BY TypeParts
<1>1. task[t].pc # "free"
  BY DEF Process, Begin, Lock, Fail, TakeAnswer, LoseAnswer, PollAgain, Reply, Accept, Repost, Sent, NotSent
<1>2. task[t] \in BusyState /\ e \in Events
  BY <1>1, BusyTask
<1>3. faults' \in {faults, faults + 1}
  BY DEF Process, Begin, Lock, Fail, TakeAnswer, LoseAnswer, PollAgain, Reply, Accept, Repost, Sent,
    NotSent, Fault
<1>4. CASE Begin(t)
  <2>1. ~OnTheWay(t)
    BY <1>4 DEF Begin, OnTheWay
  <2>2. End(t) \/ task' = [task EXCEPT ![t].pc = "lock"]
    BY <1>4 DEF Begin, Expire
  <2>3. \A d \in Events : inbox'[d].st = "completed" => inbox[d].st = "completed"
    BY <1>2, <1>4, WriteStates DEF Begin, Expire, SETTLED
  <2>4. UNCHANGED <<outbound, runtime, replies>>
    BY <1>4 DEF Begin
  <2> QED BY <1>1, <1>3, <2>1, <2>2, <2>3, <2>4, QuietTask DEF PC
<1>5. CASE Lock(t)
  <2>1. ~OnTheWay(t) /\ UNCHANGED <<inbox, outbound, runtime, replies>>
    BY <1>5 DEF Lock, OnTheWay
  <2>2. mapping[Key(t)] \in Nat
    BY <1>1, BusyTask DEF GatewayOK
  <2>3. \E c \in Nat : task' = [task EXCEPT ![t].pc = "submit", ![t].conv = c]
    BY <1>5, <2>2 DEF Lock
  <2> QED BY <1>1, <1>3, <2>1, <2>3, QuietTask DEF PC
<1>6. CASE Fail(t) \/ LoseAnswer(t)
  <2>1. ~OnTheWay(t) /\ End(t) /\ UNCHANGED <<outbound, runtime, replies>> /\ Write(inbox, e, "failed")
    BY <1>6 DEF Fail, LoseAnswer, OnTheWay
  <2>2. \A d \in Events : inbox'[d].st = "completed" => inbox[d].st = "completed"
    BY <1>2, <2>1, WriteStates
  <2> QED BY <1>1, <1>3, <2>1, <2>2, QuietTask
<1>7. CASE TakeAnswer(t)
  <2>1. ~OnTheWay(t) /\ task' = [task EXCEPT ![t].pc = "poll"] /\ UNCHANGED <<outbound, runtime, replies>>
    BY <1>7 DEF TakeAnswer, OnTheWay
  <2>2. \A d \in Events : inbox'[d].st = inbox[d].st
    BY <1>7 DEF TakeAnswer, GatewayOK, Inbox
  <2> QED BY <1>1, <1>3, <2>1, <2>2, QuietTask DEF PC
<1>8. CASE PollAgain(t)
  <2>1. ~OnTheWay(t) /\ UNCHANGED <<task, outbound, runtime, replies>>
    BY <1>8 DEF PollAgain, OnTheWay
  <2>2. \A d \in Events : inbox'[d].st = inbox[d].st
    BY <1>2, <1>8, WriteStates DEF PollAgain
  <2> QED BY <1>1, <1>3, <2>1, <2>2, QuietTask
<1>9. CASE Reply(t)
  <2>1. task[t].pc = "poll" /\ ~OnTheWay(t) /\ UNCHANGED <<runtime, sent, faults>>
    BY <1>9 DEF Reply, OnTheWay
  <2>2. CASE Expire(t) /\ UNCHANGED <<outbound, takeovers>>
    <3>1. \A d \in Events : inbox'[d].st = "completed" => inbox[d].st = "completed"
      BY <1>2, <2>2, WriteStates DEF Expire, SETTLED
    <3> QED BY <1>1, <1>3, <2>1, <2>2, <3>1, QuietTask DEF Expire, replies
  <2>3. CASE /\ outbound[e].st = "sent" /\ Write(inbox, e, "completed") /\ End(t)
             /\ UNCHANGED <<outbound, takeovers>>
    <3>1. \A d \in Events : inbox'[d].st = "completed" => inbox[d].st = "completed" \/ outbound[d].st = "sent"
      BY <1>2, <2>3, WriteStates DEF SETTLED
    <3> QED BY <1>1, <1>3, <2>1, <2>3, <3>1, QuietTask DEF replies
  <2>4. CASE Touch(e) /\ End(t) /\ UNCHANGED <<outbound, takeovers>>
    <3>1. \A d \in Events : inbox'[d].st = inbox[d].st
      BY <1>2, <2>4, WriteStates
    <3> QED BY <1>1, <1>3, <2>1, <2>4, <3>1, QuietTask DEF replies
  <2>5. CASE ClaimReply(t)
    BY <2>1, <2>5, ReplySends
  <2>6. CASE /\ ~OutboundTaken(e) /\ Write(inbox, e, "failed") /\ Write(outbound, e, "failed") /\ End(t)
             /\ UNCHANGED takeovers
    <3>1. \A d \in Events : inbox'[d].st = "completed" => inbox[d].st = "completed"
      BY <1>2, <2>6, WriteStates
    <3>2. \A d \in Events : outbound'[d].st = "sent" <=> outbound[d].st = "sent"
      BY <1>2, <2>6 DEF OutboundTaken, Write, GatewayOK, Outbound
    <3> QED BY <1>1, <1>3, <2>1, <2>6, <3>1, <3>2, QuietTask DEF replies
  <2> QED BY <1>9, <2>2, <2>3, <2>4, <2>5, <2>6 DEF Reply
<1>10. CASE Accept(t)
  BY <1>10, ReplyAccepted
<1>11. CASE Repost(t)
  BY <1>11, ReplyPosted
<1>12. CASE Sent(t)
  BY <1>12, ReplyRecorded
<1>13. CASE NotSent(t)
  <2>1. /\ Write(outbound, e, "failed") /\ Write(inbox, e, "failed") /\ End(t)
        /\ UNCHANGED <<runtime, replies>> /\ OnTheWay(t)
    BY <1>13 DEF NotSent, OnTheWay
  <2>2. /\ outbound'[e].st = "failed" /\ Replying(e) # {}
        /\ \A d \in Events : d # e => outbound'[d] = outbound[d]
    BY <1>2, <2>1 DEF Write, GatewayOK, Outbound, Replying
  <2>3. inbox'[e].st = "failed" /\ \A d \in Events : d # e => inbox'[d].st = inbox[d].st
    BY <1>2, <2>1, WriteStates
  <2>4. \A d \in Events : inbox'[d].st = "completed" =>
          outbound'[d].st = "sent" /\ inbox[d].st = "completed"
    BY <2>2, <2>3 DEF ReplyInv, CompletedIsReplied
  <2>5. \A u \in Tasks : Still(u)
    BY <1>13, <2>1 DEF NotSent, Fault, End, Free, Still, GatewayOK
  <2>6. \A d \in Events :
          /\ outbound'[d].st = "sent" => outbound[d].st = "sent"
          /\ outbound'[d].st # "sent" => outbound[d].st # "sent" \/ Replying(d) # {}
    BY <2>2
  <2> QED BY <1>3, <2>1, <2>4, <2>5, <2>6, QuietStep
<1> QED BY <1>4, <1>5, <1>6, <1>7, <1>8, <1>9, <1>10, <1>11, <1>12, <1>13 DEF Process

LEMMA ReplyServe ==
  ASSUME TypeOK, ReplyInv, NEW t \in Tasks, Serve(t)
  PROVE  ReplyInv'
<1> DEFINE e == task[t].ev
<1> GatewayOK /\ AgentOK
  BY TypeParts
<1>1. task[t].pc = "submit" /\ ~OnTheWay(t)
  BY DEF Serve, FindEvent, CreateChannelRun, RefuseRun, ForgetRun, Admitted, OnTheWay
<1>2. task[t] \in BusyState /\ e \in Events
  BY <1>1, BusyTask
<1>3. UNCHANGED <<outbound, runtime, replies>> /\ faults' \in {faults, faults + 1}
  BY DEF Serve, FindEvent, CreateChannelRun, RefuseRun, ForgetRun, Fault
<1>4. CASE RefuseRun(t) \/ ForgetRun(t)
  <2>1. End(t) /\ Write(inbox, e, "failed")
    BY <1>4 DEF RefuseRun, ForgetRun
  <2>2. \A d \in Events : inbox'[d].st = "completed" => inbox[d].st = "completed"
    BY <1>2, <2>1, WriteStates
  <2> QED BY <1>1, <1>3, <2>1, <2>2, QuietTask
<1>5. CASE FindEvent(t) \/ CreateChannelRun(t)
  <2>1. \E c, k \in Nat : Answered(t, c, k)
    <3>1. CASE FindEvent(t)
      BY <1>2, <3>1 DEF FindEvent, AgentOK
    <3>2. CASE CreateChannelRun(t)
      <4>1. Conversation(task[t].conv) \in Nat /\ runs[e] + 1 \in Nat
        BY <1>2 DEF Conversation, BusyState, AgentOK
      <4> QED BY <3>2, <4>1 DEF CreateChannelRun
    <3> QED BY <1>5, <3>1, <3>2
  <2>2. UNCHANGED inbox
    BY <1>5 DEF FindEvent, CreateChannelRun
  <2>3. \E c, k \in Nat : task' = [task EXCEPT ![t].pc = "answer", ![t].conv = c, ![t].run = k]
    BY <2>1 DEF Answered
  <2> QED BY <1>1, <1>3, <2>2, <2>3, QuietTask DEF PC
<1> QED BY <1>4, <1>5 DEF Serve

\* A step in which no task moves, no reply is recorded and no event completed.
LEMMA ReplyStays ==
  ASSUME TypeOK, ReplyInv, UNCHANGED <<task, runtime, replies>>, faults' \in {faults, faults + 1},
         \A d \in Events : outbound'[d].st = outbound[d].st /\ inbox'[d].st = inbox[d].st
  PROVE  ReplyInv'
<1>1. \A t \in Tasks : Still(t)
  BY DEF Still
<1>2. \A d \in Events : inbox'[d].st = "completed" =>
        outbound'[d].st = "sent" /\ (inbox[d].st = "completed" \/ outbound[d].st = "sent")
  BY DEF ReplyInv, CompletedIsReplied
<1> QED BY <1>1, <1>2, QuietStep

LEMMA ReplyScheduled ==
  ASSUME TypeOK, ReplyInv, NEW a \in Agents, NEW e \in Events, Deliver(a, e) \/ Retry(a, e)
  PROVE  ReplyInv'
<1> GatewayOK /\ AgentOK
  BY TypeParts
<1>1. CASE Deliver(a, e)
  <2>1. CASE ~Active(e, runtime[a]) /\ Schedule(a, e, deliveries[e] + 1)
    <3>1. deliveries[e] + 1 \in Nat /\ UNCHANGED <<outbound, runtime, replies, faults>>
      BY <1>1 DEF Deliver, AgentOK
    <3> QED BY <2>1, <3>1, ReplySchedule
  <2>2. CASE UNCHANGED <<inbox, task>>
    BY <1>1, <2>2, ReplyStays DEF Deliver
  <2> QED BY <1>1, <2>1, <2>2 DEF Deliver
<1>2. CASE Retry(a, e)
  BY <1>2, ReplySchedule DEF Retry
<1> QED BY <1>1, <1>2

LEMMA ReplyEvent ==
  ASSUME TypeOK, ReplyInv, NEW e \in Events,
         RunEnds(e) \/ EventAges(e) \/ OutboundAges(e) \/ WindowEnds(e)
  PROVE  ReplyInv'
<1> GatewayOK
  BY TypeParts
<1>1. CASE RunEnds(e) \/ WindowEnds(e)
  BY <1>1, ReplyStays DEF RunEnds, WindowEnds
<1>2. CASE EventAges(e)
  <2>1. \A d \in Events : inbox'[d].st = inbox[d].st
    BY <1>2 DEF EventAges, GatewayOK, Inbox
  <2> QED BY <1>2, <2>1, ReplyStays DEF EventAges
<1>3. CASE OutboundAges(e)
  <2>1. \A d \in Events : outbound'[d].st = outbound[d].st
    BY <1>3 DEF OutboundAges, GatewayOK, Outbound
  <2> QED BY <1>3, <2>1, ReplyStays DEF OutboundAges
<1> QED BY <1>1, <1>2, <1>3

LEMMA ReplyEnvironment ==
  ASSUME TypeOK, ReplyInv, Environment
  PROVE  ReplyInv'
<1> GatewayOK
  BY TypeParts
<1>1. ASSUME NEW a \in Agents, Reconnect(a) \/ Disconnect(a) PROVE ReplyInv'
  <2>1. /\ StopRuntime(a) /\ faults' = faults + 1 /\ UNCHANGED replies
        /\ \A b \in Agents : b # a => runtime'[b] = runtime[b]
    BY <1>1 DEF Reconnect, Disconnect, Fault, GatewayOK
  <2>2. \A t \in Tasks : Still(t)
    BY <2>1 DEF StopRuntime, Still, Free
  <2>3. ASSUME NEW t \in Tasks, OnTheWay(t)' PROVE runtime'[task[t].ag] = runtime[task[t].ag]
    <3>1. OnTheWay(t) /\ task[t].ag # a
      BY <2>1, <2>3 DEF StopRuntime, OnTheWay, Free
    <3>2. task[t].ag \in Agents
      BY <3>1, BusyTask DEF OnTheWay
    <3> QED BY <2>1, <3>1, <3>2
  <2>4. \A d \in Events : outbound'[d].st = "sent" => outbound[d].st = "sent"
    BY <2>1 DEF StopRuntime
  <2>5. \A d \in Events : outbound'[d].st # "sent" => outbound[d].st # "sent" \/ Replying(d) # {}
    BY <2>1 DEF StopRuntime, Replying
  <2>6. \A d \in Events : inbox'[d].st = "completed" =>
          outbound'[d].st = "sent" /\ inbox[d].st = "completed"
    BY <2>1 DEF StopRuntime, ReplyInv, CompletedIsReplied
  <2> QED BY <2>1, <2>2, <2>3, <2>4, <2>5, <2>6, QuietStep
<1>2. CASE Crash
  <2>1. \A t \in Tasks : Still(t) /\ ~OnTheWay(t)'
    BY <1>2 DEF Crash, Still, Free, Fault, OnTheWay
  <2>2. UNCHANGED <<inbox, outbound, replies>> /\ faults' = faults + 1
    BY <1>2 DEF Crash, Fault
  <2>3. \A d \in Events : inbox'[d].st = "completed" =>
          outbound'[d].st = "sent" /\ inbox[d].st = "completed"
    BY <2>2 DEF ReplyInv, CompletedIsReplied
  <2> QED BY <2>1, <2>2, <2>3, QuietStep
<1>3. ASSUME NEW c \in 1..convs, Erase(c) PROVE ReplyInv'
  BY <1>3, ReplyStays DEF Erase, Fault
<1>4. CASE Crowd
  BY <1>4, ReplyStays DEF Crowd
<1> QED BY <1>1, <1>2, <1>3, <1>4 DEF Environment

LEMMA ReplyStep == TypeOK /\ ReplyInv /\ [Next]_vars => ReplyInv'
<1> SUFFICES ASSUME TypeOK, ReplyInv, [Next]_vars PROVE ReplyInv'
  OBVIOUS
<1>1. CASE UNCHANGED vars
  BY <1>1, ReplyStays DEF vars, replies
<1>2. CASE Next
  BY <1>2, ReplyScheduled, ReplyEvent, ReplyProcess, ReplyServe, ReplyEnvironment DEF Next, Environment
<1> QED BY <1>1, <1>2

LEMMA ReplyInvariant == Spec => []ReplyInv
BY ReplyInit, ReplyStep, TypeCorrect, PTL DEF Spec

\* An event that is recorded as completed was answered, whichever of its tasks
\* wrote last, and however many there were.
THEOREM CompletedWasReplied == Spec => []CompletedIsReplied
<1>1. ReplyInv => CompletedIsReplied
  BY DEF ReplyInv
<1> QED BY <1>1, ReplyInvariant, PTL

\* An agent has the reply of an event on its way once at a time: active_event_keys,
\* the claim of the outbox and the closed client of an old runtime work together.
THEOREM OneReplyOnItsWay == Spec => []OneReplyInFlight
BY OneSender, ReplyInvariant, PTL

\* Redeliveries, retries, slow tasks and several agents do not repeat a reply, but for
\* once with each fault, and once with each reply that another runtime takes over.
THEOREM RepliesRepeatedByFaults == Spec => []RepliesBounded
<1>1. TypeOK /\ ReplyInv => RepliesBounded
  <2> SUFFICES ASSUME TypeOK, ReplyInv, NEW e \in Events PROVE sent[e] <= 1 + faults + takeovers[e]
    BY DEF RepliesBounded
  <2>1. Posts(e) \in SUBSET Tasks
    BY DEF Posts
  <2>2. PICK f \in Nat, s \in Nat, k \in Nat, c \in Nat :
          f = faults /\ s = sent[e] /\ k = takeovers[e] /\ c = Cardinality(Posts(e))
    BY <2>1, TasksFinite DEF TypeOK
  <2>3. s + c <= f + k + 1
    BY <2>2 DEF ReplyInv, RepliesCounted, Counted
  <2>4. s <= 1 + f + k
    BY <2>3
  <2> QED BY <2>2, <2>4
<1> QED BY <1>1, ReplyInvariant, TypeCorrect, PTL

-----------------------------------------------------------------------------
(* Runs *)

\* Each fault explains one run that agent-service does not remember.
RunsCounted ==
  \A e \in Events : runs[e] <= faults + 1 /\ (agent[e].run = 0 => runs[e] <= faults)

LEMMA RunsStep == TypeOK /\ RunsCounted /\ [Next]_vars => RunsCounted'
<1> SUFFICES ASSUME TypeOK, RunsCounted, [Next]_vars PROVE RunsCounted'
  OBVIOUS
<1> AgentOK /\ GatewayOK
  BY TypeParts
<1> faults \in Nat /\ \A e \in Events : runs[e] \in Nat
  BY DEF AgentOK
<1>1. ASSUME UNCHANGED <<agent, runs>>, faults' \in {faults, faults + 1} PROVE RunsCounted'
  BY <1>1 DEF RunsCounted
<1>2. CASE UNCHANGED vars
  BY <1>1, <1>2 DEF vars
<1>3. ASSUME NEW t \in Tasks, CreateChannelRun(t) PROVE RunsCounted'
  <2> DEFINE e == task[t].ev
  <2>1. e \in Events /\ agent[e].run = 0 /\ UNCHANGED faults
    BY <1>3, BusyTask DEF CreateChannelRun, Admitted
  <2>2. /\ runs'[e] = runs[e] + 1 /\ agent'[e].run = runs[e] + 1
        /\ \A d \in Events : d # e => runs'[d] = runs[d] /\ agent'[d] = agent[d]
    BY <1>3, <2>1 DEF CreateChannelRun, AgentOK
  <2> HIDE DEF e
  <2> QED BY <2>1, <2>2 DEF RunsCounted
<1>4. ASSUME NEW t \in Tasks, ForgetRun(t) PROVE RunsCounted'
  <2> DEFINE e == task[t].ev
  <2>1. e \in Events /\ agent[e].run = 0 /\ faults' = faults + 1 /\ UNCHANGED agent
    BY <1>4, BusyTask DEF ForgetRun, Admitted, Fault
  <2>2. runs'[e] = runs[e] + 1 /\ \A d \in Events : d # e => runs'[d] = runs[d]
    BY <1>4, <2>1 DEF ForgetRun, AgentOK
  <2> HIDE DEF e
  <2> QED BY <2>1, <2>2 DEF RunsCounted
<1>5. ASSUME NEW c \in 1..convs, Erase(c) PROVE RunsCounted'
  <2>1. faults' = faults + 1 /\ UNCHANGED runs
    BY <1>5 DEF Erase, Fault
  <2> QED BY <2>1 DEF RunsCounted
<1>6. ASSUME NEW e \in Events, RunEnds(e) PROVE RunsCounted'
  <2>1. UNCHANGED <<runs, faults>> /\ \A d \in Events : agent'[d].run = agent[d].run
    BY <1>6 DEF RunEnds, AgentOK
  <2> QED BY <2>1 DEF RunsCounted
<1>7. ASSUME NEW t \in Tasks, Process(t) \/ FindEvent(t) \/ RefuseRun(t) PROVE RunsCounted'
  BY <1>1, <1>7 DEF Process, Begin, Lock, Fail, TakeAnswer, LoseAnswer, PollAgain, Reply, Accept,
    Repost, Sent, NotSent, FindEvent, RefuseRun, Fault, service
<1>8. ASSUME NEW a \in Agents, NEW e \in Events, Deliver(a, e) \/ Retry(a, e) PROVE RunsCounted'
  BY <1>1, <1>8 DEF Deliver, Retry, service
<1>9. ASSUME NEW e \in Events, EventAges(e) \/ OutboundAges(e) \/ WindowEnds(e) PROVE RunsCounted'
  BY <1>1, <1>9 DEF EventAges, OutboundAges, WindowEnds, service
<1>10. ASSUME NEW a \in Agents, Reconnect(a) \/ Disconnect(a) PROVE RunsCounted'
  BY <1>1, <1>10 DEF Reconnect, Disconnect, Fault, service
<1>11. CASE Crowd \/ Crash
  BY <1>1, <1>11 DEF Crowd, Crash, Fault, service
<1> QED BY <1>2, <1>3, <1>4, <1>5, <1>6, <1>7, <1>8, <1>9, <1>10, <1>11 DEF Next, Serve

\* However often an event is submitted, it is one run, but for one more for each
\* fault: a run that was created and not remembered, or remembered and erased.
THEOREM RunsRepeatedByFaults == Spec => []RunsBounded
<1>1. Init => RunsCounted
  BY DEF Init, RunsCounted
<1>2. TypeOK /\ RunsCounted => RunsBounded
  BY DEF RunsCounted, RunsBounded, TypeOK
<1> QED BY <1>1, <1>2, RunsStep, TypeCorrect, PTL DEF Spec

-----------------------------------------------------------------------------
(* Conversations *)

\* The conversations that agent-service remembers for an agent and a scope, and the
\* ones it remembers for a scope.
Convs(k) == {agent[e].conv : e \in {x \in Events : Remembered(x, k[1], k[2])}}
ScopeConvs(k) == {agent[e].conv : e \in {x \in Events : agent[x].run # 0 /\ ScopeOf[x] = k[2]}}

Keys == Agents \X Scopes
Asks(t, k) == task[t].pc \in {"submit", "answer"} /\ Key(t) = k
Answers(t, k) == task[t].pc = "answer" /\ Key(t) = k

\* The next request of an agent and a scope will name a conversation of the scope: one
\* that is the agent's, or the agent's own events are refused.
Joins(k) ==
  \/ \E t \in Tasks : Answers(t, k) /\ task[t].conv \in ScopeConvs(k)
  \/ (\A t \in Tasks : ~Answers(t, k)) /\ mapping[k] \in ScopeConvs(k)

\* One request of an agent and a scope at a time, and the mapping stays until it is
\* answered.
ScopesLocked ==
  /\ \A k \in Keys, t, u \in Tasks : Asks(t, k) /\ Asks(u, k) => t = u
  /\ \A t \in Tasks : task[t].pc = "submit" => task[t].conv = mapping[Key(t)]

\* Each fault explains one conversation that no request will name again.
ConvsCounted ==
  \A k \in Keys :
    /\ IsFiniteSet(Convs(k)) /\ Cardinality(Convs(k)) <= faults + 1
    /\ ~Joins(k) => Cardinality(Convs(k)) <= faults

ConvInv ==
  /\ ScopesLocked /\ ConvsCounted
  /\ \A e \in Events : agent[e].run # 0 => agent[e].conv # 0

LEMMA ConvInit == Init => ConvInv
<1> SUFFICES ASSUME Init PROVE ConvInv
  OBVIOUS
<1>1. \A t \in Tasks : task[t].pc = "free"
  BY DEF Init, Free
<1>2. \A e \in Events : agent[e].run = 0
  BY DEF Init, NotRemembered
<1>3. \A k \in Keys : Convs(k) = {}
  BY <1>2 DEF Convs, Remembered
<1>4. ConvsCounted
  <2>1. \A k \in Keys : IsFiniteSet(Convs(k)) /\ Cardinality(Convs(k)) = 0
    BY <1>3, FS_EmptySet
  <2> QED BY <2>1 DEF ConvsCounted, Init
<1> QED BY <1>1, <1>2, <1>4 DEF ConvInv, ScopesLocked, Asks

\* A conversation less, or the same ones.
LEMMA FewerConvs ==
  ASSUME TypeOK, ConvInv, NEW k \in Keys, Convs(k)' \subseteq Convs(k)
  PROVE  /\ IsFiniteSet(Convs(k)') /\ Cardinality(Convs(k)') \in Nat
         /\ Cardinality(Convs(k)') <= Cardinality(Convs(k)) /\ Cardinality(Convs(k)) \in Nat
<1>1. IsFiniteSet(Convs(k))
  BY DEF ConvInv, ConvsCounted
<1>2. IsFiniteSet(Convs(k)') /\ Cardinality(Convs(k)') <= Cardinality(Convs(k))
  BY <1>1, FS_Subset
<1> QED BY <1>1, <1>2, FS_CardinalityType

\* No task starts to ask, and what is remembered stays, but for a fault.
LEMMA ConvQuiet ==
  ASSUME TypeOK, ConvInv, UNCHANGED mapping,
         \A e \in Events : agent'[e].run # 0 =>
           agent[e].run # 0 /\ agent'[e].conv = agent[e].conv /\ agent'[e].ag = agent[e].ag,
         \A t \in Tasks : task'[t] = task[t] \/ task'[t].pc \notin {"submit", "answer"},
         \/ faults' = faults + 1
         \/ /\ faults' = faults
            /\ \A e \in Events : agent[e].run # 0 => agent'[e].run # 0
            /\ \A t \in Tasks : task[t].pc = "answer" => task'[t] = task[t]
  PROVE  ConvInv'
<1> faults \in Nat
  BY DEF TypeOK
<1>1. \A k \in Keys : Convs(k)' \subseteq Convs(k)
  BY DEF Convs, Remembered
<1>2. ScopesLocked'
  <2>1. \A k \in Keys, t \in Tasks : Asks(t, k)' => Asks(t, k)
    BY DEF Asks, Key
  <2>2. \A k \in Keys, t, u \in Tasks : Asks(t, k)' /\ Asks(u, k)' => t = u
    BY <2>1 DEF ConvInv, ScopesLocked
  <2>3. \A t \in Tasks : task'[t].pc = "submit" => task'[t].conv = mapping'[Key(t)']
    BY DEF ConvInv, ScopesLocked, Key
  <2> QED BY <2>2, <2>3 DEF ScopesLocked
<1>3. ConvsCounted'
  <2> SUFFICES ASSUME NEW k \in Keys
      PROVE  /\ IsFiniteSet(Convs(k)') /\ Cardinality(Convs(k)') <= faults' + 1
             /\ ~Joins(k)' => Cardinality(Convs(k)') <= faults'
    BY DEF ConvsCounted, Keys
  <2>1. /\ IsFiniteSet(Convs(k)') /\ Cardinality(Convs(k)') \in Nat /\ Cardinality(Convs(k)) \in Nat
        /\ Cardinality(Convs(k)') <= Cardinality(Convs(k))
    BY <1>1, FewerConvs
  <2>2. Cardinality(Convs(k)) <= faults + 1 /\ (~Joins(k) => Cardinality(Convs(k)) <= faults)
    BY DEF ConvInv, ConvsCounted
  <2>3. CASE faults' = faults + 1
    BY <2>1, <2>2, <2>3
  <2>4. CASE /\ faults' = faults
             /\ \A e \in Events : agent[e].run # 0 => agent'[e].run # 0
             /\ \A t \in Tasks : task[t].pc = "answer" => task'[t] = task[t]
    <3>1. ScopeConvs(k) \subseteq ScopeConvs(k)'
      BY <2>4 DEF ScopeConvs
    <3>2. \A t \in Tasks : (Answers(t, k)' <=> Answers(t, k)) /\ (Answers(t, k) => task'[t] = task[t])
      BY <2>4 DEF Answers, Key
    <3>3. Joins(k) => Joins(k)'
      BY <3>1, <3>2 DEF Joins
    <3> QED BY <2>1, <2>2, <2>4, <3>3
  <2> QED BY <2>3, <2>4
<1>4. \A e \in Events : agent'[e].run # 0 => agent'[e].conv # 0
  BY DEF ConvInv
<1> QED BY <1>2, <1>3, <1>4 DEF ConvInv

\* scope_lock_for lets one task of an agent and a scope through.
LEMMA ConvLock ==
  ASSUME TypeOK, ConvInv, NEW t \in Tasks, Lock(t)
  PROVE  ConvInv'
<1> DEFINE m == mapping[Key(t)]
<1>1. /\ UNCHANGED <<mapping, agent, faults>> /\ task[t].pc = "lock"
      /\ task' = [task EXCEPT ![t].pc = "submit", ![t].conv = m]
      /\ \A u \in Tasks : task[u].pc \in {"submit", "answer"} => Key(u) # Key(t)
  BY DEF Lock, service
<1>2. GatewayOK /\ task[t] \in BusyState
  BY <1>1, TypeParts, BusyTask
<1>3. /\ task'[t].pc = "submit" /\ task'[t].conv = m /\ Key(t)' = Key(t)
      /\ \A u \in Tasks : u # t => task'[u] = task[u] /\ Key(u)' = Key(u)
  <2>1. task'[t] = [task[t] EXCEPT !.pc = "submit", !.conv = m] /\ \A u \in Tasks : u # t => task'[u] = task[u]
    BY <1>1, <1>2 DEF GatewayOK
  <2>2. /\ task'[t].pc = "submit" /\ task'[t].conv = m /\ task'[t].ev = task[t].ev
        /\ task'[t].ag = task[t].ag
    BY <1>2, <2>1 DEF BusyState
  <2> QED BY <2>1, <2>2 DEF Key
<1>4. ScopesLocked'
  <2>1. \A k \in Keys, u \in Tasks : Asks(u, k)' => u = t \/ (Asks(u, k) /\ Key(t) # k)
    BY <1>1, <1>3 DEF Asks
  <2>2. \A k \in Keys : Asks(t, k)' => Key(t) = k
    BY <1>3 DEF Asks
  <2>3. \A k \in Keys, u, v \in Tasks : Asks(u, k)' /\ Asks(v, k)' => u = v
    BY <2>1, <2>2 DEF ConvInv, ScopesLocked
  <2>4. \A u \in Tasks : task'[u].pc = "submit" => task'[u].conv = mapping'[Key(u)']
    BY <1>1, <1>3 DEF ConvInv, ScopesLocked
  <2> QED BY <2>3, <2>4 DEF ScopesLocked, Keys
<1>5. ASSUME NEW k \in Keys PROVE Convs(k)' = Convs(k) /\ (Joins(k) => Joins(k)')
  <2>1. Convs(k)' = Convs(k) /\ ScopeConvs(k)' = ScopeConvs(k)
    BY <1>1 DEF Convs, ScopeConvs, Remembered
  <2>2. \A u \in Tasks : (Answers(u, k)' <=> Answers(u, k)) /\ (Answers(u, k) => task'[u] = task[u])
    BY <1>1, <1>3 DEF Answers
  <2> QED BY <1>1, <2>1, <2>2 DEF Joins
<1>6. ConvsCounted'
  BY <1>1, <1>5 DEF ConvInv, ConvsCounted, Keys
<1> QED BY <1>1, <1>4, <1>6 DEF ConvInv

\* The request is answered with a conversation of the scope.
LEMMA ConvAnswered ==
  ASSUME TypeOK, ConvInv, NEW t \in Tasks, NEW c \in Nat, NEW n \in Nat, NEW z \in Keys,
         task[t].pc = "submit", Key(t) = z,
         Answered(t, c, n), UNCHANGED <<mapping, faults>>,
         \A k \in Keys : ScopeConvs(k) \subseteq ScopeConvs(k)',
         \A k \in Keys : k # z => Convs(k)' = Convs(k),
         Convs(z)' = Convs(z) \/ (~Joins(z) /\ Convs(z)' = Convs(z) \cup {c}),
         c \in ScopeConvs(z)',
         \A e \in Events : agent'[e].run # 0 => agent'[e].conv # 0
  PROVE  ConvInv'
<1>1. GatewayOK /\ task[t] \in BusyState /\ faults \in Nat
  BY TypeParts, BusyTask DEF TypeOK
<1>2. /\ task'[t].pc = "answer" /\ task'[t].conv = c /\ Key(t)' = Key(t)
      /\ \A u \in Tasks : u # t => task'[u] = task[u] /\ Key(u)' = Key(u)
  <2>1. /\ task'[t] = [task[t] EXCEPT !.pc = "answer", !.conv = c, !.run = n]
        /\ \A u \in Tasks : u # t => task'[u] = task[u]
    BY <1>1 DEF Answered, GatewayOK
  <2>2. /\ task'[t].pc = "answer" /\ task'[t].conv = c /\ task'[t].ev = task[t].ev
        /\ task'[t].ag = task[t].ag
    BY <1>1, <2>1 DEF BusyState
  <2> QED BY <2>1, <2>2 DEF Key
<1>3. ScopesLocked'
  <2>1. \A k \in Keys, u \in Tasks : Asks(u, k)' => Asks(u, k)
    BY <1>2 DEF Asks
  <2>2. \A k \in Keys, u, v \in Tasks : Asks(u, k)' /\ Asks(v, k)' => u = v
    BY <2>1 DEF ConvInv, ScopesLocked
  <2>3. \A u \in Tasks : task'[u].pc = "submit" => task'[u].conv = mapping'[Key(u)']
    BY <1>2 DEF ConvInv, ScopesLocked
  <2> QED BY <2>2, <2>3 DEF ScopesLocked, Keys
<1>4. ASSUME NEW k \in Keys, k # z
      PROVE  Convs(k)' = Convs(k) /\ (Joins(k) => Joins(k)')
  <2>1. Convs(k)' = Convs(k) /\ ScopeConvs(k) \subseteq ScopeConvs(k)'
    BY <1>4
  <2>2. \A u \in Tasks : (Answers(u, k)' <=> Answers(u, k)) /\ (Answers(u, k) => task'[u] = task[u])
    BY <1>2, <1>4 DEF Answers
  <2> QED BY <2>1, <2>2 DEF Joins
<1>5. Joins(z)'
  <2>1. Answers(t, z)' /\ task'[t].conv \in ScopeConvs(z)'
    BY <1>2 DEF Answers
  <2> QED BY <2>1 DEF Joins
<1>6. IsFiniteSet(Convs(z)') /\ Cardinality(Convs(z)') <= faults + 1
  <2>1. /\ IsFiniteSet(Convs(z)) /\ Cardinality(Convs(z)) <= faults + 1
        /\ ~Joins(z) => Cardinality(Convs(z)) <= faults
    BY <1>1 DEF ConvInv, ConvsCounted
  <2>2. CASE Convs(z)' = Convs(z)
    BY <2>1, <2>2
  <2>3. CASE ~Joins(z) /\ Convs(z)' = Convs(z) \cup {c}
    <3>1. Cardinality(Convs(z)) \in Nat
      BY <2>1, FS_CardinalityType
    <3>2. /\ IsFiniteSet(Convs(z) \cup {c})
          /\ \/ Cardinality(Convs(z) \cup {c}) = Cardinality(Convs(z))
             \/ Cardinality(Convs(z) \cup {c}) = Cardinality(Convs(z)) + 1
      BY <2>1, FS_AddElement
    <3> QED BY <1>1, <2>1, <2>3, <3>1, <3>2
  <2> QED BY <2>2, <2>3
<1>7. ConvsCounted'
  BY <1>4, <1>5, <1>6 DEF ConvInv, ConvsCounted, Keys
<1> QED BY <1>3, <1>7 DEF ConvInv

\* Who asks names the conversation of the mapping, as no other request of its agent
\* and scope is being answered; an admitted request names none of another agent.
LEMMA AskerJoins ==
  ASSUME TypeOK, ConvInv, NEW t \in Tasks, Admitted(t), Joins(Key(t))
  PROVE  /\ task[t].conv \in Convs(Key(t))
         /\ Conversation(task[t].conv) = task[t].conv
<1>0. task[t].pc = "submit"
  BY DEF Admitted
<1>1. PICK z \in Keys : z = Key(t)
  BY <1>0, TypeParts, BusyTask DEF Keys
<1>2. \A u \in Tasks : ~Answers(u, z)
  <2>1. Asks(t, z) /\ ~Answers(t, z)
    BY <1>0, <1>1 DEF Asks, Answers
  <2>2. \A u \in Tasks : Answers(u, z) => Asks(u, z)
    BY DEF Asks, Answers
  <2> QED BY <1>1, <2>1, <2>2 DEF ConvInv, ScopesLocked
<1>3. task[t].conv = mapping[z] /\ mapping[z] \in ScopeConvs(z)
  BY <1>0, <1>1, <1>2 DEF Joins, ConvInv, ScopesLocked
<1>4. PICK x \in Events : agent[x].run # 0 /\ ScopeOf[x] = z[2] /\ agent[x].conv = task[t].conv
  BY <1>3 DEF ScopeConvs
<1>5. task[t].conv # 0
  BY <1>4 DEF ConvInv
<1>6. Remembered(x, z[1], z[2])
  <2>1. agent[x].ag = task[t].ag
    BY <1>4 DEF Admitted
  <2>2. z[1] = task[t].ag
    BY <1>1 DEF Key
  <2> QED BY <1>4, <2>1, <2>2 DEF Remembered
<1> QED BY <1>1, <1>4, <1>5, <1>6 DEF Conversation, Convs

\* A known event: its conversation is remembered.
LEMMA ConvFind ==
  ASSUME TypeOK, ConvInv, NEW t \in Tasks, FindEvent(t)
  PROVE  ConvInv'
<1>1. task[t].pc = "submit" /\ agent[task[t].ev].run # 0 /\ UNCHANGED <<agent, mapping, faults>>
  BY DEF FindEvent, service
<1>2. AgentOK /\ task[t].ev \in Events
  BY <1>1, TypeParts, BusyTask
<1>3. PICK e \in Events : e = task[t].ev
  BY <1>2
<1>4. agent[e].conv \in Nat /\ agent[e].run \in Nat /\ Answered(t, agent[e].conv, agent[e].run)
  BY <1>2, <1>3 DEF FindEvent, AgentOK
<1>5. PICK z \in Keys : z = Key(t)
  BY <1>1, TypeParts, BusyTask DEF Keys
<1>6. agent[e].conv \in ScopeConvs(z)
  <2>1. z[2] = ScopeOf[e]
    BY <1>3, <1>5 DEF Key
  <2> QED BY <1>1, <1>3, <2>1 DEF ScopeConvs
<1>7. \A k \in Keys : Convs(k)' = Convs(k) /\ ScopeConvs(k)' = ScopeConvs(k)
  BY <1>1 DEF Convs, ScopeConvs, Remembered
<1>8. \A d \in Events : agent'[d].run # 0 => agent'[d].conv # 0
  BY <1>1 DEF ConvInv
<1>9. agent[e].conv \in ScopeConvs(z)'
  BY <1>6, <1>7
<1> QED BY <1>1, <1>4, <1>5, <1>7, <1>8, <1>9, ConvAnswered

\* A new event joins the conversation of its agent and scope, or opens one.
LEMMA ConvCreate ==
  ASSUME TypeOK, ConvInv, NEW t \in Tasks, CreateChannelRun(t)
  PROVE  ConvInv'
<1>1. task[t].pc = "submit" /\ Admitted(t) /\ UNCHANGED <<mapping, faults>>
  BY DEF CreateChannelRun, Admitted
<1>2. AgentOK /\ task[t].ev \in Events /\ task[t] \in BusyState
  BY <1>1, TypeParts, BusyTask
<1>3. PICK e \in Events, c \in Nat, n \in Nat :
        e = task[t].ev /\ c = Conversation(task[t].conv) /\ n = runs[task[t].ev] + 1
  <2>1. Conversation(task[t].conv) \in Nat
    BY <1>2 DEF Conversation, BusyState, AgentOK
  <2>2. runs[task[t].ev] + 1 \in Nat
    BY <1>2 DEF AgentOK
  <2> QED BY <1>2, <2>1, <2>2
<1>4. c # 0 /\ n # 0
  BY <1>2, <1>3 DEF Conversation, AgentOK
<1>5. PICK z \in Keys : z = Key(t)
  BY <1>1, TypeParts, BusyTask DEF Keys
<1>6. z[1] = task[t].ag /\ z[2] = ScopeOf[e]
  BY <1>3, <1>5 DEF Key
<1>7. /\ agent[e].run = 0 /\ Answered(t, c, n)
      /\ agent' = [agent EXCEPT ![e] = [run |-> n, conv |-> c, ag |-> task[t].ag, st |-> "active"]]
  BY <1>1, <1>3 DEF CreateChannelRun, Admitted
<1>8. /\ agent'[e].run = n /\ agent'[e].conv = c /\ agent'[e].ag = task[t].ag
      /\ \A d \in Events : d # e => agent'[d] = agent[d]
  BY <1>2, <1>7 DEF AgentOK
<1>9. Joins(z) => c \in Convs(z)
  BY <1>1, <1>3, <1>5, AskerJoins
<1>10. \A k \in Keys : ScopeConvs(k) \subseteq ScopeConvs(k)'
  BY <1>7, <1>8 DEF ScopeConvs
<1>11. c \in ScopeConvs(z)'
  BY <1>4, <1>6, <1>8 DEF ScopeConvs
<1>12. \A d \in Events, k \in Keys : d # e => (Remembered(d, k[1], k[2])' <=> Remembered(d, k[1], k[2]))
  BY <1>8 DEF Remembered
<1>13. ASSUME NEW k \in Keys, k # z PROVE Convs(k)' = Convs(k)
  <2>1. ~Remembered(e, k[1], k[2])' /\ ~Remembered(e, k[1], k[2])
    BY <1>6, <1>7, <1>8, <1>13 DEF Remembered, Keys
  <2> QED BY <1>8, <1>12, <2>1 DEF Convs
<1>14. Convs(z)' = Convs(z) \cup {c}
  <2>1. Remembered(e, z[1], z[2])' /\ ~Remembered(e, z[1], z[2])
    BY <1>4, <1>6, <1>7, <1>8 DEF Remembered
  <2> QED BY <1>8, <1>12, <2>1 DEF Convs
<1>15. \A d \in Events : agent'[d].run # 0 => agent'[d].conv # 0
  BY <1>4, <1>8 DEF ConvInv
<1>16. Convs(z)' = Convs(z) \/ (~Joins(z) /\ Convs(z)' = Convs(z) \cup {c})
  BY <1>9, <1>14
<1> QED BY <1>1, <1>5, <1>7, <1>10, <1>11, <1>13, <1>15, <1>16, ConvAnswered

\* save_conversation: the mapping names the conversation of the answer.
LEMMA ConvSaved ==
  ASSUME TypeOK, ConvInv, NEW t \in Tasks, TakeAnswer(t)
  PROVE  ConvInv'
<1>0. PICK z \in Keys : z = Key(t)
  BY TypeParts, BusyTask DEF TakeAnswer, Keys
<1>1. /\ task[t].pc = "answer" /\ UNCHANGED <<agent, faults>>
      /\ mapping' = [mapping EXCEPT ![z] = task[t].conv] /\ task' = [task EXCEPT ![t].pc = "poll"]
  BY <1>0 DEF TakeAnswer, service
<1>2. GatewayOK /\ task[t] \in BusyState
  BY <1>1, TypeParts, BusyTask
<1>3. task'[t].pc = "poll" /\ \A u \in Tasks : u # t => task'[u] = task[u] /\ Key(u)' = Key(u)
  BY <1>1, <1>2 DEF GatewayOK, Key
<1>4. /\ mapping'[z] = task[t].conv /\ \A k \in Keys : k # z => mapping'[k] = mapping[k]
  BY <1>1, <1>2 DEF GatewayOK, Keys
<1>5. \A u \in Tasks : Asks(u, z) => u = t
  BY <1>0, <1>1 DEF ConvInv, ScopesLocked, Asks
<1>6. ScopesLocked'
  <2>1. \A k \in Keys, u \in Tasks : Asks(u, k)' => Asks(u, k)
    BY <1>3 DEF Asks
  <2>2. \A k \in Keys, u, v \in Tasks : Asks(u, k)' /\ Asks(v, k)' => u = v
    BY <2>1 DEF ConvInv, ScopesLocked
  <2>3. ASSUME NEW u \in Tasks, task'[u].pc = "submit"
        PROVE  task'[u].conv = mapping'[Key(u)']
    <3>1. u # t /\ task'[u] = task[u] /\ Key(u)' = Key(u)
      BY <1>3, <2>3
    <3>2. Key(u) # z
      BY <1>5, <2>3, <3>1 DEF Asks
    <3>3. Key(u) \in Keys
      BY <1>2, <2>3, <3>1, BusyTask DEF Keys
    <3> QED BY <1>4, <2>3, <3>1, <3>2, <3>3 DEF ConvInv, ScopesLocked
  <2> QED BY <2>2, <2>3 DEF ScopesLocked, Keys
<1>7. \A k \in Keys : Convs(k)' = Convs(k) /\ ScopeConvs(k)' = ScopeConvs(k)
  BY <1>1 DEF Convs, ScopeConvs, Remembered
<1>8. ASSUME NEW k \in Keys, Joins(k) PROVE Joins(k)'
  <2>1. CASE k = z
    <3>1. Answers(t, z) /\ \A u \in Tasks : Answers(u, z) => u = t
      BY <1>0, <1>1, <1>5 DEF Answers, Asks
    <3>2. task[t].conv \in ScopeConvs(z)
      BY <1>8, <2>1, <3>1 DEF Joins
    <3>3. \A u \in Tasks : ~Answers(u, z)'
      BY <1>3, <3>1 DEF Answers
    <3> QED BY <1>4, <1>7, <2>1, <3>2, <3>3 DEF Joins
  <2>2. CASE k # z
    <3>1. \A u \in Tasks : (Answers(u, k)' <=> Answers(u, k)) /\ (Answers(u, k) => task'[u] = task[u])
      BY <1>0, <1>1, <1>3, <2>2 DEF Answers
    <3> QED BY <1>4, <1>7, <1>8, <2>2, <3>1 DEF Joins
  <2> QED BY <2>1, <2>2
<1>9. ConvsCounted'
  BY <1>1, <1>7, <1>8 DEF ConvInv, ConvsCounted, Keys
<1> QED BY <1>1, <1>6, <1>9 DEF ConvInv

LEMMA ConvProcess ==
  ASSUME TypeOK, ConvInv, NEW t \in Tasks, Process(t) \/ Serve(t)
  PROVE  ConvInv'
<1> GatewayOK
  BY TypeParts
<1>1. ASSUME UNCHANGED <<mapping, agent>>, task[t].pc # "answer" \/ Fault,
             \/ UNCHANGED task
             \/ End(t)
             \/ \E pc \in PC \ {"submit", "answer"} : task' = [task EXCEPT ![t].pc = pc],
             task[t].pc # "free", UNCHANGED faults \/ Fault
      PROVE  ConvInv'
  <2>1. task[t] \in BusyState
    BY <1>1, BusyTask
  <2>2. task'[t] = task[t] \/ task'[t].pc \notin {"submit", "answer"}
    BY <1>1, <2>1 DEF End, Free, GatewayOK, BusyState, PC
  <2>3. \A u \in Tasks : u # t => task'[u] = task[u]
    BY <1>1 DEF End, GatewayOK
  <2>4. \/ faults' = faults + 1
        \/ faults' = faults /\ \A u \in Tasks : task[u].pc = "answer" => task'[u] = task[u]
    BY <1>1, <2>3 DEF Fault
  <2> QED BY <1>1, <2>2, <2>3, <2>4, ConvQuiet
<1>2. CASE Begin(t) \/ Accept(t) \/ Repost(t)
  BY <1>1, <1>2 DEF Begin, Expire, Accept, Repost, PC, service
<1>3. CASE Fail(t) \/ LoseAnswer(t) \/ PollAgain(t) \/ Sent(t) \/ NotSent(t)
  BY <1>1, <1>3 DEF Fail, LoseAnswer, PollAgain, Sent, NotSent, service
<1>4. CASE Reply(t)
  <2>1. End(t) \/ task' = [task EXCEPT ![t].pc = "send"]
    BY <1>4 DEF Reply, Expire, ClaimReply
  <2>2. task[t].pc = "poll" /\ UNCHANGED <<mapping, agent, faults>>
    BY <1>4 DEF Reply, service
  <2> QED BY <1>1, <2>1, <2>2 DEF PC
<1>5. CASE RefuseRun(t) \/ ForgetRun(t)
  BY <1>1, <1>5 DEF RefuseRun, ForgetRun, Admitted
<1>6. CASE Lock(t)
  BY <1>6, ConvLock
<1>7. CASE TakeAnswer(t)
  BY <1>7, ConvSaved
<1>8. CASE FindEvent(t)
  BY <1>8, ConvFind
<1>9. CASE CreateChannelRun(t)
  BY <1>9, ConvCreate
<1> QED BY <1>2, <1>3, <1>4, <1>5, <1>6, <1>7, <1>8, <1>9 DEF Process, Serve

LEMMA ConvScheduled ==
  ASSUME TypeOK, ConvInv, NEW a \in Agents, NEW e \in Events, Deliver(a, e) \/ Retry(a, e)
  PROVE  ConvInv'
<1> GatewayOK
  BY TypeParts
<1>1. UNCHANGED <<mapping, faults, agent>>
  BY DEF Deliver, Retry, service
<1>2. ASSUME NEW seen, Schedule(a, e, seen) PROVE ConvInv'
  <2>1. PICK t \in Tasks : task[t].pc = "free" /\ task' = [task EXCEPT ![t] = Task(a, e, seen)]
    BY <1>2 DEF Schedule
  <2>2. task'[t].pc = "queued" /\ \A u \in Tasks : u # t => task'[u] = task[u]
    BY <2>1 DEF Task, GatewayOK
  <2> QED BY <1>1, <2>1, <2>2, ConvQuiet
<1>3. CASE UNCHANGED task
  BY <1>1, <1>3, ConvQuiet
<1> QED BY <1>2, <1>3 DEF Deliver, Retry

LEMMA ConvEvent ==
  ASSUME TypeOK, ConvInv, NEW e \in Events,
         RunEnds(e) \/ EventAges(e) \/ OutboundAges(e) \/ WindowEnds(e)
  PROVE  ConvInv'
<1> AgentOK
  BY TypeParts
<1>1. UNCHANGED <<mapping, faults, task>>
  BY DEF RunEnds, EventAges, OutboundAges, WindowEnds
<1>2. \A d \in Events :
        agent'[d].run = agent[d].run /\ agent'[d].conv = agent[d].conv /\ agent'[d].ag = agent[d].ag
  BY DEF RunEnds, EventAges, OutboundAges, WindowEnds, service, AgentOK
<1> QED BY <1>1, <1>2, ConvQuiet

LEMMA ConvEnvironment ==
  ASSUME TypeOK, ConvInv, Environment
  PROVE  ConvInv'
<1>1. CASE Crowd
  BY <1>1, ConvQuiet DEF Crowd
<1>2. CASE ~Crowd
  <2>1. faults' = faults + 1 /\ UNCHANGED mapping
    BY <1>2 DEF Environment, Reconnect, Disconnect, Crash, Erase, Fault
  <2>2. \A t \in Tasks : task'[t] = task[t] \/ task'[t].pc \notin {"submit", "answer"}
    BY <1>2 DEF Environment, Reconnect, Disconnect, Crash, Erase, StopRuntime, Free
  <2>3. \A e \in Events : agent'[e].run # 0 =>
          agent[e].run # 0 /\ agent'[e].conv = agent[e].conv /\ agent'[e].ag = agent[e].ag
    BY <1>2 DEF Environment, Reconnect, Disconnect, Crash, Erase, NotRemembered, service
  <2> QED BY <2>1, <2>2, <2>3, ConvQuiet
<1> QED BY <1>1, <1>2

LEMMA ConvStep == TypeOK /\ ConvInv /\ [Next]_vars => ConvInv'
<1> SUFFICES ASSUME TypeOK, ConvInv, [Next]_vars PROVE ConvInv'
  OBVIOUS
<1>1. CASE UNCHANGED vars
  BY <1>1, ConvQuiet DEF vars
<1>2. CASE Next
  BY <1>2, ConvScheduled, ConvEvent, ConvProcess, ConvEnvironment DEF Next, Environment
<1> QED BY <1>1, <1>2

\* Slow requests, retries and events that overtake each other do not scatter the
\* messages of an agent and a scope: their lock is held until the conversation is
\* saved, and only a fault between the two, or an erased conversation, makes it one
\* more. Several agents of the bot do not mix theirs, but may block each other.
THEOREM ConversationsSplitByFaults == Spec => []ConversationsBounded
<1>1. TypeOK /\ ConvInv => ConversationsBounded
  <2> SUFFICES ASSUME TypeOK, ConvInv, NEW a \in Agents, NEW s \in Scopes
      PROVE  Cardinality({agent[e].conv : e \in {x \in Events : Remembered(x, a, s)}}) <= 1 + faults
    BY DEF ConversationsBounded
  <2>1. PICK k \in Keys : k = <<a, s>>
    BY DEF Keys
  <2>2. Convs(k) = {agent[e].conv : e \in {x \in Events : Remembered(x, a, s)}}
    BY <2>1 DEF Convs
  <2>3. IsFiniteSet(Convs(k)) /\ Cardinality(Convs(k)) <= faults + 1 /\ faults \in Nat
    BY DEF ConvInv, ConvsCounted, TypeOK
  <2>4. Cardinality(Convs(k)) \in Nat
    BY <2>3, FS_CardinalityType
  <2> QED BY <2>2, <2>3, <2>4
<1> QED BY <1>1, ConvInit, ConvStep, TypeCorrect, PTL DEF Spec
=============================================================================
