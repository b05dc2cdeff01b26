---------------------------- MODULE ChannelInbox ----------------------------
(***************************************************************************)
(* Messages of one QQ bot on their way through qq-gateway: the inbox and   *)
(* outbox tables (SQLite), the asyncio tasks that process events, and the  *)
(* endpoint of agent-service that turns an event into a run.               *)
(*                                                                         *)
(* The gateway is one process with one event loop: an action is what a     *)
(* task does between two awaits. A bot may be connected to several agents, *)
(* each with a runtime (socket, API client, set of active events) of its   *)
(* own; they share the tables, whose keys name the bot and the event. A    *)
(* new connection command replaces the runtime of its agent; tasks of the  *)
(* old runtime go on, with a closed API client.                            *)
(***************************************************************************)
EXTENDS Integers, FiniteSets

CONSTANTS
  Events,        \* event keys (bot_id and event_id)
  Scopes,        \* groups and users: a conversation each
  ScopeOf,       \* the scope of an event
  NumAgents,     \* agents the bot may be connected to
  Tasks,         \* bound on the tasks alive at a time
  MaxSlots,      \* max_event_tasks: tasks of a runtime that process at a time
  MaxDeliveries, \* bound on the deliveries of an event by QQ, for each
  MaxTakeovers,  \* bound on the takeovers of an event's reply
  MaxFaults      \* bound on faults and setbacks together

ASSUME ScopesAssumption == ScopeOf \in [Events -> Scopes]
ASSUME LimitsAssumption ==
  /\ NumAgents \in Nat \ {0} /\ IsFiniteSet(Tasks) /\ MaxSlots \in Nat \ {0}
  /\ MaxDeliveries \in [Events -> Nat] /\ MaxTakeovers \in Nat /\ MaxFaults \in Nat

Agents == 1..NumAgents

VARIABLES
  inbox,      \* table inbox_events: status, and whether updated_at is old
  outbound,   \* table outbound_messages: the same
  mapping,    \* table channel_conversations: the conversation of an agent and a scope
  task,       \* the tasks of _run_event
  runtime,    \* number of the runtime of an agent, in the order of runtimes; 0: none
  starved,    \* whether retry_pending_events does not come to the rows of this bot
  deliveries, \* deliveries of an event by QQ so far
  overdue,    \* of which so many are older than the passive reply window
  agent,      \* agent-service: run, conversation and its agent remembered for an event
  runs,       \* agent-service: runs created for an event so far
  convs,      \* agent-service: conversations created so far
  sent,       \* external: replies that QQ accepted for an event
  takeovers,  \* history: replies claimed while another one of the event was on its way
  setbacks,   \* refused runs and crowded inboxes so far, which repeat nothing
  faults      \* crashes, lost answers, reconnections and erasures so far

vars == <<inbox, outbound, mapping, task, runtime, starved, deliveries, overdue, agent, runs, convs,
          sent, takeovers, setbacks, faults>>
world == <<starved, deliveries, overdue>>
service == <<agent, runs, convs, setbacks>>
replies == <<sent, takeovers>>

Free == [pc |-> "free"]
Task(a, e, seen) ==
  [pc |-> "queued", ev |-> e, seen |-> seen, ag |-> a, rt |-> runtime[a], run |-> 0, conv |-> 0]
Busy(e) == {t \in Tasks : task[t].pc # "free" /\ task[t].ev = e}

\* active_event_keys of a runtime: an event is in it as long as its task lives.
Active(e, rt) == \E t \in Busy(e) : task[t].rt = rt

SETTLED == {"completed", "expired"}
NotRemembered == [run |-> 0, conv |-> 0, ag |-> 0, st |-> "none"]

\* channel_scope_key
Key(t) == <<task[t].ag, ScopeOf[task[t].ev]>>

Init ==
  /\ inbox = [e \in Events |-> [st |-> "none", old |-> FALSE]]
  /\ outbound = [e \in Events |-> [st |-> "none", old |-> FALSE]]
  /\ mapping = [k \in Agents \X Scopes |-> 0]
  /\ task = [t \in Tasks |-> Free]
  /\ runtime = [a \in Agents |-> a] /\ starved = FALSE
  /\ deliveries = [e \in Events |-> 0] /\ overdue = [e \in Events |-> 0]
  /\ agent = [e \in Events |-> NotRemembered]
  /\ runs = [e \in Events |-> 0] /\ convs = 0
  /\ sent = [e \in Events |-> 0] /\ takeovers = [e \in Events |-> 0]
  /\ setbacks = 0 /\ faults = 0

Write(table, e, st) == table' = [table EXCEPT ![e] = [st |-> st, old |-> FALSE]]
Hitch == faults + setbacks < MaxFaults
Fault == Hitch /\ faults' = faults + 1
End(t) == task' = [task EXCEPT ![t] = Free]
Late(t) == task[t].seen <= overdue[task[t].ev]

-----------------------------------------------------------------------------
(* Receiving and retrying *)

\* claim_event
Claimable(e) ==
  \/ inbox[e].st \in {"none", "failed"}
  \/ inbox[e].st = "processing" /\ inbox[e].old

\* claim_event, then _schedule in the runtime of agent a, with the payload of that
\* delivery.
Schedule(a, e, seen) ==
  /\ Write(inbox, e, "processing")
  /\ \E t \in Tasks : task[t].pc = "free" /\ task' = [task EXCEPT ![t] = Task(a, e, seen)]

\* A dispatch on the socket of a runtime; QQ repeats it after a Resume, and on the
\* sockets of the other runtimes of the bot.
Deliver(a, e) ==
  /\ runtime[a] > 0 /\ deliveries[e] < MaxDeliveries[e]
  /\ deliveries' = [deliveries EXCEPT ![e] = @ + 1]
  /\ IF Claimable(e) /\ ~Active(e, runtime[a]) THEN Schedule(a, e, deliveries[e] + 1)
     ELSE UNCHANGED <<inbox, task>>
  /\ UNCHANGED <<outbound, mapping, runtime, starved, overdue, replies, faults, service>>

\* The runtime that retry_pending_events finds for the bot: the first of runtimes.
FirstRuntime(a) == runtime[a] > 0 /\ \A b \in Agents : runtime[b] > 0 => runtime[a] <= runtime[b]

\* Mutant: retry_pending_events looks for failed events only.
RetryFailed(a, e) ==
  /\ FirstRuntime(a) /\ ~starved
  /\ inbox[e].st = "failed" /\ inbox[e].old
  /\ ~Active(e, runtime[a])
  /\ Schedule(a, e, 1)
  /\ UNCHANGED <<outbound, mapping, runtime, world, replies, faults, service>>

\* Mutant: retry_pending_events does not look at the active events.
RetryActive(a, e) ==
  /\ FirstRuntime(a) /\ ~starved
  /\ inbox[e].st \in {"processing", "failed"} /\ inbox[e].old
  /\ Schedule(a, e, 1)
  /\ UNCHANGED <<outbound, mapping, runtime, world, replies, faults, service>>

\* retry_pending_events, with the payload stored by the first delivery. The event
\* may still be processed by a task of another runtime.
Retry(a, e) ==
  /\ FirstRuntime(a) /\ ~starved
  /\ inbox[e].st \in {"processing", "failed"} /\ inbox[e].old
  /\ ~Active(e, runtime[a])
  /\ Schedule(a, e, 1)
  /\ UNCHANGED <<outbound, mapping, runtime, world, replies, faults, service>>

\* External: twenty older rows of bots without a runtime, which are skipped and stay
\* the oldest, fill pending_events, or leave room again.
Crowd ==
  /\ starved' = ~starved
  /\ IF starved THEN UNCHANGED setbacks ELSE Hitch /\ setbacks' = setbacks + 1
  /\ UNCHANGED <<inbox, outbound, mapping, task, runtime, deliveries, overdue, agent, runs, convs,
                 replies, faults>>

-----------------------------------------------------------------------------
(* process_event *)

Running(rt) == {t \in Tasks : task[t].pc \notin {"free", "queued"} /\ task[t].rt = rt}

\* Mutant: the event is expired under another name than the one the table knows.
ExpireSilently(t) == Write(inbox, task[t].ev, "sent") /\ End(t)

Expire(t) == Write(inbox, task[t].ev, "expired") /\ End(t)

Touch(e) == inbox' = [inbox EXCEPT ![e].old = IF inbox[e].st = "processing" THEN FALSE ELSE @]

\* The task gets a slot of its runtime; a late event ends here.
Begin(t) ==
  /\ task[t].pc = "queued" /\ Cardinality(Running(task[t].rt)) < MaxSlots
  /\ \/ Late(t) /\ Expire(t)
     \/ ~Late(t) /\ Touch(task[t].ev) /\ task' = [task EXCEPT ![t].pc = "lock"]
  /\ UNCHANGED <<outbound, mapping, runtime, world, replies, faults, service>>

\* scope_lock_for: the request is sent with the conversation the scope has now.
Lock(t) ==
  /\ task[t].pc = "lock"
  /\ \A u \in Tasks : task[u].pc \in {"submit", "answer"} => Key(u) # Key(t)
  /\ task' = [task EXCEPT ![t].pc = "submit", ![t].conv = mapping[Key(t)]]
  /\ UNCHANGED <<inbox, outbound, mapping, runtime, world, replies, faults, service>>

\* fail_event: any exception ends the task.
Fail(t) ==
  /\ task[t].pc \in {"submit", "poll"}
  /\ Write(inbox, task[t].ev, "failed") /\ End(t)
  /\ UNCHANGED <<outbound, mapping, runtime, world, replies, faults, service>>

-----------------------------------------------------------------------------
(* agent-service: create_channel_event and get_channel_run *)

\* A conversation of the mapping that still exists, or a new one.
Conversation(c) == IF c # 0 /\ \E e \in Events : agent[e].conv = c THEN c ELSE convs + 1

Answered(t, c, k) == task' = [task EXCEPT ![t].pc = "answer", ![t].conv = c, ![t].run = k]

\* channel_event_result: the event is known, by whichever agent of the bot.
FindEvent(t) ==
  /\ task[t].pc = "submit" /\ agent[task[t].ev].run # 0
  /\ Answered(t, agent[task[t].ev].conv, agent[task[t].ev].run)
  /\ UNCHANGED <<inbox, outbound, mapping, runtime, world, replies, faults, service>>

\* A new event, and the conversation it names is not one of another agent (409).
Admitted(t) ==
  /\ task[t].pc = "submit" /\ agent[task[t].ev].run = 0
  /\ \A e \in Events : agent[e].run # 0 /\ agent[e].conv = task[t].conv => agent[e].ag = task[t].ag

\* create_conversation unless it exists, create_run, remember_channel_event.
CreateChannelRun(t) ==
  /\ Admitted(t)
  /\ LET e == task[t].ev  c == Conversation(task[t].conv) IN
       /\ runs' = [runs EXCEPT ![e] = @ + 1]
       /\ convs' = IF c > convs THEN c ELSE convs
       /\ agent' = [agent EXCEPT ![e] =
                      [run |-> runs[e] + 1, conv |-> c, ag |-> task[t].ag, st |-> "active"]]
       /\ Answered(t, c, runs[e] + 1)
  /\ UNCHANGED <<inbox, outbound, mapping, runtime, world, replies, setbacks, faults>>

\* create_run refuses (max_concurrent_runs): the conversation stays.
RefuseRun(t) ==
  /\ Admitted(t) /\ Hitch /\ setbacks' = setbacks + 1
  /\ convs' = IF Conversation(task[t].conv) > convs THEN convs + 1 ELSE convs
  /\ Write(inbox, task[t].ev, "failed") /\ End(t)
  /\ UNCHANGED <<outbound, mapping, runtime, world, agent, runs, replies, faults>>

\* The API stops between create_run and remember_channel_event.
ForgetRun(t) ==
  /\ Admitted(t) /\ Fault
  /\ runs' = [runs EXCEPT ![task[t].ev] = @ + 1]
  /\ convs' = IF Conversation(task[t].conv) > convs THEN convs + 1 ELSE convs
  /\ Write(inbox, task[t].ev, "failed") /\ End(t)
  /\ UNCHANGED <<outbound, mapping, runtime, world, agent, replies, setbacks>>

\* External: the run of an event ends.
RunEnds(e) ==
  /\ agent[e].st = "active"
  /\ agent' = [agent EXCEPT ![e].st = "done"]
  /\ UNCHANGED <<inbox, outbound, mapping, task, runtime, world, runs, convs, replies, setbacks, faults>>

\* The user erases a conversation with all its runs and remembered events.
Erase(c) ==
  /\ Fault
  /\ \E e \in Events : agent[e].conv = c
  /\ \A e \in Events : agent[e].conv = c => agent[e].st = "done"
  /\ agent' = [e \in Events |-> IF agent[e].conv = c THEN NotRemembered ELSE agent[e]]
  /\ UNCHANGED <<inbox, outbound, mapping, task, runtime, world, runs, convs, replies, setbacks>>

-----------------------------------------------------------------------------
(* process_event, continued *)

\* save_conversation, mark_run; the lock is released.
TakeAnswer(t) ==
  /\ task[t].pc = "answer"
  /\ mapping' = [mapping EXCEPT ![Key(t)] = task[t].conv]
  /\ inbox' = [inbox EXCEPT ![task[t].ev].old = FALSE]
  /\ task' = [task EXCEPT ![t].pc = "poll"]
  /\ UNCHANGED <<outbound, runtime, world, replies, faults, service>>

\* The answer does not arrive in time.
LoseAnswer(t) ==
  /\ task[t].pc = "answer" /\ Fault
  /\ Write(inbox, task[t].ev, "failed") /\ End(t)
  /\ UNCHANGED <<outbound, mapping, runtime, world, replies, service>>

\* claim_outbound: somebody has replied, or is about to.
OutboundTaken(e) ==
  \/ outbound[e].st = "sent"
  \/ outbound[e].st = "sending" /\ ~outbound[e].old

\* wait_for_run: the run is still active, and there is time left.
PollAgain(t) ==
  /\ task[t].pc = "poll" /\ agent[task[t].ev].run = task[t].run /\ agent[task[t].ev].st = "active"
  /\ Touch(task[t].ev)
  /\ UNCHANGED <<outbound, mapping, task, runtime, world, replies, faults, service>>

\* A reply that is on its way to QQ.
OnTheWay(t) == task[t].pc \in {"send", "accepted"}
Replying(e) == {t \in Tasks : OnTheWay(t) /\ task[t].ev = e}
Connected(t) == task[t].rt = runtime[task[t].ag]

\* claim_outbound succeeds. When the row became old while a slow request goes on in
\* a task of another runtime, its reply is taken over.
ClaimReply(t) ==
  LET e == task[t].ev IN
    /\ ~OutboundTaken(e) /\ Connected(t)
    /\ Touch(e) /\ Write(outbound, e, "sending") /\ task' = [task EXCEPT ![t].pc = "send"]
    /\ IF Replying(e) = {} THEN UNCHANGED takeovers
       ELSE takeovers[e] < MaxTakeovers /\ takeovers' = [takeovers EXCEPT ![e] = @ + 1]

\* The run has ended: claim_outbound, and the request to QQ is on its way; the
\* API client of an old runtime is closed.
Reply(t) ==
  /\ task[t].pc = "poll" /\ agent[task[t].ev].run = task[t].run /\ agent[task[t].ev].st = "done"
  /\ LET e == task[t].ev IN
       \/ Late(t) /\ Expire(t) /\ UNCHANGED <<outbound, takeovers>>
       \/ /\ ~Late(t) /\ outbound[e].st = "sent"
          /\ Write(inbox, e, "completed") /\ End(t) /\ UNCHANGED <<outbound, takeovers>>
       \/ /\ ~Late(t) /\ outbound[e].st # "sent" /\ OutboundTaken(e)
          /\ Touch(e) /\ End(t) /\ UNCHANGED <<outbound, takeovers>>
       \/ ~Late(t) /\ ClaimReply(t)
       \/ /\ ~Late(t) /\ ~OutboundTaken(e) /\ ~Connected(t)
          /\ Write(inbox, e, "failed") /\ Write(outbound, e, "failed") /\ End(t) /\ UNCHANGED takeovers
  /\ UNCHANGED <<mapping, runtime, world, sent, faults, service>>

\* External: QQ accepts the message.
Accept(t) ==
  /\ task[t].pc = "send"
  /\ sent' = [sent EXCEPT ![task[t].ev] = @ + 1]
  /\ task' = [task EXCEPT ![t].pc = "accepted"]
  /\ UNCHANGED <<inbox, outbound, mapping, runtime, world, takeovers, faults, service>>

\* send_message posts again after a 5xx, although QQ had accepted the message. (After
\* one that QQ had not, the task is where it was.)
Repost(t) ==
  /\ task[t].pc = "accepted" /\ Fault
  /\ task' = [task EXCEPT ![t].pc = "send"]
  /\ UNCHANGED <<inbox, outbound, mapping, runtime, world, replies, service>>

\* Mutant: the event is completed although the reply was refused.
SentAnyway(t) ==
  /\ task[t].pc \in {"send", "accepted"}
  /\ Write(outbound, task[t].ev, "sent") /\ Write(inbox, task[t].ev, "completed") /\ End(t)
  /\ UNCHANGED <<mapping, runtime, world, replies, faults, service>>

\* complete_outbound and complete_event.
Sent(t) ==
  /\ task[t].pc = "accepted"
  /\ Write(outbound, task[t].ev, "sent") /\ Write(inbox, task[t].ev, "completed") /\ End(t)
  /\ UNCHANGED <<mapping, runtime, world, replies, faults, service>>

\* fail_outbound and fail_event: QQ refused, or its answer was lost.
NotSent(t) ==
  /\ \/ task[t].pc = "send" /\ UNCHANGED faults
     \/ task[t].pc = "accepted" /\ Fault
  /\ Write(outbound, task[t].ev, "failed") /\ Write(inbox, task[t].ev, "failed") /\ End(t)
  /\ UNCHANGED <<mapping, runtime, world, replies, service>>

-----------------------------------------------------------------------------
(* Time, connections, crashes *)

\* retry_after_seconds pass since updated_at.
EventAges(e) ==
  /\ inbox[e].st \in {"processing", "failed"} /\ ~inbox[e].old
  /\ inbox' = [inbox EXCEPT ![e].old = TRUE]
  /\ UNCHANGED <<outbound, mapping, task, runtime, world, replies, faults, service>>

OutboundAges(e) ==
  /\ outbound[e].st = "sending" /\ ~outbound[e].old
  /\ outbound' = [outbound EXCEPT ![e].old = TRUE]
  /\ UNCHANGED <<inbox, mapping, task, runtime, world, replies, faults, service>>

\* The passive reply window of the oldest delivery with one ends.
WindowEnds(e) ==
  /\ overdue[e] < deliveries[e]
  /\ overdue' = [overdue EXCEPT ![e] = @ + 1]
  /\ UNCHANGED <<inbox, outbound, mapping, task, runtime, starved, deliveries, replies, faults, service>>

\* QQRuntime.stop closes the API client: its requests to QQ fail at once, whether
\* the message was accepted or not. All other tasks of the runtime go on.
StopRuntime(a) ==
  LET cut == {t \in Tasks : OnTheWay(t) /\ task[t].ag = a}
      failed(table) == [e \in Events |-> IF \E t \in cut : task[t].ev = e
                                         THEN [st |-> "failed", old |-> FALSE] ELSE table[e]]
  IN /\ inbox' = failed(inbox) /\ outbound' = failed(outbound)
     /\ task' = [t \in Tasks |-> IF t \in cut THEN Free ELSE task[t]]

\* start_connection: the new runtime is the last of runtimes.
Reconnect(a) ==
  /\ Fault /\ runtime' = [runtime EXCEPT ![a] = NumAgents + faults + 1]
  /\ StopRuntime(a)
  /\ UNCHANGED <<mapping, world, replies, service>>

\* stop_connection
Disconnect(a) ==
  /\ runtime[a] > 0 /\ Fault /\ runtime' = [runtime EXCEPT ![a] = 0]
  /\ StopRuntime(a)
  /\ UNCHANGED <<mapping, world, replies, service>>

\* The gateway stops; startup loads the connections that there are, in the order of
\* an updated_at that every change of status moves.
Crash ==
  /\ Fault /\ task' = [t \in Tasks |-> Free]
  /\ runtime' \in [Agents -> 0..NumAgents]
  /\ \A a, b \in Agents :
       (runtime'[a] = 0 <=> runtime[a] = 0) /\ (runtime'[a] = runtime'[b] => a = b \/ runtime'[a] = 0)
  /\ UNCHANGED <<inbox, outbound, mapping, world, replies, service>>

-----------------------------------------------------------------------------
Process(t) ==
  \/ Begin(t) \/ Lock(t) \/ Fail(t) \/ TakeAnswer(t) \/ LoseAnswer(t) \/ PollAgain(t)
  \/ Reply(t) \/ Accept(t) \/ Repost(t) \/ Sent(t) \/ NotSent(t)

Serve(t) == FindEvent(t) \/ CreateChannelRun(t) \/ RefuseRun(t) \/ ForgetRun(t)

Next ==
  \/ \E a \in Agents, e \in Events : Deliver(a, e) \/ Retry(a, e)
  \/ \E e \in Events : RunEnds(e) \/ EventAges(e) \/ OutboundAges(e) \/ WindowEnds(e)
  \/ \E t \in Tasks : Process(t) \/ Serve(t)
  \/ \E c \in 1..convs : Erase(c)
  \/ \E a \in Agents : Reconnect(a) \/ Disconnect(a)
  \/ Crowd \/ Crash

Spec == Init /\ [][Next]_vars

\* A task of _run_event does not stay where it is: each request has a timeout,
\* and wait_for_run a deadline.
Step(t) ==
  \/ Begin(t) \/ Lock(t) \/ Fail(t) \/ TakeAnswer(t) \/ Reply(t) \/ Sent(t) \/ NotSent(t)
  \/ FindEvent(t) \/ CreateChannelRun(t)

\* retry_loop goes round, and comes to an event as long as it is not starved; time
\* passes.
Fairness ==
  /\ \A e \in Events : WF_vars(\E a \in Agents : Retry(a, e))
  /\ \A e \in Events : WF_vars(EventAges(e)) /\ WF_vars(WindowEnds(e))
  /\ \A t \in Tasks : WF_vars(Step(t))

FairSpec == Spec /\ Fairness

-----------------------------------------------------------------------------
(* Properties *)

TaskState ==
  {Free} \cup [pc : {"queued", "lock", "submit", "answer", "poll", "send", "accepted"}, ev : Events,
               seen : Nat \ {0}, ag : Agents, rt : Nat, run : Nat, conv : Nat]

TypeOK ==
  /\ inbox \in [Events -> [st : {"none", "processing", "failed"} \cup SETTLED, old : BOOLEAN]]
  /\ outbound \in [Events -> [st : {"none", "sending", "sent", "failed"}, old : BOOLEAN]]
  /\ mapping \in [Agents \X Scopes -> Nat]
  /\ task \in [Tasks -> TaskState]
  /\ runtime \in [Agents -> Nat] /\ starved \in BOOLEAN
  /\ deliveries \in [Events -> Nat] /\ overdue \in [Events -> Nat]
  /\ \A e \in Events : deliveries[e] <= MaxDeliveries[e] /\ overdue[e] <= deliveries[e]
  /\ agent \in [Events -> [run : Nat, conv : Nat, ag : 0..NumAgents, st : {"none", "active", "done"}]]
  /\ runs \in [Events -> Nat] /\ convs \in Nat
  /\ sent \in [Events -> Nat] /\ takeovers \in [Events -> Nat]
  /\ setbacks \in Nat /\ faults \in Nat /\ faults + setbacks <= MaxFaults

\* An event is recorded as completed only when a reply of it was accepted by
\* QQ, whichever of several tasks of the event wrote last.
CompletedIsReplied ==
  \A e \in Events : inbox[e].st = "completed" => outbound[e].st = "sent" /\ sent[e] > 0

\* Redeliveries, retries and slow tasks do not repeat a reply: only a fault can, once
\* each, or a runtime that takes over the reply of another one.
RepliesBounded == \A e \in Events : sent[e] <= 1 + faults + takeovers[e]

\* Claimed: at most one reply per event, whatever happens (qq-gateway-websocket-plan.md).
OneReplyPerEvent == \A e \in Events : sent[e] <= 1

\* Nor do they start another run of the event (channel_event_deduplications).
RunsBounded == \A e \in Events : runs[e] <= 1 + faults

\* Events of one scope share a conversation of their agent, but for one more per fault.
Remembered(e, a, s) == agent[e].run # 0 /\ agent[e].ag = a /\ ScopeOf[e] = s
ConversationsBounded ==
  \A a \in Agents, s \in Scopes :
    Cardinality({agent[e].conv : e \in {x \in Events : Remembered(x, a, s)}}) <= 1 + faults

\* Claimed: the scopes of an agent never point at the history of another one
\* (process_event).
ScopesApart ==
  \A a \in Agents, e \in Events :
    agent[e].run # 0 /\ mapping[<<a, ScopeOf[e]>>] = agent[e].conv => agent[e].ag = a

\* An agent never has the reply of an event on its way twice at a time, not even when
\* a slow request lets its outbound row and its inbox row become old: a retry has to
\* wait for the task of its runtime, and a new connection aborts the request.
OneReplyInFlight ==
  \A t, u \in Tasks :
    OnTheWay(t) /\ OnTheWay(u) /\ task[t].ev = task[u].ev /\ task[t].ag = task[u].ag => t = u

Pending(e) == inbox[e].st \in {"processing", "failed"}
Settled(e) == inbox[e].st \in SETTLED
Unconnected == \A a \in Agents : runtime[a] = 0

\* Every event that was accepted is answered or expires, as long as the bot is
\* connected and the retry loop comes to its rows.
EventsSettle == \A e \in Events : Pending(e) ~> (Settled(e) \/ Unconnected \/ starved)

\* Claimed: whatever else is in the inbox.
EventsAlwaysSettle == \A e \in Events : Pending(e) ~> (Settled(e) \/ Unconnected)
=============================================================================
