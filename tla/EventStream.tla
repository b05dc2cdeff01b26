---------------------------- MODULE EventStream ----------------------------
(***************************************************************************)
(* How the events of one run, or of one task, reach a browser              *)
(* (agent-service/app/main.py with Redis): the API and the worker commit   *)
(* an event under the next sequence number and publish it afterwards, the  *)
(* relay of the API process takes publications from Redis to the hub, and  *)
(* a websocket replays the stored events, follows the hub's queue and      *)
(* reads the store again when nothing comes for a second.                  *)
(***************************************************************************)
EXTENDS Naturals, Sequences, SequencesExt, FiniteSetsExt

CONSTANTS
    Kinds,       \* the subscriptions looked at: "run", "task" and "all"
    Publishers,  \* outbox passes that may run side by side
    MaxEvents,   \* bound: events of the stream
    PageSize,    \* the LIMIT of task_dispatch_events
    MaxDrops,    \* bound: connections that break
    MaxFaults    \* bound: failures of the relay or of an outbox pass

ASSUME KindsAssumption == Kinds \subseteq {"run", "task", "all"}
ASSUME BoundsAssumption ==
    /\ MaxEvents \in Nat /\ MaxDrops \in Nat /\ MaxFaults \in Nat
    /\ PageSize \in Nat \ {0}

Processes == {"api", "worker"}
Events == 1..MaxEvents

VARIABLES
    kind,       \* what the client subscribes to; never changes
    stored,     \* event_sequence: the events 1..stored are committed
    emitting,   \* per process: the event committed and not yet published, or 0
    outbox,     \* task events not marked published
    pass,       \* per publisher: the rows of its pass still to publish
    channel,    \* Redis Pub/Sub, on its way to the relay
    relayUp,    \* the relay is subscribed
    phase,      \* the websocket: "closed", "replay", "follow"
    last,       \* its last_sequence
    upto,       \* the last event of the rows it is sending
    queue,      \* its queue in the hub
    wire,       \* sent to the browser, not yet received
    got,        \* what the browser received, over all its connections
    panel,      \* "all": the state the task panel shows, as a sequence number
    reload,     \* "all": a reload of the panel is due
    drops, faults,
    hubbed,     \* history: events the hub has handed out
    exposed     \* history: events no longer certain to be followed in order

streamVars == <<stored, emitting, outbox, pass>>
relayVars == <<channel, relayUp>>
socketVars == <<phase, last, upto, queue>>
clientVars == <<wire, got, panel, reload>>
ghostVars == <<hubbed, exposed>>
vars == <<kind, streamVars, relayVars, socketVars, clientVars, drops, faults, ghostVars>>

\* agent-ws.js: afterSequence, the maximum of what was received.
After == Max({0} \cup ToSet(got))

Init ==
    /\ kind \in Kinds
    /\ stored = 0
    /\ emitting = [p \in Processes |-> 0]
    /\ outbox = {}
    /\ pass = [p \in Publishers |-> {}]
    /\ channel = <<>> /\ relayUp = TRUE
    /\ phase = "closed" /\ last = 0 /\ upto = 0 /\ queue = <<>>
    /\ wire = <<>> /\ got = <<>> /\ panel = 0 /\ reload = FALSE
    /\ drops = 0 /\ faults = 0
    /\ hubbed = {} /\ exposed = {}

----------------------------------------------------------------------------
(* Writers *)

\* add_event, or _append_task_dispatch with the outbox row of the event.
Commit(p) ==
    /\ emitting[p] = 0
    /\ stored < MaxEvents
    /\ stored' = stored + 1
    /\ emitting' = [emitting EXCEPT ![p] = stored + 1]
    /\ outbox' = IF kind = "run" THEN outbox ELSE outbox \cup {stored + 1}
    /\ UNCHANGED <<kind, pass, relayVars, socketVars, clientVars, drops, faults, ghostVars>>

\* A publication nobody is subscribed to is gone.
Broadcast(e) == channel' = IF relayUp THEN Append(channel, e) ELSE channel

\* Mutant: the hub's queue is registered when the replay has ended.
HandOutLate(e) ==
    /\ queue' = IF phase # "follow" THEN queue ELSE Append(queue, e)
    /\ hubbed' = hubbed \cup {e}
    /\ exposed' = exposed \cup {i \in Events : i < e /\ i \notin hubbed}

\* EventHub.publish, TaskEventHub.publish: put_nowait on the subscriber's queue.
HandOut(e) ==
    /\ queue' = IF phase = "closed" THEN queue ELSE Append(queue, e)
    /\ hubbed' = hubbed \cup {e}
    /\ exposed' = exposed \cup {i \in Events : i < e /\ i \notin hubbed}

\* publish_event of a run's event: the exception of a Redis that is down is dropped.
PublishRunEvent(p) ==
    /\ kind = "run"
    /\ emitting[p] # 0
    /\ emitting' = [emitting EXCEPT ![p] = 0]
    /\ Broadcast(emitting[p])
    /\ UNCHANGED <<kind, stored, outbox, pass, relayUp, socketVars, clientVars, drops, faults, ghostVars>>

\* The task created by _append_task_dispatch: only the API's hub has subscribers.
PublishTaskEvent(p) ==
    /\ kind # "run"
    /\ emitting[p] # 0
    /\ emitting' = [emitting EXCEPT ![p] = 0]
    /\ IF p = "api" THEN HandOut(emitting[p]) ELSE UNCHANGED <<queue, ghostVars>>
    /\ UNCHANGED <<kind, stored, outbox, pass, relayVars, phase, last, upto, clientVars, drops, faults>>

\* publish_pending_outbox: read the pending rows, then publish and mark one by one.
ReadOutbox(p) ==
    /\ pass[p] = {}
    /\ outbox # {}
    /\ pass' = [pass EXCEPT ![p] = outbox]
    /\ UNCHANGED <<kind, stored, emitting, outbox, relayVars, socketVars, clientVars, drops, faults, ghostVars>>

PublishRow(p) ==
    /\ pass[p] # {}
    /\ LET e == Min(pass[p]) IN
         /\ Broadcast(e)
         /\ outbox' = outbox \ {e}
         /\ pass' = [pass EXCEPT ![p] = @ \ {e}]
    /\ UNCHANGED <<kind, stored, emitting, relayUp, socketVars, clientVars, drops, faults, ghostVars>>

\* The pass fails after a publication and before its mark: the row stays pending.
PassFails(p) ==
    /\ pass[p] # {}
    /\ faults < MaxFaults
    /\ Broadcast(Min(pass[p]))
    /\ pass' = [pass EXCEPT ![p] = {}]
    /\ faults' = faults + 1
    /\ UNCHANGED <<kind, stored, emitting, outbox, relayUp, socketVars, clientVars, drops, ghostVars>>

----------------------------------------------------------------------------
(* redis_event_relay *)

Relay ==
    /\ channel # <<>>
    /\ channel' = Tail(channel)
    /\ HandOut(Head(channel))
    /\ UNCHANGED <<kind, streamVars, relayUp, phase, last, upto, clientVars, drops, faults>>

\* Any exception: a second's sleep without a subscription.
RelayFails ==
    /\ relayUp /\ faults < MaxFaults
    /\ relayUp' = FALSE /\ channel' = <<>>
    /\ faults' = faults + 1
    /\ UNCHANGED <<kind, streamVars, socketVars, clientVars, drops, ghostVars>>

RelaySubscribes ==
    /\ ~relayUp
    /\ relayUp' = TRUE
    /\ UNCHANGED <<kind, streamVars, channel, socketVars, clientVars, drops, faults, ghostVars>>

----------------------------------------------------------------------------
(* agent_websocket and task_websocket *)

\* Mutant: a page is taken for full.
FullPage(after) == IF kind = "task" THEN after + PageSize ELSE stored

\* The rows of events_after, or the first page of task_dispatch_events.
LastRow(after) ==
    IF kind = "task" THEN Min({stored, after + PageSize}) ELSE stored

\* agent.subscribe, task.subscribe: the stored rows are read and the queue
\* registered without giving up the event loop; the rows are sent afterwards.
Subscribe ==
    /\ kind # "all"
    /\ phase = "closed"
    /\ phase' = "replay"
    /\ last' = After
    /\ upto' = LastRow(After)
    /\ queue' = <<>>
    /\ exposed' = exposed \cup {i \in Events : upto' < i /\ i <= stored}
    /\ UNCHANGED <<kind, streamVars, relayVars, clientVars, drops, faults, hubbed>>

\* task.subscribe_all: no replay, the panel is told to load its projection.
SubscribeAll ==
    /\ kind = "all"
    /\ phase = "closed"
    /\ phase' = "follow"
    /\ last' = 0
    /\ queue' = <<>>
    /\ reload' = TRUE
    /\ UNCHANGED <<kind, streamVars, relayVars, upto, wire, got, panel, drops, faults, ghostVars>>

Send(e) ==
    /\ wire' = Append(wire, e)
    /\ last' = e

\* The loops over previous and over candidates read from the store.
SendRow ==
    /\ phase = "replay"
    /\ IF last < upto
         THEN Send(last + 1) /\ UNCHANGED phase
         ELSE phase' = "follow" /\ UNCHANGED <<last, wire>>
    /\ UNCHANGED <<kind, streamVars, relayVars, upto, queue, got, panel, reload, drops, faults, ghostVars>>

\* Mutant: what was replayed is sent again.
FollowAll ==
    /\ phase = "follow"
    /\ queue # <<>>
    /\ queue' = Tail(queue)
    /\ Send(Head(queue))
    /\ UNCHANGED <<kind, streamVars, relayVars, phase, upto, got, panel, reload, drops, faults, ghostVars>>

\* What arrives at the queue is sent when it is newer than all that was sent; the
\* global subscription, whose sequences belong to many tasks, sends everything.
Follow ==
    /\ phase = "follow"
    /\ queue # <<>>
    /\ queue' = Tail(queue)
    /\ IF kind = "all" \/ Head(queue) > last
         THEN Send(Head(queue))
         ELSE UNCHANGED <<last, wire>>
    /\ UNCHANGED <<kind, streamVars, relayVars, phase, upto, got, panel, reload, drops, faults, ghostVars>>

\* Mutant: the global subscription's loop, which does not read the store.
PollNever == FALSE /\ UNCHANGED vars

\* Nothing for a second: the rows after last_sequence are read again.
Poll ==
    /\ kind # "all"
    /\ phase = "follow"
    /\ queue = <<>>
    /\ LastRow(last) > last
    /\ upto' = LastRow(last)
    /\ phase' = "replay"
    /\ UNCHANGED <<kind, streamVars, relayVars, last, queue, clientVars, drops, faults, ghostVars>>

\* The connection breaks: what was on the wire is lost, the queue unsubscribed.
Drop ==
    /\ phase # "closed"
    /\ drops < MaxDrops
    /\ drops' = drops + 1
    /\ phase' = "closed"
    /\ queue' = <<>> /\ wire' = <<>>
    /\ UNCHANGED <<kind, streamVars, relayVars, last, upto, got, panel, reload, faults, ghostVars>>

----------------------------------------------------------------------------
(* agent-ws.js and TaskPanel.svelte *)

Receive ==
    /\ wire # <<>>
    /\ wire' = Tail(wire)
    /\ IF kind = "all"
         THEN reload' = TRUE /\ UNCHANGED got
         ELSE got' = Append(got, Head(wire)) /\ UNCHANGED reload
    /\ UNCHANGED <<kind, streamVars, relayVars, socketVars, panel, drops, faults, ghostVars>>

\* scheduleLoad: the panel reads the stored projection.
Reload ==
    /\ reload
    /\ reload' = FALSE
    /\ panel' = stored
    /\ UNCHANGED <<kind, streamVars, relayVars, socketVars, wire, got, drops, faults, ghostVars>>

Finished ==
    /\ stored = MaxEvents /\ phase = "follow" /\ relayUp /\ ~reload
    /\ emitting = [p \in Processes |-> 0] /\ outbox = {} /\ pass = [p \in Publishers |-> {}]
    /\ channel = <<>> /\ queue = <<>> /\ wire = <<>>
    /\ UNCHANGED vars

Next ==
    \/ \E p \in Processes : Commit(p) \/ PublishRunEvent(p) \/ PublishTaskEvent(p)
    \/ \E p \in Publishers : ReadOutbox(p) \/ PublishRow(p) \/ PassFails(p)
    \/ Relay \/ RelayFails \/ RelaySubscribes
    \/ Subscribe \/ SubscribeAll \/ SendRow \/ Follow \/ Poll \/ Drop
    \/ Receive \/ Reload
    \/ Finished

Spec == Init /\ [][Next]_vars

\* The loops of the API process, the reconnecting browser, and a writer that
\* publishes what it has committed; committing, dropping and failing are free.
Fairness ==
    /\ \A p \in Processes : WF_vars(PublishRunEvent(p) \/ PublishTaskEvent(p))
    /\ \A p \in Publishers : WF_vars(ReadOutbox(p) \/ PublishRow(p))
    /\ WF_vars(Relay) /\ WF_vars(RelaySubscribes)
    /\ WF_vars(Subscribe \/ SubscribeAll)
    /\ WF_vars(SendRow \/ Follow \/ Poll)
    /\ WF_vars(Receive) /\ WF_vars(Reload)
FairSpec == Spec /\ Fairness

----------------------------------------------------------------------------
(* Properties *)

\* Sequences of the stream that may wait somewhere, duplicates included.
Strand == Seq(Events)

\* Type invariant.
TypeOK ==
    /\ kind \in Kinds
    /\ stored \in 0..MaxEvents
    /\ emitting \in [Processes -> 0..MaxEvents]
    /\ outbox \in SUBSET Events /\ pass \in [Publishers -> SUBSET Events]
    /\ channel \in Strand /\ relayUp \in BOOLEAN
    /\ phase \in {"closed", "replay", "follow"}
    /\ last \in 0..MaxEvents /\ upto \in 0..MaxEvents /\ queue \in Strand
    /\ wire \in Strand /\ got \in Strand
    /\ panel \in 0..MaxEvents /\ reload \in BOOLEAN
    /\ drops \in 0..MaxDrops /\ faults \in 0..MaxFaults
    /\ hubbed \in SUBSET Events /\ exposed \in SUBSET Events

Ascending(s) == \A i, j \in DOMAIN s : i < j => s[i] < s[j]

\* What the browser has received, over broken connections, replays, repeated
\* publications and publications out of order, is a strictly ascending sequence of
\* committed events: nothing twice, nothing after something newer, nothing that
\* was not stored first.
DeliveredInOrder ==
    /\ Ascending(got)
    /\ ToSet(got) \subseteq 1..stored

\* The browser has skipped an event: it holds a later one and will not ask again.
Skipped(i) == i < After /\ i \notin ToSet(got)

\* Replay, subscription and reconnection lose nothing of their own: an event is
\* skipped only when the hub handed out a later one first (its publication was
\* lost, or overtaken), or when it lay beyond the page read at the subscription.
SkippedOnlyIfExposed == \A i \in Events : Skipped(i) => i \in exposed

\* A stored event reaches the browser, or a later one does, with the relay down,
\* the publication lost or the connection broken: the poll of the store makes up
\* for them. The panel of all tasks, which does not poll, catches up as long as
\* no publication was lost.
CaughtUp ==
    \A n \in Events :
        /\ (kind # "all" /\ stored >= n) ~> (After >= n)
        /\ (kind = "all" /\ stored >= n) ~> (panel >= n \/ faults > 0)

\* (Violated) docs/agent-platform-design.md:486: replay from PostgreSQL, then Redis, with
\* deduplication by sequence, so that no event is lost.
NothingSkipped == kind = "run" => \A i \in Events : ~Skipped(i)
=============================================================================
