----------------------------- MODULE LocalLease -----------------------------
(***************************************************************************)
(* Runs of local agents: agent-service offers them over a websocket to the *)
(* daemon of a device (local_agent_websocket, table local_run_dispatches), *)
(* which claims a lease, executes and reports. Messages keep their order   *)
(* within a connection; a connection that breaks loses what is under way.  *)
(*                                                                         *)
(* Both sides are event loops: an action is what one of them does with one *)
(* message, or between two awaits. Tasks of the runs are left out.         *)
(***************************************************************************)
EXTENDS Integers, Sequences, FiniteSets

CONSTANTS
  Runs,       \* runs of one local Agent, on one device
  Executor,   \* "model" or "codex", for each run
  MaxEvents,  \* bound on the events of an execution, but its last
  MaxLeases,  \* bound on the offers of a run
  MaxConns,   \* bound on the connections
  MaxFaults   \* bound on broken connections, crashes and stalls

ASSUME ExecutorAssumption == Executor \in [Runs -> {"model", "codex"}]
ASSUME BoundsAssumption ==
  /\ MaxEvents \in Nat /\ MaxLeases \in Nat \ {0} /\ MaxConns \in Nat \ {0} /\ MaxFaults \in Nat

VARIABLES
  \* agent-service
  mode,      \* agents.model_mode today
  frozen,    \* the mode in the snapshot of a run, from the day it was created
  run,       \* runs.state
  final,     \* runs.final_content is not empty
  disp,      \* local_run_dispatches.executor_state
  lease,     \* lease_id, as the number of the offer; 0: none
  expired,   \* lease_expires_at has passed
  acked,     \* last_acked_sequence
  stored,    \* the events of the daemon stored for a run, in order
  replies,   \* assistant messages of a run
  handlers,  \* connections with a handler local_agent_websocket
  online,    \* local_agent_devices.status
  \* daemon
  sock,      \* transport.socket: the open connection, or 0
  pending,   \* pendingOffers: the lease offered last, or 0
  exec,      \* runs and leases: what the daemon executes
  journal,   \* Journal.sequence
  writing,   \* journal.append calls under way
  \* connections
  conns, up, down,
  \* history
  starts,    \* executions started for a run
  overtaken, \* an append of the run's events ended before an earlier one
  faults

server == <<mode, frozen, run, final, disp, lease, expired, acked, stored, replies>>
history == <<starts, overtaken>>
daemon == <<pending, exec, journal, writing, history>>
network == <<handlers, online, sock, conns, up, down>>
vars == <<server, daemon, network, faults>>

TERMINAL == {"completed", "failed", "cancelled"}
Modes == {"local_direct", "server_proxy"}
NotExecuted == [st |-> "none", l |-> 0, events |-> 0, out |-> "none"]
Conns == 1..MaxConns

Init ==
  /\ mode \in Modes /\ frozen \in [Runs -> Modes] /\ final = [r \in Runs |-> FALSE]
  /\ run = [r \in Runs |-> "queued"] /\ disp = [r \in Runs |-> "pending"]
  /\ lease = [r \in Runs |-> 0] /\ expired = [r \in Runs |-> FALSE]
  /\ acked = [r \in Runs |-> 0] /\ stored = [r \in Runs |-> <<>>] /\ replies = [r \in Runs |-> 0]
  /\ handlers = {} /\ online = FALSE /\ sock = 0 /\ conns = 0
  /\ up = [c \in Conns |-> <<>>] /\ down = [c \in Conns |-> <<>>]
  /\ pending = [r \in Runs |-> 0] /\ exec = [r \in Runs |-> NotExecuted]
  /\ journal = [r \in Runs |-> 0] /\ writing = [r \in Runs |-> {}]
  /\ starts = [r \in Runs |-> 0] /\ overtaken = [r \in Runs |-> FALSE] /\ faults = 0

Fault == faults < MaxFaults /\ faults' = faults + 1

-----------------------------------------------------------------------------
(* agent-service *)

\* The owner saves the Agent as server_proxy, or binds it to the device again.
UpdateAgent ==
  /\ mode' = IF mode = "local_direct" THEN "server_proxy" ELSE "local_direct"
  /\ UNCHANGED <<frozen, run, final, disp, lease, expired, acked, stored, replies, daemon, network, faults>>

\* Mutant: a claimed run whose lease has expired is offered again.
OfferableAgain(r) ==
  mode = "local_direct" /\ (disp[r] = "pending" \/ (disp[r] \in {"offered", "claimed"} /\ expired[r]))

Offerable(r) ==
  mode = "local_direct" /\ (disp[r] = "pending" \/ (disp[r] = "offered" /\ expired[r]))

\* A message to a daemon that has closed the connection is lost.
Tell(c, m) == down' = IF c = sock THEN [down EXCEPT ![c] = Append(@, m)] ELSE down

\* The row is taken for 90 seconds, also if the snapshot then withholds the offer.
TellOffer(c, r) ==
  IF frozen[r] = "local_direct"
  THEN Tell(c, [type |-> "offer", r |-> r, l |-> lease[r] + 1]) ELSE UNCHANGED down

\* Mutant: a run whose lease was lost is put back into the queue.
OfferRequeued(c, r) ==
  /\ c \in handlers /\ OfferableAgain(r) /\ lease[r] < MaxLeases
  /\ disp' = [disp EXCEPT ![r] = "offered"]
  /\ run' = [run EXCEPT ![r] = IF @ = "running" THEN "queued" ELSE @]
  /\ lease' = [lease EXCEPT ![r] = @ + 1]
  /\ expired' = [expired EXCEPT ![r] = FALSE]
  /\ TellOffer(c, r)
  /\ UNCHANGED <<mode, frozen, final, acked, stored, replies, handlers, online, sock, conns, up, daemon, faults>>

\* offer_local_run, at the head of the loop of a handler.
Offer(c, r) ==
  /\ c \in handlers /\ Offerable(r) /\ lease[r] < MaxLeases
  /\ disp' = [disp EXCEPT ![r] = "offered"]
  /\ lease' = [lease EXCEPT ![r] = @ + 1]
  /\ expired' = [expired EXCEPT ![r] = FALSE]
  /\ TellOffer(c, r)
  /\ UNCHANGED <<mode, frozen, run, final, acked, stored, replies, handlers, online, sock, conns, up, daemon, faults>>

Take(c, type) ==
  /\ c \in handlers /\ up[c] # <<>> /\ Head(up[c]).type = type
  /\ up' = [up EXCEPT ![c] = Tail(@)]

Valid(m, st) == disp[m.r] = st /\ lease[m.r] = m.l /\ ~expired[m.r]

\* Mutant: the run itself is not started.
ClaimLocalRunQuietly(c) ==
  /\ Take(c, "claim")
  /\ LET m == Head(up[c])  ok == Valid(m, "offered") /\ run[m.r] = "queued" IN
       /\ disp' = IF ok THEN [disp EXCEPT ![m.r] = "claimed"] ELSE disp
       /\ Tell(c, [type |-> "claimed", r |-> m.r, ok |-> ok])
  /\ UNCHANGED <<mode, frozen, run, final, lease, expired, acked, stored, replies, handlers, online, sock, conns, daemon, faults>>

\* claim_local_run: a run that is not queued any more rolls the claim back.
ClaimLocalRun(c) ==
  /\ Take(c, "claim")
  /\ LET m == Head(up[c])  ok == Valid(m, "offered") /\ run[m.r] = "queued" IN
       /\ IF ok THEN /\ disp' = [disp EXCEPT ![m.r] = "claimed"]
                     /\ run' = [run EXCEPT ![m.r] = "running"]
          ELSE UNCHANGED <<disp, run>>
       /\ Tell(c, [type |-> "claimed", r |-> m.r, ok |-> ok])
  /\ UNCHANGED <<mode, frozen, final, lease, expired, acked, stored, replies, handlers, online, sock, conns, daemon, faults>>

\* renew_local_lease. The daemon looks only at the news of a cancellation.
RenewLocalLease(c) ==
  /\ Take(c, "renew")
  /\ LET m == Head(up[c]) IN
       IF Valid(m, "claimed") /\ run[m.r] = "cancelled"
       THEN Tell(c, [type |-> "cancelled", r |-> m.r]) ELSE UNCHANGED down
  /\ UNCHANGED <<server, handlers, online, sock, conns, daemon, faults>>

\* Mutant: an event is stored whatever its sequence is.
FreshEventAny(m) == Valid(m, "claimed")

FreshEvent(m) == Valid(m, "claimed") /\ acked[m.r] < m.seq

\* append_local_run_event
AppendLocalRunEvent(c) ==
  /\ Take(c, "event")
  /\ LET m == Head(up[c]) IN
       IF FreshEvent(m)
       THEN /\ acked' = [acked EXCEPT ![m.r] = m.seq]
            /\ stored' = [stored EXCEPT ![m.r] = Append(@, m.e)]
       ELSE UNCHANGED <<acked, stored>>
  /\ UNCHANGED <<mode, frozen, run, final, disp, lease, expired, replies, handlers, online, sock, conns, down, daemon, faults>>

\* finish_local_run: the lease is valid, and update_run accepts the state.
Finishable(m) == Valid(m, "claimed") /\ run[m.r] = "running"

\* update_run, which stores the content, and then the row of the dispatch.
Finished(m, st) ==
  /\ run' = [run EXCEPT ![m.r] = m.st] /\ final' = [final EXCEPT ![m.r] = m.content]
  /\ disp' = [disp EXCEPT ![m.r] = st]

Answered(m) == m.st = "completed" /\ m.content

\* Mutant: the reply is saved although update_run refuses.
FinishLocalRunReplyAnyway(c) ==
  /\ Take(c, "finish")
  /\ LET m == Head(up[c]) IN
       /\ IF Finishable(m) THEN Finished(m, m.st) ELSE UNCHANGED <<run, final, disp>>
       /\ replies' = [replies EXCEPT ![m.r] = IF Valid(m, "claimed") /\ Answered(m) THEN @ + 1 ELSE @]
  /\ UNCHANGED <<mode, frozen, lease, expired, acked, stored, handlers, online, sock, conns, down, daemon, faults>>

\* A completed run without a content has nothing to say.
FinishLocalRun(c) ==
  /\ Take(c, "finish")
  /\ LET m == Head(up[c]) IN
       IF Finishable(m)
       THEN /\ Finished(m, m.st)
            /\ replies' = [replies EXCEPT ![m.r] = IF Answered(m) THEN @ + 1 ELSE @]
       ELSE UNCHANGED <<run, final, disp, replies>>
  /\ UNCHANGED <<mode, frozen, lease, expired, acked, stored, handlers, online, sock, conns, down, daemon, faults>>

\* The API stops: handlers are gone, devices stay as they were.
Stop == handlers' = {} /\ up' = [c \in Conns |-> <<>>]

ApiCrash ==
  /\ Fault /\ Stop
  /\ UNCHANGED <<server, daemon, online, sock, conns, down>>

\* It stops in the middle of finish_local_run, between its commits.
FinishInterrupted(c) ==
  /\ c \in handlers /\ up[c] # <<>> /\ Head(up[c]).type = "finish"
  /\ Fault /\ Stop
  /\ LET m == Head(up[c]) IN
       Finishable(m) /\ \E st \in {"claimed", m.st} : Finished(m, st)
  /\ UNCHANGED <<mode, frozen, lease, expired, acked, stored, replies, online, sock, conns, down, daemon>>

\* cancel_run, by the user.
CancelRun(r) ==
  /\ run[r] \in {"queued", "running"}
  /\ run' = [run EXCEPT ![r] = "cancelled"]
  /\ UNCHANGED <<mode, frozen, final, disp, lease, expired, acked, stored, replies, daemon, network, faults>>

\* Nobody is about to claim or to renew the lease.
Unattended(r) ==
  /\ \A c \in Conns : ~\E i \in DOMAIN up[c] : up[c][i].r = r
  /\ \A c \in Conns : ~\E i \in DOMAIN down[c] : down[c][i].r = r
  /\ sock # 0 => exec[r].st \in {"none", "done"} \/ exec[r].l # lease[r]

\* 90 seconds pass without a renewal; a stall if somebody should have renewed.
LeaseExpires(r) ==
  /\ disp[r] \in {"offered", "claimed"} /\ ~expired[r]
  /\ IF Unattended(r) THEN UNCHANGED faults ELSE Fault
  /\ expired' = [expired EXCEPT ![r] = TRUE]
  /\ UNCHANGED <<mode, frozen, run, final, disp, lease, acked, stored, replies, daemon, network>>

-----------------------------------------------------------------------------
(* The daemon *)

\* transport.send: dropped unless the socket is open, and lost if nobody reads.
Report(m) == up' = IF sock \in handlers THEN [up EXCEPT ![sock] = Append(@, m)] ELSE up

Hear(type) ==
  /\ sock # 0 /\ down[sock] # <<>> /\ Head(down[sock]).type = type
  /\ down' = [down EXCEPT ![sock] = Tail(@)]

\* offerRemoteRun
OfferRemoteRun ==
  /\ Hear("offer")
  /\ LET m == Head(down[sock]) IN
       /\ pending' = [pending EXCEPT ![m.r] = m.l]
       /\ Report([type |-> "claim", r |-> m.r, l |-> m.l])
  /\ UNCHANGED <<server, exec, journal, writing, history, handlers, online, sock, conns, faults>>

\* The answer is positive, and there is an offer it may be about.
Wanted(m) == m.ok /\ pending[m.r] # 0

\* claimRemoteRun: the answer names the run, not the lease; an unknown
\* workspace fails at once.
ClaimRemoteRun ==
  /\ Hear("claimed")
  /\ LET m == Head(down[sock]) IN
       /\ pending' = [pending EXCEPT ![m.r] = 0]
       /\ \/ /\ Wanted(m)
             /\ exec' = [exec EXCEPT ![m.r] = [NotExecuted EXCEPT !.st = "running", !.l = pending[m.r]]]
             /\ starts' = [starts EXCEPT ![m.r] = @ + 1]
             /\ UNCHANGED up
          \/ /\ Wanted(m)
             /\ Report([type |-> "finish", r |-> m.r, l |-> pending[m.r], st |-> "failed", content |-> FALSE])
             /\ UNCHANGED <<exec, starts>>
          \/ ~Wanted(m) /\ UNCHANGED <<exec, starts, up>>
  /\ UNCHANGED <<server, journal, writing, overtaken, handlers, online, sock, conns, faults>>

Abort(r) == exec' = [exec EXCEPT ![r].st = "cancelled"]

\* cancelRemoteRun, then run.cancel of a run that the daemon knows.
CancelRemoteRun ==
  /\ Hear("cancelled")
  /\ LET r == Head(down[sock]).r IN
       IF exec[r].st \in {"running", "completed", "failed"} THEN Abort(r) ELSE UNCHANGED exec
  /\ UNCHANGED <<server, pending, journal, writing, history, handlers, online, sock, conns, up, faults>>

\* run.cancel from the terminal.
LocalCancel(r) ==
  /\ exec[r].st = "running"
  /\ Abort(r)
  /\ UNCHANGED <<server, pending, journal, writing, history, network, faults>>

\* renewLeases; at most one renewal is under way (bound).
RenewLeases(r) ==
  /\ sock # 0 /\ exec[r].st \notin {"none", "done"}
  /\ \A i \in DOMAIN up[sock] : up[sock][i].type # "renew"
  /\ \A i \in DOMAIN down[sock] : down[sock][i].type # "cancelled"
  /\ Report([type |-> "renew", r |-> r, l |-> exec[r].l])
  /\ UNCHANGED <<server, daemon, handlers, online, sock, conns, down, faults>>

\* journal.append takes the next sequence before it waits for the file.
NextSequence(r) == journal[r] + 1

StartAppend(r) ==
  writing' = [writing EXCEPT ![r] = @ \cup {[e |-> exec[r].events + 1, seq |-> NextSequence(r)]}]

\* Model executors await each event, executeCodexRun does not.
MayEmit(r) == Executor[r] = "codex" \/ writing[r] = {}

\* emit
Emit(r) ==
  /\ exec[r].st = "running" /\ exec[r].events < MaxEvents /\ MayEmit(r)
  /\ StartAppend(r)
  /\ exec' = [exec EXCEPT ![r].events = @ + 1]
  /\ UNCHANGED <<server, pending, journal, history, network, faults>>

\* The row is written, the sequence is noted, and the event is sent.
Appended(r, a) ==
  /\ a \in writing[r]
  /\ writing' = [writing EXCEPT ![r] = @ \ {a}]
  /\ journal' = [journal EXCEPT ![r] = a.seq]
  /\ overtaken' = [overtaken EXCEPT ![r] = @ \/ \E b \in writing[r] : b.e < a.e]
  /\ IF exec[r].st = "none" THEN UNCHANGED up
     ELSE Report([type |-> "event", r |-> r, l |-> exec[r].l, e |-> a.e, seq |-> a.seq])
  /\ UNCHANGED <<server, pending, exec, starts, handlers, online, sock, conns, down, faults>>

\* Mutant: the result is taken for the state.
EndStateRaw(r, out) == out

\* executeCodexRun resolves with the error in its result; executeTextRun throws.
EndState(r, out) == IF out = "ok" \/ Executor[r] = "codex" THEN "completed" ELSE "failed"

\* The execution ends: executeRun sets the state and emits the last event.
EndExecution(r) ==
  /\ exec[r].st = "running" /\ MayEmit(r)
  /\ \E out \in {"ok", "error"} :
       exec' = [exec EXCEPT ![r].st = EndState(r, out), ![r].out = out, ![r].events = @ + 1]
  /\ StartAppend(r)
  /\ UNCHANGED <<server, pending, journal, history, network, faults>>

\* run.finish, after the last event; the lease is not tracked any more. A failed
\* execution has no content, any other may have one or none.
SendFinish(r) ==
  /\ exec[r].st \in TERMINAL
  /\ \A a \in writing[r] : a.e # exec[r].events
  /\ \E content \in IF exec[r].st = "failed" THEN {FALSE} ELSE BOOLEAN :
       Report([type |-> "finish", r |-> r, l |-> exec[r].l, st |-> exec[r].st, content |-> content])
  /\ exec' = [exec EXCEPT ![r].st = "done"]
  /\ UNCHANGED <<server, pending, journal, writing, history, handlers, online, sock, conns, down, faults>>

\* The daemon stops; of its state only the journal remains.
DaemonCrash ==
  /\ Fault
  /\ pending' = [r \in Runs |-> 0] /\ exec' = [r \in Runs |-> NotExecuted]
  /\ writing' = [r \in Runs |-> {}]
  /\ sock' = 0 /\ down' = [c \in Conns |-> <<>>]
  /\ UNCHANGED <<server, journal, history, handlers, online, conns, up>>

-----------------------------------------------------------------------------
(* Connections *)

\* connect; the handler accepts and sets the device online.
Connect ==
  /\ sock = 0 /\ conns < MaxConns
  /\ conns' = conns + 1 /\ sock' = conns + 1
  /\ handlers' = handlers \cup {conns + 1} /\ online' = TRUE
  /\ UNCHANGED <<server, daemon, up, down, faults>>

\* The daemon sees the connection closed: by the API, or broken.
Close ==
  /\ sock # 0
  /\ IF sock \in handlers THEN Fault ELSE UNCHANGED faults
  /\ sock' = 0 /\ down' = [down EXCEPT ![sock] = <<>>]
  /\ UNCHANGED <<server, daemon, handlers, online, conns, up>>

\* A handler sees it closed, and what it has not read by then is lost.
HandlerEnds(c) ==
  /\ c \in handlers
  /\ IF c = sock THEN Fault ELSE UNCHANGED faults
  /\ handlers' = handlers \ {c} /\ up' = [up EXCEPT ![c] = <<>>]
  /\ online' = FALSE
  /\ UNCHANGED <<server, daemon, sock, conns, down>>

-----------------------------------------------------------------------------
Handle(c) ==
  \/ ClaimLocalRun(c) \/ RenewLocalLease(c) \/ AppendLocalRunEvent(c) \/ FinishLocalRun(c)

Receive == OfferRemoteRun \/ ClaimRemoteRun \/ CancelRemoteRun

Execute(r) == EndExecution(r) \/ SendFinish(r)

Next ==
  \/ \E c \in Conns : Handle(c) \/ FinishInterrupted(c) \/ HandlerEnds(c) \/ \E r \in Runs : Offer(c, r)
  \/ \E r \in Runs :
       \/ CancelRun(r) \/ LeaseExpires(r) \/ LocalCancel(r) \/ RenewLeases(r)
       \/ Emit(r) \/ Execute(r) \/ \E a \in writing[r] : Appended(r, a)
  \/ UpdateAgent \/ Receive \/ ApiCrash \/ DaemonCrash \/ Connect \/ Close

Spec == Init /\ [][Next]_vars

\* Both event loops go on, the daemon reconnects, leases run out, and (external)
\* a model or Codex ends.
Fairness ==
  /\ \A c \in Conns :
       /\ WF_vars(Handle(c)) /\ WF_vars(\E r \in Runs : Offer(c, r))
       /\ WF_vars(c # sock /\ HandlerEnds(c))
  /\ \A r \in Runs :
       /\ WF_vars(Unattended(r) /\ LeaseExpires(r))
       /\ WF_vars(Execute(r)) /\ WF_vars(\E a \in writing[r] : Appended(r, a))
  /\ WF_vars(Receive) /\ WF_vars(Connect) /\ WF_vars(sock \notin handlers /\ Close)

FairSpec == Spec /\ Fairness

-----------------------------------------------------------------------------
(* Properties *)

Leases == 0..MaxLeases
Messages ==
  [type : {"claim", "renew"}, r : Runs, l : Leases]
    \cup [type : {"event"}, r : Runs, l : Leases, e : Nat, seq : Nat]
    \cup [type : {"finish"}, r : Runs, l : Leases, st : TERMINAL, content : BOOLEAN]
    \cup [type : {"offer"}, r : Runs, l : Leases]
    \cup [type : {"claimed"}, r : Runs, ok : BOOLEAN]
    \cup [type : {"cancelled"}, r : Runs]

TypeOK ==
  /\ mode \in Modes /\ frozen \in [Runs -> Modes] /\ final \in [Runs -> BOOLEAN]
  /\ run \in [Runs -> {"queued", "running"} \cup TERMINAL]
  /\ disp \in [Runs -> {"pending", "offered", "claimed"} \cup TERMINAL]
  /\ lease \in [Runs -> Leases] /\ expired \in [Runs -> BOOLEAN]
  /\ acked \in [Runs -> Nat] /\ stored \in [Runs -> Seq(Nat)] /\ replies \in [Runs -> Nat]
  /\ conns \in 0..MaxConns /\ handlers \subseteq 1..conns /\ sock \in 0..conns /\ online \in BOOLEAN
  /\ up \in [Conns -> Seq(Messages)] /\ down \in [Conns -> Seq(Messages)]
  /\ pending \in [Runs -> Leases]
  /\ exec \in [Runs -> [st : {"none", "running", "done"} \cup TERMINAL, l : Leases,
                        events : 0..MaxEvents + 1, out : {"none", "ok", "error"}]]
  /\ journal \in [Runs -> Nat] /\ writing \in [Runs -> SUBSET [e : Nat, seq : Nat]]
  /\ starts \in [Runs -> Nat] /\ overtaken \in [Runs -> BOOLEAN] /\ faults \in 0..MaxFaults

Executing(r) == exec[r].st \notin {"none", "done"}

StartedOnce == \A r \in Runs : starts[r] <= 1

\* What the daemon executes was claimed, with the lease it believes to hold.
ExecutesItsLease ==
  \A r \in Runs : Executing(r) =>
    /\ exec[r].l = lease[r] /\ disp[r] \notin {"pending", "offered"} /\ run[r] # "queued"

\* A run is executed at most once, whatever is offered, claimed, lost, expired or
\* restarted, and by a daemon that holds its lease: its effects on the device are
\* never repeated, although the answer to a claim names the run and not the lease.
ExecutedOnce == StartedOnce /\ ExecutesItsLease

\* The stored events of a run are events of its execution, each of them at most
\* once, whatever connections break; some may be missing.  They are in order
\* unless one append to the journal overtook another (append_local_run_event).
StoredInOrder ==
  \A r \in Runs : \A i, j \in DOMAIN stored[r] : i < j =>
    IF overtaken[r] THEN stored[r][i] # stored[r][j] ELSE stored[r][i] < stored[r][j]

\* (Violated) They are always in order. executeCodexRun does not wait for an append,
\* and the sequence of the last one that ends, not the largest, is the base of the next.
StoredAlwaysInOrder ==
  \A r \in Runs : \A i, j \in DOMAIN stored[r] : i < j => stored[r][i] < stored[r][j]

\* A run that completed with a content has one reply, unless the API stopped in
\* between; one that ended otherwise, or without a word, has none.
OneReply ==
  \A r \in Runs :
    /\ replies[r] <= 1
    /\ replies[r] = 1 => run[r] = "completed" /\ final[r]
    /\ run[r] = "completed" /\ final[r] /\ faults = 0 => replies[r] = 1

\* (Violated) A completed run has a reply. Codex may end without a visible output.
CompletedHasReply == \A r \in Runs : run[r] = "completed" /\ faults = 0 => replies[r] = 1

\* A run is reported completed only if its executor succeeded.
FailureReported ==
  \A r \in Runs : run[r] = "completed" /\ starts[r] = 1 /\ exec[r].out # "none" => exec[r].out = "ok"

\* A connected device is known as online.
OnlineWhileConnected == sock \in handlers => online

\* Without faults every event is stored before the run ends.
EventsKept ==
  \A r \in Runs : faults = 0 /\ run[r] = "completed" => Len(stored[r]) = exec[r].events

\* Terminal runs stay as they are.
EndsOnce == [][\A r \in Runs : run[r] \in TERMINAL => run'[r] = run[r]]_vars

\* The Agent is local_direct today and was so when the run was created.
MayBeOffered(r) == mode = "local_direct" /\ frozen[r] = "local_direct"

\* Without faults every run of a device ends, once it is claimed; a queued one
\* unless its owner has taken the Agent from the device, or did so when the run was
\* created (offer_local_run).
RunsSettle ==
  \A r \in Runs :
    run[r] \in {"queued", "running"}
      ~> \/ run[r] \in TERMINAL \/ faults > 0
         \/ run[r] = "queued" /\ ~MayBeOffered(r)

\* (Violated) It ends whatever the owner saves.
RunsSettleInAnyMode ==
  \A r \in Runs : run[r] \in {"queued", "running"} ~> (run[r] \in TERMINAL \/ faults > 0)

\* With faults, every queued run is claimed as long as it may be offered and the
\* daemon may connect (the bounds).
QueuedRunsClaimed ==
  \A r \in Runs :
    run[r] = "queued"
      ~> (run[r] # "queued" \/ lease[r] = MaxLeases \/ conns = MaxConns \/ ~MayBeOffered(r))

\* A claimed run whose lease was lost ends: nothing stays running for ever.
LostLeaseEnds ==
  \A r \in Runs : disp[r] = "claimed" /\ expired[r] ~> run[r] \in TERMINAL
=============================================================================
