-------------------------- MODULE LocalLeaseProofs --------------------------
(* Theorems about LocalLease, for all its constants. *)
EXTENDS LocalLease, TLAPS

-----------------------------------------------------------------------------
(* Messages and connections *)

LEMMA MessageFields ==
  \A m \in Messages :
    /\ m.r \in Runs
    /\ m.type \in {"claim", "renew", "offer", "event", "finish"} => m.l \in Leases
    /\ m.type = "event" => m.e \in Nat /\ m.seq \in Nat
    /\ m.type = "finish" => m.st \in TERMINAL /\ m.content \in BOOLEAN
    /\ m.type = "claimed" => m.ok \in BOOLEAN
BY DEF Messages

LEMMA MessageForms ==
  \A r \in Runs, l \in Leases :
    /\ \A t \in {"claim", "renew", "offer"} : [type |-> t, r |-> r, l |-> l] \in Messages
    /\ \A e, seq \in Nat : [type |-> "event", r |-> r, l |-> l, e |-> e, seq |-> seq] \in Messages
    /\ \A st \in TERMINAL, content \in BOOLEAN :
         [type |-> "finish", r |-> r, l |-> l, st |-> st, content |-> content] \in Messages
    /\ \A ok \in BOOLEAN : [type |-> "claimed", r |-> r, ok |-> ok] \in Messages
    /\ [type |-> "cancelled", r |-> r] \in Messages
BY DEF Messages

\* What a queue holds stays a queue of messages when one is added or taken.
LEMMA Queues ==
  ASSUME NEW q \in Seq(Messages)
  PROVE  /\ \A m \in Messages : Append(q, m) \in Seq(Messages)
         /\ q # <<>> => Head(q) \in Messages /\ Tail(q) \in Seq(Messages)
         /\ <<>> \in Seq(Messages)
OBVIOUS

Channel == [Conns -> Seq(Messages)]

LEMMA SockConn == TypeOK => (sock # 0 => sock \in Conns) /\ handlers \subseteq Conns
BY BoundsAssumption DEF TypeOK, Conns

LEMMA TellTyped ==
  ASSUME TypeOK, NEW c \in Conns, NEW m \in Messages, Tell(c, m)
  PROVE  down' \in Channel
BY Queues DEF TypeOK, Tell, Channel

LEMMA ReportTyped ==
  ASSUME TypeOK, NEW m \in Messages, Report(m)
  PROVE  up' \in Channel
BY Queues, SockConn DEF TypeOK, Report, Channel

LEMMA TakeTyped ==
  ASSUME TypeOK, NEW c \in Conns, NEW type, Take(c, type)
  PROVE  Head(up[c]) \in Messages /\ Head(up[c]).type = type /\ up' \in Channel
BY Queues DEF TypeOK, Take, Channel

LEMMA HearTyped ==
  ASSUME TypeOK, NEW type, Hear(type)
  PROVE  Head(down[sock]) \in Messages /\ Head(down[sock]).type = type /\ down' \in Channel
BY Queues, SockConn DEF TypeOK, Hear, Channel

-----------------------------------------------------------------------------
(* Type correctness *)

\* TypeOK in parts, and what makes it inductive: a running execution has not had
\* its last event.
ServerOK ==
  /\ mode \in Modes /\ frozen \in [Runs -> Modes] /\ final \in [Runs -> BOOLEAN]
  /\ run \in [Runs -> {"queued", "running"} \cup TERMINAL]
  /\ disp \in [Runs -> {"pending", "offered", "claimed"} \cup TERMINAL]
  /\ lease \in [Runs -> Leases] /\ expired \in [Runs -> BOOLEAN]
  /\ acked \in [Runs -> Nat] /\ stored \in [Runs -> Seq(Nat)] /\ replies \in [Runs -> Nat]

NetworkOK ==
  /\ conns \in 0..MaxConns /\ handlers \subseteq 1..conns /\ sock \in 0..conns /\ online \in BOOLEAN
  /\ up \in Channel /\ down \in Channel

Executions ==
  [st : {"none", "running", "done"} \cup TERMINAL, l : Leases, events : 0..MaxEvents + 1,
   out : {"none", "ok", "error"}]
Appends == [e : Nat, seq : Nat]

DaemonOK ==
  /\ pending \in [Runs -> Leases]
  /\ exec \in [Runs -> Executions]
  /\ journal \in [Runs -> Nat] /\ writing \in [Runs -> SUBSET Appends]
  /\ starts \in [Runs -> Nat] /\ overtaken \in [Runs -> BOOLEAN]
  /\ \A r \in Runs : exec[r].st = "running" => exec[r].events <= MaxEvents

TypeInv == ServerOK /\ NetworkOK /\ DaemonOK /\ faults \in 0..MaxFaults

LEMMA TypeInvTypeOK == TypeInv => TypeOK
BY DEF TypeInv, ServerOK, NetworkOK, DaemonOK, TypeOK, Channel, Executions, Appends

LEMMA FaultTyped == faults \in 0..MaxFaults /\ Fault => faults' \in 0..MaxFaults
BY BoundsAssumption DEF Fault

LEMMA NewExecution ==
  /\ NotExecuted \in Executions
  /\ \A l \in Leases : LET x == [NotExecuted EXCEPT !.st = "running", !.l = l] IN
       x \in Executions /\ x.st = "running" /\ x.events = 0 /\ x.l = l
<1>1. 0 \in 0..MaxEvents + 1 /\ 0 \in Leases
  BY BoundsAssumption DEF Leases
<1>2. NotExecuted \in Executions
  BY <1>1 DEF NotExecuted, Executions
<1>3. NotExecuted.events = 0
  BY DEF NotExecuted
<1>4. ASSUME NEW l \in Leases
      PROVE  LET x == [NotExecuted EXCEPT !.st = "running", !.l = l] IN
               x \in Executions /\ x.st = "running" /\ x.events = 0 /\ x.l = l
  BY <1>2, <1>3 DEF Executions
<1> QED BY <1>2, <1>4

LEMMA TypeInit == Init => TypeInv
<1> SUFFICES ASSUME Init PROVE TypeInv
  OBVIOUS
<1>1. ServerOK
  BY BoundsAssumption DEF Init, ServerOK, Leases
<1>2. NetworkOK
  <2>1. up \in Channel /\ down \in Channel
    BY DEF Init, Channel
  <2>2. conns = 0 /\ sock = 0 /\ handlers = {}
    BY DEF Init
  <2>3. online = FALSE
    BY DEF Init
  <2>4. 0 \in 0..MaxConns
    BY BoundsAssumption
  <2>5. online \in BOOLEAN
    BY <2>3
  <2>6. conns \in 0..MaxConns /\ handlers \subseteq 1..conns /\ sock \in 0..conns
    BY <2>2, <2>4
  <2> QED BY <2>1, <2>5, <2>6 DEF NetworkOK
<1>3. DaemonOK
  <2>1. exec \in [Runs -> Executions] /\ \A r \in Runs : exec[r].st # "running"
    BY NewExecution DEF Init, NotExecuted
  <2> QED BY <2>1, BoundsAssumption DEF Init, DaemonOK, Leases
<1>4. faults \in 0..MaxFaults
  BY BoundsAssumption DEF Init
<1> QED BY <1>1, <1>2, <1>3, <1>4 DEF TypeInv

LEMMA Same ==
  /\ ServerOK /\ UNCHANGED server => ServerOK'
  /\ DaemonOK /\ UNCHANGED daemon => DaemonOK'
  /\ (NetworkOK /\ UNCHANGED <<handlers, online, sock, conns>> /\ up' \in Channel /\ down' \in Channel)
       => NetworkOK'
<1>1. ServerOK /\ UNCHANGED server => ServerOK'
  BY DEF ServerOK, server
<1>2. DaemonOK /\ UNCHANGED daemon => DaemonOK'
  BY DEF DaemonOK, daemon, history
<1>3. (NetworkOK /\ UNCHANGED <<handlers, online, sock, conns>> /\ up' \in Channel /\ down' \in Channel)
        => NetworkOK'
  BY DEF NetworkOK
<1> QED BY <1>1, <1>2, <1>3

\* The handlers of the API.
LEMMA TypeServerStep ==
  ASSUME TypeInv, NEW c \in Conns,
         \/ Handle(c) \/ FinishInterrupted(c) \/ \E r \in Runs : Offer(c, r)
  PROVE  TypeInv'
<1> TypeOK
  BY TypeInvTypeOK
<1> ServerOK /\ NetworkOK /\ DaemonOK /\ faults \in 0..MaxFaults
  BY DEF TypeInv
<1> up \in Channel /\ down \in Channel
  BY DEF NetworkOK
<1>1. ASSUME NEW r \in Runs, Offer(c, r) PROVE TypeInv'
  <2>1. lease[r] + 1 \in Leases
    BY <1>1, BoundsAssumption DEF Offer, Leases, ServerOK
  <2>2. ServerOK'
    BY <1>1, <2>1 DEF Offer, ServerOK
  <2>3. down' \in Channel
    <3>1. [type |-> "offer", r |-> r, l |-> lease[r] + 1] \in Messages
      BY <2>1, MessageForms
    <3>2. UNCHANGED down \/ Tell(c, [type |-> "offer", r |-> r, l |-> lease[r] + 1])
      BY <1>1 DEF Offer, TellOffer
    <3> QED BY <3>1, <3>2, TellTyped
  <2>4. NetworkOK' /\ DaemonOK' /\ faults' = faults
    BY <1>1, <2>3, Same DEF Offer
  <2> QED BY <2>2, <2>4 DEF TypeInv
<1>2. CASE ClaimLocalRun(c)
  <2> DEFINE m == Head(up[c])
             ok == Valid(m, "offered") /\ run[m.r] = "queued"
  <2>1. m \in Messages /\ up' \in Channel
    BY <1>2, TakeTyped DEF ClaimLocalRun
  <2>2. m.r \in Runs
    BY <2>1, MessageFields
  <2>3. ServerOK'
    <3> HIDE DEF m
    <3>1. ServerOK /\ (ok \/ UNCHANGED <<disp, run>>)
      BY <1>2 DEF ClaimLocalRun, m
    <3>2. UNCHANGED <<mode, frozen, final, lease, expired, acked, stored, replies>>
      BY <1>2 DEF ClaimLocalRun
    <3>3. CASE UNCHANGED <<disp, run>>
      BY <3>2, <3>3, Same DEF server
    <3>4. CASE ok
      <4>1. disp' = [disp EXCEPT ![m.r] = "claimed"] /\ run' = [run EXCEPT ![m.r] = "running"]
        BY <1>2, <3>4 DEF ClaimLocalRun, m
      <4> QED BY <4>1, <3>2, <2>2 DEF ServerOK
    <3> QED BY <3>1, <3>3, <3>4
  <2>4. down' \in Channel
    <3>1. Tell(c, [type |-> "claimed", r |-> m.r, ok |-> ok])
      BY <1>2 DEF ClaimLocalRun
    <3>2. ok \in BOOLEAN
      OBVIOUS
    <3>3. [type |-> "claimed", r |-> m.r, ok |-> ok] \in Messages
      <4> HIDE DEF ok, m
      <4>1. \E l \in Leases : TRUE
        BY BoundsAssumption DEF Leases
      <4> QED BY <4>1, <3>2, <2>2, MessageForms
    <3> HIDE DEF ok, m
    <3> QED BY <3>1, <3>3, TellTyped
  <2>5. NetworkOK' /\ DaemonOK' /\ faults' = faults
    BY <1>2, <2>1, <2>4, Same DEF ClaimLocalRun
  <2> QED BY <2>3, <2>5 DEF TypeInv
<1>3. CASE RenewLocalLease(c)
  <2>1. Head(up[c]) \in Messages /\ up' \in Channel
    BY <1>3, TakeTyped DEF RenewLocalLease
  <2>2. down' \in Channel
    <3>1. CASE UNCHANGED down
      BY <3>1
    <3>2. CASE Tell(c, [type |-> "cancelled", r |-> Head(up[c]).r])
      <4>1. \E l \in Leases : TRUE
        BY BoundsAssumption DEF Leases
      <4>2. [type |-> "cancelled", r |-> Head(up[c]).r] \in Messages
        BY <2>1, <4>1, MessageFields, MessageForms
      <4> QED BY <3>2, <4>2, TellTyped
    <3> QED BY <1>3, <3>1, <3>2 DEF RenewLocalLease
  <2> QED BY <1>3, <2>1, <2>2, Same DEF RenewLocalLease, TypeInv
<1>4. CASE AppendLocalRunEvent(c)
  <2> DEFINE m == Head(up[c])
  <2>1. m \in Messages /\ m.type = "event" /\ up' \in Channel
    BY <1>4, TakeTyped DEF AppendLocalRunEvent
  <2>2. m.r \in Runs /\ m.e \in Nat /\ m.seq \in Nat
    BY <2>1, MessageFields
  <2>3. UNCHANGED <<mode, frozen, run, final, disp, lease, expired, replies>> /\ faults' = faults
    BY <1>4 DEF AppendLocalRunEvent
  <2>4. ServerOK'
    <3>1. CASE UNCHANGED <<acked, stored>>
      BY <3>1, <2>3, Same DEF server
    <3>2. CASE /\ acked' = [acked EXCEPT ![m.r] = m.seq]
               /\ stored' = [stored EXCEPT ![m.r] = Append(@, m.e)]
      <4> HIDE DEF m
      <4>1. Append(stored[m.r], m.e) \in Seq(Nat)
        BY <2>2 DEF ServerOK
      <4>2. acked' \in [Runs -> Nat] /\ stored' \in [Runs -> Seq(Nat)]
        BY <3>2, <4>1, <2>2 DEF ServerOK
      <4> QED BY <4>2, <2>3 DEF ServerOK
    <3> QED BY <1>4, <3>1, <3>2 DEF AppendLocalRunEvent
  <2> QED BY <1>4, <2>1, <2>4, Same DEF AppendLocalRunEvent, TypeInv
<1>5. CASE FinishLocalRun(c)
  <2> DEFINE m == Head(up[c])
  <2>1. m \in Messages /\ m.type = "finish" /\ up' \in Channel
    BY <1>5, TakeTyped DEF FinishLocalRun
  <2>2. m.r \in Runs /\ m.st \in TERMINAL /\ m.content \in BOOLEAN
    BY <2>1, MessageFields
  <2>3. UNCHANGED <<mode, frozen, lease, expired, acked, stored>> /\ faults' = faults
    BY <1>5 DEF FinishLocalRun
  <2>4. ServerOK'
    <3>1. CASE UNCHANGED <<run, final, disp, replies>>
      BY <3>1, <2>3, Same DEF server
    <3>2. CASE /\ Finished(m, m.st)
               /\ replies' = [replies EXCEPT ![m.r] = IF Answered(m) THEN @ + 1 ELSE @]
      <4> HIDE DEF m
      <4> QED BY <3>2, <2>2, <2>3 DEF ServerOK, Finished
    <3> QED BY <1>5, <3>1, <3>2 DEF FinishLocalRun
  <2> QED BY <1>5, <2>1, <2>4, Same DEF FinishLocalRun, TypeInv
<1>6. CASE FinishInterrupted(c)
  <2> DEFINE m == Head(up[c])
  <2>1. m \in Messages /\ m.type = "finish"
    BY <1>6, Queues DEF FinishInterrupted, Channel
  <2>2. m.r \in Runs /\ m.st \in TERMINAL /\ m.content \in BOOLEAN
    BY <2>1, MessageFields
  <2>3. ServerOK'
    <3>1. PICK st \in {"claimed", m.st} : Finished(m, st)
      BY <1>6 DEF FinishInterrupted
    <3>2. UNCHANGED <<mode, frozen, lease, expired, acked, stored, replies>>
      BY <1>6 DEF FinishInterrupted
    <3> HIDE DEF m
    <3> QED BY <3>1, <3>2, <2>2 DEF ServerOK, Finished
  <2>4. NetworkOK'
    <3>1. handlers' = {} /\ up' = [d \in Conns |-> <<>>] /\ UNCHANGED <<online, sock, conns, down>>
      BY <1>6 DEF FinishInterrupted, Stop
    <3>2. up' \in Channel
      BY <3>1 DEF Channel
    <3> QED BY <3>1, <3>2 DEF NetworkOK
  <2>5. DaemonOK' /\ faults' \in 0..MaxFaults
    BY <1>6, Same, FaultTyped DEF FinishInterrupted
  <2> QED BY <2>3, <2>4, <2>5 DEF TypeInv
<1> QED BY <1>1, <1>2, <1>3, <1>4, <1>5, <1>6 DEF Handle

\* The daemon, reading an answer or an offer.
LEMMA TypeReceive ==
  ASSUME TypeInv, Receive
  PROVE  TypeInv'
<1> TypeOK
  BY TypeInvTypeOK
<1> ServerOK /\ NetworkOK /\ DaemonOK /\ faults \in 0..MaxFaults
  BY DEF TypeInv
<1> up \in Channel /\ down \in Channel
  BY DEF NetworkOK
<1> DEFINE m == Head(down[sock])
<1>1. CASE OfferRemoteRun
  <2>1. m \in Messages /\ m.type = "offer" /\ down' \in Channel
    BY <1>1, HearTyped DEF OfferRemoteRun
  <2>2. m.r \in Runs /\ m.l \in Leases
    BY <2>1, MessageFields
  <2>3. up' \in Channel
    <3>1. [type |-> "claim", r |-> m.r, l |-> m.l] \in Messages
      BY <2>2, MessageForms
    <3>2. Report([type |-> "claim", r |-> m.r, l |-> m.l])
      BY <1>1 DEF OfferRemoteRun
    <3> QED BY <3>1, <3>2, ReportTyped
  <2>4. DaemonOK'
    <3>1. pending' = [pending EXCEPT ![m.r] = m.l] /\ UNCHANGED <<exec, journal, writing, history>>
      BY <1>1 DEF OfferRemoteRun
    <3> HIDE DEF m
    <3> QED BY <3>1, <2>2 DEF DaemonOK, history
  <2> QED BY <1>1, <2>1, <2>3, <2>4, Same DEF OfferRemoteRun, TypeInv
<1>2. CASE ClaimRemoteRun
  <2>1. m \in Messages /\ m.type = "claimed" /\ down' \in Channel
    BY <1>2, HearTyped DEF ClaimRemoteRun
  <2>2. m.r \in Runs
    BY <2>1, MessageFields
  <2>3. pending' = [pending EXCEPT ![m.r] = 0] /\ UNCHANGED <<journal, writing, overtaken>>
    BY <1>2 DEF ClaimRemoteRun
  <2>4. pending[m.r] \in Leases /\ 0 \in Leases
    BY <2>2, BoundsAssumption DEF DaemonOK, Leases
  <2> DEFINE x == [NotExecuted EXCEPT !.st = "running", !.l = pending[m.r]]
  <2>5. x \in Executions /\ x.st = "running" /\ x.events = 0
    BY <2>4, NewExecution
  <2>6. DaemonOK' /\ up' \in Channel
    <3>1. CASE /\ exec' = [exec EXCEPT ![m.r] = x]
               /\ starts' = [starts EXCEPT ![m.r] = @ + 1]
               /\ UNCHANGED up
      <4> HIDE DEF m, x
      <4> QED BY <3>1, <2>2, <2>3, <2>4, <2>5, BoundsAssumption DEF DaemonOK
    <3>2. CASE UNCHANGED <<exec, starts, up>>
      <4> HIDE DEF m
      <4> QED BY <3>2, <2>2, <2>3, <2>4 DEF DaemonOK
    <3>3. CASE /\ Report([type |-> "finish", r |-> m.r, l |-> pending[m.r], st |-> "failed", content |-> FALSE])
               /\ UNCHANGED <<exec, starts>>
      <4> HIDE DEF m
      <4>1. [type |-> "finish", r |-> m.r, l |-> pending[m.r], st |-> "failed", content |-> FALSE] \in Messages
        BY <2>2, <2>4, MessageForms DEF TERMINAL
      <4>2. up' \in Channel
        BY <3>3, <4>1, ReportTyped
      <4> QED BY <3>3, <4>2, <2>2, <2>3, <2>4 DEF DaemonOK
    <3> QED BY <1>2, <3>1, <3>2, <3>3 DEF ClaimRemoteRun
  <2> QED BY <1>2, <2>1, <2>6, Same DEF ClaimRemoteRun, TypeInv
<1>3. CASE CancelRemoteRun
  <2>1. m \in Messages /\ down' \in Channel
    BY <1>3, HearTyped DEF CancelRemoteRun
  <2>2. m.r \in Runs
    BY <2>1, MessageFields
  <2>3. Abort(m.r) \/ UNCHANGED exec
    BY <1>3 DEF CancelRemoteRun
  <2>4. UNCHANGED <<pending, journal, writing, starts, overtaken>>
    BY <1>3 DEF CancelRemoteRun, history
  <2>5. DaemonOK'
    <3> HIDE DEF m
    <3>1. exec' \in [Runs -> Executions] /\ \A r \in Runs : exec'[r].st = "running" => exec'[r].events <= MaxEvents
      <4>1. exec \in [Runs -> Executions] /\ \A r \in Runs : exec[r].st = "running" => exec[r].events <= MaxEvents
        BY DEF DaemonOK
      <4>2. exec' = exec \/ exec' = [exec EXCEPT ![m.r].st = "cancelled"]
        BY <2>3 DEF Abort
      <4> QED BY <4>1, <4>2, <2>2 DEF Executions, TERMINAL
    <3> QED BY <2>4, <3>1 DEF DaemonOK
  <2> QED BY <1>3, <2>1, <2>5, Same DEF CancelRemoteRun, TypeInv
<1> QED BY <1>1, <1>2, <1>3 DEF Receive

\* The daemon, executing.
LEMMA TypeExecute ==
  ASSUME TypeInv, NEW r \in Runs,
         \/ LocalCancel(r) \/ RenewLeases(r) \/ Emit(r) \/ Execute(r)
         \/ \E a \in writing[r] : Appended(r, a)
  PROVE  TypeInv'
<1> TypeOK
  BY TypeInvTypeOK
<1> ServerOK /\ NetworkOK /\ DaemonOK /\ faults \in 0..MaxFaults
  BY DEF TypeInv
<1> up \in Channel /\ down \in Channel
  BY DEF NetworkOK
<1>1. exec[r] \in Executions /\ exec[r].l \in Leases /\ writing[r] \subseteq Appends /\ journal[r] \in Nat
  BY DEF DaemonOK, Executions
<1>2. ASSUME StartAppend(r) PROVE writing' \in [Runs -> SUBSET Appends]
  <2>1. exec[r].events \in Nat
    BY <1>1, BoundsAssumption DEF Executions
  <2>2. [e |-> exec[r].events + 1, seq |-> NextSequence(r)] \in Appends
    BY <1>1, <2>1 DEF Appends, NextSequence
  <2> QED BY <1>2, <2>2 DEF StartAppend, DaemonOK
<1>3. CASE LocalCancel(r)
  <2>1. DaemonOK'
    BY <1>3 DEF LocalCancel, DaemonOK, Abort, Executions, TERMINAL, history
  <2> QED BY <1>3, <2>1, Same DEF LocalCancel, network, TypeInv
<1>4. CASE RenewLeases(r)
  <2>1. [type |-> "renew", r |-> r, l |-> exec[r].l] \in Messages
    BY <1>1, MessageForms
  <2>2. up' \in Channel
    BY <1>4, <2>1, ReportTyped DEF RenewLeases
  <2> QED BY <1>4, <2>2, Same DEF RenewLeases, TypeInv
<1>5. CASE Emit(r)
  <2>1. writing' \in [Runs -> SUBSET Appends]
    BY <1>2, <1>5 DEF Emit
  <2>2. exec[r].events + 1 \in 0..MaxEvents
    BY <1>1, <1>5, BoundsAssumption DEF Emit, Executions
  <2>3. /\ exec' = [exec EXCEPT ![r].events = @ + 1]
        /\ UNCHANGED <<pending, journal, starts, overtaken>>
    BY <1>5 DEF Emit, history
  <2>4. exec' \in [Runs -> Executions]
    BY <2>2, <2>3, BoundsAssumption DEF DaemonOK, Executions
  <2>5. \A q \in Runs : exec'[q].st = "running" => exec'[q].events <= MaxEvents
    BY <2>2, <2>3, BoundsAssumption DEF DaemonOK, Executions
  <2>6. DaemonOK'
    BY <2>1, <2>3, <2>4, <2>5 DEF DaemonOK
  <2> QED BY <1>5, <2>6, Same DEF Emit, network, TypeInv
<1>6. CASE EndExecution(r)
  <2>1. writing' \in [Runs -> SUBSET Appends]
    BY <1>2, <1>6 DEF EndExecution
  <2>2. exec[r].events + 1 \in 0..MaxEvents + 1
    BY <1>1, <1>6, BoundsAssumption DEF EndExecution, Executions, DaemonOK
  <2>3. PICK out \in {"ok", "error"} :
          exec' = [exec EXCEPT ![r].st = EndState(r, out), ![r].out = out, ![r].events = @ + 1]
    BY <1>6 DEF EndExecution
  <2>4. EndState(r, out) \in TERMINAL /\ EndState(r, out) # "running"
    BY DEF EndState, TERMINAL
  <2>5. exec' \in [Runs -> Executions]
    BY <2>2, <2>3, <2>4 DEF DaemonOK, Executions
  <2>6. \A q \in Runs : exec'[q].st = "running" => exec'[q].events <= MaxEvents
    BY <2>3, <2>4 DEF DaemonOK, Executions
  <2>7. DaemonOK'
    BY <1>6, <2>1, <2>5, <2>6 DEF DaemonOK, EndExecution, history
  <2> QED BY <1>6, <2>7, Same DEF EndExecution, network, TypeInv
<1>7. CASE SendFinish(r)
  <2>1. PICK content \in BOOLEAN :
          Report([type |-> "finish", r |-> r, l |-> exec[r].l, st |-> exec[r].st, content |-> content])
    BY <1>7 DEF SendFinish
  <2>2. up' \in Channel
    <3>1. [type |-> "finish", r |-> r, l |-> exec[r].l, st |-> exec[r].st, content |-> content] \in Messages
      BY <1>1, <1>7, MessageForms DEF SendFinish
    <3> QED BY <2>1, <3>1, ReportTyped
  <2>3. DaemonOK'
    BY <1>7 DEF SendFinish, DaemonOK, Executions, history
  <2> QED BY <1>7, <2>2, <2>3, Same DEF SendFinish, TypeInv
<1>8. ASSUME NEW a \in writing[r], Appended(r, a) PROVE TypeInv'
  <2>1. a \in Appends /\ a.e \in Nat /\ a.seq \in Nat
    BY <1>1 DEF Appends
  <2>2. [type |-> "event", r |-> r, l |-> exec[r].l, e |-> a.e, seq |-> a.seq] \in Messages
    BY <1>1, <2>1, MessageForms
  <2>3. up' \in Channel
    BY <1>8, <2>2, ReportTyped DEF Appended
  <2>4. DaemonOK'
    BY <1>8, <2>1 DEF Appended, DaemonOK
  <2> QED BY <1>8, <2>3, <2>4, Same DEF Appended, TypeInv
<1> QED BY <1>3, <1>4, <1>5, <1>6, <1>7, <1>8 DEF Execute

\* Users, time, crashes and connections.
LEMMA TypeEnvironment ==
  ASSUME TypeInv,
         \/ \E r \in Runs : CancelRun(r) \/ LeaseExpires(r)
         \/ \E c \in Conns : HandlerEnds(c)
         \/ UpdateAgent \/ ApiCrash \/ DaemonCrash \/ Connect \/ Close
  PROVE  TypeInv'
<1> TypeOK
  BY TypeInvTypeOK
<1> ServerOK /\ NetworkOK /\ DaemonOK /\ faults \in 0..MaxFaults
  BY DEF TypeInv
<1> up \in Channel /\ down \in Channel
  BY DEF NetworkOK
<1>1. ASSUME NEW r \in Runs, CancelRun(r) PROVE TypeInv'
  <2>1. ServerOK'
    BY <1>1 DEF CancelRun, ServerOK, TERMINAL
  <2> QED BY <1>1, <2>1, Same DEF CancelRun, network, TypeInv
<1>2. ASSUME NEW r \in Runs, LeaseExpires(r) PROVE TypeInv'
  <2>1. ServerOK'
    BY <1>2 DEF LeaseExpires, ServerOK
  <2>2. faults' \in 0..MaxFaults
    BY <1>2, FaultTyped DEF LeaseExpires
  <2> QED BY <1>2, <2>1, <2>2, Same DEF LeaseExpires, network, TypeInv
<1>3. ASSUME NEW c \in Conns, HandlerEnds(c) PROVE TypeInv'
  <2>1. faults' \in 0..MaxFaults
    BY <1>3, FaultTyped DEF HandlerEnds
  <2>2. up' \in Channel
    BY <1>3 DEF HandlerEnds, Channel
  <2>3. /\ handlers' = handlers \ {c} /\ online' = FALSE
        /\ UNCHANGED <<server, daemon, sock, conns, down>>
    BY <1>3 DEF HandlerEnds
  <2>4. online' \in BOOLEAN
    BY <2>3
  <2>5. NetworkOK'
    BY <2>2, <2>3, <2>4 DEF NetworkOK
  <2> QED BY <2>1, <2>3, <2>5, Same DEF TypeInv
<1>4. CASE ApiCrash
  <2>1. /\ handlers' = {} /\ up' = [c \in Conns |-> <<>>]
        /\ UNCHANGED <<server, daemon, online, sock, conns, down>>
    BY <1>4 DEF ApiCrash, Stop
  <2>2. up' \in Channel
    BY <2>1 DEF Channel
  <2>3. NetworkOK'
    BY <2>1, <2>2 DEF NetworkOK
  <2> QED BY <1>4, <2>1, <2>3, Same, FaultTyped DEF ApiCrash, TypeInv
<1>5. CASE DaemonCrash
  <2>1. /\ pending' = [r \in Runs |-> 0] /\ exec' = [r \in Runs |-> NotExecuted]
        /\ writing' = [r \in Runs |-> {}]
        /\ sock' = 0 /\ down' = [c \in Conns |-> <<>>]
        /\ UNCHANGED <<server, journal, starts, overtaken, handlers, online, conns, up>>
    BY <1>5 DEF DaemonCrash, history
  <2>2. 0 \in Leases /\ NotExecuted \in Executions /\ NotExecuted.st # "running"
    <3>1. 0 \in Leases
      BY BoundsAssumption DEF Leases
    <3>2. NotExecuted.st # "running"
      BY DEF NotExecuted
    <3> QED BY <3>1, <3>2, NewExecution
  <2>3. DaemonOK'
    BY <2>1, <2>2 DEF DaemonOK
  <2>4. down' \in Channel
    BY <2>1 DEF Channel
  <2>5. sock' \in 0..conns'
    BY <2>1 DEF NetworkOK
  <2>6. NetworkOK'
    BY <2>1, <2>4, <2>5 DEF NetworkOK
  <2> QED BY <1>5, <2>1, <2>3, <2>6, Same, FaultTyped DEF DaemonCrash, TypeInv
<1>6. CASE Connect
  <2>1. conns + 1 \in 0..MaxConns
    BY <1>6, BoundsAssumption DEF Connect, NetworkOK
  <2>2. /\ conns' = conns + 1 /\ sock' = conns + 1
        /\ handlers' = handlers \cup {conns + 1}
        /\ UNCHANGED <<server, daemon, up, down, faults>>
    BY <1>6 DEF Connect
  <2>3. online' \in BOOLEAN
    BY <1>6 DEF Connect
  <2>4. handlers' \subseteq 1..conns' /\ sock' \in 0..conns'
    BY <2>1, <2>2 DEF NetworkOK
  <2>5. NetworkOK'
    BY <2>1, <2>2, <2>3, <2>4 DEF NetworkOK
  <2> QED BY <2>2, <2>5, Same DEF TypeInv
<1>7. CASE Close
  <2>1. faults' \in 0..MaxFaults
    BY <1>7, FaultTyped DEF Close
  <2>2. /\ sock' = 0 /\ down' = [down EXCEPT ![sock] = <<>>]
        /\ UNCHANGED <<server, daemon, handlers, online, conns, up>>
    BY <1>7 DEF Close
  <2>3. down' \in Channel
    <3>1. down \in [Conns -> Seq(Messages)] /\ <<>> \in Seq(Messages)
      BY DEF Channel
    <3>2. down' = [down EXCEPT ![sock] = <<>>]
      BY <2>2
    <3> QED BY ONLY <3>1, <3>2 DEF Channel
  <2>4. sock' \in 0..conns'
    BY <2>2 DEF NetworkOK
  <2>5. NetworkOK'
    BY <2>2, <2>3, <2>4 DEF NetworkOK
  <2> QED BY <2>1, <2>2, <2>5, Same DEF TypeInv
<1>8. CASE UpdateAgent
  <2>1. ServerOK'
    BY <1>8 DEF UpdateAgent, ServerOK, Modes
  <2> QED BY <1>8, <2>1, Same DEF UpdateAgent, network, TypeInv
<1> QED BY <1>1, <1>2, <1>3, <1>4, <1>5, <1>6, <1>7, <1>8

LEMMA TypeStep == TypeInv /\ [Next]_vars => TypeInv'
<1> SUFFICES ASSUME TypeInv, [Next]_vars PROVE TypeInv'
  OBVIOUS
<1>1. CASE UNCHANGED vars
  BY <1>1, Same DEF vars, network, TypeInv, NetworkOK
<1>2. CASE Next
  BY <1>2, TypeServerStep, TypeReceive, TypeExecute, TypeEnvironment DEF Next
<1> QED BY <1>1, <1>2

LEMMA TypeInvariant == Spec => []TypeInv
BY TypeInit, TypeStep, PTL DEF Spec

\* The state of agent-service, of the daemon and of the connections is well typed.
THEOREM TypeCorrect == Spec => []TypeOK
BY TypeInvariant, TypeInvTypeOK, PTL

-----------------------------------------------------------------------------
(* Executed once *)

\* A positive answer to a claim of run r.
Positive(m, r) == m.type = "claimed" /\ m.ok /\ m.r = r

Granted(c, i, r) == i \in DOMAIN down[c] /\ Positive(down[c][i], r)

\* A run that is queued has not been granted; a grant that is under way is the
\* only one, and not used yet.
OnceInv ==
  \A r \in Runs :
    /\ starts[r] <= 1
    /\ run[r] = "queued" => starts[r] = 0
    /\ \A c \in Conns : \A i \in Nat : Granted(c, i, r) => run[r] # "queued" /\ starts[r] = 0
    /\ \A c, d \in Conns : \A i, j \in Nat : Granted(c, i, r) /\ Granted(d, j, r) => c = d /\ i = j

\* What most steps do to a connection.
NoGrant(c) ==
  \/ down'[c] = down[c]
  \/ down[c] # <<>> /\ down'[c] = Tail(down[c])
  \/ down'[c] = <<>>
  \/ \E m \in Messages : (m.type = "claimed" => ~m.ok) /\ down'[c] = Append(down[c], m)

\* A grant that is under way afterwards was under way before.
LEMMA NoGrantShifts ==
  ASSUME down \in Channel, NEW c \in Conns, NoGrant(c)
  PROVE  \E s \in {0, 1} : \A r \in Runs : \A i \in Nat : Granted(c, i, r)' => Granted(c, i + s, r)
<1> down[c] \in Seq(Messages)
  BY DEF Channel
<1>1. CASE down'[c] = down[c]
  BY <1>1 DEF Granted
<1>2. CASE down[c] # <<>> /\ down'[c] = Tail(down[c])
  <2>1. \A i \in DOMAIN Tail(down[c]) : i + 1 \in DOMAIN down[c] /\ Tail(down[c])[i] = down[c][i + 1]
    BY <1>2
  <2> QED BY <1>2, <2>1 DEF Granted
<1>3. CASE down'[c] = <<>>
  BY <1>3 DEF Granted
<1>4. ASSUME NEW m \in Messages, m.type = "claimed" => ~m.ok, down'[c] = Append(down[c], m)
      PROVE  \A r \in Runs : \A i \in Nat : Granted(c, i, r)' => Granted(c, i + 0, r)
  <2>1. \A i \in DOMAIN Append(down[c], m) :
          \/ i \in DOMAIN down[c] /\ Append(down[c], m)[i] = down[c][i]
          \/ Append(down[c], m)[i] = m
    OBVIOUS
  <2> QED BY <1>4, <2>1 DEF Granted, Positive
<1> QED BY <1>1, <1>2, <1>3, <1>4 DEF NoGrant

\* Steps that grant and start nothing, and put no run back into the queue.
LEMMA OnceKept ==
  ASSUME OnceInv, down \in Channel, \A c \in Conns : NoGrant(c), UNCHANGED starts,
         \A r \in Runs : run[r] # "queued" => run'[r] # "queued"
  PROVE  OnceInv'
<1>1. ASSUME NEW c \in Conns
      PROVE  \E s \in {0, 1} : \A r \in Runs : \A i \in Nat : Granted(c, i, r)' => Granted(c, i + s, r)
  BY NoGrantShifts
<1>2. ASSUME NEW r \in Runs, NEW c \in Conns, NEW i \in Nat, Granted(c, i, r)'
      PROVE  (run[r] # "queued" /\ starts[r] = 0)'
  <2>1. PICK s \in {0, 1} : Granted(c, i + s, r)
    BY <1>1, <1>2
  <2>2. i + s \in Nat
    OBVIOUS
  <2> QED BY <2>1, <2>2 DEF OnceInv
<1>3. ASSUME NEW r \in Runs, NEW c \in Conns, NEW d \in Conns, NEW i \in Nat, NEW j \in Nat,
             Granted(c, i, r)', Granted(d, j, r)'
      PROVE  c = d /\ i = j
  <2>1. PICK s \in {0, 1} : \A k \in Nat : Granted(c, k, r)' => Granted(c, k + s, r)
    BY <1>1
  <2>2. PICK t \in {0, 1} : \A k \in Nat : Granted(d, k, r)' => Granted(d, k + t, r)
    BY <1>1
  <2>3. Granted(c, i + s, r) /\ Granted(d, j + t, r) /\ i + s \in Nat /\ j + t \in Nat
    BY <1>3, <2>1, <2>2
  <2>4. c = d
    BY <2>3 DEF OnceInv
  <2>5. Granted(c, j + s, r) /\ j + s \in Nat
    BY <1>3, <2>1, <2>4
  <2>6. i + s = j + s
    BY <2>3, <2>5 DEF OnceInv
  <2> QED BY <2>4, <2>6
<1> QED BY <1>2, <1>3 DEF OnceInv

LEMMA TellNoGrant ==
  ASSUME down \in Channel, NEW c \in Conns, NEW m \in Messages, m.type = "claimed" => ~m.ok, Tell(c, m)
  PROVE  \A d \in Conns : NoGrant(d)
BY DEF Tell, NoGrant, Channel

LEMMA HearNoGrant ==
  ASSUME down \in Channel, NEW type, Hear(type)
  PROVE  \A d \in Conns : NoGrant(d)
BY DEF Hear, NoGrant, Channel

\* The answer to a claim: the only step that grants.
LEMMA OnceClaim ==
  ASSUME TypeInv, OnceInv, NEW c \in Conns, ClaimLocalRun(c)
  PROVE  OnceInv'
<1> DEFINE m == Head(up[c])
           ok == Valid(m, "offered") /\ run[m.r] = "queued"
           a == [type |-> "claimed", r |-> m.r, ok |-> ok]
<1> TypeOK /\ down \in Channel /\ ServerOK
  BY TypeInvTypeOK DEF TypeInv, NetworkOK
<1>1. m \in Messages /\ m.r \in Runs
  BY TakeTyped, MessageFields DEF ClaimLocalRun
<1>2. Tell(c, a) /\ UNCHANGED starts
  BY DEF ClaimLocalRun, daemon, history
<1>3. a.type = "claimed" /\ a.r = m.r /\ a.ok = ok
  OBVIOUS
<1>4. a \in Messages
  <2>1. \E l \in Leases : TRUE
    BY BoundsAssumption DEF Leases
  <2>2. ok \in BOOLEAN
    OBVIOUS
  <2> HIDE DEF ok, m
  <2> QED BY <2>1, <2>2, <1>1, MessageForms
<1>5. CASE ~ok
  <2>1. UNCHANGED run
    BY <1>5 DEF ClaimLocalRun
  <2>2. \A d \in Conns : NoGrant(d)
    <3> HIDE DEF a, ok
    <3> QED BY <1>2, <1>3, <1>4, <1>5, TellNoGrant
  <2> QED BY <1>2, <2>1, <2>2, OnceKept
<1>6. CASE ok
  <2>1. run[m.r] = "queued" /\ run' = [run EXCEPT ![m.r] = "running"]
    BY <1>6 DEF ClaimLocalRun
  <2>2. starts[m.r] = 0 /\ \A d \in Conns : \A i \in Nat : ~Granted(d, i, m.r)
    BY <1>1, <2>1 DEF OnceInv
  <2>3. \A d \in Conns : \A i \in Nat, r \in Runs :
          Granted(d, i, r)' => Granted(d, i, r) \/ (d = c /\ r = m.r /\ i = Len(down[c]) + 1)
    <3> HIDE DEF a, m
    <3>1. ASSUME NEW d \in Conns, NEW i \in Nat, NEW r \in Runs, Granted(d, i, r)', down'[d] # down[d]
          PROVE  Granted(d, i, r) \/ (d = c /\ r = m.r /\ i = Len(down[c]) + 1)
      <4>1. d = c /\ down'[c] = Append(down[c], a) /\ down[c] \in Seq(Messages)
        BY <1>2, <3>1 DEF Tell, Channel
      <4>2. \/ i \in DOMAIN down[c] /\ Append(down[c], a)[i] = down[c][i]
            \/ i = Len(down[c]) + 1 /\ Append(down[c], a)[i] = a
        BY <3>1, <4>1, <1>4 DEF Granted
      <4> QED BY <3>1, <4>1, <4>2, <1>3 DEF Granted, Positive
    <3> QED BY <3>1 DEF Granted
  <2>4. \A r \in Runs : r # m.r => run'[r] = run[r]
    BY <2>1 DEF ServerOK
  <2>5. run'[m.r] = "running"
    BY <1>1, <2>1 DEF ServerOK
  <2> HIDE DEF m, a, ok
  <2>6. ASSUME NEW r \in Runs
        PROVE  (/\ starts[r] <= 1
                /\ run[r] = "queued" => starts[r] = 0
                /\ \A d \in Conns : \A i \in Nat : Granted(d, i, r) => run[r] # "queued" /\ starts[r] = 0
                /\ \A d, e \in Conns : \A i, j \in Nat :
                     Granted(d, i, r) /\ Granted(e, j, r) => d = e /\ i = j)'
    <3>1. CASE r = m.r
      <4>1. \A d \in Conns : \A i \in Nat : Granted(d, i, r)' => d = c /\ i = Len(down[c]) + 1
        BY <2>2, <2>3, <3>1
      <4> QED BY <1>2, <2>2, <2>5, <3>1, <4>1
    <3>2. CASE r # m.r
      <4>1. \A d \in Conns : \A i \in Nat : Granted(d, i, r)' => Granted(d, i, r)
        BY <2>3, <3>2
      <4> QED BY <1>2, <2>4, <3>2, <4>1 DEF OnceInv
    <3> QED BY <3>1, <3>2
  <2> QED BY <2>6 DEF OnceInv
<1> QED BY <1>5, <1>6

\* The start of an execution: it uses up the only grant of its run.
LEMMA OnceStart ==
  ASSUME TypeInv, OnceInv, ClaimRemoteRun
  PROVE  OnceInv'
<1> DEFINE m == Head(down[sock])
<1> TypeOK /\ down \in Channel /\ DaemonOK
  BY TypeInvTypeOK DEF TypeInv, NetworkOK
<1>1. m \in Messages /\ m.type = "claimed" /\ m.r \in Runs
  BY HearTyped, MessageFields DEF ClaimRemoteRun
<1>2. Hear("claimed") /\ UNCHANGED run
  BY DEF ClaimRemoteRun, server
<1>3. \A d \in Conns : NoGrant(d)
  BY <1>2, HearNoGrant
<1>4. CASE UNCHANGED starts
  BY <1>2, <1>3, <1>4, OnceKept
<1>5. CASE Wanted(m) /\ starts' = [starts EXCEPT ![m.r] = @ + 1]
  <2>1. sock \in Conns /\ down[sock] \in Seq(Messages) /\ down[sock] # <<>>
    BY <1>2, SockConn DEF Hear, Channel
  <2>2. Granted(sock, 1, m.r)
    <3>1. 1 \in DOMAIN down[sock] /\ down[sock][1] = m
      BY <2>1
    <3> QED BY <3>1, <1>1, <1>5 DEF Granted, Positive, Wanted
  <2>3. run[m.r] # "queued" /\ starts[m.r] = 0
    BY <1>1, <2>1, <2>2 DEF OnceInv
  <2>4. \A d \in Conns : \A i \in Nat, r \in Runs : Granted(d, i, r)' =>
          i # 0 /\ (IF d = sock THEN Granted(sock, i + 1, r) ELSE Granted(d, i, r))
    <3>1. /\ down'[sock] = Tail(down[sock])
          /\ \A d \in Conns : d # sock => down'[d] = down[d]
      BY <1>2, <2>1 DEF Hear, Channel
    <3>2. \A i \in DOMAIN Tail(down[sock]) :
            i # 0 /\ i + 1 \in DOMAIN down[sock] /\ Tail(down[sock])[i] = down[sock][i + 1]
      BY <2>1
    <3>3. \A d \in Conns : 0 \notin DOMAIN down[d]
      BY DEF Channel
    <3> HIDE DEF m
    <3> QED BY <3>1, <3>2, <3>3 DEF Granted
  <2> HIDE DEF m
  <2> PICK x \in Runs : x = m.r
    BY <1>1
  <2>5. \A d \in Conns : \A i \in Nat : ~Granted(d, i, x)'
    <3>1. SUFFICES ASSUME NEW d \in Conns, NEW i \in Nat, Granted(d, i, x)' PROVE FALSE
      OBVIOUS
    <3>2. i # 0 /\ (IF d = sock THEN Granted(sock, i + 1, x) ELSE Granted(d, i, x))
      BY <3>1, <2>4
    <3>3. CASE d = sock
      <4>1. Granted(sock, i + 1, x) /\ i + 1 \in Nat
        BY <3>2, <3>3
      <4>2. i + 1 = 1
        BY <4>1, <2>1, <2>2 DEF OnceInv
      <4> QED BY <4>2, <3>2
    <3>4. CASE d # sock
      BY <3>2, <3>4, <2>1, <2>2 DEF OnceInv
    <3> QED BY <3>3, <3>4
  <2>6. \A r \in Runs : r # x => starts'[r] = starts[r]
    BY <1>5 DEF DaemonOK
  <2>7. starts'[x] = 1
    BY <1>1, <1>5, <2>3 DEF DaemonOK
  <2>8. ASSUME NEW r \in Runs
        PROVE  (/\ starts[r] <= 1
                /\ run[r] = "queued" => starts[r] = 0
                /\ \A d \in Conns : \A i \in Nat : Granted(d, i, r) => run[r] # "queued" /\ starts[r] = 0
                /\ \A d, e \in Conns : \A i, j \in Nat :
                     Granted(d, i, r) /\ Granted(e, j, r) => d = e /\ i = j)'
    <3>1. CASE r = x
      BY <3>1, <1>2, <2>3, <2>5, <2>7
    <3>2. CASE r # x
      <4>1. ASSUME NEW d \in Conns, NEW i \in Nat, Granted(d, i, r)'
            PROVE  run[r] # "queued" /\ starts[r] = 0
        <5>1. Granted(d, i + 1, r) \/ Granted(d, i, r)
          BY <4>1, <2>4
        <5> QED BY <5>1 DEF OnceInv
      <4>2. ASSUME NEW d \in Conns, NEW e \in Conns, NEW i \in Nat, NEW j \in Nat,
                   Granted(d, i, r)', Granted(e, j, r)'
            PROVE  d = e /\ i = j
        <5>1. /\ IF d = sock THEN Granted(sock, i + 1, r) ELSE Granted(d, i, r)
              /\ IF e = sock THEN Granted(sock, j + 1, r) ELSE Granted(e, j, r)
          BY <4>2, <2>4
        <5>2. i + 1 \in Nat /\ j + 1 \in Nat
          OBVIOUS
        <5>3. d = e
          BY <5>1, <5>2, <2>1 DEF OnceInv
        <5>4. CASE d = sock
          <6>1. Granted(sock, i + 1, r) /\ Granted(sock, j + 1, r)
            BY <5>1, <5>3, <5>4
          <6>2. i + 1 = j + 1
            BY <6>1, <5>2, <2>1 DEF OnceInv
          <6> QED BY <5>3, <6>2
        <5>5. CASE d # sock
          BY <5>1, <5>3, <5>5 DEF OnceInv
        <5> QED BY <5>4, <5>5
      <4> QED BY <4>1, <4>2, <3>2, <1>2, <2>6 DEF OnceInv
    <3> QED BY <3>1, <3>2
  <2> QED BY <2>8 DEF OnceInv
<1> QED BY <1>4, <1>5 DEF ClaimRemoteRun

LEMMA OnceInit == Init => OnceInv
BY DEF Init, OnceInv, Granted, TERMINAL

\* Nothing puts a run back into the queue.
Dequeued == \A r \in Runs : run[r] # "queued" => run'[r] # "queued"

LEMMA OnceServerStep ==
  ASSUME TypeInv, OnceInv, NEW c \in Conns,
         \/ Handle(c) \/ FinishInterrupted(c) \/ \E r \in Runs : Offer(c, r)
  PROVE  OnceInv'
<1> TypeOK /\ down \in Channel /\ ServerOK
  BY TypeInvTypeOK DEF TypeInv, NetworkOK
<1>1. (\A d \in Conns : NoGrant(d)) /\ UNCHANGED starts /\ Dequeued => OnceInv'
  BY OnceKept DEF Dequeued
<1>2. UNCHANGED down => \A d \in Conns : NoGrant(d)
  BY DEF NoGrant
<1>3. ASSUME NEW r \in Runs, Offer(c, r) PROVE OnceInv'
  <2>1. [type |-> "offer", r |-> r, l |-> lease[r] + 1] \in Messages
    <3>1. lease[r] + 1 \in Leases
      BY <1>3, BoundsAssumption DEF Offer, Leases, ServerOK
    <3> QED BY <3>1, MessageForms
  <2>2. \A d \in Conns : NoGrant(d)
    BY <1>2, <1>3, <2>1, TellNoGrant DEF Offer, TellOffer
  <2> QED BY <1>1, <1>3, <2>2 DEF Offer, daemon, history, Dequeued
<1>4. CASE ClaimLocalRun(c)
  BY <1>4, OnceClaim
<1>5. CASE RenewLocalLease(c)
  <2>1. Head(up[c]).r \in Runs
    BY <1>5, TakeTyped, MessageFields DEF RenewLocalLease
  <2>2. [type |-> "cancelled", r |-> Head(up[c]).r] \in Messages
    <3>1. \E l \in Leases : TRUE
      BY BoundsAssumption DEF Leases
    <3> QED BY <2>1, <3>1, MessageForms
  <2>3. \A d \in Conns : NoGrant(d)
    BY <1>2, <1>5, <2>2, TellNoGrant DEF RenewLocalLease
  <2> QED BY <1>1, <1>5, <2>3 DEF RenewLocalLease, daemon, history, server, Dequeued
<1>6. CASE AppendLocalRunEvent(c)
  BY <1>1, <1>2, <1>6 DEF AppendLocalRunEvent, daemon, history, Dequeued
<1>7. CASE FinishLocalRun(c)
  <2>1. Head(up[c]).st # "queued"
    BY <1>7, TakeTyped, MessageFields DEF FinishLocalRun, TERMINAL
  <2>2. UNCHANGED run \/ run' = [run EXCEPT ![Head(up[c]).r] = Head(up[c]).st]
    BY <1>7 DEF FinishLocalRun, Finished
  <2>3. Dequeued
    BY <2>1, <2>2 DEF Dequeued, ServerOK
  <2> QED BY <1>1, <1>2, <1>7, <2>3 DEF FinishLocalRun, daemon, history
<1>8. CASE FinishInterrupted(c)
  <2>1. Head(up[c]) \in Messages
    BY <1>8, Queues DEF FinishInterrupted, TypeOK
  <2>2. Head(up[c]).st # "queued"
    BY <1>8, <2>1, MessageFields DEF FinishInterrupted, TERMINAL
  <2>3. Dequeued
    BY <1>8, <2>2 DEF FinishInterrupted, Finished, Dequeued, ServerOK
  <2> QED BY <1>1, <1>2, <1>8, <2>3 DEF FinishInterrupted, daemon, history
<1> QED BY <1>3, <1>4, <1>5, <1>6, <1>7, <1>8 DEF Handle

LEMMA OnceStep == TypeInv /\ OnceInv /\ [Next]_vars => OnceInv'
<1> SUFFICES ASSUME TypeInv, OnceInv, [Next]_vars PROVE OnceInv'
  OBVIOUS
<1> TypeOK /\ down \in Channel /\ ServerOK
  BY TypeInvTypeOK DEF TypeInv, NetworkOK
<1>1. (\A d \in Conns : NoGrant(d)) /\ UNCHANGED starts /\ Dequeued => OnceInv'
  BY OnceKept DEF Dequeued
<1>2. UNCHANGED down => \A d \in Conns : NoGrant(d)
  BY DEF NoGrant
<1>3. UNCHANGED run => Dequeued
  BY DEF Dequeued
<1>4. CASE UNCHANGED vars
  BY <1>1, <1>2, <1>3, <1>4 DEF vars, server, daemon, history, network
<1>5. ASSUME NEW c \in Conns,
             \/ Handle(c) \/ FinishInterrupted(c) \/ \E r \in Runs : Offer(c, r)
      PROVE  OnceInv'
  BY <1>5, OnceServerStep
<1>6. ASSUME NEW c \in Conns, HandlerEnds(c) PROVE OnceInv'
  BY <1>1, <1>2, <1>3, <1>6 DEF HandlerEnds, server, daemon, history
<1>7. ASSUME NEW r \in Runs, CancelRun(r) PROVE OnceInv'
  <2>1. Dequeued
    BY <1>7 DEF CancelRun, Dequeued, ServerOK
  <2> QED BY <1>1, <1>2, <1>7, <2>1 DEF CancelRun, daemon, history, network
<1>8. ASSUME NEW r \in Runs,
             \/ LeaseExpires(r) \/ LocalCancel(r) \/ RenewLeases(r)
             \/ Emit(r) \/ Execute(r) \/ \E a \in writing[r] : Appended(r, a)
      PROVE  OnceInv'
  <2>1. UNCHANGED <<down, starts, run>>
    BY <1>8 DEF LeaseExpires, LocalCancel, RenewLeases, Emit, Execute, EndExecution, SendFinish,
                Appended, server, daemon, history, network
  <2> QED BY <1>1, <1>2, <1>3, <2>1
<1>9. CASE OfferRemoteRun \/ CancelRemoteRun
  <2>1. \A d \in Conns : NoGrant(d)
    BY <1>9, HearNoGrant DEF OfferRemoteRun, CancelRemoteRun
  <2> QED BY <1>1, <1>3, <1>9, <2>1 DEF OfferRemoteRun, CancelRemoteRun, server, history
<1>10. CASE ClaimRemoteRun
  BY <1>10, OnceStart
<1>11. CASE ApiCrash \/ Connect \/ UpdateAgent
  BY <1>1, <1>2, <1>3, <1>11 DEF ApiCrash, Connect, UpdateAgent, server, daemon, history, network
<1>12. CASE DaemonCrash \/ Close
  <2>1. \A d \in Conns : NoGrant(d)
    BY <1>12 DEF DaemonCrash, Close, NoGrant, Channel
  <2> QED BY <1>1, <1>3, <1>12, <2>1 DEF DaemonCrash, Close, server, daemon, history
<1> QED
  BY <1>4, <1>5, <1>6, <1>7, <1>8, <1>9, <1>10, <1>11, <1>12 DEF Next, Receive

\* A run is started once, whatever is offered, claimed, lost, expired or restarted:
\* claim_local_run grants a queued run once.
THEOREM StartedAtMostOnce == Spec => []StartedOnce
<1>1. OnceInv => StartedOnce
  BY DEF OnceInv, StartedOnce
<1> QED BY <1>1, TypeInvariant, OnceInit, OnceStep, PTL DEF Spec

-----------------------------------------------------------------------------
(* The end of a run *)

\* Run r leaves queued or running for st with content f, and its replies become k
\* more.
Moves(r, st, f, k) ==
  /\ run[r] \in {"queued", "running"}
  /\ run' = [run EXCEPT ![r] = st] /\ final' = [final EXCEPT ![r] = f]
  /\ replies' = [replies EXCEPT ![r] = @ + k]
  /\ k = 1 => st = "completed" /\ f
  /\ st = "completed" /\ f /\ faults' = 0 => k = 1

RunMoves ==
  /\ faults' = 0 => faults = 0
  /\ \/ UNCHANGED <<run, final, replies>>
     \/ \E r \in Runs, st \in {"running"} \cup TERMINAL, f \in BOOLEAN, k \in {0, 1} : Moves(r, st, f, k)

LEMMA StepsMoveRuns == TypeInv /\ [Next]_vars => RunMoves
<1> SUFFICES ASSUME TypeInv, [Next]_vars PROVE RunMoves
  OBVIOUS
<1> TypeOK /\ ServerOK /\ faults \in Nat
  BY TypeInvTypeOK DEF TypeInv
<1>1. Fault => faults' # 0
  BY DEF Fault
<1>2. ASSUME NEW r \in Runs
      PROVE  /\ replies[r] + 0 = replies[r] /\ replies = [replies EXCEPT ![r] = @ + 0]
             /\ final[r] \in BOOLEAN /\ final = [final EXCEPT ![r] = final[r]]
  BY DEF ServerOK
<1>3. UNCHANGED <<run, final, replies>> /\ (faults' = 0 => faults = 0) => RunMoves
  BY DEF RunMoves
<1>4. CASE UNCHANGED vars
  BY <1>3, <1>4 DEF vars, server
<1>5. ASSUME NEW c \in Conns, ClaimLocalRun(c) PROVE RunMoves
  <2> DEFINE m == Head(up[c])
  <2>1. m.r \in Runs
    BY <1>5, TakeTyped, MessageFields DEF ClaimLocalRun
  <2>2. UNCHANGED <<final, replies, faults>>
    BY <1>5 DEF ClaimLocalRun
  <2>3. UNCHANGED run \/ (run[m.r] = "queued" /\ run' = [run EXCEPT ![m.r] = "running"])
    BY <1>5 DEF ClaimLocalRun
  <2> HIDE DEF m
  <2>4. CASE run[m.r] = "queued" /\ run' = [run EXCEPT ![m.r] = "running"]
    <3>1. Moves(m.r, "running", final[m.r], 0)
      BY <2>1, <2>2, <2>4, <1>2 DEF Moves
    <3> QED BY <1>2, <2>1, <2>2, <3>1 DEF RunMoves
  <2> QED BY <1>3, <2>2, <2>3, <2>4
<1>6. ASSUME NEW c \in Conns, FinishLocalRun(c) PROVE RunMoves
  <2> DEFINE m == Head(up[c])
  <2>1. m.r \in Runs /\ m.st \in TERMINAL /\ m.content \in BOOLEAN
    BY <1>6, TakeTyped, MessageFields DEF FinishLocalRun
  <2>2. UNCHANGED faults
    BY <1>6 DEF FinishLocalRun
  <2>3. \/ UNCHANGED <<run, final, replies>>
        \/ /\ run[m.r] = "running" /\ Finished(m, m.st)
           /\ replies' = [replies EXCEPT ![m.r] = IF Answered(m) THEN @ + 1 ELSE @]
    BY <1>6 DEF FinishLocalRun, Finishable
  <2> HIDE DEF m
  <2>4. CASE /\ run[m.r] = "running" /\ Finished(m, m.st)
             /\ replies' = [replies EXCEPT ![m.r] = IF Answered(m) THEN @ + 1 ELSE @]
    <3>1. CASE Answered(m)
      <4>1. Moves(m.r, m.st, m.content, 1)
        BY <2>4, <3>1 DEF Moves, Finished, Answered
      <4> QED BY <2>1, <2>2, <4>1 DEF RunMoves
    <3>2. CASE ~Answered(m)
      <4>1. UNCHANGED replies
        BY <2>4, <2>1, <3>2 DEF ServerOK
      <4>2. replies' = [replies EXCEPT ![m.r] = @ + 0]
        BY <2>1, <4>1, <1>2
      <4>3. run[m.r] = "running" /\ run' = [run EXCEPT ![m.r] = m.st] /\ final' = [final EXCEPT ![m.r] = m.content]
        BY <2>4 DEF Finished
      <4>4. Moves(m.r, m.st, m.content, 0)
        BY <3>2, <4>2, <4>3 DEF Moves, Answered
      <4> QED BY <2>1, <2>2, <4>4 DEF RunMoves
    <3> QED BY <3>1, <3>2
  <2> QED BY <1>3, <2>2, <2>3, <2>4
<1>7. ASSUME NEW c \in Conns, FinishInterrupted(c) PROVE RunMoves
  <2> DEFINE m == Head(up[c])
  <2>1. m \in Messages /\ m.type = "finish"
    BY <1>7, Queues DEF FinishInterrupted, TypeOK
  <2>2. m.r \in Runs /\ m.st \in TERMINAL /\ m.content \in BOOLEAN
    BY <2>1, MessageFields
  <2>3. /\ run[m.r] = "running" /\ run' = [run EXCEPT ![m.r] = m.st]
        /\ final' = [final EXCEPT ![m.r] = m.content]
        /\ UNCHANGED replies /\ faults' # 0
    BY <1>7, <1>1 DEF FinishInterrupted, Finishable, Finished
  <2> HIDE DEF m
  <2>4. Moves(m.r, m.st, m.content, 0)
    BY <2>2, <2>3, <1>2 DEF Moves
  <2> QED BY <2>2, <2>3, <2>4 DEF RunMoves
<1>8. ASSUME NEW r \in Runs, CancelRun(r) PROVE RunMoves
  <2>1. Moves(r, "cancelled", final[r], 0) /\ UNCHANGED faults
    BY <1>8, <1>2 DEF CancelRun, Moves
  <2> QED BY <1>2, <2>1 DEF RunMoves, TERMINAL
<1>9. ASSUME NEW c \in Conns,
             \/ RenewLocalLease(c) \/ AppendLocalRunEvent(c) \/ HandlerEnds(c)
             \/ \E r \in Runs : Offer(c, r)
      PROVE  RunMoves
  BY <1>9, <1>1, <1>3 DEF RenewLocalLease, AppendLocalRunEvent, HandlerEnds, Offer, server
<1>10. ASSUME NEW r \in Runs,
              \/ LeaseExpires(r) \/ LocalCancel(r) \/ RenewLeases(r)
              \/ Emit(r) \/ Execute(r) \/ \E a \in writing[r] : Appended(r, a)
       PROVE  RunMoves
  BY <1>10, <1>1, <1>3 DEF LeaseExpires, LocalCancel, RenewLeases, Emit, Execute, EndExecution,
       SendFinish, Appended, server
<1>11. CASE UpdateAgent \/ Receive \/ ApiCrash \/ DaemonCrash \/ Connect \/ Close
  BY <1>11, <1>1, <1>3 DEF UpdateAgent, Receive, OfferRemoteRun, ClaimRemoteRun, CancelRemoteRun, ApiCrash,
       DaemonCrash, Connect, Close, server
<1> QED
  BY <1>4, <1>5, <1>6, <1>7, <1>8, <1>9, <1>10, <1>11 DEF Next, Handle

\* A run that is completed, failed or cancelled stays so, whatever late messages
\* and interrupted handlers do.
THEOREM EndedRunsStay == Spec => EndsOnce
<1>1. TypeInv /\ [Next]_vars => [\A r \in Runs : run[r] \in TERMINAL => run'[r] = run[r]]_vars
  BY StepsMoveRuns DEF RunMoves, Moves, TERMINAL, TypeInv, ServerOK
<1> QED BY <1>1, TypeInvariant, PTL DEF Spec, EndsOnce

\* A completed run with a content has exactly one reply unless a fault came in
\* between; a run that completed without a content, or did not complete, has none.
THEOREM OneReplyEach == Spec => []OneReply
<1>1. Init => OneReply
  BY DEF Init, OneReply
<1>2. TypeInv /\ OneReply /\ [Next]_vars => OneReply'
  <2> SUFFICES ASSUME TypeInv, OneReply, [Next]_vars PROVE OneReply'
    OBVIOUS
  <2>1. (faults' = 0 => faults = 0) /\ ServerOK
    BY StepsMoveRuns DEF RunMoves, TypeInv
  <2>2. CASE UNCHANGED <<run, final, replies>>
    BY <2>1, <2>2 DEF OneReply
  <2>3. ASSUME NEW r \in Runs, NEW st \in {"running"} \cup TERMINAL, NEW f \in BOOLEAN, NEW k \in {0, 1},
               Moves(r, st, f, k)
        PROVE  OneReply'
    <3>1. replies[r] = 0
      BY <2>1, <2>3 DEF Moves, OneReply, ServerOK
    <3>2. run'[r] = st /\ final'[r] = f /\ replies'[r] = k
      BY <2>1, <2>3, <3>1 DEF Moves, ServerOK
    <3>3. \A q \in Runs : q # r => run'[q] = run[q] /\ final'[q] = final[q] /\ replies'[q] = replies[q]
      BY <2>1, <2>3 DEF Moves, ServerOK
    <3> QED BY <2>1, <2>3, <3>2, <3>3 DEF Moves, OneReply
  <2> QED BY <2>2, <2>3, StepsMoveRuns DEF RunMoves
<1> QED BY <1>1, <1>2, TypeInvariant, PTL DEF Spec

-----------------------------------------------------------------------------
(* The order of the stored events *)

EventOf(m, r) == m.type = "event" /\ m.r = r

\* N events of run r were emitted so far, and f gives the sequence of each. What is
\* being written, under way or stored agrees with f, and the sequences of the
\* stored events increase.
Numbered(r, N, f) ==
  /\ exec[r].st # "none" => N = exec[r].events
  /\ starts[r] = 0 => N = 0 /\ exec[r].st = "none"
  /\ \A a \in writing[r] : a.e \in 1..N /\ a.seq = f[a.e]
  /\ \A c \in Conns : \A i \in DOMAIN up[c] :
       EventOf(up[c][i], r) => up[c][i].e \in 1..N /\ up[c][i].seq = f[up[c][i].e]
  /\ \A i \in DOMAIN stored[r] : stored[r][i] \in 1..N /\ f[stored[r][i]] <= acked[r]
  /\ \A i, j \in DOMAIN stored[r] : i < j => f[stored[r][i]] < f[stored[r][j]]

\* No append has overtaken another: later events have no smaller sequences, and
\* the journal is at most one behind them.
InTurn(r, N, f) ==
  /\ \A d, e \in 1..N : d <= e => f[d] <= f[e]
  /\ \A e \in 1..N : f[e] <= journal[r] + 1
  /\ \A a \in writing[r] : journal[r] <= a.seq
  /\ \A a \in writing[r] : \A e \in 1..N : f[e] <= a.seq + 1

OrderOf(r) ==
  \E N \in Nat, f \in [Nat -> Nat] : Numbered(r, N, f) /\ (~overtaken[r] => InTurn(r, N, f))

OrderInv == \A r \in Runs : OrderOf(r)

LEMMA AppendMessages ==
  ASSUME NEW q \in Seq(Messages), NEW x \in Messages
  PROVE  \A i \in DOMAIN Append(q, x) :
           (i \in DOMAIN q /\ Append(q, x)[i] = q[i]) \/ Append(q, x)[i] = x
OBVIOUS

LEMMA AppendNats ==
  ASSUME NEW q \in Seq(Nat), NEW x \in Nat, NEW i \in DOMAIN Append(q, x)
  PROVE  /\ i \in Nat
         /\ \/ i \in DOMAIN q /\ i <= Len(q) /\ Append(q, x)[i] = q[i]
            \/ i = Len(q) + 1 /\ Append(q, x)[i] = x
OBVIOUS

LEMMA OrderInit == Init => OrderInv
<1> SUFFICES ASSUME Init, NEW r \in Runs PROVE OrderOf(r)
  BY DEF OrderInv
<1> DEFINE f == [n \in Nat |-> 0]
<1>1. /\ exec[r].st = "none" /\ writing[r] = {} /\ stored[r] = <<>>
      /\ \A c \in Conns : up[c] = <<>>
  BY DEF Init, NotExecuted
<1>2. Numbered(r, 0, f)
  BY <1>1 DEF Numbered
<1>3. InTurn(r, 0, f)
  BY <1>1 DEF InTurn
<1>4. f \in [Nat -> Nat] /\ 0 \in Nat
  OBVIOUS
<1> QED BY <1>2, <1>3, <1>4 DEF OrderOf

\* Every event of run r that is under way afterwards was under way before.
NoNewEvent(r) ==
  \A c \in Conns : \A i \in DOMAIN up'[c] :
    EventOf(up'[c][i], r) => \E j \in DOMAIN up[c] : up'[c][i] = up[c][j]

\* Steps that emit, finish and store no event of run r.
LEMMA OrderKept ==
  ASSUME NEW r \in Runs, OrderOf(r), NoNewEvent(r),
         exec'[r].st # "none" => exec[r].st # "none" /\ exec'[r].events = exec[r].events,
         starts'[r] = 0 => starts[r] = 0,
         writing'[r] \subseteq writing[r], stored'[r] = stored[r], acked'[r] = acked[r],
         journal'[r] = journal[r], overtaken'[r] = overtaken[r]
  PROVE  OrderOf(r)'
<1>1. PICK N \in Nat, f \in [Nat -> Nat] : Numbered(r, N, f) /\ (~overtaken[r] => InTurn(r, N, f))
  BY DEF OrderOf
<1>2. \A c \in Conns : \A i \in DOMAIN up'[c] :
        EventOf(up'[c][i], r) => up'[c][i].e \in 1..N /\ up'[c][i].seq = f[up'[c][i].e]
  <2> SUFFICES ASSUME NEW c \in Conns, NEW i \in DOMAIN up'[c], EventOf(up'[c][i], r)
               PROVE  up'[c][i].e \in 1..N /\ up'[c][i].seq = f[up'[c][i].e]
    OBVIOUS
  <2>1. PICK j \in DOMAIN up[c] : up'[c][i] = up[c][j]
    BY DEF NoNewEvent
  <2> QED BY <1>1, <2>1 DEF Numbered
<1>3. Numbered(r, N, f)'
  BY <1>1, <1>2 DEF Numbered
<1>4. ~overtaken'[r] => InTurn(r, N, f)'
  BY <1>1 DEF InTurn
<1> QED BY <1>3, <1>4 DEF OrderOf

\* A queue that is unchanged, emptied, shortened, or longer by another message.
LEMMA FewerEvents ==
  ASSUME up \in Channel, NEW r \in Runs,
         \A c \in Conns :
           \/ up'[c] = up[c] \/ up'[c] = <<>>
           \/ up[c] # <<>> /\ up'[c] = Tail(up[c])
           \/ \E m \in Messages : ~EventOf(m, r) /\ up'[c] = Append(up[c], m)
  PROVE  NoNewEvent(r)
<1> SUFFICES ASSUME NEW c \in Conns, NEW i \in DOMAIN up'[c], EventOf(up'[c][i], r)
             PROVE  \E j \in DOMAIN up[c] : up'[c][i] = up[c][j]
  BY DEF NoNewEvent
<1> up[c] \in Seq(Messages)
  BY DEF Channel
<1>1. CASE up'[c] = up[c] \/ up'[c] = <<>>
  BY <1>1
<1>2. CASE up[c] # <<>> /\ up'[c] = Tail(up[c])
  <2>1. i + 1 \in DOMAIN up[c] /\ up'[c][i] = up[c][i + 1]
    BY <1>2
  <2> QED BY <2>1
<1>3. ASSUME NEW m \in Messages, ~EventOf(m, r), up'[c] = Append(up[c], m)
      PROVE  \E j \in DOMAIN up[c] : up'[c][i] = up[c][j]
  <2>1. \/ i \in DOMAIN up[c] /\ Append(up[c], m)[i] = up[c][i]
        \/ Append(up[c], m)[i] = m
    BY <1>3
  <2> QED BY <1>3, <2>1
<1> QED BY <1>1, <1>2, <1>3

LEMMA TakeNoNewEvent ==
  ASSUME up \in Channel, NEW c \in Conns, NEW type, Take(c, type)
  PROVE  \A r \in Runs : NoNewEvent(r)
<1> SUFFICES ASSUME NEW r \in Runs PROVE NoNewEvent(r)
  OBVIOUS
<1>1. \A d \in Conns : up'[d] = up[d] \/ (up[d] # <<>> /\ up'[d] = Tail(up[d]))
  BY DEF Take, Channel
<1> QED BY <1>1, FewerEvents

LEMMA ReportNoNewEvent ==
  ASSUME up \in Channel, NEW m \in Messages, Report(m), NEW r \in Runs, ~EventOf(m, r)
  PROVE  NoNewEvent(r)
<1>1. \A d \in Conns : up'[d] = up[d] \/ up'[d] = Append(up[d], m)
  BY DEF Report, Channel
<1> QED BY <1>1, FewerEvents

\* An event is numbered when its append begins.
LEMMA OrderEmit ==
  ASSUME TypeInv, OrderInv, NEW r \in Runs, Emit(r) \/ EndExecution(r)
  PROVE  OrderOf(r)'
<1> DaemonOK /\ ServerOK
  BY DEF TypeInv
<1>1. PICK N \in Nat, f \in [Nat -> Nat] : Numbered(r, N, f) /\ (~overtaken[r] => InTurn(r, N, f))
  BY DEF OrderInv, OrderOf
<1> DEFINE n == N + 1
           a == [e |-> n, seq |-> journal[r] + 1]
<1>2. journal[r] \in Nat /\ exec[r].st = "running" /\ N = exec[r].events /\ starts[r] # 0
  BY <1>1 DEF DaemonOK, Emit, EndExecution, Numbered
<1>3. /\ writing' = [writing EXCEPT ![r] = @ \cup {a}]
      /\ UNCHANGED <<up, stored, acked, journal, starts, overtaken>>
  BY <1>2 DEF Emit, EndExecution, StartAppend, NextSequence, server, network, history
<1>4. exec'[r].events = n
  <2>1. CASE Emit(r)
    BY <2>1, <1>2 DEF Emit, DaemonOK, Executions
  <2>2. CASE EndExecution(r)
    <3>1. PICK out \in {"ok", "error"} :
            exec' = [exec EXCEPT ![r].st = EndState(r, out), ![r].out = out, ![r].events = @ + 1]
      BY <2>2 DEF EndExecution
    <3> QED BY <3>1, <1>2 DEF DaemonOK, Executions
  <2> QED BY <2>1, <2>2
<1>5. PICK g \in [Nat -> Nat] : g[n] = journal[r] + 1 /\ \A e \in 1..N : g[e] = f[e] /\ e \in 1..n
  <2>1. [f EXCEPT ![n] = journal[r] + 1] \in [Nat -> Nat]
    BY <1>2
  <2>2. /\ [f EXCEPT ![n] = journal[r] + 1][n] = journal[r] + 1
        /\ \A e \in 1..N : [f EXCEPT ![n] = journal[r] + 1][e] = f[e] /\ e \in 1..n
    OBVIOUS
  <2> QED BY <2>1, <2>2
<1>6. writing'[r] = writing[r] \cup {a} /\ a.e = n /\ a.seq = journal[r] + 1 /\ n \in 1..n
  BY <1>3, <1>5 DEF DaemonOK
<1>7. \A e \in 1..n : e = n \/ e \in 1..N
  OBVIOUS
<1>10. n \in Nat
  OBVIOUS
<1> HIDE DEF n, a
<1>8. Numbered(r, n, g)'
  <2>1. \A x \in writing'[r] : x.e \in 1..n /\ x.seq = g[x.e]
    BY <1>1, <1>5, <1>6 DEF Numbered
  <2>2. \A c \in Conns : \A i \in DOMAIN up'[c] :
          EventOf(up'[c][i], r) => up'[c][i].e \in 1..n /\ up'[c][i].seq = g[up'[c][i].e]
    BY <1>1, <1>3, <1>5 DEF Numbered
  <2>3. /\ \A i \in DOMAIN stored'[r] : stored'[r][i] \in 1..n /\ g[stored'[r][i]] <= acked'[r]
        /\ \A i, j \in DOMAIN stored'[r] : i < j => g[stored'[r][i]] < g[stored'[r][j]]
    BY <1>1, <1>3, <1>5 DEF Numbered
  <2>4. (exec[r].st # "none" => n = exec[r].events)' /\ starts'[r] # 0
    BY <1>2, <1>3, <1>4
  <2> QED BY <2>1, <2>2, <2>3, <2>4 DEF Numbered
<1>9. ASSUME ~overtaken'[r] PROVE InTurn(r, n, g)'
  <2>1. InTurn(r, N, f)
    BY <1>1, <1>3, <1>9
  <2>2. \A e \in 1..n : g[e] \in Nat /\ g[e] <= journal[r] + 1
    BY <2>1, <1>2, <1>5, <1>7 DEF InTurn
  <2>3. \A d, e \in 1..n : d <= e => g[d] <= g[e]
    <3> SUFFICES ASSUME NEW d \in 1..n, NEW e \in 1..n, d <= e PROVE g[d] <= g[e]
      OBVIOUS
    <3>1. CASE e = n
      BY <3>1, <2>2, <1>5
    <3>2. CASE e # n
      <4>1. e \in 1..N /\ d \in 1..N
        BY <3>2, <1>7
      <4> QED BY <4>1, <2>1, <1>5 DEF InTurn
    <3> QED BY <3>1, <3>2
  <2>4. \A x \in writing'[r] : journal[r] <= x.seq
    BY <2>1, <1>2, <1>6 DEF InTurn
  <2>5. \A x \in writing'[r] : \A e \in 1..n : g[e] <= x.seq + 1
    <3> SUFFICES ASSUME NEW x \in writing'[r], NEW e \in 1..n PROVE g[e] <= x.seq + 1
      OBVIOUS
    <3>1. x.seq \in Nat /\ journal[r] <= x.seq
      BY <2>4, <1>2, <1>6 DEF DaemonOK, Appends
    <3> QED BY <3>1, <2>2, <1>2
  <2>6. journal'[r] = journal[r]
    BY <1>3
  <2> QED BY <2>2, <2>3, <2>4, <2>5, <2>6 DEF InTurn
<1> QED BY <1>8, <1>9, <1>10 DEF OrderOf

\* An append ends: the journal follows it, and the event is sent.
LEMMA OrderAppended ==
  ASSUME TypeInv, OrderInv, NEW r \in Runs, NEW a \in writing[r], Appended(r, a)
  PROVE  OrderOf(r)'
<1> DaemonOK /\ ServerOK /\ up \in Channel /\ TypeOK
  BY TypeInvTypeOK DEF TypeInv, NetworkOK
<1>1. PICK N \in Nat, f \in [Nat -> Nat] : Numbered(r, N, f) /\ (~overtaken[r] => InTurn(r, N, f))
  BY DEF OrderInv, OrderOf
<1> DEFINE m == [type |-> "event", r |-> r, l |-> exec[r].l, e |-> a.e, seq |-> a.seq]
<1>2. a.e \in 1..N /\ a.e \in Nat /\ a.seq \in Nat /\ a.seq = f[a.e]
  BY <1>1 DEF Numbered, DaemonOK, Appends
<1>3. /\ writing' = [writing EXCEPT ![r] = @ \ {a}] /\ journal' = [journal EXCEPT ![r] = a.seq]
      /\ overtaken' = [overtaken EXCEPT ![r] = @ \/ \E b \in writing[r] : b.e < a.e]
      /\ UNCHANGED up \/ Report(m)
      /\ UNCHANGED <<stored, acked, exec, starts>>
  BY DEF Appended, server
<1>4. writing'[r] = writing[r] \ {a} /\ journal'[r] = a.seq
  BY <1>3 DEF DaemonOK
<1>5. \A c \in Conns : \A i \in DOMAIN up'[c] :
        (i \in DOMAIN up[c] /\ up'[c][i] = up[c][i]) \/ up'[c][i] = m
  <2> SUFFICES ASSUME NEW c \in Conns, NEW i \in DOMAIN up'[c]
               PROVE  (i \in DOMAIN up[c] /\ up'[c][i] = up[c][i]) \/ up'[c][i] = m
    OBVIOUS
  <2>1. m \in Messages
    BY <1>2, MessageForms DEF DaemonOK, Executions
  <2> HIDE DEF m
  <2>2. up[c] \in Seq(Messages)
    BY DEF Channel
  <2>3. up'[c] = up[c] \/ up'[c] = Append(up[c], m)
    BY <1>3 DEF Report, Channel
  <2>4. \A j \in DOMAIN Append(up[c], m) :
          (j \in DOMAIN up[c] /\ Append(up[c], m)[j] = up[c][j]) \/ Append(up[c], m)[j] = m
    BY <2>1, <2>2, AppendMessages
  <2> QED BY <2>3, <2>4
<1>6. Numbered(r, N, f)'
  <2>1. m.e = a.e /\ m.seq = a.seq
    OBVIOUS
  <2> HIDE DEF m
  <2>2. \A c \in Conns : \A i \in DOMAIN up'[c] :
          EventOf(up'[c][i], r) => up'[c][i].e \in 1..N /\ up'[c][i].seq = f[up'[c][i].e]
    BY <1>1, <1>2, <1>5, <2>1 DEF Numbered
  <2>3. \A x \in writing'[r] : x.e \in 1..N /\ x.seq = f[x.e]
    BY <1>1, <1>4 DEF Numbered
  <2> QED BY <1>1, <1>3, <2>2, <2>3 DEF Numbered
<1>7. ASSUME ~overtaken'[r] PROVE InTurn(r, N, f)'
  <2>1. ~overtaken[r] /\ \A b \in writing[r] : ~(b.e < a.e)
    BY <1>3, <1>7 DEF DaemonOK
  <2>2. InTurn(r, N, f)
    BY <1>1, <2>1
  <2>3. \A b \in writing'[r] : a.seq <= b.seq
    <3> SUFFICES ASSUME NEW b \in writing[r] PROVE a.seq <= b.seq
      BY <1>4
    <3>1. b.e \in 1..N /\ b.seq = f[b.e] /\ a.e <= b.e
      BY <1>1, <1>2, <2>1 DEF Numbered
    <3> QED BY <1>2, <2>2, <3>1 DEF InTurn
  <2>4. \A e \in 1..N : f[e] <= a.seq + 1
    BY <2>2 DEF InTurn
  <2> QED BY <1>4, <2>2, <2>3, <2>4 DEF InTurn
<1> QED BY <1>6, <1>7 DEF OrderOf

LEMMA IncreasingAppend ==
  ASSUME NEW N \in Nat, NEW f \in [Nat -> Nat], NEW q \in Seq(Nat), NEW x \in 1..N, NEW k \in Nat, k < f[x],
         \A i \in DOMAIN q : q[i] \in 1..N /\ f[q[i]] <= k,
         \A i, j \in DOMAIN q : i < j => f[q[i]] < f[q[j]]
  PROVE  /\ \A i \in DOMAIN Append(q, x) : Append(q, x)[i] \in 1..N /\ f[Append(q, x)[i]] <= f[x]
         /\ \A i, j \in DOMAIN Append(q, x) : i < j => f[Append(q, x)[i]] < f[Append(q, x)[j]]
<1> DEFINE z == Append(q, x)
<1>1. \A i \in DOMAIN z : i \in Nat /\ (\/ i \in DOMAIN q /\ i <= Len(q) /\ z[i] = q[i]
                                        \/ i = Len(q) + 1 /\ z[i] = x)
  <2>1. x \in Nat
    OBVIOUS
  <2> QED BY <2>1, AppendNats
<1>2. Len(q) \in Nat
  OBVIOUS
<1> HIDE DEF z
<1>3. f[x] \in Nat
  OBVIOUS
<1>4. ASSUME NEW i \in DOMAIN q PROVE f[q[i]] < f[x] /\ f[q[i]] \in Nat
  <2>1. PICK y \in 1..N : y = q[i]
    OBVIOUS
  <2>2. f[y] \in Nat /\ f[y] <= k
    BY <2>1
  <2>3. f[y] < f[x]
    BY <2>2, <1>3
  <2> QED BY <2>1, <2>2, <2>3
<1>5. ASSUME NEW i \in DOMAIN z PROVE z[i] \in 1..N /\ f[z[i]] <= f[x]
  <2>1. CASE i \in DOMAIN q /\ z[i] = q[i]
    <3>1. f[q[i]] < f[x] /\ f[q[i]] \in Nat /\ q[i] \in 1..N
      BY <2>1, <1>4
    <3> QED BY <3>1, <2>1, <1>3
  <2>2. CASE z[i] = x
    BY <2>2, <1>3
  <2> QED BY <1>1, <2>1, <2>2
<1>6. ASSUME NEW i \in DOMAIN z, NEW j \in DOMAIN z, i < j PROVE f[z[i]] < f[z[j]]
  <2>1. i \in DOMAIN q /\ z[i] = q[i]
    <3>1. i \in Nat /\ j \in Nat /\ (j <= Len(q) \/ j = Len(q) + 1)
      BY <1>1, Zenon
    <3>2. i # Len(q) + 1
      <4> HIDE DEF z
      <4>1. PICK n \in Nat : n = Len(q)
        BY <1>2
      <4>2. PICK a \in Nat : a = i
        BY <3>1, Zenon
      <4>3. PICK b \in Nat : b = j
        BY <3>1, Zenon
      <4>4. a < b /\ (b <= n \/ b = n + 1)
        BY <3>1, <4>1, <4>2, <4>3, <1>6, Zenon
      <4>5. a # n + 1
        BY <4>4
      <4> QED BY <4>1, <4>2, <4>5, Zenon
    <3> QED BY <1>1, <3>2, Zenon
  <2>2. CASE j \in DOMAIN q /\ z[j] = q[j]
    BY <2>1, <2>2, <1>6
  <2>3. CASE z[j] = x
    BY <2>1, <2>3, <1>4
  <2> QED BY <1>1, <2>2, <2>3
<1> QED BY <1>5, <1>6 DEF z

\* The API stores an event that is newer than all it has stored.
LEMMA OrderStored ==
  ASSUME TypeInv, OrderInv, NEW c \in Conns, AppendLocalRunEvent(c)
  PROVE  OrderInv'
<1> DEFINE m == Head(up[c])
<1> TypeOK /\ ServerOK /\ up \in Channel
  BY TypeInvTypeOK DEF TypeInv, NetworkOK
<1>1. Take(c, "event") /\ UNCHANGED <<writing, journal, exec, starts, overtaken>>
  BY DEF AppendLocalRunEvent, daemon, history
<1>2. m \in Messages /\ m.type = "event" /\ m.r \in Runs /\ m.e \in Nat /\ m.seq \in Nat
  BY <1>1, TakeTyped, MessageFields
<1>3. \A r \in Runs : NoNewEvent(r)
  BY <1>1, TakeNoNewEvent
<1>4. ASSUME NEW r \in Runs, stored'[r] = stored[r], acked'[r] = acked[r] PROVE OrderOf(r)'
  BY <1>1, <1>3, <1>4, OrderKept DEF OrderInv
<1>5. CASE UNCHANGED <<acked, stored>>
  BY <1>4, <1>5 DEF OrderInv
<1>6. CASE FreshEvent(m) /\ acked' = [acked EXCEPT ![m.r] = m.seq]
           /\ stored' = [stored EXCEPT ![m.r] = Append(@, m.e)]
  <2>1. PICK r \in Runs : r = m.r
    BY <1>2
  <2>2. acked'[r] = m.seq /\ stored'[r] = Append(stored[r], m.e) /\ acked[r] < m.seq
    BY <1>6, <2>1 DEF ServerOK, FreshEvent
  <2>3. PICK N \in Nat, f \in [Nat -> Nat] : Numbered(r, N, f) /\ (~overtaken[r] => InTurn(r, N, f))
    BY DEF OrderInv, OrderOf
  <2>4. m.e \in 1..N /\ m.seq = f[m.e]
    <3>1. up[c] \in Seq(Messages) /\ up[c] # <<>>
      BY <1>1 DEF Take, Channel
    <3>2. 1 \in DOMAIN up[c] /\ up[c][1] = m
      BY <3>1
    <3> HIDE DEF m
    <3> QED BY <1>2, <2>1, <2>3, <3>2 DEF Numbered, EventOf
  <2> HIDE DEF m
  <2>5. \A d \in Conns : \A i \in DOMAIN up'[d] :
          EventOf(up'[d][i], r) => up'[d][i].e \in 1..N /\ up'[d][i].seq = f[up'[d][i].e]
    <3> SUFFICES ASSUME NEW d \in Conns, NEW i \in DOMAIN up'[d], EventOf(up'[d][i], r)
                 PROVE  up'[d][i].e \in 1..N /\ up'[d][i].seq = f[up'[d][i].e]
      OBVIOUS
    <3>1. PICK j \in DOMAIN up[d] : up'[d][i] = up[d][j]
      BY <1>3 DEF NoNewEvent
    <3> QED BY <2>3, <3>1 DEF Numbered
  <2>6. stored[r] \in Seq(Nat) /\ acked[r] \in Nat
    BY DEF ServerOK
  <2>7. acked[r] < f[m.e] /\ f[m.e] \in Nat
    BY <2>2, <2>4
  <2>8. /\ \A i \in DOMAIN stored[r] : stored[r][i] \in 1..N /\ f[stored[r][i]] <= acked[r]
        /\ \A i, j \in DOMAIN stored[r] : i < j => f[stored[r][i]] < f[stored[r][j]]
    BY <2>3 DEF Numbered
  <2>9. \A i \in DOMAIN stored'[r] : stored'[r][i] \in 1..N /\ f[stored'[r][i]] <= acked'[r]
    BY <2>2, <2>4, <2>6, <2>7, <2>8, IncreasingAppend
  <2>10. \A i, j \in DOMAIN stored'[r] : i < j => f[stored'[r][i]] < f[stored'[r][j]]
    BY <2>2, <2>4, <2>6, <2>7, <2>8, IncreasingAppend
  <2>11. Numbered(r, N, f)'
    BY <1>1, <2>3, <2>5, <2>9, <2>10 DEF Numbered
  <2>12. ~overtaken'[r] => InTurn(r, N, f)'
    BY <1>1, <2>3 DEF InTurn
  <2>13. OrderOf(r)'
    BY <2>11, <2>12 DEF OrderOf
  <2>14. \A q \in Runs : q # r => stored'[q] = stored[q] /\ acked'[q] = acked[q]
    BY <1>6, <2>1 DEF ServerOK
  <2> QED BY <1>4, <2>13, <2>14 DEF OrderInv
<1> QED BY <1>5, <1>6 DEF AppendLocalRunEvent

\* Steps that leave the executions, the journal and the stored events alone.
LEMMA OrderStill ==
  ASSUME OrderInv, \A r \in Runs : NoNewEvent(r),
         UNCHANGED <<exec, starts, writing, stored, acked, journal, overtaken>>
  PROVE  OrderInv'
<1> SUFFICES ASSUME NEW r \in Runs PROVE OrderOf(r)'
  BY DEF OrderInv
<1> OrderOf(r) /\ NoNewEvent(r)
  BY DEF OrderInv
<1> QED BY OrderKept

LEMMA OrderServerStep ==
  ASSUME TypeInv, OrderInv, NEW c \in Conns,
         \/ Handle(c) \/ FinishInterrupted(c) \/ HandlerEnds(c) \/ \E r \in Runs : Offer(c, r)
  PROVE  OrderInv'
<1> up \in Channel
  BY DEF TypeInv, NetworkOK
<1>1. ASSUME \A d \in Conns : up'[d] = up[d] \/ up'[d] = <<>> PROVE \A r \in Runs : NoNewEvent(r)
  BY <1>1, FewerEvents
<1>2. CASE ClaimLocalRun(c) \/ RenewLocalLease(c) \/ FinishLocalRun(c)
  <2>1. \E type : Take(c, type)
    BY <1>2 DEF ClaimLocalRun, RenewLocalLease, FinishLocalRun
  <2>2. UNCHANGED <<exec, starts, writing, stored, acked, journal, overtaken>>
    BY <1>2 DEF ClaimLocalRun, RenewLocalLease, FinishLocalRun, daemon, history, server
  <2> QED BY <2>1, <2>2, TakeNoNewEvent, OrderStill
<1>3. CASE AppendLocalRunEvent(c)
  BY <1>3, OrderStored
<1>4. CASE FinishInterrupted(c) \/ HandlerEnds(c)
  <2>1. \A d \in Conns : up'[d] = up[d] \/ up'[d] = <<>>
    BY <1>4 DEF FinishInterrupted, HandlerEnds, Stop, Channel
  <2>2. UNCHANGED <<exec, starts, writing, stored, acked, journal, overtaken>>
    BY <1>4 DEF FinishInterrupted, HandlerEnds, daemon, history, server
  <2> QED BY <1>1, <2>1, <2>2, OrderStill
<1>5. ASSUME NEW r \in Runs, Offer(c, r) PROVE OrderInv'
  <2>1. UNCHANGED <<up, exec, starts, writing, stored, acked, journal, overtaken>>
    BY <1>5 DEF Offer, daemon, history
  <2> QED BY <1>1, <2>1, OrderStill
<1> QED BY <1>2, <1>3, <1>4, <1>5 DEF Handle

LEMMA OrderReceive ==
  ASSUME TypeInv, OnceInv', OrderInv, Receive
  PROVE  OrderInv'
<1> TypeOK /\ DaemonOK /\ up \in Channel
  BY TypeInvTypeOK DEF TypeInv, NetworkOK
<1> DEFINE m == Head(down[sock])
<1>1. CASE OfferRemoteRun
  <2>1. m \in Messages /\ m.type = "offer"
    BY <1>1, HearTyped DEF OfferRemoteRun
  <2>2. [type |-> "claim", r |-> m.r, l |-> m.l] \in Messages
    BY <2>1, MessageFields, MessageForms
  <2>3. Report([type |-> "claim", r |-> m.r, l |-> m.l])
    BY <1>1 DEF OfferRemoteRun
  <2>4. \A r \in Runs : NoNewEvent(r)
    BY <2>2, <2>3, ReportNoNewEvent DEF EventOf
  <2> QED BY <1>1, <2>4, OrderStill DEF OfferRemoteRun, history, server
<1>2. CASE ClaimRemoteRun
  <2>1. m \in Messages /\ m.r \in Runs
    BY <1>2, HearTyped, MessageFields DEF ClaimRemoteRun
  <2>2. UNCHANGED <<writing, stored, acked, journal, overtaken>>
    BY <1>2 DEF ClaimRemoteRun, server
  <2>3. pending[m.r] \in Leases
    BY <2>1 DEF DaemonOK
  <2>4. CASE UNCHANGED <<exec, starts, up>>
    <3>1. \A r \in Runs : NoNewEvent(r)
      BY <2>4, FewerEvents
    <3> QED BY <2>2, <2>4, <3>1, OrderStill
  <2>5. CASE /\ Report([type |-> "finish", r |-> m.r, l |-> pending[m.r], st |-> "failed", content |-> FALSE])
             /\ UNCHANGED <<exec, starts>>
    <3>1. [type |-> "finish", r |-> m.r, l |-> pending[m.r], st |-> "failed", content |-> FALSE] \in Messages
      BY <2>1, <2>3, MessageForms DEF TERMINAL
    <3>2. \A r \in Runs : NoNewEvent(r)
      BY <2>5, <3>1, ReportNoNewEvent DEF EventOf
    <3> QED BY <2>2, <2>5, <3>2, OrderStill
  <2>6. CASE /\ exec' = [exec EXCEPT ![m.r] = [NotExecuted EXCEPT !.st = "running", !.l = pending[m.r]]]
             /\ starts' = [starts EXCEPT ![m.r] = @ + 1]
             /\ UNCHANGED up
    <3>1. PICK p \in Runs : p = m.r
      BY <2>1
    <3> HIDE DEF m
    <3>2. starts'[p] = starts[p] + 1 /\ exec'[p].events = 0
      <4>1. exec'[p] = [NotExecuted EXCEPT !.st = "running", !.l = pending[p]]
        BY <2>6, <3>1 DEF DaemonOK
      <4>2. [NotExecuted EXCEPT !.st = "running", !.l = pending[p]].events = 0
        BY <2>3, <3>1, NewExecution
      <4> QED BY <2>6, <3>1, <4>1, <4>2 DEF DaemonOK
    <3>3. starts[p] = 0
      BY <3>2 DEF OnceInv, DaemonOK
    <3>4. PICK N \in Nat, f \in [Nat -> Nat] : Numbered(p, N, f) /\ (~overtaken[p] => InTurn(p, N, f))
      BY DEF OrderInv, OrderOf
    <3>5. N = 0 /\ starts'[p] # 0
      BY <3>2, <3>3, <3>4 DEF Numbered
    <3>6. Numbered(p, N, f)' /\ (~overtaken'[p] => InTurn(p, N, f)')
      BY <2>2, <2>6, <3>2, <3>4, <3>5 DEF Numbered, InTurn
    <3>7. OrderOf(p)'
      BY <3>6 DEF OrderOf
    <3>8. ASSUME NEW r \in Runs, r # p PROVE OrderOf(r)'
      <4>1. exec'[r] = exec[r] /\ starts'[r] = starts[r]
        BY <2>6, <3>1, <3>8 DEF DaemonOK
      <4>2. NoNewEvent(r) /\ OrderOf(r)
        BY <2>6, FewerEvents DEF OrderInv
      <4> QED BY <2>2, <4>1, <4>2, OrderKept
    <3> QED BY <3>7, <3>8 DEF OrderInv
  <2> QED BY <1>2, <2>4, <2>5, <2>6 DEF ClaimRemoteRun
<1>3. CASE CancelRemoteRun
  <2>1. m.r \in Runs
    BY <1>3, HearTyped, MessageFields DEF CancelRemoteRun
  <2>2. UNCHANGED <<up, starts, writing, stored, acked, journal, overtaken>>
    BY <1>3 DEF CancelRemoteRun, server, history
  <2>3. UNCHANGED exec \/ (exec[m.r].st # "none" /\ Abort(m.r))
    BY <1>3 DEF CancelRemoteRun
  <2> HIDE DEF m
  <2>4. \A r \in Runs :
          exec'[r].st # "none" => exec[r].st # "none" /\ exec'[r].events = exec[r].events
    BY <2>1, <2>3 DEF Abort, DaemonOK, Executions
  <2>5. ASSUME NEW r \in Runs PROVE OrderOf(r)'
    <3>1. NoNewEvent(r) /\ OrderOf(r)
      BY <2>2, FewerEvents DEF OrderInv
    <3> QED BY <2>2, <2>4, <3>1, OrderKept
  <2> QED BY <2>5 DEF OrderInv
<1> QED BY <1>1, <1>2, <1>3 DEF Receive

LEMMA OrderExecute ==
  ASSUME TypeInv, OrderInv, NEW r \in Runs,
         \/ LocalCancel(r) \/ RenewLeases(r) \/ Emit(r) \/ Execute(r)
         \/ \E a \in writing[r] : Appended(r, a)
  PROVE  OrderInv'
<1> TypeOK /\ DaemonOK /\ up \in Channel
  BY TypeInvTypeOK DEF TypeInv, NetworkOK
<1>1. CASE LocalCancel(r)
  <2>1. UNCHANGED <<up, starts, writing, stored, acked, journal, overtaken>>
    BY <1>1 DEF LocalCancel, server, network, history
  <2>2. \A q \in Runs :
          exec'[q].st # "none" => exec[q].st # "none" /\ exec'[q].events = exec[q].events
    BY <1>1 DEF LocalCancel, Abort, DaemonOK, Executions
  <2>3. ASSUME NEW q \in Runs PROVE OrderOf(q)'
    <3>1. NoNewEvent(q) /\ OrderOf(q)
      BY <2>1, FewerEvents DEF OrderInv
    <3> QED BY <2>1, <2>2, <3>1, OrderKept
  <2> QED BY <2>3 DEF OrderInv
<1>2. CASE RenewLeases(r)
  <2>1. exec[r].l \in Leases
    BY DEF DaemonOK, Executions
  <2>2. [type |-> "renew", r |-> r, l |-> exec[r].l] \in Messages
    BY <2>1, MessageForms
  <2>3. \A q \in Runs : NoNewEvent(q)
    BY <1>2, <2>2, ReportNoNewEvent DEF RenewLeases, EventOf
  <2> QED BY <1>2, <2>3, OrderStill DEF RenewLeases, server, daemon, history
<1>3. CASE SendFinish(r)
  <2>1. exec[r].l \in Leases /\ exec[r].st \in TERMINAL
    BY <1>3 DEF SendFinish, DaemonOK, Executions
  <2>2. PICK content \in BOOLEAN :
          Report([type |-> "finish", r |-> r, l |-> exec[r].l, st |-> exec[r].st, content |-> content])
    BY <1>3 DEF SendFinish
  <2>3. UNCHANGED <<starts, writing, stored, acked, journal, overtaken>>
    BY <1>3 DEF SendFinish, server, history
  <2>4. \A q \in Runs :
          exec'[q].st # "none" => exec[q].st # "none" /\ exec'[q].events = exec[q].events
    BY <1>3, <2>1 DEF SendFinish, DaemonOK, Executions, TERMINAL
  <2>5. ASSUME NEW q \in Runs PROVE OrderOf(q)'
    <3>1. NoNewEvent(q) /\ OrderOf(q)
      <4>1. [type |-> "finish", r |-> r, l |-> exec[r].l, st |-> exec[r].st, content |-> content] \in Messages
        BY <2>1, MessageForms
      <4> QED BY <4>1, <2>2, ReportNoNewEvent DEF OrderInv, EventOf
    <3> QED BY <2>3, <2>4, <3>1, OrderKept
  <2> QED BY <2>5 DEF OrderInv
<1>4. CASE Emit(r) \/ EndExecution(r)
  <2>1. UNCHANGED <<up, starts, stored, acked, journal, overtaken>>
    BY <1>4 DEF Emit, EndExecution, server, network, history
  <2>2. \A q \in Runs : q # r => exec'[q] = exec[q] /\ writing'[q] = writing[q]
    BY <1>4 DEF Emit, EndExecution, StartAppend, DaemonOK
  <2>3. ASSUME NEW q \in Runs, q # r PROVE OrderOf(q)'
    <3>1. NoNewEvent(q) /\ OrderOf(q)
      BY <2>1, FewerEvents DEF OrderInv
    <3> QED BY <2>1, <2>2, <2>3, <3>1, OrderKept
  <2> QED BY <1>4, <2>3, OrderEmit DEF OrderInv
<1>5. ASSUME NEW a \in writing[r], Appended(r, a) PROVE OrderInv'
  <2>1. UNCHANGED <<exec, starts, stored, acked>>
    BY <1>5 DEF Appended, server
  <2>2. \A q \in Runs : q # r =>
          writing'[q] = writing[q] /\ journal'[q] = journal[q] /\ overtaken'[q] = overtaken[q]
    BY <1>5 DEF Appended, DaemonOK
  <2>3. a.e \in Nat /\ a.seq \in Nat /\ exec[r].l \in Leases
    BY DEF DaemonOK, Appends, Executions
  <2>4. [type |-> "event", r |-> r, l |-> exec[r].l, e |-> a.e, seq |-> a.seq] \in Messages
    BY <2>3, MessageForms
  <2>5. ASSUME NEW q \in Runs, q # r PROVE OrderOf(q)'
    <3>1. CASE UNCHANGED up
      <4>1. NoNewEvent(q) /\ OrderOf(q)
        BY <3>1, FewerEvents DEF OrderInv
      <4> QED BY <2>1, <2>2, <2>5, <4>1, OrderKept
    <3>2. CASE Report([type |-> "event", r |-> r, l |-> exec[r].l, e |-> a.e, seq |-> a.seq])
      <4>1. NoNewEvent(q) /\ OrderOf(q)
        BY <3>2, <2>4, <2>5, ReportNoNewEvent DEF OrderInv, EventOf
      <4> QED BY <2>1, <2>2, <2>5, <4>1, OrderKept
    <3> QED BY <1>5, <3>1, <3>2 DEF Appended
  <2> QED BY <1>5, <2>5, OrderAppended DEF OrderInv
<1> QED BY <1>1, <1>2, <1>3, <1>4, <1>5 DEF Execute

LEMMA OrderStep == TypeInv /\ OnceInv' /\ OrderInv /\ [Next]_vars => OrderInv'
<1> SUFFICES ASSUME TypeInv, OnceInv', OrderInv, [Next]_vars PROVE OrderInv'
  OBVIOUS
<1> up \in Channel
  BY DEF TypeInv, NetworkOK
<1>1. CASE \/ UNCHANGED vars \/ UpdateAgent \/ Connect \/ Close \/ ApiCrash
           \/ \E r \in Runs : CancelRun(r) \/ LeaseExpires(r)
  <2>1. \A d \in Conns : up'[d] = up[d] \/ up'[d] = <<>>
    BY <1>1 DEF vars, UpdateAgent, Connect, Close, ApiCrash, Stop, CancelRun, LeaseExpires, network
  <2>2. UNCHANGED <<exec, starts, writing, stored, acked, journal, overtaken>>
    BY <1>1 DEF vars, UpdateAgent, Connect, Close, ApiCrash, CancelRun, LeaseExpires, server, daemon, history
  <2>3. \A r \in Runs : NoNewEvent(r)
    BY <2>1, FewerEvents
  <2> QED BY <2>2, <2>3, OrderStill
<1>2. CASE DaemonCrash
  <2>1. UNCHANGED <<up, starts, stored, acked, journal, overtaken>>
    BY <1>2 DEF DaemonCrash, server, history
  <2>2. \A r \in Runs : exec'[r].st = "none" /\ writing'[r] = {}
    BY <1>2 DEF DaemonCrash, NotExecuted
  <2>3. ASSUME NEW r \in Runs PROVE OrderOf(r)'
    <3>1. NoNewEvent(r) /\ OrderOf(r)
      BY <2>1, FewerEvents DEF OrderInv
    <3> QED BY <2>1, <2>2, <3>1, OrderKept
  <2> QED BY <2>3 DEF OrderInv
<1>3. CASE Receive
  BY <1>3, OrderReceive
<1>4. ASSUME NEW c \in Conns,
             \/ Handle(c) \/ FinishInterrupted(c) \/ HandlerEnds(c) \/ \E r \in Runs : Offer(c, r)
      PROVE  OrderInv'
  BY <1>4, OrderServerStep
<1>5. ASSUME NEW r \in Runs,
             \/ LocalCancel(r) \/ RenewLeases(r) \/ Emit(r) \/ Execute(r)
             \/ \E a \in writing[r] : Appended(r, a)
      PROVE  OrderInv'
  BY <1>5, OrderExecute
<1> QED BY <1>1, <1>2, <1>3, <1>4, <1>5, Zenon DEF Next

LEMMA OrderedStored == TypeInv /\ OrderInv => StoredInOrder
<1> SUFFICES ASSUME TypeInv, OrderInv, NEW r \in Runs,
                    NEW i \in DOMAIN stored[r], NEW j \in DOMAIN stored[r], i < j
             PROVE  IF overtaken[r] THEN stored[r][i] # stored[r][j] ELSE stored[r][i] < stored[r][j]
  BY DEF StoredInOrder
<1>1. PICK N \in Nat, f \in [Nat -> Nat] : Numbered(r, N, f) /\ (~overtaken[r] => InTurn(r, N, f))
  BY DEF OrderInv, OrderOf
<1>2. PICK d \in 1..N, e \in 1..N : d = stored[r][i] /\ e = stored[r][j] /\ f[d] < f[e]
  BY <1>1 DEF Numbered
<1>3. f[d] \in Nat /\ f[e] \in Nat
  OBVIOUS
<1>4. d # e
  BY <1>2, <1>3
<1>5. ~overtaken[r] => d < e
  BY <1>1, <1>2, <1>3 DEF InTurn
<1> QED BY <1>2, <1>4, <1>5

\* The events of a run that append_local_run_event has stored are events of its
\* execution, none twice, and in the order of emission unless one append to the
\* journal overtook another.
THEOREM EventsStoredInOrder == Spec => []StoredInOrder
<1>1. TypeInv /\ OnceInv /\ OnceInv' /\ OrderInv /\ [Next]_vars => OrderInv'
  BY OrderStep
<1>2. Spec => []OnceInv
  BY TypeInvariant, OnceInit, OnceStep, PTL DEF Spec
<1> QED BY <1>1, <1>2, TypeInvariant, OrderInit, OrderedStored, PTL DEF Spec
-----------------------------------------------------------------------------
(* The lease of an execution *)

IsOffer(m, r) == m.type = "offer" /\ m.r = r
IsClaim(m, r) == m.type = "claim" /\ m.r = r

\* Run r is not offered any more.
Held(r) == disp[r] \notin {"pending", "offered"}

\* The daemon has heard every offer of run r, and knows the last or none.
Settled(r) ==
  /\ pending[r] \in {0, lease[r]}
  /\ \A c \in Conns : \A i \in DOMAIN down[c] : ~IsOffer(down[c][i], r)

\* Offers of a run arrive in order; who claims the last one has heard them all.
\* An answer names no lease, but a positive one is about the last offer.
OffersOK(r) ==
  /\ \A c \in Conns : \A i \in DOMAIN down[c] : IsOffer(down[c][i], r) => down[c][i].l <= lease[r]
  /\ \A c \in Conns : \A i, j \in DOMAIN down[c] :
       i < j /\ IsOffer(down[c][i], r) /\ IsOffer(down[c][j], r) => down[c][i].l < down[c][j].l
  /\ \A c \in Conns : \A i \in DOMAIN up[c] : IsClaim(up[c][i], r) =>
       up[c][i].l <= lease[r] /\ (up[c][i].l = lease[r] => Settled(r))
  /\ \A c \in Conns : \A i \in DOMAIN down[c] : Positive(down[c][i], r) => Settled(r) /\ Held(r)

OneSocket == \A c \in Conns : c # sock => down[c] = <<>>

OffersInv == OneSocket /\ \A r \in Runs : OffersOK(r)

\* What is under way to the daemon about r was under way before, but for an
\* answer that is in order.
HeardOf(c, r) ==
  \E s \in {0, 1} : \A i \in DOMAIN down'[c] :
    \/ i + s \in DOMAIN down[c] /\ down'[c][i] = down[c][i + s]
    \/ ~IsOffer(down'[c][i], r) /\ (Positive(down'[c][i], r) => Settled(r) /\ Held(r)')

NoNewClaim(r) ==
  \A c \in Conns : \A i \in DOMAIN up'[c] :
    IsClaim(up'[c][i], r) => \E j \in DOMAIN up[c] : up[c][j] = up'[c][i]

\* A step that offers and claims nothing of run r.
LEMMA OffersKept ==
  ASSUME down' \in Channel, NEW r \in Runs, OffersOK(r), \A c \in Conns : HeardOf(c, r), NoNewClaim(r),
         lease'[r] = lease[r], pending'[r] \in {0, pending[r]}, Held(r) => Held(r)'
  PROVE  OffersOK(r)'
<1>1. ASSUME NEW c \in Conns, NEW i \in DOMAIN down'[c], IsOffer(down'[c][i], r)
      PROVE  \E j \in DOMAIN down[c] : down'[c][i] = down[c][j]
  BY <1>1 DEF HeardOf
<1>2. Settled(r) => Settled(r)'
  BY <1>1 DEF Settled
<1>3. ASSUME NEW c \in Conns, NEW i \in DOMAIN down'[c], IsOffer(down'[c][i], r)
      PROVE  down'[c][i].l <= lease'[r]
  BY <1>1, <1>3 DEF OffersOK
<1>4. ASSUME NEW c \in Conns, NEW i \in DOMAIN down'[c], NEW j \in DOMAIN down'[c],
             i < j, IsOffer(down'[c][i], r), IsOffer(down'[c][j], r)
      PROVE  down'[c][i].l < down'[c][j].l
  <2>1. PICK s \in {0, 1} : \A k \in {i, j} : k + s \in DOMAIN down[c] /\ down'[c][k] = down[c][k + s]
    BY <1>4 DEF HeardOf
  <2>2. i \in Int /\ j \in Int
    BY <1>4 DEF Channel
  <2>3. i + s < j + s
    BY <1>4, <2>2
  <2> QED BY <1>4, <2>1, <2>3 DEF OffersOK
<1>5. ASSUME NEW c \in Conns, NEW i \in DOMAIN up'[c], IsClaim(up'[c][i], r)
      PROVE  up'[c][i].l <= lease'[r] /\ (up'[c][i].l = lease'[r] => Settled(r)')
  <2>1. PICK j \in DOMAIN up[c] : up[c][j] = up'[c][i]
    BY <1>5 DEF NoNewClaim
  <2> QED BY <1>2, <1>5, <2>1 DEF OffersOK
<1>6. ASSUME NEW c \in Conns, NEW i \in DOMAIN down'[c], Positive(down'[c][i], r)
      PROVE  Settled(r)' /\ Held(r)'
  <2>1. Settled(r) /\ Held(r)'
    BY <1>6 DEF HeardOf, OffersOK
  <2> QED BY <1>2, <2>1
<1> QED BY <1>3, <1>4, <1>5, <1>6 DEF OffersOK, IsOffer, IsClaim, Positive

LEMMA HeardFewer ==
  ASSUME down \in Channel, NEW r \in Runs, NEW c \in Conns,
         \/ down'[c] = down[c] \/ down'[c] = <<>>
         \/ down[c] # <<>> /\ down'[c] = Tail(down[c])
  PROVE  HeardOf(c, r)
<1> down[c] \in Seq(Messages)
  BY DEF Channel
<1>1. CASE down'[c] = down[c]
  <2>1. \A i \in DOMAIN down[c] : i + 0 = i
    OBVIOUS
  <2>2. \A i \in DOMAIN down'[c] : i + 0 \in DOMAIN down[c] /\ down'[c][i] = down[c][i + 0]
    BY <1>1, <2>1
  <2> QED BY <2>2 DEF HeardOf
<1>2. CASE down'[c] = <<>>
  BY <1>2 DEF HeardOf
<1>3. CASE down[c] # <<>> /\ down'[c] = Tail(down[c])
  <2>1. \A i \in DOMAIN Tail(down[c]) : i + 1 \in DOMAIN down[c] /\ Tail(down[c])[i] = down[c][i + 1]
    BY <1>3
  <2> QED BY <1>3, <2>1 DEF HeardOf
<1> QED BY <1>1, <1>2, <1>3

LEMMA HeardAppend ==
  ASSUME down \in Channel, NEW r \in Runs, NEW c \in Conns, NEW m \in Messages,
         down'[c] = Append(down[c], m),
         ~IsOffer(m, r), Positive(m, r) => Settled(r) /\ Held(r)'
  PROVE  HeardOf(c, r)
<1> down[c] \in Seq(Messages)
  BY DEF Channel
<1>1. \A i \in DOMAIN down'[c] :
        i \in Int /\ ((i \in DOMAIN down[c] /\ down'[c][i] = down[c][i]) \/ down'[c][i] = m)
  OBVIOUS
<1>2. \A i \in DOMAIN down'[c] :
        \/ i + 0 \in DOMAIN down[c] /\ down'[c][i] = down[c][i + 0]
        \/ ~IsOffer(down'[c][i], r) /\ (Positive(down'[c][i], r) => Settled(r) /\ Held(r)')
  BY <1>1
<1> QED BY <1>2 DEF HeardOf

LEMMA HeardTell ==
  ASSUME down \in Channel, NEW r \in Runs, NEW d \in Conns, NEW m \in Messages, Tell(d, m),
         ~IsOffer(m, r), Positive(m, r) => Settled(r) /\ Held(r)'
  PROVE  \A c \in Conns : HeardOf(c, r)
<1> TAKE c \in Conns
<1>1. down'[c] = down[c] \/ down'[c] = Append(down[c], m)
  BY DEF Tell, Channel
<1> QED BY <1>1, HeardFewer, HeardAppend

LEMMA HeardHear ==
  ASSUME down \in Channel, NEW type, Hear(type), NEW r \in Runs, NEW c \in Conns
  PROVE  HeardOf(c, r)
<1>1. down'[c] = down[c] \/ (down[c] # <<>> /\ down'[c] = Tail(down[c]))
  BY DEF Hear, Channel
<1> QED BY <1>1, HeardFewer

LEMMA FewerClaims ==
  ASSUME up \in Channel, NEW r \in Runs,
         \A c \in Conns : \/ up'[c] = up[c] \/ up'[c] = <<>>
                          \/ up[c] # <<>> /\ up'[c] = Tail(up[c])
  PROVE  NoNewClaim(r)
<1> SUFFICES ASSUME NEW c \in Conns, NEW i \in DOMAIN up'[c] PROVE \E j \in DOMAIN up[c] : up[c][j] = up'[c][i]
  BY DEF NoNewClaim
<1> up[c] \in Seq(Messages)
  BY DEF Channel
<1>1. CASE up[c] # <<>> /\ up'[c] = Tail(up[c])
  <2>1. \A k \in DOMAIN Tail(up[c]) : k + 1 \in DOMAIN up[c] /\ Tail(up[c])[k] = up[c][k + 1]
    BY <1>1
  <2> QED BY <1>1, <2>1
<1> QED BY <1>1

LEMMA TakeNoNewClaim ==
  ASSUME up \in Channel, NEW r \in Runs, NEW d \in Conns, NEW type, Take(d, type)
  PROVE  NoNewClaim(r)
<1>1. \A c \in Conns : up'[c] = up[c] \/ (up[c] # <<>> /\ up'[c] = Tail(up[c]))
  BY DEF Take, Channel
<1> QED BY <1>1, FewerClaims

LEMMA ReportNoNewClaim ==
  ASSUME up \in Channel, NEW r \in Runs, NEW m \in Messages, Report(m), ~IsClaim(m, r)
  PROVE  NoNewClaim(r)
<1> SUFFICES ASSUME NEW c \in Conns, NEW i \in DOMAIN up'[c], IsClaim(up'[c][i], r)
             PROVE \E j \in DOMAIN up[c] : up[c][j] = up'[c][i]
  BY DEF NoNewClaim
<1>1. up'[c] = up[c] \/ up'[c] = Append(up[c], m)
  BY DEF Report, Channel
<1>2. up[c] \in Seq(Messages)
  BY DEF Channel
<1> QED BY <1>1, <1>2, AppendMessages
LEMMA OffersInit == Init => OffersInv
BY DEF Init, OffersInv, OneSocket, OffersOK

\* The daemon reads from one connection, and only it is written to.
LEMMA OneSocketKept ==
  ASSUME TypeInv, OneSocket, [Next]_vars
  PROVE  OneSocket'
<1> TypeOK /\ down \in Channel /\ conns \in Nat /\ sock \in 0..conns
  BY TypeInvTypeOK DEF TypeInv, NetworkOK
<1>1. UNCHANGED <<down, sock>> => OneSocket'
  BY DEF OneSocket
<1>2. ASSUME NEW c \in Conns, NEW m, Tell(c, m), UNCHANGED sock PROVE OneSocket'
  BY <1>2 DEF Tell, OneSocket, Channel
<1>3. ASSUME NEW type, Hear(type), UNCHANGED sock PROVE OneSocket'
  BY <1>3 DEF Hear, OneSocket, Channel
<1>4. CASE UNCHANGED vars
  BY <1>1, <1>4 DEF vars, network
<1>5. ASSUME NEW c \in Conns,
             \/ AppendLocalRunEvent(c) \/ FinishLocalRun(c) \/ FinishInterrupted(c) \/ HandlerEnds(c)
      PROVE  OneSocket'
  BY <1>1, <1>5 DEF AppendLocalRunEvent, FinishLocalRun, FinishInterrupted, HandlerEnds
<1>6. ASSUME NEW c \in Conns, RenewLocalLease(c) PROVE OneSocket'
  BY <1>1, <1>2, <1>6 DEF RenewLocalLease
<1>7. ASSUME NEW c \in Conns, ClaimLocalRun(c) PROVE OneSocket'
  <2> DEFINE x == Head(up[c])
             ok == Valid(x, "offered") /\ run[x.r] = "queued"
  <2>1. Tell(c, [type |-> "claimed", r |-> x.r, ok |-> ok]) /\ UNCHANGED sock
    BY <1>7 DEF ClaimLocalRun
  <2> HIDE DEF x, ok
  <2> QED BY <2>1, <1>2
<1>8. ASSUME NEW c \in Conns, NEW r \in Runs, Offer(c, r) PROVE OneSocket'
  BY <1>1, <1>2, <1>8 DEF Offer, TellOffer
<1>9. CASE Receive
  BY <1>3, <1>9 DEF Receive, OfferRemoteRun, ClaimRemoteRun, CancelRemoteRun
<1>10. CASE ApiCrash \/ UpdateAgent
  BY <1>1, <1>10 DEF ApiCrash, UpdateAgent, network
<1>11. CASE DaemonCrash
  BY <1>11 DEF DaemonCrash, OneSocket
<1>12. CASE Connect
  BY <1>12 DEF Connect, OneSocket, Conns
<1>13. CASE Close
  BY <1>13 DEF Close, OneSocket, Channel
<1>14. ASSUME NEW r \in Runs,
              \/ CancelRun(r) \/ LeaseExpires(r) \/ LocalCancel(r) \/ RenewLeases(r)
              \/ Emit(r) \/ Execute(r) \/ \E a \in writing[r] : Appended(r, a)
       PROVE  OneSocket'
  <2>1. UNCHANGED <<down, sock>>
    BY <1>14 DEF CancelRun, LeaseExpires, LocalCancel, RenewLeases, Emit, Execute, EndExecution,
                 SendFinish, Appended, network
  <2> QED BY <1>1, <2>1
<1> QED
  BY <1>4, <1>5, <1>6, <1>7, <1>8, <1>9, <1>10, <1>11, <1>12, <1>13, <1>14, Zenon DEF Next, Handle

\* A new offer: nobody claims it yet, and the run was never granted.
LEMMA OffersOffer ==
  ASSUME TypeInv, TypeInv', OffersInv, NEW c \in Conns, NEW r \in Runs, Offer(c, r)
  PROVE  \A q \in Runs : OffersOK(q)'
<1> TypeOK /\ down \in Channel /\ up \in Channel /\ ServerOK /\ down' \in Channel
  BY TypeInvTypeOK DEF TypeInv, NetworkOK
<1> DEFINE m == [type |-> "offer", r |-> r, l |-> lease[r] + 1]
<1>1. m \in Messages
  <2>1. lease[r] + 1 \in Leases
    BY BoundsAssumption DEF Offer, Leases, ServerOK
  <2> QED BY <2>1, MessageForms
<1>2. m.type = "offer" /\ m.r = r /\ m.l = lease[r] + 1 /\ (Tell(c, m) \/ UNCHANGED down)
  BY DEF Offer, TellOffer
<1>3. /\ UNCHANGED <<up, pending>> /\ lease'[r] = lease[r] + 1 /\ lease[r] \in Int
      /\ ~Held(r) /\ \A q \in Runs : q # r => lease'[q] = lease[q] /\ disp'[q] = disp[q]
  BY DEF Offer, daemon, ServerOK, Offerable, Held, Leases
<1> HIDE DEF m
<1>4. ASSUME NEW q \in Runs, q # r PROVE OffersOK(q)'
  <2>1. \A d \in Conns : HeardOf(d, q)
    BY <1>1, <1>2, <1>4, HeardTell, HeardFewer DEF IsOffer, Positive
  <2>2. NoNewClaim(q)
    BY <1>3, FewerClaims
  <2>3. OffersOK(q) /\ lease'[q] = lease[q] /\ pending'[q] \in {0, pending[q]} /\ (Held(q) => Held(q)')
    BY <1>3, <1>4 DEF OffersInv, Held
  <2> QED BY <2>1, <2>2, <2>3, OffersKept
<1>5. OffersOK(r)'
  <2>1. OffersOK(r)
    BY DEF OffersInv
  <2>2. ASSUME NEW d \in Conns, NEW i \in DOMAIN down'[d]
        PROVE  /\ i \in Int
               /\ \/ i \in DOMAIN down[d] /\ i <= Len(down[d]) /\ down'[d][i] = down[d][i]
                  \/ i = Len(down[d]) + 1 /\ down'[d][i] = m
    <3>1. down'[d] = down[d] \/ down'[d] = Append(down[d], m)
      BY <1>2 DEF Tell, Channel
    <3>2. down[d] \in Seq(Messages)
      BY DEF Channel
    <3> QED BY <1>1, <3>1, <3>2
  <2>3. \A d \in Conns : \A i \in DOMAIN down[d] : ~Positive(down[d][i], r)
    BY <1>3, <2>1 DEF OffersOK
  <2>4. ASSUME NEW d \in Conns, NEW i \in DOMAIN down[d], IsOffer(down[d][i], r)
        PROVE  down[d][i].l \in Int /\ down[d][i].l <= lease[r]
    <3>1. down[d][i] \in Messages
      BY DEF Channel
    <3> QED BY <2>1, <2>4, <3>1, MessageFields DEF OffersOK, IsOffer, Leases
  <2>5. ASSUME NEW d \in Conns, NEW i \in DOMAIN down'[d], IsOffer(down'[d][i], r)
        PROVE  down'[d][i].l <= lease'[r]
    BY <1>2, <1>3, <2>2, <2>4, <2>5
  <2>6. ASSUME NEW d \in Conns, NEW i \in DOMAIN down'[d], NEW j \in DOMAIN down'[d],
               i < j, IsOffer(down'[d][i], r), IsOffer(down'[d][j], r)
        PROVE  down'[d][i].l < down'[d][j].l
    <3>1. i \in DOMAIN down[d] /\ down'[d][i] = down[d][i]
      BY <2>2, <2>6
    <3>2. CASE j \in DOMAIN down[d] /\ down'[d][j] = down[d][j]
      BY <2>1, <2>6, <3>1, <3>2 DEF OffersOK
    <3>3. CASE down'[d][j] = m
      BY <1>2, <1>3, <2>4, <2>6, <3>1, <3>3
    <3> QED BY <2>2, <3>2, <3>3
  <2>7. ASSUME NEW d \in Conns, NEW i \in DOMAIN up'[d], IsClaim(up'[d][i], r)
        PROVE  up'[d][i].l <= lease'[r] /\ up'[d][i].l # lease'[r]
    <3>1. up[d][i] \in Messages
      BY <1>3 DEF Channel
    <3>2. up[d][i].l \in Int /\ up[d][i].l <= lease[r]
      BY <1>3, <2>1, <2>7, <3>1, MessageFields DEF OffersOK, IsClaim, Leases
    <3> QED BY <1>3, <3>2
  <2>8. ASSUME NEW d \in Conns, NEW i \in DOMAIN down'[d] PROVE ~Positive(down'[d][i], r)
    BY <1>2, <2>2, <2>3 DEF Positive
  <2> QED BY <2>5, <2>6, <2>7, <2>8 DEF OffersOK, IsOffer, IsClaim, Positive
<1> QED BY <1>4, <1>5
\* An offer that is heard was not answered yet. If it is the last one, no other is
\* on its way.
LEMMA OffersHeard ==
  ASSUME TypeInv, TypeInv', OffersInv, OfferRemoteRun
  PROVE  \A q \in Runs : OffersOK(q)'
<1> TypeOK /\ down \in Channel /\ up \in Channel /\ down' \in Channel /\ DaemonOK /\ ServerOK
  BY TypeInvTypeOK DEF TypeInv, NetworkOK
<1>1. PICK m \in Messages : m = Head(down[sock]) /\ m.type = "offer"
  BY HearTyped DEF OfferRemoteRun
<1>2. PICK r \in Runs, l \in Leases : m.r = r /\ m.l = l
  BY <1>1, MessageFields
<1>3. PICK n \in Messages : n = [type |-> "claim", r |-> r, l |-> l]
  BY MessageForms
<1>4. /\ Hear("offer") /\ Report(n) /\ pending' = [pending EXCEPT ![r] = l]
      /\ UNCHANGED <<disp, lease>>
  BY <1>1, <1>2, <1>3 DEF OfferRemoteRun, server
<1>5. n.type = "claim" /\ n.r = r /\ n.l = l
  BY <1>3
<1>6. ASSUME NEW q \in Runs, q # r PROVE OffersOK(q)'
  <2>1. \A d \in Conns : HeardOf(d, q)
    BY <1>4, HeardHear
  <2>2. NoNewClaim(q)
    BY <1>4, <1>5, <1>6, ReportNoNewClaim DEF IsClaim
  <2>3. OffersOK(q) /\ lease'[q] = lease[q] /\ pending'[q] \in {0, pending[q]} /\ (Held(q) => Held(q)')
    BY <1>4, <1>6 DEF OffersInv, Held, DaemonOK
  <2> QED BY <2>1, <2>2, <2>3, OffersKept
<1>7. OffersOK(r)'
  <2>1. OffersOK(r) /\ OneSocket
    BY DEF OffersInv
  <2>2. sock \in Conns /\ down[sock] \in Seq(Messages) /\ down[sock] # <<>>
    BY <1>4, SockConn DEF Hear, Channel
  <2>3. 1 \in DOMAIN down[sock] /\ down[sock][1] = m /\ IsOffer(m, r)
    BY <1>1, <1>2, <2>2 DEF IsOffer
  <2>4. ~Settled(r) /\ l <= lease[r]
    BY <1>2, <2>1, <2>2, <2>3 DEF Settled, OffersOK
  <2>5. lease[r] \in Int /\ l \in Int /\ lease'[r] = lease[r]
    BY <1>4 DEF ServerOK, Leases
  <2>6. ASSUME NEW d \in Conns, NEW i \in DOMAIN down'[d]
        PROVE  d = sock /\ i \in Nat /\ i # 0 /\ i + 1 \in DOMAIN down[sock] /\ down'[d][i] = down[sock][i + 1]
    <3>1. down'[sock] = Tail(down[sock]) /\ (d # sock => down'[d] = <<>>)
      BY <1>4, <2>1, <2>2 DEF Hear, Channel, OneSocket
    <3>2. \A k \in DOMAIN Tail(down[sock]) :
            k \in Nat /\ k # 0 /\ k + 1 \in DOMAIN down[sock] /\ Tail(down[sock])[k] = down[sock][k + 1]
      BY <2>2
    <3>3. d = sock
      BY <3>1
    <3> QED BY <3>1, <3>2, <3>3
  <2>7. ASSUME NEW d \in Conns, NEW i \in DOMAIN down'[d], IsOffer(down'[d][i], r)
        PROVE  l < down'[d][i].l /\ down'[d][i].l <= lease[r] /\ down'[d][i].l \in Int
    <3>1. PICK k \in DOMAIN down[sock] : k = i + 1 /\ 1 < k /\ down'[d][i] = down[sock][k]
      BY <2>6
    <3>2. down'[d][i] \in Messages
      BY DEF Channel
    <3>3. down'[d][i].l \in Int
      BY <2>7, <3>2, MessageFields DEF IsOffer, Leases
    <3>4. m.l < down[sock][k].l /\ down[sock][k].l <= lease[r]
      BY <2>1, <2>2, <2>3, <2>7, <3>1 DEF OffersOK
    <3> QED BY <1>2, <3>1, <3>3, <3>4
  <2>8. ASSUME NEW d \in Conns, NEW i \in DOMAIN down'[d], NEW j \in DOMAIN down'[d],
               i < j, IsOffer(down'[d][i], r), IsOffer(down'[d][j], r)
        PROVE  down'[d][i].l < down'[d][j].l
    <3>1. i + 1 < j + 1 /\ i + 1 \in DOMAIN down[sock] /\ j + 1 \in DOMAIN down[sock]
      BY <2>6, <2>8
    <3>2. down'[d][i] = down[sock][i + 1] /\ down'[d][j] = down[sock][j + 1]
      BY <2>6
    <3> QED BY <2>1, <2>2, <2>8, <3>1, <3>2 DEF OffersOK
  <2>9. l = lease[r] => Settled(r)'
    <3>1. ASSUME l = lease[r], NEW d \in Conns, NEW i \in DOMAIN down'[d], IsOffer(down'[d][i], r)
          PROVE  FALSE
      BY <2>5, <2>7, <3>1
    <3>2. pending'[r] = l
      BY <1>4 DEF DaemonOK
    <3> QED BY <2>5, <3>1, <3>2 DEF Settled, IsOffer
  <2>10. ASSUME NEW d \in Conns, NEW i \in DOMAIN up'[d], IsClaim(up'[d][i], r)
         PROVE  up'[d][i].l <= lease'[r] /\ (up'[d][i].l = lease'[r] => Settled(r)')
    <3>1. up'[d] = up[d] \/ up'[d] = Append(up[d], n)
      BY <1>4 DEF Report, Channel
    <3>2. up[d] \in Seq(Messages)
      BY DEF Channel
    <3>3. (i \in DOMAIN up[d] /\ up'[d][i] = up[d][i]) \/ up'[d][i] = n
      BY <3>1, <3>2, AppendMessages
    <3>4. CASE i \in DOMAIN up[d] /\ up'[d][i] = up[d][i]
      BY <2>1, <2>4, <2>5, <2>10, <3>4 DEF OffersOK
    <3>5. CASE up'[d][i] = n
      BY <1>5, <2>4, <2>5, <2>9, <3>5
    <3> QED BY <3>3, <3>4, <3>5
  <2>11. ASSUME NEW d \in Conns, NEW i \in DOMAIN down'[d] PROVE ~Positive(down'[d][i], r)
    BY <2>1, <2>2, <2>4, <2>6 DEF OffersOK
  <2>12. \A d \in Conns : \A i \in DOMAIN down'[d] : IsOffer(down'[d][i], r) => down'[d][i].l <= lease'[r]
    BY <2>5, <2>7
  <2> QED BY <2>8, <2>10, <2>11, <2>12 DEF OffersOK, IsOffer, IsClaim, Positive
<1> QED BY <1>6, <1>7

\* A claim that is granted is about the last offer, all of which were heard.
LEMMA OffersClaim ==
  ASSUME TypeInv, TypeInv', OffersInv, NEW c \in Conns, ClaimLocalRun(c), NEW r \in Runs
  PROVE  OffersOK(r)'
<1> TypeOK /\ down \in Channel /\ up \in Channel /\ down' \in Channel /\ ServerOK
  BY TypeInvTypeOK DEF TypeInv, NetworkOK
<1>1. PICK m \in Messages : m = Head(up[c]) /\ m.type = "claim" /\ Take(c, "claim")
  BY TakeTyped DEF ClaimLocalRun
<1>2. PICK ok \in BOOLEAN : ok = (Valid(m, "offered") /\ run[m.r] = "queued")
  OBVIOUS
<1>3. PICK a \in Messages : a = [type |-> "claimed", r |-> m.r, ok |-> ok]
  <2>1. \E l \in Leases : TRUE
    BY BoundsAssumption DEF Leases
  <2> QED BY <1>1, <2>1, MessageFields, MessageForms
<1>4. /\ Tell(c, a) /\ UNCHANGED <<lease, pending>>
      /\ IF ok THEN disp' = [disp EXCEPT ![m.r] = "claimed"] ELSE UNCHANGED disp
  BY <1>1, <1>2, <1>3 DEF ClaimLocalRun, daemon
<1>5. a.type = "claimed" /\ a.r = m.r /\ a.ok = ok
  BY <1>3
<1>6. Held(r) => Held(r)'
  BY <1>4 DEF Held, ServerOK
<1>7. OffersOK(r)
  BY DEF OffersInv
<1>8. Positive(a, r) => Settled(r) /\ Held(r)'
  <2> SUFFICES ASSUME m.r = r, ok PROVE Settled(r) /\ Held(r)'
    BY <1>5 DEF Positive
  <2>1. lease[r] = m.l
    BY <1>2 DEF Valid
  <2>2. 1 \in DOMAIN up[c] /\ up[c][1] = m
    BY <1>1 DEF Take, Channel
  <2>3. disp'[r] = "claimed"
    BY <1>4 DEF ServerOK
  <2> QED BY <1>1, <1>7, <2>1, <2>2, <2>3 DEF OffersOK, IsClaim, Held
<1>9. ~IsOffer(a, r)
  BY <1>5 DEF IsOffer
<1>10. \A d \in Conns : HeardOf(d, r)
  BY <1>4, <1>8, <1>9, HeardTell
<1>11. NoNewClaim(r)
  BY <1>1, TakeNoNewClaim
<1> QED BY <1>4, <1>6, <1>7, <1>10, <1>11, OffersKept
LEMMA OffersStep == TypeInv /\ TypeInv' /\ OffersInv /\ [Next]_vars => OffersInv'
<1> SUFFICES ASSUME TypeInv, TypeInv', OffersInv, [Next]_vars, NEW r \in Runs PROVE OffersOK(r)'
  BY OneSocketKept DEF OffersInv
<1> TypeOK /\ down \in Channel /\ up \in Channel /\ down' \in Channel /\ ServerOK /\ DaemonOK
  BY TypeInvTypeOK DEF TypeInv, NetworkOK
<1>1. ASSUME \A c \in Conns : HeardOf(c, r), NoNewClaim(r), UNCHANGED <<lease, disp, pending>> PROVE OffersOK(r)'
  BY <1>1, OffersKept DEF OffersInv, Held
<1>2. UNCHANGED down => \A c \in Conns : HeardOf(c, r)
  BY HeardFewer
<1>3. UNCHANGED up => NoNewClaim(r)
  BY FewerClaims
<1>4. CASE UNCHANGED vars
  BY <1>1, <1>2, <1>3, <1>4 DEF vars, server, daemon, network
<1>5. ASSUME NEW c \in Conns, HandlerEnds(c) PROVE OffersOK(r)'
  <2>1. NoNewClaim(r)
    BY <1>5, FewerClaims DEF HandlerEnds, Channel
  <2> QED BY <1>1, <1>2, <1>5, <2>1 DEF HandlerEnds, server, daemon
<1>6. ASSUME NEW c \in Conns, NEW q \in Runs, Offer(c, q) PROVE OffersOK(r)'
  BY <1>6, OffersOffer
<1>7. ASSUME NEW c \in Conns, ClaimLocalRun(c) PROVE OffersOK(r)'
  BY <1>7, OffersClaim
<1>8. ASSUME NEW c \in Conns, RenewLocalLease(c) PROVE OffersOK(r)'
  <2>1. PICK m \in Messages : m = [type |-> "cancelled", r |-> Head(up[c]).r]
    <3>1. \E l \in Leases : TRUE
      BY BoundsAssumption DEF Leases
    <3> QED BY <1>8, <3>1, TakeTyped, MessageFields, MessageForms DEF RenewLocalLease
  <2>2. Tell(c, m) \/ UNCHANGED down
    BY <1>8, <2>1 DEF RenewLocalLease
  <2>3. ~IsOffer(m, r) /\ ~Positive(m, r)
    BY <2>1 DEF IsOffer, Positive
  <2>4. \A d \in Conns : HeardOf(d, r)
    BY <1>2, <2>2, <2>3, HeardTell
  <2>5. NoNewClaim(r)
    BY <1>8, TakeNoNewClaim DEF RenewLocalLease
  <2> QED BY <1>1, <1>8, <2>4, <2>5 DEF RenewLocalLease, server, daemon
<1>9. ASSUME NEW c \in Conns, AppendLocalRunEvent(c) PROVE OffersOK(r)'
  <2>1. NoNewClaim(r)
    BY <1>9, TakeNoNewClaim DEF AppendLocalRunEvent
  <2> QED BY <1>1, <1>2, <1>9, <2>1 DEF AppendLocalRunEvent, daemon
<1>10. ASSUME NEW c \in Conns, FinishLocalRun(c) PROVE OffersOK(r)'
  <2>1. NoNewClaim(r)
    BY <1>10, TakeNoNewClaim DEF FinishLocalRun
  <2>2. UNCHANGED <<lease, pending, down>>
    BY <1>10 DEF FinishLocalRun, daemon
  <2>3. Head(up[c]).r \in Runs /\ Head(up[c]).st \in TERMINAL
    BY <1>10, TakeTyped, MessageFields DEF FinishLocalRun
  <2>4. Held(r) => Held(r)'
    BY <1>10, <2>3 DEF FinishLocalRun, Finished, Held, ServerOK, TERMINAL
  <2> QED BY <1>2, <2>1, <2>2, <2>4, OffersKept DEF OffersInv
<1>11. ASSUME NEW c \in Conns, FinishInterrupted(c) PROVE OffersOK(r)'
  <2>1. NoNewClaim(r)
    BY <1>11, FewerClaims DEF FinishInterrupted, Stop
  <2>2. UNCHANGED <<lease, pending, down>>
    BY <1>11 DEF FinishInterrupted, daemon
  <2>3. Head(up[c]) \in Messages
    BY <1>11, Queues DEF FinishInterrupted, Channel
  <2>4. Head(up[c]).r \in Runs /\ Head(up[c]).st \in TERMINAL
    BY <1>11, <2>3, MessageFields DEF FinishInterrupted
  <2>5. Held(r) => Held(r)'
    BY <1>11, <2>4 DEF FinishInterrupted, Finished, Held, ServerOK, TERMINAL
  <2> QED BY <1>2, <2>1, <2>2, <2>5, OffersKept DEF OffersInv
<1>12. CASE OfferRemoteRun
  BY <1>12, OffersHeard
<1>13. CASE ClaimRemoteRun
  <2> DEFINE m == Head(down[sock])
  <2>1. m \in Messages
    BY <1>13, HearTyped DEF ClaimRemoteRun
  <2>2. m.r \in Runs /\ pending[m.r] \in Leases
    BY <2>1, MessageFields DEF DaemonOK
  <2>3. NoNewClaim(r)
    <3>1. UNCHANGED up \/ Report([type |-> "finish", r |-> m.r, l |-> pending[m.r], st |-> "failed", content |-> FALSE])
      BY <1>13 DEF ClaimRemoteRun
    <3>2. PICK n \in Messages : n = [type |-> "finish", r |-> m.r, l |-> pending[m.r], st |-> "failed", content |-> FALSE]
      BY <2>2, MessageForms DEF TERMINAL
    <3>3. ~IsClaim(n, r)
      BY <3>2 DEF IsClaim
    <3> QED BY <1>3, <3>1, <3>2, <3>3, ReportNoNewClaim
  <2>4. \A c \in Conns : HeardOf(c, r)
    BY <1>13, HeardHear DEF ClaimRemoteRun
  <2>5. pending'[r] \in {0, pending[r]}
    BY <1>13, <2>2 DEF ClaimRemoteRun, DaemonOK
  <2>6. UNCHANGED <<lease, disp>>
    BY <1>13 DEF ClaimRemoteRun, server
  <2> QED BY <2>3, <2>4, <2>5, <2>6, OffersKept DEF OffersInv, Held
<1>14. CASE CancelRemoteRun
  BY <1>1, <1>3, <1>14, HeardHear DEF CancelRemoteRun, server
<1>15. CASE ApiCrash
  <2>1. NoNewClaim(r)
    BY <1>15, FewerClaims DEF ApiCrash, Stop
  <2> QED BY <1>1, <1>2, <1>15, <2>1 DEF ApiCrash, server, daemon
<1>16. CASE DaemonCrash
  <2>1. \A c \in Conns : HeardOf(c, r)
    BY <1>16, HeardFewer DEF DaemonCrash
  <2>2. pending'[r] = 0 /\ UNCHANGED <<lease, disp, up>>
    BY <1>16 DEF DaemonCrash, server
  <2> QED BY <1>3, <2>1, <2>2, OffersKept DEF OffersInv, Held
<1>17. CASE Connect \/ UpdateAgent
  BY <1>1, <1>2, <1>3, <1>17 DEF Connect, UpdateAgent, server, daemon, network
<1>18. CASE Close
  <2>1. \A c \in Conns : HeardOf(c, r)
    BY <1>18, HeardFewer DEF Close, Channel
  <2> QED BY <1>1, <1>3, <1>18, <2>1 DEF Close, server, daemon
<1>19. ASSUME NEW q \in Runs, CancelRun(q) \/ LeaseExpires(q) \/ LocalCancel(q) \/ Emit(q) \/ EndExecution(q)
       PROVE  OffersOK(r)'
  <2>1. UNCHANGED <<up, down, lease, disp, pending>>
    BY <1>19 DEF CancelRun, LeaseExpires, LocalCancel, Emit, EndExecution, server, daemon, network
  <2> QED BY <1>1, <1>2, <1>3, <2>1
<1>20. ASSUME NEW q \in Runs,
              RenewLeases(q) \/ SendFinish(q) \/ \E a \in writing[q] : Appended(q, a)
       PROVE  OffersOK(r)'
  <2>1. exec[q].l \in Leases /\ \A a \in writing[q] : a.e \in Nat /\ a.seq \in Nat
    BY DEF DaemonOK, Executions, Appends
  <2>2. UNCHANGED <<down, lease, disp, pending>>
    BY <1>20 DEF RenewLeases, SendFinish, Appended, server, daemon
  <2>3. UNCHANGED up \/ \E n \in Messages : n.type # "claim" /\ Report(n)
    <3>1. CASE RenewLeases(q)
      <4>1. PICK n \in Messages : n = [type |-> "renew", r |-> q, l |-> exec[q].l]
        BY <2>1, MessageForms
      <4> QED BY <3>1, <4>1 DEF RenewLeases
    <3>2. CASE SendFinish(q)
      <4>1. PICK content \in BOOLEAN :
              Report([type |-> "finish", r |-> q, l |-> exec[q].l, st |-> exec[q].st, content |-> content])
        BY <3>2 DEF SendFinish
      <4>2. PICK n \in Messages :
              n = [type |-> "finish", r |-> q, l |-> exec[q].l, st |-> exec[q].st, content |-> content]
        BY <2>1, <3>2, MessageForms DEF SendFinish
      <4> QED BY <4>1, <4>2
    <3>3. ASSUME NEW a \in writing[q], Appended(q, a)
          PROVE  UNCHANGED up \/ \E n \in Messages : n.type # "claim" /\ Report(n)
      <4>1. PICK n \in Messages :
              n = [type |-> "event", r |-> q, l |-> exec[q].l, e |-> a.e, seq |-> a.seq]
        BY <2>1, MessageForms
      <4> QED BY <3>3, <4>1 DEF Appended
    <3> QED BY <1>20, <3>1, <3>2, <3>3
  <2>4. NoNewClaim(r)
    BY <1>3, <2>3, ReportNoNewClaim DEF IsClaim
  <2> QED BY <1>1, <1>2, <2>2, <2>4
<1> QED
  BY <1>4, <1>5, <1>6, <1>7, <1>8, <1>9, <1>10, <1>11, <1>12, <1>13, <1>14, <1>15, <1>16, <1>17,
     <1>18, <1>19, <1>20, Zenon DEF Next, Handle, Receive, Execute
\* A step that starts no execution of r and offers it to nobody.
LEMMA LeaseKept ==
  ASSUME ExecutesItsLease, NEW r \in Runs, lease'[r] = lease[r], Held(r) => Held(r)', Dequeued,
         Executing(r)' => Executing(r) /\ exec'[r].l = exec[r].l
  PROVE  Executing(r)' => (exec[r].l = lease[r] /\ Held(r) /\ run[r] # "queued")'
BY DEF ExecutesItsLease, Held, Dequeued

\* No step but an offer changes a lease, and none takes a claim back.
LEMMA LeaseServerStep ==
  ASSUME TypeInv, ExecutesItsLease, Dequeued, NEW c \in Conns,
         \/ Handle(c) \/ FinishInterrupted(c) \/ \E r \in Runs : Offer(c, r),
         NEW r \in Runs, Executing(r)'
  PROVE  (exec[r].l = lease[r] /\ Held(r) /\ run[r] # "queued")'
<1> TypeOK /\ ServerOK /\ up \in Channel
  BY TypeInvTypeOK DEF TypeInv, NetworkOK
<1>1. UNCHANGED exec
  BY DEF Handle, ClaimLocalRun, RenewLocalLease, AppendLocalRunEvent, FinishLocalRun,
         FinishInterrupted, Offer, daemon
<1>2. Executing(r) /\ exec'[r].l = exec[r].l
  BY <1>1 DEF Executing
<1>3. lease'[r] = lease[r] /\ (Held(r) => Held(r)')
  <2>1. ASSUME NEW q \in Runs, Offer(c, q) PROVE lease'[r] = lease[r] /\ disp'[r] = disp[r]
    <3>1. q # r
      BY <1>2, <2>1 DEF Offer, Offerable, ExecutesItsLease
    <3> QED BY <2>1, <3>1 DEF Offer, ServerOK
  <2>2. CASE ClaimLocalRun(c)
    BY <2>2 DEF ClaimLocalRun, Held, ServerOK
  <2>3. CASE RenewLocalLease(c) \/ AppendLocalRunEvent(c)
    BY <2>3 DEF RenewLocalLease, AppendLocalRunEvent, server, Held
  <2>4. CASE FinishLocalRun(c) \/ FinishInterrupted(c)
    <3>1. Head(up[c]) \in Messages /\ Head(up[c]).type = "finish"
      BY <2>4, Queues DEF FinishLocalRun, FinishInterrupted, Take, Channel
    <3>2. Head(up[c]).st \in TERMINAL
      BY <3>1, MessageFields
    <3> QED BY <2>4, <3>2 DEF FinishLocalRun, FinishInterrupted, Finished, Held, ServerOK, TERMINAL
  <2> QED BY <2>1, <2>2, <2>3, <2>4 DEF Handle, Held
<1> QED BY <1>2, <1>3, LeaseKept

\* An execution starts with the lease of the run, whose claim was granted.
LEMMA LeaseStart ==
  ASSUME TypeInv, OnceInv, OffersInv, ExecutesItsLease, Dequeued, ClaimRemoteRun,
         NEW r \in Runs, Executing(r)'
  PROVE  (exec[r].l = lease[r] /\ Held(r) /\ run[r] # "queued")'
<1> TypeOK /\ down \in Channel /\ DaemonOK
  BY TypeInvTypeOK DEF TypeInv, NetworkOK
<1>1. PICK m \in Messages : m = Head(down[sock]) /\ m.type = "claimed"
  BY HearTyped DEF ClaimRemoteRun
<1>2. PICK q \in Runs : q = m.r
  BY <1>1, MessageFields
<1>3. pending[q] \in Leases
  BY DEF DaemonOK
<1>4. UNCHANGED <<lease, disp, run>>
  BY DEF ClaimRemoteRun, server
<1>5. PICK x \in Executions : x = [NotExecuted EXCEPT !.st = "running", !.l = pending[q]] /\ x.l = pending[q]
  BY <1>3, NewExecution
<1>6. UNCHANGED exec \/ (Wanted(m) /\ exec' = [exec EXCEPT ![q] = x])
  BY <1>1, <1>2, <1>5 DEF ClaimRemoteRun
<1>7. CASE exec'[r] = exec[r]
  BY <1>4, <1>7, LeaseKept DEF Executing, Held
<1>8. CASE exec'[r] # exec[r]
  <2>1. r = q /\ Wanted(m) /\ exec'[r] = x
    BY <1>6, <1>8 DEF DaemonOK
  <2>2. sock \in Conns /\ 1 \in DOMAIN down[sock] /\ down[sock][1] = m
    BY <1>1, SockConn DEF ClaimRemoteRun, Hear, Channel
  <2>3. Positive(down[sock][1], r)
    BY <1>1, <1>2, <2>1, <2>2 DEF Positive, Wanted
  <2>4. Settled(r) /\ Held(r)
    BY <2>2, <2>3 DEF OffersInv, OffersOK
  <2>5. run[r] # "queued"
    BY <2>2, <2>3 DEF OnceInv, Granted
  <2>6. pending[r] = lease[r]
    BY <1>2, <2>1, <2>4 DEF Wanted, Settled
  <2> QED BY <1>4, <1>5, <2>1, <2>4, <2>5, <2>6 DEF Held
<1> QED BY <1>7, <1>8

LEMMA LeaseStep ==
  TypeInv /\ OnceInv /\ OffersInv /\ ExecutesItsLease /\ [Next]_vars => ExecutesItsLease'
<1> SUFFICES ASSUME TypeInv, OnceInv, OffersInv, ExecutesItsLease, [Next]_vars,
                    NEW r \in Runs, Executing(r)'
             PROVE  (exec[r].l = lease[r] /\ Held(r) /\ run[r] # "queued")'
  BY DEF ExecutesItsLease, Executing, Held
<1> TypeOK /\ ServerOK /\ DaemonOK
  BY TypeInvTypeOK DEF TypeInv
<1> Dequeued
  <2>1. RunMoves
    BY StepsMoveRuns
  <2>2. UNCHANGED run => Dequeued
    BY DEF Dequeued
  <2>3. ASSUME NEW q \in Runs, NEW st \in {"running"} \cup TERMINAL, NEW f \in BOOLEAN, NEW k \in {0, 1},
               Moves(q, st, f, k)
        PROVE  Dequeued
    BY <2>3 DEF Moves, Dequeued, ServerOK, TERMINAL
  <2> QED BY <2>1, <2>2, <2>3 DEF RunMoves
<1>1. ASSUME UNCHANGED <<lease, disp, exec>> PROVE (exec[r].l = lease[r] /\ Held(r) /\ run[r] # "queued")'
  BY <1>1, LeaseKept DEF Held, Executing
<1>3. CASE UNCHANGED vars
  BY <1>1, <1>3 DEF vars, server, daemon
<1>4. ASSUME NEW c \in Conns,
             \/ Handle(c) \/ FinishInterrupted(c) \/ \E q \in Runs : Offer(c, q)
      PROVE  (exec[r].l = lease[r] /\ Held(r) /\ run[r] # "queued")'
  BY <1>4, LeaseServerStep
<1>5. CASE \E c \in Conns : HandlerEnds(c)
  BY <1>1, <1>5 DEF HandlerEnds, server, daemon
<1>6. CASE ApiCrash \/ Connect \/ Close \/ UpdateAgent
  BY <1>1, <1>6 DEF ApiCrash, Connect, Close, UpdateAgent, server, daemon
<1>7. CASE OfferRemoteRun
  BY <1>1, <1>7 DEF OfferRemoteRun, server
<1>8. CASE ClaimRemoteRun
  BY <1>8, LeaseStart
<1>9. CASE CancelRemoteRun
  <2> DEFINE q == Head(down[sock]).r
  <2>1. UNCHANGED <<lease, disp>>
    BY <1>9 DEF CancelRemoteRun, server
  <2>2. UNCHANGED exec \/ (exec[q].st \in {"running", "completed", "failed"} /\ Abort(q))
    BY <1>9 DEF CancelRemoteRun
  <2>3. CASE UNCHANGED exec
    BY <1>1, <2>1, <2>3
  <2>4. CASE exec[q].st \in {"running", "completed", "failed"} /\ Abort(q)
    <3> HIDE DEF q
    <3>1. exec'[r].l = exec[r].l /\ (Executing(r)' => Executing(r))
      BY <2>4 DEF Abort, Executing, DaemonOK, Executions
    <3> QED BY <2>1, <3>1, LeaseKept DEF Held
  <2> QED BY <2>2, <2>3, <2>4
<1>10. CASE DaemonCrash
  BY <1>10 DEF DaemonCrash, Executing, NotExecuted
<1>11. ASSUME NEW q \in Runs, CancelRun(q) PROVE (exec[r].l = lease[r] /\ Held(r) /\ run[r] # "queued")'
  BY <1>1, <1>11 DEF CancelRun, daemon
<1>12. ASSUME NEW q \in Runs,
              LeaseExpires(q) \/ RenewLeases(q) \/ \E a \in writing[q] : Appended(q, a)
       PROVE  (exec[r].l = lease[r] /\ Held(r) /\ run[r] # "queued")'
  BY <1>1, <1>12 DEF LeaseExpires, RenewLeases, Appended, server, daemon
<1>13. ASSUME NEW q \in Runs, LocalCancel(q) \/ Emit(q) \/ EndExecution(q) \/ SendFinish(q)
       PROVE  (exec[r].l = lease[r] /\ Held(r) /\ run[r] # "queued")'
  <2>1. UNCHANGED <<lease, disp>>
    BY <1>13 DEF LocalCancel, Emit, EndExecution, SendFinish, server
  <2>2. exec'[r].l = exec[r].l /\ (exec'[r].st = exec[r].st \/ (q = r /\ Executing(r)))
    <3>1. CASE LocalCancel(q) \/ SendFinish(q)
      <4>1. exec[q].st \in {"running"} \cup TERMINAL
        BY <3>1 DEF LocalCancel, SendFinish
      <4>2. \E st : exec' = [exec EXCEPT ![q].st = st]
        BY <3>1 DEF LocalCancel, Abort, SendFinish
      <4> QED BY <4>1, <4>2 DEF DaemonOK, Executions, Executing, TERMINAL
    <3>2. CASE Emit(q)
      BY <3>2 DEF Emit, DaemonOK, Executions
    <3>3. CASE EndExecution(q)
      <4>1. PICK out \in {"ok", "error"} :
              exec' = [exec EXCEPT ![q].st = EndState(q, out), ![q].out = out, ![q].events = @ + 1]
        BY <3>3 DEF EndExecution
      <4>2. exec[q].st = "running"
        BY <3>3 DEF EndExecution
      <4> QED BY <4>1, <4>2 DEF DaemonOK, Executions, Executing
    <3> QED BY <1>13, <3>1, <3>2, <3>3
  <2>3. Executing(r)
    BY <2>2 DEF Executing
  <2> QED BY <2>1, <2>2, <2>3, LeaseKept DEF Held
<1> QED
  BY <1>3, <1>4, <1>5, <1>6, <1>7, <1>8, <1>9, <1>10, <1>11, <1>12, <1>13, Zenon
     DEF Next, Receive, Execute

\* What the daemon executes was claimed, and the lease it renews, reports events and
\* finishes with is the one agent-service knows, although the answer to a claim
\* names the run and not the lease, and offers may be repeated and connections break.
THEOREM ExecutionsHoldTheirLease == Spec => []ExecutesItsLease
<1>1. Init => ExecutesItsLease
  BY DEF Init, ExecutesItsLease, Executing, NotExecuted
<1>2. Spec => []OnceInv
  BY TypeInvariant, OnceInit, OnceStep, PTL DEF Spec
<1>3. Spec => []OffersInv
  BY TypeInvariant, OffersInit, OffersStep, PTL DEF Spec
<1> QED BY <1>1, <1>2, <1>3, TypeInvariant, LeaseStep, PTL DEF Spec

\* The effects of a run on its device are never repeated: one execution, under the
\* lease that agent-service has granted.
THEOREM ExecutedAtMostOnce == Spec => []ExecutedOnce
BY StartedAtMostOnce, ExecutionsHoldTheirLease, PTL DEF ExecutedOnce
=============================================================================
