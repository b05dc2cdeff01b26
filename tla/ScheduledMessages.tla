------------------------- MODULE ScheduledMessages -------------------------
(***************************************************************************)
(* A timer of an Agent, the run it starts, and the message that run sends   *)
(* to a QQ group: agent_schedules and schedule_loop of                      *)
(* agent-service/app/main.py, the call of the tool through                  *)
(* qq_gateway_request, and the idempotent delivery of                       *)
(* qq-gateway/app/main.py (proactive_outbound).  A key stands for the       *)
(* idempotency key of the timer and of the message its run sends.           *)
(***************************************************************************)
EXTENDS Naturals, FiniteSets

CONSTANTS
    Keys,       \* timers, and the messages of their runs
    Apis,       \* processes with a schedule_loop
    Calls,      \* calls of the send tool: a run may be executed, or call, again
    Attempts,   \* requests to QQ per call, 3 in send_proactive_group_message
    MaxFaults   \* bound: crashes, refusals and errors of QQ

ASSUME AttemptsAssumption == Attempts \in Nat \ {0}
ASSUME MaxFaultsAssumption == MaxFaults \in Nat

VARIABLES
    schedule,   \* agent_schedules: "none", "enabled", "triggered"
    selected,   \* per loop: the due rows its SELECT returned
    batch,      \* per loop: claimed rows whose run is not created yet
    runs,       \* per key: runs created by a timer
    connected,  \* the agent has a runtime in the gateway
    known,      \* the group is registered
    status,     \* proactive_outbound.status, "none" without a row
    call,       \* per call: its step in the gateway, its key, its attempts
    answer,     \* per call: what the tool got back
    accepted,   \* messages QQ has taken, per key
    faults,
    lost,       \* history: timers that were triggered and got no run
    doubted     \* history: keys with a delivery QQ answered with an error, or that failed

timerVars == <<schedule, selected, batch, runs, lost>>
gatewayVars == <<connected, known, status>>
callVars == <<call, answer, accepted, doubted>>
vars == <<timerVars, gatewayVars, callVars, faults>>

Fault == faults < MaxFaults /\ faults' = faults + 1

Init ==
    /\ schedule = [k \in Keys |-> "none"]
    /\ selected = [p \in Apis |-> {}] /\ batch = [p \in Apis |-> {}]
    /\ runs = [k \in Keys |-> 0]
    /\ connected = FALSE /\ known = FALSE
    /\ status = [k \in Keys |-> "none"]
    /\ call \in [Calls -> {[pc |-> "idle", key |-> k, tries |-> 0] : k \in Keys}]
    /\ answer = [c \in Calls |-> "none"]
    /\ accepted = [k \in Keys |-> 0]
    /\ faults = 0 /\ lost = {} /\ doubted = {}

----------------------------------------------------------------------------
(* Timers *)

\* timer_create: a second call with the key finds the row and changes nothing.
CreateSchedule(k) ==
    /\ schedule[k] = "none"
    /\ schedule' = [schedule EXCEPT ![k] = "enabled"]
    /\ UNCHANGED <<selected, batch, runs, lost, gatewayVars, callVars, faults>>

\* claim_due_schedules: the due rows are read,
SelectDue(p) ==
    /\ selected[p] = {} /\ batch[p] = {}
    /\ \E due \in SUBSET {k \in Keys : schedule[k] = "enabled"} \ {{}} :
         selected' = [selected EXCEPT ![p] = due]
    /\ UNCHANGED <<schedule, batch, runs, lost, gatewayVars, callVars, faults>>

\* Mutant: the rows read are the rows claimed.
ClaimAllRead(p) ==
    /\ selected[p] # {}
    /\ batch' = [batch EXCEPT ![p] = selected[p]]
    /\ schedule' = [k \in Keys |-> IF k \in selected[p] THEN "triggered" ELSE schedule[k]]
    /\ selected' = [selected EXCEPT ![p] = {}]
    /\ UNCHANGED <<runs, lost, gatewayVars, callVars, faults>>

\* and those not triggered in the meantime are claimed and committed together.
ClaimDue(p) ==
    /\ selected[p] # {}
    /\ LET mine == {k \in selected[p] : schedule[k] # "triggered"} IN
         /\ batch' = [batch EXCEPT ![p] = mine]
         /\ schedule' = [k \in Keys |-> IF k \in mine THEN "triggered" ELSE schedule[k]]
    /\ selected' = [selected EXCEPT ![p] = {}]
    /\ UNCHANGED <<runs, lost, gatewayVars, callVars, faults>>

\* schedule_loop: one run after the other.
StartRun(p, k) ==
    /\ k \in batch[p]
    /\ batch' = [batch EXCEPT ![p] = @ \ {k}]
    /\ runs' = [runs EXCEPT ![k] = @ + 1]
    /\ UNCHANGED <<schedule, selected, lost, gatewayVars, callVars, faults>>

\* create_run refuses: agent paused or busy, budget spent, device offline.
RunRefused(p, k) ==
    /\ k \in batch[p]
    /\ Fault
    /\ batch' = [batch EXCEPT ![p] = @ \ {k}]
    /\ lost' = lost \cup {k}
    /\ UNCHANGED <<schedule, selected, runs, gatewayVars, callVars>>

\* An exception leaves the loop over the claimed rows, a crash the process.
LoopFails(p) ==
    /\ Fault
    /\ selected[p] \cup batch[p] # {}
    /\ selected' = [selected EXCEPT ![p] = {}]
    /\ batch' = [batch EXCEPT ![p] = {}]
    /\ lost' = lost \cup batch[p]
    /\ UNCHANGED <<schedule, runs, gatewayVars, callVars>>

----------------------------------------------------------------------------
(* The gateway's side of a delivery *)

\* The runtime and the directory, which a group's first event fills.
Connect ==
    /\ ~connected /\ connected' = TRUE
    /\ UNCHANGED <<timerVars, known, status, callVars, faults>>
Disconnect ==
    /\ connected /\ Fault /\ connected' = FALSE
    /\ UNCHANGED <<timerVars, known, status, callVars>>
RegisterGroup ==
    /\ connected /\ ~known /\ known' = TRUE
    /\ UNCHANGED <<timerVars, connected, status, callVars, faults>>

Move(c, pc) == call' = [call EXCEPT ![c].pc = pc]

\* The gateway's response reaches the tool unless it has stopped waiting.
Answered(c, a) ==
    answer' = [answer EXCEPT ![c] = IF @ = "waiting" THEN a ELSE @]

\* execute_autonomy_tool of a run posts the message.
CallTool(c) ==
    /\ call[c].pc = "idle"
    /\ runs[call[c].key] > 0
    /\ Move(c, "posted")
    /\ answer' = [answer EXCEPT ![c] = "waiting"]
    /\ UNCHANGED <<timerVars, gatewayVars, accepted, doubted, faults>>

\* send_proactive_message up to claim_proactive, which runs without a pause.
Refused(c) ==
    /\ call[c].pc = "posted"
    /\ ~(connected /\ known)
    /\ Move(c, "done") /\ Answered(c, "rejected")
    /\ UNCHANGED <<timerVars, gatewayVars, accepted, doubted, faults>>

Duplicate(c) ==
    /\ call[c].pc = "posted"
    /\ connected /\ known
    /\ status[call[c].key] \in {"sending", "sent"}
    /\ Move(c, "done") /\ Answered(c, "duplicate")
    /\ UNCHANGED <<timerVars, gatewayVars, accepted, doubted, faults>>

\* Mutant: a delivery under way does not keep the key.
ClaimAgain(c) ==
    /\ call[c].pc = "posted"
    /\ connected /\ known
    /\ status[call[c].key] # "sent"
    /\ status' = [status EXCEPT ![call[c].key] = IF @ = "none" THEN "sending" ELSE @]
    /\ Move(c, "sending")
    /\ UNCHANGED <<timerVars, connected, known, answer, accepted, doubted, faults>>

\* A new key is claimed; a failed one is sent again as it is found.
ClaimProactive(c) ==
    /\ call[c].pc = "posted"
    /\ connected /\ known
    /\ status[call[c].key] \in {"none", "failed"}
    /\ status' = [status EXCEPT ![call[c].key] = IF @ = "none" THEN "sending" ELSE @]
    /\ Move(c, "sending")
    /\ UNCHANGED <<timerVars, connected, known, answer, accepted, doubted, faults>>

\* send_proactive_group_message: QQ takes the message,
Accept(c) ==
    /\ call[c].pc = "sending"
    /\ accepted' = [accepted EXCEPT ![call[c].key] = @ + 1]
    /\ Move(c, "accepted")
    /\ UNCHANGED <<timerVars, gatewayVars, answer, doubted, faults>>

\* Mutant: one attempt too many.
TryOnceMore(c) ==
    /\ call[c].pc \in {"sending", "accepted"}
    /\ Fault
    /\ doubted' = doubted \cup {call[c].key}
    /\ call' = [call EXCEPT ![c].tries = @ + 1,
                            ![c].pc = IF call[c].tries + 1 > Attempts THEN "raised" ELSE "sending"]
    /\ UNCHANGED <<timerVars, gatewayVars, answer, accepted>>

\* or answers 401, 429 or 5xx, which is tried again,
TryAgain(c) ==
    /\ call[c].pc \in {"sending", "accepted"}
    /\ Fault
    /\ doubted' = doubted \cup {call[c].key}
    /\ call' = [call EXCEPT ![c].tries = @ + 1,
                            ![c].pc = IF call[c].tries + 1 = Attempts THEN "raised" ELSE "sending"]
    /\ UNCHANGED <<timerVars, gatewayVars, answer, accepted>>

\* or refuses it, or the connection fails, perhaps after QQ has taken it.
SendRaises(c) ==
    /\ call[c].pc \in {"sending", "accepted"}
    /\ Fault
    /\ Move(c, "raised")
    /\ UNCHANGED <<timerVars, gatewayVars, answer, accepted, doubted>>

\* complete_proactive
Complete(c) ==
    /\ call[c].pc = "accepted"
    /\ status' = [status EXCEPT ![call[c].key] = "sent"]
    /\ Move(c, "done") /\ Answered(c, "sent")
    /\ UNCHANGED <<timerVars, connected, known, accepted, doubted, faults>>

\* fail_proactive
Fail(c) ==
    /\ call[c].pc = "raised"
    /\ status' = [status EXCEPT ![call[c].key] = "failed"]
    /\ doubted' = doubted \cup {call[c].key}
    /\ Move(c, "done") /\ Answered(c, "failed")
    /\ UNCHANGED <<timerVars, connected, known, accepted, faults>>

\* qq_gateway_request gives up after 20 seconds; the gateway goes on.
CallTimesOut(c) ==
    /\ answer[c] = "waiting"
    /\ Fault
    /\ answer' = [answer EXCEPT ![c] = "unavailable"]
    /\ UNCHANGED <<timerVars, gatewayVars, call, accepted, doubted>>

\* Deliveries under way end with the process; their rows stay.
GatewayCrashes ==
    /\ Fault
    /\ connected' = FALSE
    /\ call' = [c \in Calls |-> IF call[c].pc = "idle" THEN call[c] ELSE [call[c] EXCEPT !.pc = "done"]]
    /\ answer' = [c \in Calls |-> IF answer[c] = "waiting" THEN "unavailable" ELSE answer[c]]
    /\ UNCHANGED <<timerVars, known, status, accepted, doubted>>

Deliver(c) ==
    Refused(c) \/ Duplicate(c) \/ ClaimProactive(c) \/ Accept(c) \/ Complete(c) \/ Fail(c)

Next ==
    \/ \E k \in Keys : CreateSchedule(k)
    \/ \E p \in Apis : SelectDue(p) \/ ClaimDue(p) \/ LoopFails(p)
    \/ \E p \in Apis, k \in Keys : StartRun(p, k) \/ RunRefused(p, k)
    \/ Connect \/ Disconnect \/ RegisterGroup \/ GatewayCrashes
    \/ \E c \in Calls : CallTool(c) \/ Deliver(c) \/ TryAgain(c) \/ SendRaises(c) \/ CallTimesOut(c)

Spec == Init /\ [][Next]_vars

\* The schedule loops and the gateway's handlers run.
Fairness ==
    /\ \A p \in Apis : /\ WF_vars(SelectDue(p)) /\ WF_vars(ClaimDue(p))
                       /\ \A k \in Keys : WF_vars(StartRun(p, k))
    /\ \A c \in Calls : WF_vars(Deliver(c))
FairSpec == Spec /\ Fairness

----------------------------------------------------------------------------
(* Properties *)

\* Type invariant.
TypeOK ==
    /\ schedule \in [Keys -> {"none", "enabled", "triggered"}]
    /\ selected \in [Apis -> SUBSET Keys] /\ batch \in [Apis -> SUBSET Keys]
    /\ runs \in [Keys -> Nat] /\ accepted \in [Keys -> Nat]
    /\ connected \in BOOLEAN /\ known \in BOOLEAN
    /\ status \in [Keys -> {"none", "sending", "sent", "failed"}]
    /\ call \in [Calls -> [pc : {"idle", "posted", "sending", "accepted", "raised", "done"},
                           key : Keys, tries : 0..Attempts]]
    /\ answer \in [Calls -> {"none", "waiting", "rejected", "duplicate", "sent", "failed", "unavailable"}]
    /\ faults \in 0..MaxFaults /\ lost \in SUBSET Keys /\ doubted \in SUBSET Keys

\* A timer starts one run at most, whatever the schedule loops of several API
\* processes read at the same time, and whichever of them fails.
OneRunPerTimer ==
    \A k \in Keys : runs[k] + Cardinality({p \in Apis : k \in batch[p]}) <= 1

\* A message reaches the group once for its key: not again when the run is executed
\* again, when the tool gave up waiting, when calls overlap or the gateway restarted.
\* It can be repeated only after QQ answered with an error or a delivery failed.
RepeatedOnlyAfterFailure ==
    \A k \in Keys : accepted[k] > 1 => k \in doubted

\* A timer gets its run, or was consumed by a refusal, an exception or a crash.
DueTimersRun ==
    \A k \in Keys : (schedule[k] = "enabled") ~> (runs[k] > 0 \/ k \in lost)

\* (Violated) docs/autonomous-qq-agent-design.md:49: a delivery that succeeded is
\* recorded as sent, and stays so.
SentIsFinal ==
    [][\A k \in Keys : status[k] = "sent" => status'[k] = "sent"]_vars
=============================================================================
