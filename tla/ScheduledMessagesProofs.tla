----------------------- MODULE ScheduledMessagesProofs -----------------------
(* Theorems about ScheduledMessages, for all its constants. *)
EXTENDS ScheduledMessages, FiniteSetTheorems, TLAPS

-----------------------------------------------------------------------------
(* Type correctness *)

Steps == {"idle", "posted", "sending", "accepted", "raised", "done"}
CallRow == [pc : Steps, key : Keys, tries : 0..Attempts]

\* A call that is sent has an attempt left; it has made none before.
AttemptsLeft ==
  \A c \in Calls : /\ call[c].pc \in {"sending", "accepted"} => call[c].tries < Attempts
                   /\ call[c].pc \in {"idle", "posted"} => call[c].tries = 0
Typed == TypeOK /\ AttemptsLeft

LEMMA CallFields ==
  \A x \in CallRow : /\ x.pc \in Steps /\ x.key \in Keys /\ x.tries \in 0..Attempts
                     /\ \A pc \in Steps : [x EXCEPT !.pc = pc] \in CallRow
BY DEF CallRow

LEMMA CallTyped == TypeOK => call \in [Calls -> CallRow]
BY DEF TypeOK, CallRow, Steps

LEMMA MoveTyped ==
  ASSUME TypeOK, NEW c \in Calls, NEW pc \in Steps, Move(c, pc)
  PROVE  /\ call' \in [Calls -> CallRow]
         /\ call' = [call EXCEPT ![c] = [call[c] EXCEPT !.pc = pc]]
         /\ call'[c].pc = pc /\ call'[c].key = call[c].key /\ call'[c].tries = call[c].tries
         /\ \A b \in Calls : b # c => call'[b] = call[b]
<1>1. call \in [Calls -> CallRow] /\ call[c] \in CallRow
  BY CallTyped
<1>2. call' = [call EXCEPT ![c] = [call[c] EXCEPT !.pc = pc]]
  BY DEF Move
<1>3. [call[c] EXCEPT !.pc = pc] \in CallRow
  BY <1>1, CallFields
<1>4. call' \in [Calls -> CallRow] /\ call'[c] = [call[c] EXCEPT !.pc = pc]
  BY <1>1, <1>2, <1>3
<1>5. /\ call'[c].pc = pc /\ call'[c].key = call[c].key /\ call'[c].tries = call[c].tries
  BY <1>1, <1>4 DEF CallRow
<1> QED  BY <1>1, <1>2, <1>4, <1>5

LEMMA InitTyped == Init => Typed
<1> SUFFICES ASSUME Init  PROVE Typed
  OBVIOUS
<1>1. ASSUME NEW k \in Keys
      PROVE  [pc |-> "idle", key |-> k, tries |-> 0] \in CallRow
  BY AttemptsAssumption DEF CallRow, Steps
<1>2. call \in [Calls -> CallRow]
  BY <1>1 DEF Init
<1>3. AttemptsLeft
  BY AttemptsAssumption DEF Init, AttemptsLeft
<1>4. 0 \in 0..MaxFaults /\ 0 \in Nat
  BY MaxFaultsAssumption
<1>5. /\ schedule \in [Keys -> {"none", "enabled", "triggered"}]
      /\ selected \in [Apis -> SUBSET Keys] /\ batch \in [Apis -> SUBSET Keys]
      /\ runs \in [Keys -> Nat] /\ accepted \in [Keys -> Nat]
  BY <1>4 DEF Init
<1>6. /\ connected \in BOOLEAN /\ known \in BOOLEAN
      /\ status \in [Keys -> {"none", "sending", "sent", "failed"}]
      /\ answer \in [Calls -> {"none", "waiting", "rejected", "duplicate", "sent", "failed",
                               "unavailable"}]
      /\ faults \in 0..MaxFaults /\ lost \in SUBSET Keys /\ doubted \in SUBSET Keys
  BY <1>4 DEF Init
<1> QED  BY <1>2, <1>3, <1>5, <1>6 DEF Typed, TypeOK, CallRow, Steps

\* The steps of a timer leave the calls alone,
LEMMA TimerTyped ==
  ASSUME Typed, UNCHANGED <<gatewayVars, callVars>>,
         schedule' \in [Keys -> {"none", "enabled", "triggered"}],
         selected' \in [Apis -> SUBSET Keys], batch' \in [Apis -> SUBSET Keys],
         runs' \in [Keys -> Nat], faults' \in 0..MaxFaults, lost' \in SUBSET Keys
  PROVE  Typed'
BY DEF Typed, TypeOK, AttemptsLeft, gatewayVars, callVars

\* and the steps of the gateway the timers.
LEMMA GatewayTyped ==
  ASSUME Typed, UNCHANGED timerVars,
         connected' \in BOOLEAN, known' \in BOOLEAN,
         status' \in [Keys -> {"none", "sending", "sent", "failed"}],
         call' \in [Calls -> CallRow], AttemptsLeft',
         answer' \in [Calls -> {"none", "waiting", "rejected", "duplicate", "sent", "failed",
                                "unavailable"}],
         accepted' \in [Keys -> Nat], faults' \in 0..MaxFaults, doubted' \in SUBSET Keys
  PROVE  Typed'
BY DEF Typed, TypeOK, timerVars, CallRow, Steps

LEMMA FaultTyped == Typed /\ Fault => faults' \in 0..MaxFaults
BY MaxFaultsAssumption DEF Typed, TypeOK, Fault

TimerStep ==
  \/ \E k \in Keys : CreateSchedule(k)
  \/ \E p \in Apis : SelectDue(p) \/ ClaimDue(p) \/ LoopFails(p)
  \/ \E p \in Apis, k \in Keys : StartRun(p, k) \/ RunRefused(p, k)

LEMMA TimerStepTyped == Typed /\ TimerStep => Typed' /\ UNCHANGED <<gatewayVars, callVars>>
<1> SUFFICES ASSUME Typed, TimerStep  PROVE Typed' /\ UNCHANGED <<gatewayVars, callVars>>
  OBVIOUS
<1> USE DEF Typed, TypeOK
<1>1. ASSUME NEW k \in Keys, CreateSchedule(k)
      PROVE  Typed' /\ UNCHANGED <<gatewayVars, callVars>>
  BY <1>1, TimerTyped DEF CreateSchedule
<1>2. ASSUME NEW p \in Apis, SelectDue(p)
      PROVE  Typed' /\ UNCHANGED <<gatewayVars, callVars>>
  <2>1. selected' \in [Apis -> SUBSET Keys]
    BY <1>2 DEF SelectDue
  <2> QED  BY <1>2, <2>1, TimerTyped DEF SelectDue
<1>3. ASSUME NEW p \in Apis, ClaimDue(p)
      PROVE  Typed' /\ UNCHANGED <<gatewayVars, callVars>>
  <2>1. selected' \in [Apis -> SUBSET Keys] /\ batch' \in [Apis -> SUBSET Keys]
    BY <1>3 DEF ClaimDue
  <2>2. schedule' \in [Keys -> {"none", "enabled", "triggered"}]
    BY <1>3 DEF ClaimDue
  <2> QED  BY <1>3, <2>1, <2>2, TimerTyped DEF ClaimDue
<1>4. ASSUME NEW p \in Apis, LoopFails(p)
      PROVE  Typed' /\ UNCHANGED <<gatewayVars, callVars>>
  <2>1. /\ selected' \in [Apis -> SUBSET Keys] /\ batch' \in [Apis -> SUBSET Keys]
        /\ lost' \in SUBSET Keys
    BY <1>4 DEF LoopFails
  <2> QED  BY <1>4, <2>1, TimerTyped, FaultTyped DEF LoopFails
<1>5. ASSUME NEW p \in Apis, NEW k \in Keys, StartRun(p, k)
      PROVE  Typed' /\ UNCHANGED <<gatewayVars, callVars>>
  <2>1. batch' \in [Apis -> SUBSET Keys] /\ runs' \in [Keys -> Nat]
    BY <1>5 DEF StartRun
  <2> QED  BY <1>5, <2>1, TimerTyped DEF StartRun
<1>6. ASSUME NEW p \in Apis, NEW k \in Keys, RunRefused(p, k)
      PROVE  Typed' /\ UNCHANGED <<gatewayVars, callVars>>
  <2>1. batch' \in [Apis -> SUBSET Keys] /\ lost' \in SUBSET Keys
    BY <1>6 DEF RunRefused
  <2> QED  BY <1>6, <2>1, TimerTyped, FaultTyped DEF RunRefused
<1> QED  BY <1>1, <1>2, <1>3, <1>4, <1>5, <1>6 DEF TimerStep

\* Calls that move take their attempts along.
LEMMA MoveKeepsAttempts ==
  ASSUME Typed, NEW c \in Calls, NEW pc \in Steps, Move(c, pc),
         pc \in {"sending", "accepted"} => call[c].pc \in {"posted", "sending", "accepted"},
         pc = "posted" => call[c].pc = "idle", pc # "idle"
  PROVE  AttemptsLeft'
<1> SUFFICES ASSUME NEW b \in Calls
             PROVE  /\ call'[b].pc \in {"sending", "accepted"} => call'[b].tries < Attempts
                    /\ call'[b].pc \in {"idle", "posted"} => call'[b].tries = 0
  BY DEF AttemptsLeft
<1>1. CASE b = c
  BY <1>1, MoveTyped, AttemptsAssumption DEF Typed, AttemptsLeft
<1>2. CASE b # c
  BY <1>2, MoveTyped DEF Typed, AttemptsLeft
<1> QED  BY <1>1, <1>2

LEMMA AnsweredTyped ==
  ASSUME Typed, NEW c \in Calls, NEW a \in {"rejected", "duplicate", "sent", "failed"},
         Answered(c, a)
  PROVE  answer' \in [Calls -> {"none", "waiting", "rejected", "duplicate", "sent", "failed",
                                "unavailable"}]
BY DEF Typed, TypeOK, Answered

CallStep(c) == CallTool(c) \/ Deliver(c) \/ TryAgain(c) \/ SendRaises(c) \/ CallTimesOut(c)

\* An attempt QQ answered with an error; the last one raises.
LEMMA TryAgainTyped ==
  ASSUME Typed, NEW c \in Calls, TryAgain(c)
  PROVE  /\ Typed'
         /\ call'[c].pc \in {"sending", "raised"} /\ call'[c].key = call[c].key
         /\ \A b \in Calls : b # c => call'[b] = call[b]
<1> DEFINE x == [call[c] EXCEPT !.tries = @ + 1,
                    !.pc = IF call[c].tries + 1 = Attempts THEN "raised" ELSE "sending"]
<1>1. call \in [Calls -> CallRow] /\ call[c] \in CallRow
  BY CallTyped DEF Typed
<1>2. call[c].tries \in Nat /\ call[c].tries < Attempts
  BY <1>1 DEF CallRow, TryAgain, Typed, AttemptsLeft
<1>3. /\ x \in CallRow /\ x.pc \in {"sending", "raised"} /\ x.key = call[c].key
      /\ x.pc = "sending" => x.tries < Attempts
  <2>1. x.key = call[c].key /\ x.key \in Keys
    BY <1>1 DEF CallRow
  <2>2. x.tries = call[c].tries + 1 /\ x.tries \in 0..Attempts
    BY <1>1, <1>2, AttemptsAssumption DEF CallRow
  <2>3. x.pc = IF call[c].tries + 1 = Attempts THEN "raised" ELSE "sending"
    BY <1>1 DEF CallRow
  <2>5. x \in [pc : Steps, key : Keys, tries : 0..Attempts]
    <3>1. ASSUME NEW u \in CallRow, NEW n \in 0..Attempts, NEW s \in Steps
          PROVE  [u EXCEPT !.tries = n, !.pc = s] \in CallRow
      BY DEF CallRow
    <3> DEFINE s == IF call[c].tries + 1 = Attempts THEN "raised" ELSE "sending"
    <3>2. s \in Steps /\ call[c].tries + 1 \in 0..Attempts
      BY <1>2, AttemptsAssumption DEF Steps
    <3>3. x = [call[c] EXCEPT !.tries = call[c].tries + 1, !.pc = s]
      BY Zenon
    <3> HIDE DEF s, x
    <3> QED  BY <1>1, <3>1, <3>2, <3>3 DEF CallRow
  <2> HIDE DEF x
  <2> QED  BY <1>2, <2>1, <2>2, <2>3, <2>5, AttemptsAssumption DEF CallRow, Steps
<1>4. call' = [call EXCEPT ![c] = x]
  BY DEF TryAgain
<1> HIDE DEF x
<1>5. call' \in [Calls -> CallRow] /\ call'[c] = x /\ \A b \in Calls : b # c => call'[b] = call[b]
  BY <1>1, <1>3, <1>4
<1>6. AttemptsLeft'
  BY <1>3, <1>5 DEF Typed, AttemptsLeft
<1>7. doubted' \in SUBSET Keys
  BY <1>1, CallFields DEF TryAgain, Typed, TypeOK
<1>8. Typed'
  BY <1>5, <1>6, <1>7, FaultTyped, GatewayTyped DEF TryAgain, Typed, TypeOK, gatewayVars
<1> QED  BY <1>3, <1>5, <1>8

LEMMA CallStepTyped == ASSUME Typed, NEW c \in Calls, CallStep(c)  PROVE Typed'
<1> USE DEF Typed
<1>0. call \in [Calls -> CallRow] /\ call[c] \in CallRow /\ call[c].key \in Keys
  BY CallTyped, CallFields
<1>1. CASE CallTool(c)
  <2>1. call' \in [Calls -> CallRow] /\ AttemptsLeft'
    BY <1>1, MoveTyped, MoveKeepsAttempts DEF CallTool, Steps
  <2>2. answer' \in [Calls -> {"none", "waiting", "rejected", "duplicate", "sent", "failed",
                               "unavailable"}]
    BY <1>1 DEF CallTool, TypeOK
  <2> QED  BY <1>1, <2>1, <2>2, GatewayTyped DEF CallTool, TypeOK, gatewayVars
<1>2. CASE Refused(c) \/ Duplicate(c)
  <2>1. Move(c, "done") /\ "done" \in Steps
    BY <1>2 DEF Refused, Duplicate, Steps
  <2>2. call' \in [Calls -> CallRow] /\ AttemptsLeft'
    BY <2>1, MoveTyped, MoveKeepsAttempts
  <2>3. answer' \in [Calls -> {"none", "waiting", "rejected", "duplicate", "sent", "failed",
                               "unavailable"}]
    BY <1>2, AnsweredTyped DEF Refused, Duplicate
  <2> QED  BY <1>2, <2>2, <2>3, GatewayTyped DEF Refused, Duplicate, TypeOK, gatewayVars
<1>3. CASE ClaimProactive(c)
  <2>1. call' \in [Calls -> CallRow] /\ AttemptsLeft'
    BY <1>3, MoveTyped, MoveKeepsAttempts DEF ClaimProactive, Steps
  <2>2. status' \in [Keys -> {"none", "sending", "sent", "failed"}]
    BY <1>0, <1>3 DEF ClaimProactive, TypeOK
  <2> QED  BY <1>3, <2>1, <2>2, GatewayTyped DEF ClaimProactive, TypeOK
<1>4. CASE Accept(c)
  <2>1. call' \in [Calls -> CallRow] /\ AttemptsLeft'
    BY <1>4, MoveTyped, MoveKeepsAttempts DEF Accept, Steps
  <2>2. accepted' \in [Keys -> Nat]
    BY <1>0, <1>4 DEF Accept, TypeOK
  <2> QED  BY <1>4, <2>1, <2>2, GatewayTyped DEF Accept, TypeOK, gatewayVars
<1>5. CASE Complete(c)
  <2>1. Move(c, "done") /\ "done" \in Steps
    BY <1>5 DEF Complete, Steps
  <2>2. call' \in [Calls -> CallRow] /\ AttemptsLeft'
    BY <2>1, MoveTyped, MoveKeepsAttempts
  <2>3. answer' \in [Calls -> {"none", "waiting", "rejected", "duplicate", "sent", "failed",
                               "unavailable"}]
    BY <1>5, AnsweredTyped DEF Complete
  <2>4. status' \in [Keys -> {"none", "sending", "sent", "failed"}]
    BY <1>0, <1>5 DEF Complete, TypeOK
  <2> QED  BY <1>5, <2>2, <2>3, <2>4, GatewayTyped DEF Complete, TypeOK
<1>6. CASE Fail(c)
  <2>1. Move(c, "done") /\ "done" \in Steps
    BY <1>6 DEF Fail, Steps
  <2>2. call' \in [Calls -> CallRow] /\ AttemptsLeft'
    BY <2>1, MoveTyped, MoveKeepsAttempts
  <2>3. answer' \in [Calls -> {"none", "waiting", "rejected", "duplicate", "sent", "failed",
                               "unavailable"}]
    BY <1>6, AnsweredTyped DEF Fail
  <2>4. /\ status' \in [Keys -> {"none", "sending", "sent", "failed"}]
        /\ doubted' \in SUBSET Keys
    BY <1>0, <1>6 DEF Fail, TypeOK
  <2> QED  BY <1>6, <2>2, <2>3, <2>4, GatewayTyped DEF Fail, TypeOK
<1>7. CASE TryAgain(c)
  BY <1>7, TryAgainTyped
<1>8. CASE SendRaises(c)
  <2>1. call' \in [Calls -> CallRow] /\ AttemptsLeft'
    BY <1>8, MoveTyped, MoveKeepsAttempts DEF SendRaises, Steps
  <2> QED  BY <1>8, <2>1, FaultTyped, GatewayTyped DEF SendRaises, TypeOK, gatewayVars
<1>9. CASE CallTimesOut(c)
  <2>1. answer' \in [Calls -> {"none", "waiting", "rejected", "duplicate", "sent", "failed",
                               "unavailable"}]
    BY <1>9 DEF CallTimesOut, TypeOK
  <2>2. AttemptsLeft'
    BY <1>9 DEF CallTimesOut, AttemptsLeft
  <2> QED  BY <1>0, <1>9, <2>1, <2>2, FaultTyped, GatewayTyped DEF CallTimesOut, TypeOK, gatewayVars
<1> QED  BY <1>1, <1>2, <1>3, <1>4, <1>5, <1>6, <1>7, <1>8, <1>9 DEF CallStep, Deliver

\* A call whose gateway has gone is over, unless it was not made yet.
LEMMA CrashTyped ==
  ASSUME Typed, GatewayCrashes
  PROVE  /\ Typed'
         /\ \A c \in Calls : /\ call'[c].key = call[c].key
                             /\ call'[c].pc \in {"idle", "done"}
<1>1. call \in [Calls -> CallRow]
  BY CallTyped DEF Typed
<1>2. ASSUME NEW c \in Calls
      PROVE  /\ call'[c] \in CallRow /\ call'[c].key = call[c].key
             /\ call'[c].pc \in {"idle", "done"}
             /\ call'[c].pc = "idle" => call'[c].tries = 0
  <2>1. CASE call[c].pc = "idle"
    BY <1>1, <2>1 DEF GatewayCrashes, Typed, AttemptsLeft
  <2>2. CASE call[c].pc # "idle"
    <3>1. call'[c] = [call[c] EXCEPT !.pc = "done"] /\ call[c] \in CallRow
      BY <1>1, <2>2 DEF GatewayCrashes
    <3> QED  BY <3>1 DEF CallRow, Steps
  <2> QED  BY <2>1, <2>2
<1>3. call' \in [Calls -> CallRow]
  BY <1>2 DEF GatewayCrashes
<1>4. AttemptsLeft'
  BY <1>2 DEF AttemptsLeft
<1>5. answer' \in [Calls -> {"none", "waiting", "rejected", "duplicate", "sent", "failed",
                             "unavailable"}]
  BY DEF GatewayCrashes, Typed, TypeOK
<1>6. Typed'
  BY <1>3, <1>4, <1>5, FaultTyped, GatewayTyped DEF GatewayCrashes, Typed, TypeOK
<1> QED  BY <1>2, <1>6

LEMMA ConnectionTyped ==
  Typed /\ (Connect \/ Disconnect \/ RegisterGroup) => Typed'
BY FaultTyped DEF Connect, Disconnect, RegisterGroup, Typed, TypeOK, AttemptsLeft,
   timerVars, callVars

LEMMA NextCases ==
  Next <=> \/ TimerStep
           \/ Connect \/ Disconnect \/ RegisterGroup \/ GatewayCrashes
           \/ \E c \in Calls : CallStep(c)
BY Zenon DEF Next, TimerStep, CallStep

LEMMA NextTyped == Typed /\ [Next]_vars => Typed'
<1> SUFFICES ASSUME Typed, [Next]_vars  PROVE Typed'
  OBVIOUS
<1>1. CASE UNCHANGED vars
  BY <1>1 DEF vars, timerVars, gatewayVars, callVars, Typed, TypeOK, AttemptsLeft
<1> QED
  BY <1>1, NextCases, TimerStepTyped, ConnectionTyped, CrashTyped, CallStepTyped

\* Every variable keeps its type: no call makes more attempts than it has.
THEOREM TypeCorrect == Spec => []TypeOK
<1>1. Typed => TypeOK
  BY DEF Typed
<1> QED  BY <1>1, InitTyped, NextTyped, PTL DEF Spec

-----------------------------------------------------------------------------
(* Timers *)

\* A timer that is not triggered was not taken; a loop that has it is alone with
\* it, and has not started its run.
TimerInv ==
  \A k \in Keys :
    /\ schedule[k] # "triggered" => runs[k] = 0 /\ \A p \in Apis : k \notin batch[p]
    /\ \A p \in Apis : k \in batch[p] => runs[k] = 0
    /\ \A p, q \in Apis : k \in batch[p] /\ k \in batch[q] => p = q
    /\ runs[k] <= 1

LEMMA TimerInvStep == Typed /\ TimerInv /\ [Next]_vars => TimerInv'
<1> SUFFICES ASSUME Typed, TimerInv, [Next]_vars  PROVE TimerInv'
  OBVIOUS
<1>0. /\ schedule \in [Keys -> {"none", "enabled", "triggered"}]
      /\ batch \in [Apis -> SUBSET Keys] /\ runs \in [Keys -> Nat]
      /\ selected \in [Apis -> SUBSET Keys]
  BY DEF Typed, TypeOK
<1>1. ASSUME NEW k \in Keys, CreateSchedule(k)
      PROVE  TimerInv'
  BY <1>0, <1>1 DEF CreateSchedule, TimerInv
<1>2. ASSUME NEW p \in Apis, SelectDue(p)
      PROVE  TimerInv'
  BY <1>2 DEF SelectDue, TimerInv
<1>3. ASSUME NEW p \in Apis, ClaimDue(p)
      PROVE  TimerInv'
  <2> DEFINE mine == {k \in selected[p] : schedule[k] # "triggered"}
  <2>1. /\ \A k \in mine : k \in Keys /\ schedule[k] # "triggered"
        /\ batch' = [batch EXCEPT ![p] = mine] /\ runs' = runs
        /\ \A k \in Keys : schedule'[k] = IF k \in mine THEN "triggered" ELSE schedule[k]
    BY <1>0, <1>3 DEF ClaimDue
  <2>2. batch'[p] = mine /\ \A q \in Apis : q # p => batch'[q] = batch[q]
    BY <1>0, <2>1
  <2> HIDE DEF mine
  <2> SUFFICES ASSUME NEW k \in Keys
               PROVE  /\ schedule'[k] # "triggered"
                           => runs'[k] = 0 /\ \A q \in Apis : k \notin batch'[q]
                      /\ \A q \in Apis : k \in batch'[q] => runs'[k] = 0
                      /\ \A q, s \in Apis : k \in batch'[q] /\ k \in batch'[s] => q = s
                      /\ runs'[k] <= 1
    BY DEF TimerInv
  <2>3. CASE k \in mine
    <3>1. runs[k] = 0 /\ \A q \in Apis : k \notin batch[q]
      BY <2>1, <2>3 DEF TimerInv
    <3> QED  BY <2>1, <2>2, <2>3, <3>1
  <2>4. CASE k \notin mine
    <3>1. \A q \in Apis : k \in batch'[q] => k \in batch[q]
      BY <2>2, <2>4
    <3> QED  BY <2>1, <2>4, <3>1 DEF TimerInv
  <2> QED  BY <2>3, <2>4
<1>4. ASSUME NEW p \in Apis, LoopFails(p)
      PROVE  TimerInv'
  <2>1. \A q \in Apis : batch'[q] \subseteq batch[q]
    BY <1>0, <1>4 DEF LoopFails
  <2> QED  BY <1>4, <2>1 DEF LoopFails, TimerInv
<1>5. ASSUME NEW p \in Apis, NEW k \in Keys, StartRun(p, k)
      PROVE  TimerInv'
  <2>1. /\ \A q \in Apis : batch'[q] \subseteq batch[q]
        /\ k \in batch[p] /\ k \notin batch'[p] /\ schedule' = schedule
        /\ runs'[k] = runs[k] + 1 /\ \A j \in Keys : j # k => runs'[j] = runs[j]
    BY <1>0, <1>5 DEF StartRun
  <2>2. /\ schedule[k] = "triggered" /\ runs[k] = 0
        /\ \A q \in Apis : k \in batch[q] => q = p
    BY <2>1 DEF TimerInv
  <2>3. \A q \in Apis : k \notin batch'[q]
    BY <2>1, <2>2
  <2> QED  BY <2>1, <2>2, <2>3 DEF TimerInv
<1>6. ASSUME NEW p \in Apis, NEW k \in Keys, RunRefused(p, k)
      PROVE  TimerInv'
  <2>1. \A q \in Apis : batch'[q] \subseteq batch[q]
    BY <1>0, <1>6 DEF RunRefused
  <2> QED  BY <1>6, <2>1 DEF RunRefused, TimerInv
<1>7. CASE UNCHANGED timerVars
  BY <1>7 DEF timerVars, TimerInv
<1>8. CASE TimerStep
  BY <1>1, <1>2, <1>3, <1>4, <1>5, <1>6, <1>8 DEF TimerStep
<1>9. ASSUME NEW c \in Calls, CallStep(c)
      PROVE  UNCHANGED timerVars
  BY <1>9 DEF CallStep, CallTool, Deliver, Refused, Duplicate, ClaimProactive, Accept, Complete,
     Fail, TryAgain, SendRaises, CallTimesOut
<1>10. Connect \/ Disconnect \/ RegisterGroup \/ GatewayCrashes \/ UNCHANGED vars
          => UNCHANGED timerVars
  BY DEF Connect, Disconnect, RegisterGroup, GatewayCrashes, vars
<1> QED  BY <1>7, <1>8, <1>9, <1>10, NextCases

\* A timer starts one run at most, whichever loops read it and fail: the row is
\* claimed only while it is not triggered, and the claim is one transaction.
THEOREM TimersStartOnce == Spec => []OneRunPerTimer
<1>1. Init => TimerInv
  BY DEF Init, TimerInv
<1>2. Typed /\ TimerInv => OneRunPerTimer
  <2> SUFFICES ASSUME Typed, TimerInv, NEW k \in Keys
               PROVE  runs[k] + Cardinality({p \in Apis : k \in batch[p]}) <= 1
    BY DEF OneRunPerTimer
  <2>1. runs[k] \in Nat /\ runs[k] <= 1
    BY DEF TimerInv, Typed, TypeOK
  <2>2. CASE \E p \in Apis : k \in batch[p]
    <3>1. PICK p \in Apis : k \in batch[p]
      BY <2>2
    <3>2. {q \in Apis : k \in batch[q]} = {p} /\ runs[k] = 0
      BY <3>1 DEF TimerInv
    <3>3. Cardinality({p}) = 1
      BY FS_Singleton, Zenon
    <3> QED  BY <3>2, <3>3
  <2>3. CASE \A p \in Apis : k \notin batch[p]
    <3>1. {q \in Apis : k \in batch[q]} = {}
      BY <2>3
    <3> QED  BY <2>1, <3>1, FS_EmptySet
  <2> QED  BY <2>2, <2>3
<1> QED  BY <1>1, <1>2, InitTyped, NextTyped, TimerInvStep, PTL DEF Spec

-----------------------------------------------------------------------------
(* Messages *)

Busy(c) == call[c].pc \in {"sending", "accepted", "raised"}

\* The first delivery of a key is alone while it lasts: the row says so.
MessageInv ==
  \A k \in Keys \ doubted :
    /\ status[k] # "failed" /\ accepted[k] <= 1
    /\ status[k] = "none" => accepted[k] = 0
    /\ \A c \in Calls : Busy(c) /\ call[c].key = k =>
         /\ status[k] = "sending"
         /\ call[c].pc = "sending" => accepted[k] = 0
         /\ \A b \in Calls : Busy(b) /\ call[b].key = k => b = c

\* Steps that send nothing and begin no delivery.
LEMMA QuietMessages ==
  ASSUME Typed, MessageInv, UNCHANGED <<status, accepted>>, doubted \subseteq doubted',
         \A c \in Calls : \/ call'[c].pc \notin {"sending", "accepted", "raised"}
                          \/ call'[c].key = call[c].key /\ call'[c].pc = call[c].pc
                          \/ call'[c].key = call[c].key /\ Busy(c) /\ call'[c].pc = "raised"
  PROVE  MessageInv'
<1>1. \A c \in Calls : Busy(c)' => /\ Busy(c) /\ call'[c].key = call[c].key
                                   /\ call'[c].pc = "sending" => call[c].pc = "sending"
  BY DEF Busy
<1> QED  BY <1>1 DEF MessageInv

LEMMA CallStepMessages ==
  ASSUME Typed, MessageInv, NEW c \in Calls, CallStep(c)
  PROVE  MessageInv'
<1> DEFINE k == call[c].key
<1>0. /\ call \in [Calls -> CallRow] /\ k \in Keys
      /\ status \in [Keys -> {"none", "sending", "sent", "failed"}] /\ accepted \in [Keys -> Nat]
  BY CallTyped, CallFields DEF Typed, TypeOK
<1>m. ASSUME NEW pc \in Steps, Move(c, pc)
      PROVE  /\ call'[c].pc = pc /\ call'[c].key = k
             /\ \A b \in Calls : b # c => call'[b] = call[b]
  BY <1>m, MoveTyped DEF Typed
<1>1. CASE CallTool(c) \/ Refused(c) \/ Duplicate(c)
  <2>1. Move(c, "posted") \/ Move(c, "done")
    BY <1>1 DEF CallTool, Refused, Duplicate
  <2>2. call'[c].pc \in {"posted", "done"} /\ \A b \in Calls : b # c => call'[b] = call[b]
    BY <2>1, <1>m DEF Steps
  <2> QED  BY <1>1, <2>2, QuietMessages DEF CallTool, Refused, Duplicate, gatewayVars
<1>2. CASE ClaimProactive(c)
  <2>1. /\ call'[c].pc = "sending" /\ call'[c].key = k
        /\ \A b \in Calls : b # c => call'[b] = call[b]
    BY <1>2, <1>m DEF ClaimProactive, Steps
  <2>2. /\ accepted' = accepted /\ doubted' = doubted /\ status[k] \in {"none", "failed"}
        /\ \A j \in Keys : j # k => status'[j] = status[j]
        /\ status[k] = "none" => status'[k] = "sending"
    BY <1>0, <1>2 DEF ClaimProactive
  <2>3. k \notin doubted => /\ status'[k] = "sending" /\ accepted[k] = 0
                            /\ \A b \in Calls : Busy(b) => call[b].key # k
    BY <1>0, <2>2 DEF MessageInv
  <2> SUFFICES ASSUME NEW j \in Keys \ doubted
               PROVE  /\ status'[j] # "failed" /\ accepted[j] <= 1
                      /\ status'[j] = "none" => accepted[j] = 0
                      /\ \A b \in Calls : Busy(b)' /\ call'[b].key = j =>
                           /\ status'[j] = "sending"
                           /\ call'[b].pc = "sending" => accepted[j] = 0
                           /\ \A d \in Calls : Busy(d)' /\ call'[d].key = j => d = b
    BY <2>2 DEF MessageInv
  <2>4. CASE j = k
    <3>1. \A b \in Calls : Busy(b)' /\ call'[b].key = k => b = c
      BY <2>1, <2>3, <2>4 DEF Busy
    <3> QED  BY <2>3, <2>4, <3>1
  <2>5. CASE j # k
    <3>1. \A b \in Calls : Busy(b)' /\ call'[b].key = j => Busy(b) /\ call'[b] = call[b]
      BY <2>1, <2>5 DEF Busy
    <3> QED  BY <2>2, <2>5, <3>1 DEF MessageInv
  <2> QED  BY <2>4, <2>5
<1>3. CASE Accept(c)
  <2>1. /\ call[c].pc = "sending" /\ call'[c].pc = "accepted" /\ call'[c].key = k
        /\ \A b \in Calls : b # c => call'[b] = call[b]
    BY <1>3, <1>m DEF Accept, Steps
  <2>2. /\ status' = status /\ doubted' = doubted
        /\ accepted'[k] = accepted[k] + 1 /\ \A j \in Keys : j # k => accepted'[j] = accepted[j]
    BY <1>0, <1>3 DEF Accept, gatewayVars
  <2>3. /\ Busy(c) /\ \A b \in Calls : Busy(b)' <=> Busy(b)
        /\ \A b \in Calls : call'[b].key = call[b].key
    BY <2>1 DEF Busy
  <2> SUFFICES ASSUME NEW j \in Keys \ doubted
               PROVE  /\ status[j] # "failed" /\ accepted'[j] <= 1
                      /\ status[j] = "none" => accepted'[j] = 0
                      /\ \A b \in Calls : Busy(b)' /\ call'[b].key = j =>
                           /\ status[j] = "sending"
                           /\ call'[b].pc = "sending" => accepted'[j] = 0
                           /\ \A d \in Calls : Busy(d)' /\ call'[d].key = j => d = b
    BY <2>2 DEF MessageInv
  <2>4. CASE j = k
    <3>1. /\ status[k] = "sending" /\ accepted[k] = 0
          /\ \A b \in Calls : Busy(b) /\ call[b].key = k => b = c
      BY <2>1, <2>3, <2>4 DEF MessageInv
    <3> QED  BY <2>1, <2>2, <2>3, <2>4, <3>1
  <2>5. CASE j # k
    <3>1. accepted'[j] = accepted[j] /\ \A b \in Calls : call[b].key = j => call'[b] = call[b]
      BY <2>1, <2>2, <2>5
    <3> QED  BY <2>3, <3>1 DEF MessageInv
  <2> QED  BY <2>4, <2>5
<1>4. CASE Complete(c)
  <2>1. /\ call[c].pc = "accepted" /\ call'[c].pc = "done"
        /\ \A b \in Calls : b # c => call'[b] = call[b]
    BY <1>4, <1>m DEF Complete, Steps
  <2>2. /\ accepted' = accepted /\ doubted' = doubted
        /\ status'[k] = "sent" /\ \A j \in Keys : j # k => status'[j] = status[j]
    BY <1>0, <1>4 DEF Complete
  <2>3. Busy(c) /\ \A b \in Calls : Busy(b)' => Busy(b) /\ b # c /\ call'[b] = call[b]
    BY <2>1 DEF Busy
  <2> SUFFICES ASSUME NEW j \in Keys \ doubted
               PROVE  /\ status'[j] # "failed" /\ accepted[j] <= 1
                      /\ status'[j] = "none" => accepted[j] = 0
                      /\ \A b \in Calls : Busy(b)' /\ call'[b].key = j =>
                           /\ status'[j] = "sending"
                           /\ call'[b].pc = "sending" => accepted[j] = 0
                           /\ \A d \in Calls : Busy(d)' /\ call'[d].key = j => d = b
    BY <2>2 DEF MessageInv
  <2>4. CASE j = k
    <3>1. \A b \in Calls : Busy(b)' => call'[b].key # k
      BY <2>3, <2>4 DEF MessageInv
    <3> QED  BY <2>2, <2>4, <3>1 DEF MessageInv
  <2>5. CASE j # k
    BY <2>2, <2>3, <2>5 DEF MessageInv
  <2> QED  BY <2>4, <2>5
<1>5. CASE Fail(c)
  <2>1. call'[c].pc = "done" /\ \A b \in Calls : b # c => call'[b] = call[b]
    BY <1>5, <1>m DEF Fail, Steps
  <2>2. /\ accepted' = accepted /\ doubted' = doubted \cup {k}
        /\ \A j \in Keys : j # k => status'[j] = status[j]
    BY <1>0, <1>5 DEF Fail
  <2>3. \A b \in Calls : Busy(b)' => Busy(b) /\ call'[b] = call[b]
    BY <2>1 DEF Busy
  <2> QED  BY <2>2, <2>3 DEF MessageInv
<1>6. CASE TryAgain(c)
  <2>1. /\ status' = status /\ accepted' = accepted /\ doubted' = doubted \cup {k}
        /\ Busy(c)
    BY <1>6 DEF TryAgain, gatewayVars, Busy
  <2>2. /\ call'[c].pc \in {"sending", "raised"} /\ call'[c].key = k
        /\ \A b \in Calls : b # c => call'[b] = call[b]
    BY <1>6, TryAgainTyped
  <2>3. \A b \in Calls : call'[b].key # k => call'[b] = call[b] /\ (Busy(b)' <=> Busy(b))
    BY <2>2 DEF Busy
  <2> QED  BY <2>1, <2>3 DEF MessageInv
<1>7. CASE SendRaises(c)
  <2>1. /\ call'[c].pc = "raised" /\ call'[c].key = k /\ Busy(c)
        /\ \A b \in Calls : b # c => call'[b] = call[b]
    BY <1>7, <1>m DEF SendRaises, Steps, Busy
  <2> QED  BY <1>7, <2>1, QuietMessages DEF SendRaises, gatewayVars
<1>8. CASE CallTimesOut(c)
  BY <1>8, QuietMessages DEF CallTimesOut, gatewayVars
<1> QED  BY <1>1, <1>2, <1>3, <1>4, <1>5, <1>6, <1>7, <1>8 DEF CallStep, Deliver

\* The group gets a message again only after QQ answered with an error or the
\* delivery failed: the key is claimed before anything is sent, and a delivery
\* that was cut off keeps it.
THEOREM MessagesSentOnce == Spec => []RepeatedOnlyAfterFailure
<1>1. Init => MessageInv
  BY DEF Init, MessageInv, Busy
<1>2. Typed /\ MessageInv /\ [Next]_vars => MessageInv'
  <2> SUFFICES ASSUME Typed, MessageInv, [Next]_vars  PROVE MessageInv'
    OBVIOUS
  <2>1. CASE GatewayCrashes
    BY <2>1, CrashTyped, QuietMessages DEF GatewayCrashes
  <2>2. CASE TimerStep \/ Connect \/ Disconnect \/ RegisterGroup \/ UNCHANGED vars
    <3>1. UNCHANGED <<status, call, accepted, doubted>>
      BY <2>2, TimerStepTyped
      DEF Connect, Disconnect, RegisterGroup, vars, gatewayVars, callVars
    <3> QED  BY <3>1, QuietMessages
  <2> QED  BY <2>1, <2>2, CallStepMessages, NextCases
<1>3. Typed /\ MessageInv => RepeatedOnlyAfterFailure
  BY DEF MessageInv, RepeatedOnlyAfterFailure, Typed, TypeOK
<1> QED  BY <1>1, <1>2, <1>3, InitTyped, NextTyped, PTL DEF Spec
=============================================================================
