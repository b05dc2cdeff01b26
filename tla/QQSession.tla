----------------------------- MODULE QQSession -----------------------------
(***************************************************************************)
(* The connection of one Agent to QQ (qq-gateway/app/main.py, QQRuntime and *)
(* the connection commands): Hello, Identify or Resume, heartbeats, the     *)
(* sequence a resumed session continues from, reconnection after every way  *)
(* a connection can end, and the commands that replace or remove the        *)
(* runtime.  QQ itself is the environment: sessions it may expire, and the   *)
(* dispatches of a session, which it repeats from the resumed sequence on.   *)
(***************************************************************************)
EXTENDS Naturals, Sequences, SequencesExt

CONSTANTS
    MaxSessions,  \* bound: sessions QQ opens
    MaxMessages,  \* bound: dispatches of a session
    MaxFaults,    \* bound: broken or silent connections, failing handlers, expiries, restarts
    MaxCommands   \* bound: connect and disconnect requests

ASSUME BoundsAssumption ==
    /\ MaxSessions \in Nat /\ MaxFaults \in Nat /\ MaxCommands \in Nat
    /\ MaxMessages \in Nat \ {0}

NoSession == 0
\* sequence = None; READY is dispatch 1 of a session.
NoSequence == 0
Sessions == 1..MaxSessions
Dispatches == Sessions \X (1..MaxMessages)

Frames == [op : {"hello", "ready", "resumed", "message"}, s : 0..MaxMessages]
            \cup [op : {"ack", "heartbeat", "reconnect", "invalid", "invalid_resumable"}, s : {0}]
Frame(op, s) == [op |-> op, s |-> s]

VARIABLES
    row,        \* qq_connections.status, "none" without a row
    runtime,    \* the agent is in runtimes
    phase,      \* its task: "stopped", "dial", "hello", "session"
    session,    \* session_id
    sequence,
    awaitingAck,
    lock,       \* runtime_lock: "free", "connect", "disconnect"
    saved,      \* connect requests that saved their row and wait for the lock
    claimed,    \* the dispatches the inbox holds
    frames,     \* on their way from QQ
    silent,     \* the connection is half open: nothing arrives any more
    qqSession,  \* the last session QQ opened
    qqValid,    \* it can be resumed
    qqCount,    \* its dispatches
    faults, commands,
    failed      \* history: dispatches whose handler raised

runtimeVars == <<phase, session, sequence, awaitingAck>>
commandVars == <<row, runtime, lock, saved, commands>>
qqVars == <<qqSession, qqValid, qqCount>>
vars == <<runtimeVars, commandVars, claimed, frames, silent, qqVars, faults, failed>>

Init ==
    /\ row = "none" /\ runtime = FALSE
    /\ phase = "stopped" /\ session = NoSession /\ sequence = NoSequence /\ awaitingAck = FALSE
    /\ lock = "free" /\ saved = 0
    /\ claimed = {} /\ failed = {}
    /\ frames = <<>> /\ silent = FALSE
    /\ qqSession = NoSession /\ qqValid = FALSE /\ qqCount = 0
    /\ faults = 0 /\ commands = 0

\* set_connection_status updates the row of the agent, if there is one.
SetStatus(status) == row' = IF row = "none" THEN "none" ELSE status

Fault == faults < MaxFaults /\ faults' = faults + 1

\* What QQ sends on the open connection.
Arrives(s) == frames' = IF silent THEN Tail(frames) ELSE Tail(frames) \o s

----------------------------------------------------------------------------
(* QQRuntime.run: from the top of the loop to the session *)

\* gateway_url and the websocket connection.
Dial ==
    /\ phase = "dial"
    /\ SetStatus("connecting")
    /\ phase' = "hello"
    /\ frames' = <<Frame("hello", 0)>>
    /\ silent' = FALSE
    /\ UNCHANGED <<session, sequence, awaitingAck, runtime, lock, saved, commands, claimed, qqVars, faults, failed>>

\* QQ answers a Resume with the dispatches after the sequence, or refuses it.
Resumed ==
    IF qqValid /\ session = qqSession
      THEN Arrives([i \in 1..(qqCount - sequence) |-> Frame("message", sequence + i)]
                     \o <<Frame("resumed", 0)>>)
             /\ UNCHANGED qqVars
      ELSE Arrives(<<Frame("invalid", 0)>>) /\ UNCHANGED qqVars

\* QQ answers an Identify with a new session.
Identified ==
    /\ qqSession < MaxSessions
    /\ qqSession' = qqSession + 1
    /\ qqValid' = TRUE
    /\ qqCount' = 1
    /\ Arrives(<<Frame("ready", 1)>>)

\* recv waits for Hello without a timeout, and the connection is opened without pings.
Hello ==
    /\ phase = "hello"
    /\ frames # <<>> /\ Head(frames).op = "hello"
    /\ IF session # NoSession /\ sequence # NoSequence THEN Resumed ELSE Identified
    /\ SetStatus("connecting")
    /\ awaitingAck' = FALSE
    /\ phase' = "session"
    /\ UNCHANGED <<session, sequence, runtime, lock, saved, commands, claimed, silent, faults, failed>>

----------------------------------------------------------------------------
(* QQRuntime.run: the receive loop *)

Received(op) == phase = "session" /\ frames # <<>> /\ Head(frames).op = op

\* Mutant: dispatches are counted.
SequenceCounted(s) == sequence + s

\* The sequence of a dispatch is kept before anything else is done with it.
Sequenced(s) == IF s = 0 THEN sequence ELSE s

Ready ==
    /\ Received("ready")
    /\ sequence' = Sequenced(Head(frames).s)
    /\ session' = qqSession
    /\ SetStatus("connected")
    /\ frames' = Tail(frames)
    /\ UNCHANGED <<phase, awaitingAck, runtime, lock, saved, commands, claimed, silent, qqVars, faults, failed>>

ResumedDispatch ==
    /\ Received("resumed")
    /\ SetStatus("connected")
    /\ frames' = Tail(frames)
    /\ UNCHANGED <<runtimeVars, runtime, lock, saved, commands, claimed, silent, qqVars, faults, failed>>

\* Mutant: a message that comes before the session is known as connected is dropped.
MessageOfConnected ==
    /\ Received("message")
    /\ sequence' = Sequenced(Head(frames).s)
    /\ claimed' = IF row = "connected" THEN claimed \cup {<<session, Head(frames).s>>} ELSE claimed
    /\ frames' = Tail(frames)
    /\ UNCHANGED <<phase, session, awaitingAck, commandVars, silent, qqVars, faults, failed>>

\* A message is claimed in the inbox after its sequence was kept.
Message ==
    /\ Received("message")
    /\ sequence' = Sequenced(Head(frames).s)
    /\ claimed' = claimed \cup {<<session, Head(frames).s>>}
    /\ frames' = Tail(frames)
    /\ UNCHANGED <<phase, session, awaitingAck, commandVars, silent, qqVars, faults, failed>>

\* The exception handler of the loop: status error, then the next round.
Broken ==
    /\ SetStatus("error")
    /\ phase' = "dial"
    /\ frames' = <<>>
    /\ UNCHANGED <<runtime, lock, saved, commands, silent>>

\* The directory or the inbox raises on a message whose sequence is already kept.
MessageFails ==
    /\ Received("message")
    /\ Fault
    /\ sequence' = Sequenced(Head(frames).s)
    /\ failed' = failed \cup {<<session, Head(frames).s>>}
    /\ Broken
    /\ UNCHANGED <<session, awaitingAck, claimed, qqVars>>

\* Mutant: a missing acknowledgement is not noticed.
HeartbeatUnchecked ==
    /\ frames = <<>> /\ phase = "session" /\ ~awaitingAck
    /\ awaitingAck' = TRUE
    /\ frames' = IF silent THEN <<>> ELSE <<Frame("ack", 0)>>
    /\ UNCHANGED <<phase, session, sequence, commandVars, silent, claimed, qqVars, faults, failed>>

\* heartbeat_at has come: a heartbeat, or the end of a connection that has not
\* acknowledged the last one.  QQ acknowledges what reaches it.
Heartbeat ==
    /\ phase = "session"
    /\ IF awaitingAck
         THEN Broken /\ UNCHANGED awaitingAck
         ELSE /\ awaitingAck' = TRUE
              /\ frames' = IF silent THEN <<>> ELSE Append(frames, Frame("ack", 0))
              /\ UNCHANGED <<phase, commandVars, silent>>
    /\ UNCHANGED <<session, sequence, claimed, qqVars, failed>>

HeartbeatDue == frames = <<>> /\ Heartbeat /\ UNCHANGED faults

\* The interval has passed while frames wait, the acknowledgement perhaps among
\* them: wait_for with no time left does not look at them.
HeartbeatOverdue == frames # <<>> /\ Fault /\ Heartbeat

HeartbeatAsked ==
    /\ Received("heartbeat")
    /\ awaitingAck' = TRUE
    /\ Arrives(<<Frame("ack", 0)>>)
    /\ UNCHANGED <<phase, session, sequence, commandVars, claimed, silent, qqVars, faults, failed>>

Acknowledged ==
    /\ Received("ack")
    /\ awaitingAck' = FALSE
    /\ frames' = Tail(frames)
    /\ UNCHANGED <<phase, session, sequence, commandVars, claimed, silent, qqVars, faults, failed>>

\* Mutant: a refused session is kept.
CloseKeepsSession ==
    /\ \E op \in {"invalid", "invalid_resumable", "reconnect"} : Received(op)
    /\ phase' = "dial"
    /\ frames' = <<>>
    /\ UNCHANGED <<session, sequence, awaitingAck, commandVars, claimed, silent, qqVars, faults, failed>>

\* Invalid Session: not resumable, the session is forgotten; and Reconnect.
ProtocolClose ==
    /\ \E op \in {"invalid", "invalid_resumable", "reconnect"} : Received(op)
    /\ IF Head(frames).op = "invalid"
         THEN session' = NoSession /\ sequence' = NoSequence
         ELSE UNCHANGED <<session, sequence>>
    /\ phase' = "dial"
    /\ frames' = <<>>
    /\ UNCHANGED <<awaitingAck, commandVars, claimed, silent, qqVars, faults, failed>>

\* The connection, its opening or a token request fails.
ConnectionBreaks ==
    /\ phase \in {"dial", "hello", "session"}
    /\ Fault
    /\ Broken
    /\ UNCHANGED <<session, sequence, awaitingAck, claimed, qqVars, failed>>

----------------------------------------------------------------------------
(* QQ *)

\* A message for the bot: sent on the open connection, or only kept for a Resume.
QQDispatches ==
    /\ qqValid /\ qqCount < MaxMessages
    /\ qqCount' = qqCount + 1
    /\ frames' = IF phase = "session" /\ ~silent THEN Append(frames, Frame("message", qqCount + 1)) ELSE frames
    /\ UNCHANGED <<runtimeVars, commandVars, claimed, silent, qqSession, qqValid, faults, failed>>

QQAsks(op) ==
    /\ phase = "session" /\ frames = <<>> /\ ~silent
    /\ Fault
    /\ frames' = <<Frame(op, 0)>>
    /\ UNCHANGED <<runtimeVars, commandVars, claimed, silent, qqVars, failed>>

QQExpires ==
    /\ qqValid /\ phase # "session"
    /\ Fault
    /\ qqValid' = FALSE
    /\ UNCHANGED <<runtimeVars, commandVars, claimed, frames, silent, qqSession, qqCount, failed>>

\* The connection is half open from now on, before Hello or later.
GoesSilent ==
    /\ phase \in {"hello", "session"} /\ ~silent
    /\ Fault
    /\ silent' = TRUE /\ frames' = <<>>
    /\ UNCHANGED <<runtimeVars, commandVars, claimed, qqVars, failed>>

----------------------------------------------------------------------------
(* Commands *)

\* start_connection saves the row before it asks for the lock.
SaveConnection ==
    /\ commands < MaxCommands /\ commands' = commands + 1
    /\ row' = "connecting"
    /\ saved' = saved + 1
    /\ UNCHANGED <<runtimeVars, runtime, lock, claimed, frames, silent, qqVars, faults, failed>>

\* QQRuntime.stop: the task is cancelled, whatever it waits for; no status is set.
Stop ==
    /\ runtime' = FALSE
    /\ phase' = "stopped"
    /\ frames' = <<>>
    /\ UNCHANGED <<session, sequence, awaitingAck, silent>>

ReplaceRuntime ==
    /\ lock = "free" /\ saved > 0
    /\ lock' = "connect"
    /\ Stop
    /\ UNCHANGED <<row, saved, commands, claimed, qqVars, faults, failed>>

\* A new QQRuntime knows no session.
Launch ==
    /\ runtime' = TRUE
    /\ phase' = "dial" /\ session' = NoSession /\ sequence' = NoSequence /\ awaitingAck' = FALSE
    /\ frames' = <<>> /\ silent' = FALSE

StartRuntime ==
    /\ lock = "connect"
    /\ lock' = "free" /\ saved' = saved - 1
    /\ Launch
    /\ UNCHANGED <<row, commands, claimed, qqVars, faults, failed>>

PopRuntime ==
    /\ lock = "free"
    /\ commands < MaxCommands /\ commands' = commands + 1
    /\ lock' = "disconnect"
    /\ Stop
    /\ UNCHANGED <<row, saved, claimed, qqVars, faults, failed>>

DeleteConnection ==
    /\ lock = "disconnect"
    /\ lock' = "free"
    /\ row' = "none"
    /\ UNCHANGED <<runtimeVars, runtime, saved, commands, claimed, frames, silent, qqVars, faults, failed>>

\* The process ends; startup starts every stored connection.
Restart ==
    /\ Fault
    /\ lock' = "free" /\ saved' = 0
    /\ row' = IF row = "none" THEN "none" ELSE "connecting"
    /\ IF row = "none"
         THEN /\ runtime' = FALSE /\ phase' = "stopped"
              /\ session' = NoSession /\ sequence' = NoSequence /\ awaitingAck' = FALSE
              /\ frames' = <<>> /\ silent' = FALSE
         ELSE Launch
    /\ UNCHANGED <<commands, claimed, qqVars, failed>>

Receive ==
    Ready \/ ResumedDispatch \/ Message \/ HeartbeatAsked \/ Acknowledged \/ ProtocolClose

Next ==
    \/ Dial \/ Hello \/ Receive \/ MessageFails \/ ConnectionBreaks
    \/ HeartbeatDue \/ HeartbeatOverdue
    \/ QQDispatches \/ QQExpires \/ GoesSilent
    \/ \E op \in {"heartbeat", "reconnect", "invalid_resumable"} : QQAsks(op)
    \/ SaveConnection \/ ReplaceRuntime \/ StartRuntime \/ PopRuntime \/ DeleteConnection
    \/ Restart

Spec == Init /\ [][Next]_vars

\* The runtime's task and the command handlers run; messages, faults and commands
\* are free.
Fairness ==
    /\ WF_vars(Dial) /\ WF_vars(Hello) /\ WF_vars(Receive) /\ WF_vars(HeartbeatDue)
    /\ WF_vars(ReplaceRuntime) /\ WF_vars(StartRuntime) /\ WF_vars(DeleteConnection)
FairSpec == Spec /\ Fairness

----------------------------------------------------------------------------
(* Properties *)

\* Type invariant.
TypeOK ==
    /\ row \in {"none", "connecting", "connected", "error"}
    /\ runtime \in BOOLEAN /\ phase \in {"stopped", "dial", "hello", "session"}
    /\ session \in 0..MaxSessions /\ sequence \in 0..MaxMessages /\ awaitingAck \in BOOLEAN
    /\ lock \in {"free", "connect", "disconnect"} /\ saved \in 0..MaxCommands
    /\ claimed \in SUBSET Dispatches /\ failed \in SUBSET Dispatches
    /\ frames \in Seq(Frames) /\ silent \in BOOLEAN
    /\ qqSession \in 0..MaxSessions /\ qqValid \in BOOLEAN /\ qqCount \in 0..MaxMessages
    /\ faults \in 0..MaxFaults /\ commands \in 0..MaxCommands

\* A Resume continues behind the sequence, so every message up to it must be in the
\* inbox, across connections that broke with messages under way: only a message
\* whose own handler raised is missing.
SequenceIsSeen ==
    session # NoSession =>
        \A s \in 2..sequence : <<session, s>> \in claimed \cup failed

\* (Violated) A runtime has its row, so that a restart starts it again: a disconnect
\* that holds the lock deletes the row a waiting connect has saved.
RuntimeHasRow ==
    runtime => row # "none"

\* A connection that went silent before Hello: no heartbeat watches it yet, and recv
\* has no timeout, so only its breaking, a command or a restart ends it.
Mute == phase = "hello" /\ silent

\* QQ holds a message of a session that it would resume.
Pending(s, n) == qqValid /\ qqSession = s /\ qqCount >= n /\ runtime

\* A message dispatched in a session reaches the inbox through broken and silent
\* connections and restarts of the connection, unless QQ gives up the session, a
\* command or a restart replaces the runtime, its handler raises, or the runtime
\* waits for the Hello of a mute connection.
MessagesArrive ==
    \A s \in Sessions, n \in 2..MaxMessages :
        (Pending(s, n) /\ session = s)
            ~> (~Pending(s, n) \/ session # s \/ <<s, n>> \in claimed \cup failed \/ Mute)

InLivingSession == phase = "session" /\ ~silent /\ session = qqSession /\ qqValid

\* A runtime that is not stopped comes to a session that is alive: no way for a
\* connection to end, a session QQ refuses included, leaves it cut off, but for a
\* mute connection.
Reconnects ==
    runtime ~> (~runtime \/ InLivingSession \/ qqSession = MaxSessions \/ Mute)

\* (Violated) ...from a mute connection too: the loop waits for its Hello for ever.
ReconnectsAlways ==
    runtime ~> (~runtime \/ InLivingSession \/ qqSession = MaxSessions)
=============================================================================
