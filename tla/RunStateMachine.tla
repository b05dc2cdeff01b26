--------------------------- MODULE RunStateMachine ---------------------------
(***************************************************************************)
(* What the Agent run lifecycle promises, whoever writes it: a run is      *)
(* created queued, moves only along TRANSITIONS of                         *)
(* agent-service/app/state_machine.py, and disappears only after it has    *)
(* reached a terminal state (the user erases its conversation).            *)
(* RunDispatch is shown to implement this module.                          *)
(***************************************************************************)
CONSTANT Runs        \* identifiers of the runs users may create

VARIABLE run         \* run[r]: the state column of row r of table runs

TERMINAL_STATES == {"completed", "failed", "cancelled"}
ACTIVE_STATES   == {"queued", "running", "waiting_confirmation"}

\* "absent": no row yet; "deleted": the row was erased with its conversation.
RunState == {"absent", "deleted"} \cup ACTIVE_STATES \cup TERMINAL_STATES

TRANSITIONS ==
  [queued               |-> {"running", "failed", "cancelled"},
   running              |-> {"waiting_confirmation", "completed", "failed", "cancelled"},
   waiting_confirmation |-> {"running", "failed", "cancelled"},
   completed            |-> {},
   failed               |-> {},
   cancelled            |-> {}]

\* can_transition: repeating the current state is accepted as well.
CanTransition(current, target) ==
  /\ current \in DOMAIN TRANSITIONS
  /\ current = target \/ target \in TRANSITIONS[current]

-----------------------------------------------------------------------------
Init == run = [r \in Runs |-> "absent"]

Create(r) ==
  /\ run[r] = "absent"
  /\ run' = [run EXCEPT ![r] = "queued"]

Transition(r, target) ==
  /\ CanTransition(run[r], target)
  /\ run' = [run EXCEPT ![r] = target]

Erase(r) ==
  /\ run[r] \in TERMINAL_STATES
  /\ run' = [run EXCEPT ![r] = "deleted"]

Next ==
  \E r \in Runs : Create(r) \/ Erase(r) \/ \E s \in RunState : Transition(r, s)

Spec == Init /\ [][Next]_run
=============================================================================
