-------------------------- MODULE TaskStateMachine --------------------------
(***************************************************************************)
(* What the task lifecycle promises, whoever writes it: the state moves    *)
(* only along TRANSITIONS of agent-service/app/task_state_machine.py, and  *)
(* every change is a new version of the task (tasks.state_version).        *)
(* TaskLifecycle with one process is shown to implement this module.       *)
(***************************************************************************)
EXTENDS Naturals

VARIABLE task        \* row of table tasks: state and state_version

TERMINAL_STATES == {"closed", "cancelled"}

TRANSITIONS ==
  [draft                   |-> {"queued", "cancelled"},
   queued                  |-> {"assigned", "in_progress", "attention_required", "cancelled"},
   assigned                |-> {"queued", "in_progress", "attention_required", "cancelled"},
   in_progress             |-> {"waiting_confirmation", "awaiting_proposer_close",
                                "attention_required", "cancelled"},
   waiting_confirmation    |-> {"in_progress", "attention_required", "cancelled"},
   awaiting_proposer_close |-> {"in_progress", "assigned", "attention_required",
                                "closed", "cancelled"},
   attention_required      |-> {"queued", "assigned", "in_progress", "cancelled"},
   closed                  |-> {},
   cancelled               |-> {}]

State == DOMAIN TRANSITIONS

\* can_transition: repeating the current state is accepted as well.
CanTransition(current, target) ==
  current = target \/ target \in TRANSITIONS[current]

-----------------------------------------------------------------------------
\* create_task: with an executing Agent or without.
Init == \E s \in {"queued", "assigned"} : task = [st |-> s, ver |-> 1]

\* A command that repeats the current state may keep the version or not.
Transition(target) ==
  /\ CanTransition(task.st, target)
  /\ \E ver \in {task.ver, task.ver + 1} :
       /\ target # task.st => ver = task.ver + 1
       /\ task' = [st |-> target, ver |-> ver]

Next == \E target \in State : Transition(target)

Spec == Init /\ [][Next]_task
=============================================================================
