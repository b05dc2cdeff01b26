--------------------------- MODULE TaskDelegation ---------------------------
(***************************************************************************)
(* Trees of tasks and their budgets in agent-service/app/main.py: the Agent *)
(* that executes a task delegates parts of it (delegate_task), each with a  *)
(* share of the token budget; the children are executed by runs of their    *)
(* own and closed by the Agent that proposed them.                          *)
(*                                                                          *)
(* A task has one executing Agent here; reassignment and the process        *)
(* boundary inside a command are the subject of TaskLifecycle.  The         *)
(* transaction of delegate_task is two steps: what it reads, and the commit *)
(* of what it writes; workers of other tasks act in between.                *)
(***************************************************************************)
EXTENDS Naturals, FiniteSets

CONSTANTS
    Tasks,
    Roots,      \* the tasks a user may create; the others are delegated
    NoTask,
    AttemptBound, \* bound: runs of a task are its attempts 1, 2, ...
    Budgets,    \* budget_snapshot: tokens, calls and runs (0: undeclared), depth, subtasks
    MaxCalls,   \* run_policy.max_tool_calls; a turn of the model costs one token
    MaxFaults   \* bound: crashes of workers

ASSUME BudgetsAssumption ==
    Budgets \subseteq [tokens : Nat, calls : Nat, runs : Nat,
                       depth : Nat \ {0}, subtasks : Nat \ {0}]
ASSUME TreeBoundsAssumption ==
    AttemptBound \in Nat \ {0} /\ MaxCalls \in Nat /\ MaxFaults \in Nat
ASSUME TasksAssumption == Roots \subseteq Tasks /\ NoTask \notin Tasks

VARIABLES
    parent,     \* tasks.parent_task_id
    budget,     \* tasks.budget_snapshot
    state,      \* tasks.state, "none" without a row
    assignment, \* per task and attempt: task_assignments.state
    runState,   \* per task and attempt: runs.state
    usage,      \* per task and attempt: total_tokens of runs.usage
    calls,      \* per task: rows of tool_invocations, where budget limits them
    executor,   \* per task and attempt: the worker executing the run, its tokens so far
    asking,     \* per task: the admitted delegations, not committed yet, with their attempts
    overlapped, \* history: tasks with two of them at a time
    faults      \* crashes so far

rows == <<parent, budget>>
treeVars == <<rows, state, assignment, runState, usage, calls, executor, asking, overlapped, faults>>

States == INSTANCE TaskStateMachine WITH task <- state

Attempt == 1..AttemptBound
OPEN == {"assigned", "accepted"}
UNFINISHED == {"queued", "running"}
Off == [pc |-> "off", tokens |-> 0]
MaxTokens == MaxCalls + 1     \* the calls, and the answer
Nothing == [tokens |-> 0, calls |-> 0, runs |-> 0, depth |-> 1, subtasks |-> 1]

TreeInit ==
    /\ parent = [t \in Tasks |-> NoTask]
    /\ budget = [t \in Tasks |-> Nothing]
    /\ state = [t \in Tasks |-> "none"]
    /\ assignment = [t \in Tasks |-> [a \in Attempt |-> "none"]]
    /\ runState = [t \in Tasks |-> [a \in Attempt |-> "none"]]
    /\ usage = [t \in Tasks |-> [a \in Attempt |-> 0]]
    /\ calls = [t \in Tasks |-> 0]
    /\ executor = [t \in Tasks |-> [a \in Attempt |-> Off]]
    /\ asking = [t \in Tasks |-> {}]
    /\ overlapped = {}
    /\ faults = 0

-----------------------------------------------------------------------------
(* The tree and the budgets *)

HasRow(t) == state[t] # "none"
Children(t) == {c \in Tasks : parent[c] = t}

\* The walk along parent_task_id.
Depth(t) ==
    LET depth[x \in Tasks] == IF parent[x] = NoTask THEN 0 ELSE 1 + depth[parent[x]]
    IN  depth[t]
Root(t) ==
    LET root[x \in Tasks] == IF parent[x] = NoTask THEN x ELSE root[parent[x]]
    IN  root[t]
Tree(t) == {x \in Tasks : HasRow(x) /\ Root(x) = Root(t)}

Runs(T) == {x \in T \X Attempt : runState[x[1]][x[2]] \in UNFINISHED}

\* The sum of n[x] over S, as the number of the pairs <<x, i>> with i \in 1..n[x]:
\* a cardinality can be reasoned about, a fold cannot.
SumOver(S, n) == Cardinality(UNION {{x} \X (1..n[x]) : x \in S})
Shares == [c \in Tasks |-> budget[c].tokens]

\* Mutant: a child gives its share back when it ends.
AllocatedOpen(t) == SumOver({c \in Children(t) : state[c] \notin {"closed", "cancelled"}}, Shares)

\* What the children were promised, whatever has become of them.
Allocated(t) == SumOver(Children(t), Shares)

\* _task_budget_status: the runs of the task itself.
Used(t) == SumOver(Attempt, usage[t])

\* Mutant: include_next_run is forgotten.
BudgetErrorNow(t, next) ==
    \/ budget[t].tokens # 0 /\ Used(t) >= budget[t].tokens
    \/ budget[t].calls # 0 /\ calls[t] >= budget[t].calls
    \/ budget[t].runs # 0 /\ Cardinality(Runs({t})) > budget[t].runs

\* _task_budget_error, with the run to be created or without.
BudgetError(t, next) ==
    \/ budget[t].tokens # 0 /\ Used(t) >= budget[t].tokens
    \/ budget[t].calls # 0 /\ calls[t] >= budget[t].calls
    \/ budget[t].runs # 0 /\ Cardinality(Runs({t})) + next > budget[t].runs

-----------------------------------------------------------------------------
(* The proposer's commands *)

\* create_run for attempt a of t: the run, or a refusal (budget, concurrent
\* runs of the Agent, the API stopped) that leaves the assignment behind.
AdmitRun(t, a, admitted) ==
    \/ admitted /\ runState' = [runState EXCEPT ![t][a] = "queued"]
    \/ UNCHANGED runState

CreateTask(t, b) ==
    /\ t \in Roots /\ ~HasRow(t)
    /\ budget' = [budget EXCEPT ![t] = b]
    /\ state' = [state EXCEPT ![t] = "assigned"]
    /\ assignment' = [assignment EXCEPT ![t][1] = "assigned"]
    /\ AdmitRun(t, 1, TRUE)
    /\ UNCHANGED <<parent, usage, calls, executor, asking, overlapped, faults>>

\* superseded, completed, expired and cancelled are not told apart.
Ended(t, a) == IF assignment[t][a] \in OPEN THEN "over" ELSE assignment[t][a]
SupersededIn(t) == [a \in Attempt |-> Ended(t, a)]

\* resume_task; only the user's own tasks: a delegated one has another proposer.
Reopen(t, a) ==
    /\ parent[t] = NoTask
    /\ state[t] \in {"awaiting_proposer_close", "attention_required"}
    /\ a > 1 /\ assignment[t][a] = "none" /\ assignment[t][a - 1] # "none"
    /\ state' = [state EXCEPT ![t] = "assigned"]
    /\ assignment' = [assignment EXCEPT ![t] = [SupersededIn(t) EXCEPT ![a] = "assigned"]]
    /\ AdmitRun(t, a, ~BudgetError(t, 1))
    /\ UNCHANGED <<rows, usage, calls, executor, asking, overlapped, faults>>

\* transition_task, for close_task and cancel_task: the tree below stays as it is.
EndTask(t, target) ==
    /\ HasRow(t) /\ parent[t] = NoTask
    /\ target \in {"closed", "cancelled"} \ {state[t]}
    /\ States!CanTransition(state[t], target)
    /\ state' = [state EXCEPT ![t] = target]
    /\ UNCHANGED <<rows, assignment, runState, usage, calls, executor, asking, overlapped, faults>>

\* sync_task_run_state: unless the task has ended, is there, or may not go there.
Projects(t, target) ==
    /\ state[t] \notin {target} \cup States!TERMINAL_STATES
    /\ States!CanTransition(state[t], target)

ProjectRun(t, a, target, written) ==
    IF Projects(t, target)
    THEN /\ state' = [state EXCEPT ![t] = target]
         /\ assignment' = [assignment EXCEPT ![t][a] = written]
    ELSE UNCHANGED <<state, assignment>>

CancelAttempt(t, a) ==
    /\ runState[t][a] \in UNFINISHED
    /\ runState' = [runState EXCEPT ![t][a] = "cancelled"]
    /\ ProjectRun(t, a, "attention_required", Ended(t, a))
    /\ UNCHANGED <<rows, usage, calls, executor, asking, overlapped, faults>>

-----------------------------------------------------------------------------
(* The execution of a run: nothing here asks for the budget before the model *)

Executing(t, a) == executor[t][a].pc = "turn"
CallsLeft(t, a) == Executing(t, a) /\ executor[t][a].tokens < MaxCalls
Spend(t, a, pc) ==
    executor' = [executor EXCEPT ![t][a] = [pc |-> pc, tokens |-> @.tokens + 1]]
Leave(t, a) == executor' = [executor EXCEPT ![t][a] = Off]

\* try_start_run, also of a run whose worker is gone; its tokens start at zero.
Start(t, a) ==
    /\ executor[t][a].pc = "off" /\ runState[t][a] \in UNFINISHED
    /\ runState' = [runState EXCEPT ![t][a] = "running"]
    /\ executor' = [executor EXCEPT ![t][a] = [pc |-> "turn", tokens |-> 0]]
    /\ ProjectRun(t, a, "in_progress",
               IF assignment[t][a] = "assigned" THEN "accepted" ELSE assignment[t][a])
    /\ UNCHANGED <<rows, usage, calls, asking, overlapped, faults>>

\* A turn of the model that asks for a tool, and record_tool_invocation; rows
\* that no limit reads are not counted.
Calls(t, a, pc) ==
    /\ CallsLeft(t, a) /\ ~BudgetError(t, 0)
    /\ Spend(t, a, pc)
    /\ calls' = [calls EXCEPT ![t] = IF budget[t].calls = 0 THEN 0 ELSE @ + 1]

\* The budget refuses the call; or the tool itself does, and reads only.
ToolDenied(t, a) ==
    /\ \/ CallsLeft(t, a) /\ BudgetError(t, 0) /\ Spend(t, a, "turn") /\ UNCHANGED calls
       \/ Calls(t, a, "turn")
    /\ UNCHANGED <<rows, state, assignment, runState, usage, asking, overlapped, faults>>

\* execute_task_tool: the run's assignment must still be active.
CallsTask(t, a, pc) == assignment[t][a] \in OPEN /\ Calls(t, a, pc)

\* delegate_task up to its first INSERT.
AdmitDelegation(t, a, b) ==
    /\ assignment[t][a] = "accepted" /\ CallsTask(t, a, "delegating")
    /\ state[t] \in {"in_progress", "attention_required"}
    /\ Depth(t) + 1 <= budget[t].depth
    /\ Cardinality(Tree(t)) - 1 < budget[t].subtasks
    /\ budget[t].runs # 0 => Cardinality(Runs(Tree(t))) < budget[t].runs
    /\ budget[t].tokens # 0 /\ b.tokens # 0
    /\ Used(t) + Allocated(t) + b.tokens <= budget[t].tokens
    /\ asking' = [asking EXCEPT ![t] = @ \cup {<<a, b>>}]
    /\ overlapped' = IF asking[t] = {} THEN overlapped ELSE overlapped \cup {t}
    /\ UNCHANGED <<rows, state, assignment, runState, usage, faults>>

\* Its commit, and create_run of the child.
WriteDelegation(t, c) ==
    \E a \in Attempt, b \in Budgets :
      /\ <<a, b>> \in asking[t]
      /\ c \notin Roots /\ ~HasRow(c)
      /\ parent' = [parent EXCEPT ![c] = t]
      /\ budget' = [budget EXCEPT ![c] = b]
      /\ state' = [state EXCEPT ![c] = "assigned"]
      /\ assignment' = [assignment EXCEPT ![c][1] = "assigned"]
      /\ AdmitRun(c, 1, TRUE)
      /\ asking' = [asking EXCEPT ![t] = @ \ {<<a, b>>}]
      /\ executor' = [executor EXCEPT ![t][a].pc = "turn"]
      /\ UNCHANGED <<usage, calls, overlapped, faults>>

\* collect_child_result: the result joins the context of the parent.
CollectChild(t, a, c) ==
    /\ parent[c] = t /\ state[c] \in {"awaiting_proposer_close", "closed"}
    /\ CallsTask(t, a, "turn")
    /\ UNCHANGED <<rows, state, assignment, runState, usage, asking, overlapped, faults>>

\* close_delegated_task: the Agent that proposed the child, while it executes.
CloseChild(t, a, c) ==
    /\ parent[c] = t /\ States!CanTransition(state[c], "closed")
    /\ CallsTask(t, a, "turn")
    /\ state' = [state EXCEPT ![c] = "closed"]
    /\ UNCHANGED <<rows, assignment, runState, usage, asking, overlapped, faults>>

\* submit_result and request_proposer_decision.
SubmitResult(t, a) ==
    /\ CallsTask(t, a, "turn")
    /\ States!CanTransition(state[t], "awaiting_proposer_close")
    /\ state' = [state EXCEPT ![t] = "awaiting_proposer_close"]
    /\ assignment' = [assignment EXCEPT ![t][a] = "over"]
    /\ UNCHANGED <<rows, runState, usage, asking, overlapped, faults>>

AskProposer(t, a) ==
    /\ CallsTask(t, a, "turn")
    /\ States!CanTransition(state[t], "attention_required")
    /\ state' = [state EXCEPT ![t] = "attention_required"]
    /\ UNCHANGED <<rows, assignment, runState, usage, asking, overlapped, faults>>

\* Mutant: each report adds to the row instead of replacing it.
StoreUsageAdded(t, a) ==
    usage' = [usage EXCEPT ![t][a] = @ + executor[t][a].tokens + 1]

StoreUsage(t, a) == usage' = [usage EXCEPT ![t][a] = executor[t][a].tokens + 1]

\* The final answer: update_usage and _mark_task_budget_exhausted.
ReportUsage(t, a) ==
    /\ Executing(t, a)
    /\ StoreUsage(t, a)
    /\ executor' = [executor EXCEPT ![t][a] = [pc |-> "reported", tokens |-> 0]]
    /\ UNCHANGED <<rows, assignment, runState, calls, asking, overlapped, faults>>
    /\ state' = [state EXCEPT ![t] =
                   IF BudgetError(t, 0)' /\ Projects(t, "attention_required")
                   THEN "attention_required" ELSE @]

\* update_run("completed"); the projection of a completed run changes no state.
CompleteAttempt(t, a) ==
    /\ executor[t][a].pc = "reported"
    /\ Leave(t, a)
    /\ runState' = [runState EXCEPT ![t][a] = IF @ = "running" THEN "completed" ELSE @]
    /\ UNCHANGED <<rows, state, assignment, usage, calls, asking, overlapped, faults>>

\* The model or the loop's limit ends the run: its tokens are reported nowhere.
FailAttempt(t, a) ==
    /\ Executing(t, a)
    /\ Leave(t, a)
    /\ runState' = [runState EXCEPT ![t][a] = IF @ = "running" THEN "failed" ELSE @]
    /\ ProjectRun(t, a, "attention_required", Ended(t, a))
    /\ UNCHANGED <<rows, usage, calls, asking, overlapped, faults>>

\* is_cancelled, between two parts of the model's answer.
NoticeCancelled(t, a) ==
    /\ Executing(t, a) /\ runState[t][a] = "cancelled"
    /\ Leave(t, a)
    /\ UNCHANGED <<rows, state, assignment, runState, usage, calls, asking, overlapped, faults>>

\* A worker dies, or leaves its loop; an open transaction is lost.
WorkerDies(t, a) ==
    /\ faults < MaxFaults /\ faults' = faults + 1
    /\ executor[t][a].pc # "off"
    /\ Leave(t, a)
    /\ asking' = [asking EXCEPT ![t] = {x \in @ : x[1] # a}]
    /\ UNCHANGED <<rows, state, assignment, runState, usage, calls, overlapped>>

Proposer(t) ==
    \/ \E b \in Budgets : CreateTask(t, b)
    \/ \E target \in {"closed", "cancelled"} : EndTask(t, target)
    \/ \E a \in Attempt : Reopen(t, a) \/ CancelAttempt(t, a)

Tool(t, a) ==
    \/ ToolDenied(t, a) \/ SubmitResult(t, a) \/ AskProposer(t, a)
    \/ \E b \in Budgets : AdmitDelegation(t, a, b)
    \/ \E c \in Tasks : CollectChild(t, a, c) \/ CloseChild(t, a, c)

Execution(t, a) ==
    \/ Start(t, a) \/ ReportUsage(t, a) \/ CompleteAttempt(t, a)
    \/ FailAttempt(t, a) \/ NoticeCancelled(t, a) \/ WorkerDies(t, a)

TreeNext ==
    \E t \in Tasks :
      \/ Proposer(t)
      \/ \E a \in Attempt : Tool(t, a) \/ Execution(t, a)
      \/ \E c \in Tasks : WriteDelegation(t, c)

TreeSpec == TreeInit /\ [][TreeNext]_treeVars

-----------------------------------------------------------------------------
(* Properties *)

\* Every variable has its type.
TreeTypeOK ==
    /\ parent \in [Tasks -> Tasks \cup {NoTask}]
    /\ budget \in [Tasks -> Budgets \cup {Nothing}]
    /\ state \in [Tasks -> States!State \cup {"none"}]
    /\ assignment \in [Tasks -> [Attempt -> OPEN \cup {"none", "over"}]]
    /\ runState \in [Tasks -> [Attempt -> UNFINISHED \cup {"none", "completed", "failed", "cancelled"}]]
    /\ usage \in [Tasks -> [Attempt -> 0..MaxTokens]]
    /\ calls \in [Tasks -> Nat]
    /\ executor \in [Tasks -> [Attempt ->
         [pc : {"off", "turn", "delegating", "reported"}, tokens : 0..MaxCalls]]]
    /\ asking \in [Tasks -> SUBSET (Attempt \X Budgets)]
    /\ overlapped \subseteq Tasks /\ faults \in 0..MaxFaults

\* However often a task delegates, in however many attempts, and whatever ends
\* between the check and the commit, its children together are promised no
\* more than it has (delegate_task), unless two attempts checked side by side.
ChildrenWithinBudget ==
    \A t \in Tasks : HasRow(t) /\ t \notin overlapped =>
      SumOver(Children(t), Shares) <= budget[t].tokens

\* (Violated) The same without the exception: the worker of a superseded
\* attempt may be between check and commit when the next one delegates.
ChildrenAlwaysWithinBudget ==
    \A t \in Tasks : HasRow(t) =>
      SumOver(Children(t), Shares) <= budget[t].tokens

\* Neither concurrent attempts, nor redelivered runs, nor runs admitted just
\* before the budget is used up spend more than one execution each beyond it:
\* create_run counts the runs that are still to report.  A run cancelled
\* before it reports is not counted, and neither is what a failed one spends.
UseBounded ==
    \A t \in Tasks : budget[t].tokens # 0 /\ budget[t].runs # 0 =>
      SumOver(Attempt, [a \in Attempt |-> IF runState[t][a] = "cancelled" THEN 0 ELSE usage[t][a]])
        < budget[t].tokens + budget[t].runs * MaxTokens

\* (Violated) As long as no task overruns its own budget, the tree stays within the
\* budget of its root.
TreeWithinBudget ==
    \A t \in Tasks :
      /\ HasRow(t) /\ parent[t] = NoTask /\ budget[t].tokens # 0
      /\ \A x \in Tree(t) : Used(x) <= budget[x].tokens
      => SumOver(Tree(t), [x \in Tasks |-> Used(x)]) <= budget[t].tokens

\* (Violated) A delivered result of a delegated task waits for the Agent that executes the
\* parent, so the parent has not ended.
ChildCanBeClosed ==
    \A c \in Tasks :
      state[c] = "awaiting_proposer_close" /\ parent[c] # NoTask
        => state[parent[c]] \notin States!TERMINAL_STATES
=============================================================================
