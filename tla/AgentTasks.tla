----------------------------- MODULE AgentTasks -----------------------------
(***************************************************************************)
(* The tasks of the AI Operations project and the executions that work on  *)
(* them: ticks of processAgentTasks (every two minutes, two tasks each)    *)
(* and directives with runNow. Each runs the loop of                       *)
(* AgentExecutorService.runAgent: look at the kill-switch, ask the model,  *)
(* execute the tool it names. A tick does not wait for the previous one.   *)
(* IN_REVIEW stands for BACKLOG and CANCELLED too: no code here tells them *)
(* apart.                                                                  *)
(***************************************************************************)
EXTENDS Naturals, FiniteSets

CONSTANTS
    Tasks,          \* numbered in the order of createdAt
    Orgs, OrgOf,    \* organizations, and whose task it is
    Runners,        \* executions in flight
    TickSize,       \* "take: 2"
    MaxSteps,       \* maxAgentStepsPerRun
    MaxHuman,       \* bound: human calls
    Events,         \* which of EventKinds the environment may produce
    Idle            \* "no task", the cur of a runner between tasks

\* badRun: a run fails or says so.
\* moves: agents use update_task_status. runNow: people call directives.
EventKinds == {"killSwitch", "badRun", "moves", "runNow", "humanMoves", "dbError", "crash"}

ASSUME TaskAssumption ==
    /\ Tasks \subseteq Nat /\ IsFiniteSet(Tasks)
    /\ OrgOf \in [Tasks -> Orgs]
    /\ TickSize \in Nat /\ MaxSteps \in Nat /\ MaxHuman \in Nat
    /\ Events \subseteq EventKinds
    /\ Idle \notin Tasks

VARIABLES
    status,         \* Task.status; NONE before the row exists, GONE when deleted
    halted,         \* organizations with the kill-switch on
    pc, cur, todo,  \* each runner: step, task in hand, rest of its batch
    steps,          \* each runner: tool calls of the current run
    failed,         \* each runner: the output of its run begins with "Failed"
    human,          \* bound counter of human calls
    fate,           \* history: what happened to each task
    late            \* history: tool calls of the current run since the switch went on

runnerVars == <<pc, cur, todo, steps, failed>>
vars == <<status, halted, runnerVars, human, fate, late>>

Statuses == {"NONE", "TODO", "IN_PROGRESS", "IN_REVIEW", "DONE", "GONE"}
Movable == {"TODO", "IN_PROGRESS", "IN_REVIEW", "DONE"}
Running == {"begin", "step", "think", "act", "reread", "close"}
Steps == Running \cup {"idle", "loop", "claim"}
Fates == {"overlap", "moved", "died"}

TypeOK ==
    /\ status \in [Tasks -> Statuses]
    /\ halted \subseteq Orgs
    /\ pc \in [Runners -> Steps]
    /\ cur \in [Runners -> Tasks \cup {Idle}]
    /\ todo \in [Runners -> SUBSET Tasks]
    /\ \A p \in Runners :
        /\ cur[p] = Idle <=> pc[p] \in {"idle", "loop"}
        /\ pc[p] = "idle" => todo[p] = {}
        /\ pc[p] \in {"think", "act"} => steps[p] < MaxSteps
    /\ steps \in [Runners -> 0..MaxSteps]
    /\ failed \in [Runners -> BOOLEAN]
    /\ human \in 0..MaxHuman
    /\ fate \in [Tasks -> SUBSET Fates]
    /\ late \in [Runners -> Nat]

Init ==
    /\ status = [t \in Tasks |-> "NONE"]
    /\ halted = {}
    /\ pc = [p \in Runners |-> "idle"]
    /\ cur = [p \in Runners |-> Idle]
    /\ todo = [p \in Runners |-> {}]
    /\ steps = [p \in Runners |-> 0]
    /\ failed = [p \in Runners |-> FALSE]
    /\ human = 0
    /\ fate = [t \in Tasks |-> {}]
    /\ late = [p \in Runners |-> 0]

\* Runner p has t in hand: from the start of its run to the end.
Runs(p, t) == cur[p] = t /\ pc[p] \in Running

\* Runner p picked t up and has not claimed it yet.
Awaits(p, t) == t \in todo[p] \/ (cur[p] = t /\ pc[p] = "claim")

Tag(ts, f) == [t \in Tasks |-> IF t \in ts THEN fate[t] \cup {f} ELSE fate[t]]

-----------------------------------------------------------------------------
(* Tasks come into being, and people act on them *)

\* The next row in the order of createdAt.
IsNext(t) ==
    /\ status[t] = "NONE"
    /\ \A u \in Tasks : u < t => status[u] # "NONE"

\* A directive, or a task an agent creates: it waits for the worker.
Create(t) ==
    /\ IsNext(t)
    /\ status' = [status EXCEPT ![t] = "TODO"]
    /\ UNCHANGED <<halted, runnerVars, human, fate, late>>

\* A directive with runNow: the row is created TODO, and claimed next.
RunNow(p, t) ==
    /\ "runNow" \in Events /\ human < MaxHuman
    /\ pc[p] = "idle" /\ IsNext(t)
    /\ status' = [status EXCEPT ![t] = "TODO"]
    /\ pc' = [pc EXCEPT ![p] = "claim"]
    /\ cur' = [cur EXCEPT ![p] = t]
    /\ human' = human + 1
    /\ UNCHANGED <<halted, todo, steps, failed, fate, late>>

\* tasks.service: any status may follow any other, and rows may be deleted.
HumanMove(t, s) ==
    /\ "humanMoves" \in Events /\ human < MaxHuman
    /\ status[t] \in Movable /\ s \in Movable \cup {"GONE"}
    /\ status' = [status EXCEPT ![t] = s]
    /\ human' = human + 1
    /\ fate' = Tag({t}, "moved")
    /\ UNCHANGED <<halted, runnerVars, late>>

SetKillSwitch(o) ==
    /\ "killSwitch" \in Events /\ human < MaxHuman
    /\ halted' = IF o \in halted THEN halted \ {o} ELSE halted \cup {o}
    /\ human' = human + 1
    /\ late' = [p \in Runners |-> IF cur[p] \in Tasks /\ OrgOf[cur[p]] = o THEN 0 ELSE late[p]]
    /\ UNCHANGED <<status, runnerVars, fate>>

-----------------------------------------------------------------------------
(* The worker *)

\* Mutant: tasks that somebody works on are picked up again.
Due_InProgress == {t \in Tasks : status[t] \in {"TODO", "IN_PROGRESS"}}

Due == {t \in Tasks : status[t] = "TODO"}

\* findMany in the order of createdAt: the oldest TickSize tasks.
Tick(p) ==
    /\ pc[p] = "idle" /\ Due # {}
    /\ LET batch == {t \in Due : Cardinality({u \in Due : u < t}) < TickSize} IN
        /\ todo' = [todo EXCEPT ![p] = batch]
        /\ pc' = [pc EXCEPT ![p] = IF batch = {} THEN "idle" ELSE "loop"]
        /\ fate' = Tag({t \in batch : \E q \in Runners : Awaits(q, t)}, "overlap")
    /\ UNCHANGED <<status, halted, cur, steps, failed, human, late>>

\* Done with a task: the rest of the batch, or the end of the execution.
Continue(p, rest) ==
    /\ pc' = [pc EXCEPT ![p] = IF rest = {} THEN "idle" ELSE "loop"]
    /\ cur' = [cur EXCEPT ![p] = Idle]
    /\ todo' = [todo EXCEPT ![p] = rest]
    /\ steps' = [steps EXCEPT ![p] = 0]
    /\ failed' = [failed EXCEPT ![p] = FALSE]
    /\ late' = [late EXCEPT ![p] = 0]

\* Oldest first; the task of a halted organization is skipped and stays TODO.
CheckHalted(p, t) ==
    /\ pc[p] = "loop" /\ t \in todo[p]
    /\ \A u \in todo[p] : t <= u
    /\ IF OrgOf[t] \in halted
       THEN Continue(p, todo[p] \ {t})
       ELSE /\ pc' = [pc EXCEPT ![p] = "claim"]
            /\ cur' = [cur EXCEPT ![p] = t]
            /\ todo' = [todo EXCEPT ![p] = @ \ {t}]
            /\ UNCHANGED <<steps, failed, late>>
    /\ UNCHANGED <<status, halted, human, fate>>

\* Whatever the row says by now; a row that is gone makes the update throw.
Claim(p) ==
    /\ pc[p] = "claim" /\ status[cur[p]] # "GONE"
    /\ status' = [status EXCEPT ![cur[p]] = "IN_PROGRESS"]
    /\ pc' = [pc EXCEPT ![p] = "begin"]
    /\ UNCHANGED <<halted, cur, todo, steps, failed, human, fate, late>>

\* Mutant: the task is expected to be as the worker found it.
Reread_TodoOnly(p) ==
    /\ pc[p] = "reread"
    /\ IF status[cur[p]] = "TODO"
       THEN pc' = [pc EXCEPT ![p] = "close"] /\ UNCHANGED <<cur, todo, steps, failed, late>>
       ELSE Continue(p, todo[p])
    /\ UNCHANGED <<status, halted, human, fate>>

\* The task is looked at again when its run is over ...
Reread(p) ==
    /\ pc[p] = "reread"
    /\ IF status[cur[p]] = "IN_PROGRESS"
       THEN pc' = [pc EXCEPT ![p] = "close"] /\ UNCHANGED <<cur, todo, steps, failed, late>>
       ELSE Continue(p, todo[p])
    /\ UNCHANGED <<status, halted, human, fate>>

\* Mutant: a failed run leaves its task where it is.
Close_LeavesFailed(p) ==
    /\ pc[p] = "close" /\ status[cur[p]] # "GONE"
    /\ status' = IF failed[p] THEN status ELSE [status EXCEPT ![cur[p]] = "IN_REVIEW"]
    /\ Continue(p, todo[p])
    /\ UNCHANGED <<halted, human, fate>>

\* Mutant: a task its agent did not complete waits for another run.
Close_BackToTodo(p) ==
    /\ pc[p] = "close" /\ status[cur[p]] # "GONE"
    /\ status' = [status EXCEPT ![cur[p]] = "TODO"]
    /\ Continue(p, todo[p])
    /\ UNCHANGED <<halted, human, fate>>

\* ... and, if it was still IN_PROGRESS then, goes back or to review.
Close(p) ==
    /\ pc[p] = "close" /\ status[cur[p]] # "GONE"
    /\ status' = [status EXCEPT ![cur[p]] = IF failed[p] THEN "TODO" ELSE "IN_REVIEW"]
    /\ Continue(p, todo[p])
    /\ UNCHANGED <<halted, human, fate>>

-----------------------------------------------------------------------------
(* runAgent *)

\* A run in a halted organization, or of an inactive agent, ends at once and
\* its output does not begin with "Failed".
BeginRun(p) ==
    /\ pc[p] = "begin"
    /\ \/ pc' = [pc EXCEPT ![p] = "reread"]
       \/ OrgOf[cur[p]] \notin halted /\ pc' = [pc EXCEPT ![p] = "step"]
    /\ UNCHANGED <<status, halted, cur, todo, steps, failed, human, fate, late>>

\* Mutant: the kill-switch is only looked at when the run begins.
StepCheck_OnlyBegin(p) ==
    /\ pc[p] = "step"
    /\ pc' = [pc EXCEPT ![p] = IF steps[p] = MaxSteps THEN "reread" ELSE "think"]
    /\ UNCHANGED <<status, halted, cur, todo, steps, failed, human, fate, late>>

\* Mutant: the step limit is off by one.
StepCheck_OneMore(p) ==
    /\ pc[p] = "step"
    /\ pc' = [pc EXCEPT ![p] =
                IF steps[p] > MaxSteps \/ OrgOf[cur[p]] \in halted THEN "reread" ELSE "think"]
    /\ UNCHANGED <<status, halted, cur, todo, steps, failed, human, fate, late>>

\* The step limit and the kill-switch end the run.
StepCheck(p) ==
    /\ pc[p] = "step"
    /\ pc' = [pc EXCEPT ![p] =
                IF steps[p] = MaxSteps \/ OrgOf[cur[p]] \in halted THEN "reread" ELSE "think"]
    /\ UNCHANGED <<status, halted, cur, todo, steps, failed, human, fate, late>>

\* The model names a tool; or the run ends, because the budget is used up or
\* the model finishes or answers in prose.
Think(p) ==
    /\ pc[p] = "think"
    /\ \E next \in {"act", "reread"} : pc' = [pc EXCEPT ![p] = next]
    /\ UNCHANGED <<status, halted, cur, todo, steps, failed, human, fate, late>>

\* The model or the database fails and runAgent catches it, or the summary
\* begins with "Failed".
RunFails(p) ==
    /\ "badRun" \in Events /\ pc[p] \in {"step", "think", "act"}
    /\ pc' = [pc EXCEPT ![p] = "reread"]
    /\ failed' = [failed EXCEPT ![p] = TRUE]
    /\ UNCHANGED <<status, halted, cur, todo, steps, human, fate, late>>

\* executeTool does not look at the kill-switch; what a tool throws is an
\* observation and the run goes on.
Act(p) ==
    /\ pc[p] = "act"
    /\ pc' = [pc EXCEPT ![p] = "step"]
    /\ steps' = [steps EXCEPT ![p] = @ + 1]
    /\ late' = [late EXCEPT ![p] = IF OrgOf[cur[p]] \in halted THEN @ + 1 ELSE @]
    /\ UNCHANGED <<halted, cur, todo, failed, human>>

\* A tool that touches no task, or fails.
UseTool(p) == Act(p) /\ UNCHANGED <<status, fate>>

\* complete_task and update_task_status take any task of the organization.
MoveTask(p, t, s) ==
    /\ Act(p)
    /\ OrgOf[t] = OrgOf[cur[p]] /\ status[t] \in Movable
    /\ s = "DONE" \/ ("moves" \in Events /\ s \in Movable)
    /\ status' = [status EXCEPT ![t] = s]
    /\ fate' = Tag({t}, "moved")

CreateTask(p, t) ==
    /\ Act(p)
    /\ OrgOf[t] = OrgOf[cur[p]] /\ IsNext(t)
    /\ status' = [status EXCEPT ![t] = "TODO"]
    /\ UNCHANGED fate

-----------------------------------------------------------------------------
(* Failures *)

\* Nothing outside runAgent's try catches: the tick or the directive ends, and
\* with it the rest of the batch.
Throws(p) ==
    /\ \/ "dbError" \in Events /\ pc[p] # "idle"
       \/ pc[p] \in {"claim", "close"} /\ status[cur[p]] = "GONE"
    /\ fate' = Tag({t \in Tasks : Runs(p, t)}, "died")
    /\ Continue(p, {})
    /\ UNCHANGED <<status, halted, human>>

\* The process stops; nothing puts its tasks back when it starts again.
Crash ==
    /\ "crash" \in Events /\ \E p \in Runners : pc[p] # "idle"
    /\ fate' = Tag({t \in Tasks : \E p \in Runners : Runs(p, t)}, "died")
    /\ pc' = [p \in Runners |-> "idle"]
    /\ cur' = [p \in Runners |-> Idle]
    /\ todo' = [p \in Runners |-> {}]
    /\ steps' = [p \in Runners |-> 0]
    /\ failed' = [p \in Runners |-> FALSE]
    /\ late' = [p \in Runners |-> 0]
    /\ UNCHANGED <<status, halted, human>>

-----------------------------------------------------------------------------
RunnerStep(p) ==
    \/ \E t \in Tasks : CheckHalted(p, t) \/ CreateTask(p, t)
    \/ \E t \in Tasks, s \in Movable : MoveTask(p, t, s)
    \/ Claim(p) \/ BeginRun(p) \/ StepCheck(p) \/ Think(p) \/ UseTool(p) \/ RunFails(p)
    \/ Reread(p) \/ Close(p) \/ Throws(p)

Next ==
    \/ \E t \in Tasks :
        \/ Create(t)
        \/ \E s \in Movable \cup {"GONE"} : HumanMove(t, s)
        \/ \E p \in Runners : RunNow(p, t)
    \/ \E o \in Orgs : SetKillSwitch(o)
    \/ \E p \in Runners : Tick(p) \/ RunnerStep(p)
    \/ Crash

Spec == Init /\ [][Next]_vars

\* The cron fires and the awaits of a running execution return.
Fairness == \A p \in Runners : WF_vars(Tick(p)) /\ WF_vars(RunnerStep(p))

FairSpec == Spec /\ Fairness

-----------------------------------------------------------------------------
(* Properties *)

\* The kill-switch stops a run within one tool call: the step that had passed
\* its check when the switch went on is the last one, however many are allowed.
HaltWithinOneStep == \A p \in Runners : late[p] <= 1

\* A task is IN_PROGRESS only while somebody works on it, unless its execution
\* died or a person or an agent wrote the status by hand.
TaskHasRunner ==
    \A t \in Tasks : status[t] = "IN_PROGRESS" =>
        fate[t] \cap {"died", "moved"} # {} \/ \E p \in Runners : Runs(p, t)

\* The claim keeps other ticks away: two executions run the same task only if a
\* tick had picked it up while another had it waiting in its batch, or its
\* status was written by hand.
ConcurrentRunHasCause ==
    \A t \in Tasks, p, q \in Runners :
        p # q /\ Runs(p, t) /\ Runs(q, t) => fate[t] \cap {"overlap", "moved"} # {}

\* A task that is claimed is let go: to review, done, or back for another try.
ClaimedTaskSettles ==
    \A t \in Tasks : status[t] = "IN_PROGRESS" ~> status[t] # "IN_PROGRESS"

\* Every task waiting for an agent is picked up, unless its organization is
\* halted: createDirective's comment says it "is picked up by the worker within
\* 2 minutes". It is, while no organization is halted. The worker asks for the
\* oldest tasks first and for the kill-switch after, so as many tasks of a
\* halted organization as a batch takes keep all younger ones waiting.
TasksPickedUp ==
    \A t \in Tasks : status[t] = "TODO" ~> status[t] # "TODO" \/ OrgOf[t] \in halted

=============================================================================
