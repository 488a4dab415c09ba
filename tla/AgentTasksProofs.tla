-------------------------- MODULE AgentTasksProofs --------------------------
(* Theorems about AgentTasks, for any number of tasks, runners and steps. *)
EXTENDS AgentTasks, TLAPS

-----------------------------------------------------------------------------
(* Type correctness *)

\* Every reachable state is well typed: no run makes more tool calls than the
\* step limit, and a runner has a task in hand exactly while it works on it.
THEOREM TypeCorrect == Spec => []TypeOK
<1> USE TaskAssumption DEF TypeOK, runnerVars, Statuses, Movable, Running, Steps, Fates
<1>1. Init => TypeOK
  BY DEF Init
<1>2. TypeOK /\ [Next]_vars => TypeOK'
  <2> SUFFICES ASSUME TypeOK, [Next]_vars PROVE TypeOK'
    OBVIOUS
  <2>0. \A ts, f : f \in Fates => Tag(ts, f) \in [Tasks -> SUBSET Fates]
    BY DEF Tag
  <2>1. ASSUME NEW t \in Tasks, Create(t) PROVE TypeOK'
    BY <2>1 DEF Create
  <2>2. ASSUME NEW t \in Tasks, NEW p \in Runners, RunNow(p, t) PROVE TypeOK'
    BY <2>2 DEF RunNow
  <2>3. ASSUME NEW t \in Tasks, NEW s \in Movable \cup {"GONE"}, HumanMove(t, s) PROVE TypeOK'
    <3>1. fate' \in [Tasks -> SUBSET Fates]
      BY <2>0, <2>3 DEF HumanMove
    <3>2. status' \in [Tasks -> Statuses] /\ human' \in 0..MaxHuman
      BY <2>3 DEF HumanMove
    <3>3. QED
      BY <2>3, <3>1, <3>2 DEF HumanMove
  <2>4. ASSUME NEW o \in Orgs, SetKillSwitch(o) PROVE TypeOK'
    BY <2>4 DEF SetKillSwitch
  <2>5. ASSUME NEW p \in Runners, Tick(p) PROVE TypeOK'
    <3>1. fate' \in [Tasks -> SUBSET Fates]
      BY <2>0, <2>5 DEF Tick
    <3>2. PICK batch \in SUBSET Tasks :
            /\ todo' = [todo EXCEPT ![p] = batch]
            /\ pc' = [pc EXCEPT ![p] = IF batch = {} THEN "idle" ELSE "loop"]
      BY <2>5 DEF Tick, Due
    <3>3. QED
      BY <2>5, <3>1, <3>2 DEF Tick
  <2>6. ASSUME NEW p \in Runners, NEW rest \in SUBSET Tasks, Continue(p, rest)
        PROVE  /\ pc' \in [Runners -> Steps] /\ cur' \in [Runners -> Tasks \cup {Idle}]
               /\ todo' \in [Runners -> SUBSET Tasks] /\ steps' \in [Runners -> 0..MaxSteps]
               /\ failed' \in [Runners -> BOOLEAN] /\ late' \in [Runners -> Nat]
               /\ \A q \in Runners : /\ cur'[q] = Idle <=> pc'[q] \in {"idle", "loop"}
                                     /\ pc'[q] = "idle" => todo'[q] = {}
                                     /\ pc'[q] \in {"think", "act"} => steps'[q] < MaxSteps
    <3>1. 0 \in 0..MaxSteps /\ 0 \in Nat /\ FALSE \in BOOLEAN
      OBVIOUS
    <3>2. /\ pc' \in [Runners -> Steps] /\ cur' \in [Runners -> Tasks \cup {Idle}]
          /\ todo' \in [Runners -> SUBSET Tasks]
      BY <2>6 DEF Continue
    <3>3. /\ steps' \in [Runners -> 0..MaxSteps] /\ late' \in [Runners -> Nat]
          /\ failed' \in [Runners -> BOOLEAN]
      BY <2>6, <3>1 DEF Continue
    <3>4. \A q \in Runners : /\ cur'[q] = Idle <=> pc'[q] \in {"idle", "loop"}
                             /\ pc'[q] = "idle" => todo'[q] = {}
                             /\ pc'[q] \in {"think", "act"} => steps'[q] < MaxSteps
      BY <2>6 DEF Continue
    <3>5. QED
      BY <3>2, <3>3, <3>4
  <2>7. ASSUME NEW p \in Runners, NEW t \in Tasks, CheckHalted(p, t) PROVE TypeOK'
    <3>1. CASE Continue(p, todo[p] \ {t})
      BY <2>6, <2>7, <3>1 DEF CheckHalted
    <3>2. CASE ~Continue(p, todo[p] \ {t})
      BY <2>7, <3>2 DEF CheckHalted
    <3>3. QED
      BY <3>1, <3>2
  <2>8. ASSUME NEW p \in Runners, Claim(p) PROVE TypeOK'
    BY <2>8 DEF Claim
  <2>9. ASSUME NEW p \in Runners, Reread(p) PROVE TypeOK'
    <3>1. CASE Continue(p, todo[p])
      <4>1. UNCHANGED <<status, halted, human, fate>>
        BY <2>9 DEF Reread
      <4>2. QED
        BY <2>6, <3>1, <4>1
    <3>2. CASE ~Continue(p, todo[p])
      BY <2>9, <3>2 DEF Reread
    <3>3. QED
      BY <3>1, <3>2
  <2>10. ASSUME NEW p \in Runners, Close(p) PROVE TypeOK'
    <3>1. status' \in [Tasks -> Statuses]
      BY <2>10 DEF Close
    <3>2. QED
      BY <2>6, <2>10, <3>1 DEF Close
  <2>11. ASSUME NEW p \in Runners, BeginRun(p) \/ StepCheck(p) \/ Think(p) \/ RunFails(p) PROVE TypeOK'
    <3>1. CASE BeginRun(p)
      BY <3>1 DEF BeginRun
    <3>2. CASE StepCheck(p)
      <4>1. steps[p] # MaxSteps => steps[p] < MaxSteps
        OBVIOUS
      <4>2. QED
        BY <3>2, <4>1 DEF StepCheck
    <3>3. CASE Think(p)
      <4>1. pc' \in [Runners -> Steps]
        BY <3>3 DEF Think
      <4>2. QED
        BY <3>3, <4>1 DEF Think
    <3>4. CASE RunFails(p)
      <4>1. pc' \in [Runners -> Steps] /\ failed' \in [Runners -> BOOLEAN]
        BY <3>4 DEF RunFails
      <4>2. QED
        BY <3>4, <4>1 DEF RunFails
    <3>5. QED
      BY <2>11, <3>1, <3>2, <3>3, <3>4
  <2>12. ASSUME NEW p \in Runners, Act(p),
                status' \in [Tasks -> Statuses], fate' \in [Tasks -> SUBSET Fates]
         PROVE  TypeOK'
    <3>1. steps[p] + 1 \in 0..MaxSteps
      BY <2>12 DEF Act
    <3>2. QED
      BY <2>12, <3>1 DEF Act
  <2>13. ASSUME NEW p \in Runners, UseTool(p) PROVE TypeOK'
    BY <2>12, <2>13 DEF UseTool
  <2>14. ASSUME NEW p \in Runners, NEW t \in Tasks, NEW s \in Movable, MoveTask(p, t, s)
         PROVE  TypeOK'
    <3>1. fate' \in [Tasks -> SUBSET Fates] /\ status' \in [Tasks -> Statuses]
      BY <2>0, <2>14 DEF MoveTask
    <3>2. QED
      BY <2>12, <2>14, <3>1 DEF MoveTask
  <2>15. ASSUME NEW p \in Runners, NEW t \in Tasks, CreateTask(p, t) PROVE TypeOK'
    <3>1. fate' \in [Tasks -> SUBSET Fates] /\ status' \in [Tasks -> Statuses]
      BY <2>15 DEF CreateTask
    <3>2. QED
      BY <2>12, <2>15, <3>1 DEF CreateTask
  <2>16. ASSUME NEW p \in Runners, Throws(p) PROVE TypeOK'
    <3>1. fate' \in [Tasks -> SUBSET Fates]
      BY <2>0, <2>16 DEF Throws
    <3>2. QED
      BY <2>6, <2>16, <3>1 DEF Throws
  <2>17. ASSUME Crash PROVE TypeOK'
    <3>1. fate' \in [Tasks -> SUBSET Fates]
      BY <2>0, <2>17 DEF Crash
    <3>2. QED
      BY <2>17, <3>1 DEF Crash
  <2>18. CASE UNCHANGED vars
    BY <2>18 DEF vars
  <2>19. QED
    BY SMTT(30), <2>1, <2>2, <2>3, <2>4, <2>5, <2>7, <2>8, <2>9, <2>10, <2>11, <2>13, <2>14, <2>15,
       <2>16, <2>17, <2>18
    DEF Next, RunnerStep
<1>3. QED
  BY <1>1, <1>2, PTL DEF Spec

-----------------------------------------------------------------------------
(* The kill-switch *)

\* A run that has executed a tool since the switch went on is past its last
\* step: the next look at the switch ends it, and switching off starts a new
\* count.
LateInv ==
    \A p \in Runners :
        late[p] # 0 => /\ late[p] = 1 /\ pc[p] \in {"step", "reread", "close"}
                       /\ OrgOf[cur[p]] \in halted

\* LateInv is inductive.
LEMMA LateStep ==
    ASSUME TypeOK, LateInv, [Next]_vars
    PROVE  LateInv'
<1> SUFFICES ASSUME NEW q \in Runners
             PROVE  late'[q] # 0 => /\ late'[q] = 1 /\ pc'[q] \in {"step", "reread", "close"}
                                    /\ OrgOf[cur'[q]] \in halted'
  BY DEF LateInv
<1> DEFINE Goal == late'[q] # 0 => /\ late'[q] = 1 /\ pc'[q] \in {"step", "reread", "close"}
                                   /\ OrgOf[cur'[q]] \in halted'
<1> USE TaskAssumption DEF TypeOK, LateInv, runnerVars, Running, Steps
<1>1. ASSUME NEW t \in Tasks, Create(t) PROVE Goal
  BY <1>1 DEF Create
<1>2. ASSUME NEW t \in Tasks, NEW p \in Runners, RunNow(p, t) PROVE Goal
  BY <1>2 DEF RunNow
<1>3. ASSUME NEW t \in Tasks, NEW s \in Movable \cup {"GONE"}, HumanMove(t, s) PROVE Goal
  BY <1>3 DEF HumanMove
<1>4. ASSUME NEW o \in Orgs, SetKillSwitch(o) PROVE Goal
  BY <1>4 DEF SetKillSwitch
<1>5. ASSUME NEW p \in Runners, Tick(p) PROVE Goal
  <2>1. UNCHANGED <<late, cur, halted>> /\ late[p] = 0 /\ (q # p => pc'[q] = pc[q])
    BY <1>5 DEF Tick
  <2>2. QED
    BY <2>1
<1>6. ASSUME NEW p \in Runners, NEW rest, Continue(p, rest), UNCHANGED halted PROVE Goal
  BY <1>6 DEF Continue
<1>7. ASSUME NEW p \in Runners, NEW t \in Tasks, CheckHalted(p, t) PROVE Goal
  BY <1>6, <1>7 DEF CheckHalted
<1>8. ASSUME NEW p \in Runners, Claim(p) \/ BeginRun(p) \/ Think(p) \/ RunFails(p) PROVE Goal
  BY <1>8 DEF Claim, BeginRun, Think, RunFails
<1>9. ASSUME NEW p \in Runners, StepCheck(p) PROVE Goal
  BY <1>9 DEF StepCheck
<1>10. ASSUME NEW p \in Runners, Act(p) PROVE Goal
  BY <1>10 DEF Act
<1>11. ASSUME NEW p \in Runners, Reread(p) PROVE Goal
  BY <1>6, <1>11 DEF Reread
<1>12. ASSUME NEW p \in Runners, Close(p) \/ Throws(p) PROVE Goal
  BY <1>6, <1>12 DEF Close, Throws
<1>13. ASSUME Crash PROVE Goal
  BY <1>13 DEF Crash
<1>14. CASE UNCHANGED vars
  BY <1>14 DEF vars
<1>15. QED
  BY <1>1, <1>2, <1>3, <1>4, <1>5, <1>7, <1>8, <1>9, <1>10, <1>11, <1>12, <1>13, <1>14
  DEF Next, RunnerStep, UseTool, MoveTask, CreateTask

\* Whatever the step limit, at most one tool is executed after the switch goes
\* on, for any number of runners and any order of checks, answers and switches.
THEOREM HaltHolds == Spec => []HaltWithinOneStep
<1>1. Init => LateInv
  BY DEF Init, LateInv
<1>2. TypeOK /\ LateInv => HaltWithinOneStep
  BY DEF TypeOK, LateInv, HaltWithinOneStep
<1>3. QED
  BY <1>1, <1>2, LateStep, TypeCorrect, PTL DEF Spec

-----------------------------------------------------------------------------
(* Who works on a task *)

\* Nothing is forgotten of what happened to a task.
LEMMA FateKept ==
    ASSUME TypeOK, [Next]_vars, NEW t \in Tasks
    PROVE  fate[t] \subseteq fate'[t]
<1> USE DEF TypeOK, Tag
<1>1. ASSUME NEW u \in Tasks, NEW s \in Movable \cup {"GONE"}, HumanMove(u, s)
      PROVE  fate[t] \subseteq fate'[t]
  BY <1>1 DEF HumanMove
<1>2. ASSUME NEW p \in Runners, Tick(p) PROVE fate[t] \subseteq fate'[t]
  BY <1>2 DEF Tick
<1>3. ASSUME NEW p \in Runners, Throws(p) PROVE fate[t] \subseteq fate'[t]
  BY <1>3 DEF Throws
<1>4. ASSUME Crash PROVE fate[t] \subseteq fate'[t]
  BY <1>4 DEF Crash
<1>5. ASSUME NEW p \in Runners, NEW u \in Tasks, NEW s \in Movable, MoveTask(p, u, s)
      PROVE  fate[t] \subseteq fate'[t]
  BY <1>5 DEF MoveTask
<1>6. ASSUME NEW p \in Runners, Reread(p) \/ Close(p) PROVE UNCHANGED fate
  BY <1>6 DEF Reread, Close
<1>7. QED
  BY <1>1, <1>2, <1>3, <1>4, <1>5, <1>6
  DEF Next, RunnerStep, vars, Create, RunNow, SetKillSwitch, CheckHalted, CreateTask,
      Claim, BeginRun, StepCheck, Think, RunFails, UseTool

\* A task comes into a runner's hands from the query, or with its row.
LEMMA NewHolder ==
    ASSUME TypeOK, [Next]_vars, NEW t \in Tasks, NEW p \in Runners,
           Runs(p, t)' \/ Awaits(p, t)'
    PROVE  \/ Runs(p, t) \/ Awaits(p, t)
           \/ t \in Due /\ Tick(p)
           \/ IsNext(t) /\ RunNow(p, t)
<1> USE DEF TypeOK, Runs, Awaits, runnerVars, Running, Steps
<1>1. ASSUME NEW q \in Runners, NEW rest \in SUBSET todo[q], Continue(q, rest)
      PROVE  Runs(p, t) \/ Awaits(p, t)
  BY <1>1 DEF Continue
<1>2. ASSUME NEW q \in Runners, NEW u \in Tasks, CheckHalted(q, u)
      PROVE  Runs(p, t) \/ Awaits(p, t)
  <2>1. CASE Continue(q, todo[q] \ {u})
    BY <1>1, <2>1
  <2>2. CASE ~Continue(q, todo[q] \ {u})
    BY <1>2, <2>2 DEF CheckHalted
  <2>3. QED
    BY <2>1, <2>2
<1>3. ASSUME NEW q \in Runners, Reread(q) PROVE Runs(p, t) \/ Awaits(p, t)
  <2>1. CASE Continue(q, todo[q])
    BY <1>1, <2>1
  <2>2. CASE ~Continue(q, todo[q])
    BY <1>3, <2>2 DEF Reread
  <2>3. QED
    BY <2>1, <2>2
<1>4. ASSUME NEW q \in Runners, Close(q) \/ Throws(q) PROVE Runs(p, t) \/ Awaits(p, t)
  <2>1. Continue(q, todo[q]) \/ Continue(q, {})
    BY <1>4 DEF Close, Throws
  <2>2. QED
    BY <1>1, <2>1
<1>5. ASSUME NEW q \in Runners, Claim(q) \/ BeginRun(q) \/ StepCheck(q) \/ Think(q) \/ RunFails(q) \/ Act(q)
      PROVE  Runs(p, t) \/ Awaits(p, t)
  <2>1. /\ UNCHANGED <<cur, todo>>
        /\ pc[q] \in Running \cup {"claim"}
        /\ \A r \in Runners \ {q} : pc'[r] = pc[r]
    BY <1>5 DEF Claim, BeginRun, StepCheck, Think, RunFails, Act
  <2>2. QED
    BY <2>1
<1>6. ASSUME NEW q \in Runners, Tick(q)
      PROVE  Runs(p, t) \/ Awaits(p, t) \/ (t \in Due /\ Tick(p))
  <2>1. /\ UNCHANGED cur /\ todo'[q] \subseteq Due /\ cur[q] = Idle
        /\ \A r \in Runners \ {q} : pc'[r] = pc[r] /\ todo'[r] = todo[r]
    BY <1>6 DEF Tick
  <2>2. QED
    BY <1>6, <2>1, TaskAssumption
<1>7. ASSUME NEW q \in Runners, NEW u \in Tasks, RunNow(q, u)
      PROVE  Runs(p, t) \/ Awaits(p, t) \/ (IsNext(t) /\ RunNow(p, t))
  <2>1. /\ UNCHANGED todo /\ cur'[q] = u /\ IsNext(u)
        /\ \A r \in Runners \ {q} : pc'[r] = pc[r] /\ cur'[r] = cur[r]
        /\ pc[q] = "idle"
    BY <1>7 DEF RunNow
  <2>2. QED
    BY <1>7, <2>1
<1>8. ASSUME Crash PROVE FALSE
  BY <1>8 DEF Crash
<1>9. ASSUME UNCHANGED runnerVars PROVE Runs(p, t) \/ Awaits(p, t)
  BY <1>9
<1>10. QED
  BY <1>2, <1>3, <1>4, <1>5, <1>6, <1>7, <1>8, <1>9
  DEF Next, RunnerStep, vars, Create, HumanMove, SetKillSwitch, UseTool, MoveTask, CreateTask

\* A run starts with a claim.
LEMMA RunStarts ==
    ASSUME TypeOK, [Next]_vars, NEW t \in Tasks, NEW p \in Runners, Runs(p, t)', ~Runs(p, t)
    PROVE  Claim(p) /\ cur[p] = t
<1> USE DEF TypeOK, Runs, runnerVars, Running, Steps
<1>1. ASSUME NEW q \in Runners, NEW rest, Continue(q, rest) PROVE FALSE
  BY <1>1, TaskAssumption DEF Continue
<1>2. ASSUME NEW q \in Runners, NEW u \in Tasks, CheckHalted(q, u) PROVE FALSE
  BY <1>1, <1>2 DEF CheckHalted
<1>3. ASSUME NEW q \in Runners, Reread(q) PROVE FALSE
  BY <1>1, <1>3 DEF Reread
<1>4. ASSUME NEW q \in Runners, Close(q) \/ Throws(q) PROVE FALSE
  BY <1>1, <1>4 DEF Close, Throws
<1>5. ASSUME NEW q \in Runners, BeginRun(q) \/ StepCheck(q) \/ Think(q) \/ RunFails(q) \/ Act(q) PROVE FALSE
  BY <1>5 DEF BeginRun, StepCheck, Think, RunFails, Act
<1>6. ASSUME NEW q \in Runners, Claim(q) PROVE Claim(p) /\ cur[p] = t
  BY <1>6 DEF Claim
<1>7. ASSUME NEW q \in Runners, Tick(q) PROVE FALSE
  <2>1. UNCHANGED cur /\ pc'[q] \in {"idle", "loop"} /\ \A r \in Runners \ {q} : pc'[r] = pc[r]
    BY <1>7 DEF Tick
  <2>2. QED
    BY <2>1
<1>8. ASSUME NEW q \in Runners, NEW u \in Tasks, RunNow(q, u) PROVE FALSE
  BY <1>8 DEF RunNow
<1>9. ASSUME Crash PROVE FALSE
  BY <1>9 DEF Crash
<1>10. QED
  BY <1>2, <1>3, <1>4, <1>5, <1>6, <1>7, <1>8, <1>9
  DEF Next, RunnerStep, vars, Create, HumanMove, SetKillSwitch, UseTool, MoveTask, CreateTask

\* A run ends because its execution died, because the task is no longer
\* IN_PROGRESS, or by taking it out of IN_PROGRESS.
LEMMA RunEnds ==
    ASSUME TypeOK, [Next]_vars, NEW t \in Tasks, NEW p \in Runners, Runs(p, t), ~Runs(p, t)'
    PROVE  "died" \in fate'[t] \/ status'[t] # "IN_PROGRESS"
<1> USE DEF TypeOK, Runs, runnerVars, Running, Steps
<1>1. ASSUME NEW q \in Runners, NEW rest, Continue(q, rest) PROVE q = p
  BY <1>1 DEF Continue
<1>2. ASSUME NEW q \in Runners, NEW u \in Tasks, CheckHalted(q, u) PROVE FALSE
  BY <1>1, <1>2, TaskAssumption DEF CheckHalted
<1>3. ASSUME NEW q \in Runners, Reread(q) PROVE status'[t] # "IN_PROGRESS"
  BY <1>1, <1>3 DEF Reread
<1>4. ASSUME NEW q \in Runners, Close(q) PROVE status'[t] # "IN_PROGRESS"
  BY <1>1, <1>4 DEF Close
<1>5. ASSUME NEW q \in Runners, Throws(q) PROVE "died" \in fate'[t]
  BY <1>1, <1>5 DEF Throws, Tag
<1>6. ASSUME NEW q \in Runners,
             Claim(q) \/ BeginRun(q) \/ StepCheck(q) \/ Think(q) \/ RunFails(q) \/ Act(q) PROVE FALSE
  BY <1>6 DEF Claim, BeginRun, StepCheck, Think, RunFails, Act
<1>7. ASSUME NEW q \in Runners, Tick(q) PROVE FALSE
  <2>1. UNCHANGED cur /\ pc[q] = "idle" /\ \A r \in Runners \ {q} : pc'[r] = pc[r]
    BY <1>7 DEF Tick
  <2>2. QED
    BY <2>1, TaskAssumption
<1>8. ASSUME NEW q \in Runners, NEW u \in Tasks, RunNow(q, u) PROVE FALSE
  BY <1>8, TaskAssumption DEF RunNow
<1>9. ASSUME Crash PROVE "died" \in fate'[t]
  BY <1>9 DEF Crash, Tag
<1>10. QED
  BY <1>2, <1>3, <1>4, <1>5, <1>6, <1>7, <1>8, <1>9
  DEF Next, RunnerStep, vars, Create, HumanMove, SetKillSwitch, UseTool, MoveTask, CreateTask

\* Who writes the status of a task.
LEMMA StatusWriters ==
    ASSUME TypeOK, [Next]_vars, NEW t \in Tasks, status'[t] # status[t]
    PROVE  /\ status'[t] # "NONE"
           /\ \/ IsNext(t) /\ status'[t] = "TODO"
              \/ "moved" \in fate'[t]
              \/ \E p \in Runners : cur[p] = t /\ Claim(p) /\ status'[t] = "IN_PROGRESS"
              \/ \E p \in Runners : cur[p] = t /\ Close(p) /\ status'[t] # "IN_PROGRESS"
<1> USE DEF TypeOK, Movable
<1>1. ASSUME NEW u \in Tasks, Create(u) \/ \E p \in Runners : RunNow(p, u) \/ CreateTask(p, u)
      PROVE  IsNext(t) /\ status'[t] = "TODO"
  BY <1>1 DEF Create, RunNow, CreateTask
<1>2. ASSUME NEW u \in Tasks, NEW s \in Movable \cup {"GONE"}, HumanMove(u, s)
      PROVE  status'[t] # "NONE" /\ "moved" \in fate'[t]
  <2>1. u = t /\ status'[t] = s
    BY <1>2 DEF HumanMove
  <2>2. QED
    BY <1>2, <2>1 DEF HumanMove, Tag
<1>3. ASSUME NEW p \in Runners, NEW u \in Tasks, NEW s \in Movable, MoveTask(p, u, s)
      PROVE  status'[t] # "NONE" /\ "moved" \in fate'[t]
  <2>1. u = t /\ status'[t] = s
    BY <1>3 DEF MoveTask
  <2>2. QED
    BY <1>3, <2>1 DEF MoveTask, Tag
<1>4. ASSUME NEW p \in Runners, Claim(p) PROVE cur[p] = t /\ status'[t] = "IN_PROGRESS"
  BY <1>4 DEF Claim
<1>5. ASSUME NEW p \in Runners, Close(p) PROVE cur[p] = t /\ status'[t] \in {"TODO", "IN_REVIEW"}
  BY <1>5 DEF Close
<1>6. ASSUME \/ UNCHANGED vars \/ Crash
             \/ \E o \in Orgs : SetKillSwitch(o)
             \/ \E p \in Runners :
                  \/ Tick(p) \/ BeginRun(p) \/ StepCheck(p) \/ Think(p) \/ RunFails(p)
                  \/ UseTool(p)
                  \/ Reread(p) \/ Throws(p) \/ \E u \in Tasks : CheckHalted(p, u)
      PROVE  FALSE
  BY <1>6 DEF vars, SetKillSwitch, Tick, CheckHalted, BeginRun, StepCheck, Think,
     RunFails, UseTool, Reread, Throws, Crash
<1>7. QED
  BY <1>1, <1>2, <1>3, <1>4, <1>5, <1>6 DEF Next, RunnerStep

\* No task stays IN_PROGRESS with nobody working on it, unless its execution
\* died or the status was written by hand: the reread and the write that closes
\* a task lose nothing, whatever other executions do in between.
THEOREM RunnerExists == Spec => []TaskHasRunner
<1>1. Init => TaskHasRunner
  BY DEF Init, TaskHasRunner
<1>2. TypeOK /\ TaskHasRunner /\ [Next]_vars => TaskHasRunner'
  <2> SUFFICES ASSUME TypeOK, TaskHasRunner, [Next]_vars,
                      NEW t \in Tasks, status'[t] = "IN_PROGRESS",
                      "died" \notin fate'[t], "moved" \notin fate'[t]
               PROVE  \E p \in Runners : Runs(p, t)'
    BY DEF TaskHasRunner
  <2>1. CASE status[t] = "IN_PROGRESS"
    <3>1. PICK p \in Runners : Runs(p, t)
      BY <2>1, FateKept DEF TaskHasRunner
    <3>2. QED
      BY <3>1, RunEnds
  <2>2. CASE status[t] # "IN_PROGRESS"
    <3>1. PICK p \in Runners : cur[p] = t /\ Claim(p)
      BY <2>2, StatusWriters
    <3>2. Runs(p, t)'
      BY <3>1 DEF Claim, Runs, Running, TypeOK
    <3>3. QED
      BY <3>2
  <2>3. QED
    BY <2>1, <2>2
<1>3. QED
  BY <1>1, <1>2, TypeCorrect, PTL DEF Spec

-----------------------------------------------------------------------------
(* Two executions on one task *)

Holds(p, t) == Runs(p, t) \/ Awaits(p, t)

Excused(t) == fate[t] \cap {"overlap", "moved"} # {}

\* The row of a task somebody holds exists; two executions hold it, or one runs
\* it while the row says TODO, only with a cause.
HandInv ==
    \A t \in Tasks, p \in Runners :
        /\ Holds(p, t) => status[t] # "NONE"
        /\ Runs(p, t) /\ status[t] = "TODO" => Excused(t)
        /\ \A q \in Runners : p # q /\ Holds(p, t) /\ Holds(q, t) => Excused(t)

\* A tick and a directive change nobody else's hands.
LEMMA OthersKept ==
    ASSUME TypeOK, NEW p \in Runners, NEW q \in Runners \ {p}, NEW t \in Tasks,
           Tick(p) \/ RunNow(p, t) \/ Close(p)
    PROVE  /\ Runs(q, t)' <=> Runs(q, t)
           /\ Awaits(q, t)' <=> Awaits(q, t)
<1>1. pc'[q] = pc[q] /\ cur'[q] = cur[q] /\ todo'[q] = todo[q]
  BY DEF TypeOK, Tick, RunNow, Close, Continue
<1>2. QED
  BY <1>1 DEF Runs, Awaits

\* HandInv is inductive.
LEMMA HandStep ==
    ASSUME TypeOK, HandInv, [Next]_vars
    PROVE  HandInv'
<1> SUFFICES ASSUME NEW t \in Tasks, NEW p \in Runners
             PROVE  /\ Holds(p, t)' => status'[t] # "NONE"
                    /\ Runs(p, t)' /\ status'[t] = "TODO" => Excused(t)'
                    /\ \A q \in Runners : p # q /\ Holds(p, t)' /\ Holds(q, t)' => Excused(t)'
  BY DEF HandInv
<1>1. Excused(t) => Excused(t)'
  BY FateKept DEF Excused
<1>2. ASSUME Holds(p, t)' PROVE status'[t] # "NONE"
  <2>1. CASE Holds(p, t)
    BY <2>1, StatusWriters DEF HandInv
  <2>2. CASE t \in Due
    BY <2>2, StatusWriters DEF Due
  <2>3. CASE RunNow(p, t)
    BY <2>3 DEF RunNow, TypeOK
  <2>4. QED
    BY <1>2, <2>1, <2>2, <2>3, NewHolder DEF Holds
<1>3. ASSUME Runs(p, t)', status'[t] = "TODO" PROVE Excused(t)'
  <2>1. CASE ~Runs(p, t)
    <3>1. Claim(p) /\ cur[p] = t
      BY <1>3, <2>1, RunStarts
    <3>2. status'[t] = "IN_PROGRESS"
      BY <3>1 DEF Claim, TypeOK
    <3>3. QED
      BY <1>3, <3>2
  <2>2. CASE Runs(p, t) /\ status[t] = "TODO"
    BY <1>1, <2>2 DEF HandInv
  <2>3. CASE Runs(p, t) /\ status[t] # "TODO"
    <3>1. ~IsNext(t)
      BY <2>3 DEF HandInv, Holds, IsNext
    <3>2. CASE "moved" \in fate'[t]
      BY <3>2 DEF Excused
    <3>3. ASSUME NEW q \in Runners, cur[q] = t, Close(q) PROVE Excused(t)
      <4>1. Runs(q, t)
        BY <3>3 DEF Close, Runs, Running
      <4>2. q # p
        BY <1>3, <3>3 DEF Close, Continue, Runs, Running, TypeOK
      <4>3. QED
        BY <2>3, <4>1, <4>2 DEF HandInv, Holds
    <3>4. QED
      BY <1>1, <1>3, <2>3, <3>1, <3>2, <3>3, StatusWriters
  <2>4. QED
    BY <2>1, <2>2, <2>3
<1>4. ASSUME NEW r \in Runners, NEW q \in Runners, r # q,
             Holds(r, t)', Holds(q, t)', ~Holds(r, t)
      PROVE  Excused(t)'
  <2>1. CASE IsNext(t) /\ RunNow(r, t)
    <3>1. Holds(q, t)
      BY <1>4, <2>1, OthersKept DEF Holds
    <3>2. QED
      BY <2>1, <3>1 DEF HandInv, IsNext
  <2>2. CASE t \in Due /\ Tick(r)
    <3>1. Holds(q, t)
      BY <1>4, <2>2, OthersKept DEF Holds
    <3>2. CASE Runs(q, t)
      BY <1>1, <2>2, <3>2 DEF HandInv, Due
    <3>3. CASE Awaits(q, t)
      <4>1. t \in todo'[r]
        BY <1>4, <2>2, TaskAssumption DEF Holds, Runs, Awaits, Tick, TypeOK
      <4>2. "overlap" \in fate'[t]
        BY <2>2, <3>3, <4>1 DEF Tick, Tag, TypeOK
      <4>3. QED
        BY <4>2 DEF Excused
    <3>4. QED
      BY <3>1, <3>2, <3>3 DEF Holds
  <2>3. QED
    BY <1>4, <2>1, <2>2, NewHolder DEF Holds
<1>5. ASSUME NEW q \in Runners, p # q, Holds(p, t)', Holds(q, t)' PROVE Excused(t)'
  <2>1. CASE Holds(p, t) /\ Holds(q, t)
    BY <1>1, <1>5, <2>1 DEF HandInv
  <2>2. CASE ~Holds(p, t) \/ ~Holds(q, t)
    BY <1>4, <1>5, <2>2
  <2>3. QED
    BY <2>1, <2>2
<1>6. QED
  BY <1>2, <1>3, <1>5

\* Two executions run the same task only if a tick took it while it waited in
\* another batch or its status was written by hand: a claim that has been
\* written keeps every other tick away.
THEOREM ClaimExcludes == Spec => []ConcurrentRunHasCause
<1>1. Init => HandInv
  BY TaskAssumption DEF Init, HandInv, Holds, Runs, Awaits
<1>2. HandInv => ConcurrentRunHasCause
  BY DEF HandInv, Holds, Excused, ConcurrentRunHasCause
<1>3. QED
  BY <1>1, <1>2, HandStep, TypeCorrect, PTL DEF Spec

=============================================================================
