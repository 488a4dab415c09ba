------------------------------ MODULE Planning ------------------------------
(***************************************************************************)
(* The default agents of an organization and what is started in their      *)
(* name: the daily plan of the CEO agent and the directives of the owner.  *)
(* A call is the list of the awaited steps it has left; every way to an    *)
(* agent goes through ensureDefaultAgents, which reads whether a human has *)
(* edited the prompt and then writes. One role stands for the three.       *)
(***************************************************************************)
EXTENDS Naturals, Sequences

CONSTANTS
    Planners,       \* calls in flight
    MaxEdits,       \* bound: edits of the agent
    MaxReleases,    \* bound: versions of the platform's prompt
    MaxDays         \* bound: days

VARIABLES
    agent,          \* the Agent row
    release,        \* version of the prompt in DEFAULT_AGENT_DEFS
    edits,          \* edits of the prompt so far
    opsProject,     \* is there an "AI Operations" project
    halted,         \* kill switch
    day, planHour,  \* the day; is this the hour of the plan
    plannedOn,      \* the days of the runs started by the daily tick
    steps, customized, live,    \* each call: steps left; what it has read of the agent
    overwritten,    \* history: an edit that a call did not know of was overwritten
    crossedDays         \* history: days on which two ticks were past the check at once

planVars == <<agent, release, edits, opsProject, halted, day, planHour, plannedOn, steps, customized, live,
              overwritten, crossedDays>>

NoAgent == [there |-> FALSE, edited |-> FALSE, by |-> "platform", no |-> 0, active |-> TRUE]

\* The calls: getByRole, update, getOpsProjectId, createDirective, listDirectives
\* and the daily tick; runDailyPlan by hand is the end of the last.
Ensure == <<"look", "upsert">>
Edit == <<"get", "write">>
OpsProject == <<"find", "owner", "create">>
Directive == Ensure \o OpsProject \o <<"task">>

\* Mutant: the run is tried once more though it was made.
RunDailyPlan_Retried == Ensure \o <<"agent", "start", "agent", "start">>

RunDailyPlan == Ensure \o <<"agent", "start">>
DailyTick == <<"due">> \o Ensure \o <<"planned">> \o RunDailyPlan

CallKinds == {Ensure, Edit, OpsProject, Directive, DailyTick}

PlanTypeOK ==
    /\ agent \in [there : BOOLEAN, edited : BOOLEAN, by : {"platform", "human"}, no : Nat, active : BOOLEAN]
    /\ {release, edits, day} \subseteq Nat
    /\ {opsProject, halted, planHour, overwritten} \subseteq BOOLEAN
    /\ \A p \in Planners : \E c \in CallKinds : \E n \in 1..(Len(c) + 1) : steps[p] = SubSeq(c, n, Len(c))
    /\ {customized, live} \subseteq [Planners -> BOOLEAN]
    /\ \A i \in DOMAIN plannedOn : plannedOn[i] \in 1..day
    /\ crossedDays \subseteq 1..day

PlanInit ==
    /\ agent = NoAgent /\ release = 1 /\ edits = 0
    /\ opsProject = FALSE /\ halted = FALSE
    /\ day = 1 /\ planHour \in BOOLEAN /\ plannedOn = <<>>
    /\ steps = [p \in Planners |-> <<>>]
    /\ customized = [p \in Planners |-> FALSE] /\ live = [p \in Planners |-> FALSE]
    /\ overwritten = FALSE /\ crossedDays = {}

-----------------------------------------------------------------------------
At(p, step) == steps[p] # <<>> /\ Head(steps[p]) = step

Advance(p) == steps' = [steps EXCEPT ![p] = Tail(@)]

\* The call is answered or throws.
Stop(p) == steps' = [steps EXCEPT ![p] = <<>>]

Ask(p, calls) ==
    /\ steps[p] = <<>>
    /\ \E c \in calls : steps' = [steps EXCEPT ![p] = c]
    /\ UNCHANGED <<agent, release, edits, opsProject, halted, day, planHour, plannedOn, customized, live, overwritten, crossedDays>>

Look(p) ==
    /\ At(p, "look")
    /\ customized' = [customized EXCEPT ![p] = agent.there /\ agent.edited]
    /\ Advance(p)
    /\ UNCHANGED <<agent, release, edits, opsProject, halted, day, planHour, plannedOn, live, overwritten, crossedDays>>

\* Mutant: the prompt tracks the platform whoever wrote it.
Tracks_Always(p) == TRUE

\* Does the upsert write the platform's prompt?
Tracks(p) == ~(agent.there /\ customized[p])

Upsert(p) ==
    /\ At(p, "upsert")
    /\ agent' = IF ~Tracks(p) THEN agent
                ELSE [agent EXCEPT !.there = TRUE, !.by = "platform", !.no = release]
    /\ overwritten' = (overwritten \/ (agent.edited /\ ~customized[p]))
    /\ customized' = [customized EXCEPT ![p] = FALSE]
    /\ Advance(p)
    /\ UNCHANGED <<release, edits, opsProject, halted, day, planHour, plannedOn, live, crossedDays>>

\* update has found the agent. A new prompt opts the agent out; a name or the
\* switch alone does not.
GetAgent(p) ==
    /\ At(p, "get")
    /\ IF agent.there THEN Advance(p) ELSE Stop(p)
    /\ UNCHANGED <<agent, release, edits, opsProject, halted, day, planHour, plannedOn, customized, live, overwritten, crossedDays>>

Rewrite(p) ==
    /\ At(p, "write") /\ edits < MaxEdits
    /\ edits' = edits + 1
    /\ agent' = [agent EXCEPT !.edited = TRUE, !.by = "human", !.no = edits + 1]
    /\ overwritten' = FALSE
    /\ Advance(p)
    /\ UNCHANGED <<release, opsProject, halted, day, planHour, plannedOn, customized, live, crossedDays>>

Switch(p) ==
    /\ At(p, "write")
    /\ agent' = [agent EXCEPT !.active = ~@]
    /\ Advance(p)
    /\ UNCHANGED <<release, edits, opsProject, halted, day, planHour, plannedOn, customized, live, overwritten, crossedDays>>

\* getOpsProjectId: what is found ends it; create throws when another call
\* was quicker. getOwnerUserId finds a member.
Find(p) ==
    /\ At(p, "find") \/ At(p, "owner") \/ At(p, "task")
    /\ steps' = [steps EXCEPT ![p] = IF At(p, "find") /\ opsProject THEN SubSeq(@, 4, Len(@)) ELSE Tail(@)]
    /\ UNCHANGED <<agent, release, edits, opsProject, halted, day, planHour, plannedOn, customized, live, overwritten, crossedDays>>

CreateOpsProject(p) ==
    /\ At(p, "create")
    /\ IF opsProject THEN Stop(p) ELSE Advance(p)
    /\ opsProject' = TRUE
    /\ UNCHANGED <<agent, release, edits, halted, day, planHour, plannedOn, customized, live, overwritten, crossedDays>>

-----------------------------------------------------------------------------
(* The daily plan *)

\* dailyPlanningTick finds the organization when its hour has come.
Due(p) ==
    /\ At(p, "due")
    /\ IF planHour /\ ~halted THEN Advance(p) ELSE Stop(p)
    /\ UNCHANGED <<agent, release, edits, opsProject, halted, day, planHour, plannedOn, customized, live, overwritten, crossedDays>>

\* Is call p a tick that is past the check?
Past(p) == steps[p] # <<>> /\ \E n \in 1..Len(RunDailyPlan) : steps[p] = SubSeq(RunDailyPlan, n, Len(RunDailyPlan))

HasPlannedToday == \E i \in DOMAIN plannedOn : plannedOn[i] = day

Planned(p) ==
    /\ At(p, "planned")
    /\ IF HasPlannedToday THEN Stop(p) /\ UNCHANGED crossedDays
       ELSE Advance(p) /\ crossedDays' = IF \E q \in Planners \ {p} : Past(q) THEN crossedDays \cup {day} ELSE crossedDays
    /\ UNCHANGED <<agent, release, edits, opsProject, halted, day, planHour, plannedOn, customized, live, overwritten>>

\* The agent is read here, and used after the briefing.
ReadAgent(p) ==
    /\ At(p, "agent")
    /\ live' = [live EXCEPT ![p] = agent.active]
    /\ Advance(p)
    /\ UNCHANGED <<agent, release, edits, opsProject, halted, day, planHour, plannedOn, customized, overwritten, crossedDays>>

\* runAgent makes the run, whose trigger says that it was the tick's.
StartRun(p) ==
    /\ At(p, "start")
    /\ plannedOn' = IF ~halted /\ live[p] THEN Append(plannedOn, day) ELSE plannedOn
    /\ live' = [live EXCEPT ![p] = FALSE]
    /\ Advance(p)
    /\ UNCHANGED <<agent, release, edits, opsProject, halted, day, planHour, customized, overwritten, crossedDays>>

-----------------------------------------------------------------------------
\* The clock: the hour of the plan comes and goes, and a new day begins. A tick
\* that crosses midnight counts for the new day.
Clock ==
    /\ \/ planHour' = ~planHour /\ UNCHANGED <<day, crossedDays>>
       \/ /\ day < MaxDays /\ day' = day + 1
          /\ crossedDays' = IF \E p, q \in Planners : p # q /\ Past(p) /\ Past(q) THEN crossedDays \cup {day + 1} ELSE crossedDays
          /\ UNCHANGED planHour
    /\ UNCHANGED <<agent, release, edits, opsProject, halted, plannedOn, steps, customized, live, overwritten>>

KillSwitch ==
    /\ halted' = ~halted
    /\ UNCHANGED <<agent, release, edits, opsProject, day, planHour, plannedOn, steps, customized, live, overwritten, crossedDays>>

\* A new version is deployed: the calls in flight are lost.
Deploy ==
    /\ release < MaxReleases /\ release' = release + 1
    /\ steps' = [p \in Planners |-> <<>>]
    /\ UNCHANGED <<agent, edits, opsProject, halted, day, planHour, plannedOn, customized, live, overwritten, crossedDays>>

\* What touches the prompts and the project; what touches the daily plan. Each
\* of the two is a set of behaviours of the whole.
Prompting ==
    \/ \E p \in Planners :
        \/ Ask(p, {Ensure, Edit, OpsProject, Directive}) \/ Look(p) \/ Upsert(p) \/ GetAgent(p) \/ Rewrite(p)
        \/ Find(p) \/ CreateOpsProject(p)
    \/ Deploy

PlanningTheDay ==
    \/ \E p \in Planners :
        \/ Ask(p, {Edit, DailyTick}) \/ Look(p) \/ Upsert(p) \/ GetAgent(p) \/ Switch(p)
        \/ Due(p) \/ Planned(p) \/ ReadAgent(p) \/ StartRun(p)
    \/ Clock \/ KillSwitch

PlanNext == Prompting \/ PlanningTheDay

PlanSpec == PlanInit /\ [][PlanNext]_planVars

-----------------------------------------------------------------------------
(* Properties *)

\* The prompt of an agent that a human has edited is the one the human wrote
\* last, unless a call of ensureDefaultAgents that had looked at the agent
\* before the edit wrote after it.
PromptStays == agent.edited /\ ~overwritten => agent.by = "human" /\ agent.no = edits

\* At most one daily plan is started on a day, unless two ticks were past
\* hasPlannedToday at once.
PlannedOnce ==
    \A i, j \in DOMAIN plannedOn : plannedOn[i] = plannedOn[j] /\ plannedOn[i] \notin crossedDays => i = j
=============================================================================
