----------------------------- MODULE AgentTools -----------------------------
(***************************************************************************)
(* One run of an agent as it is kept on record: the loop of runAgent, what *)
(* each tool it calls does to the organization's rows, the AgentAction row *)
(* written for the call and the AgentRun row. Each write may fail. The     *)
(* kill-switch and the tasks are in AgentTasks, the budget in              *)
(* AgentSettings.                                                          *)
(***************************************************************************)
EXTENDS Naturals, Sequences

CONSTANTS
    MaxCalls,       \* maxAgentStepsPerRun
    MaxLosses       \* bound on the failures of the database and the provider

ASSUME ToolsAssumption == MaxCalls \in Nat /\ MaxLosses \in Nat

VARIABLES
    runAt,      \* where the execution is
    calling,    \* the agent's role and the tool its model has named
    deeds,      \* its calls: what each did, how it is logged, the writes lost on it
    runRow,     \* AgentRun: status, steps, costTokens in prompts
    prompted,   \* prompts consumeTokenBudget has let through
    losses      \* failures so far

toolVars == <<runAt, calling, deeds, runRow, prompted, losses>>

-----------------------------------------------------------------------------
(* The tools *)

ReadOnly == {"research_topic", "list_recent_content", "business_snapshot", "list_clients", "list_leads",
             "list_projects", "list_project_tasks", "finance_summary"}

\* Tools that answer {error} when an argument is missing or not a known value.
ChecksArguments == {"import_brand_from_website", "research_topic", "draft_email", "create_client",
                    "create_lead", "create_project", "create_project_task", "update_task_status", "notify_owner"}

\* Tools that answer {error} when the row they are about is not the organization's.
LooksRowUp == {"assign_task", "complete_task", "update_client", "update_lead", "update_project",
               "create_project_task", "update_task_status"}

\* Tools whose work is more than one write: what throws may have done part of it.
\* create_task and list_tasks may create the AI Operations project first. (The
\* default rows that reading the settings, the brand or the agents makes are left out.)
SeveralWrites == {"import_brand_from_website", "generate_content", "generate_video", "publish_content",
                  "check_channels", "create_task", "list_tasks"}

OneWrite == {"schedule_content", "assign_task", "complete_task", "draft_email", "create_client",
             "update_client", "create_lead", "update_lead", "create_project", "update_project",
             "create_project_task", "update_task_status", "notify_owner"}

ToolNames == ReadOnly \cup SeveralWrites \cup OneWrite

\* Agent.tools, as ensureDefaultAgents writes them.
ToolsOf ==
    [CEO |-> {"research_topic", "import_brand_from_website", "create_task", "assign_task", "list_tasks",
              "check_channels", "list_recent_content", "draft_email", "business_snapshot", "list_clients",
              "create_client", "update_client", "list_leads", "create_lead", "update_lead", "list_projects",
              "create_project", "update_project", "list_project_tasks", "create_project_task",
              "update_task_status", "finance_summary", "notify_owner"},
     MARKETING |-> {"research_topic", "generate_content", "generate_video", "schedule_content",
              "publish_content", "list_recent_content", "draft_email", "complete_task", "business_snapshot",
              "list_clients", "list_leads", "create_lead", "update_lead", "notify_owner"},
     CTO |-> {"research_topic", "generate_content", "schedule_content", "publish_content", "check_channels",
              "list_recent_content", "complete_task", "business_snapshot", "list_projects", "update_project",
              "list_project_tasks", "create_project_task", "update_task_status", "notify_owner"}]

\* Tools that throw, if nothing fails: an unknown role, content that is not there,
\* and update_client, which hands its arguments to the database as they are:
\* clientId, which names the row, is none of its columns.
Throws(tool, complete, found) ==
    \/ tool \in {"create_task", "assign_task"} /\ ~complete
    \/ tool \in {"schedule_content", "publish_content"} /\ ~found
    \/ tool = "update_client" /\ found

\* Otherwise it does all its work, or says why not.
Works(tool, complete, found) ==
    /\ tool \notin ReadOnly
    /\ tool \in ChecksArguments => complete
    /\ tool \in LooksRowUp => found

CallDone(did) == Append(deeds, [did |-> did, log |-> "none", lost |-> 0, whole |-> calling.tool \notin SeveralWrites])

-----------------------------------------------------------------------------
Silent == [role |-> "CEO", tool |-> "none"]

ToolTypeOK ==
    /\ runAt \in {"idle", "brand", "ask", "answer", "finish", "tool", "blocked", "ok", "error", "count",
                  "complete", "fail", "over"}
    /\ calling.role \in DOMAIN ToolsOf /\ calling.tool \in ToolNames \cup {"none"}
    /\ calling.tool # "none" <=> runAt = "tool"
    /\ Len(deeds) <= MaxCalls
    /\ \A i \in DOMAIN deeds :
        deeds[i] \in [did : {"nothing", "part", "all"}, log : {"none", "ok", "error", "blocked"},
                      lost : 0..2, whole : BOOLEAN]
    /\ runRow \in [status : {"none", "RUNNING", "COMPLETED", "FAILED"}, steps : 0..MaxCalls, cost : Nat]
    /\ prompted \in 0..(MaxCalls + 1) /\ losses \in 0..MaxLosses

ToolInit ==
    /\ runAt = "idle" /\ calling = Silent /\ deeds = <<>>
    /\ runRow = [status |-> "none", steps |-> 0, cost |-> 0]
    /\ prompted = 0 /\ losses = 0

LoseWrite == losses < MaxLosses /\ losses' = losses + 1

\* Every write is done, or fails and takes the execution elsewhere.
Step(from, to, otherwise) ==
    /\ runAt = from
    /\ \/ runAt' = to /\ UNCHANGED losses
       \/ runAt' = otherwise /\ LoseWrite

\* The row is there before the context is put together, outside of the try.
OpenRun(role) ==
    /\ runAt = "idle" /\ runAt' = "brand"
    /\ calling' = [Silent EXCEPT !.role = role]
    /\ runRow' = [runRow EXCEPT !.status = "RUNNING"]
    /\ UNCHANGED <<deeds, prompted, losses>>

BuildContext == Step("brand", "ask", "over") /\ UNCHANGED <<calling, deeds, runRow, prompted>>

\* Step limit; kill-switch or budget may end the run too.
Prompt ==
    /\ runAt = "ask"
    /\ \/ Len(deeds) < MaxCalls /\ runAt' = "answer" /\ prompted' = prompted + 1 /\ UNCHANGED losses
       \/ runAt' = "complete" /\ UNCHANGED <<prompted, losses>>
       \/ runAt' = "fail" /\ LoseWrite /\ UNCHANGED prompted
    /\ UNCHANGED <<calling, deeds, runRow>>

\* The provider fails or its answer is empty; the answer is prose, a summary, or
\* the call of a tool.
Answer(tool) ==
    /\ runAt = "answer"
    /\ \/ runAt' \in {"complete", "finish"} /\ UNCHANGED <<calling, losses>>
       \/ runAt' = "tool" /\ calling' = [calling EXCEPT !.tool = tool] /\ UNCHANGED losses
       \/ runAt' = "fail" /\ LoseWrite /\ UNCHANGED calling
    /\ UNCHANGED <<deeds, runRow, prompted>>

LogFinish == Step("finish", "complete", "fail") /\ UNCHANGED <<calling, deeds, runRow, prompted>>

\* executeTool: what a tool throws becomes its result.
CallTool(complete, found) ==
    /\ runAt = "tool" /\ calling' = [calling EXCEPT !.tool = "none"]
    /\ IF calling.tool \notin ToolsOf[calling.role]
       THEN deeds' = CallDone("nothing") /\ runAt' = "blocked" /\ UNCHANGED losses
       ELSE \/ /\ ~Throws(calling.tool, complete, found)
               /\ deeds' = CallDone(IF Works(calling.tool, complete, found) THEN "all" ELSE "nothing")
               /\ runAt' = "ok" /\ UNCHANGED losses
            \/ /\ IF Throws(calling.tool, complete, found) THEN UNCHANGED losses ELSE LoseWrite
               /\ \/ deeds' = CallDone("nothing")
                  \/ /\ calling.tool \in SeveralWrites /\ (found \/ calling.tool # "publish_content")
                     /\ deeds' = CallDone("part")
               /\ runAt' = "error"
    /\ UNCHANGED <<runRow, prompted>>

\* Mutant: a row that cannot be written does not disturb the run.
LogAction_Quiet(status) == [from |-> status, otherwise |-> "count"]

\* The row that says "ok" is written inside of the try: if that fails, the call
\* is logged as an error. If that fails too, or the "blocked" row, the run fails.
LogAction(status) == [from |-> status, otherwise |-> IF status = "ok" THEN "error" ELSE "fail"]

LogTool(status) ==
    /\ Step(LogAction(status).from, "count", LogAction(status).otherwise)
    /\ LET last == Len(deeds) IN
        deeds' = [deeds EXCEPT ![last] = IF losses' = losses THEN [@ EXCEPT !.log = status]
                                                        ELSE [@ EXCEPT !.lost = deeds[last].lost + 1]]
    /\ UNCHANGED <<calling, runRow, prompted>>

CountStep ==
    /\ Step("count", "ask", "fail")
    /\ runRow' = IF losses' = losses THEN [runRow EXCEPT !.steps = Len(deeds)] ELSE runRow
    /\ UNCHANGED <<calling, deeds, prompted>>

\* The last write of a run; when COMPLETED cannot be written FAILED is tried, and
\* when that fails runAgent throws.
CloseRun(from, status, otherwise) ==
    /\ Step(from, "over", otherwise)
    /\ runRow' = IF losses' = losses THEN [runRow EXCEPT !.status = status, !.cost = prompted] ELSE runRow
    /\ UNCHANGED <<calling, deeds, prompted>>

ToolNext ==
    \/ \E role \in DOMAIN ToolsOf : OpenRun(role)
    \/ BuildContext \/ Prompt \/ LogFinish \/ CountStep
    \/ \E tool \in ToolNames : Answer(tool)
    \/ \E complete, found \in BOOLEAN : CallTool(complete, found)
    \/ \E status \in {"ok", "error", "blocked"} : LogTool(status)
    \/ CloseRun("complete", "COMPLETED", "fail")
    \/ CloseRun("fail", "FAILED", "over")

ToolSpec == ToolInit /\ [][ToolNext]_toolVars

-----------------------------------------------------------------------------
(* Properties *)

\* Every call of a tool is on record, with what it did: "every tool call is an
\* AgentAction row" (docs/AGENT_PLATFORM_README.md:227). A call without a row is
\* the last of a run that is not COMPLETED, and its row was lost. A call whose
\* row says error did nothing, or part of several writes, unless the row that
\* said ok was lost; one whose row says blocked did nothing.
CallsAreOnRecord ==
    \A i \in DOMAIN deeds :
        /\ deeds[i].log = "none" /\ runAt \notin {"ok", "error", "blocked"} =>
            i = Len(deeds) /\ deeds[i].lost > 0 /\ runRow.status # "COMPLETED"
        /\ deeds[i].log = "error" /\ deeds[i].did = "all" => deeds[i].lost > 0
        /\ deeds[i].log = "error" /\ deeds[i].did = "part" => ~deeds[i].whole
        /\ deeds[i].log = "blocked" => deeds[i].did = "nothing"

\* The row of a run says how it ended: all its calls are counted if it was
\* COMPLETED, its cost is the prompts that were let through, and only a run that
\* has lost a write is left RUNNING, or FAILED with calls that are not counted.
RunIsClosed ==
    /\ runRow.status = "COMPLETED" => runRow.steps = Len(deeds) /\ \A i \in DOMAIN deeds : deeds[i].log # "none"
    /\ runRow.status \in {"COMPLETED", "FAILED"} => runRow.cost = prompted
    /\ runAt = "over" /\ losses = 0 => runRow.status = "COMPLETED"
    /\ runRow.steps \in {Len(deeds) - 1, Len(deeds)}
=============================================================================
