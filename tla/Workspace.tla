------------------------------ MODULE Workspace ------------------------------
(***************************************************************************)
(* The rows that the members and the agents of one organization edit:      *)
(* projects, tasks, teams, leads, clients, hours, attendance and so on.    *)
(* An operation of these services is a list of reads and one write, each   *)
(* awaited, without a transaction; between two of them any other call may  *)
(* run. The database enforces unique indexes and nothing else: onDelete is *)
(* NoAction throughout. What a write puts into a row is left out but for   *)
(* its place among its siblings, its closing and its being the main one.   *)
(***************************************************************************)
EXTENDS Naturals, Sequences, FiniteSets

CONSTANTS
    Editors,    \* calls in flight
    MaxRows     \* bound: rows made

ASSUME WorkspaceAssumption == MaxRows \in Nat

VARIABLES
    service,    \* the operations of the service that is followed
    workRows,   \* its rows
    made,       \* number of rows made
    todo, doing, on, saw,   \* each call: reads left, operation, row it names, what it has read
    gaps        \* history: parents and kinds of rows that were removed

callerVars == <<todo, doing, on, saw>>
workVars == <<service, workRows, made, callerVars, gaps>>

-----------------------------------------------------------------------------
(* The operations. kind says what is written; at, which row the request     *)
(* names: none, the row itself, the parent of the one to be added, or a     *)
(* child whose parent is looked up.                                         *)

Operation(kind, at, reads, write) == [kind |-> kind, at |-> at, reads |-> reads, write |-> write]

CreateRow(kind) == Operation(kind, "none", <<>>, "make")
Add(kind) == Operation(kind, "parent", <<"find">>, "add")
Update(kind) == Operation(kind, "row", <<"find">>, "set")
Delete(kind) == Operation(kind, "row", <<"find">>, "drop")
RemoveChild(kind) == Operation(kind, "child", <<"find">>, "drop")

\* TasksService, and the tasks that agents make and move. Rows are the tasks of
\* one project; the status may be given when a task is made. update accepts a
\* position from the client.
CreateTask == Operation("task", "none", <<"count">>, "make")
UpdateTask == Operation("task", "row", <<"find">>, "place")
DeleteTask == Delete("task")
BulkUpdate == Operation("task", "row", <<>>, "setMany")
AgentTask == Operation("task", "none", <<"count">>, "add")
UpdateTaskStatus == Update("task")
Tasks == {CreateTask, UpdateTask, DeleteTask, BulkUpdate, AgentTask, UpdateTaskStatus}

\* What hangs on a task.
AddComment == Add("comment")
DeleteComment == RemoveChild("comment")
AddChecklistItem == Operation("item", "parent", <<"find", "count">>, "make")
ToggleChecklistItem == Operation("item", "child", <<"find", "fetch">>, "tick")
DeleteChecklistItem == RemoveChild("item")
AddDependency == Operation("dependency", "parent", <<"find">>, "unique")
RemoveDependency == RemoveChild("dependency")
Checklist == {AgentTask, DeleteTask, AddChecklistItem, ToggleChecklistItem, DeleteChecklistItem}
Discussion == {AgentTask, DeleteTask, AddComment, DeleteComment, AddDependency, RemoveDependency}

\* ProjectsService and the projects of agents, with members and milestones;
\* deleting archives.
CreateProject == CreateRow("project")
UpdateProject == Update("project")
AddProjectMember == Operation("member", "parent", <<"find", "check">>, "unique")
RemoveProjectMember == RemoveChild("member")
AddMilestone == Operation("milestone", "parent", <<"find", "count">>, "add")
CompleteMilestone == Operation("milestone", "child", <<"find">>, "close")
DeleteMilestone == RemoveChild("milestone")
Projects == {CreateProject, UpdateProject, AddMilestone, CompleteMilestone, DeleteMilestone}
ProjectMembers == {CreateProject, AddProjectMember, RemoveProjectMember}

\* TeamsService.
CreateTeam == Operation("team", "none", <<>>, "add")
UpdateTeam == Operation("team", "row", <<"find">>, "edit")
DeleteTeam == Delete("team")
AddTeamMember == AddProjectMember
RemoveTeamMember == RemoveProjectMember
Teams == {CreateTeam, UpdateTeam, DeleteTeam, AddTeamMember, RemoveTeamMember}

\* LeadsService and the leads of agents.
CreateLead == CreateRow("lead")
UpdateLead == Update("lead")
DeleteLead == Delete("lead")
AddActivity == Add("activity")
Leads == {CreateLead, UpdateLead, DeleteLead, AddActivity}

\* ClientsService and the clients of agents; deleting archives. The other
\* contacts are demoted before a primary one is added.
CreateClient == Operation("client", "none", <<>>, "add")
UpdateClient == Operation("client", "row", <<"find">>, "edit")
AddContact == Add("contact")
AddPrimaryContact == Operation("contact", "parent", <<"find", "clear">>, "main")
RemoveContact == RemoveChild("contact")
Customers == {CreateClient, UpdateClient, AddContact, AddPrimaryContact, RemoveContact}

\* TimeTrackingService, of one user: the main row is the running timer.

\* Mutant: no look at whether one runs.
StartTimer_Unchecked == Operation("entry", "none", <<>>, "main")

StartTimer == Operation("entry", "none", <<"check">>, "main")
StopTimer == Operation("entry", "row", <<"running">>, "stop")
ManualEntry == Operation("entry", "none", <<>>, "add")
DeleteEntry == Delete("entry")
Hours == {StartTimer, StopTimer, ManualEntry, DeleteEntry}

\* HrService: the main row is the attendance of one user today; a second
\* check-in finds it, or is an upsert. Leave is decided whatever was decided.
CheckIn == Operation("attendance", "none", <<"check">>, "upsert")
CheckOut == Operation("attendance", "row", <<"find">>, "edit")
CreateEmployee == Operation("employee", "none", <<>>, "unique")
RequestLeave == Operation("leave", "none", <<>>, "add")
DecideLeave == Operation("leave", "row", <<>>, "edit")
People == {CheckIn, CheckOut, CreateEmployee, RequestLeave, DecideLeave}

\* ExpensesService, quotations and notifications.
CreateExpense == Operation("expense", "none", <<>>, "add")
DecideExpense == Operation("expense", "row", <<>>, "edit")
CreateCategory == Operation("category", "none", <<>>, "unique")
UpdateQuotation == Operation("quotation", "row", <<"find">>, "edit")
DeleteQuotation == Delete("quotation")
CreateQuotation == Operation("quotation", "none", <<>>, "add")
ConvertToProject == Add("project")
Notify == Operation("notification", "none", <<>>, "add")
MarkRead == Operation("notification", "row", <<>>, "edit")
DeleteNotification == Operation("notification", "row", <<>>, "drop")
Papers ==
    {CreateExpense, DecideExpense, CreateCategory, CreateQuotation, UpdateQuotation, DeleteQuotation,
     ConvertToProject, Notify, MarkRead, DeleteNotification}

Services == {Tasks, Checklist, Discussion, Projects, ProjectMembers, Teams, Leads, Customers, Hours, People, Papers}

-----------------------------------------------------------------------------
\* No row: what is made at the top hangs on it.
Root == [id |-> 0, up |-> 0, kind |-> "org", place |-> 0, main |-> FALSE,
         closed |-> FALSE, dated |-> FALSE, told |-> FALSE, shaky |-> FALSE]

\* A row as a request names it.
NameOf(r) == [id |-> r.id, up |-> r.up]

NoOp == Operation("none", "none", <<>>, "none")

WorkTypeOK ==
    /\ service \in Services /\ made \in 0..MaxRows
    /\ \A r \in workRows : r.id \in 1..made /\ r.up \in 0..made /\ r.place \in 0..MaxRows
    /\ \A r \in workRows : {r.main, r.closed, r.dated, r.told, r.shaky} \subseteq BOOLEAN
    /\ \A c \in Editors : doing[c] \in service \cup {NoOp} /\ saw[c] \in 0..MaxRows
    /\ \A c \in Editors : \E n \in 0..2 : Len(todo[c]) = n

WorkInit ==
    /\ service \in Services /\ workRows = {} /\ made = 0 /\ gaps = {}
    /\ todo = [c \in Editors |-> <<>>] /\ doing = [c \in Editors |-> NoOp]
    /\ on = [c \in Editors |-> NameOf(Root)] /\ saw = [c \in Editors |-> 0]

\* Call c is answered: with success, 400, 404 or 409, or 500.
Answered(c) ==
    /\ doing' = [doing EXCEPT ![c] = NoOp] /\ todo' = [todo EXCEPT ![c] = <<>>]
    /\ on' = [on EXCEPT ![c] = NameOf(Root)] /\ saw' = [saw EXCEPT ![c] = 0]

Exists(id) == \E r \in workRows : r.id = id
RowOf(c) == CHOOSE r \in workRows : r.id = on[c].id

\* The rows among which call c puts a new one.
Siblings(c) == {r \in workRows : r.up = on[c].id /\ r.kind = doing[c].kind}

Targets(o) ==
    CASE o.at = "none" -> {Root}
      [] o.at = "parent" -> {r \in workRows : r.up = 0}
      [] OTHER -> {r \in workRows : r.kind = o.kind}

Call(c, o) ==
    /\ doing[c] = NoOp
    /\ \E r \in Targets(o) : on' = [on EXCEPT ![c] = NameOf(r)]
    /\ doing' = [doing EXCEPT ![c] = o] /\ todo' = [todo EXCEPT ![c] = o.reads]
    /\ UNCHANGED <<service, workRows, made, saw, gaps>>

\* The row that findOne looks for: the one named, or its parent.
Sought(c) == IF doing[c].at = "child" THEN on[c].up ELSE on[c].id

\* A read finds that the call has to be refused.
TurnedDown(c) ==
    CASE Head(todo[c]) = "find" -> ~Exists(Sought(c))
      [] Head(todo[c]) = "fetch" -> ~Exists(on[c].id)
      [] Head(todo[c]) = "running" -> ~(Exists(on[c].id) /\ RowOf(c).main)
      [] Head(todo[c]) = "check" -> \E r \in Siblings(c) : r.main
      [] OTHER -> FALSE

ReadRow(c) ==
    /\ todo[c] # <<>>
    /\ IF TurnedDown(c) THEN Answered(c) /\ UNCHANGED workRows
       ELSE /\ todo' = [todo EXCEPT ![c] = Tail(@)]
            /\ saw' = [saw EXCEPT ![c] =
                          CASE Head(todo[c]) = "count" -> Cardinality(Siblings(c))
                            [] Head(todo[c]) = "fetch" -> IF RowOf(c).closed THEN 1 ELSE 0
                            [] OTHER -> @]
            /\ workRows' = IF Head(todo[c]) = "clear"
                       THEN (workRows \ Siblings(c)) \cup {[r EXCEPT !.main = FALSE] : r \in Siblings(c)}
                       ELSE workRows
            /\ UNCHANGED <<doing, on>>
    /\ UNCHANGED <<service, made, gaps>>

Writes(c, what) == todo[c] = <<>> /\ doing[c].write \in what

\* create. The position of a new row is the count that was read. It is shaky
\* when what its call had read was no longer so.
Make(c) ==
    /\ Writes(c, {"make", "add", "main", "unique", "upsert"}) /\ made < MaxRows
    /\ LET alone == doing[c].write \in {"main", "unique", "upsert"}
           taken == alone /\ \E r \in Siblings(c) : r.main
           had == {doing[c].reads[i] : i \in DOMAIN doing[c].reads}
       IN  IF taken /\ doing[c].write # "main" THEN UNCHANGED <<workRows, made>>
           ELSE \E closed \in IF doing[c].write = "make" THEN BOOLEAN ELSE {FALSE} :
                /\ made' = made + 1
                /\ workRows' = workRows \cup
                    {[Root EXCEPT !.id = made + 1, !.up = on[c].id, !.kind = doing[c].kind,
                                  !.place = saw[c], !.main = alone, !.closed = closed, !.told = closed,
                                  !.shaky = \/ taken /\ had \cap {"check", "clear"} # {}
                                            \/ "count" \in had /\ saw[c] # Cardinality(Siblings(c))]}
    /\ Answered(c)
    /\ UNCHANGED <<service, gaps>>

\* Mutant: only one of the ways to close a row sets the date.
Closed_Undated(r) == [r EXCEPT !.closed = TRUE, !.told = FALSE]

\* A status that closes a row comes with its date.
Closed(r) == [r EXCEPT !.closed = TRUE, !.dated = TRUE, !.told = FALSE]

\* What an update may make of row r; reopening keeps the date.
Updates(r, what) ==
    CASE what = "close" -> {Closed(r)}
      [] what \in {"set", "setMany"} -> {r, Closed(r), [r EXCEPT !.closed = FALSE, !.told = FALSE]}
      [] what = "place" -> {r, Closed(r), [r EXCEPT !.closed = FALSE, !.told = FALSE]}
                           \cup {[r EXCEPT !.place = 0, !.shaky = TRUE]}
      [] what = "stop" -> {[r EXCEPT !.main = FALSE]}
      [] OTHER -> {r}

\* update by id, which throws when the row has gone; updateMany does nothing then.
ChangeRow(c) ==
    /\ Writes(c, {"close", "set", "setMany", "place", "stop", "edit"})
    /\ IF Exists(on[c].id)
       THEN \E r \in Updates(RowOf(c), doing[c].write) : workRows' = (workRows \ {RowOf(c)}) \cup {r}
       ELSE UNCHANGED workRows
    /\ Answered(c)
    /\ UNCHANGED <<service, made, gaps>>

\* The item becomes what it was not when it was read.
Tick(c) ==
    /\ Writes(c, {"tick"})
    /\ workRows' = IF Exists(on[c].id)
               THEN (workRows \ {RowOf(c)}) \cup
                    {[RowOf(c) EXCEPT !.closed = (saw[c] = 0), !.told = ~@,
                                      !.shaky = @ \/ (RowOf(c).closed # (saw[c] = 1))]}
               ELSE workRows
    /\ Answered(c)
    /\ UNCHANGED <<service, made, gaps>>

\* delete and deleteMany leave what hangs on the row.
Drop(c) ==
    /\ Writes(c, {"drop"})
    /\ workRows' = {r \in workRows : r.id # on[c].id}
    /\ gaps' = gaps \cup {<<r.up, r.kind>> : r \in workRows \ workRows'}
    /\ Answered(c)
    /\ UNCHANGED <<service, made>>

WorkNext == \E c \in Editors :
    (\E o \in service : Call(c, o)) \/ ReadRow(c) \/ Make(c) \/ ChangeRow(c) \/ Tick(c) \/ Drop(c)

WorkSpec == WorkInit /\ [][WorkNext]_workVars

-----------------------------------------------------------------------------
(* Properties *)

\* Siblings are told apart: no two of them have the same position (tasks on a
\* board, items of a checklist, milestones), and no two are the main one (the
\* running timer, the primary contact, one membership or attendance of one
\* user). The exceptions: one was written on a reading that another call had
\* outdated, was placed by hand, or a sibling has been removed since.
SiblingsApart ==
    \A r, s \in workRows : r # s /\ r.up = s.up /\ r.kind = s.kind /\ ~r.shaky /\ ~s.shaky =>
        /\ ~(r.main /\ s.main)
        /\ r.kind \in {"task", "item", "milestone"} /\ <<r.up, r.kind>> \notin gaps => r.place # s.place

\* A row that any of the ways to close it has closed has its date, unless it
\* was made closed; and a checklist item is ticked when it has been toggled
\* an odd number of times, but for two toggles that crossed.
MarksAddUp ==
    \A r \in workRows :
        /\ r.kind # "item" /\ r.closed => r.dated \/ r.told
        /\ r.kind = "item" /\ ~r.shaky => r.closed = r.told
=============================================================================
