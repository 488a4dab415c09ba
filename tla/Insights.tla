------------------------------ MODULE Insights ------------------------------
(***************************************************************************)
(* The single questions AiService answers: it reads some figures, asks a   *)
(* model for JSON, takes what it likes of the reply and has an answer of   *)
(* its own for everything else. The model takes seconds, and people write  *)
(* meanwhile. Prompts and wording are left out.                            *)
(***************************************************************************)
EXTENDS Naturals

CONSTANTS
    Askers,     \* calls in flight
    MaxTasks,   \* tasks of the project
    MaxChanges  \* bound on what people write

ASSUME InsightAssumption == MaxTasks \in Nat /\ MaxChanges \in Nat

VARIABLES
    connected,  \* is there a key for the model
    project,    \* the project asked about: is there one, its deadline, its tasks by state
    business,   \* payments, projects and clients of the organization
    changes,    \* writes so far
    question,   \* each call: what is asked, its step and what it has read
    answer,     \* each call: what it was answered
    moments     \* history: each call, the projects and the businesses there were during it

insightVars == <<connected, project, business, changes, question, answer, moments>>

Features == {"tasks", "pricing", "summary", "document", "delay", "report"}

\* Nothing checks the number of tasks asked for, nor that there is a text to sum up.
Unchecked == {"tasks", "summary"}
Figures == {"payments", "projects", "clients"}
Counts == [done : 0..MaxTasks, overdue : 0..MaxTasks, open : 0..MaxTasks]
Projects == [exists : BOOLEAN, deadline : BOOLEAN, tasks : Counts]
Risks == {"overdue", "incomplete", "noDeadline", "low"}
Silence == [from |-> "none", chance |-> 0, risks |-> {}]
NoQuestion == [at |-> "idle", feature |-> "none", sound |-> TRUE, deadline |-> FALSE, tasks |-> [done |-> 0, overdue |-> 0, open |-> 0],
               figures |-> [f \in Figures |-> 0], missing |-> {}]
NoMoments == [projects |-> {}, businesses |-> {}]

InsightTypeOK ==
    /\ connected \in BOOLEAN /\ project \in Projects
    /\ business \in [Figures -> 0..MaxChanges] /\ changes \in 0..MaxChanges
    /\ question \in [Askers -> [at : {"idle", "read", "tasks", "ask", "format", "done"}, feature : Features \cup {"none"}, sound : BOOLEAN,
                                deadline : BOOLEAN, tasks : Counts, figures : [Figures -> 0..MaxChanges], missing : SUBSET Figures]]
    /\ answer \in [Askers -> [from : {"none", "model", "mistyped", "listless", "heuristic", "unknown", "threw"},
                              chance : 0..100, risks : SUBSET Risks]]
    /\ \A a \in Askers : moments[a].projects \subseteq Projects /\ moments[a].businesses \subseteq [Figures -> 0..MaxChanges]

InsightInit ==
    /\ connected \in BOOLEAN
    /\ project = [exists |-> TRUE, deadline |-> TRUE, tasks |-> [done |-> 0, overdue |-> 0, open |-> MaxTasks]]
    /\ business = [f \in Figures |-> 0] /\ changes = 0
    /\ question = [a \in Askers |-> NoQuestion]
    /\ answer = [a \in Askers |-> Silence]
    /\ moments = [a \in Askers |-> NoMoments]

Underway(a) == question[a].at \notin {"idle", "done"}
Witness(p, b) ==
    moments' = [a \in Askers |-> IF Underway(a)
                                 THEN [projects |-> moments[a].projects \cup {p}, businesses |-> moments[a].businesses \cup {b}]
                                 ELSE moments[a]]

-----------------------------------------------------------------------------
(* What people do meanwhile *)

Move(from, to) ==
    /\ project.tasks[from] > 0
    /\ project' = [project EXCEPT !.tasks[from] = @ - 1, !.tasks[to] = @ + 1]

Write ==
    /\ changes < MaxChanges /\ changes' = changes + 1
    /\ \/ /\ \/ Move("open", "done") \/ Move("overdue", "done") \/ Move("open", "overdue")
             \/ project' = [project EXCEPT !.exists = FALSE]
             \/ project' = [project EXCEPT !.deadline = ~@]
          /\ UNCHANGED business
       \/ /\ \E f \in Figures : business' = [business EXCEPT ![f] = @ + 1]
          /\ UNCHANGED project
    /\ Witness(project', business')
    /\ UNCHANGED <<connected, question, answer>>

-----------------------------------------------------------------------------
(* A question *)

Enquire(a, feature, sound) ==
    /\ question[a].at = "idle"
    /\ sound \/ feature \in Unchecked
    /\ question' = [question EXCEPT ![a].feature = feature, ![a].sound = sound,
                                    ![a].at = IF feature \in {"delay", "report", "document", "pricing"} THEN "read" ELSE "ask",
                                    ![a].missing = IF feature = "report" THEN Figures ELSE {}]
    /\ moments' = [moments EXCEPT ![a] = [projects |-> {project}, businesses |-> {business}]]
    /\ UNCHANGED <<connected, project, business, changes, answer>>

End(a, from, chance, risks) ==
    /\ question' = [question EXCEPT ![a].at = "done"]
    /\ answer' = [answer EXCEPT ![a] = [from |-> from, chance |-> chance, risks |-> risks]]
    /\ UNCHANGED <<connected, project, business, changes, moments>>

\* The project's row is read, then its tasks; the three figures of a report are
\* asked for at once.
ReadProject(a) ==
    /\ question[a].at = "read" /\ question[a].feature = "delay"
    /\ IF project.exists
       THEN /\ question' = [question EXCEPT ![a].at = "tasks", ![a].deadline = project.deadline]
            /\ UNCHANGED <<connected, project, business, changes, answer, moments>>
       ELSE End(a, "unknown", 0, {})

ReadTasks(a) ==
    /\ question[a].at = "tasks"
    /\ question' = [question EXCEPT ![a].at = "ask",
                                    ![a].tasks = IF project.exists THEN project.tasks ELSE NoQuestion.tasks]
    /\ UNCHANGED <<connected, project, business, changes, answer, moments>>

ReadFigure(a, f) ==
    /\ question[a].at = "read" /\ f \in question[a].missing
    /\ question' = [question EXCEPT ![a].figures[f] = business[f], ![a].missing = @ \ {f},
                                    ![a].at = IF question[a].missing = {f} THEN "ask" ELSE "read"]
    /\ UNCHANGED <<connected, project, business, changes, answer, moments>>

\* A document that is not there is an error; the average of the budgets is one query.
ReadRow(a) ==
    /\ question[a].at = "read" /\ question[a].feature \in {"document", "pricing"}
    /\ \/ /\ question' = [question EXCEPT ![a].at = "ask"]
          /\ UNCHANGED <<connected, project, business, changes, answer, moments>>
       \/ question[a].feature = "document" /\ End(a, "threw", 0, {})

\* Any query of the database may throw.
QueryFails(a) == question[a].at \in {"read", "tasks"} /\ End(a, "threw", 0, {})

\* What a model may say: nothing (or an error), no JSON, the value null, JSON without
\* the key that is looked for, with an empty value or a zero, with that key alone,
\* with all of them, with a value of another type, with a text for a list.
ModelSays == {"nothing", "garbled", "null", "keyless", "empty", "bare", "whole", "oddValue", "oddList"}
Filled == {"bare", "whole", "oddValue", "oddList"}

\* What each question takes: any array; a price, a summary or a report of any type
\* that is not empty; a number.
TakesTasks(reply) == reply \in Filled \cup {"empty"}
TakesPrice(reply) == reply \in Filled
TakesSummary(reply) == reply \in Filled
TakesReport(reply) == reply \in Filled

\* Mutant: as the others take theirs.
TakesChance_AnyType(reply) == reply \in Filled

TakesChance(reply) == reply \in (Filled \cup {"empty"}) \ {"oddValue"}

Takes(feature, reply) ==
    CASE feature = "tasks" -> TakesTasks(reply)
      [] feature = "pricing" -> TakesPrice(reply)
      [] feature = "delay" -> TakesChance(reply)
      [] feature = "report" -> TakesReport(reply)
      [] OTHER -> TakesSummary(reply)

TaskTotal(t) == t.done + t.overdue + t.open
Chance(t) == IF TaskTotal(t) = 0 THEN 0 ELSE (200 * t.overdue + TaskTotal(t)) \div (2 * TaskTotal(t))

RisksOf(t, deadline) ==
    LET named == {r \in {"overdue", "incomplete", "noDeadline"} :
                    CASE r = "overdue" -> t.overdue > 0
                      [] r = "incomplete" -> 2 * (t.overdue + t.open) > TaskTotal(t)
                      [] OTHER -> ~deadline}
    IN  IF named = {} THEN {"low"} ELSE named

\* What JSON.parse or a property of null throws is caught where the reply is read.
\* Nothing catches what the answers of its own throw: an array of more tasks than an
\* array can have, the beginning of a text that was not sent.
Fallback(a) ==
    \/ /\ question[a].feature = "delay"
       /\ End(a, "heuristic", Chance(question[a].tasks), RisksOf(question[a].tasks, question[a].deadline))
    \/ /\ question[a].feature # "delay"
       /\ End(a, IF question[a].sound THEN "heuristic" ELSE "threw", 0, {})

\* A value of another type is passed on, and a text for a list as well; the key
\* points of a document's summary are walked through, and that throws.
OutcomeOf(feature, reply) ==
    CASE reply = "oddValue" -> "mistyped"
      [] reply = "oddList" -> IF feature = "document" THEN "threw" ELSE "listless"
      [] OTHER -> "model"

Advise(a) ==
    /\ question[a].at = "ask"
    /\ \/ Fallback(a)    \* there is no model, or its reply is one that is not taken
       \/ /\ connected
          /\ \E reply \in ModelSays : Takes(question[a].feature, reply) /\ End(a, OutcomeOf(question[a].feature, reply), 0, {})

InsightNext ==
    \/ Write
    \/ \E a \in Askers :
        \/ \E feature \in Features, sound \in BOOLEAN : Enquire(a, feature, sound)
        \/ ReadProject(a) \/ ReadTasks(a) \/ ReadRow(a) \/ QueryFails(a) \/ Advise(a)
        \/ \E f \in Figures : ReadFigure(a, f)

InsightSpec == InsightInit /\ [][InsightNext]_insightVars

-----------------------------------------------------------------------------
(* Properties *)

\* Whatever the model says and whoever writes meanwhile, an answer that is not the
\* model's is right about some moment of the call: a delay is as likely as the
\* tasks of that moment make it, and its reasons agree; each figure of a report is
\* of a moment too. A question that reads nothing ends in an error only if what was
\* sent is of no use and no answer of the model was taken for it, and a delay the
\* model predicts is a number.
AdviceIsOfItsTime ==
    \A a \in Askers : question[a].at = "done" =>
        LET seen == moments[a]
            got == answer[a]
        IN  /\ question[a].feature = "delay" /\ got.from = "heuristic" =>
                /\ \E p \in seen.projects : ~p.exists \/ got.chance = Chance(p.tasks)
                /\ got.chance > 0 => "overdue" \in got.risks
                /\ "low" \in got.risks => got.chance = 0 /\ \E p \in seen.projects : p.deadline
            /\ question[a].feature = "report" /\ got.from # "threw" =>
                \A f \in Figures : \E b \in seen.businesses : question[a].figures[f] = b[f]
            /\ got.from = "threw" /\ question[a].feature \in Unchecked => ~question[a].sound
            /\ question[a].feature = "delay" => got.from # "mistyped"
            /\ got.from = "unknown" => \E p \in seen.projects : ~p.exists
=============================================================================
