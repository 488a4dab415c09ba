----------------------------- MODULE Dashboard -----------------------------
(***************************************************************************)
(* One browser tab of the dashboard: the page that is open, the lists it   *)
(* shows, the requests that fill them, the events of the socket and the    *)
(* requests that write. The organization of a request is the one in        *)
(* localStorage when it is sent, which the tabs of a browser share, unless *)
(* the page puts it into the URL. A page is a record: which lists it       *)
(* loads, whose rows they are, how it waits, and what it does after a      *)
(* write. A list is as long as one page of answers.                        *)
(***************************************************************************)
EXTENDS Naturals, Sequences, FiniteSets

CONSTANTS
    Orgs,       \* organizations of the user
    Bare,       \* those without a project
    MaxRuns,    \* bound: times that lists are loaded
    MaxWrites   \* bound: writes sent

\* Where the tasks of no project are asked for; an answer without rows, for one
\* organization's project or row was asked for in the name of another; and rows
\* of more than one organization.
NoProject == "none"
Astray == "astray"
Everyone == "everyone"

ASSUME DashboardAssumption ==
    /\ Bare \subseteq Orgs /\ Orgs \cap {NoProject, Astray, Everyone} = {}
    /\ MaxRuns \in Nat \ {0} /\ MaxWrites \in Nat

VARIABLES
    page,           \* the record of the open page
    current, kept,  \* currentOrg; organizationId in localStorage
    lists,          \* what each list of the page shows: whose, with which writes
    selected,       \* selectedProjectId, or the id in the path: whose it is
    loading,        \* does a spinner hide the page
    loads, runs,    \* requests that fill lists; runs of loads so far
    newest,         \* the run each list was last filled by
    writes, written, data,  \* writes not answered; their number so far; those each organization has
    acked,          \* writes answered with success
    trouble         \* history: what first left the page out of date

tabVars == <<page, current, kept, lists, selected, loading, loads, runs, newest, writes, written, data, acked, trouble>>

-----------------------------------------------------------------------------
(* The pages. Lists first..last of a chain are loaded one after another,    *)
(* those that arrive together are one list; chains are loaded side by side. *)

Chain(first, last) == [first |-> first, last |-> last]

\* What follows a write to a list: its chain is loaded again, or the list
\* alone; the answer is put into it; or it was put in before it was sent.
Op(list, after) == [list |-> list, after |-> after]

\* An answer is an envelope with the list in its field data. The lists in misread
\* are looked for in the envelope itself, and never shown. The answer to those in
\* everyones does not look at the organization: it has the rows of all, or the
\* user's own of all. Those in woken are read again on an event, those in fed have
\* the events themselves. A page that leads goes from its projects to the tasks of
\* one; a single one is about one row, whose id is in the path; a named one asks
\* for the organization it was rendered with.
Page(chains, spinner, ops) ==
    [chains |-> chains, spinner |-> spinner, ops |-> ops, misread |-> {}, everyones |-> {},
     woken |-> {}, fed |-> {}, leads |-> FALSE, single |-> FALSE, named |-> FALSE]

Simple == Page({Chain(1, 1)}, "always", {Op(1, "reload")})

\* Six lists together, then the brand; brand and settings are patched, the
\* e-mails read again. What agents do is fed into a list of its own.
AgentsPage ==
    [Page({Chain(1, 2)}, "always", {Op(1, "reload"), Op(1, "reread"), Op(1, "patch"), Op(2, "patch"), Op(2, "reread")})
        EXCEPT !.woken = {1}, !.fed = {3}]

\* Projects, the tasks of the one selected, and the running timer, which is the
\* user's. A card is moved before the answer; a timer is what the answer says, and
\* that the tasks are read again when it is stopped is what Wake does at any time.
TasksPage ==
    [Page({Chain(1, 1), Chain(3, 3)}, "never", {Op(2, "reread"), Op(2, "optimistic"), Op(3, "patch")})
        EXCEPT !.leads = TRUE, !.everyones = {3}, !.woken = {2}]

ProjectsPage == Simple
LeadsPage == Simple
ClientsPage == Simple
TeamsPage == Simple

ClientDetailPage == [Simple EXCEPT !.single = TRUE]
ProjectDetailPage == [ClientDetailPage EXCEPT !.ops = @ \cup {Op(1, "optimistic")}]

\* Folders, then documents.
DocumentsPage ==
    [Page({Chain(1, 2)}, "always", {Op(1, "reload"), Op(2, "reload")}) EXCEPT !.misread = {1}]

\* Employees, the attendance of the user, and everybody's leaves.
HrPage ==
    [Page({Chain(1, 3)}, "always", {Op(2, "reload"), Op(3, "reload")}) EXCEPT !.misread = {2}, !.everyones = {2, 3}]

\* Quotations beside clients.
QuotationsPage == Page({Chain(1, 1), Chain(2, 2)}, "effect", {Op(1, "reload")})

\* Invoices with their statistics, beside clients.
InvoicesPage == Page({Chain(1, 2), Chain(3, 3)}, "effect", {Op(1, "reload")})

\* Expenses, categories and statistics.
ExpensesPage ==
    [Page({Chain(1, 3)}, "effect", {Op(1, "reload")}) EXCEPT !.misread = {2, 3}]

PaymentsPage == Page({Chain(1, 1)}, "effect", {Op(1, "reload")})

\* The profile of the user, then the API keys.
SettingsPage ==
    [Page({Chain(1, 2)}, "effect", {Op(1, "patch"), Op(2, "reread")}) EXCEPT !.everyones = {1}, !.named = TRUE]

\* Figures, then the chart.
HomePage == Page({Chain(1, 2)}, "first", {})

\* The channels; Gateway has what is in them.
ChatPage == Page({Chain(1, 1)}, "never", {})

Pages ==
    {AgentsPage, TasksPage, ProjectsPage, LeadsPage, ClientsPage, TeamsPage, ClientDetailPage,
     ProjectDetailPage, DocumentsPage, HrPage, QuotationsPage, InvoicesPage, ExpensesPage,
     PaymentsPage, SettingsPage, HomePage, ChatPage}

Lists == 1..3
Nothing == [org |-> NoProject, seen |-> {}]

-----------------------------------------------------------------------------
PageTypeOK ==
    /\ page \in Pages /\ {current, kept} \subseteq Orgs /\ loading \in BOOLEAN
    /\ selected \in Orgs \cup {NoProject}
    /\ \A i \in Lists : lists[i].org \in Orgs \cup {NoProject, Astray, Everyone} /\ lists[i].seen \subseteq 1..written
    /\ runs \in 0..MaxRuns /\ newest \in [Lists -> 0..runs]
    /\ \A f \in loads : f.run \in 1..runs /\ f.at \in Lists /\ f.org \in Orgs
    /\ written \in 0..MaxWrites /\ data \in [Orgs -> SUBSET (1..written)]
    /\ \A w \in writes : w.no \in 1..written /\ w.op \in page.ops
    /\ acked \subseteq [no : 1..written, org : Orgs, list : Lists]
    /\ trouble \in {"none", "overtaken", "outrun", "failed", "crossed", "restored", "left", "astray"}

\* The requests of a run, at the first list of each chain, in the name of one
\* organization and about the project of one.
Run(n, chains, from, of) ==
    {[run |-> n, at |-> c.first, last |-> c.last, org |-> from, of |-> of, got |-> FALSE, seen |-> {}] : c \in chains}

First(cause) == IF trouble = "none" THEN cause ELSE trouble

\* The page is opened, in organization o.
Opened(p, o) ==
    /\ page = p /\ current = o /\ kept = o
    /\ lists = [i \in Lists |-> Nothing]
    /\ selected = IF p.single THEN o ELSE NoProject
    /\ loading = (p.spinner # "never")
    /\ runs = 1 /\ loads = Run(1, p.chains, o, o)
    /\ newest = [i \in Lists |-> 0]
    /\ writes = {} /\ written = 0 /\ data = [q \in Orgs |-> {}] /\ acked = {} /\ trouble = "none"

PageInit == \E p \in Pages, o \in Orgs : Opened(p, o)

-----------------------------------------------------------------------------
(* Loading *)

\* Whose rows the answer for list i has when organization o asks.
Owner(i, o) == IF i \in page.everyones THEN Everyone ELSE o

\* Whose rows the answer to a load has: no organization has any of another's project.
Shown(f) == IF f.of = f.org THEN Owner(f.at, f.org) ELSE Astray

\* The rows of one organization, or of all.
RowsOf(o) == IF o = Everyone THEN UNION {data[q] : q \in Orgs} ELSE IF o \in Orgs THEN data[o] ELSE {}

\* The answer to a load is made from what there is by then.
ServeLoad(f) ==
    /\ ~f.got
    /\ loads' = (loads \ {f}) \cup {[f EXCEPT !.got = TRUE, !.seen = RowsOf(Shown(f))]}
    /\ UNCHANGED <<page, current, kept, lists, selected, loading, runs, newest, writes, written, data, acked, trouble>>

\* Load f is over, and rest are the others: a spinner goes with the last of its run.
Finish(f, rest) ==
    loading' = (loading /\ \E g \in rest : g.run = f.run)

\* The page shows, is about to show, or has to show a write that f lacks.
Newer(f) ==
    \/ lists[f.at].org = Shown(f) /\ ~(lists[f.at].seen \subseteq f.seen)
    \/ \E w \in writes : w.op.list = f.at /\ w.no \notin f.seen
    \/ \E a \in acked : a.list = f.at /\ Owner(a.list, a.org) = Shown(f) /\ a.no \notin f.seen

\* The projects of f lead to tasks: the first of them is selected.
Selects(f) == page.leads /\ f.at = 1 /\ f.org \notin Bare

\* The tasks of an earlier organization stay, for this one has no project to select.
LeftBehind(f) == page.leads /\ f.at = 1 /\ f.org \in Bare /\ f.org = current /\ selected # NoProject

\* The tasks of the project that is selected give way to others, or have done so
\* and are not asked for again, as it was selected already.
Strays(f, others) ==
    \/ page.leads /\ f.at = 2 /\ lists[2].org = selected /\ Shown(f) # selected
    \/ /\ Selects(f) /\ f.org = current /\ selected = f.org /\ lists[2].org # f.org
       /\ ~ \E g \in others : g.at = 2 /\ g.of = f.org /\ g.org = f.org

\* The row of the page was not found; nothing takes that back.
Missing(i) == page.single /\ lists[i].org = Astray

\* List i shows what has come.
Put(i, shown) == IF Missing(i) THEN lists ELSE [lists EXCEPT ![i] = shown]

\* In whose name a page asks that was rendered for o.
Sender(o) == IF page.named THEN o ELSE kept

\* The answer is shown, whatever was shown before, unless the page misreads it; the next list of the chain
\* is asked for, or the tasks of the project that is selected now if it was not before.
TakeLoad(f) ==
    LET i == f.at
        others == loads \ {f}
        ask(list, last, of) ==
            {[f EXCEPT !.at = list, !.last = last, !.org = Sender(f.org), !.of = of, !.got = FALSE, !.seen = {}]}
        next == IF i < f.last THEN ask(i + 1, f.last, Sender(f.org))
                ELSE IF Selects(f) /\ selected # f.org THEN ask(2, 2, f.org) ELSE {}
    IN  /\ f.got
        /\ lists' = IF i \in page.misread THEN lists ELSE Put(i, [org |-> Shown(f), seen |-> f.seen])
        /\ selected' = IF Selects(f) THEN f.org ELSE selected
        /\ newest' = [newest EXCEPT ![i] = f.run]
        /\ loads' = others \cup next
        /\ IF next = {} THEN Finish(f, others) ELSE UNCHANGED loading
        /\ trouble' = IF i \in page.misread THEN trouble
                      ELSE IF newest[i] > f.run THEN First("overtaken")
                      ELSE IF Newer(f) THEN First("outrun")
                      ELSE IF LeftBehind(f) THEN First("left")
                      ELSE IF Strays(f, others) THEN First("astray")
                      ELSE trouble
        /\ UNCHANGED <<page, current, kept, runs, writes, written, data, acked>>

\* An error is logged: what the page showed stays, and so do the lists after it;
\* the row of a single page is as good as not found.
FailLoad(f) ==
    /\ loads' = loads \ {f}
    /\ Finish(f, loads \ {f})
    /\ lists' = IF page.single THEN [lists EXCEPT ![f.at] = [org |-> Astray, seen |-> {}]] ELSE lists
    /\ trouble' = First("failed")
    /\ UNCHANGED <<page, current, kept, selected, runs, newest, writes, written, data, acked>>

-----------------------------------------------------------------------------
(* Switching *)

\* Mutant: the page does not load again.
Reload_Never(o) == UNCHANGED <<loads, runs, loading>>

\* The effect of a page on currentOrg.
Reload(o) ==
    /\ runs < MaxRuns
    /\ runs' = runs + 1
    /\ loads' = loads \cup Run(runs + 1, page.chains, o, IF page.single THEN selected ELSE o)
    /\ loading' = (loading \/ page.spinner \in {"always", "effect"})

\* switchOrganization.
Switch(o) ==
    /\ o # current
    /\ current' = o /\ kept' = o
    /\ Reload(o)
    /\ trouble' = IF kept # current THEN First("crossed") ELSE trouble
    /\ UNCHANGED <<page, lists, selected, newest, writes, written, data, acked>>

\* Another tab of the browser switches.
OtherTab(o) ==
    /\ o # kept
    /\ kept' = o
    /\ trouble' = First("crossed")
    /\ UNCHANGED <<page, current, lists, selected, loading, loads, runs, newest, writes, written, data, acked>>

-----------------------------------------------------------------------------
(* The socket, which is in the room of the current organization *)

\* An event is put before those that are there, whosever they are.
Event(i) ==
    /\ i \in page.fed
    /\ lists' = [lists EXCEPT ![i].org = IF @ \in {NoProject, current} THEN current ELSE Everyone]
    /\ UNCHANGED <<page, current, kept, selected, loading, loads, runs, newest, writes, written, data, acked, trouble>>

\* A list is read again on an event, by a timer that outlives the room.
Wake(i) ==
    /\ i \in page.woken /\ runs < MaxRuns
    /\ page.leads => selected # NoProject
    /\ runs' = runs + 1
    /\ loads' = loads \cup Run(runs + 1, {Chain(i, i)}, kept, IF page.leads THEN selected ELSE kept)
    /\ UNCHANGED <<page, current, kept, lists, selected, loading, newest, writes, written, data, acked, trouble>>

-----------------------------------------------------------------------------
(* Writing *)

Ahead(op) == op.after = "optimistic"

\* A write to something that is shown: to a card, or to the row of the page.
OnRow(op) == Ahead(op) \/ page.single

\* Whose project or row a write is about: a task is created in the project that
\* is selected, a card is one that is shown.
About(op) ==
    IF OnRow(op) THEN lists[op.list].org ELSE IF page.leads /\ op.list = 2 THEN selected ELSE Sender(current)

\* A handler of the page; it cannot be reached behind a spinner.
Write(op) ==
    /\ ~loading /\ written < MaxWrites
    /\ OnRow(op) => lists[op.list].org \notin {NoProject, Astray}
    /\ written' = written + 1
    /\ writes' = writes \cup {[no |-> written + 1, op |-> op, org |-> Sender(current), of |-> About(op),
                               before |-> lists[op.list], state |-> "sent"]}
    /\ lists' = IF Ahead(op) THEN [lists EXCEPT ![op.list].seen = @ \cup {written + 1}] ELSE lists
    /\ UNCHANGED <<page, current, kept, selected, loading, loads, runs, newest, data, acked, trouble>>

\* A card or a row of another organization is not found and a task needs a project,
\* but nobody looks whose project it is; a row of one is listed in neither.
Possible(w) == IF OnRow(w.op) THEN w.of = w.org ELSE w.of # NoProject

ServeWrite(w) ==
    /\ w.state = "sent"
    /\ \E ok \in BOOLEAN :
        /\ ok => Possible(w)
        /\ data' = IF ok /\ w.of = w.org THEN [data EXCEPT ![w.org] = @ \cup {w.no}] ELSE data
        /\ writes' = (writes \ {w}) \cup {[w EXCEPT !.state = IF ok THEN "done" ELSE "refused"]}
    /\ UNCHANGED <<page, current, kept, lists, selected, loading, loads, runs, newest, written, acked, trouble>>

\* Mutant: the card stays where it was dropped.
Undo_Nothing(w) == UNCHANGED <<lists, trouble>>

\* The snapshot taken before an optimistic write is put back.
Undo(w) ==
    /\ lists' = Put(w.op.list, w.before)
    /\ trouble' = IF lists[w.op.list] = [w.before EXCEPT !.seen = @ \cup {w.no}]
                  THEN trouble ELSE First("restored")

Refused(w) ==
    /\ w.state = "refused"
    /\ writes' = writes \ {w}
    /\ IF Ahead(w.op) THEN Undo(w) ELSE UNCHANGED <<lists, trouble>>
    /\ UNCHANGED <<page, current, kept, selected, loading, loads, runs, newest, written, data, acked>>

\* The chain an operation loads again: the whole of it, or its list alone.
Again(op) == IF op.after = "reload" THEN {c \in page.chains : op.list \in c.first..c.last} ELSE {Chain(op.list, op.list)}

\* Mutant: the form closes and nothing is loaded.
Follow_Nothing(w) == UNCHANGED <<loads, runs, loading>>

\* What a page does when its write has succeeded.
Follow(w) ==
    IF w.op.after \in {"reload", "reread"}
    THEN /\ runs < MaxRuns
         /\ runs' = runs + 1
         /\ loads' = loads \cup
                Run(runs + 1, Again(w.op), Sender(w.org),
                    IF page.leads THEN w.of ELSE IF page.single THEN selected ELSE Sender(w.org))
         /\ loading' = (loading \/ (page.spinner = "always" /\ w.op.after = "reload"))
    ELSE UNCHANGED <<loads, runs, loading>>

Succeeded(w) ==
    /\ w.state = "done"
    /\ writes' = writes \ {w}
    /\ acked' = acked \cup {[no |-> w.no, org |-> w.org, list |-> w.op.list]}
    /\ lists' = IF w.op.after = "patch" THEN [lists EXCEPT ![w.op.list].seen = @ \cup {w.no}] ELSE lists
    /\ Follow(w)
    /\ trouble' = IF w.of # w.org \/ (page.named /\ w.org # current) THEN First("astray")
                  ELSE IF w.op.list \notin page.misread /\ lists[w.op.list].org # Owner(w.op.list, w.org) THEN First("outrun")
                  ELSE trouble
    /\ UNCHANGED <<page, current, kept, selected, newest, written, data>>

-----------------------------------------------------------------------------
PageNext ==
    \/ \E f \in loads : ServeLoad(f) \/ TakeLoad(f) \/ FailLoad(f)
    \/ \E o \in Orgs : Switch(o) \/ OtherTab(o)
    \/ \E i \in Lists : Event(i) \/ Wake(i)
    \/ \E op \in page.ops : Write(op)
    \/ \E w \in writes : ServeWrite(w) \/ Refused(w) \/ Succeeded(w)

PageSpec == PageInit /\ [][PageNext]_tabVars

-----------------------------------------------------------------------------
(* Properties *)

AtRest == loads = {} /\ writes = {} /\ trouble = "none"

\* Once all its requests are answered a page shows the current organization, or
\* that the row it is about is not found there, unless answers came out of order or
\* failed, another tab switched, the organization has no project to load the tasks
\* of, or something of one organization was asked for or made in the name of
\* another. Two kinds of list are nobody's: those answered with everyone's rows,
\* which are always that, and the feed, where what came before a switch stays.
PageShowsItsOrg ==
    AtRest => \A i \in Lists \ page.fed : lists[i].org \in {NoProject, Owner(i, current)} \/ Missing(i)

\* It then shows every write it was told has succeeded, and none that was
\* refused, with two more exceptions: the list is one it misreads, or the
\* snapshot an optimistic write put back was older than what had been loaded since.
OwnWritesShown ==
    AtRest =>
        /\ \A a \in acked : Owner(a.list, a.org) = Owner(a.list, current) =>
                a.no \in lists[a.list].seen \/ a.list \in page.misread \/ Missing(a.list)
        /\ \A i \in Lists : lists[i].seen \subseteq RowsOf(Owner(i, current))

\* A page that waits for nothing is current: it shows the organization that is
\* selected and the writes that were made on it, with the exceptions above.
PageIsCurrent == PageShowsItsOrg /\ OwnWritesShown
=============================================================================
