-------------------------------- MODULE Seed --------------------------------
(***************************************************************************)
(* The seed script (prisma/seed.ts) that setup.sh runs, and may run again, *)
(* against a database people may be using: users, organization and plan    *)
(* are upserted by their keys, everything else is created, row by row and  *)
(* without a transaction. Invoices have fixed numbers, and the counter the *)
(* next one is numbered by is set after them.                              *)
(***************************************************************************)
EXTENDS Naturals, FiniteSets

CONSTANTS
    SeedUsers,      \* its users
    SeedRoles,      \* the first so many of them become members
    SeedClients,    \* rows it creates of each kind, clients to tasks
    SeedInvoices,   \* invoices it creates
    MaxSeedings,    \* bound on runs of the script
    MaxNumbered     \* bound on invoices people ask for

ASSUME SeedAssumption ==
    /\ SeedUsers \in Nat /\ SeedRoles \in 1..SeedUsers /\ SeedClients \in Nat \ {0} /\ SeedInvoices \in Nat \ {0}
    /\ MaxSeedings \in Nat /\ MaxNumbered \in Nat

VARIABLES
    seedAt,     \* the step the script is at
    seedRow,    \* rows of this step written so far
    seedings,   \* runs begun
    seeded,     \* rows there are, by kind
    takenNumbers,    \* numbers of the organization's invoices
    invoiceCounter,    \* Organization.invoiceCounter
    numbered,   \* invoices people asked for
    completed,  \* history: runs that came to their end
    disturbed   \* history: a run stopped, or people asked for invoices, before the counter was set

seedVars == <<seedAt, seedRow, seedings, seeded, takenNumbers, invoiceCounter, numbered, completed, disturbed>>

\* In the order of main(); the steps after the invoices' counter create again.
Keyed == {"users", "organization", "members", "plan", "subscription"}
Created == {"clients", "leads", "team", "projects", "tasks", "categories", "labels"}
SeedOrder == <<"users", "organization", "members", "plan", "subscription", "clients", "leads", "team", "projects", "tasks",
               "invoices", "counter", "categories", "labels">>
SeedSteps == {SeedOrder[i] : i \in DOMAIN SeedOrder}
Size(step) ==
    CASE step = "users" -> SeedUsers
      [] step = "members" -> SeedRoles
      [] step \in {"organization", "plan", "subscription", "team", "counter"} -> 1
      [] step = "invoices" -> SeedInvoices
      [] OTHER -> SeedClients

SeedTypeOK ==
    /\ seedAt \in SeedSteps \cup {"idle"} /\ seedRow \in Nat
    /\ seedAt # "idle" => seedRow < Size(seedAt)
    /\ seedings \in 0..MaxSeedings /\ seeded \in [SeedSteps -> Nat]
    /\ takenNumbers \subseteq Nat /\ invoiceCounter \in Nat /\ numbered \in 0..MaxNumbered
    /\ completed \in 0..MaxSeedings /\ disturbed \in BOOLEAN

SeedInit ==
    /\ seedAt = "idle" /\ seedRow = 0 /\ seedings = 0
    /\ seeded = [s \in SeedSteps |-> 0]
    /\ takenNumbers = {} /\ invoiceCounter = 0 /\ numbered = 0
    /\ completed = 0 /\ disturbed = FALSE

StartSeed ==
    /\ seedAt = "idle" /\ seedings < MaxSeedings
    /\ seedings' = seedings + 1 /\ seedAt' = "users" /\ seedRow' = 0
    /\ UNCHANGED <<seeded, takenNumbers, invoiceCounter, numbered, completed, disturbed>>

StepAfter(step) == SeedOrder[(CHOOSE i \in DOMAIN SeedOrder : SeedOrder[i] = step) + 1]

\* The next row, the first one of the next step, or the end.
NextRow ==
    IF seedRow + 1 < Size(seedAt) THEN seedRow' = seedRow + 1 /\ UNCHANGED <<seedAt, completed>>
    ELSE /\ seedRow' = 0
         /\ IF seedAt = "labels" THEN seedAt' = "idle" /\ completed' = completed + 1
            ELSE seedAt' = StepAfter(seedAt) /\ UNCHANGED completed

\* upsert with an empty update: only the keys that are not there make a row.
UpsertRow ==
    /\ seedAt \in Keyed
    /\ seeded' = [seeded EXCEPT ![seedAt] = IF @ > seedRow THEN @ ELSE @ + 1]
    /\ NextRow
    /\ UNCHANGED <<seedings, takenNumbers, invoiceCounter, numbered, disturbed>>

CreateRow ==
    /\ seedAt \in Created
    /\ seeded' = [seeded EXCEPT ![seedAt] = @ + 1]
    /\ NextRow
    /\ UNCHANGED <<seedings, takenNumbers, invoiceCounter, numbered, disturbed>>

\* A number that is taken ends the run: exit 1.
CreateInvoice ==
    /\ seedAt = "invoices"
    /\ IF seedRow + 1 \in takenNumbers
       THEN /\ seedAt' = "idle" /\ seedRow' = 0 /\ UNCHANGED <<seeded, takenNumbers, completed>>
            /\ disturbed' = (disturbed \/ seedRow > 0)
       ELSE /\ takenNumbers' = takenNumbers \cup {seedRow + 1}
            /\ seeded' = [seeded EXCEPT !["invoices"] = @ + 1]
            /\ NextRow /\ UNCHANGED disturbed
    /\ UNCHANGED <<seedings, invoiceCounter, numbered>>

\* Mutant: the counter is left where it is.
SetCounter_Never ==
    /\ seedAt = "counter" /\ NextRow
    /\ UNCHANGED <<seedings, seeded, takenNumbers, invoiceCounter, numbered, disturbed>>

SetCounter ==
    /\ seedAt = "counter"
    /\ invoiceCounter' = SeedInvoices /\ NextRow
    /\ UNCHANGED <<seedings, seeded, takenNumbers, numbered, disturbed>>

\* The script stops: an error of the database, or somebody stops it.
StopSeed ==
    /\ seedAt # "idle" /\ seedAt' = "idle" /\ seedRow' = 0
    /\ disturbed' = (disturbed \/ seedAt = "counter" \/ (seedAt = "invoices" /\ seedRow > 0))
    /\ UNCHANGED <<seedings, seeded, takenNumbers, invoiceCounter, numbered, completed>>

\* InvoicesService.create: the counter is incremented, and the number is one more
\* than what it is by then. A number that is taken makes the insert throw.
NumberInvoice ==
    /\ seeded["members"] > 0 /\ numbered < MaxNumbered
    /\ numbered' = numbered + 1 /\ invoiceCounter' = invoiceCounter + 1
    /\ takenNumbers' = takenNumbers \cup {invoiceCounter + 2}
    /\ disturbed' = (disturbed \/ completed = 0)
    /\ UNCHANGED <<seedAt, seedRow, seedings, seeded, completed>>

SeedNext ==
    \/ StartSeed \/ UpsertRow \/ CreateRow \/ CreateInvoice \/ SetCounter \/ StopSeed \/ NumberInvoice

SeedSpec == SeedInit /\ [][SeedNext]_seedVars

-----------------------------------------------------------------------------
(* Properties *)

\* The next invoice people ask for gets a number of its own, unless a run of the
\* script is between its first invoice and the counter or stopped there, or people
\* asked for invoices before the script had set it.
NextNumberIsFree == invoiceCounter + 2 \in takenNumbers => disturbed \/ seedAt \in {"invoices", "counter"}

\* However often the script is run and wherever it stops: what has a key, and what
\* comes after the first invoice, is there once; the script comes to its end once at
\* most, because of the invoices' numbers; a run that does leaves everything.
SeedIsOnce ==
    /\ \A step \in Keyed \cup {"invoices", "categories", "labels"} : seeded[step] <= Size(step)
    /\ completed <= 1
    /\ completed = 1 => \A step \in SeedSteps \ {"counter"} : seeded[step] >= Size(step)
=============================================================================
