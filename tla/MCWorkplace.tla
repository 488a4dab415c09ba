----------------------------- MODULE MCWorkplace -----------------------------
(***************************************************************************)
(* What people have to do with: signing in, their sessions, the tab, its   *)
(* pages and the rows they work on. The five modules share no state and    *)
(* are explored side by side; part says whose behaviours a state belongs   *)
(* to, and the variables of the others rest.                               *)
(***************************************************************************)
EXTENDS Sessions, SignIn, Dashboard, Workspace, Shell, TLC

CONSTANTS b1, b2, c1, c2

MCBrowsers == {b1, b2}
MCCalls == {c1, c2}
Symmetry == Permutations(MCBrowsers) \cup Permutations(MCCalls)

VARIABLE part

Parts == {"sessions", "lock", "factor", "links", "page", "workspace", "shell"}

\* The choice of the initial values of a part at rest is narrowed to one. That
\* "bolt" has no project makes a difference to a page that leads from its projects
\* to one of them; any other page is first in "acme".
WorkplaceInit ==
    /\ part \in Parts
    /\ Init /\ SignInInit /\ PageInit /\ WorkInit /\ ShellInit
    /\ part # "sessions" => \A c \in Calls : from[c] = b1
    /\ part # "links" => account.exists /\ kind = [l \in Links |-> "reset"]
    /\ IF part = "page" THEN page.leads \/ current = "acme" ELSE page = ChatPage /\ current = "acme"
    /\ part # "workspace" => service = Tasks
    /\ part # "shell" => \A u \in Accounts : members[u] = {}

\* A page and the tab around it are followed until they are first out of date.
WorkplaceNext ==
    /\ UNCHANGED part
    /\ \/ part = "sessions" /\ Next /\ UNCHANGED <<signInVars, tabVars, workVars, shellVars>>
       \/ part = "lock" /\ Locking /\ UNCHANGED <<vars, tabVars, workVars, shellVars>>
       \/ part = "factor" /\ Factoring /\ UNCHANGED <<vars, tabVars, workVars, shellVars>>
       \/ part = "links" /\ Linking /\ UNCHANGED <<vars, tabVars, workVars, shellVars>>
       \/ /\ part = "page" /\ trouble = "none" /\ PageNext
          /\ UNCHANGED <<vars, signInVars, workVars, shellVars>>
       \/ part = "workspace" /\ WorkNext /\ UNCHANGED <<vars, signInVars, tabVars, shellVars>>
       \/ /\ part = "shell" /\ cause = "none" /\ ShellNext
          /\ UNCHANGED <<vars, signInVars, tabVars, workVars>>

WorkplaceSpec == WorkplaceInit /\ [][WorkplaceNext]_<<part, vars, signInVars, tabVars, workVars, shellVars>>

\* What tells two states apart: the variables of the part, as the others never change.
WorkplaceView ==
    <<part,
      CASE part = "sessions" -> vars
        [] part \in {"lock", "factor", "links"} -> signInVars
        [] part = "page" -> tabVars
        [] part = "workspace" -> workVars
        [] part = "shell" -> shellVars>>

\* Every part keeps its variables in their types: the types of a row, of what a
\* request has read of it and of the step the request is at.
WorkplaceTypeOK ==
    CASE part = "sessions" -> TypeOK
      [] part \in {"lock", "factor", "links"} -> SignInTypeOK
      [] part = "page" -> PageTypeOK
      [] part = "workspace" -> WorkTypeOK
      [] part = "shell" -> ShellTypeOK

\* What a tab shows at rest is current: the page of its organization with the
\* writes made on it (Dashboard), and around it the account of the browser's
\* cookies (Shell), each with the exceptions of its module.
TabIsCurrent == PageIsCurrent /\ TabIsItsAccounts
=============================================================================
