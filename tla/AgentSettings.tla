--------------------------- MODULE AgentSettings ---------------------------
(***************************************************************************)
(* The settings row of one organization, shared by everything its agents   *)
(* do: consumeTokenBudget, called before every model call of every run,    *)
(* and update, which guards auto-send. Both read the row and write it in   *)
(* separate database calls; the increment alone is atomic.                 *)
(***************************************************************************)
EXTENDS Naturals, FiniteSets

CONSTANTS
    Callers,        \* agent runs, each with one consumeTokenBudget in flight
    Updaters,       \* update calls in flight
    MaxTokens,      \* maxTokensPerDay
    Costs, MaxCost  \* estimates a prompt may have, and a bound on them

ASSUME SettingsAssumption ==
    /\ IsFiniteSet(Callers) /\ Callers # {}
    /\ MaxTokens \in Nat /\ MaxCost \in Nat
    /\ Costs \subseteq 0..MaxCost

VARIABLES
    used, reset,            \* tokensUsedToday; tokensResetAt: unset, running or expired
    autoSend, allowlist,    \* autoSendEmail; is the allowlist non-empty
    pc, seen, ask,          \* each caller: step, tokensUsedToday it read, its estimate
    change,                 \* each updater: the data of its call, or NoChange
    spent, wiped,           \* history: tokens granted since the window began;
                            \* was it reset again while it was running
    overtaken, late         \* history: updaters that checked a row another has
                            \* written since; was the last writer one of them

budgetVars == <<used, reset, pc, seen, ask, spent, wiped>>
guardVars == <<autoSend, allowlist, change, overtaken, late>>
vars == <<budgetVars, guardVars>>

\* The two guarded fields of an update; "same" leaves a field out.
Fields == [autoSend : {"on", "off", "same"}, allowlist : {"filled", "empty", "same"}]
NoChange == [autoSend |-> "same", allowlist |-> "same"]

TypeOK ==
    /\ used \in Nat /\ spent \in Nat
    /\ reset \in {"unset", "running", "expired"}
    /\ autoSend \in BOOLEAN /\ allowlist \in BOOLEAN
    /\ pc \in [Callers -> {"idle", "reset", "check", "grant"}]
    /\ seen \in [Callers -> Nat]
    /\ ask \in [Callers -> Costs \cup {0}]
    /\ change \in [Updaters -> Fields]
    /\ wiped \in BOOLEAN /\ late \in BOOLEAN
    /\ overtaken \subseteq Updaters

Init ==
    /\ used = 0 /\ spent = 0 /\ reset = "unset"
    /\ autoSend = FALSE /\ allowlist = FALSE
    /\ pc = [c \in Callers |-> "idle"]
    /\ seen = [c \in Callers |-> 0]
    /\ ask = [c \in Callers |-> 0]
    /\ change = [u \in Updaters |-> NoChange]
    /\ wiped = FALSE /\ late = FALSE /\ overtaken = {}

-----------------------------------------------------------------------------
(* consumeTokenBudget *)

\* The row is read; an expired window is reset by an update of its own.
Read(c) ==
    /\ pc[c] = "idle"
    /\ pc' = [pc EXCEPT ![c] = IF reset = "running" THEN "check" ELSE "reset"]
    /\ seen' = [seen EXCEPT ![c] = used]
    /\ \E n \in Costs : ask' = [ask EXCEPT ![c] = n]
    /\ UNCHANGED <<used, reset, spent, wiped, guardVars>>

\* Whatever the row says by now. The window begins with the first of these.
Reset(c) ==
    /\ pc[c] = "reset"
    /\ used' = 0 /\ reset' = "running"
    /\ seen' = [seen EXCEPT ![c] = 0]
    /\ pc' = [pc EXCEPT ![c] = "check"]
    /\ spent' = 0 /\ wiped' = (reset = "running")
    /\ UNCHANGED <<ask, guardVars>>

\* Mutant: the call is refused only once the budget is gone.
Check_AlreadyOver(c) ==
    /\ pc[c] = "check"
    /\ pc' = [pc EXCEPT ![c] = IF seen[c] > MaxTokens THEN "idle" ELSE "grant"]
    /\ UNCHANGED <<used, reset, seen, ask, spent, wiped, guardVars>>

\* Against the counter as it was read.
Check(c) ==
    /\ pc[c] = "check"
    /\ pc' = [pc EXCEPT ![c] = IF seen[c] + ask[c] > MaxTokens THEN "idle" ELSE "grant"]
    /\ UNCHANGED <<used, reset, seen, ask, spent, wiped, guardVars>>

\* Mutant: the counter is what remains, not what was used.
Grant_CountsDown(c) ==
    /\ pc[c] = "grant"
    /\ used' = used - ask[c]
    /\ spent' = IF wiped THEN 0 ELSE spent + ask[c]
    /\ pc' = [pc EXCEPT ![c] = "idle"]
    /\ UNCHANGED <<reset, seen, ask, wiped, guardVars>>

\* Mutant: the increment is computed from the counter as it was read.
Grant_NotAtomic(c) ==
    /\ pc[c] = "grant"
    /\ used' = seen[c] + ask[c]
    /\ spent' = IF wiped THEN 0 ELSE spent + ask[c]
    /\ pc' = [pc EXCEPT ![c] = "idle"]
    /\ UNCHANGED <<reset, seen, ask, wiped, guardVars>>

\* The atomic increment.
Grant(c) ==
    /\ pc[c] = "grant"
    /\ used' = used + ask[c]
    /\ spent' = IF wiped THEN 0 ELSE spent + ask[c]
    /\ pc' = [pc EXCEPT ![c] = "idle"]
    /\ UNCHANGED <<reset, seen, ask, wiped, guardVars>>

\* The clock passes tokensResetAt.
WindowExpires ==
    /\ reset = "running"
    /\ reset' = "expired"
    /\ UNCHANGED <<used, pc, seen, ask, spent, wiped, guardVars>>

\* The run, or the process, dies between two calls.
CallerDies(c) ==
    /\ pc[c] # "idle"
    /\ pc' = [pc EXCEPT ![c] = "idle"]
    /\ UNCHANGED <<used, reset, seen, ask, spent, wiped, guardVars>>

-----------------------------------------------------------------------------
(* update *)

After(now, field, yes) == IF field = "same" THEN now ELSE field = yes

\* Mutant: only the data of the call are checked.
CheckUpdate_DataOnly(u, data) ==
    /\ change[u] = NoChange /\ data # NoChange
    /\ ~(data.autoSend = "on" /\ data.allowlist = "empty")
    /\ change' = [change EXCEPT ![u] = data]
    /\ UNCHANGED <<autoSend, allowlist, overtaken, late, budgetVars>>

\* The row is read and the outcome checked against what was read ...
CheckUpdate(u, data) ==
    /\ change[u] = NoChange /\ data # NoChange
    /\ After(autoSend, data.autoSend, "on") => After(allowlist, data.allowlist, "filled")
    /\ change' = [change EXCEPT ![u] = data]
    /\ UNCHANGED <<autoSend, allowlist, overtaken, late, budgetVars>>

\* ... and then the fields of this call are written.
WriteUpdate(u) ==
    /\ change[u] # NoChange
    /\ autoSend' = After(autoSend, change[u].autoSend, "on")
    /\ allowlist' = After(allowlist, change[u].allowlist, "filled")
    /\ change' = [change EXCEPT ![u] = NoChange]
    /\ overtaken' = {v \in Updaters \ {u} : change[v] # NoChange}
    /\ late' = (u \in overtaken)
    /\ UNCHANGED budgetVars

-----------------------------------------------------------------------------
Next ==
    \/ \E c \in Callers : Read(c) \/ Reset(c) \/ Check(c) \/ Grant(c) \/ CallerDies(c)
    \/ \E u \in Updaters : WriteUpdate(u) \/ \E data \in Fields : CheckUpdate(u, data)
    \/ WindowExpires

Spec == Init /\ [][Next]_vars

-----------------------------------------------------------------------------
(* Properties *)

Slack == (Cardinality(Callers) - 1) * MaxCost

\* The counter passes the budget by at most one estimate for every other caller
\* in flight, each checking the counter it read; and so does what is granted in
\* one window, unless a run that had read the previous window resets the
\* counter after others were charged in this one.
OvershootBounded == used <= MaxTokens + Slack /\ (~wiped => spent <= MaxTokens + Slack)

\* Auto-send is on with nobody on the allowlist only if the last update had
\* checked a row that another update has written since.
AutoSendHasAllowlist == autoSend /\ ~allowlist => late

\* The limits of the settings hold when calls run at once, with the exceptions
\* above.
SettingsHold == OvershootBounded /\ AutoSendHasAllowlist

=============================================================================
