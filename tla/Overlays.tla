------------------------------ MODULE Overlays ------------------------------
(***************************************************************************)
(* What lies over every page of the dashboard: the command palette, whose  *)
(* search waits until typing pauses and then asks the API, and the toasts, *)
(* a list outside of React with a timer for each entry. Both outlive the   *)
(* page, the choice of an organization included. Markup is left out.       *)
(***************************************************************************)
EXTENDS Naturals, FiniteSets

CONSTANTS
    Texts,          \* what may be typed, EmptyBox apart
    EmptyBox,          \* an empty box, or one with spaces only
    Heard,          \* the text the API reads for each: what follows a "&" or "#" is cut off
    TooShort,       \* texts of fewer than two characters
    Firms,          \* organizations of the account
    MaxSearches,    \* bound on the searches
    MaxSwitches,    \* bound on the switches of organization
    MaxToasts       \* bound on the toasts

ASSUME OverlaysAssumption ==
    /\ EmptyBox \notin Texts \cup Firms /\ Firms # {}
    /\ Heard \in [Texts -> Texts] /\ TooShort \subseteq Texts
    /\ MaxSearches \in Nat /\ MaxSwitches \in Nat /\ MaxToasts \in Nat

VARIABLES
    typed, timer,   \* the text in the box; the text whose 300 ms run, or EmptyBox
    firm,           \* the organization chosen
    sought,          \* searches on their way: number, text and organization
    results,        \* what the palette shows
    loading,        \* the spinner
    searches, switches, \* bound counters
    cause,          \* history: why the results may not be those of the box
    toasts, ticking,    \* the list; the toasts whose timer runs
    listening, onScreen, \* is the Toaster mounted; its copy of the list
    pushed,         \* toasts so far
    owed            \* history: toasts whose time is not over and which nobody closed

paletteVars == <<typed, timer, firm, sought, results, loading, searches, switches, cause>>
toastVars == <<toasts, ticking, listening, onScreen, pushed, owed>>
overlayVars == <<paletteVars, toastVars>>

Lists == [text : Texts \cup {EmptyBox}, firm : Firms]
Toasts == [id : 1..MaxToasts, nr : 1..MaxToasts]

OverlaysTypeOK ==
    /\ typed \in Texts \cup {EmptyBox} /\ timer \in {EmptyBox, typed} /\ firm \in Firms
    /\ sought \subseteq [nr : 1..MaxSearches, text : Texts, firm : Firms]
    /\ results \in Lists \cup {[text |-> EmptyBox, firm |-> EmptyBox]}
    /\ loading \in BOOLEAN
    /\ searches \in 0..MaxSearches /\ switches \in 0..MaxSwitches
    /\ cause \subseteq {"crossed", "failed", "switched"}
    /\ toasts \subseteq Toasts /\ ticking \subseteq Toasts /\ onScreen \subseteq Toasts
    /\ listening \in BOOLEAN /\ pushed \in 0..MaxToasts /\ owed \subseteq 1..pushed

\* The box is empty: no list at all.
NoList == [text |-> EmptyBox, firm |-> EmptyBox]

OverlaysInit ==
    /\ typed = EmptyBox /\ timer = EmptyBox
    /\ firm = CHOOSE f \in Firms : TRUE
    /\ sought = {} /\ results = NoList /\ loading = FALSE
    /\ searches = 0 /\ switches = 0 /\ cause = {}
    /\ toasts = {} /\ ticking = {} /\ listening = FALSE /\ onScreen = {}
    /\ pushed = 0 /\ owed = {}

-----------------------------------------------------------------------------
(* The palette *)

\* Mutant: the timer of the text before goes on.
TimerAfter_Kept(q) == IF q = EmptyBox THEN timer ELSE q

\* A change of the text stops the timer of the one before.
TimerAfter(q) == q

\* A search that is on its way is not called off.
Type(q) ==
    /\ q # typed
    /\ typed' = q /\ timer' = TimerAfter(q)
    /\ results' = IF q = EmptyBox THEN NoList ELSE results
    /\ cause' = CASE sought # {} -> cause \cup {"crossed"}
                  [] sought = {} /\ q = EmptyBox -> {}
                  [] OTHER -> cause
    /\ UNCHANGED <<firm, sought, loading, searches, switches>>

Search ==
    /\ timer # EmptyBox /\ searches < MaxSearches
    /\ timer' = EmptyBox
    /\ searches' = searches + 1
    /\ sought' = sought \cup {[nr |-> searches + 1, text |-> timer, firm |-> firm]}
    /\ loading' = TRUE
    /\ cause' = IF sought = {} THEN {} ELSE cause
    /\ UNCHANGED <<typed, firm, results, switches>>

\* SearchService answers fewer than two characters with empty lists.
Found(q, f) == [text |-> IF Heard[q] \in TooShort THEN EmptyBox ELSE Heard[q], firm |-> f]

\* Whichever answer comes last stays, and the first to come stops the spinner.
ListArrives(s) ==
    /\ sought' = sought \ {s}
    /\ loading' = FALSE
    /\ results' = Found(s.text, s.firm)
    /\ UNCHANGED <<typed, timer, firm, searches, switches, cause>>

\* The list that is shown stays.
SearchFails(s) ==
    /\ sought' = sought \ {s}
    /\ loading' = FALSE
    /\ cause' = cause \cup {"failed"}
    /\ UNCHANGED <<typed, timer, firm, results, searches, switches>>

\* The header, and the palette in it, stay mounted.
ChooseFirm(f) ==
    /\ f # firm /\ switches < MaxSwitches
    /\ firm' = f /\ switches' = switches + 1
    /\ cause' = IF results = NoList /\ sought = {} THEN cause ELSE cause \cup {"switched"}
    /\ UNCHANGED <<typed, timer, sought, results, loading, searches>>

PaletteNext ==
    /\ \/ \E q \in Texts \cup {EmptyBox} : Type(q)
       \/ Search
       \/ \E s \in sought : ListArrives(s) \/ SearchFails(s)
       \/ \E f \in Firms : ChooseFirm(f)
    /\ UNCHANGED toastVars

-----------------------------------------------------------------------------
(* The toasts *)

\* Every listener is told of the new list.
Emit == onScreen' = IF listening THEN toasts' ELSE onScreen

\* Mutant: toasts are numbered by their place in the list.
NextId_Length == Cardinality(toasts) + 1

NextId == pushed + 1

Push ==
    /\ pushed < MaxToasts
    /\ LET t == [id |-> NextId, nr |-> pushed + 1] IN
        /\ toasts' = toasts \cup {t} /\ ticking' = ticking \cup {t}
        /\ owed' = owed \cup {t.nr}
    /\ pushed' = pushed + 1
    /\ Emit /\ UNCHANGED listening

Dismiss(id) == toasts' = {t \in toasts : t.id # id} /\ Emit

\* The cross on a toast; its timer goes on.
Close(t) ==
    /\ Dismiss(t.id)
    /\ owed' = owed \ {t.nr}
    /\ UNCHANGED <<ticking, listening, pushed>>

TimeIsOver(t) ==
    /\ ticking' = ticking \ {t}
    /\ Dismiss(t.id)
    /\ owed' = owed \ {t.nr}
    /\ UNCHANGED <<listening, pushed>>

\* A listener is given the list at once: toasts may be older than the Toaster.
Subscribe ==
    /\ ~listening /\ listening' = TRUE
    /\ onScreen' = toasts
    /\ UNCHANGED <<toasts, ticking, pushed, owed>>

ToastNext ==
    /\ \/ Push \/ Subscribe
       \/ \E t \in onScreen : Close(t)
       \/ \E t \in ticking : TimeIsOver(t)
    /\ UNCHANGED paletteVars

OverlaysNext == PaletteNext \/ ToastNext

OverlaysSpec == OverlaysInit /\ [][OverlaysNext]_overlayVars

-----------------------------------------------------------------------------
(* Properties *)

\* "Trigger search on query change (debounce)": when nothing is on its way, the
\* palette lists what the API finds for the text in the box, in the organization
\* that is chosen, unless the text was changed while an answer was awaited, the
\* search failed, or the organization was changed under a list. The spinner turns
\* only while an answer is awaited, and stops before it only if another came.
PaletteShowsQuery ==
    /\ sought = {} /\ timer = EmptyBox /\ cause = {} =>
        results = IF typed = EmptyBox THEN NoList ELSE Found(typed, firm)
    /\ loading => sought # {}
    /\ sought # {} /\ ~loading => "crossed" \in cause

\* A toast is in the list, and on the screen, until its own time is over or it is
\* closed, whichever others come and go meanwhile.
ToastsLastTheirTime ==
    /\ {t.nr : t \in toasts} = owed
    /\ listening => onScreen = toasts
=============================================================================
