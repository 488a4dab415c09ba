--------------------------- MODULE ServicesProofs ---------------------------
(***************************************************************************)
(* What holds of the services for every value of their constants: content  *)
(* generation, documents, invoice numbers, the scraper, the palette and    *)
(* the toasts, and the claims that span several of them.                   *)
(***************************************************************************)
EXTENDS MCServices, FiniteSetTheorems, SequenceTheorems, TLAPS

-----------------------------------------------------------------------------
(* An agent's settings and budget *)

\* Every reachable state is well typed; the counters never go below zero.
THEOREM SettingsTyped == Spec => []TypeOK
<1> USE SettingsAssumption DEF TypeOK, budgetVars, guardVars
<1>0. Costs \cup {0} \subseteq Nat
  OBVIOUS
<1>1. Init => TypeOK
  <2>1. NoChange \in Fields
    BY DEF NoChange, Fields
  <2> SUFFICES ASSUME Init PROVE TypeOK
    OBVIOUS
  <2>2. /\ used \in Nat /\ spent \in Nat /\ reset \in {"unset", "running", "expired"}
        /\ autoSend \in BOOLEAN /\ allowlist \in BOOLEAN
        /\ wiped \in BOOLEAN /\ late \in BOOLEAN /\ overtaken \subseteq Updaters
    BY DEF Init
  <2>3. /\ pc \in [Callers -> {"idle", "reset", "check", "grant"}]
        /\ seen \in [Callers -> Nat] /\ ask \in [Callers -> Costs \cup {0}]
    BY DEF Init
  <2>4. change \in [Updaters -> Fields]
    BY <2>1 DEF Init
  <2>5. QED
    BY <2>2, <2>3, <2>4
<1>2. TypeOK /\ [Next]_vars => TypeOK'
  <2> SUFFICES ASSUME TypeOK, [Next]_vars PROVE TypeOK'
    OBVIOUS
  <2>1. ASSUME NEW c \in Callers, Read(c) PROVE TypeOK'
    BY <2>1 DEF Read
  <2>2. ASSUME NEW c \in Callers, Reset(c) PROVE TypeOK'
    BY <2>2 DEF Reset
  <2>3. ASSUME NEW c \in Callers, Check(c) PROVE TypeOK'
    BY <2>3 DEF Check
  <2>4. ASSUME NEW c \in Callers, Grant(c) PROVE TypeOK'
    <3>1. ask[c] \in Nat /\ used \in Nat /\ spent \in Nat
      BY <1>0
    <3>2. used' \in Nat /\ spent' \in Nat
      BY <2>4, <3>1 DEF Grant
    <3>3. QED
      BY <2>4, <3>2 DEF Grant
  <2>5. ASSUME NEW c \in Callers, CallerDies(c) PROVE TypeOK'
    BY <2>5 DEF CallerDies
  <2>6. ASSUME NEW u \in Updaters, NEW data \in Fields, CheckUpdate(u, data) PROVE TypeOK'
    BY <2>6 DEF CheckUpdate
  <2>7. ASSUME NEW u \in Updaters, WriteUpdate(u) PROVE TypeOK'
    <3>1. autoSend' \in BOOLEAN /\ allowlist' \in BOOLEAN
      BY <2>7 DEF WriteUpdate, After
    <3>2. change' \in [Updaters -> Fields] /\ overtaken' \subseteq Updaters /\ late' \in BOOLEAN
      BY <2>7 DEF WriteUpdate, NoChange, Fields
    <3>3. QED
      BY <2>7, <3>1, <3>2 DEF WriteUpdate
  <2>8. ASSUME WindowExpires PROVE TypeOK'
    BY <2>8 DEF WindowExpires
  <2>9. CASE UNCHANGED vars
    BY <2>9 DEF vars
  <2>10. QED
    BY <2>1, <2>2, <2>3, <2>4, <2>5, <2>6, <2>7, <2>8, <2>9 DEF Next
<1>3. QED
  BY <1>1, <1>2, PTL DEF Spec

-----------------------------------------------------------------------------
(* The guard of auto-send *)

\* What update has to leave behind.
Guarded(data) == After(autoSend, data.autoSend, "on") => After(allowlist, data.allowlist, "filled")

\* A checked call that nobody has overtaken still leaves a guarded row.
GuardInv ==
    /\ autoSend /\ ~allowlist => late
    /\ \A u \in Updaters : change[u] # NoChange /\ u \notin overtaken => Guarded(change[u])

\* The guard holds for any number of concurrent updates, except after a write
\* by a call whose check another write had made stale.
THEOREM GuardHolds == Spec => []AutoSendHasAllowlist
<1>1. Init => GuardInv
  BY DEF Init, GuardInv
<1>2. TypeOK /\ GuardInv /\ [Next]_vars => GuardInv'
  <2> SUFFICES ASSUME TypeOK, GuardInv, [Next]_vars PROVE GuardInv'
    OBVIOUS
  <2>1. ASSUME UNCHANGED guardVars PROVE GuardInv'
    BY <2>1 DEF guardVars, GuardInv, Guarded, After
  <2>2. ASSUME NEW u \in Updaters, NEW data \in Fields, CheckUpdate(u, data) PROVE GuardInv'
    <3>1. UNCHANGED <<autoSend, allowlist, overtaken, late>> /\ Guarded(data)
      BY <2>2 DEF CheckUpdate, Guarded
    <3>2. ASSUME NEW v \in Updaters, change'[v] # NoChange, v \notin overtaken
          PROVE  Guarded(change'[v])
      <4>1. CASE v = u
        BY <2>2, <3>1, <4>1 DEF CheckUpdate, TypeOK
      <4>2. CASE v # u
        BY <2>2, <3>2, <4>2 DEF CheckUpdate, TypeOK, GuardInv
      <4>3. QED
        BY <4>1, <4>2
    <3>3. QED
      BY <3>1, <3>2 DEF GuardInv, Guarded, After
  <2>3. ASSUME NEW u \in Updaters, WriteUpdate(u) PROVE GuardInv'
    <3>1. autoSend' /\ ~allowlist' => late'
      BY <2>3 DEF WriteUpdate, GuardInv, Guarded, After
    <3>2. \A v \in Updaters : change'[v] # NoChange => v \in overtaken'
      BY <2>3 DEF WriteUpdate, TypeOK
    <3>3. QED
      BY <3>1, <3>2 DEF GuardInv
  <2>4. QED
    BY <2>1, <2>2, <2>3
    DEF Next, vars, Read, Reset, Check, Grant, CallerDies, WindowExpires
<1>3. GuardInv => AutoSendHasAllowlist
  BY DEF GuardInv, AutoSendHasAllowlist
<1>4. QED
  BY <1>1, <1>2, <1>3, SettingsTyped, PTL DEF Spec

-----------------------------------------------------------------------------
(* The token budget *)

\* The runs that may still charge: their check has passed, or will.
Charging == {c \in Callers : pc[c] = "grant" \/ (pc[c] = "check" /\ seen[c] + ask[c] <= MaxTokens)}

\* A set of runs can charge n within the bound when one of them can, each of the
\* others counted at the largest estimate. It need not be the same run for long:
\* once it has charged or died, any other will do.
Fits(runs, n, cost, bound) ==
    runs # {} => \E c \in runs : n + cost[c] + (Cardinality(runs) - 1) * MaxCost <= bound

OvershootInv ==
    /\ used <= MaxTokens + Slack
    /\ Fits(Charging, used, ask, MaxTokens + Slack)
    /\ ~wiped => spent = used

\* More runs, each at the largest estimate, cost no less.
LEMMA EstimatesAddUp ==
    /\ \A m, n \in Nat : m <= n => m * MaxCost <= n * MaxCost
    /\ \A n \in Nat : (n + 1) * MaxCost = n * MaxCost + MaxCost
  BY SettingsAssumption

\* The sizes of the set of runs that may still charge: without one of them, with
\* another one, and never more than all of them.
LEMMA ChargingSizes ==
    ASSUME NEW S \in SUBSET Callers
    PROVE  /\ IsFiniteSet(S) /\ Cardinality(S) \in Nat /\ Cardinality(S) <= Cardinality(Callers)
           /\ S # {} => Cardinality(S) >= 1
           /\ S # Callers => Cardinality(S) <= Cardinality(Callers) - 1
           /\ \A c \in S : Cardinality(S \ {c}) = Cardinality(S) - 1
           /\ Cardinality(Callers) \in Nat /\ Cardinality(Callers) >= 1
<1>1. IsFiniteSet(Callers) /\ Callers # {}
  BY SettingsAssumption
<1>2. /\ IsFiniteSet(S) /\ Cardinality(S) <= Cardinality(Callers)
      /\ Cardinality(Callers) = Cardinality(S) => Callers = S
  BY <1>1, FS_Subset, Zenon
<1>3. Cardinality(S) \in Nat /\ Cardinality(Callers) \in Nat
  BY <1>1, <1>2, FS_CardinalityType, Zenon
<1>4. S # {} => Cardinality(S) # 0
  BY <1>2, FS_EmptySet, Zenon
<1>5. Cardinality(Callers) # 0
  BY <1>1, FS_EmptySet, Zenon
<1>6. ASSUME NEW c \in S PROVE Cardinality(S \ {c}) = Cardinality(S) - 1
  BY <1>2, FS_RemoveElement, Zenon
<1> QED BY <1>2, <1>3, <1>4, <1>5, <1>6

\* When a run is done with its charge, the others stay within the bound.
LEMMA OneChargesLess ==
    ASSUME NEW S \in SUBSET Callers, NEW cost \in [Callers -> 0..MaxCost],
           NEW n \in Nat, NEW more \in Nat, NEW B \in Nat, NEW d \in S,
           more <= cost[d], Fits(S, n, cost, B)
    PROVE  n + more <= B /\ Fits(S \ {d}, n + more, cost, B)
<1> DEFINE k == Cardinality(S)
<1>1. PICK c \in S : n + cost[c] + (k - 1) * MaxCost <= B
  BY DEF Fits
<1>2. k \in Nat /\ k >= 1 /\ Cardinality(S \ {d}) = k - 1
  BY ChargingSizes
<1>3. /\ MaxCost \in Nat /\ cost[c] \in Nat /\ cost[d] \in Nat /\ cost[d] <= MaxCost
      /\ (k - 1) * MaxCost \in Nat /\ (k > 1 => (k - 1) * MaxCost >= MaxCost)
  <2>1. MaxCost \in Nat /\ k - 1 \in Nat
    BY <1>2, SettingsAssumption
  <2>2. (k - 1) * MaxCost \in Nat
    BY <2>1
  <2>3. k > 1 => 1 * MaxCost <= (k - 1) * MaxCost
    BY <2>1, <1>2, EstimatesAddUp
  <2> QED BY <2>1, <2>2, <2>3
<1>4. ASSUME NEW e \in S, e # d PROVE k - 1 >= 1
  <2>1. S \ {d} # {} /\ S \ {d} \in SUBSET Callers
    BY <1>4
  <2> QED BY <2>1, <1>2, ChargingSizes
<1>5. ASSUME k > 1 PROVE (k - 1) * MaxCost = (k - 2) * MaxCost + MaxCost /\ (k - 2) * MaxCost \in Nat
  <2>1. k - 2 \in Nat /\ (k - 2) + 1 = k - 1
    BY <1>2, <1>5
  <2> QED BY <2>1, <1>3, EstimatesAddUp
<1> HIDE DEF k
<1>6. CASE c = d
  <2>1. n + more <= B
    BY <1>1, <1>2, <1>3, <1>6
  <2>2. ASSUME NEW e \in S, e # d PROVE n + more + cost[e] + (k - 2) * MaxCost <= B
    BY <1>1, <1>2, <1>3, <1>4, <1>5, <1>6, <2>2
  <2> QED BY <2>1, <2>2, <1>2 DEF Fits
<1>7. CASE c # d
  <2>1. k > 1
    BY <1>4, <1>7, <1>2
  <2>2. n + more + cost[c] + (k - 2) * MaxCost <= B
    BY <1>1, <1>2, <1>3, <1>5, <2>1
  <2>3. n + more <= B
    BY <1>3, <1>5, <2>1, <2>2
  <2> QED BY <2>2, <2>3, <1>2, <1>7 DEF Fits
<1> QED BY <1>6, <1>7

\* A run that has just read, or reset, a counter it fits into leaves all the others
\* within the bound, whatever their estimates.
LEMMA NewcomerFits ==
    ASSUME NEW S \in SUBSET Callers, NEW d \in S, NEW n \in Nat, NEW m \in Nat, n + m <= MaxTokens
    PROVE  n + m + (Cardinality(S) - 1) * MaxCost <= MaxTokens + Slack
<1>1. /\ Cardinality(S) - 1 \in Nat /\ Cardinality(Callers) - 1 \in Nat
      /\ Cardinality(S) - 1 <= Cardinality(Callers) - 1
  BY ChargingSizes
<1>2. (Cardinality(S) - 1) * MaxCost <= Slack
  BY <1>1, EstimatesAddUp DEF Slack
<1>3. (Cardinality(S) - 1) * MaxCost \in Nat /\ Slack \in Nat /\ MaxTokens \in Nat
  BY <1>1, SettingsAssumption DEF Slack
<1> QED BY <1>2, <1>3

LEMMA OvershootStep == TypeOK /\ OvershootInv /\ [Next]_vars => OvershootInv'
<1> SUFFICES ASSUME TypeOK, OvershootInv, [Next]_vars PROVE OvershootInv'
  OBVIOUS
<1> DEFINE B == MaxTokens + Slack
<1>t. /\ used \in Nat /\ spent \in Nat /\ wiped \in BOOLEAN
      /\ pc \in [Callers -> {"idle", "reset", "check", "grant"}]
      /\ seen \in [Callers -> Nat] /\ ask \in [Callers -> 0..MaxCost]
      /\ MaxTokens \in Nat /\ MaxCost \in Nat /\ B \in Nat /\ Slack \in Nat
  <2>1. Costs \cup {0} \subseteq 0..MaxCost /\ MaxTokens \in Nat /\ MaxCost \in Nat
    BY SettingsAssumption
  <2>2. ask \in [Callers -> 0..MaxCost]
    BY <2>1 DEF TypeOK
  <2>3. {} \in SUBSET Callers
    OBVIOUS
  <2>4. Cardinality(Callers) - 1 \in Nat
    BY <2>3, ChargingSizes
  <2>5. Slack \in Nat
    BY <2>1, <2>4 DEF Slack
  <2> QED BY <2>1, <2>2, <2>5 DEF TypeOK
<1>i. /\ used <= B /\ (~wiped => spent = used)
      /\ Fits(Charging, used, ask, B)
  BY DEF OvershootInv
<1>c. Charging \in SUBSET Callers /\ Charging' \in SUBSET Callers
  BY DEF Charging
\* A step that leaves the counter alone and takes nobody in or out.
<1>s. ASSUME Charging' = Charging, UNCHANGED <<used, spent, wiped>>, \A c \in Charging : ask'[c] = ask[c]
      PROVE OvershootInv'
  BY <1>s, <1>i DEF OvershootInv, Slack, Fits
\* A step by which a run stops, its charge made or not.
<1>g. ASSUME NEW d \in Charging, Charging' = Charging \ {d}, ask' = ask, NEW more \in Nat, more <= ask[d],
             used' = used + more, ~wiped' => spent' = used'
      PROVE OvershootInv'
  <2>1. more \in Nat /\ more <= ask[d]
    BY <1>g
  <2>2. used \in Nat /\ B \in Nat /\ Charging \in SUBSET Callers /\ ask \in [Callers -> 0..MaxCost]
    BY <1>t, <1>c
  <2>3. Fits(Charging, used, ask, B)
    BY <1>i
  <2>4. used + more <= B /\ Fits(Charging \ {d}, used + more, ask, B)
    <3> HIDE DEF B
    <3> QED BY <2>1, <2>2, <2>3, OneChargesLess
  <2> QED BY <2>4, <1>g DEF OvershootInv, Slack
\* A step after which a run that has just read the counter fits in.
<1>n. ASSUME NEW c \in Charging', used' \in Nat, used' + ask'[c] <= MaxTokens, ask'[c] \in Nat,
             ~wiped' => spent' = used'
      PROVE OvershootInv'
  <2>1. used' + ask'[c] + (Cardinality(Charging') - 1) * MaxCost <= B
    BY <1>n, <1>c, NewcomerFits
  <2>2. used' <= B
    BY <1>n, <1>t
  <2> QED BY <2>1, <2>2, <1>n DEF OvershootInv, Slack, Fits
<1>1. ASSUME NEW c \in Callers, Read(c) PROVE OvershootInv'
  <2>1. /\ pc[c] = "idle" /\ pc' = [pc EXCEPT ![c] = IF reset = "running" THEN "check" ELSE "reset"]
        /\ seen' = [seen EXCEPT ![c] = used] /\ UNCHANGED <<used, spent, wiped>>
    BY <1>1 DEF Read
  <2>2. PICK n \in Costs : ask' = [ask EXCEPT ![c] = n]
    BY <1>1 DEF Read
  <2>3. n \in Nat /\ c \notin Charging /\ ask'[c] = n /\ seen'[c] = used
        /\ \A d \in Callers \ {c} : ask'[d] = ask[d] /\ pc'[d] = pc[d] /\ seen'[d] = seen[d]
    BY <2>1, <2>2, <1>t, SettingsAssumption DEF Charging
  <2>4. CASE c \in Charging'
    <3>1. used + n <= MaxTokens
      BY <2>1, <2>3, <2>4, <1>t DEF Charging
    <3> QED BY <2>1, <2>3, <2>4, <3>1, <1>t, <1>i, <1>n
  <2>5. CASE c \notin Charging'
    <3>1. Charging' = Charging
      BY <2>3, <2>5 DEF Charging
    <3>2. \A d \in Charging : ask'[d] = ask[d]
      BY <2>3, <1>c
    <3> QED BY <2>1, <3>1, <3>2, <1>s
  <2> QED BY <2>4, <2>5
<1>2. ASSUME NEW c \in Callers, Reset(c) PROVE OvershootInv'
  <2>1. /\ pc[c] = "reset" /\ pc' = [pc EXCEPT ![c] = "check"] /\ seen' = [seen EXCEPT ![c] = 0]
        /\ used' = 0 /\ spent' = 0 /\ ask' = ask
    BY <1>2 DEF Reset
  <2>2. ask[c] \in Nat /\ pc'[c] = "check" /\ seen'[c] = 0
    BY <2>1, <1>t
  <2>3. CASE c \in Charging'
    <3>1. 0 + ask[c] <= MaxTokens
      BY <2>2, <2>1, <2>3, <1>t DEF Charging
    <3> QED BY <2>1, <2>2, <2>3, <3>1, <1>n
  <2>4. CASE c \notin Charging'
    <3>1. Charging' # Callers
      BY <2>4
    <3>2. Cardinality(Charging') \in Nat /\ Cardinality(Charging') <= Cardinality(Callers) - 1
          /\ (Charging' # {} => Cardinality(Charging') >= 1) /\ Cardinality(Callers) - 1 \in Nat
      BY <3>1, <1>c, ChargingSizes
    <3>3. Cardinality(Charging') * MaxCost <= Slack /\ Cardinality(Charging') * MaxCost \in Nat
      BY <3>2, <1>t, EstimatesAddUp DEF Slack
    <3>4. ASSUME NEW d \in Charging' PROVE 0 + ask[d] + (Cardinality(Charging') - 1) * MaxCost <= B
      <4>1. Cardinality(Charging') - 1 \in Nat /\ (Cardinality(Charging') - 1) + 1 = Cardinality(Charging')
        BY <3>2, <3>4
      <4>2. Cardinality(Charging') * MaxCost = (Cardinality(Charging') - 1) * MaxCost + MaxCost
            /\ (Cardinality(Charging') - 1) * MaxCost \in Nat
        BY <4>1, <1>t, EstimatesAddUp
      <4>3. ask[d] \in Nat /\ ask[d] <= MaxCost
        BY <1>c, <1>t
      <4> QED BY <4>2, <4>3, <3>3, <1>t
    <3> QED BY <2>1, <3>4, <1>t DEF OvershootInv, Slack, Fits
  <2> QED BY <2>3, <2>4
<1>3. ASSUME NEW c \in Callers, Check(c) PROVE OvershootInv'
  <2>1. /\ pc[c] = "check" /\ UNCHANGED <<used, spent, wiped, seen, ask>>
        /\ pc' = [pc EXCEPT ![c] = IF seen[c] + ask[c] > MaxTokens THEN "idle" ELSE "grant"]
    BY <1>3 DEF Check
  <2>2. seen[c] \in Nat /\ ask[c] \in Nat
    BY <1>t
  <2>3. \A d \in Callers \ {c} : pc'[d] = pc[d]
    BY <2>1, <1>t
  <2>4. c \in Charging' <=> c \in Charging
    BY <2>1, <2>2, <1>t DEF Charging
  <2>5. Charging' = Charging
    BY <2>1, <2>3, <2>4 DEF Charging
  <2> QED BY <2>1, <2>5, <1>s
<1>4. ASSUME NEW c \in Callers, Grant(c) PROVE OvershootInv'
  <2>1. /\ pc[c] = "grant" /\ pc' = [pc EXCEPT ![c] = "idle"] /\ UNCHANGED <<seen, ask, wiped>>
        /\ used' = used + ask[c] /\ spent' = IF wiped THEN 0 ELSE spent + ask[c]
    BY <1>4 DEF Grant
  <2>2. c \in Charging /\ Charging' = Charging \ {c} /\ ask[c] \in Nat
    BY <2>1, <1>t DEF Charging
  <2>3. ~wiped' => spent' = used'
    BY <2>1, <1>i
  <2> QED BY <2>1, <2>2, <2>3, <1>g
<1>5. ASSUME NEW c \in Callers, CallerDies(c) PROVE OvershootInv'
  <2>1. /\ pc' = [pc EXCEPT ![c] = "idle"] /\ UNCHANGED <<used, spent, seen, ask, wiped>>
    BY <1>5 DEF CallerDies
  <2>2. Charging' = Charging \ {c} /\ ask[c] \in Nat /\ 0 <= ask[c] /\ used' = used + 0
    BY <2>1, <1>t DEF Charging
  <2>3. CASE c \in Charging
    <3>1. ~wiped' => spent' = used'
      BY <2>1, <1>i
    <3> QED BY <2>1, <2>2, <2>3, <3>1, <1>g
  <2>4. CASE c \notin Charging
    BY <2>1, <2>2, <2>4, <1>s
  <2> QED BY <2>3, <2>4
<1>6. CASE WindowExpires \/ UNCHANGED vars \/ UNCHANGED budgetVars
  <2>1. UNCHANGED <<used, spent, wiped, pc, seen, ask>>
    BY <1>6 DEF WindowExpires, vars, budgetVars
  <2> QED BY <2>1, <1>s DEF Charging
<1>7. ASSUME NEW u \in Updaters, WriteUpdate(u) \/ \E data \in Fields : CheckUpdate(u, data) PROVE OvershootInv'
  <2>1. UNCHANGED budgetVars
    BY <1>7 DEF WriteUpdate, CheckUpdate
  <2> QED BY <2>1, <1>6
<1> QED BY <1>1, <1>2, <1>3, <1>4, <1>5, <1>6, <1>7 DEF Next

\* However many runs charge at once, what one window grants passes the budget by at
\* most one estimate for each other run, and auto-send has its allowlist.
THEOREM SettingsAreKept == Spec => []SettingsHold
<1>1. Init => OvershootInv
  <2> SUFFICES ASSUME Init PROVE OvershootInv
    OBVIOUS
  <2>1. Charging = {}
    BY DEF Init, Charging
  <2>2. {} \in SUBSET Callers
    OBVIOUS
  <2>3. Cardinality(Callers) - 1 \in Nat
    BY <2>2, ChargingSizes
  <2>4. Slack \in Nat /\ MaxTokens \in Nat
    BY <2>3, SettingsAssumption DEF Slack
  <2> QED BY <2>1, <2>4 DEF Init, OvershootInv, Fits
<1>2. OvershootInv /\ AutoSendHasAllowlist => SettingsHold
  BY DEF OvershootInv, SettingsHold, OvershootBounded
<1> QED BY <1>1, <1>2, OvershootStep, SettingsTyped, GuardHolds, PTL DEF Spec

-----------------------------------------------------------------------------
(* The membership cache *)

\* Every reachable state is well typed, and a lookup has a membership in hand
\* exactly from reading it to deciding by it.
THEOREM MembershipTyped == MemberSpec => []MemberTypeOK
<1> USE MembershipAssumption DEF MemberTypeOK, lookupVars, Rows, NonMember
<1>1. MemberInit => MemberTypeOK
  BY DEF MemberInit
<1>2. MemberTypeOK /\ [MemberNext]_memberVars => MemberTypeOK'
  <2> SUFFICES ASSUME MemberTypeOK, [MemberNext]_memberVars PROVE MemberTypeOK'
    OBVIOUS
  <2>0. \A u \in Users : Overlap(u) \in SUBSET {"overlap", "redisFailed"}
    BY DEF Overlap
  <2>1. ASSUME NEW l \in Lookups, NEW u \in Users, BeginLookup(l, u) PROVE MemberTypeOK'
    BY <2>1 DEF BeginLookup
  <2>2. ASSUME NEW l \in Lookups, Get(l) PROVE MemberTypeOK'
    <3>1. who[l] \in Users
      BY <2>2 DEF Get
    <3>2. CASE lookupPc'[l] = "decide"
      BY <2>2, <3>1, <3>2 DEF Get
    <3>3. CASE lookupPc'[l] # "decide"
      BY <2>2, <3>1, <3>3 DEF Get
    <3>4. QED
      BY <3>2, <3>3
  <2>3. ASSUME NEW l \in Lookups, Query(l) PROVE MemberTypeOK'
    <3>1. row[who[l]] \in Rows /\ row[who[l]] # "miss"
      BY <2>3 DEF Query
    <3>2. QED
      BY <2>3, <3>1 DEF Query
  <2>4. ASSUME NEW l \in Lookups, Set(l) PROVE MemberTypeOK'
    BY <2>4 DEF Set
  <2>5. ASSUME NEW l \in Lookups, Decide(l) PROVE MemberTypeOK'
    BY <2>5 DEF Decide
  <2>6. ASSUME NEW u \in Users, Disconnect(u) PROVE MemberTypeOK'
    BY <2>6 DEF Disconnect
  <2>7. ASSUME NEW c \in Changes, NEW u \in Users, NEW v \in Rows, Change(c, u, v) PROVE MemberTypeOK'
    BY <2>0, <2>7 DEF Change
  <2>8. ASSUME NEW c \in Changes, Invalidate(c) PROVE MemberTypeOK'
    BY <2>0, <2>8 DEF Invalidate
  <2>9. ASSUME NEW u \in Users, Expire(u) PROVE MemberTypeOK'
    BY <2>0, <2>9 DEF Expire
  <2>10. CASE UNCHANGED memberVars
    BY <2>10 DEF memberVars
  <2>11. QED
    BY <2>1, <2>2, <2>3, <2>4, <2>5, <2>6, <2>7, <2>8, <2>9, <2>10 DEF MemberNext, LookupStep
<1>3. QED
  BY <1>1, <1>2, PTL DEF MemberSpec

-----------------------------------------------------------------------------
(* The cache and the rows *)

\* What a lookup is about to write is the row, or the overlap is on record.
ReadInv ==
    \A l \in Lookups : lookupPc[l] = "set" =>
        value[l] = row[who[l]] \/ "overlap" \in fate[who[l]]

\* ReadInv is inductive.
LEMMA ReadStep ==
    ASSUME MemberTypeOK, ReadInv, [MemberNext]_memberVars
    PROVE  ReadInv'
<1> SUFFICES ASSUME NEW l \in Lookups, lookupPc'[l] = "set"
             PROVE  value'[l] = row'[who'[l]] \/ "overlap" \in fate'[who'[l]]
  BY DEF ReadInv
<1> DEFINE Goal == value'[l] = row'[who'[l]] \/ "overlap" \in fate'[who'[l]]
<1> USE MembershipAssumption DEF MemberTypeOK, ReadInv, lookupVars
<1>1. ASSUME NEW m \in Lookups, NEW u \in Users, BeginLookup(m, u) PROVE Goal
  BY <1>1 DEF BeginLookup
<1>2. ASSUME NEW m \in Lookups, Get(m) \/ Query(m) \/ Set(m) \/ Decide(m) PROVE Goal
  BY <1>2 DEF Get, Query, Set, Decide
<1>3. ASSUME NEW u \in Users, Disconnect(u) PROVE Goal
  BY <1>3 DEF Disconnect
<1>4. ASSUME lookupPc[l] = "set", value'[l] = value[l], who'[l] = who[l], row'[who[l]] = row[who[l]],
             fate'[who[l]] = fate[who[l]] \/ "overlap" \in fate'[who[l]]
      PROVE  Goal
  BY <1>4
<1>5. lookupPc[l] = "set" => Overlap(who[l]) = {"overlap"}
  BY DEF Overlap
<1>6. ASSUME NEW c \in Changes, NEW u \in Users, NEW v \in Rows, Change(c, u, v) PROVE Goal
  <2>1. lookupPc[l] = "set" /\ value'[l] = value[l] /\ who'[l] = who[l]
    BY <1>6 DEF Change
  <2>2. CASE who[l] = u
    BY <1>5, <1>6, <2>1, <2>2 DEF Change
  <2>3. CASE who[l] # u
    BY <1>4, <1>6, <2>1, <2>3 DEF Change
  <2>4. QED
    BY <2>2, <2>3
<1>7. ASSUME NEW c \in Changes, Invalidate(c) PROVE Goal
  BY <1>4, <1>5, <1>7 DEF Invalidate
<1>8. ASSUME NEW u \in Users, Expire(u) PROVE Goal
  BY <1>4, <1>5, <1>8 DEF Expire
<1>9. CASE UNCHANGED memberVars
  BY <1>9 DEF memberVars
<1>10. QED
  BY <1>1, <1>2, <1>3, <1>6, <1>7, <1>8, <1>9 DEF MemberNext, LookupStep

\* The cache disagrees with a row only in the middle of an operation, after an
\* overlapping lookup, or after a failure of Redis.
THEOREM Coherent == MemberSpec => []CacheCoherent
<1>1. MemberInit => ReadInv /\ CacheCoherent
  BY DEF MemberInit, ReadInv, CacheCoherent
<1>2. MemberTypeOK /\ ReadInv /\ CacheCoherent /\ [MemberNext]_memberVars => CacheCoherent'
  <2> SUFFICES ASSUME MemberTypeOK, ReadInv, CacheCoherent, [MemberNext]_memberVars, NEW u \in Users
               PROVE  cache'[u] \in {"miss", row'[u]} \/ InTransit(u)' \/ fate'[u] # {}
    BY DEF CacheCoherent
  <2> DEFINE Goal == cache'[u] \in {"miss", row'[u]} \/ InTransit(u)' \/ fate'[u] # {}
  <2> USE MembershipAssumption DEF MemberTypeOK, CacheCoherent, InTransit, lookupVars
  <2>1. ASSUME UNCHANGED <<row, cache, changing, fate>> PROVE Goal
    BY <2>1
  <2>2. ASSUME NEW l \in Lookups, Set(l) PROVE Goal
    BY <2>2 DEF Set, ReadInv
  <2>3. ASSUME NEW c \in Changes, NEW w \in Users, NEW v \in Rows, Change(c, w, v) PROVE Goal
    <3>1. CASE w = u
      <4>1. changing'[c] = u
        BY <2>3, <3>1 DEF Change
      <4>2. QED
        BY <4>1
    <3>2. CASE w # u
      <4>1. UNCHANGED cache /\ row'[u] = row[u] /\ fate'[u] = fate[u]
        BY <2>3, <3>2 DEF Change
      <4>2. InTransit(u) => InTransit(u)'
        BY <2>3 DEF Change
      <4>3. QED
        BY <4>1, <4>2
    <3>3. QED
      BY <3>1, <3>2
  <2>4. ASSUME NEW c \in Changes, Invalidate(c) PROVE Goal
    <3>1. CASE changing[c] = u
      <4>1. cache'[u] = "miss" \/ "redisFailed" \in fate'[u]
        BY <2>4, <3>1 DEF Invalidate
      <4>2. QED
        BY <4>1
    <3>2. CASE changing[c] # u
      <4>1. cache'[u] = cache[u] /\ UNCHANGED row /\ fate'[u] = fate[u]
        BY <2>4, <3>2 DEF Invalidate
      <4>2. InTransit(u) => InTransit(u)'
        BY <2>4, <3>2 DEF Invalidate
      <4>3. QED
        BY <4>1, <4>2
    <3>3. QED
      BY <3>1, <3>2
  <2>5. ASSUME NEW w \in Users, Expire(w) PROVE Goal
    BY <2>5 DEF Expire
  <2>6. QED
    BY <2>1, <2>2, <2>3, <2>4, <2>5
    DEF MemberNext, LookupStep, memberVars, BeginLookup, Get, Query, Decide, Disconnect
<1>3. QED
  BY <1>1, <1>2, ReadStep, MembershipTyped, PTL DEF MemberSpec

-----------------------------------------------------------------------------
(* What a request goes by *)

\* While nothing excuses a stale entry, what a lookup can come to read is among
\* what it may go by.
LegitInv ==
    \A l \in Lookups : LET u == who[l] IN
        /\ lookupPc[l] # "idle" => row[u] \in legit[l]
        /\ lookupPc[l] = "get" /\ fate[u] = {} => cache[u] \in legit[l] \cup {"miss"}
        /\ lookupPc[l] \in {"set", "decide"} => value[l] \in legit[l]

\* LegitInv is inductive.
LEMMA LegitStep ==
    ASSUME MemberTypeOK, ReadInv, CacheCoherent, LegitInv, [MemberNext]_memberVars
    PROVE  LegitInv'
<1> SUFFICES ASSUME NEW l \in Lookups, lookupPc'[l] # "idle"
             PROVE  /\ row'[who'[l]] \in legit'[l]
                    /\ lookupPc'[l] = "get" /\ fate'[who'[l]] = {} =>
                            cache'[who'[l]] \in legit'[l] \cup {"miss"}
                    /\ lookupPc'[l] \in {"set", "decide"} => value'[l] \in legit'[l]
  BY DEF LegitInv
<1> DEFINE Row == row'[who'[l]] \in legit'[l]
           Entry == lookupPc'[l] = "get" /\ fate'[who'[l]] = {} =>
                            cache'[who'[l]] \in legit'[l] \cup {"miss"}
           InHand == lookupPc'[l] \in {"set", "decide"} => value'[l] \in legit'[l]
           Goal == Row /\ Entry /\ InHand
<1> USE MembershipAssumption DEF MemberTypeOK, LegitInv, lookupVars
<1>0. ASSUME lookupPc[l] = "get", fate[who[l]] = {} PROVE cache[who[l]] \in legit[l] \cup {"miss"}
  BY <1>0
<1>1. ASSUME NEW m \in Lookups, NEW u \in Users, BeginLookup(m, u) PROVE Goal
  <2>1. CASE m = l
    <3>1. /\ who'[l] = u /\ lookupPc'[l] = "get" /\ UNCHANGED <<row, cache, fate>>
          /\ legit'[l] = {row[u]} \cup (IF InTransit(u) THEN {cache[u]} ELSE {})
      BY <1>1, <2>1 DEF BeginLookup
    <3>2. cache[u] \in {"miss", row[u]} \/ InTransit(u) \/ fate[u] # {}
      BY DEF CacheCoherent
    <3>3. QED
      BY <3>1, <3>2
  <2>2. CASE m # l
    BY <1>1, <2>2 DEF BeginLookup
  <2>3. QED
    BY <2>1, <2>2
<1>2. ASSUME NEW m \in Lookups, Get(m) PROVE Goal
  <2>1. CASE m = l
    <3>1. Row /\ Entry
      BY <1>2, <2>1 DEF Get
    <3>2. InHand
      BY <1>0, <1>2, <2>1 DEF Get
    <3>3. QED
      BY <3>1, <3>2
  <2>2. CASE m # l
    BY <1>2, <2>2 DEF Get
  <2>3. QED
    BY <2>1, <2>2
<1>3. ASSUME NEW m \in Lookups, Query(m) PROVE Goal
  BY <1>3 DEF Query
<1>4. ASSUME NEW m \in Lookups, Set(m) PROVE Goal
  <2>1. Row /\ InHand
    BY <1>4 DEF Set
  <2>2. Entry
    <3> SUFFICES ASSUME lookupPc'[l] = "get", fate'[who'[l]] = {}
                 PROVE  cache'[who'[l]] \in legit'[l] \cup {"miss"}
      OBVIOUS
    <3>1. /\ lookupPc[l] = "get" /\ who'[l] = who[l] /\ legit'[l] = legit[l]
          /\ fate[who[l]] = {} /\ m # l
      BY <1>4 DEF Set
    <3>2. CASE cache'[who[l]] = cache[who[l]]
      BY <1>0, <3>1, <3>2
    <3>3. CASE cache'[who[l]] # cache[who[l]]
      <4>1. who[m] = who[l] /\ cache'[who[l]] = value[m] /\ lookupPc[m] = "set"
        BY <1>4, <3>3 DEF Set
      <4>2. value[m] = row[who[l]]
        BY <3>1, <4>1 DEF ReadInv
      <4>3. QED
        BY <3>1, <4>1, <4>2
    <3>4. QED
      BY <3>2, <3>3
  <2>3. QED
    BY <2>1, <2>2
<1>5. ASSUME NEW m \in Lookups, Decide(m) PROVE Goal
  BY <1>5 DEF Decide
<1>6. ASSUME NEW u \in Users, Disconnect(u) PROVE Goal
  BY <1>6 DEF Disconnect
<1>7. ASSUME NEW c \in Changes, NEW u \in Users, NEW v \in Rows, Change(c, u, v) PROVE Goal
  <2>1. UNCHANGED <<lookupPc, who, value, cache>> /\ legit[l] \subseteq legit'[l]
    BY <1>7 DEF Change
  <2>2. Row
    BY <1>7, <2>1 DEF Change
  <2>3. InHand
    BY <2>1
  <2>4. fate'[who[l]] = {} => fate[who[l]] = {}
    BY <1>7 DEF Change
  <2>5. Entry
    BY <1>0, <2>1, <2>4
  <2>6. QED
    BY <2>2, <2>3, <2>5
<1>8. ASSUME NEW c \in Changes, Invalidate(c) PROVE Goal
  <2>1. UNCHANGED <<row, lookupPc, who, value, legit>>
    BY <1>8 DEF Invalidate
  <2>2. cache'[who[l]] = "miss" \/ (cache'[who[l]] = cache[who[l]]
                                     /\ (fate'[who[l]] = {} => fate[who[l]] = {}))
    BY <1>8 DEF Invalidate
  <2>3. Entry
    BY <1>0, <2>1, <2>2
  <2>4. QED
    BY <2>1, <2>3
<1>9. ASSUME NEW u \in Users, Expire(u) PROVE Goal
  <2>1. UNCHANGED <<row, lookupPc, who, value, legit>>
    BY <1>9 DEF Expire
  <2>2. cache'[who[l]] = "miss" \/ (cache'[who[l]] = cache[who[l]] /\ fate'[who[l]] = fate[who[l]])
    BY <1>9 DEF Expire
  <2>3. Entry
    BY <1>0, <2>1, <2>2
  <2>4. QED
    BY <2>1, <2>3
<1>10. CASE UNCHANGED memberVars
  BY <1>10 DEF memberVars
<1>11. QED
  BY <1>1, <1>2, <1>3, <1>4, <1>5, <1>6, <1>7, <1>8, <1>9, <1>10 DEF MemberNext, LookupStep

\* LegitInv in every reachable state.
LEMMA LegitAlways == MemberSpec => [](MemberTypeOK /\ LegitInv)
<1>1. MemberInit => ReadInv /\ CacheCoherent /\ LegitInv
  BY DEF MemberInit, ReadInv, CacheCoherent, LegitInv
<1>2. MemberTypeOK /\ ReadInv /\ [MemberNext]_memberVars => ReadInv'
  BY ReadStep
<1>3. QED
  BY <1>1, <1>2, LegitStep, Coherent, MembershipTyped, PTL DEF MemberSpec

\* Every request goes by a membership that was current while it was being
\* looked up, with the two exceptions above.
THEOREM RequestsCurrent == MemberSpec => []AdmitsCurrent
<1>1. LegitInv => AdmitsCurrent
  BY DEF LegitInv, AdmitsCurrent
<1>2. QED
  BY <1>1, LegitAlways, PTL

\* Nobody enters the organization's room who could not have been a member.
THEOREM JoinsCurrent == MemberSpec => OnlyMembersJoin
<1>1. MemberTypeOK /\ LegitInv /\ [MemberNext]_memberVars =>
        [\A u \in room' \ room : \E l \in Lookups : who[l] = u /\ legit[l] \cap Roles # {}]_memberVars
  <2> SUFFICES ASSUME MemberTypeOK, LegitInv, [MemberNext]_memberVars, NEW u \in room' \ room
               PROVE  \E l \in Lookups : who[l] = u /\ legit[l] \cap Roles # {}
    OBVIOUS
  <2>1. PICK l \in Lookups : Decide(l)
    BY DEF MemberNext, LookupStep, memberVars, BeginLookup, Get, Query, Set, Disconnect, Change, Invalidate, Expire
  <2>2. who[l] = u /\ Admits(value[l]) /\ lookupPc[l] = "decide"
    BY <2>1 DEF Decide
  <2>3. value[l] \in Roles /\ value[l] \in legit[l]
    BY <2>2 DEF Admits, MemberTypeOK, Rows, LegitInv
  <2>4. QED
    BY <2>2, <2>3
<1>2. QED
  BY <1>1, LegitAlways, PTL DEF MemberSpec, OnlyMembersJoin

-----------------------------------------------------------------------------
(* Content generation *)

\* Drafts are counted exactly: the insert and the deaths that follow it are the
\* only steps that move either side.
DraftInv == drafts \in Nat /\ lateDeaths \in Nat /\ DraftsExplained

LEMMA DraftStep == DraftInv /\ [GenNext]_genVars => DraftInv'
<1> SUFFICES ASSUME DraftInv, [GenNext]_genVars PROVE DraftInv'
  OBVIOUS
<1> USE DEF DraftInv, DraftsExplained
<1>q. ASSUME UNCHANGED <<drafts, lateDeaths>>, genPc \notin {"saved", "done"}, genPc' \notin {"saved", "done"}
      PROVE DraftInv'
  BY <1>q
<1>p. \A s \in Stages : StageAfter(s) \in Stages \cup {"save"}
  BY DEF StageAfter, Stages, StageOrder
<1>s. "saved" \notin Stages /\ "done" \notin Stages
  BY DEF Stages, StageOrder
<1>1. ASSUME NEW asJob \in BOOLEAN, NEW wanted \in SUBSET {"image", "video"}, Submit(asJob, wanted)
      PROVE DraftInv'
  BY <1>1, <1>q DEF Submit
<1>2. CASE BeginRun \/ BackoffEnds
  BY <1>2, <1>q DEF BeginRun, BackoffEnds
<1>3. ASSUME Throw, genPc \notin {"saved", "done"} PROVE DraftInv'
  BY <1>3, <1>q DEF Throw
<1>4. CASE CheckSwitch \/ Charge
  BY <1>4, <1>3, <1>q DEF CheckSwitch, Charge, Proceed
<1>5. CASE IoFails
  BY <1>5, <1>3 DEF IoFails
<1>6. CASE Save
  BY <1>6 DEF Save
<1>7. CASE Finish
  BY <1>7 DEF Finish, Proceed
<1>8. CASE WorkerDies
  BY <1>8, <1>s DEF WorkerDies, Running
<1>9. ASSUME NEW s \in Stages, NothingToAsk(s) \/ VendorHiccups(s) \/ VendorFails(s) PROVE DraftInv'
  BY <1>9, <1>p, <1>q, <1>s DEF NothingToAsk, VendorHiccups, VendorFails, Settle
<1>10. ASSUME NEW s \in Stages, NEW picked, VendorAnswers(s, picked) PROVE DraftInv'
  BY <1>10, <1>p, <1>q, <1>s, <1>3 DEF VendorAnswers, Settle
<1>11. CASE SetGenHalted \/ UNCHANGED genVars
  BY <1>11 DEF SetGenHalted, genVars
<1> QED
  BY <1>1, <1>2, <1>4, <1>5, <1>6, <1>7, <1>8, <1>9, <1>10, <1>11 DEF GenNext, GenStep

\* However often a job is retried or restarted, and whatever its vendors do, a
\* request has one draft if it finished and none if it failed, plus one for each
\* worker that died between the insert and the end of the job.
THEOREM DraftsAreCounted == GenSpec => []DraftsExplained
<1>1. GenInit => DraftInv
  BY DEF GenInit, DraftInv, DraftsExplained
<1>2. DraftInv => DraftsExplained
  BY DEF DraftInv
<1> QED BY <1>1, <1>2, DraftStep, PTL DEF GenSpec

-----------------------------------------------------------------------------
(* Invoice numbers *)

\* No number in use is above the one the counter gave out last.
NumberInv ==
    /\ counter \in Nat /\ taken \in [Makers -> Nat] /\ numbers \subseteq Nat
    /\ \A n \in numbers : n < counter + 2
    /\ \A m \in Makers : taken[m] < counter + 2
    /\ NumbersAreFree

LEMMA NumberStep == NumberInv /\ [BillNext]_billVars => NumberInv'
<1> SUFFICES ASSUME NumberInv, [BillNext]_billVars PROVE NumberInv'
  OBVIOUS
<1> USE DEF NumberInv, NumbersAreFree
<1>1. ASSUME NEW m \in Makers, TakeNumber(m) \/ TakeNumberForQuotation(m) PROVE NumberInv'
  <2>1. counter' = counter + 1 /\ numbers' = numbers /\ taken' = [taken EXCEPT ![m] = counter + 2]
    BY <1>1 DEF TakeNumber, TakeNumberForQuotation
  <2>2. counter' \in Nat /\ taken' \in [Makers -> Nat] /\ numbers' \subseteq Nat
    BY <2>1
  <2>3. /\ \A n \in numbers' : n < counter' + 2
        /\ \A k \in Makers : taken'[k] < counter' + 2
    BY <2>1
  <2>4. ASSUME NEW k \in Makers, taken'[k] # 0
        PROVE taken'[k] \notin numbers' /\ \A n \in Makers \ {k} : taken'[n] # taken'[k]
    <3>1. CASE k = m
      BY <2>1, <3>1
    <3>2. CASE k # m
      BY <2>1, <2>4, <3>2
    <3> QED BY <3>1, <3>2
  <2> QED BY <2>2, <2>3, <2>4
<1>2. ASSUME NEW m \in Makers, MakeInvoice(m) PROVE NumberInv'
  <2>1. /\ counter' = counter /\ numbers' = numbers \cup {taken[m]} /\ taken[m] # 0
        /\ taken' = [taken EXCEPT ![m] = 0]
    BY <1>2 DEF MakeInvoice
  <2>2. counter' \in Nat /\ taken' \in [Makers -> Nat] /\ numbers' \subseteq Nat
    BY <2>1
  <2>3. /\ \A n \in numbers' : n < counter' + 2
        /\ \A k \in Makers : taken'[k] < counter' + 2
    BY <2>1
  <2>4. ASSUME NEW k \in Makers, taken'[k] # 0
        PROVE taken'[k] \notin numbers' /\ \A n \in Makers \ {k} : taken'[n] # taken'[k]
    <3>1. k # m
      BY <2>1, <2>4
    <3>2. taken'[k] = taken[k] /\ taken[k] \notin numbers /\ \A n \in Makers \ {k} : taken[n] # taken[k]
      BY <2>1, <2>4, <3>1
    <3> QED BY <2>1, <2>4, <3>1, <3>2
  <2> QED BY <2>2, <2>3, <2>4
<1>3. ASSUME NEW m \in Makers, MakerFails(m) PROVE NumberInv'
  BY <1>3 DEF MakerFails
<1>4. CASE Paying
  <2>1. UNCHANGED numberVars
    BY <1>4 DEF Paying, ReadInvoice, Post, PayerFails, InsertPayment, SetStatus
  <2> QED BY <2>1 DEF numberVars
<1>5. CASE UNCHANGED billVars
  BY <1>5 DEF billVars, numberVars
<1> QED BY <1>1, <1>2, <1>3, <1>4, <1>5 DEF BillNext, Numbering

\* For any number of calls that make invoices at once, directly or from
\* quotations, none is given a number that is in use or on its way.
THEOREM NumbersNeverCollide == BillSpec => []NumbersAreFree
<1>1. BillInit => NumberInv
  BY DEF BillInit, NumberInv, NumbersAreFree
<1>2. NumberInv => NumbersAreFree
  BY DEF NumberInv
<1> QED BY <1>1, <1>2, NumberStep, PTL DEF BillSpec

-----------------------------------------------------------------------------
(* Documents *)

Writing == {"insert", "list", "replace"}    \* steps of a call that has a file
Holding == Writing \cup {"undo"}

DocShape ==
    /\ written \in Nat /\ files \subseteq 1..written
    /\ doc \in [version : Nat, file : Nat] /\ doc.file <= written
    /\ docPc \in [Uploaders -> DocSteps]
    /\ file \in [Uploaders -> Nat] /\ base \in [Uploaders -> Nat]

\* A call's file is its own: no other call holds it, the document does not have
\* it before the call wrote it, and does not have it when the call removes it,
\* unless the reply to that write was lost.
FilesAreOwned ==
    /\ \A c \in Uploaders : docPc[c] \in Holding => file[c] \in 1..written
    /\ \A c \in Uploaders : docPc[c] \in Writing => file[c] \in files /\ file[c] # doc.file
    /\ \A c \in Uploaders : docPc[c] = "undo" => file[c] # doc.file \/ file[c] \in unheard
    /\ \A c, d \in Uploaders :
        c # d /\ docPc[c] \in Holding /\ docPc[d] \in Holding => file[c] # file[d]

\* What a call is about to put in the document, it has listed.
ListedFirst ==
    \A c \in Uploaders :
        docPc[c] = "replace" => [version |-> base[c] + 1, file |-> file[c]] \in versions

DocInv == DocShape /\ FilesAreOwned /\ ListedFirst /\ DocumentHasFile /\ CurrentIsListed

LEMMA StoreStep ==
  ASSUME DocInv, NEW c \in Uploaders, StoreFile(c) \/ StoreFails(c)
  PROVE  DocInv'
<1> USE DEF DocInv, DocShape
<1>1. /\ written' = written + 1 /\ UNCHANGED <<doc, versions, base, unheard>>
      /\ files \subseteq files' /\ files' \subseteq files \cup {written + 1}
      /\ file' \in [Uploaders -> Nat]
      /\ \A d \in Uploaders : d # c => file'[d] = file[d] /\ docPc'[d] = docPc[d]
      /\ docPc'[c] \in {"insert", "list"} => file'[c] = written + 1 /\ written + 1 \in files'
      /\ docPc'[c] \in {"idle", "insert", "list"} /\ docPc' \in [Uploaders -> DocSteps]
  BY DEF StoreFile, StoreFails, DocGoto, DocSteps
<1>2. DocShape'
  BY <1>1
<1>3. FilesAreOwned'
  <2>1. \A d \in Uploaders \ {c} : docPc[d] \in Holding => file[d] \in 1..written
    BY DEF FilesAreOwned
  <2>2. \A d \in Uploaders : docPc'[d] \in Holding => file'[d] \in 1..written'
    BY <1>1, <2>1 DEF Holding, Writing
  <2>3. \A d \in Uploaders : docPc'[d] \in Writing => file'[d] \in files' /\ file'[d] # doc'.file
    BY <1>1 DEF FilesAreOwned, Writing
  <2>4. \A d \in Uploaders : docPc'[d] = "undo" => file'[d] # doc'.file \/ file'[d] \in unheard'
    BY <1>1 DEF FilesAreOwned
  <2>5. \A d, e \in Uploaders :
          d # e /\ docPc'[d] \in Holding /\ docPc'[e] \in Holding => file'[d] # file'[e]
    BY <1>1, <2>1 DEF FilesAreOwned, Holding, Writing
  <2> QED BY <2>2, <2>3, <2>4, <2>5 DEF FilesAreOwned
<1>4. ListedFirst'
  BY <1>1 DEF ListedFirst
<1>5. DocumentHasFile' /\ CurrentIsListed'
  BY <1>1 DEF DocumentHasFile, CurrentIsListed, NoDoc
<1> QED BY <1>2, <1>3, <1>4, <1>5

\* What a write leaves, heard of or not: nothing on disk moves, and the call's
\* file may now be the document's.
LEMMA DocWritten ==
  ASSUME DocInv, NEW c \in Uploaders, DocWrite(c)
  PROVE  /\ doc' \in [version : Nat, file : Nat] /\ versions \subseteq versions'
         /\ docPc[c] \in Writing
         /\ doc' = doc \/ doc'.file = file[c]
         /\ docPc[c] = "list" => /\ doc' = doc
                                 /\ [version |-> base[c] + 1, file |-> file[c]] \in versions'
         /\ CurrentIsListed'
<1> USE DEF DocInv, DocShape
<1>1. CASE InsertDocument(c)
  BY <1>1 DEF InsertDocument, CurrentIsListed, Writing
<1>2. CASE InsertVersion(c)
  BY <1>2 DEF InsertVersion, CurrentIsListed, Writing
<1>3. CASE ReplaceFile(c)
  BY <1>3 DEF ReplaceFile, CurrentIsListed, ListedFirst, Writing
<1> QED BY <1>1, <1>2, <1>3 DEF DocWrite

LEMMA RowStep ==
  ASSUME DocInv, NEW c \in Uploaders, WriteRow(c) \/ WriteFails(c)
  PROVE  DocInv'
<1> USE DEF DocInv, DocShape
<1>1. /\ UNCHANGED <<files, written, file, base>> /\ unheard \subseteq unheard'
      /\ docPc[c] \in Writing
      /\ \A d \in Uploaders : d # c => docPc'[d] = docPc[d]
      /\ docPc'[c] \in {"idle", "replace", "undo"} /\ docPc' \in [Uploaders -> DocSteps]
  BY DEF WriteRow, WriteFails, DocWrite, InsertDocument, InsertVersion, ReplaceFile, DocGoto, DocSteps, Writing
<1>2. /\ doc' \in [version : Nat, file : Nat] /\ versions \subseteq versions'
      /\ doc' = doc \/ doc'.file = file[c]
      /\ CurrentIsListed'
  <2>1. CASE DocWrite(c)
    BY <2>1, DocWritten
  <2>2. CASE UNCHANGED <<doc, versions>>
    BY <2>2 DEF CurrentIsListed
  <2> QED BY <2>1, <2>2 DEF WriteRow, WriteFails
<1>3. docPc'[c] = "replace" => doc' = doc /\ [version |-> base[c] + 1, file |-> file[c]] \in versions'
  <2>1. ASSUME docPc'[c] = "replace" PROVE DocWrite(c) /\ docPc[c] = "list"
    BY <2>1 DEF WriteRow, WriteFails, DocGoto
  <2> QED BY <2>1, DocWritten
<1>4. docPc'[c] = "undo" => doc' = doc \/ file[c] \in unheard'
  BY DEF WriteRow, WriteFails, DocGoto
<1>5. file[c] \in files /\ file[c] \in 1..written /\ file[c] # doc.file
  BY <1>1 DEF FilesAreOwned, Holding
<1>6. DocShape'
  BY <1>1, <1>2, <1>5
<1>7. FilesAreOwned'
  <2>1. \A d \in Uploaders : docPc'[d] \in Holding => docPc[d] \in Holding
    BY <1>1 DEF Holding
  <2>2. \A d \in Uploaders : d # c /\ docPc[d] \in Holding => file[d] # file[c]
    BY <1>1 DEF FilesAreOwned, Holding
  <2>3. \A d \in Uploaders : docPc'[d] \in Writing => file'[d] \in files' /\ file'[d] # doc'.file
    <3> SUFFICES ASSUME NEW d \in Uploaders, docPc'[d] \in Writing
                 PROVE  file'[d] \in files' /\ file'[d] # doc'.file
      OBVIOUS
    <3>1. CASE d = c
      BY <1>1, <1>3, <1>5, <3>1 DEF Writing
    <3>2. CASE d # c
      BY <1>1, <1>2, <2>2, <3>2 DEF FilesAreOwned, Holding
    <3> QED BY <3>1, <3>2
  <2>4. \A d \in Uploaders : docPc'[d] = "undo" => file'[d] # doc'.file \/ file'[d] \in unheard'
    <3> SUFFICES ASSUME NEW d \in Uploaders, docPc'[d] = "undo"
                 PROVE  file'[d] # doc'.file \/ file'[d] \in unheard'
      OBVIOUS
    <3>1. CASE d = c
      BY <1>1, <1>4, <1>5, <3>1
    <3>2. CASE d # c
      BY <1>1, <1>2, <2>2, <3>2 DEF FilesAreOwned, Holding
    <3> QED BY <3>1, <3>2
  <2>5. \A d \in Uploaders : docPc'[d] \in Holding => file'[d] \in 1..written'
    BY <1>1, <2>1 DEF FilesAreOwned
  <2>6. \A d, e \in Uploaders :
          d # e /\ docPc'[d] \in Holding /\ docPc'[e] \in Holding => file'[d] # file'[e]
    BY <1>1, <2>1 DEF FilesAreOwned
  <2> QED BY <2>3, <2>4, <2>5, <2>6 DEF FilesAreOwned
<1>8. ListedFirst'
  BY <1>1, <1>2, <1>3 DEF ListedFirst
<1>9. DocumentHasFile'
  BY <1>1, <1>2, <1>5 DEF DocumentHasFile, NoDoc
<1> QED BY <1>2, <1>6, <1>7, <1>8, <1>9

LEMMA UndoStep ==
  ASSUME DocInv, NEW c \in Uploaders, Undo(c)
  PROVE  DocInv'
<1> USE DEF DocInv, DocShape
<1>1. /\ UNCHANGED <<written, doc, versions, file, base, unheard>>
      /\ docPc[c] = "undo" /\ docPc'[c] = "idle" /\ docPc' \in [Uploaders -> DocSteps]
      /\ \A d \in Uploaders : d # c => docPc'[d] = docPc[d]
      /\ files' \subseteq files /\ \A f \in files : f # file[c] => f \in files'
  BY DEF Undo, DocGoto, DocSteps
<1>2. DocShape' /\ ListedFirst' /\ CurrentIsListed'
  BY <1>1 DEF ListedFirst, CurrentIsListed
<1>3. FilesAreOwned'
  BY <1>1 DEF FilesAreOwned, Holding, Writing
<1>4. DocumentHasFile'
  BY <1>1 DEF DocumentHasFile, FilesAreOwned
<1> QED BY <1>2, <1>3, <1>4

LEMMA DocStep == DocInv /\ [DocNext]_docVars => DocInv'
<1> SUFFICES ASSUME DocInv, [DocNext]_docVars PROVE DocInv'
  OBVIOUS
<1>1. ASSUME NEW c \in Uploaders, Upload(c) \/ NewVersion(c) PROVE DocInv'
  <2>1. /\ UNCHANGED <<files, written, doc, versions, file, unheard>>
        /\ base' \in [Uploaders -> Nat] /\ docPc' \in [Uploaders -> DocSteps]
        /\ docPc'[c] \in {"upload", "newVersion"}
        /\ \A d \in Uploaders : d # c => docPc'[d] = docPc[d] /\ base'[d] = base[d]
    BY <1>1 DEF Upload, NewVersion, DocGoto, DocSteps, DocInv, DocShape
  <2> QED
    BY <2>1 DEF DocInv, DocShape, FilesAreOwned, ListedFirst, DocumentHasFile, CurrentIsListed,
                Holding, Writing
<1>2. CASE DeleteDocument
  <2>1. UNCHANGED <<files, written, versions, docPc, file, base, unheard>> /\ doc' = NoDoc
    BY <1>2 DEF DeleteDocument, callDocVars
  <2>2. NoDoc \in [version : Nat, file : Nat] /\ NoDoc.file = 0 /\ NoDoc.version = 0
    BY DEF NoDoc
  <2>3. DocShape' /\ ListedFirst' /\ DocumentHasFile' /\ CurrentIsListed'
    BY <2>1, <2>2 DEF DocInv, DocShape, ListedFirst, DocumentHasFile, CurrentIsListed
  <2>4. FilesAreOwned'
    BY <2>1, <2>2 DEF DocInv, DocShape, FilesAreOwned, Holding, Writing
  <2> QED BY <2>3, <2>4 DEF DocInv
<1>3. CASE DocCrash
  <2>1. /\ UNCHANGED <<files, written, doc, versions, file, base, unheard>>
        /\ docPc' = [c \in Uploaders |-> "idle"]
    BY <1>3 DEF DocCrash
  <2> QED
    BY <2>1 DEF DocInv, DocShape, FilesAreOwned, ListedFirst, DocumentHasFile, CurrentIsListed,
                Holding, Writing, DocSteps
<1>4. CASE UNCHANGED docVars
  BY <1>4 DEF docVars, callDocVars, DocInv, DocShape, FilesAreOwned, ListedFirst, DocumentHasFile, CurrentIsListed
<1> QED BY <1>1, <1>2, <1>3, <1>4, StoreStep, RowStep, UndoStep DEF DocNext

LEMMA DocInvHolds == DocSpec => []DocInv
<1>1. DocInit => DocInv
  BY DEF DocInit, DocInv, DocShape, FilesAreOwned, ListedFirst, DocumentHasFile, CurrentIsListed,
         NoDoc, Holding, Writing, DocSteps
<1> QED BY <1>1, DocStep, PTL DEF DocSpec

\* For any number of calls and files, whatever fails or dies between the disk
\* and the database, a document's file is on disk unless a write that was
\* reported as failed had taken effect.
THEOREM DocumentsHaveFiles == DocSpec => []DocumentHasFile
<1>1. DocInv => DocumentHasFile
  BY DEF DocInv
<1> QED BY <1>1, DocInvHolds, PTL

\* A document past its first version has the file and number of a version row.
THEOREM VersionsAreListed == DocSpec => []CurrentIsListed
<1>1. DocInv => CurrentIsListed
  BY DEF DocInv
<1> QED BY <1>1, DocInvHolds, PTL

\* The row, the disk and the list of versions agree on the document's file, for
\* any number of calls and files: the two theorems above together.
THEOREM DocumentsAreWhole == DocSpec => []DocumentIsWhole
BY DocumentsHaveFiles, VersionsAreListed, PTL DEF DocumentIsWhole

-----------------------------------------------------------------------------
(* The scraper *)

\* A page is requested only after the rules of its origin have been asked; they
\* are kept as "none" only where a load has failed; and a URL that was taken is
\* recorded or in the hands of a worker.
MayRead(p) == p \in Disallowed => Origin[p] \in ruleless

RobotsInv ==
    /\ \A p \in textRead : MayRead(p)
    /\ \A w \in Workers : At_(w, "request") => MayRead(fetch[w].page)
    /\ \A o \in Origins : robotsCache[o] = "none" => o \in ruleless

InTheirHands(w, u) == ~At_(w, "idle") /\ fetch[w].url = u

TakenInv == \A u \in 1..cursor : outcome[u] # "none" \/ \E w \in Workers : InTheirHands(w, u)

LEMMA ScrapeTypes == ScrapeTypeOK /\ [ScrapeNext]_scrapeVars => ScrapeTypeOK'
<1> SUFFICES ASSUME ScrapeTypeOK, [ScrapeNext]_scrapeVars PROVE ScrapeTypeOK'
  OBVIOUS
<1> USE ScrapingAssumption DEF ScrapeTypeOK
<1>0. ASSUME NEW w \in Workers, fetch[w] # Idle
      PROVE  /\ fetch[w] \in Fetches /\ Origin[fetch[w].page] \in Origins
             /\ \A step \in {"check", "robots", "load", "request"} : [fetch[w] EXCEPT !.at = step] \in Fetches
  BY <1>0 DEF Fetches, Origins
<1>1. ASSUME NEW w \in Workers, Take(w) PROVE ScrapeTypeOK'
  <2>1. PICK p \in Pages : fetch' = [fetch EXCEPT ![w] = [at |-> "check", url |-> cursor + 1, page |-> p, hop |-> 0]]
    BY <1>1 DEF Take
  <2>2. [at |-> "check", url |-> cursor + 1, page |-> p, hop |-> 0] \in Fetches
    BY <1>1 DEF Take, Fetches
  <2> QED BY <1>1, <2>1, <2>2 DEF Take
<1>2. ASSUME NEW w \in Workers, NEW r \in {"page", "skipped"}, fetch[w] # Idle, Record(w, r)
      PROVE outcome' \in [1..MaxUrls -> {"none", "page", "skipped"}] /\ fetch' \in [Workers -> {Idle} \cup Fetches]
  BY <1>2, <1>0 DEF Record, Fetches
<1>3. ASSUME NEW w \in Workers, NEW step \in {"check", "robots", "load", "request"}, fetch[w] # Idle, Goto(w, step)
      PROVE fetch' \in [Workers -> {Idle} \cup Fetches]
  BY <1>3, <1>0 DEF Goto
<1>4. ASSUME NEW w \in Workers, CheckAddress(w) \/ RobotsAllows(w) PROVE ScrapeTypeOK'
  <2>1. fetch[w] # Idle
    BY <1>4 DEF CheckAddress, RobotsAllows, At_, Idle
  <2> QED BY <1>4, <2>1, <1>2, <1>3 DEF CheckAddress, RobotsAllows
<1>5. ASSUME NEW w \in Workers, LoadRobots(w) PROVE ScrapeTypeOK'
  <2>1. fetch[w] # Idle
    BY <1>5 DEF LoadRobots, At_, Idle
  <2> QED BY <1>5, <2>1, <1>0, <1>3 DEF LoadRobots
<1>6. ASSUME NEW w \in Workers, Redirect(w) PROVE ScrapeTypeOK'
  <2>0. fetch[w].at = "request"
    BY <1>6 DEF Redirect, At_
  <2>1. fetch[w] # Idle
    BY <2>0 DEF Idle
  <2>2. CASE fetch[w].hop = MaxRedirects /\ Record(w, "skipped")
    BY <1>6, <2>1, <2>2, <1>2 DEF Redirect
  <2>3. ASSUME fetch[w].hop < MaxRedirects, NEW p \in Pages,
               fetch' = [fetch EXCEPT ![w].at = "check", ![w].page = p, ![w].hop = @ + 1], UNCHANGED outcome
        PROVE ScrapeTypeOK'
    <3>1. [fetch[w] EXCEPT !.at = "check", !.page = p, !.hop = @ + 1] \in Fetches
      BY <2>1, <2>3, <1>0 DEF Fetches
    <3> QED BY <1>6, <2>3, <3>1 DEF Redirect
  <2> QED BY <1>6, <2>2, <2>3 DEF Redirect
<1>7. ASSUME NEW w \in Workers, Response(w) PROVE ScrapeTypeOK'
  <2>1. fetch[w] # Idle
    BY <1>7 DEF Response, At_, Idle
  <2>2. fetch[w].page \in Pages
    BY <2>1, <1>0 DEF Fetches
  <2> QED BY <1>7, <2>1, <2>2, <1>2 DEF Response
<1>8. CASE UNCHANGED scrapeVars
  BY <1>8 DEF scrapeVars
<1> QED
  BY <1>1, <1>4, <1>5, <1>6, <1>7, <1>8 DEF ScrapeNext

LEMMA RobotsStep == ScrapeTypeOK /\ RobotsInv /\ [ScrapeNext]_scrapeVars => RobotsInv'
<1> SUFFICES ASSUME ScrapeTypeOK, RobotsInv, [ScrapeNext]_scrapeVars PROVE RobotsInv'
  OBVIOUS
<1> USE ScrapingAssumption DEF ScrapeTypeOK, RobotsInv, MayRead, At_
<1>1. ASSUME NEW w \in Workers, Take(w) \/ CheckAddress(w) \/ Redirect(w), UNCHANGED <<robotsCache, textRead, ruleless>>
      PROVE RobotsInv'
  <2>1. \A v \in Workers : v # w => fetch'[v] = fetch[v]
    BY <1>1 DEF Take, CheckAddress, Redirect, Record, Goto
  <2>2. fetch[w] # Idle => fetch[w] \in Fetches
    OBVIOUS
  <2>3. fetch'[w].at # "request"
    <3>1. ASSUME Take(w) PROVE fetch'[w].at # "request"
      <4>1. PICK p \in Pages : fetch' = [fetch EXCEPT ![w] = [at |-> "check", url |-> cursor + 1, page |-> p, hop |-> 0]]
        BY <3>1 DEF Take
      <4>2. fetch'[w] = [at |-> "check", url |-> cursor + 1, page |-> p, hop |-> 0]
        BY <4>1
      <4> QED BY <4>2
    <3>2. ASSUME CheckAddress(w) PROVE fetch'[w].at # "request"
      <4>1. fetch'[w] = Idle \/ fetch'[w] = [fetch[w] EXCEPT !.at = "robots"]
        BY <3>2 DEF CheckAddress, Record, Goto
      <4>2. fetch[w] \in Fetches
        BY <2>2, <3>2 DEF CheckAddress, Idle
      <4> QED BY <4>1, <4>2 DEF Idle, Fetches
    <3>3. ASSUME Redirect(w) PROVE fetch'[w].at # "request"
      <4>1. fetch[w].at = "request"
        BY <3>3 DEF Redirect
      <4>2. fetch[w] \in Fetches
        BY <2>2, <4>1 DEF Idle
      <4>3. fetch'[w] = Idle \/ \E p \in Pages : fetch'[w] = [fetch[w] EXCEPT !.at = "check", !.page = p, !.hop = @ + 1]
        BY <3>3 DEF Redirect, Record
      <4>4. CASE fetch'[w] = Idle
        BY <4>4 DEF Idle
      <4>5. ASSUME NEW p \in Pages, fetch'[w] = [fetch[w] EXCEPT !.at = "check", !.page = p, !.hop = @ + 1]
            PROVE fetch'[w].at # "request"
        <5>1. fetch'[w].at = "check"
          BY <4>2, <4>5 DEF Fetches
        <5> QED BY <5>1
      <4> QED BY <4>3, <4>4, <4>5
    <3> QED BY <1>1, <3>1, <3>2, <3>3
  <2> QED BY <1>1, <2>1, <2>3
<1>2. ASSUME NEW w \in Workers, RobotsAllows(w) PROVE RobotsInv'
  <2>1. UNCHANGED <<robotsCache, textRead, ruleless>> /\ \A v \in Workers : v # w => fetch'[v] = fetch[v]
    BY <1>2 DEF RobotsAllows, Record, Goto
  <2>2. ASSUME fetch'[w].at = "request" PROVE fetch'[w].page = fetch[w].page /\ MayRead(fetch[w].page)
    <3>1. fetch[w] \in Fetches
      BY <1>2 DEF RobotsAllows, Idle
    <3>2. robotsCache[Origin[fetch[w].page]] # "unknown" /\ ~Disallows(w) /\ Goto(w, "request")
      BY <1>2, <2>2, <3>1 DEF RobotsAllows, Record, Goto, Idle, Fetches
    <3>3. robotsCache[Origin[fetch[w].page]] \in {"rules", "none"} /\ Origin[fetch[w].page] \in Origins
      BY <3>1, <3>2 DEF Fetches, Origins
    <3> QED BY <3>1, <3>2, <3>3 DEF Goto, Fetches, Disallows
  <2> QED BY <2>1, <2>2
<1>3. ASSUME NEW w \in Workers, LoadRobots(w) PROVE RobotsInv'
  <2>1. PICK reply \in {"rules", "none"} :
          /\ robotsCache' = [robotsCache EXCEPT ![Origin[fetch[w].page]] = reply]
          /\ ruleless' = IF reply = "none" THEN ruleless \cup {Origin[fetch[w].page]} ELSE ruleless
    BY <1>3 DEF LoadRobots
  <2>2. ruleless \subseteq ruleless' /\ UNCHANGED textRead
    BY <1>3, <2>1 DEF LoadRobots
  <2>3. fetch'[w].at # "request" /\ \A v \in Workers : v # w => fetch'[v] = fetch[v]
    BY <1>3 DEF LoadRobots, Goto, Idle, Fetches
  <2>4. \A o \in Origins : robotsCache'[o] = "none" => o \in ruleless'
    BY <2>1
  <2> QED BY <2>2, <2>3, <2>4
<1>4. ASSUME NEW w \in Workers, Response(w) PROVE RobotsInv'
  <2>1. UNCHANGED <<robotsCache, ruleless>> /\ textRead' \subseteq textRead \cup {fetch[w].page} /\ fetch' = [fetch EXCEPT ![w] = Idle]
    BY <1>4 DEF Response, Record
  <2>2. fetch'[w].at # "request" /\ MayRead(fetch[w].page)
    BY <1>4, <2>1 DEF Response, Idle
  <2> QED BY <2>1, <2>2
<1>5. CASE UNCHANGED scrapeVars
  BY <1>5 DEF scrapeVars
<1> QED
  BY <1>1, <1>2, <1>3, <1>4, <1>5 DEF ScrapeNext, Take, CheckAddress, Redirect

LEMMA TakenStep == ScrapeTypeOK /\ TakenInv /\ [ScrapeNext]_scrapeVars => TakenInv'
<1> SUFFICES ASSUME ScrapeTypeOK, TakenInv, [ScrapeNext]_scrapeVars PROVE TakenInv'
  OBVIOUS
<1> USE ScrapingAssumption DEF ScrapeTypeOK, TakenInv, InTheirHands, At_
<1>1. ASSUME NEW w \in Workers, Take(w) PROVE TakenInv'
  <2>1. /\ fetch[w].at = "idle" /\ cursor' = cursor + 1 /\ UNCHANGED outcome
        /\ fetch'[w].at = "check" /\ fetch'[w].url = cursor + 1 /\ \A v \in Workers : v # w => fetch'[v] = fetch[v]
    BY <1>1 DEF Take
  <2> QED BY <2>1, SMTT(30)
<1>2. ASSUME NEW w \in Workers, NEW r \in {"page", "skipped"}, Record(w, r), UNCHANGED cursor, fetch[w] # Idle PROVE TakenInv'
  <2>1. fetch[w].url \in 1..MaxUrls
    BY <1>2 DEF Fetches
  <2>2. outcome' = [outcome EXCEPT ![fetch[w].url] = r] /\ \A v \in Workers : v # w => fetch'[v] = fetch[v]
    BY <1>2 DEF Record
  <2>3. ASSUME NEW u \in 1..cursor', outcome'[u] = "none" PROVE \E v \in Workers : InTheirHands(v, u)'
    <3>1. u # fetch[w].url /\ outcome[u] = "none" /\ u \in 1..cursor
      BY <1>2, <2>1, <2>2, <2>3
    <3> QED BY <2>2, <3>1
  <2> QED BY <2>3
<1>3. ASSUME NEW w \in Workers, fetch[w].at # "idle", fetch'[w].at # "idle", fetch'[w].url = fetch[w].url,
             \A v \in Workers : v # w => fetch'[v] = fetch[v], UNCHANGED <<cursor, outcome>> PROVE TakenInv'
  BY <1>3
<1>4. ASSUME NEW w \in Workers, NEW step \in {"robots", "load", "request"}, Goto(w, step), fetch[w] # Idle, UNCHANGED <<cursor, outcome>>
      PROVE TakenInv'
  <2>1. fetch[w] \in Fetches
    BY <1>4
  <2>2. fetch'[w] = [fetch[w] EXCEPT !.at = step] /\ \A v \in Workers : v # w => fetch'[v] = fetch[v]
    BY <1>4 DEF Goto
  <2>3. fetch[w].at # "idle" /\ fetch'[w].at # "idle" /\ fetch'[w].url = fetch[w].url
    BY <2>1, <2>2 DEF Fetches
  <2> QED BY <1>3, <1>4, <2>2, <2>3
<1>5. ASSUME NEW w \in Workers, CheckAddress(w) \/ RobotsAllows(w) \/ LoadRobots(w) \/ Response(w) PROVE TakenInv'
  <2>1. fetch[w] # Idle
    BY <1>5 DEF CheckAddress, RobotsAllows, LoadRobots, Response, Idle
  <2> QED BY <1>2, <1>4, <1>5, <2>1 DEF CheckAddress, RobotsAllows, LoadRobots, Response
<1>6. ASSUME NEW w \in Workers, Redirect(w) PROVE TakenInv'
  <2>0. fetch[w].at = "request" /\ UNCHANGED cursor
    BY <1>6 DEF Redirect
  <2>1. fetch[w] # Idle /\ fetch[w] \in Fetches
    BY <2>0 DEF Idle
  <2>2. CASE Record(w, "skipped")
    BY <1>2, <2>0, <2>1, <2>2
  <2>3. ASSUME NEW p \in Pages, fetch' = [fetch EXCEPT ![w].at = "check", ![w].page = p, ![w].hop = @ + 1], UNCHANGED outcome
        PROVE TakenInv'
    <3>1. fetch[w].at # "idle" /\ fetch'[w].at # "idle" /\ fetch'[w].url = fetch[w].url
      BY <2>1, <2>3 DEF Fetches
    <3>2. \A v \in Workers : v # w => fetch'[v] = fetch[v]
      BY <2>3
    <3> QED BY <1>3, <2>0, <2>3, <3>1, <3>2
  <2> QED BY <1>6, <2>2, <2>3 DEF Redirect
<1>7. CASE UNCHANGED scrapeVars
  BY <1>7 DEF scrapeVars
<1> QED
  BY <1>1, <1>5, <1>6, <1>7 DEF ScrapeNext

\* For any number of workers, pages and redirects, however they are interleaved:
\* no disallowed page is read unless a load of its rules has failed, and every URL
\* is accounted for when the call ends.
THEOREM RobotsAreRespected == ScrapeSpec => []RobotsRespected
<1>1. ScrapeInit => ScrapeTypeOK /\ RobotsInv /\ TakenInv
  BY ScrapingAssumption DEF ScrapeInit, ScrapeTypeOK, RobotsInv, TakenInv, At_, Idle, Origins, MayRead
<1>2. ScrapeTypeOK /\ RobotsInv /\ TakenInv => RobotsRespected
  BY ScrapingAssumption DEF ScrapeTypeOK, RobotsInv, TakenInv, RobotsRespected, MayRead, InTheirHands
<1> QED BY <1>1, <1>2, ScrapeTypes, RobotsStep, TakenStep, PTL DEF ScrapeSpec

-----------------------------------------------------------------------------
(* The palette *)

PaletteTypes ==
    /\ typed \in Texts \cup {EmptyBox} /\ timer \in {EmptyBox, typed} /\ firm \in Firms
    /\ \A s \in sought : s.text \in Texts

\* As long as nothing has crossed, one search at most is on its way, it is for the
\* text in the box, and no timer runs.
PaletteInv ==
    /\ PaletteTypes /\ PaletteShowsQuery
    /\ "crossed" \notin cause =>
        /\ \A s, t \in sought : s = t
        /\ \A s \in sought : s.text = typed
        /\ sought # {} => timer = EmptyBox
    /\ "switched" \notin cause => \A s \in sought : s.firm = firm

LEMMA PaletteStep == PaletteInv /\ [OverlaysNext]_overlayVars => PaletteInv'
<1> SUFFICES ASSUME PaletteInv, [OverlaysNext]_overlayVars PROVE PaletteInv'
  OBVIOUS
<1> USE OverlaysAssumption DEF PaletteInv, PaletteTypes, PaletteShowsQuery
<1>1. ASSUME NEW q \in Texts \cup {EmptyBox}, Type(q) PROVE PaletteInv'
  <2>1. /\ typed' = q /\ timer' = q /\ results' = IF q = EmptyBox THEN NoList ELSE results
        /\ UNCHANGED <<firm, sought, loading>>
    BY <1>1 DEF Type, TimerAfter
  <2>2. CASE sought # {}
    <3>1. cause' = cause \cup {"crossed"}
      BY <1>1, <2>2 DEF Type
    <3> QED BY <2>1, <2>2, <3>1 DEF NoList
  <2>3. CASE sought = {} /\ q = EmptyBox
    <3>1. cause' = {}
      BY <1>1, <2>3 DEF Type
    <3> QED BY <2>1, <2>3, <3>1 DEF NoList
  <2>4. CASE sought = {} /\ q # EmptyBox
    BY <2>1, <2>4
  <2> QED BY <2>2, <2>3, <2>4
<1>2. CASE Search
  <2> DEFINE s == [nr |-> searches + 1, text |-> timer, firm |-> firm]
  <2>1. /\ timer # EmptyBox /\ timer' = EmptyBox /\ sought' = sought \cup {s} /\ loading' = TRUE
        /\ cause' = IF sought = {} THEN {} ELSE cause
        /\ UNCHANGED <<typed, firm, results>>
    BY <1>2 DEF Search
  <2>2. s.text = typed /\ s.text \in Texts /\ s.firm = firm
    BY <2>1
  <2> HIDE DEF s
  <2>3. CASE sought = {}
    BY <2>1, <2>2, <2>3
  <2>4. CASE sought # {}
    <3>1. "crossed" \in cause'
      BY <2>1, <2>4
    <3> QED BY <2>1, <2>2, <2>4, <3>1
  <2> QED BY <2>3, <2>4
<1>3. ASSUME NEW s \in sought, ListArrives(s) PROVE PaletteInv'
  <2>1. /\ sought' = sought \ {s} /\ loading' = FALSE /\ results' = Found(s.text, s.firm)
        /\ UNCHANGED <<typed, timer, firm, cause>>
    BY <1>3 DEF ListArrives
  <2>2. CASE "crossed" \in cause
    BY <2>1, <2>2
  <2>3. CASE "crossed" \notin cause
    <3>1. sought' = {} /\ s.text = typed /\ typed # EmptyBox
      BY <2>1, <2>3
    <3>2. cause = {} => s.firm = firm
      BY <2>3
    <3> QED BY <2>1, <2>3, <3>1, <3>2
  <2> QED BY <2>2, <2>3
<1>4. ASSUME NEW s \in sought, SearchFails(s) PROVE PaletteInv'
  <2>1. /\ sought' = sought \ {s} /\ loading' = FALSE /\ cause' = cause \cup {"failed"}
        /\ UNCHANGED <<typed, timer, firm, results>>
    BY <1>4 DEF SearchFails
  <2>2. CASE "crossed" \in cause
    BY <2>1, <2>2
  <2>3. CASE "crossed" \notin cause
    <3>1. sought' = {}
      BY <2>1, <2>3
    <3> QED BY <2>1, <2>3, <3>1
  <2> QED BY <2>2, <2>3
<1>5. ASSUME NEW f \in Firms, ChooseFirm(f) PROVE PaletteInv'
  <2>1. /\ firm' = f /\ cause' = IF results = NoList /\ sought = {} THEN cause ELSE cause \cup {"switched"}
        /\ UNCHANGED <<typed, timer, sought, results, loading>>
    BY <1>5 DEF ChooseFirm
  <2>2. CASE results = NoList /\ sought = {}
    <3>1. typed # EmptyBox => results # Found(typed, firm)
      BY <2>2 DEF NoList, Found
    <3> QED BY <2>1, <2>2, <3>1
  <2>3. CASE ~(results = NoList /\ sought = {})
    BY <2>1, <2>3
  <2> QED BY <2>2, <2>3
<1>6. ASSUME UNCHANGED paletteVars PROVE PaletteInv'
  BY <1>6 DEF paletteVars, Found, NoList
<1> QED
  BY <1>1, <1>2, <1>3, <1>4, <1>5, <1>6 DEF OverlaysNext, PaletteNext, ToastNext, overlayVars

LEMMA PaletteInitially == OverlaysInit => PaletteInv
<1>1. Firms # {} => (CHOOSE f \in Firms : TRUE) \in Firms
  OBVIOUS
<1> QED BY <1>1, OverlaysAssumption DEF OverlaysInit, PaletteInv, PaletteTypes, PaletteShowsQuery

\* When nothing is on its way the palette lists what is found for its text, and the
\* spinner is right, unless one of the causes the model names has occurred.
THEOREM PaletteIsRight == OverlaysSpec => []PaletteShowsQuery
<1>1. PaletteInv => PaletteShowsQuery
  BY DEF PaletteInv
<1> QED BY <1>1, PaletteInitially, PaletteStep, PTL DEF OverlaysSpec

-----------------------------------------------------------------------------
(* The toasts *)

\* The number a toast is dismissed by is its own: nextId never goes back.
ToastInv ==
    /\ pushed \in Nat
    /\ toasts \subseteq ticking
    /\ \A t \in ticking : t = [id |-> t.nr, nr |-> t.nr] /\ t.nr \in 1..pushed
    /\ listening \in BOOLEAN /\ (~listening => onScreen = {})
    /\ ToastsLastTheirTime

LEMMA ToastStep == ToastInv /\ [OverlaysNext]_overlayVars => ToastInv'
<1> SUFFICES ASSUME ToastInv, [OverlaysNext]_overlayVars PROVE ToastInv'
  OBVIOUS
<1> USE OverlaysAssumption DEF ToastInv, ToastsLastTheirTime
<1>1. CASE Push
  <2> DEFINE t == [id |-> pushed + 1, nr |-> pushed + 1]
  <2>1. /\ toasts' = toasts \cup {t} /\ ticking' = ticking \cup {t} /\ owed' = owed \cup {t.nr}
        /\ pushed' = pushed + 1 /\ onScreen' = (IF listening THEN toasts' ELSE onScreen) /\ UNCHANGED listening
    BY <1>1 DEF Push, NextId, Emit
  <2>2. t = [id |-> t.nr, nr |-> t.nr] /\ t.nr = pushed + 1
    OBVIOUS
  <2> HIDE DEF t
  <2>3. \A u \in ticking' : u = [id |-> u.nr, nr |-> u.nr] /\ u.nr \in 1..pushed'
    BY <2>1, <2>2
  <2>4. {u.nr : u \in toasts'} = owed'
    BY <2>1
  <2> QED BY <2>1, <2>3, <2>4
<1>2. ASSUME NEW t \in ticking, Dismiss(t.id), owed' = owed \ {t.nr}, ticking' = ticking \/ ticking' = ticking \ {t},
             UNCHANGED <<listening, pushed>>
      PROVE ToastInv'
  <2>1. toasts' = {u \in toasts : u.id # t.id} /\ onScreen' = IF listening THEN toasts' ELSE onScreen
    BY <1>2 DEF Dismiss, Emit
  <2>2. \A u \in ticking : u.id = t.id <=> u.nr = t.nr
    OBVIOUS
  <2>3. t \notin toasts'
    BY <2>1
  <2>4. toasts' \subseteq ticking'
    BY <1>2, <2>1, <2>3
  <2>5. {u.nr : u \in toasts'} = owed'
    BY <1>2, <2>1, <2>2
  <2> QED BY <1>2, <2>1, <2>4, <2>5
<1>3. ASSUME NEW t \in onScreen, Close(t) PROVE ToastInv'
  <2>1. t \in ticking
    OBVIOUS
  <2> QED BY <1>2, <1>3, <2>1 DEF Close
<1>4. ASSUME NEW t \in ticking, TimeIsOver(t) PROVE ToastInv'
  BY <1>2, <1>4 DEF TimeIsOver
<1>5. CASE Subscribe
  BY <1>5 DEF Subscribe
<1>6. ASSUME UNCHANGED toastVars PROVE ToastInv'
  BY <1>6 DEF toastVars
<1> QED
  BY <1>1, <1>3, <1>4, <1>5, <1>6 DEF OverlaysNext, PaletteNext, ToastNext, overlayVars

LEMMA ToastInitially == OverlaysInit => ToastInv
<1> SUFFICES ASSUME OverlaysInit PROVE ToastInv
  OBVIOUS
<1>1. toasts = {} /\ ticking = {} /\ onScreen = {} /\ owed = {} /\ pushed = 0 /\ listening = FALSE
  BY DEF OverlaysInit
<1>2. {t.nr : t \in toasts} = {}
  BY <1>1
<1> QED BY <1>1, <1>2 DEF ToastInv, ToastsLastTheirTime

\* However many toasts come and go, each stays until its own timer or a click ends
\* it, and the Toaster shows them all.
THEOREM ToastsStay == OverlaysSpec => []ToastsLastTheirTime
<1>1. ToastInv => ToastsLastTheirTime
  BY DEF ToastInv
<1> QED BY <1>1, ToastInitially, ToastStep, PTL DEF OverlaysSpec

-----------------------------------------------------------------------------
(* Planning: one plan a day, and the prompts people have written *)

\* The awaited steps of the calls.
Awaits == {"look", "upsert", "get", "write", "find", "owner", "create", "task", "due", "planned", "agent", "start"}

\* What is left of the call c from its n-th step on.
Rest(c, n) == SubSeq(c, n, Len(c))

\* What any call may have left.
Left == UNION {{Rest(c, n) : n \in 1..(Len(c) + 1)} : c \in CallKinds}

\* Two sequences of awaits, one after the other.
LEMMA Joined ==
    ASSUME NEW s \in Seq(Awaits), NEW t \in Seq(Awaits), NEW u, u = s \o t
    PROVE  /\ u \in Seq(Awaits) /\ Len(u) = Len(s) + Len(t)
           /\ \A i \in 1..Len(s) + Len(t) : u[i] = IF i <= Len(s) THEN s[i] ELSE t[i - Len(s)]
  BY ConcatProperties

\* The steps of each call, one by one.
LEMMA StepsOfCalls ==
    /\ Ensure \in Seq(Awaits) /\ Len(Ensure) = 2 /\ Ensure[1] = "look" /\ Ensure[2] = "upsert"
    /\ Edit \in Seq(Awaits) /\ Len(Edit) = 2 /\ Edit[1] = "get" /\ Edit[2] = "write"
    /\ OpsProject \in Seq(Awaits) /\ Len(OpsProject) = 3
       /\ OpsProject[1] = "find" /\ OpsProject[2] = "owner" /\ OpsProject[3] = "create"
    /\ Directive \in Seq(Awaits) /\ Len(Directive) = 6
       /\ Directive[1] = "look" /\ Directive[2] = "upsert" /\ Directive[3] = "find"
       /\ Directive[4] = "owner" /\ Directive[5] = "create" /\ Directive[6] = "task"
    /\ RunDailyPlan \in Seq(Awaits) /\ Len(RunDailyPlan) = 4
       /\ RunDailyPlan[1] = "look" /\ RunDailyPlan[2] = "upsert"
       /\ RunDailyPlan[3] = "agent" /\ RunDailyPlan[4] = "start"
    /\ DailyTick \in Seq(Awaits) /\ Len(DailyTick) = 8
       /\ DailyTick[1] = "due" /\ DailyTick[2] = "look" /\ DailyTick[3] = "upsert" /\ DailyTick[4] = "planned"
       /\ DailyTick[5] = "look" /\ DailyTick[6] = "upsert" /\ DailyTick[7] = "agent" /\ DailyTick[8] = "start"
<1>1. Ensure \in Seq(Awaits) /\ Len(Ensure) = 2 /\ Ensure[1] = "look" /\ Ensure[2] = "upsert"
  BY DEF Ensure, Awaits
<1>2. Edit \in Seq(Awaits) /\ Len(Edit) = 2 /\ Edit[1] = "get" /\ Edit[2] = "write"
  BY DEF Edit, Awaits
<1>3. OpsProject \in Seq(Awaits) /\ Len(OpsProject) = 3
      /\ OpsProject[1] = "find" /\ OpsProject[2] = "owner" /\ OpsProject[3] = "create"
  BY DEF OpsProject, Awaits
<1> DEFINE theTask == <<"task">>
            due == <<"due">>
            planned == <<"planned">>
            run == <<"agent", "start">>
<1>4. /\ theTask \in Seq(Awaits) /\ Len(theTask) = 1 /\ theTask[1] = "task"
      /\ due \in Seq(Awaits) /\ Len(due) = 1 /\ due[1] = "due"
      /\ planned \in Seq(Awaits) /\ Len(planned) = 1 /\ planned[1] = "planned"
      /\ run \in Seq(Awaits) /\ Len(run) = 2 /\ run[1] = "agent" /\ run[2] = "start"
  BY DEF Awaits
<1> HIDE DEF theTask, due, planned, run
<1>5. Directive \in Seq(Awaits) /\ Len(Directive) = 6
      /\ Directive[1] = "look" /\ Directive[2] = "upsert" /\ Directive[3] = "find"
      /\ Directive[4] = "owner" /\ Directive[5] = "create" /\ Directive[6] = "task"
  <2> DEFINE a == Ensure \o OpsProject
  <2>1. a \in Seq(Awaits) /\ Len(a) = 5 /\ a[1] = "look" /\ a[2] = "upsert" /\ a[3] = "find"
        /\ a[4] = "owner" /\ a[5] = "create"
    <3> DEFINE joined == \A i \in 1..Len(Ensure) + Len(OpsProject) :
                           a[i] = IF i <= Len(Ensure) THEN Ensure[i] ELSE OpsProject[i - Len(Ensure)]
    <3>1. a \in Seq(Awaits) /\ Len(a) = Len(Ensure) + Len(OpsProject) /\ joined
      BY <1>1, <1>3, Joined
    <3> HIDE DEF a
    <3> QED BY <3>1, <1>1, <1>3
  <2> HIDE DEF a
  <2> DEFINE b == a \o theTask
  <2>2. b \in Seq(Awaits) /\ Len(b) = 6 /\ b[1] = "look" /\ b[2] = "upsert" /\ b[3] = "find"
        /\ b[4] = "owner" /\ b[5] = "create" /\ b[6] = "task"
    <3> DEFINE joined == \A i \in 1..Len(a) + Len(theTask) :
                           b[i] = IF i <= Len(a) THEN a[i] ELSE theTask[i - Len(a)]
    <3>1. b \in Seq(Awaits) /\ Len(b) = Len(a) + Len(theTask) /\ joined
      BY <2>1, <1>4, Joined
    <3> HIDE DEF b
    <3> QED BY <3>1, <2>1, <1>4
  <2> QED BY <2>2 DEF Directive, a, theTask
<1>6. RunDailyPlan \in Seq(Awaits) /\ Len(RunDailyPlan) = 4
      /\ RunDailyPlan[1] = "look" /\ RunDailyPlan[2] = "upsert"
      /\ RunDailyPlan[3] = "agent" /\ RunDailyPlan[4] = "start"
  <2> DEFINE a == Ensure \o run
  <2>1. a \in Seq(Awaits) /\ Len(a) = 4 /\ a[1] = "look" /\ a[2] = "upsert" /\ a[3] = "agent" /\ a[4] = "start"
    <3> DEFINE joined == \A i \in 1..Len(Ensure) + Len(run) :
                           a[i] = IF i <= Len(Ensure) THEN Ensure[i] ELSE run[i - Len(Ensure)]
    <3>1. a \in Seq(Awaits) /\ Len(a) = Len(Ensure) + Len(run) /\ joined
      BY <1>1, <1>4, Joined
    <3> HIDE DEF a
    <3> QED BY <3>1, <1>1, <1>4
  <2> QED BY <2>1 DEF RunDailyPlan, run
<1>7. DailyTick \in Seq(Awaits) /\ Len(DailyTick) = 8
      /\ DailyTick[1] = "due" /\ DailyTick[2] = "look" /\ DailyTick[3] = "upsert" /\ DailyTick[4] = "planned"
      /\ DailyTick[5] = "look" /\ DailyTick[6] = "upsert" /\ DailyTick[7] = "agent" /\ DailyTick[8] = "start"
  <2> DEFINE a == due \o Ensure
  <2>1. a \in Seq(Awaits) /\ Len(a) = 3 /\ a[1] = "due" /\ a[2] = "look" /\ a[3] = "upsert"
    <3> DEFINE joined == \A i \in 1..Len(due) + Len(Ensure) :
                           a[i] = IF i <= Len(due) THEN due[i] ELSE Ensure[i - Len(due)]
    <3>1. a \in Seq(Awaits) /\ Len(a) = Len(due) + Len(Ensure) /\ joined
      BY <1>1, <1>4, Joined
    <3> HIDE DEF a
    <3> QED BY <3>1, <1>1, <1>4
  <2> HIDE DEF a
  <2> DEFINE b == a \o planned
  <2>2. b \in Seq(Awaits) /\ Len(b) = 4 /\ b[1] = "due" /\ b[2] = "look" /\ b[3] = "upsert" /\ b[4] = "planned"
    <3> DEFINE joined == \A i \in 1..Len(a) + Len(planned) :
                           b[i] = IF i <= Len(a) THEN a[i] ELSE planned[i - Len(a)]
    <3>1. b \in Seq(Awaits) /\ Len(b) = Len(a) + Len(planned) /\ joined
      BY <2>1, <1>4, Joined
    <3> HIDE DEF b
    <3> QED BY <3>1, <2>1, <1>4
  <2> HIDE DEF b
  <2> DEFINE d == b \o RunDailyPlan
  <2>3. d \in Seq(Awaits) /\ Len(d) = 8
        /\ d[1] = "due" /\ d[2] = "look" /\ d[3] = "upsert" /\ d[4] = "planned"
        /\ d[5] = "look" /\ d[6] = "upsert" /\ d[7] = "agent" /\ d[8] = "start"
    <3> DEFINE joined == \A i \in 1..Len(b) + Len(RunDailyPlan) :
                           d[i] = IF i <= Len(b) THEN b[i] ELSE RunDailyPlan[i - Len(b)]
    <3>1. d \in Seq(Awaits) /\ Len(d) = Len(b) + Len(RunDailyPlan) /\ joined
      BY <2>2, <1>6, Joined
    <3> HIDE DEF d
    <3> QED BY <3>1, <2>2, <1>6
  <2> QED BY <2>3 DEF DailyTick, a, b, due, planned
<1> QED BY <1>1, <1>2, <1>3, <1>5, <1>6, <1>7

\* What is left of a call, its next step and what is left after it.
LEMMA RestOfCall ==
    ASSUME NEW c \in CallKinds
    PROVE  /\ c \in Seq(Awaits) /\ Len(c) \in Nat
           /\ \A n \in 1..(Len(c) + 1) :
                /\ Rest(c, n) \in Seq(Awaits) /\ Rest(c, n) \in Left /\ Len(Rest(c, n)) = Len(c) - n + 1
                /\ Rest(c, n) = <<>> <=> n = Len(c) + 1
           /\ \A n \in 1..Len(c) :
                /\ Head(Rest(c, n)) = c[n] /\ Tail(Rest(c, n)) = Rest(c, n + 1)
                /\ Rest(c, n)[Len(c) - n + 1] = c[Len(c)]
<1>1. c \in Seq(Awaits) /\ Len(c) \in Nat
  BY StepsOfCalls DEF CallKinds
<1>2. ASSUME NEW n \in 1..(Len(c) + 1)
      PROVE  /\ Rest(c, n) \in Seq(Awaits) /\ Rest(c, n) \in Left /\ Len(Rest(c, n)) = Len(c) - n + 1
             /\ \A i \in 1..(Len(c) - n + 1) : Rest(c, n)[i] = c[n + i - 1]
             /\ Rest(c, n) = <<>> <=> n = Len(c) + 1
  <2>1. \A i \in n..Len(c) : c[i] \in Awaits
    BY <1>1, ElementOfSeq
  <2>2. n \in Int /\ Len(c) \in Int
    BY <1>1
  <2>3. /\ Rest(c, n) \in Seq(Awaits)
        /\ Len(Rest(c, n)) = IF n <= Len(c) THEN Len(c) - n + 1 ELSE 0
        /\ \A i \in 1..(Len(c) - n + 1) : Rest(c, n)[i] = c[n + i - 1]
    BY <2>1, <2>2, SubSeqProperties DEF Rest
  <2>4. Len(Rest(c, n)) = Len(c) - n + 1
    BY <1>1, <2>3
  <2>5. Rest(c, n) = <<>> <=> Len(Rest(c, n)) = 0
    BY <2>3, EmptySeq
  <2>6. Rest(c, n) \in Left
    BY DEF Left
  <2> QED BY <1>1, <2>3, <2>4, <2>5, <2>6
<1>3. ASSUME NEW n \in 1..Len(c)
      PROVE  /\ Head(Rest(c, n)) = c[n] /\ Tail(Rest(c, n)) = Rest(c, n + 1)
             /\ Rest(c, n)[Len(c) - n + 1] = c[Len(c)]
  <2>1. Len(c) \in n..Len(c) /\ n \in 1..(Len(c) + 1) /\ Len(c) - n + 1 \in 1..(Len(c) - n + 1)
    BY <1>1
  <2>2. Head(Rest(c, n)) = c[n] /\ Tail(Rest(c, n)) = Rest(c, n + 1)
    BY <1>1, <2>1, HeadTailOfSubSeq DEF Rest
  <2>3. Rest(c, n)[Len(c) - n + 1] = c[n + (Len(c) - n + 1) - 1]
    BY <1>2, <2>1
  <2>4. n + (Len(c) - n + 1) - 1 = Len(c)
    BY <1>1
  <2> QED BY <2>2, <2>3, <2>4
<1> QED BY <1>1, <1>2, <1>3

\* What a tick has left once it is past the check.
PastCheck(s) == s # <<>> /\ \E n \in 1..Len(RunDailyPlan) : s = SubSeq(RunDailyPlan, n, Len(RunDailyPlan))

LEMMA PastAt ==
    ASSUME NEW c \in CallKinds, NEW n \in 1..(Len(c) + 1)
    PROVE  PastCheck(Rest(c, n)) <=> c = DailyTick /\ n \in 5..8
<1>1. ASSUME c = DailyTick, n \in 5..8 PROVE PastCheck(Rest(c, n))
  <2> DEFINE due == <<"due">>
             planned == <<"planned">>
             front == due \o Ensure \o planned
  <2>1. due \in Seq(Awaits) /\ Len(due) = 1 /\ planned \in Seq(Awaits) /\ Len(planned) = 1
    BY DEF Awaits
  <2> HIDE DEF due, planned
  <2>2. due \o Ensure \in Seq(Awaits) /\ Len(due \o Ensure) = Len(due) + Len(Ensure)
    BY <2>1, StepsOfCalls, Joined, ZenonT(30)
  <2>3. front \in Seq(Awaits) /\ Len(front) = Len(due \o Ensure) + Len(planned)
    BY <2>1, <2>2, Joined
  <2>f. Len(front) = 4
    BY <2>1, <2>2, <2>3, StepsOfCalls
  <2>4. DailyTick = front \o RunDailyPlan
    BY DEF DailyTick, due, planned
  <2> HIDE DEF front
  <2>5. n \in Len(front) + 1..Len(front) + Len(RunDailyPlan) /\ 8 \in Len(front) + 1..Len(front) + Len(RunDailyPlan)
        /\ RunDailyPlan \in Seq(Awaits) /\ n - Len(front) = n - 4 /\ 8 - Len(front) = 4
    <3>1. Len(front) = 4 /\ Len(RunDailyPlan) = 4 /\ RunDailyPlan \in Seq(Awaits)
      BY <2>f, StepsOfCalls
    <3>2. n \in 5..8
      BY <1>1
    <3>3. n \in Int /\ 5 <= n /\ n <= 8
      BY <3>2
    <3> QED BY <3>1, <3>3
  <2>6. SubSeq(front \o RunDailyPlan, n, 8) = SubSeq(RunDailyPlan, n - Len(front), 8 - Len(front))
    BY <2>3, <2>5, SubSeqOfConcat2
  <2>7. Rest(c, n) = SubSeq(RunDailyPlan, n - 4, Len(RunDailyPlan))
    BY <1>1, <2>4, <2>5, <2>6, StepsOfCalls DEF Rest
  <2>8. n - 4 \in 1..Len(RunDailyPlan)
    BY <1>1, StepsOfCalls
  <2>9. n # Len(c) + 1
    BY <1>1, StepsOfCalls
  <2>10. Rest(c, n) # <<>>
    BY <2>9, RestOfCall
  <2> QED BY <2>7, <2>8, <2>10 DEF PastCheck
<1>2. ASSUME PastCheck(Rest(c, n)) PROVE c = DailyTick /\ n \in 5..8
  <2>1. PICK m \in 1..4 : Rest(c, n) = SubSeq(RunDailyPlan, m, 4)
    BY <1>2, StepsOfCalls DEF PastCheck
  <2>2. n \in 1..Len(c) /\ Len(c) \in Nat
    BY <1>2, RestOfCall DEF PastCheck
  <2>3. Len(Rest(c, n)) = Len(c) - n + 1 /\ Rest(c, n)[Len(c) - n + 1] = c[Len(c)]
    BY <2>2, RestOfCall
  <2>4. \A i \in m..4 : RunDailyPlan[i] \in Awaits
    <3>1. \A i \in m..4 : i \in 1..Len(RunDailyPlan)
      BY StepsOfCalls
    <3> QED BY <3>1, StepsOfCalls, ElementOfSeq
  <2>5. /\ Len(SubSeq(RunDailyPlan, m, 4)) = IF m <= 4 THEN 4 - m + 1 ELSE 0
        /\ \A i \in 1..(4 - m + 1) : SubSeq(RunDailyPlan, m, 4)[i] = RunDailyPlan[m + i - 1]
    BY <2>4, SubSeqProperties
  <2>6. 4 - m + 1 \in 1..(4 - m + 1) /\ m + (4 - m + 1) - 1 = 4 /\ Len(c) - n + 1 = 4 - m + 1
    BY <2>1, <2>3, <2>5
  <2>7. SubSeq(RunDailyPlan, m, 4)[4 - m + 1] = RunDailyPlan[4]
    BY <2>5, <2>6
  <2>8. c[Len(c)] = "start"
    BY <2>1, <2>3, <2>6, <2>7, StepsOfCalls
  <2>9. c = DailyTick
    BY <2>8, StepsOfCalls DEF CallKinds
  <2>10. Len(c) = 8
    BY <2>9, StepsOfCalls
  <2> QED BY <2>2, <2>6, <2>9, <2>10
<1> QED BY <1>1, <1>2

\* How a call goes on: to the write of an edit from its reading only, and past the
\* check of the daily plan by the check only.
LEMMA CallsGoOn ==
    ASSUME NEW s \in Left
    PROVE  /\ <<>> \in Left /\ ~PastCheck(<<>>)
           /\ s # <<>> => /\ Tail(s) \in Left
                          /\ Tail(s) # <<>> /\ Head(Tail(s)) = "write" => Head(s) = "get"
                          /\ PastCheck(Tail(s)) => PastCheck(s) \/ Head(s) = "planned"
                          /\ Head(s) = "start" => PastCheck(s) /\ Tail(s) = <<>>
                          /\ Head(s) = "find" =>
                               /\ SubSeq(s, 4, Len(s)) \in Left /\ ~PastCheck(SubSeq(s, 4, Len(s)))
                               /\ SubSeq(s, 4, Len(s)) # <<>> => Head(SubSeq(s, 4, Len(s))) # "write"
<1>1. PICK c \in CallKinds : \E n \in 1..(Len(c) + 1) : s = Rest(c, n)
  BY DEF Left
<1>2. PICK n \in 1..(Len(c) + 1) : s = Rest(c, n)
  BY <1>1
<1>3. Len(c) \in Nat /\ (s = <<>> <=> n = Len(c) + 1)
  BY <1>2, RestOfCall
<1>4. <<>> \in Left
  <2>1. Len(c) + 1 \in 1..(Len(c) + 1)
    BY <1>3
  <2> QED BY <2>1, RestOfCall
<1>5. ASSUME s # <<>>
      PROVE  /\ Tail(s) \in Left
             /\ Tail(s) # <<>> /\ Head(Tail(s)) = "write" => Head(s) = "get"
             /\ PastCheck(Tail(s)) => PastCheck(s) \/ Head(s) = "planned"
             /\ Head(s) = "start" => PastCheck(s) /\ Tail(s) = <<>>
             /\ Head(s) = "find" =>
                  /\ SubSeq(s, 4, Len(s)) \in Left /\ ~PastCheck(SubSeq(s, 4, Len(s)))
                  /\ SubSeq(s, 4, Len(s)) # <<>> => Head(SubSeq(s, 4, Len(s))) # "write"
  <2>1. n \in 1..Len(c) /\ n + 1 \in 1..(Len(c) + 1)
    BY <1>3, <1>5
  <2>2. Head(s) = c[n] /\ Tail(s) = Rest(c, n + 1) /\ Tail(s) \in Left /\ (Tail(s) = <<>> <=> n = Len(c))
    <3>1. Head(Rest(c, n)) = c[n] /\ Tail(Rest(c, n)) = Rest(c, n + 1)
      BY <2>1, RestOfCall
    <3>2. Rest(c, n + 1) \in Left /\ (Rest(c, n + 1) = <<>> <=> n + 1 = Len(c) + 1)
      BY <2>1, RestOfCall
    <3>3. n + 1 = Len(c) + 1 <=> n = Len(c)
      BY <2>1, <1>3
    <3> QED BY <3>1, <3>2, <3>3, <1>2
  <2>k. \/ c = Ensure \/ c = Edit \/ c = OpsProject \/ c = Directive \/ c = DailyTick
    BY DEF CallKinds
  <2>e. c = Ensure => Len(c) = 2 /\ n \in 1..2 /\ c[1] = "look" /\ c[2] = "upsert"
    BY <2>1, StepsOfCalls
  <2>w. c = Edit => Len(c) = 2 /\ n \in 1..2 /\ c[1] = "get" /\ c[2] = "write"
    BY <2>1, StepsOfCalls
  <2>o. c = OpsProject => Len(c) = 3 /\ n \in 1..3 /\ c[1] = "find" /\ c[2] = "owner" /\ c[3] = "create"
    BY <2>1, StepsOfCalls
  <2>d. c = Directive => Len(c) = 6 /\ n \in 1..6 /\ c[1] = "look" /\ c[2] = "upsert" /\ c[3] = "find"
                         /\ c[4] = "owner" /\ c[5] = "create" /\ c[6] = "task"
    BY <2>1, StepsOfCalls
  <2>t. c = DailyTick => Len(c) = 8 /\ n \in 1..8 /\ c[1] = "due" /\ c[2] = "look" /\ c[3] = "upsert" /\ c[4] = "planned"
                         /\ c[5] = "look" /\ c[6] = "upsert" /\ c[7] = "agent" /\ c[8] = "start"
    BY <2>1, StepsOfCalls
  <2>3. ASSUME Tail(s) # <<>>, Head(Tail(s)) = "write" PROVE Head(s) = "get"
    <3>1. n + 1 \in 1..Len(c)
      BY <2>1, <2>2, <2>3, <1>3
    <3>2. c[n + 1] = "write"
      BY <2>2, <2>3, <3>1, RestOfCall
    <3>3. c = Edit /\ n + 1 = 2
      BY <3>1, <3>2, <1>3, <2>1, <2>k, <2>e, <2>w, <2>o, <2>d, <2>t, SMTT(30)
    <3>4. n = 1
      BY <3>3, <2>1, <1>3
    <3> QED BY <2>2, <3>3, <3>4, StepsOfCalls
  <2>4. PastCheck(Tail(s)) => PastCheck(s) \/ Head(s) = "planned"
    <3>1. PastCheck(Tail(s)) <=> c = DailyTick /\ n + 1 \in 5..8
      BY <2>1, <2>2, PastAt
    <3>2. PastCheck(s) <=> c = DailyTick /\ n \in 5..8
      BY <1>2, PastAt
    <3>3. c = DailyTick /\ n = 4 => c[n] = "planned"
      BY StepsOfCalls
    <3> QED BY <3>1, <3>2, <3>3, <2>1, <2>2, <1>3
  <2>5. ASSUME Head(s) = "start" PROVE PastCheck(s) /\ Tail(s) = <<>>
    <3>1. c = DailyTick /\ n = 8 /\ Len(c) = 8
      BY <2>2, <2>5, <2>k, <2>e, <2>w, <2>o, <2>d, <2>t
    <3>2. PastCheck(Rest(c, n)) <=> c = DailyTick /\ n \in 5..8
      BY PastAt
    <3> QED BY <1>2, <2>2, <3>1, <3>2
  <2>6. ASSUME Head(s) = "find"
        PROVE  /\ SubSeq(s, 4, Len(s)) \in Left /\ ~PastCheck(SubSeq(s, 4, Len(s)))
               /\ SubSeq(s, 4, Len(s)) # <<>> => Head(SubSeq(s, 4, Len(s))) # "write"
    <3>1. (c = OpsProject /\ n = 1 /\ Len(c) = 3) \/ (c = Directive /\ n = 3 /\ Len(c) = 6)
      BY <2>2, <2>6, <2>k, <2>e, <2>w, <2>o, <2>d, <2>t
    <3>2. s = SubSeq(c, n, Len(c)) /\ c \in Seq(Awaits) /\ Len(s) = Len(c) - n + 1
      BY <1>2, RestOfCall DEF Rest
    <3>3. CASE c = OpsProject /\ n = 1 /\ Len(c) = 3
      <4>1. SubSeq(s, 4, Len(s)) = <<>>
        BY <3>2, <3>3, SubSeqEmpty
      <4> QED BY <4>1, <1>4 DEF PastCheck
    <3>4. CASE c = Directive /\ n = 3 /\ Len(c) = 6
      <4>1. Len(s) = 4 /\ s = SubSeq(c, 3, 6)
        BY <3>2, <3>4
      <4>2. SubSeq(SubSeq(c, 3, 6), 4, 4) = SubSeq(c, 3 + 4 - 1, 3 + 4 - 1)
        <5>1. 3 \in 1..Len(c) /\ 6 \in 1..Len(c) /\ 4 \in 1..6 - 3 + 1
          BY <3>4
        <5> QED BY <5>1, <3>2, SubSeqOfSubSeq
      <4>3. SubSeq(s, 4, Len(s)) = Rest(c, 6)
        BY <4>1, <4>2, <3>4 DEF Rest
      <4>4. 6 \in 1..Len(c) /\ 6 \in 1..(Len(c) + 1)
        BY <3>4
      <4>5. Head(Rest(c, 6)) = "task" /\ Rest(c, 6) \in Left
        BY <4>4, <3>4, RestOfCall, StepsOfCalls
      <4>6. PastCheck(Rest(c, 6)) => c = DailyTick
        BY <4>4, PastAt
      <4>7. Directive # DailyTick
        BY StepsOfCalls
      <4> QED BY <4>3, <4>5, <4>6, <4>7, <3>4
    <3> QED BY <3>1, <3>3, <3>4
  <2> QED BY <2>2, <2>3, <2>4, <2>5, <2>6
<1> QED BY <1>4, <1>5 DEF PastCheck

-----------------------------------------------------------------------------

Prompts == [there : BOOLEAN, edited : BOOLEAN, by : {"platform", "human"}, no : Nat, active : BOOLEAN]

\* An edited agent is there, so that a call that would track the platform's prompt
\* has not looked at it since the edit; and an edit has found the agent.
PromptInv ==
    /\ agent \in Prompts /\ edits \in Nat /\ release \in Nat /\ overwritten \in BOOLEAN
    /\ agent.edited => agent.there
    /\ \A p \in Planners : At(p, "write") => agent.there
    /\ PromptStays

\* On a day on which no two ticks have crossed, one at most is past the check, and
\* the plan it is about to start is the first.
DayInv ==
    /\ day \in Nat /\ plannedOn \in Seq(Nat)
    /\ \A i \in DOMAIN plannedOn : plannedOn[i] <= day
    /\ PlannedOnce
    /\ day \notin crossedDays =>
        \A p \in Planners : Past(p) => ~HasPlannedToday /\ \A q \in Planners : Past(q) => p = q

PlanInv == steps \in [Planners -> Left] /\ PromptInv /\ DayInv

\* What a step of call p does to the calls.
CallMoves(p) ==
    /\ steps' \in [Planners -> Left]
    /\ \A q \in Planners :
        /\ Past(q)' => Past(q) \/ (q = p /\ At(p, "planned"))
        /\ At(q, "write")' => At(q, "write") \/ (q = p /\ At(p, "get"))
        /\ Past(q)' /\ q # p => Past(q)

LEMMA PastIsPastCheck == \A p : Past(p) <=> PastCheck(steps[p])
  BY DEF Past, PastCheck

\* What becomes of a call's steps when they become s.
LEMMA OneCallMoves ==
    \A p \in Planners, s \in Left :
        /\ steps \in [Planners -> Left] /\ steps' = [steps EXCEPT ![p] = s]
        /\ PastCheck(s) => PastCheck(steps[p]) \/ At(p, "planned")
        /\ s # <<>> /\ Head(s) = "write" => At(p, "get")
        => CallMoves(p)
<1> SUFFICES ASSUME NEW p \in Planners, NEW s \in Left,
                    steps \in [Planners -> Left], steps' = [steps EXCEPT ![p] = s],
                    PastCheck(s) => PastCheck(steps[p]) \/ At(p, "planned"),
                    s # <<>> /\ Head(s) = "write" => At(p, "get")
             PROVE  CallMoves(p)
  OBVIOUS
<1>1. steps' \in [Planners -> Left] /\ steps'[p] = s /\ \A q \in Planners \ {p} : steps'[q] = steps[q]
  OBVIOUS
<1>2. \A q \in Planners : Past(q)' <=> PastCheck(steps'[q])
  BY DEF Past, PastCheck
<1>3. \A q \in Planners : At(q, "write")' <=> steps'[q] # <<>> /\ Head(steps'[q]) = "write"
  BY DEF At
<1>4. \A q \in Planners : Past(q)' => Past(q) \/ (q = p /\ At(p, "planned"))
  BY <1>1, <1>2, PastIsPastCheck
<1>5. \A q \in Planners : At(q, "write")' => At(q, "write") \/ (q = p /\ At(p, "get"))
  <2> SUFFICES ASSUME NEW q \in Planners, At(q, "write")' PROVE At(q, "write") \/ (q = p /\ At(p, "get"))
    OBVIOUS
  <2>1. steps'[q] # <<>> /\ Head(steps'[q]) = "write"
    BY <1>3
  <2>2. CASE q = p
    BY <2>1, <2>2, <1>1
  <2>3. CASE q # p
    BY <2>1, <2>3, <1>1 DEF At
  <2> QED BY <2>2, <2>3
<1>6. \A q \in Planners : Past(q)' /\ q # p => Past(q)
  BY <1>1, <1>2, PastIsPastCheck
<1> QED BY <1>1, <1>4, <1>5, <1>6 DEF CallMoves

LEMMA AdvanceMoves ==
    \A p \in Planners : \A step :
        steps \in [Planners -> Left] /\ At(p, step) /\ Advance(p) =>
            CallMoves(p) /\ (step = "start" => Past(p) /\ ~Past(p)')
<1> SUFFICES ASSUME NEW p \in Planners, NEW step, steps \in [Planners -> Left], At(p, step), Advance(p)
             PROVE  CallMoves(p) /\ (step = "start" => Past(p) /\ ~Past(p)')
  OBVIOUS
<1>1. steps[p] \in Left /\ steps[p] # <<>> /\ Head(steps[p]) = step
  BY DEF At
<1>2. /\ Tail(steps[p]) \in Left /\ ~PastCheck(<<>>)
      /\ Tail(steps[p]) # <<>> /\ Head(Tail(steps[p])) = "write" => Head(steps[p]) = "get"
      /\ PastCheck(Tail(steps[p])) => PastCheck(steps[p]) \/ Head(steps[p]) = "planned"
      /\ Head(steps[p]) = "start" => PastCheck(steps[p]) /\ Tail(steps[p]) = <<>>
  BY <1>1, CallsGoOn
<1>3. steps' = [steps EXCEPT ![p] = Tail(steps[p])]
  BY DEF Advance
<1>4. CallMoves(p)
  <2>1. PastCheck(Tail(steps[p])) => PastCheck(steps[p]) \/ At(p, "planned")
    BY <1>1, <1>2 DEF At
  <2>2. Tail(steps[p]) # <<>> /\ Head(Tail(steps[p])) = "write" => At(p, "get")
    BY <1>1, <1>2 DEF At
  <2> QED BY <1>2, <1>3, <2>1, <2>2, OneCallMoves
<1>5. ASSUME step = "start" PROVE Past(p) /\ ~Past(p)'
  <2>1. PastCheck(steps[p]) /\ Tail(steps[p]) = <<>>
    BY <1>1, <1>2, <1>5
  <2>2. steps'[p] = <<>>
    BY <1>3, <2>1
  <2> QED BY <2>1, <2>2, PastIsPastCheck DEF Past
<1> QED BY <1>4, <1>5

LEMMA StopMoves ==
    \A p \in Planners : steps \in [Planners -> Left] /\ Stop(p) => CallMoves(p) /\ ~Past(p)'
<1> SUFFICES ASSUME NEW p \in Planners, steps \in [Planners -> Left], Stop(p) PROVE CallMoves(p) /\ ~Past(p)'
  OBVIOUS
<1>1. steps[p] \in Left
  OBVIOUS
<1>2. <<>> \in Left /\ ~PastCheck(<<>>)
  BY <1>1, CallsGoOn
<1>3. steps' = [steps EXCEPT ![p] = <<>>] /\ steps'[p] = <<>>
  BY DEF Stop
<1>4. CallMoves(p)
  BY <1>2, <1>3, OneCallMoves
<1>5. ~Past(p)'
  BY <1>3 DEF Past
<1> QED BY <1>4, <1>5

LEMMA AskMoves ==
    \A p \in Planners, calls \in SUBSET CallKinds :
        steps \in [Planners -> Left] /\ Ask(p, calls) => CallMoves(p)
<1> SUFFICES ASSUME NEW p \in Planners, NEW calls \in SUBSET CallKinds, steps \in [Planners -> Left], Ask(p, calls)
             PROVE  CallMoves(p)
  OBVIOUS
<1>1. PICK c \in calls : steps' = [steps EXCEPT ![p] = c]
  BY DEF Ask
<1>2. c \in CallKinds
  OBVIOUS
<1>3. c \in Seq(Awaits) /\ Len(c) \in Nat /\ Len(c) >= 1 /\ c[1] # "write"
  <2>1. c \in {Ensure, OpsProject, Directive, DailyTick, Edit}
    BY <1>2 DEF CallKinds
  <2>2. CASE c = Ensure \/ c = Edit
    BY <2>2, StepsOfCalls
  <2>3. CASE c = OpsProject
    BY <2>3, StepsOfCalls
  <2>4. CASE c = Directive
    BY <2>4, StepsOfCalls
  <2>5. CASE c = DailyTick
    BY <2>5, StepsOfCalls
  <2> QED BY <2>1, <2>2, <2>3, <2>4, <2>5
<1>4. Rest(c, 1) = c
  BY <1>3, SubSeqFull DEF Rest
<1>5. 1 \in 1..(Len(c) + 1) /\ 1 \in 1..Len(c)
  BY <1>3
<1>6. c \in Left /\ Head(c) = c[1]
  BY <1>2, <1>4, <1>5, RestOfCall
<1>7. ~PastCheck(c)
  <2>1. PastCheck(Rest(c, 1)) => 1 \in 5..8
    BY <1>2, <1>5, PastAt
  <2> QED BY <2>1, <1>4
<1>8. Head(c) # "write"
  BY <1>3, <1>6
<1> QED BY <1>1, <1>6, <1>7, <1>8, OneCallMoves

LEMMA FindMoves ==
    \A p \in Planners : steps \in [Planners -> Left] /\ Find(p) => CallMoves(p)
<1> SUFFICES ASSUME NEW p \in Planners, steps \in [Planners -> Left], Find(p) PROVE CallMoves(p)
  OBVIOUS
<1>1. CASE At(p, "find") /\ opsProject
  <2> DEFINE s == SubSeq(steps[p], 4, Len(steps[p]))
  <2>1. steps' = [steps EXCEPT ![p] = s]
    BY <1>1 DEF Find
  <2>2. steps[p] \in Left /\ steps[p] # <<>> /\ Head(steps[p]) = "find"
    BY <1>1 DEF At
  <2>3. s \in Left /\ ~PastCheck(s) /\ (s # <<>> => Head(s) # "write")
    BY <2>2, CallsGoOn
  <2> HIDE DEF s
  <2> QED BY <2>1, <2>3, OneCallMoves
<1>2. CASE ~(At(p, "find") /\ opsProject)
  <2>1. Advance(p)
    BY <1>2 DEF Find, Advance
  <2>2. \E step : At(p, step)
    BY DEF Find
  <2> QED BY <2>1, <2>2, AdvanceMoves
<1> QED BY <1>1, <1>2

\* A step that leaves the prompt alone keeps what is known of it.
LEMMA PromptRests ==
    \A p \in Planners :
        PromptInv /\ CallMoves(p) /\ (At(p, "get") /\ At(p, "write")' => agent.there)
            /\ UNCHANGED <<agent, edits, release, overwritten>> => PromptInv'
<1> SUFFICES ASSUME NEW p \in Planners, PromptInv, CallMoves(p), At(p, "get") /\ At(p, "write")' => agent.there,
                    UNCHANGED <<agent, edits, release, overwritten>>
             PROVE  PromptInv'
  OBVIOUS
<1>1. \A q \in Planners : At(q, "write")' => agent.there
  BY DEF CallMoves, PromptInv
<1> QED BY <1>1 DEF PromptInv, PromptStays

\* A step that neither plans nor lets a tick past the check keeps what is known of
\* the day.
LEMMA DayRests ==
    \A p \in Planners :
        DayInv /\ CallMoves(p) /\ ~At(p, "planned") /\ UNCHANGED <<day, plannedOn, crossedDays>> => DayInv'
  BY DEF DayInv, CallMoves, PlannedOnce, HasPlannedToday

LEMMA PlanStep == PlanInv /\ [PlanNext]_planVars => PlanInv'
<1> SUFFICES ASSUME PlanInv, [PlanNext]_planVars PROVE PlanInv'
  OBVIOUS
<1>t. steps \in [Planners -> Left] /\ PromptInv /\ DayInv
  BY DEF PlanInv
<1>d. /\ day \in Nat /\ plannedOn \in Seq(Nat)
      /\ \A i \in DOMAIN plannedOn : plannedOn[i] <= day
      /\ PlannedOnce
      /\ day \notin crossedDays =>
          \A p \in Planners : Past(p) => ~HasPlannedToday /\ \A q \in Planners : Past(q) => p = q
  BY <1>t DEF DayInv
<1>p. /\ agent \in Prompts /\ edits \in Nat /\ release \in Nat /\ overwritten \in BOOLEAN
      /\ agent.edited => agent.there
      /\ \A p \in Planners : At(p, "write") => agent.there
      /\ PromptStays
  BY <1>t DEF PromptInv
<1>h. ASSUME NEW p \in Planners, NEW a, NEW b, At(p, a), a # b PROVE ~At(p, b)
  BY <1>h DEF At
\* A step of a call that concerns neither.
<1>r. ASSUME NEW p \in Planners, CallMoves(p), ~At(p, "planned"), At(p, "get") /\ At(p, "write")' => agent.there,
             UNCHANGED <<agent, edits, release, overwritten, day, plannedOn, crossedDays>>
      PROVE PlanInv'
  <2>1. PromptInv'
    BY <1>r, <1>t, PromptRests
  <2>2. DayInv'
    BY <1>r, <1>t, DayRests
  <2> QED BY <2>1, <2>2, <1>r DEF PlanInv, CallMoves
<1>1. ASSUME NEW p \in Planners, NEW calls \in SUBSET CallKinds, Ask(p, calls) PROVE PlanInv'
  <2>1. CallMoves(p)
    BY <1>1, <1>t, AskMoves
  <2>2. ~At(p, "planned") /\ ~At(p, "get")
    BY <1>1 DEF Ask, At
  <2> QED BY <1>1, <2>1, <2>2, <1>r DEF Ask
<1>2. ASSUME NEW p \in Planners, Look(p) PROVE PlanInv'
  <2>1. At(p, "look") /\ Advance(p) /\ UNCHANGED <<agent, edits, release, overwritten, day, plannedOn, crossedDays>>
    BY <1>2 DEF Look
  <2>2. CallMoves(p)
    BY <2>1, <1>t, AdvanceMoves
  <2>3. ~At(p, "planned") /\ ~At(p, "get")
    BY <2>1, <1>h
  <2> QED BY <2>1, <2>2, <2>3, <1>r
<1>3. ASSUME NEW p \in Planners, Upsert(p) PROVE PlanInv'
  <2>1. /\ At(p, "upsert") /\ Advance(p) /\ UNCHANGED <<edits, release, day, plannedOn, crossedDays>>
        /\ agent' = IF ~Tracks(p) THEN agent
                    ELSE [agent EXCEPT !.there = TRUE, !.by = "platform", !.no = release]
        /\ overwritten' = (overwritten \/ (agent.edited /\ ~customized[p]))
    BY <1>3 DEF Upsert
  <2>2. CallMoves(p)
    BY <2>1, <1>t, AdvanceMoves
  <2>3. ~At(p, "planned") /\ ~At(p, "get")
    BY <2>1, <1>h
  <2>4. DayInv'
    BY <2>1, <2>2, <2>3, <1>t, DayRests
  <2>5. overwritten' \in BOOLEAN
    BY <2>1, <1>p
  <2>6. PromptInv'
    <3>1. CASE ~Tracks(p)
      <4>1. agent' = agent
        BY <2>1, <3>1
      <4>2. \A q \in Planners : At(q, "write")' => agent.there
        BY <2>2, <2>3, <1>p DEF CallMoves
      <4>3. agent.edited /\ ~overwritten' => agent.by = "human" /\ agent.no = edits
        BY <2>1, <1>p DEF PromptStays
      <4> QED BY <4>1, <4>2, <4>3, <2>1, <2>5, <1>p DEF PromptInv, PromptStays
    <3>2. CASE Tracks(p)
      <4>1. agent' = [agent EXCEPT !.there = TRUE, !.by = "platform", !.no = release]
        BY <2>1, <3>2
      <4>2. agent'.there = TRUE /\ agent'.edited = agent.edited
        BY <4>1, <1>p DEF Prompts
      <4>3. agent.edited => overwritten'
        BY <2>1, <3>2, <1>p DEF Tracks
      <4>4. agent' \in Prompts
        BY <4>1, <1>p DEF Prompts
      <4> QED BY <4>2, <4>3, <4>4, <2>1, <2>5, <1>p DEF PromptInv, PromptStays
    <3> QED BY <3>1, <3>2
  <2> QED BY <2>2, <2>4, <2>6 DEF PlanInv, CallMoves
<1>4. ASSUME NEW p \in Planners, GetAgent(p) PROVE PlanInv'
  <2>1. At(p, "get") /\ UNCHANGED <<agent, edits, release, overwritten, day, plannedOn, crossedDays>>
        /\ IF agent.there THEN Advance(p) ELSE Stop(p)
    BY <1>4 DEF GetAgent
  <2>2. CallMoves(p)
    BY <2>1, <1>t, AdvanceMoves, StopMoves
  <2>3. ~At(p, "planned")
    BY <2>1, <1>h
  <2>4. ~agent.there => ~At(p, "write")'
    <3>1. ~agent.there => steps'[p] = <<>>
      BY <2>1, <1>t DEF Stop
    <3> QED BY <3>1 DEF At
  <2> QED BY <2>1, <2>2, <2>3, <2>4, <1>r
<1>5. ASSUME NEW p \in Planners, Rewrite(p) PROVE PlanInv'
  <2>1. /\ At(p, "write") /\ Advance(p) /\ UNCHANGED <<release, day, plannedOn, crossedDays>>
        /\ edits' = edits + 1 /\ overwritten' = FALSE
        /\ agent' = [agent EXCEPT !.edited = TRUE, !.by = "human", !.no = edits + 1]
    BY <1>5 DEF Rewrite
  <2>2. CallMoves(p) /\ ~At(p, "planned")
    BY <2>1, <1>t, <1>h, AdvanceMoves
  <2>3. DayInv'
    BY <2>1, <2>2, <1>t, DayRests
  <2>4. agent.there
    BY <2>1, <1>p
  <2>5. agent' \in Prompts /\ edits' \in Nat
    <3>1. edits' \in Nat
      BY <2>1, <1>p
    <3>2. agent' = [agent EXCEPT !.edited = TRUE, !.by = "human", !.no = edits']
      BY <2>1
    <3>3. TRUE \in BOOLEAN /\ "human" \in {"platform", "human"}
      OBVIOUS
    <3> QED BY <3>1, <3>2, <3>3, <1>p DEF Prompts
  <2>7. agent'.there /\ agent'.by = "human" /\ agent'.no = edits'
    BY <2>1, <2>4, <1>p DEF Prompts
  <2>6. PromptInv'
    BY <2>1, <2>5, <2>7, <1>p DEF PromptInv, PromptStays
  <2> QED BY <2>2, <2>3, <2>6 DEF PlanInv, CallMoves
<1>6. ASSUME NEW p \in Planners, Switch(p) PROVE PlanInv'
  <2>1. /\ At(p, "write") /\ Advance(p) /\ UNCHANGED <<edits, release, overwritten, day, plannedOn, crossedDays>>
        /\ agent' = [agent EXCEPT !.active = ~@]
    BY <1>6 DEF Switch
  <2>2. CallMoves(p) /\ ~At(p, "planned")
    BY <2>1, <1>t, <1>h, AdvanceMoves
  <2>3. DayInv'
    BY <2>1, <2>2, <1>t, DayRests
  <2>4. agent.there
    BY <2>1, <1>p
  <2>5. agent' \in Prompts /\ agent'.there /\ agent'.edited = agent.edited /\ agent'.by = agent.by /\ agent'.no = agent.no
    BY <2>1, <2>4, <1>p DEF Prompts
  <2>6. PromptInv'
    BY <2>1, <2>5, <1>p DEF PromptInv, PromptStays
  <2> QED BY <2>2, <2>3, <2>6 DEF PlanInv, CallMoves
<1>7. ASSUME NEW p \in Planners, Find(p) PROVE PlanInv'
  <2>1. UNCHANGED <<agent, edits, release, overwritten, day, plannedOn, crossedDays>>
    BY <1>7 DEF Find
  <2>2. CallMoves(p)
    BY <1>7, <1>t, FindMoves
  <2>3. ~At(p, "planned") /\ ~At(p, "get")
    BY <1>7, <1>h DEF Find
  <2> QED BY <2>1, <2>2, <2>3, <1>r
<1>8. ASSUME NEW p \in Planners, CreateOpsProject(p) PROVE PlanInv'
  <2>1. At(p, "create") /\ UNCHANGED <<agent, edits, release, overwritten, day, plannedOn, crossedDays>>
        /\ (Stop(p) \/ Advance(p))
    BY <1>8 DEF CreateOpsProject
  <2>2. CallMoves(p)
    BY <2>1, <1>t, AdvanceMoves, StopMoves
  <2>3. ~At(p, "planned") /\ ~At(p, "get")
    BY <2>1, <1>h
  <2> QED BY <2>1, <2>2, <2>3, <1>r
<1>9. ASSUME NEW p \in Planners, Due(p) PROVE PlanInv'
  <2>1. At(p, "due") /\ UNCHANGED <<agent, edits, release, overwritten, day, plannedOn, crossedDays>>
        /\ (Stop(p) \/ Advance(p))
    BY <1>9 DEF Due
  <2>2. CallMoves(p)
    BY <2>1, <1>t, AdvanceMoves, StopMoves
  <2>3. ~At(p, "planned") /\ ~At(p, "get")
    BY <2>1, <1>h
  <2> QED BY <2>1, <2>2, <2>3, <1>r
<1>10. ASSUME NEW p \in Planners, Planned(p) PROVE PlanInv'
  <2>1. /\ At(p, "planned") /\ UNCHANGED <<agent, edits, release, overwritten, day, plannedOn>>
        /\ \/ HasPlannedToday /\ Stop(p) /\ crossedDays' = crossedDays
           \/ /\ ~HasPlannedToday /\ Advance(p)
              /\ crossedDays' = IF \E q \in Planners \ {p} : Past(q) THEN crossedDays \cup {day} ELSE crossedDays
    BY <1>10 DEF Planned
  <2>2. CallMoves(p)
    BY <2>1, <1>t, AdvanceMoves, StopMoves
  <2>3. ~At(p, "get")
    BY <2>1, <1>h
  <2>4. PromptInv'
    BY <2>1, <2>2, <2>3, <1>t, PromptRests
  <2>5. DayInv'
    <3>1. PlannedOnce' /\ (HasPlannedToday' <=> HasPlannedToday)
      BY <2>1, <1>d DEF PlannedOnce, HasPlannedToday
    <3>2. ASSUME day' \notin crossedDays', NEW q \in Planners, Past(q)'
          PROVE  ~HasPlannedToday' /\ \A r \in Planners : Past(r)' => q = r
      <4>1. CASE HasPlannedToday
        <5>1. Stop(p) /\ crossedDays' = crossedDays
          BY <2>1, <4>1
        <5>2. ~Past(p)'
          BY <5>1, <1>t, StopMoves
        <5>3. \A r \in Planners : Past(r)' => Past(r)
          BY <5>2, <2>2 DEF CallMoves
        <5>4. day \notin crossedDays
          BY <5>1, <3>2, <2>1
        <5> QED BY <5>3, <5>4, <3>1, <3>2, <1>d
      <4>2. CASE ~HasPlannedToday
        <5>1. ~ \E r \in Planners \ {p} : Past(r)
          BY <2>1, <3>2, <4>2
        <5>2. \A r \in Planners : Past(r)' => r = p
          BY <5>1, <2>2 DEF CallMoves
        <5> QED BY <5>2, <4>2, <3>1, <3>2
      <4> QED BY <4>1, <4>2
    <3> QED BY <3>1, <3>2, <2>1, <1>d DEF DayInv
  <2> QED BY <2>2, <2>4, <2>5 DEF PlanInv, CallMoves
<1>11. ASSUME NEW p \in Planners, ReadAgent(p) PROVE PlanInv'
  <2>1. At(p, "agent") /\ Advance(p) /\ UNCHANGED <<agent, edits, release, overwritten, day, plannedOn, crossedDays>>
    BY <1>11 DEF ReadAgent
  <2>2. CallMoves(p)
    BY <2>1, <1>t, AdvanceMoves
  <2>3. ~At(p, "planned") /\ ~At(p, "get")
    BY <2>1, <1>h
  <2> QED BY <2>1, <2>2, <2>3, <1>r
<1>12. ASSUME NEW p \in Planners, StartRun(p) PROVE PlanInv'
  <2>1. /\ At(p, "start") /\ Advance(p) /\ UNCHANGED <<agent, edits, release, overwritten, day, crossedDays>>
        /\ plannedOn' = plannedOn \/ plannedOn' = Append(plannedOn, day)
    BY <1>12 DEF StartRun
  <2>2. CallMoves(p) /\ Past(p) /\ ~Past(p)'
    BY <2>1, <1>t, AdvanceMoves
  <2>3. ~At(p, "get") /\ ~At(p, "planned")
    BY <2>1, <1>h
  <2>4. PromptInv'
    BY <2>1, <2>2, <2>3, <1>t, PromptRests
  <2>5. DayInv'
    <3>1. CASE plannedOn' = plannedOn
      BY <3>1, <2>1, <2>2, <2>3, <1>t, DayRests
    <3>2. CASE plannedOn' = Append(plannedOn, day)
      <4>1. /\ plannedOn' \in Seq(Nat) /\ Len(plannedOn') = Len(plannedOn) + 1 /\ Len(plannedOn) \in Nat
            /\ \A i \in 1..Len(plannedOn) : plannedOn'[i] = plannedOn[i]
            /\ plannedOn'[Len(plannedOn) + 1] = day
            /\ DOMAIN plannedOn = 1..Len(plannedOn) /\ DOMAIN plannedOn' = 1..(Len(plannedOn) + 1)
        BY <3>2, <1>d, AppendProperties, LenProperties
      <4>2. \A i \in DOMAIN plannedOn' : i \in DOMAIN plannedOn \/ i = Len(plannedOn) + 1
        BY <4>1
      <4>3. \A i \in DOMAIN plannedOn' : plannedOn'[i] <= day
        BY <4>1, <4>2, <1>d
      <4>4. day \notin crossedDays => ~HasPlannedToday /\ \A q \in Planners : Past(q) => p = q
        BY <2>2, <1>d
      <4>5. PlannedOnce'
        <5> SUFFICES ASSUME NEW i \in DOMAIN plannedOn', NEW j \in DOMAIN plannedOn',
                            plannedOn'[i] = plannedOn'[j], plannedOn'[i] \notin crossedDays
                     PROVE  i = j
          BY <2>1 DEF PlannedOnce
        <5>1. CASE i \in DOMAIN plannedOn /\ j \in DOMAIN plannedOn
          BY <5>1, <4>1, <1>d DEF PlannedOnce
        <5>2. CASE i \in DOMAIN plannedOn /\ j = Len(plannedOn) + 1
          BY <5>2, <4>1, <4>4 DEF HasPlannedToday
        <5>3. CASE j \in DOMAIN plannedOn /\ i = Len(plannedOn) + 1
          BY <5>3, <4>1, <4>4 DEF HasPlannedToday
        <5> QED BY <5>1, <5>2, <5>3, <4>2
      <4>6. ASSUME day \notin crossedDays, NEW q \in Planners, Past(q)' PROVE FALSE
        <5>1. Past(q) /\ q # p
          BY <4>6, <2>2, <2>3 DEF CallMoves
        <5> QED BY <5>1, <4>4, <4>6
      <4> QED BY <4>1, <4>3, <4>5, <4>6, <2>1, <1>d DEF DayInv
    <3> QED BY <3>1, <3>2, <2>1
  <2> QED BY <2>2, <2>4, <2>5 DEF PlanInv, CallMoves
<1>13. CASE Clock
  <2>1. /\ UNCHANGED <<agent, edits, release, overwritten, steps, plannedOn>>
        /\ \/ UNCHANGED <<day, crossedDays>>
           \/ /\ day' = day + 1
              /\ crossedDays' = IF \E p, q \in Planners : p # q /\ Past(p) /\ Past(q)
                                THEN crossedDays \cup {day + 1} ELSE crossedDays
    BY <1>13 DEF Clock
  <2>2. (\A p \in Planners : Past(p)' <=> Past(p)) /\ (\A p \in Planners : At(p, "write")' <=> At(p, "write"))
    BY <2>1 DEF Past, At
  <2>3. PromptInv'
    BY <2>1, <2>2, <1>p DEF PromptInv, PromptStays
  <2>4. DayInv'
    <3>1. CASE UNCHANGED <<day, crossedDays>>
      BY <3>1, <2>1, <2>2, <1>d DEF DayInv, PlannedOnce, HasPlannedToday
    <3>2. CASE ~UNCHANGED <<day, crossedDays>>
      <4>1. day' = day + 1 /\ crossedDays \subseteq crossedDays'
            /\ crossedDays' = IF \E p, q \in Planners : p # q /\ Past(p) /\ Past(q)
                              THEN crossedDays \cup {day + 1} ELSE crossedDays
        BY <2>1, <3>2
      <4>2. PlannedOnce'
        BY <4>1, <2>1, <1>d DEF PlannedOnce
      <4>3. /\ \A i \in DOMAIN plannedOn : plannedOn[i] \in Nat
            /\ \A i \in DOMAIN plannedOn : plannedOn[i] <= day + 1 /\ plannedOn[i] # day + 1
        <5>1. \A i \in DOMAIN plannedOn : plannedOn[i] \in Nat
          BY <1>d, ElementOfSeq, LenProperties
        <5> QED BY <5>1, <1>d
      <4>4. ~HasPlannedToday'
        BY <4>1, <4>3, <2>1 DEF HasPlannedToday
      <4>5. day' \notin crossedDays' => \A p, q \in Planners : Past(p) /\ Past(q) => p = q
        BY <4>1
      <4> QED BY <4>1, <4>2, <4>3, <4>4, <4>5, <2>1, <2>2, <1>d DEF DayInv
    <3> QED BY <3>1, <3>2
  <2> QED BY <2>1, <2>3, <2>4, <1>t DEF PlanInv
<1>14. CASE Deploy
  <2>1. /\ UNCHANGED <<agent, edits, overwritten, day, plannedOn, crossedDays>>
        /\ release' = release + 1 /\ steps' = [p \in Planners |-> <<>>]
    BY <1>14 DEF Deploy
  <2>2. \A p \in Planners : ~Past(p)' /\ ~At(p, "write")'
    BY <2>1 DEF Past, At
  <2>3. <<>> \in Left
    <3>1. Ensure \in CallKinds
      BY DEF CallKinds
    <3>2. Rest(Ensure, 1) \in Left
      BY <3>1, RestOfCall, StepsOfCalls
    <3> QED BY <3>2, CallsGoOn
  <2>4. steps' \in [Planners -> Left]
    BY <2>1, <2>3
  <2>5. PromptInv'
    BY <2>1, <2>2, <1>p DEF PromptInv, PromptStays
  <2>6. DayInv'
    BY <2>1, <2>2, <1>d DEF DayInv, PlannedOnce
  <2> QED BY <2>4, <2>5, <2>6 DEF PlanInv
<1>15. CASE KillSwitch \/ UNCHANGED planVars
  <2>1. UNCHANGED <<agent, edits, release, overwritten, steps, day, plannedOn, crossedDays>>
    BY <1>15 DEF KillSwitch, planVars
  <2>2. (\A p \in Planners : Past(p)' <=> Past(p)) /\ (\A p \in Planners : At(p, "write")' <=> At(p, "write"))
    BY <2>1 DEF Past, At
  <2>3. PromptInv'
    BY <2>1, <2>2, <1>p DEF PromptInv, PromptStays
  <2>4. DayInv'
    BY <2>1, <2>2, <1>d DEF DayInv, PlannedOnce, HasPlannedToday
  <2> QED BY <2>1, <2>3, <2>4, <1>t DEF PlanInv
<1>16. {Ensure, Edit, OpsProject, Directive} \in SUBSET CallKinds /\ {Edit, DailyTick} \in SUBSET CallKinds
  BY DEF CallKinds
<1>17. CASE Prompting
  BY <1>17, <1>1, <1>2, <1>3, <1>4, <1>5, <1>7, <1>8, <1>14, <1>16 DEF Prompting
<1>18. CASE PlanningTheDay
  BY <1>18, <1>1, <1>2, <1>3, <1>4, <1>6, <1>9, <1>10, <1>11, <1>12, <1>13, <1>15, <1>16 DEF PlanningTheDay
<1> QED BY <1>15, <1>17, <1>18 DEF PlanNext

LEMMA PlanInitially == PlanInit => PlanInv
<1> SUFFICES ASSUME PlanInit PROVE PlanInv
  OBVIOUS
<1>1. <<>> \in Left
  <2>1. Ensure \in CallKinds
    BY DEF CallKinds
  <2>2. Rest(Ensure, 1) \in Left
    BY <2>1, RestOfCall, StepsOfCalls
  <2> QED BY <2>2, CallsGoOn
<1>2. steps \in [Planners -> Left] /\ \A p \in Planners : steps[p] = <<>>
  BY <1>1 DEF PlanInit
<1>3. agent = NoAgent /\ edits = 0 /\ release = 1 /\ overwritten = FALSE /\ day = 1 /\ plannedOn = <<>>
  BY DEF PlanInit
<1>4. PromptInv
  BY <1>2, <1>3 DEF PromptInv, Prompts, NoAgent, At, PromptStays
<1>5. DayInv
  BY <1>2, <1>3 DEF DayInv, PlannedOnce, Past
<1> QED BY <1>2, <1>4, <1>5 DEF PlanInv

\* However many ticks there are, a day has one daily plan, unless two of them were
\* past hasPlannedToday at once.
THEOREM OnePlanADay == PlanSpec => []PlannedOnce
<1>1. PlanInv => PlannedOnce
  BY DEF PlanInv, DayInv
<1> QED BY <1>1, PlanInitially, PlanStep, PTL DEF PlanSpec

-----------------------------------------------------------------------------
(* Channel accounts and the imports of the brand profile *)

\* A check that nobody has touched has read the deadline the row still has.
ChannelInv ==
    /\ account \in [Accounts -> [status : {"none", "CONNECTED", "EXPIRED", "REVOKED"}, expires : Nat]]
    /\ now \in Nat /\ newest \subseteq Accounts
    /\ check = [c \in Checkers |-> check[c]]
    /\ \A c \in Checkers :
        \/ check[c] = NoCheck
        \/ /\ check[c] \in [at : {"verify", "flag", "stamp"}, account : Accounts, expires : Nat,
                            connected : BOOLEAN, touched : BOOLEAN]
           /\ ~check[c].touched => check[c].expires = account[check[c].account].expires
    /\ ExpiredIsTrue

LEMMA ChannelStep == ChannelInv /\ [ChannelNext]_channelVars => ChannelInv'
<1> SUFFICES ASSUME ChannelInv, [ChannelNext]_channelVars PROVE ChannelInv'
  OBVIOUS
<1> DEFINE HealthForms == [status : {"none", "CONNECTED", "EXPIRED", "REVOKED"}, expires : Nat]
           Checks == [at : {"verify", "flag", "stamp"}, account : Accounts, expires : Nat,
                      connected : BOOLEAN, touched : BOOLEAN]
           Right(c) == ~check[c].touched => check[c].expires = account[check[c].account].expires
<1>t. /\ account \in [Accounts -> HealthForms] /\ now \in Nat /\ newest \subseteq Accounts
      /\ check = [c \in Checkers |-> check[c]]
      /\ \A c \in Checkers : check[c] = NoCheck \/ (check[c] \in Checks /\ Right(c))
      /\ \A a \in Accounts : account[a].status = "EXPIRED" /\ a \notin tainted => PastDue(account[a].expires)
  BY DEF ChannelInv, ExpiredIsTrue
\* A person's change of a row.
<1>p. ASSUME NEW a \in Accounts, Touch(a), NEW health \in {"CONNECTED", "REVOKED"}, NEW expires \in Nat,
             account' = [account EXCEPT ![a].status = health, ![a].expires = expires], now' = now
      PROVE ChannelInv'
  <2>1. account' \in [Accounts -> HealthForms] /\ account'[a].status = health
        /\ \A b \in Accounts \ {a} : account'[b] = account[b]
    <3> DEFINE put == [account[a] EXCEPT !.status = health, !.expires = expires]
    <3>1. account' = [account EXCEPT ![a] = put] /\ account \in [Accounts -> HealthForms]
      BY <1>p, <1>t
    <3>2. put \in HealthForms /\ put.status = health
      BY <3>1, <1>p
    <3> HIDE DEF put, HealthForms
    <3> QED BY <3>1, <3>2, <1>p
  <2>2. /\ newest' = {a} /\ tainted' = tainted \ {a}
        /\ check' = [c \in Checkers |-> IF check[c] # NoCheck /\ check[c].account = a
                                        THEN [check[c] EXCEPT !.touched = TRUE] ELSE check[c]]
    BY <1>p DEF Touch
  <2>3. ASSUME NEW c \in Checkers
        PROVE  check'[c] = NoCheck \/ (check'[c] \in Checks /\ Right(c)')
    <3>1. CASE check[c] # NoCheck /\ check[c].account = a
      <4>1. check[c] \in Checks /\ check'[c] = [check[c] EXCEPT !.touched = TRUE]
        BY <3>1, <2>2, <1>t
      <4>2. check'[c] \in Checks /\ check'[c].touched
        BY <4>1
      <4> QED BY <4>2
    <3>2. CASE check[c] = NoCheck
      BY <3>2, <2>2
    <3>3. CASE check[c] # NoCheck /\ check[c].account # a
      <4>1. check'[c] = check[c] /\ check[c] \in Checks /\ Right(c)
        BY <3>3, <2>2, <1>t
      <4>2. account'[check[c].account] = account[check[c].account]
        BY <4>1, <3>3, <2>1
      <4> QED BY <4>1, <4>2
    <3> QED BY <3>1, <3>2, <3>3
  <2>4. ASSUME NEW b \in Accounts, account'[b].status = "EXPIRED", b \notin tainted' PROVE PastDue(account[b].expires) /\ b # a
    BY <2>4, <2>1, <2>2, <1>t
  <2>5. check' = [c \in Checkers |-> check'[c]]
    BY <2>2
  <2>6. ExpiredIsTrue'
    BY <2>1, <2>4, <1>p DEF ExpiredIsTrue, PastDue
  <2> QED BY <2>1, <2>2, <2>3, <2>5, <2>6, <1>p, <1>t DEF ChannelInv
<1>1. ASSUME NEW a \in Accounts, ConnectAccount(a) PROVE ChannelInv'
  <2>1. PICK expires \in {Never} \cup now..MaxTime :
          account' = [account EXCEPT ![a].status = "CONNECTED", ![a].expires = IF expires = Never THEN @ ELSE expires]
    BY <1>1 DEF ConnectAccount
  <2> DEFINE deadline == IF expires = Never THEN account[a].expires ELSE expires
  <2>2. deadline \in Nat
    BY <1>t, ChannelsAssumption DEF Never
  <2>3. account' = [account EXCEPT ![a].status = "CONNECTED", ![a].expires = deadline]
    BY <2>1
  <2>4. Touch(a) /\ now' = now
    BY <1>1 DEF ConnectAccount
  <2> HIDE DEF deadline
  <2> QED BY <2>2, <2>3, <2>4, <1>p
<1>2. ASSUME NEW a \in Accounts, DisconnectAccount(a) PROVE ChannelInv'
  <2>1. account' = [account EXCEPT ![a].status = "REVOKED"] /\ Touch(a) /\ now' = now
    BY <1>2 DEF DisconnectAccount
  <2>2. account' = [account EXCEPT ![a].status = "REVOKED", ![a].expires = account[a].expires]
    BY <2>1, <1>t
  <2>3. account[a].expires \in Nat
    BY <1>t
  <2> QED BY <2>1, <2>2, <2>3, <1>p
<1>3. CASE TimePasses
  <2>1. now' = now + 1 /\ UNCHANGED <<account, newest, check, tainted>>
    BY <1>3 DEF TimePasses
  <2>2. \A d \in Nat : PastDue(d) => PastDue(d)'
    BY <2>1, <1>t DEF PastDue
  <2>3. \A a \in Accounts : account[a].expires \in Nat
    BY <1>t
  <2>4. ExpiredIsTrue'
    <3> SUFFICES ASSUME NEW a \in Accounts, account[a].status = "EXPIRED", a \notin tainted
                 PROVE  PastDue(account[a].expires)'
      BY <2>1 DEF ExpiredIsTrue, PastDue
    <3>1. PastDue(account[a].expires)
      BY <1>t
    <3> QED BY <3>1, <2>1, <2>3, <1>t DEF PastDue
  <2> QED BY <2>1, <2>4, <1>t DEF ChannelInv
<1>4. ASSUME NEW c \in Checkers, ReadAccount(c) PROVE ChannelInv'
  <2>1. PICK a \in newest :
          check' = [check EXCEPT ![c] = [at |-> "verify", account |-> a, expires |-> account[a].expires,
                                         connected |-> account[a].status = "CONNECTED", touched |-> FALSE]]
    BY <1>4 DEF ReadAccount
  <2> DEFINE new == [at |-> "verify", account |-> a, expires |-> account[a].expires,
                     connected |-> account[a].status = "CONNECTED", touched |-> FALSE]
  <2>2. UNCHANGED <<account, newest, now, tainted>>
    BY <1>4 DEF ReadAccount
  <2>3. a \in Accounts /\ account[a].expires \in Nat
    BY <1>t
  <2>4. (account[a].status = "CONNECTED") \in BOOLEAN
    OBVIOUS
  <2>5. new \in Checks /\ new.expires = account[new.account].expires
    BY <2>3, <2>4
  <2>6. check' = [check EXCEPT ![c] = new]
    BY <2>1
  <2> HIDE DEF new
  <2>7. check'[c] = new /\ check' = [d \in Checkers |-> check'[d]] /\ \A d \in Checkers \ {c} : check'[d] = check[d]
    BY <2>6, <1>t
  <2>8. \A d \in Checkers : check'[d] = NoCheck \/ (check'[d] \in Checks /\ Right(d)')
    BY <2>2, <2>5, <2>7, <1>t
  <2> QED BY <2>2, <2>7, <2>8, <1>t DEF ChannelInv, ExpiredIsTrue, PastDue
\* The next step of a check, which keeps its reading.
<1>n. ASSUME NEW c \in Checkers, check[c] \in Checks, NEW step \in {"flag", "stamp"},
             check' = [check EXCEPT ![c].at = step],
             \A a \in Accounts : account'[a].expires = account[a].expires
      PROVE  /\ check' = [d \in Checkers |-> check'[d]]
             /\ \A d \in Checkers : check'[d] = NoCheck \/ (check'[d] \in Checks /\ Right(d)')
  <2>1. check' = [d \in Checkers |-> check'[d]] /\ (\A d \in Checkers \ {c} : check'[d] = check[d])
        /\ check'[c] = [check[c] EXCEPT !.at = step]
    BY <1>n, <1>t
  <2>2. check'[c] \in Checks /\ check'[c].touched = check[c].touched /\ check'[c].expires = check[c].expires
        /\ check'[c].account = check[c].account
    BY <2>1, <1>n
  <2>3. check[c] # NoCheck => Right(c)
    BY <1>t
  <2>4. check[c] # NoCheck
    <3>1. check[c].touched \in BOOLEAN /\ DOMAIN check[c] = {"at", "account", "expires", "connected", "touched"}
      BY <1>n
    <3>2. DOMAIN NoCheck = {"at"}
      BY DEF NoCheck
    <3>3. "touched" \notin {"at"}
      OBVIOUS
    <3> QED BY <3>1, <3>2, <3>3
  <2>5. Right(c)'
    BY <2>2, <2>3, <2>4, <1>n
  <2>6. \A d \in Checkers \ {c} : check'[d] = NoCheck \/ (check'[d] \in Checks /\ Right(d)')
    BY <2>1, <1>t, <1>n
  <2> QED BY <2>1, <2>2, <2>5, <2>6
<1>c. ASSUME NEW c \in Checkers, check[c].at # "idle" PROVE check[c] \in Checks /\ Right(c)
  BY <1>c, <1>t DEF NoCheck
<1>5. ASSUME NEW c \in Checkers, Verify(c) PROVE ChannelInv'
  <2>1. check[c].at = "verify" /\ check' = [check EXCEPT ![c].at = "flag"] /\ UNCHANGED <<account, newest, now, tainted>>
    BY <1>5 DEF Verify
  <2>2. check[c] \in Checks
    BY <2>1, <1>c
  <2>3. /\ check' = [d \in Checkers |-> check'[d]]
        /\ \A d \in Checkers : check'[d] = NoCheck \/ (check'[d] \in Checks /\ Right(d)')
    BY <2>1, <2>2, <1>n
  <2> QED BY <2>1, <2>3, <1>t DEF ChannelInv, ExpiredIsTrue, PastDue
<1>6. ASSUME NEW c \in Checkers, Flag(c) PROVE ChannelInv'
  <2> DEFINE a == check[c].account
  <2>1. check[c].at = "flag" /\ check' = [check EXCEPT ![c].at = "stamp"] /\ now' = now
    BY <1>6 DEF Flag
  <2>2. check[c] \in Checks /\ Right(c) /\ a \in Accounts
    BY <2>1, <1>c
  <2>3. CASE ~Expires(c)
    <3>1. UNCHANGED <<account, newest, tainted>>
      BY <1>6, <2>3 DEF Flag
    <3>2. /\ check' = [d \in Checkers |-> check'[d]]
          /\ \A d \in Checkers : check'[d] = NoCheck \/ (check'[d] \in Checks /\ Right(d)')
      BY <2>1, <2>2, <3>1, <1>n
    <3> QED BY <2>1, <3>1, <3>2, <1>t DEF ChannelInv, ExpiredIsTrue, PastDue
  <2>4. CASE Expires(c)
    <3>1. /\ account' = [account EXCEPT ![a].status = "EXPIRED"] /\ newest' = {a}
          /\ tainted' = IF check[c].touched THEN tainted \cup {a} ELSE tainted
      BY <1>6, <2>4 DEF Flag
    <3> HIDE DEF a
    <3>2. account' \in [Accounts -> HealthForms] /\ (\A b \in Accounts \ {a} : account'[b] = account[b])
          /\ account'[a].expires = account[a].expires
      BY <3>1, <2>2, <1>t
    <3>3. \A b \in Accounts : account'[b].expires = account[b].expires
      BY <3>2
    <3>4. /\ check' = [d \in Checkers |-> check'[d]]
          /\ \A d \in Checkers : check'[d] = NoCheck \/ (check'[d] \in Checks /\ Right(d)')
      BY <2>1, <2>2, <3>3, <1>n
    <3>5. a \notin tainted' => PastDue(account[a].expires)
      BY <2>2, <2>4, <3>1 DEF Expires, a
    <3>6. \A b \in Accounts \ {a} : account[b].status = "EXPIRED" /\ b \notin tainted' => PastDue(account[b].expires)
      BY <3>1, <1>t
    <3>7. ExpiredIsTrue'
      BY <2>1, <3>2, <3>3, <3>5, <3>6 DEF ExpiredIsTrue, PastDue
    <3> QED BY <2>1, <2>2, <3>1, <3>2, <3>4, <3>7, <1>t DEF ChannelInv
  <2> QED BY <2>3, <2>4
<1>7. ASSUME NEW c \in Checkers, Stamp(c) PROVE ChannelInv'
  <2>1. newest' = AccountRows /\ check' = [check EXCEPT ![c] = NoCheck] /\ UNCHANGED <<account, now, tainted>>
    BY <1>7 DEF Stamp
  <2>2. check' = [d \in Checkers |-> check'[d]] /\ check'[c] = NoCheck /\ \A d \in Checkers \ {c} : check'[d] = check[d]
    BY <2>1, <1>t
  <2>3. \A d \in Checkers : check'[d] = NoCheck \/ (check'[d] \in Checks /\ Right(d)')
    BY <2>1, <2>2, <1>t
  <2>4. newest' \subseteq Accounts
    BY <2>1 DEF AccountRows
  <2> QED BY <2>1, <2>2, <2>3, <2>4, <1>t DEF ChannelInv, ExpiredIsTrue, PastDue
<1>8. CASE UNCHANGED channelVars
  BY <1>8, <1>t DEF channelVars, ChannelInv, ExpiredIsTrue, PastDue
<1> QED BY <1>1, <1>2, <1>3, <1>4, <1>5, <1>6, <1>7, <1>8 DEF ChannelNext

LEMMA ChannelInitially == ChannelInit => ChannelInv
<1> SUFFICES ASSUME ChannelInit PROVE ChannelInv
  OBVIOUS
<1>1. /\ account = [a \in Accounts |-> NoAccount] /\ newest = {} /\ now = 0
      /\ check = [c \in Checkers |-> NoCheck]
  BY DEF ChannelInit
<1>2. NoAccount \in [status : {"none", "CONNECTED", "EXPIRED", "REVOKED"}, expires : Nat] /\ NoAccount.status = "none"
  BY DEF NoAccount, Never
<1>3. \A a \in Accounts : account[a].status # "EXPIRED"
  BY <1>1, <1>2
<1>4. account \in [Accounts -> [status : {"none", "CONNECTED", "EXPIRED", "REVOKED"}, expires : Nat]]
  BY <1>1, <1>2
<1> QED BY <1>1, <1>3, <1>4 DEF ChannelInv, ExpiredIsTrue

-----------------------------------------------------------------------------
(* The brand profile *)

Imports == [at : {"site", "profile", "check", "write"}, save : BOOLEAN, overwrite : BOOLEAN, existing : BOOLEAN,
            found : SUBSET ReadFields, set : SUBSET ReadFields, crossed : SUBSET ReadFields]

\* An import that has read the profile knows of every human wording, or a person has
\* written since; one that has found no profile has seen none, so that a name written
\* into a new profile takes nobody's away.
BrandInv ==
    /\ profile \in [BrandFields -> Contents] /\ kept \subseteq BrandFields /\ exists \in BOOLEAN
    /\ import = [i \in Importers |-> import[i]]
    /\ \A i \in Importers :
        \/ import[i] = NoImport
        \/ /\ import[i] \in Imports
           /\ import[i].at \in {"check", "write"} =>
                /\ kept \subseteq import[i].set \cup import[i].crossed \cup {UrlField}
                /\ ~import[i].existing => kept \subseteq import[i].crossed \cup {UrlField}
    /\ exists = FALSE => kept = {}
    /\ HumanEditsWin

LEMMA BrandStep == BrandInv /\ [BrandNext]_brandVars => BrandInv'
<1> SUFFICES ASSUME BrandInv, [BrandNext]_brandVars PROVE BrandInv'
  OBVIOUS
<1> DEFINE Knows(i) == import[i].at \in {"check", "write"} =>
                         /\ kept \subseteq import[i].set \cup import[i].crossed \cup {UrlField}
                         /\ ~import[i].existing => kept \subseteq import[i].crossed \cup {UrlField}
<1>t. /\ profile \in [BrandFields -> Contents] /\ kept \subseteq BrandFields /\ exists \in BOOLEAN
      /\ import = [i \in Importers |-> import[i]]
      /\ \A i \in Importers : import[i] = NoImport \/ (import[i] \in Imports /\ Knows(i))
      /\ exists = FALSE => kept = {}
      /\ \A f \in kept : profile[f] = "human"
  BY DEF BrandInv, HumanEditsWin
<1>c. ASSUME NEW i \in Importers, import[i].at # "idle" PROVE import[i] \in Imports /\ Knows(i)
  BY <1>c, <1>t DEF NoImport
\* A step of one import that writes nothing.
<1>n. ASSUME NEW i \in Importers, NEW new, import' = [import EXCEPT ![i] = new], UNCHANGED <<profile, exists, kept>>,
             new = NoImport \/ (new \in Imports /\ (new.at \in {"check", "write"} =>
                                                     /\ kept \subseteq new.set \cup new.crossed \cup {UrlField}
                                                     /\ ~new.existing => kept \subseteq new.crossed \cup {UrlField}))
      PROVE BrandInv'
  <2>1. import' = [j \in Importers |-> import'[j]] /\ import'[i] = new /\ \A j \in Importers \ {i} : import'[j] = import[j]
    BY <1>n, <1>t
  <2>2. \A j \in Importers : import'[j] = NoImport \/ (import'[j] \in Imports /\ Knows(j)')
    BY <2>1, <1>n, <1>t
  <2> QED BY <2>1, <2>2, <1>n, <1>t DEF BrandInv, HumanEditsWin
<1>1. CASE EditProfile
  <2>1. PICK fields \in SUBSET BrandFields \ {{}}, content \in {"human", "empty"} : Write_(fields, content)
    BY <1>1 DEF EditProfile
  <2>2. /\ exists' = TRUE /\ profile' = [f \in BrandFields |-> IF f \in fields THEN content ELSE profile[f]]
        /\ kept' = IF content = "human" THEN kept \cup fields ELSE kept \ fields
        /\ import' = [i \in Importers |-> IF import[i].at \in {"check", "write"}
                                          THEN [import[i] EXCEPT !.crossed = @ \cup (fields \cap ReadFields)] ELSE import[i]]
    BY <2>1 DEF Write_
  <2>3. profile' \in [BrandFields -> Contents] /\ kept' \subseteq BrandFields /\ kept' \subseteq kept \cup fields
    BY <2>2, <1>t DEF Contents
  <2>4. \A f \in kept' : profile'[f] = "human"
    <3>1. CASE content = "human"
      BY <3>1, <2>2, <2>3, <1>t
    <3>2. CASE content = "empty"
      BY <3>2, <2>2, <2>3, <1>t
    <3> QED BY <3>1, <3>2
  <2>5. ASSUME NEW i \in Importers PROVE import'[i] = NoImport \/ (import'[i] \in Imports /\ Knows(i)')
    <3>1. CASE import[i].at \in {"check", "write"}
      <4>1. import[i] \in Imports /\ Knows(i)
        BY <3>1, <1>c
      <4>2. import'[i] = [import[i] EXCEPT !.crossed = import[i].crossed \cup (fields \cap ReadFields)]
        BY <3>1, <2>2
      <4>3. /\ import'[i] \in Imports /\ import'[i].set = import[i].set
            /\ import'[i].crossed = import[i].crossed \cup (fields \cap ReadFields) /\ import'[i].existing = import[i].existing
        BY <4>1, <4>2 DEF Imports
      <4>4. Knows(i)'
        BY <4>1, <4>3, <3>1, <2>3 DEF ReadFields
      <4> QED BY <4>3, <4>4
    <3>2. CASE import[i].at \notin {"check", "write"}
      <4>1. import'[i] = import[i]
        BY <3>2, <2>2
      <4> QED BY <4>1, <3>2, <1>t
    <3> QED BY <3>1, <3>2
  <2>6. import' = [i \in Importers |-> import'[i]]
    BY <2>2
  <2> QED BY <2>2, <2>3, <2>4, <2>5, <2>6 DEF BrandInv, HumanEditsWin
<1>2. ASSUME NEW i \in Importers, Import(i) PROVE BrandInv'
  <2>1. PICK save \in BOOLEAN, overwrite \in BOOLEAN :
          import' = [import EXCEPT ![i] = [at |-> "site", save |-> save, overwrite |-> overwrite, existing |-> FALSE,
                                           found |-> {}, set |-> {}, crossed |-> {}]]
    BY <1>2 DEF Import
  <2> DEFINE new == [at |-> "site", save |-> save, overwrite |-> overwrite, existing |-> FALSE,
                     found |-> {}, set |-> {}, crossed |-> {}]
  <2>2. new \in Imports /\ new.at = "site"
    BY DEF Imports
  <2>3. UNCHANGED <<profile, exists, kept>> /\ import' = [import EXCEPT ![i] = new]
    BY <1>2, <2>1 DEF Import
  <2> HIDE DEF new
  <2>4. new.at \notin {"check", "write"}
    BY <2>2
  <2> QED BY <2>2, <2>3, <2>4, <1>n
<1>3. ASSUME NEW i \in Importers, ReadSite(i) PROVE BrandInv'
  <2>1. import[i].at = "site" /\ UNCHANGED <<profile, exists, kept>>
    BY <1>3 DEF ReadSite
  <2>2. import[i] \in Imports
    BY <2>1, <1>c
  <2>3. ASSUME NEW found \in SUBSET ReadFields, import' = [import EXCEPT ![i].at = "profile", ![i].found = found]
        PROVE BrandInv'
    <3> DEFINE new == [import[i] EXCEPT !.at = "profile", !.found = found]
    <3>1. import' = [import EXCEPT ![i] = new]
      BY <2>3, <1>t
    <3>2. new \in Imports /\ new.at = "profile"
      BY <2>2 DEF Imports
    <3> HIDE DEF new
    <3>3. new.at \notin {"check", "write"}
      BY <3>2
    <3> QED BY <3>1, <3>2, <3>3, <2>1, <1>n
  <2>4. CASE import' = [import EXCEPT ![i] = NoImport]
    BY <2>1, <2>4, <1>n
  <2>5. ASSUME NEW findings, import' = [import EXCEPT ![i].at = "profile", ![i].found = {f \in ReadFields : findings[f] = "sure"}]
        PROVE  BrandInv'
    <3> DEFINE sure == {f \in ReadFields : findings[f] = "sure"}
    <3>1. sure \in SUBSET ReadFields
      OBVIOUS
    <3> HIDE DEF sure
    <3>2. import' = [import EXCEPT ![i].at = "profile", ![i].found = sure]
      BY <2>5 DEF sure
    <3> QED BY <3>1, <3>2, <2>3
  <2> QED BY <1>3, <2>4, <2>5 DEF ReadSite
<1>4. ASSUME NEW i \in Importers, ReadProfile(i) PROVE BrandInv'
  <2> DEFINE set == {f \in ReadFields : profile[f] # "empty"}
             step == IF exists THEN "check" ELSE "write"
             new == [import[i] EXCEPT !.at = step, !.existing = exists, !.set = set]
  <2>1. /\ import[i].at = "profile" /\ UNCHANGED <<profile, exists, kept>>
        /\ import' = [import EXCEPT ![i].at = step, ![i].existing = exists, ![i].set = set]
    BY <1>4 DEF ReadProfile
  <2>2. import[i] \in Imports
    BY <2>1, <1>c
  <2>3. import' = [import EXCEPT ![i] = new]
    BY <2>1, <1>t
  <2>4. kept \subseteq set \cup {UrlField} /\ set \subseteq ReadFields
    BY <1>t DEF ReadFields
  <2> HIDE DEF set
  <2>5. new \in Imports /\ new.set = set /\ new.existing = exists
    BY <2>2, <2>4, <1>t DEF Imports
  <2>6. /\ kept \subseteq new.set \cup new.crossed \cup {UrlField}
        /\ ~new.existing => kept \subseteq new.crossed \cup {UrlField}
    BY <2>4, <2>5, <1>t
  <2> HIDE DEF new
  <2> QED BY <2>1, <2>3, <2>5, <2>6, <1>n
<1>5. ASSUME NEW i \in Importers, FindProfile(i) PROVE BrandInv'
  <2> DEFINE new == [import[i] EXCEPT !.at = "write"]
  <2>1. /\ import[i].at = "check" /\ UNCHANGED <<profile, exists, kept>>
        /\ import' = [import EXCEPT ![i].at = "write"]
    BY <1>5 DEF FindProfile
  <2>2. import[i] \in Imports /\ Knows(i)
    BY <2>1, <1>c
  <2>3. import' = [import EXCEPT ![i] = new]
    BY <2>1, <1>t
  <2>4. new \in Imports /\ new.set = import[i].set /\ new.crossed = import[i].crossed /\ new.existing = import[i].existing
    BY <2>2 DEF Imports
  <2> HIDE DEF new
  <2> QED BY <2>1, <2>2, <2>3, <2>4, <1>n
<1>6. ASSUME NEW i \in Importers, Persist(i) PROVE BrandInv'
  <2>1. /\ import[i].at = "write"
        /\ profile' = [f \in BrandFields |-> IF f \in Written(i) THEN "site" ELSE profile[f]]
        /\ exists' = TRUE
        /\ kept' = kept \ {f \in Written(i) : f = UrlField \/ import[i].overwrite \/ f \in import[i].crossed}
        /\ import' = [import EXCEPT ![i] = NoImport]
    BY <1>6 DEF Persist
  <2>2. import[i] \in Imports /\ kept \subseteq import[i].set \cup import[i].crossed \cup {UrlField}
        /\ (~import[i].existing => kept \subseteq import[i].crossed \cup {UrlField})
    BY <2>1, <1>c
  <2>3. \A f \in kept' : f \in kept /\ f \notin Written(i)
    <3> SUFFICES ASSUME NEW f \in kept, f \in Written(i), f # UrlField, ~import[i].overwrite, f \notin import[i].crossed PROVE FALSE
      BY <2>1
    <3>1. f \in import[i].set /\ import[i].existing
      BY <2>2
    <3> QED BY <3>1 DEF Written, Saved
  <2>4. profile' \in [BrandFields -> Contents] /\ kept' \subseteq kept
    BY <2>1, <1>t DEF Contents
  <2>5. \A f \in kept' : profile'[f] = "human"
    BY <2>1, <2>3, <1>t
  <2>6. import' = [j \in Importers |-> import'[j]] /\ import'[i] = NoImport /\ \A j \in Importers \ {i} : import'[j] = import[j]
    BY <2>1, <1>t
  <2>7. \A j \in Importers : import'[j] = NoImport \/ (import'[j] \in Imports /\ Knows(j)')
    BY <2>4, <2>6, <1>t
  <2> QED BY <2>1, <2>4, <2>5, <2>6, <2>7, <1>t DEF BrandInv, HumanEditsWin
<1>7. CASE UNCHANGED brandVars
  BY <1>7, <1>t DEF brandVars, BrandInv, HumanEditsWin
<1> QED BY <1>1, <1>2, <1>3, <1>4, <1>5, <1>6, <1>7 DEF BrandNext

LEMMA BrandInitially == BrandInit => BrandInv
  BY DEF BrandInit, BrandInv, Contents, HumanEditsWin

-----------------------------------------------------------------------------
(* What people have written or connected *)

\* The services rest while one of them moves: what each module's steps preserve,
\* every step of the whole preserves.
LEMMA EditsInitially == ServicesInit => PlanInv /\ ChannelInv /\ BrandInv
  BY PlanInitially, ChannelInitially, BrandInitially DEF ServicesInit

LEMMA EditsStep ==
    PlanInv /\ ChannelInv /\ BrandInv /\ [ServicesNext]_<<part, servicesVars, gateVars, moreVars>> =>
        PlanInv' /\ ChannelInv' /\ BrandInv'
<1> SUFFICES ASSUME PlanInv, ChannelInv, BrandInv, [ServicesNext]_<<part, servicesVars, gateVars, moreVars>>
             PROVE  PlanInv' /\ ChannelInv' /\ BrandInv'
  OBVIOUS
<1>1. [PlanNext]_planVars
  BY DEF ServicesNext, moreVars, PlanNext
<1>2. [ChannelNext]_channelVars
  BY DEF ServicesNext, moreVars
<1>3. [BrandNext]_brandVars
  BY DEF ServicesNext, moreVars
<1> QED BY <1>1, <1>2, <1>3, PlanStep, ChannelStep, BrandStep

\* What people have written or connected is not undone by what runs by itself,
\* whatever else the services do, but for the exceptions the three modules name.
THEOREM EditsAreKept == ServicesSpec => []EditsStay
<1>1. PlanInv /\ ChannelInv /\ BrandInv => EditsStay
  BY DEF PlanInv, PromptInv, ChannelInv, BrandInv, EditsStay
<1> QED BY <1>1, EditsInitially, EditsStep, PTL DEF ServicesSpec

-----------------------------------------------------------------------------
(* Requests: the object the cache hands to all requests of a user *)

Contents_ == [role : Ranks \cup {"none"}, org : Tenants \cup {"none"}, stale : BOOLEAN]

Reqs == [pc : {"idle", "query", "store", "member", "run", "served", "refused"}, gated : BOOLEAN,
         org : Tenants \cup {"none"}, user : Objects \cup {0}, seen : BOOLEAN,
         acts : Tenants \cup {"none"}, mixed : BOOLEAN, sure : BOOLEAN]

\* What is so of a request q, by its step, when the memberships are b and the
\* objects obs: before the guards it holds no object; where no other request came
\* between, its object says what it named; and its route was decided by its role.
RequestOK(q, b, obs) ==
    /\ q \in Reqs
    /\ q.pc \in {"query", "store", "member", "run", "served"} => q.org \in Tenants
    /\ q.pc \in {"query", "store"} => q.user = 0 /\ ~q.sure /\ ~q.mixed
    /\ q.pc \in {"member", "run"} => q.user \in Objects
    /\ q.pc = "member" => ~q.gated
    /\ q.pc = "run" /\ ~q.gated /\ ~q.mixed => obs[q.user].org = q.org
    /\ q.pc = "served" => q.acts = q.org \/ q.mixed
    /\ q.gated /\ q.sure => q.org \in Tenants /\ (q.pc \in {"run", "served"} <=> b[q.org] \in Gate)

\* An object that nobody's change has made stale has the row's role in it.
ObjectOK(object, b) ==
    /\ object \in Contents_
    /\ object.org # "none" /\ ~object.stale => object.role = b[object.org]

RequestInv ==
    /\ active \in BOOLEAN /\ belongs \in [Tenants -> Ranks \cup {"none"}]
    /\ entry \in Objects \cup {Miss, Null}
    /\ objects = [k \in Objects |-> objects[k]] /\ \A k \in Objects : ObjectOK(objects[k], belongs)
    /\ reqs = [r \in Inflight |-> reqs[r]] /\ \A r \in Inflight : RequestOK(reqs[r], belongs, objects)
    /\ AccessFollows

\* The numbers of the objects, none of which says that there is nothing.
LEMMA ObjectNumbers ==
    /\ Cardinality(Inflight) \in Nat /\ Objects = 1..(Cardinality(Inflight) + 1)
    /\ IsFiniteSet(Objects) /\ Cardinality(Objects) = Cardinality(Inflight) + 1
    /\ Miss \notin Objects /\ Null \notin Objects /\ Miss # Null /\ 0 \notin Objects
<1>1. Cardinality(Inflight) \in Nat
  BY RequestsAssumption, FS_CardinalityType
<1>2. IsFiniteSet(1..(Cardinality(Inflight) + 1)) /\ Cardinality(1..(Cardinality(Inflight) + 1)) = Cardinality(Inflight) + 1
  <2>1. 1 \in Int /\ Cardinality(Inflight) + 1 \in Int
    BY <1>1
  <2>2. IsFiniteSet(1..(Cardinality(Inflight) + 1))
        /\ Cardinality(1..(Cardinality(Inflight) + 1)) =
             IF 1 > Cardinality(Inflight) + 1 THEN 0 ELSE (Cardinality(Inflight) + 1) - 1 + 1
    BY <2>1, FS_Interval
  <2> QED BY <2>2, <1>1
<1> QED BY <1>1, <1>2 DEF Objects, Miss, Null

\* There are more objects than the cache and the other requests can hold.
LEMMA OneIsUnheld ==
    ASSUME NEW r \in Inflight, reqs[r].user = 0
    PROVE  Unheld \in Objects /\ ~Held(Unheld, entry, reqs)
<1> SUFFICES ASSUME \A k \in Objects : Held(k, entry, reqs) PROVE FALSE
  BY DEF Unheld
<1> DEFINE f == [k \in Objects |-> IF k = entry THEN r ELSE CHOOSE q \in Inflight : reqs[q].user = k]
<1>1. \A k \in Objects : k # entry => f[k] \in Inflight /\ reqs[f[k]].user = k
  BY DEF Held
<1>2. f \in [Objects -> Inflight]
  BY <1>1
<1>3. \A k \in Objects : k = entry => f[k] = r
  OBVIOUS
<1>4. 0 \notin Objects
  BY ObjectNumbers
<1> HIDE DEF f
<1>5. \A k, m \in Objects : f[k] = f[m] => k = m
  BY <1>1, <1>3, <1>4
<1>6. IsFiniteSet(Objects) /\ IsFiniteSet(Inflight) /\ Cardinality(Inflight) < Cardinality(Objects)
  BY ObjectNumbers, RequestsAssumption
<1>7. \E k, m \in Objects : k # m /\ f[k] = f[m]
  BY <1>2, <1>6, FS_PigeonHole
<1> QED BY <1>5, <1>7

LEMMA FreshIsOK == \A b : Fresh \in Contents_ /\ ObjectOK(Fresh, b) /\ Fresh.org = "none"
  BY DEF Fresh, Contents_, ObjectOK

\* A step of one request that keeps the memberships. Garbage is collected, and what
\* another request or the cache holds stays as it is.
LEMMA RequestMoves ==
    ASSUME RequestInv, NEW r \in Inflight, NEW new, reqs' = [reqs EXCEPT ![r] = new], UNCHANGED belongs,
           RequestOK(new, belongs, objects'),
           objects' = objects \/ objects' = Collected(objects, entry', reqs')
    PROVE  /\ reqs' = [q \in Inflight |-> reqs'[q]]
           /\ \A q \in Inflight : RequestOK(reqs'[q], belongs', objects')
           /\ objects' = [k \in Objects |-> objects'[k]] /\ \A k \in Objects : ObjectOK(objects'[k], belongs')
<1>1. /\ reqs' = [q \in Inflight |-> reqs'[q]] /\ reqs'[r] = new
      /\ \A q \in Inflight \ {r} : reqs'[q] = reqs[q]
  BY DEF RequestInv
<1>2. /\ objects = [k \in Objects |-> objects[k]] /\ \A k \in Objects : ObjectOK(objects[k], belongs)
      /\ \A q \in Inflight : RequestOK(reqs[q], belongs, objects)
  BY DEF RequestInv
<1>3. /\ objects' = [k \in Objects |-> objects'[k]] /\ \A k \in Objects : ObjectOK(objects'[k], belongs)
      /\ \A q \in Inflight : reqs'[q].user \in Objects => objects'[reqs'[q].user] = objects[reqs'[q].user]
  <2>1. CASE objects' = objects
    BY <2>1, <1>2
  <2>2. CASE objects' = Collected(objects, entry', reqs')
    <3> DEFINE held(k) == k = entry' \/ \E q \in Inflight : reqs'[q].user = k
    <3>1. objects' = [k \in Objects |-> IF held(k) THEN objects[k] ELSE Fresh]
      BY <2>2 DEF Collected, Held
    <3>2. \A q \in Inflight : held(reqs'[q].user)
      OBVIOUS
    <3> HIDE DEF held
    <3>3. \A k \in Objects : objects'[k] = IF held(k) THEN objects[k] ELSE Fresh
      BY <3>1
    <3>4. \A k \in Objects : ObjectOK(objects'[k], belongs)
      BY <3>3, <1>2, FreshIsOK
    <3>5. objects' = [k \in Objects |-> objects'[k]]
      BY <3>1
    <3> QED BY <3>2, <3>3, <3>4, <3>5
  <2> QED BY <2>1, <2>2
<1>4. ASSUME NEW q \in Inflight, q # r PROVE RequestOK(reqs'[q], belongs, objects')
  <2>1. reqs'[q] = reqs[q] /\ RequestOK(reqs[q], belongs, objects)
    BY <1>1, <1>2, <1>4
  <2>2. reqs[q].user \in Objects => objects'[reqs[q].user] = objects[reqs[q].user]
    BY <1>3, <2>1
  <2> QED BY <2>1, <2>2 DEF RequestOK
<1> QED BY <1>1, <1>3, <1>4

\* Past RolesGuard, with an object whose role, when it is of the organization and
\* not stale, is the row's.
Passed(request, k, object) ==
    [request EXCEPT
        !.user = k,
        !.pc = IF ~request.gated THEN "member" ELSE IF object.role \in Gate THEN "run" ELSE "refused",
        !.sure = object.org = request.org /\ ~object.stale]

LEMMA PassedIsOK ==
    ASSUME NEW request \in Reqs, NEW k \in Objects, NEW object, NEW b, NEW obs, ObjectOK(object, b),
           request.org \in Tenants, ~request.mixed
    PROVE  RequestOK(Passed(request, k, object), b, obs)
<1> DEFINE step == IF ~request.gated THEN "member" ELSE IF object.role \in Gate THEN "run" ELSE "refused"
           sure == object.org = request.org /\ ~object.stale
           new == Passed(request, k, object)
<1>1. sure \in BOOLEAN /\ step \in {"member", "run", "refused"}
  <2>1. object.stale \in BOOLEAN
    BY DEF ObjectOK, Contents_
  <2> QED BY <2>1
<1>2. new = [request EXCEPT !.user = k, !.pc = step, !.sure = sure]
  BY DEF Passed
<1>3. sure => object.role = b[request.org]
  BY RequestsAssumption DEF ObjectOK
<1>4. step = "member" <=> ~request.gated
  OBVIOUS
<1>5. request.gated => (step = "run" <=> object.role \in Gate)
  OBVIOUS
<1> HIDE DEF step, sure, new
<1>6. /\ new \in Reqs /\ new.user = k /\ new.pc = step /\ new.sure = sure /\ new.gated = request.gated
      /\ new.org = request.org /\ new.mixed = request.mixed
  BY <1>1, <1>2 DEF Reqs
<1>7. RequestOK(new, b, obs)
  BY <1>1, <1>3, <1>4, <1>5, <1>6 DEF RequestOK
<1> QED BY <1>7 DEF new

LEMMA RequestStep == RequestInv /\ [RequestNext]_requestVars => RequestInv'
<1> SUFFICES ASSUME RequestInv, [RequestNext]_requestVars PROVE RequestInv'
  OBVIOUS
<1>t. /\ active \in BOOLEAN /\ belongs \in [Tenants -> Ranks \cup {"none"}]
      /\ entry \in Objects \cup {Miss, Null}
      /\ objects = [k \in Objects |-> objects[k]] /\ \A k \in Objects : ObjectOK(objects[k], belongs)
      /\ reqs = [r \in Inflight |-> reqs[r]] /\ \A r \in Inflight : RequestOK(reqs[r], belongs, objects)
      /\ AccessFollows
  BY DEF RequestInv
<1>n. NoRequestYet \in Reqs /\ NoRequestYet.pc = "idle" /\ NoRequestYet.gated = FALSE /\ NoRequestYet.sure = FALSE
      /\ NoRequestYet.user = 0 /\ NoRequestYet.mixed = FALSE
  BY DEF NoRequestYet, Reqs
<1>i. \A b, obs : RequestOK(NoRequestYet, b, obs)
  BY <1>n DEF RequestOK
<1>f. \A b, obs : RequestOK([NoRequestYet EXCEPT !.pc = "refused"], b, obs)
  <2> DEFINE new == [NoRequestYet EXCEPT !.pc = "refused"]
  <2>1. new \in Reqs /\ new.pc = "refused" /\ new.gated = FALSE
    BY <1>n DEF Reqs
  <2> HIDE DEF new
  <2>2. \A b, obs : RequestOK(new, b, obs)
    BY <2>1 DEF RequestOK
  <2> QED BY <2>2 DEF new
\* A step of one request that leaves the cache alone.
<1>s. ASSUME NEW r \in Inflight, NEW new, reqs' = [reqs EXCEPT ![r] = new], RequestOK(new, belongs, objects'),
             UNCHANGED <<active, belongs, entry, lag>>,
             objects' = objects \/ objects' = Collected(objects, entry, reqs')
      PROVE RequestInv'
  <2>1. objects' = objects \/ objects' = Collected(objects, entry', reqs')
    BY <1>s
  <2>2. /\ reqs' = [q \in Inflight |-> reqs'[q]] /\ \A q \in Inflight : RequestOK(reqs'[q], belongs', objects')
        /\ objects' = [k \in Objects |-> objects'[k]] /\ \A k \in Objects : ObjectOK(objects'[k], belongs')
    BY <1>s, <2>1, RequestMoves
  <2>3. AccessFollows'
    BY <1>s, <1>t DEF AccessFollows
  <2> QED BY <2>2, <2>3, <1>s, <1>t DEF RequestInv
<1>1. ASSUME NEW r \in Inflight, NEW gated \in BOOLEAN, NEW fits \in BOOLEAN, NEW o \in Tenants, Arrive(r, gated, o, fits)
      PROVE RequestInv'
  <2> DEFINE came == [NoRequestYet EXCEPT !.gated = gated, !.org = o]
  <2>1. UNCHANGED <<active, belongs, entry, lag>> /\ objects' = objects
    BY <1>1 DEF Arrive
  <2>2. came \in Reqs /\ came.gated = gated /\ came.org = o /\ came.user = 0 /\ ~came.sure /\ ~came.mixed
    BY <1>n DEF Reqs
  <2>3. IF ~fits \/ entry = Null THEN reqs' = [reqs EXCEPT ![r] = [NoRequestYet EXCEPT !.pc = "refused"]]
        ELSE IF entry = Miss THEN reqs' = [reqs EXCEPT ![r] = [came EXCEPT !.pc = "query"]]
        ELSE reqs' = [reqs EXCEPT ![r] = Passed(came, entry, objects[entry])]
    BY <1>1 DEF Arrive, PassRoles, Passed, Refuse
  <2> HIDE DEF came
  <2>4. RequestOK([came EXCEPT !.pc = "query"], belongs, objects')
    <3> DEFINE new == [came EXCEPT !.pc = "query"]
    <3>1. /\ new \in Reqs /\ new.pc = "query" /\ new.org = o /\ new.user = 0 /\ ~new.sure /\ ~new.mixed
      BY <2>2 DEF Reqs
    <3> HIDE DEF new
    <3>2. RequestOK(new, belongs, objects')
      BY <3>1 DEF RequestOK
    <3> QED BY <3>2 DEF new
  <2>5. CASE ~fits \/ entry = Null
    BY <2>1, <2>3, <2>5, <1>f, <1>s
  <2>6. CASE ~(~fits \/ entry = Null) /\ entry = Miss
    BY <2>1, <2>3, <2>4, <2>6, <1>s
  <2>7. CASE ~(~fits \/ entry = Null) /\ entry # Miss
    <3>1. entry \in Objects /\ ObjectOK(objects[entry], belongs)
      BY <2>7, <1>t
    <3>2. RequestOK(Passed(came, entry, objects[entry]), belongs, objects')
      BY <2>2, <3>1, PassedIsOK
    <3>3. reqs' = [reqs EXCEPT ![r] = Passed(came, entry, objects[entry])]
      BY <2>3, <2>7
    <3> QED BY <2>1, <3>2, <3>3, <1>s
  <2> QED BY <2>5, <2>6, <2>7
<1>2. ASSUME NEW r \in Inflight, ReadUser(r) PROVE RequestInv'
  <2> DEFINE new == [reqs[r] EXCEPT !.pc = "store", !.seen = active]
  <2>1. /\ reqs[r].pc = "query" /\ UNCHANGED <<active, belongs, entry, lag>> /\ objects' = objects
        /\ reqs' = [reqs EXCEPT ![r].pc = "store", ![r].seen = active]
    BY <1>2 DEF ReadUser
  <2>2. reqs' = [reqs EXCEPT ![r] = new]
    BY <2>1, <1>t
  <2>3. RequestOK(reqs[r], belongs, objects)
    BY <1>t
  <2>4. reqs[r] \in Reqs /\ reqs[r].org \in Tenants /\ reqs[r].user = 0 /\ ~reqs[r].sure /\ ~reqs[r].mixed
    BY <2>1, <2>3 DEF RequestOK
  <2>5. new \in Reqs /\ new.pc = "store" /\ new.org \in Tenants /\ new.user = 0 /\ ~new.sure /\ ~new.mixed
    BY <2>4, <1>t DEF Reqs
  <2> HIDE DEF new
  <2>6. RequestOK(new, belongs, objects')
    BY <2>5 DEF RequestOK
  <2> QED BY <2>1, <2>2, <2>6, <1>s
<1>3. ASSUME NEW r \in Inflight, StoreUser(r) PROVE RequestInv'
  <2> DEFINE read == [reqs[r] EXCEPT !.seen = FALSE]
  <2>1. /\ reqs[r].pc = "store" /\ UNCHANGED <<active, belongs>>
        /\ objects' = Collected(objects, entry', reqs')
        /\ lag' = IF reqs[r].seen = active THEN "none" ELSE "late"
        /\ IF reqs[r].seen
           THEN entry' = Unheld /\ reqs' = [reqs EXCEPT ![r] = Passed(read, Unheld, Fresh)]
           ELSE entry' = Null /\ reqs' = [reqs EXCEPT ![r] = [NoRequestYet EXCEPT !.pc = "refused"]]
    BY <1>3 DEF StoreUser, LetsIn, PassRoles, Passed, Refuse
  <2>2. RequestOK(reqs[r], belongs, objects)
    BY <1>t
  <2>3. reqs[r] \in Reqs /\ reqs[r].org \in Tenants /\ reqs[r].user = 0 /\ reqs[r].seen \in BOOLEAN
      /\ ~reqs[r].mixed
    BY <2>1, <2>2 DEF RequestOK, Reqs
  <2>r. read \in Reqs /\ read.org \in Tenants /\ ~read.mixed
    BY <2>3 DEF Reqs
  <2> HIDE DEF read
  <2>m. RequestOK(Passed(read, Unheld, Fresh), belongs, objects')
    <3>1. Unheld \in Objects
      BY <2>3, OneIsUnheld
    <3>2. ObjectOK(Fresh, belongs)
      BY FreshIsOK
    <3> QED BY <2>r, <3>1, <3>2, PassedIsOK
  <2>4. CASE reqs[r].seen
    <3>1. entry' = Unheld /\ reqs' = [reqs EXCEPT ![r] = Passed(read, Unheld, Fresh)]
      BY <2>1, <2>4
    <3>2. Unheld \in Objects
      BY <2>3, OneIsUnheld
    <3>4. /\ reqs' = [q \in Inflight |-> reqs'[q]] /\ \A q \in Inflight : RequestOK(reqs'[q], belongs', objects')
          /\ objects' = [k \in Objects |-> objects'[k]] /\ \A k \in Objects : ObjectOK(objects'[k], belongs')
      BY <2>1, <3>1, <2>m, RequestMoves
    <3>5. entry' # Null
      BY <3>1, <3>2, ObjectNumbers
    <3>6. AccessFollows'
      BY <2>1, <2>4, <3>5, <1>t DEF AccessFollows
    <3> QED BY <2>1, <3>1, <3>2, <3>4, <3>6, <1>t DEF RequestInv
  <2>5. CASE ~reqs[r].seen
    <3>1. entry' = Null /\ reqs' = [reqs EXCEPT ![r] = [NoRequestYet EXCEPT !.pc = "refused"]]
      BY <2>1, <2>5
    <3>4. /\ reqs' = [q \in Inflight |-> reqs'[q]] /\ \A q \in Inflight : RequestOK(reqs'[q], belongs', objects')
          /\ objects' = [k \in Objects |-> objects'[k]] /\ \A k \in Objects : ObjectOK(objects'[k], belongs')
      BY <2>1, <3>1, <1>f, RequestMoves
    <3>6. AccessFollows'
      BY <2>1, <2>3, <2>5, <3>1, <1>t DEF AccessFollows
    <3> QED BY <2>1, <3>1, <3>4, <3>6, <1>t DEF RequestInv
  <2> QED BY <2>4, <2>5
<1>4. ASSUME NEW r \in Inflight, Admit(r) PROVE RequestInv'
  <2>1. reqs[r].pc = "member" /\ UNCHANGED <<active, belongs, entry, turns, lag>>
    BY <1>4 DEF Admit
  <2>2. RequestOK(reqs[r], belongs, objects)
    BY <1>t
  <2>3. reqs[r] \in Reqs /\ reqs[r].org \in Tenants /\ reqs[r].user \in Objects /\ ~reqs[r].gated
    BY <2>1, <2>2 DEF RequestOK
  <2>4. CASE belongs[reqs[r].org] = "none"
    <3>1. reqs' = [reqs EXCEPT ![r] = [NoRequestYet EXCEPT !.pc = "refused"]] /\ objects' = Collected(objects, entry, reqs')
      BY <1>4, <2>4 DEF Admit, Refuse
    <3> QED BY <2>1, <3>1, <1>f, <1>s
  <2>5. CASE belongs[reqs[r].org] # "none"
    <3> DEFINE u == reqs[r].user
               o == reqs[r].org
               put == Attached(objects[u], o)
    <3>1. /\ objects' = [objects EXCEPT ![u] = put]
          /\ reqs' = [q \in Inflight |->
                IF q = r THEN [reqs[r] EXCEPT !.pc = "run"]
                ELSE IF q \in Sharing(r) THEN [reqs[q] EXCEPT !.mixed = TRUE] ELSE reqs[q]]
      BY <1>4, <2>5 DEF Admit, Attached
    <3>2. put \in Contents_ /\ put.org = o /\ put.role = belongs[o] /\ put.stale = FALSE
      BY <2>3, <1>t DEF Attached, Contents_
    <3>o. o \in Tenants /\ u \in Objects
      BY <2>3
    <3> HIDE DEF put, u
    <3>3. /\ objects' = [k \in Objects |-> objects'[k]] /\ objects'[u] = put
          /\ \A k \in Objects \ {u} : objects'[k] = objects[k]
      BY <3>1, <3>o, <1>t
    <3>4. \A k \in Objects : ObjectOK(objects'[k], belongs)
      BY <3>2, <3>3, <1>t DEF ObjectOK
    <3>5. ASSUME NEW q \in Inflight PROVE RequestOK(reqs'[q], belongs, objects')
      <4>1. CASE q = r
        <5> DEFINE new == [reqs[r] EXCEPT !.pc = "run"]
        <5>1. reqs'[q] = new
          BY <3>1, <4>1
        <5>2. /\ new \in Reqs /\ new.pc = "run" /\ new.org = o /\ new.user = u /\ ~new.gated
          BY <2>3 DEF Reqs, u
        <5> HIDE DEF new
        <5>3. RequestOK(new, belongs, objects')
          BY <5>2, <3>2, <3>3, <3>o DEF RequestOK
        <5> QED BY <5>1, <5>3
      <4>2. CASE q # r /\ q \in Sharing(r)
        <5> DEFINE new == [reqs[q] EXCEPT !.mixed = TRUE]
        <5>1. reqs'[q] = new
          BY <3>1, <4>2
        <5>2. RequestOK(reqs[q], belongs, objects) /\ reqs[q].pc = "run" /\ ~reqs[q].gated
          BY <4>2, <1>t DEF Sharing
        <5>3. reqs[q] \in Reqs /\ reqs[q].org \in Tenants /\ reqs[q].user \in Objects
          BY <5>2 DEF RequestOK
        <5>4. /\ new \in Reqs /\ new.pc = "run" /\ new.org \in Tenants /\ new.user \in Objects /\ ~new.gated /\ new.mixed
          BY <5>2, <5>3 DEF Reqs
        <5> HIDE DEF new
        <5>5. RequestOK(new, belongs, objects')
          BY <5>4 DEF RequestOK
        <5> QED BY <5>1, <5>5
      <4>3. CASE q # r /\ q \notin Sharing(r)
        <5>1. reqs'[q] = reqs[q] /\ RequestOK(reqs[q], belongs, objects)
          BY <3>1, <4>3, <1>t
        <5>2. reqs[q].pc = "run" /\ ~reqs[q].gated /\ reqs[q].user = u => reqs[q].org = o
          BY <4>3 DEF Sharing, u
        <5>3. reqs[q].pc = "run" /\ ~reqs[q].gated /\ ~reqs[q].mixed => objects'[reqs[q].user].org = reqs[q].org
          BY <5>1, <5>2, <3>2, <3>3 DEF RequestOK
        <5> QED BY <5>1, <5>3 DEF RequestOK
      <4> QED BY <4>1, <4>2, <4>3
    <3>6. reqs' = [q \in Inflight |-> reqs'[q]]
      BY <3>1
    <3>7. AccessFollows'
      BY <2>1, <1>t DEF AccessFollows
    <3> QED BY <2>1, <3>3, <3>4, <3>5, <3>6, <3>7, <1>t DEF RequestInv
  <2> QED BY <2>4, <2>5
<1>5. ASSUME NEW r \in Inflight, Handle(r) PROVE RequestInv'
  <2> DEFINE acts == IF reqs[r].gated THEN reqs[r].org ELSE objects[reqs[r].user].org
             new == [reqs[r] EXCEPT !.pc = "served", !.acts = acts]
  <2>1. /\ reqs[r].pc = "run" /\ UNCHANGED <<active, belongs, entry, lag>> /\ objects' = objects
        /\ reqs' = [reqs EXCEPT ![r].pc = "served", ![r].acts = acts]
    BY <1>5 DEF Handle
  <2>2. reqs' = [reqs EXCEPT ![r] = new]
    BY <2>1, <1>t
  <2>3. RequestOK(reqs[r], belongs, objects)
    BY <1>t
  <2>4. reqs[r] \in Reqs /\ reqs[r].org \in Tenants /\ reqs[r].user \in Objects
    BY <2>1, <2>3 DEF RequestOK
  <2>5. ObjectOK(objects[reqs[r].user], belongs)
    BY <2>4, <1>t
  <2>6. acts \in Tenants \cup {"none"} /\ (acts = reqs[r].org \/ reqs[r].mixed)
    BY <2>1, <2>3, <2>4, <2>5 DEF RequestOK, ObjectOK, Contents_
  <2> HIDE DEF acts
  <2>7. /\ new \in Reqs /\ new.pc = "served" /\ new.org = reqs[r].org /\ new.acts = acts /\ new.mixed = reqs[r].mixed
        /\ new.gated = reqs[r].gated /\ new.sure = reqs[r].sure
    BY <2>4, <2>6 DEF Reqs
  <2> HIDE DEF new
  <2>8. RequestOK(new, belongs, objects')
    BY <2>1, <2>3, <2>4, <2>6, <2>7 DEF RequestOK
  <2> QED BY <2>1, <2>2, <2>8, <1>s
<1>6. ASSUME NEW r \in Inflight, Respond(r) PROVE RequestInv'
  <2>1. /\ reqs' = [reqs EXCEPT ![r] = NoRequestYet] /\ objects' = Collected(objects, entry, reqs')
        /\ UNCHANGED <<active, belongs, entry, lag>>
    BY <1>6 DEF Respond
  <2> QED BY <2>1, <1>i, <1>s
<1>7. CASE ForgetUser
  <2>1. /\ entry' = Miss /\ lag' = "none" /\ objects' = Collected(objects, Miss, reqs) /\ UNCHANGED <<active, belongs, reqs>>
    BY <1>7 DEF ForgetUser
  <2>2. /\ objects' = [k \in Objects |-> objects'[k]] /\ \A k \in Objects : ObjectOK(objects'[k], belongs)
        /\ \A q \in Inflight : reqs[q].user \in Objects => objects'[reqs[q].user] = objects[reqs[q].user]
    BY <2>1, <1>t, FreshIsOK DEF Collected, Held
  <2>3. \A q \in Inflight : RequestOK(reqs[q], belongs, objects')
    BY <2>2, <1>t DEF RequestOK
  <2> QED BY <2>1, <2>2, <2>3, <1>t DEF RequestInv, AccessFollows
<1>8. CASE SetActive
  <2>1. /\ active' = ~active /\ lag' = (IF entry = Miss THEN "none" ELSE "kept") /\ UNCHANGED <<belongs, entry, objects, reqs>>
    BY <1>8 DEF SetActive
  <2>2. AccessFollows'
    BY <2>1 DEF AccessFollows
  <2> QED BY <2>1, <2>2, <1>t DEF RequestInv
<1>9. ASSUME NEW o \in Tenants, NEW rank \in Ranks \cup {"none"}, SetRank(o, rank) PROVE RequestInv'
  <2>1. /\ belongs' = [belongs EXCEPT ![o] = rank] /\ UNCHANGED <<active, entry, lag>>
        /\ objects' = [k \in Objects |-> IF objects[k].org = o THEN [objects[k] EXCEPT !.stale = TRUE] ELSE objects[k]]
        /\ reqs' = [r \in Inflight |-> IF reqs[r].org = o THEN [reqs[r] EXCEPT !.sure = FALSE] ELSE reqs[r]]
    BY <1>9 DEF SetRank
  <2>2. belongs' \in [Tenants -> Ranks \cup {"none"}] /\ \A p \in Tenants \ {o} : belongs'[p] = belongs[p]
    BY <2>1, <1>t
  <2>3. ASSUME NEW k \in Objects PROVE ObjectOK(objects'[k], belongs') /\ objects'[k].org = objects[k].org
    <3>1. ObjectOK(objects[k], belongs)
      BY <1>t
    <3>2. CASE objects[k].org = o
      <4>1. objects'[k] = [objects[k] EXCEPT !.stale = TRUE]
        BY <2>1, <3>2
      <4>2. objects'[k] \in Contents_ /\ objects'[k].stale = TRUE /\ objects'[k].org = objects[k].org
        BY <4>1, <3>1 DEF ObjectOK, Contents_
      <4> QED BY <4>2 DEF ObjectOK
    <3>3. CASE objects[k].org # o
      <4>1. objects'[k] = objects[k]
        BY <2>1, <3>3
      <4>2. objects[k].org \in Tenants \cup {"none"}
        BY <3>1 DEF ObjectOK, Contents_
      <4> QED BY <4>1, <4>2, <3>1, <3>3, <2>2 DEF ObjectOK
    <3> QED BY <3>2, <3>3
  <2>4. ASSUME NEW r \in Inflight PROVE RequestOK(reqs'[r], belongs', objects')
    <3>1. RequestOK(reqs[r], belongs, objects) /\ reqs[r] \in Reqs
      BY <1>t DEF RequestOK
    <3>2. CASE reqs[r].org = o
      <4> DEFINE new == [reqs[r] EXCEPT !.sure = FALSE]
      <4>1. reqs'[r] = new
        BY <2>1, <3>2
      <4>2. /\ new \in Reqs /\ new.sure = FALSE /\ new.pc = reqs[r].pc /\ new.org = reqs[r].org /\ new.user = reqs[r].user
            /\ new.gated = reqs[r].gated /\ new.mixed = reqs[r].mixed /\ new.acts = reqs[r].acts
        BY <3>1 DEF Reqs
      <4> HIDE DEF new
      <4>3. new.user \in Objects => objects'[new.user].org = objects[new.user].org
        BY <2>3
      <4>4. RequestOK(new, belongs', objects')
        BY <4>2, <4>3, <3>1 DEF RequestOK
      <4> QED BY <4>1, <4>4
    <3>3. CASE reqs[r].org # o
      <4>1. reqs'[r] = reqs[r]
        BY <2>1, <3>3
      <4>2. reqs[r].user \in Objects => objects'[reqs[r].user].org = objects[reqs[r].user].org
        BY <2>3
      <4>3. reqs[r].gated /\ reqs[r].sure => belongs'[reqs[r].org] = belongs[reqs[r].org]
        BY <3>1, <3>3, <2>2 DEF RequestOK
      <4> QED BY <4>1, <4>2, <4>3, <3>1 DEF RequestOK
    <3> QED BY <3>2, <3>3
  <2>5. objects' = [k \in Objects |-> objects'[k]] /\ reqs' = [r \in Inflight |-> reqs'[r]]
    BY <2>1
  <2>6. AccessFollows'
    BY <2>1, <1>t DEF AccessFollows
  <2> QED BY <2>1, <2>2, <2>3, <2>4, <2>5, <2>6, <1>t DEF RequestInv
<1>10. CASE UNCHANGED requestVars
  BY <1>10, <1>t DEF requestVars, RequestInv, AccessFollows
<1> QED BY <1>1, <1>2, <1>3, <1>4, <1>5, <1>6, <1>7, <1>8, <1>9, <1>10 DEF RequestNext

LEMMA RequestInitially == RequestInit => RequestInv
<1> SUFFICES ASSUME RequestInit PROVE RequestInv
  OBVIOUS
<1>1. /\ active = TRUE /\ belongs \in [Tenants -> Ranks \cup {"none"}] /\ entry = Miss
      /\ objects = [k \in Objects |-> Fresh] /\ reqs = [r \in Inflight |-> NoRequestYet]
  BY DEF RequestInit
<1>2. \A b, obs : RequestOK(NoRequestYet, b, obs)
  <2>1. NoRequestYet \in Reqs /\ NoRequestYet.pc = "idle" /\ NoRequestYet.gated = FALSE
    BY DEF NoRequestYet, Reqs
  <2> QED BY <2>1 DEF RequestOK
<1> QED BY <1>1, <1>2, FreshIsOK DEF RequestInv, AccessFollows

LEMMA RequestInvSays == RequestInv => ActsForItsOrg /\ GateIsRight /\ AccessFollows
  BY DEF RequestInv, RequestOK, ActsForItsOrg, GateIsRight

-----------------------------------------------------------------------------
(* The socket gateway: identities and connections *)

\* A connection the gateway has the identity of, or is reading the token of, is the
\* one its client has, or ended while the token was being read.
GateInv ==
    /\ holder \in Seq(Clients) /\ conn \in [Clients -> Nat]
    /\ verifying \cup known \subseteq 1..Len(holder)
    /\ \A n \in verifying \cup known : conn[holder[n]] = n \/ n \in endedEarly

\* The end of connection n, of which the identity goes.
LEMMA ConnectionEnds ==
    ASSUME GateInv, NEW n, Ends(n), Forget(n), UNCHANGED holder, verifying' \subseteq verifying
    PROVE  GateInv'
<1>t. /\ holder \in Seq(Clients) /\ conn \in [Clients -> Nat] /\ verifying \cup known \subseteq 1..Len(holder)
      /\ \A m \in verifying \cup known : conn[holder[m]] = m \/ m \in endedEarly
  BY DEF GateInv
<1>1. /\ conn' = [c \in Clients |-> IF conn[c] = n THEN 0 ELSE conn[c]] /\ known' = known \ {n}
      /\ endedEarly \subseteq endedEarly' /\ (n \in verifying => n \in endedEarly')
  BY DEF Ends, Forget
<1>2. conn' \in [Clients -> Nat]
  BY <1>1, <1>t
<1>3. \A m \in 1..Len(holder) : holder[m] \in Clients
  BY <1>t
<1>4. ASSUME NEW m \in verifying' \cup known' PROVE conn'[holder[m]] = m \/ m \in endedEarly'
  <2>1. m \in verifying \cup known /\ holder[m] \in Clients
    BY <1>1, <1>3, <1>t
  <2>2. CASE m = n
    BY <2>2, <1>1
  <2>3. CASE m # n
    BY <2>1, <2>3, <1>1, <1>t
  <2> QED BY <2>2, <2>3
<1> QED BY <1>1, <1>2, <1>4, <1>t DEF GateInv

LEMMA GateStep == GateInv /\ [GateNext]_gateVars => GateInv'
<1> SUFFICES ASSUME GateInv, [GateNext]_gateVars PROVE GateInv'
  OBVIOUS
<1>t. /\ holder \in Seq(Clients) /\ conn \in [Clients -> Nat] /\ verifying \cup known \subseteq 1..Len(holder)
      /\ \A n \in verifying \cup known : conn[holder[n]] = n \/ n \in endedEarly
  BY DEF GateInv
<1>1. ASSUME NEW c \in Clients, Connect(c) PROVE GateInv'
  <2> DEFINE k == Len(holder) + 1
  <2>1. /\ conn[c] = 0 /\ holder' = Append(holder, c) /\ conn' = [conn EXCEPT ![c] = k]
        /\ verifying' = verifying \cup {k} /\ UNCHANGED <<known, endedEarly>>
    BY <1>1 DEF Connect
  <2>2. /\ k \in Nat /\ holder' \in Seq(Clients) /\ Len(holder') = k /\ holder'[k] = c
        /\ \A n \in 1..Len(holder) : holder'[n] = holder[n] /\ holder[n] \in Clients
    BY <2>1, <1>t
  <2>3. conn' \in [Clients -> Nat] /\ conn'[c] = k /\ \A d \in Clients \ {c} : conn'[d] = conn[d]
    BY <2>1, <2>2, <1>t
  <2>4. verifying' \cup known' \subseteq 1..Len(holder')
    BY <2>1, <2>2, <1>t
  <2>5. ASSUME NEW n \in verifying' \cup known' PROVE conn'[holder'[n]] = n \/ n \in endedEarly'
    <3>1. CASE n = k
      BY <3>1, <2>2, <2>3
    <3>2. CASE n # k
      <4>1. n \in verifying \cup known /\ n \in 1..Len(holder)
        BY <3>2, <2>1, <1>t
      <4>2. holder'[n] = holder[n] /\ holder[n] \in Clients
        BY <4>1, <2>2
      <4>3. holder[n] = c => n \in endedEarly
        BY <4>1, <2>1, <1>t
      <4> QED BY <4>1, <4>2, <4>3, <2>1, <2>3, <1>t
    <3> QED BY <3>1, <3>2
  <2> QED BY <2>2, <2>3, <2>4, <2>5 DEF GateInv
<1>2. ASSUME NEW c \in Clients, Lose(c) PROVE GateInv'
  BY <1>2, ConnectionEnds DEF Lose
<1>3. ASSUME NEW n \in verifying, Verified(n) PROVE GateInv'
  BY <1>3, <1>t DEF Verified, GateInv
<1>4. ASSUME NEW n \in verifying, Rejected(n) PROVE GateInv'
  BY <1>4, ConnectionEnds DEF Rejected, Shut
<1>5. ASSUME NEW h \in Handlers, NEW c \in Clients, Receive(h, c) PROVE GateInv'
  <2>1. CASE conn[c] \in known
    BY <1>5, <2>1, <1>t DEF Receive, serverVars, GateInv
  <2>2. CASE conn[c] \notin known
    BY <1>5, <2>2, ConnectionEnds DEF Receive, Shut
  <2> QED BY <2>1, <2>2
<1>6. ASSUME UNCHANGED <<conn, holder, verifying, known, endedEarly>> PROVE GateInv'
  BY <1>6, <1>t DEF GateInv
<1>7. ASSUME NEW c \in Clients, OpenPage(c) \/ ClosePage(c) \/ SendMessage(c) PROVE GateInv'
  BY <1>7, <1>6 DEF OpenPage, ClosePage, SendMessage, serverVars
<1>8. ASSUME NEW h \in Handlers,
             JoinChannel(h) \/ CheckAuthor(h) \/ CreateMessage(h) \/ Broadcast(h) \/ ReadHistory(h) \/ EmitHistory(h)
             \/ CheckThrows(h)
      PROVE GateInv'
  BY <1>8, <1>6 DEF JoinChannel, CheckAuthor, CreateMessage, Broadcast, ReadHistory, EmitHistory, CheckThrows, serverVars
<1>9. CASE UNCHANGED gateVars
  BY <1>9, <1>6 DEF gateVars, serverVars
<1> QED BY <1>1, <1>2, <1>3, <1>4, <1>5, <1>7, <1>8, <1>9 DEF GateNext

LEMMA GateInitially == GateInit => GateInv
  BY DEF GateInit, GateInv

-----------------------------------------------------------------------------
(* Whoever is let in is known *)

LEMMA CallersInitially == ServicesInit => GateInv /\ RequestInv
  BY GateInitially, RequestInitially DEF ServicesInit

LEMMA CallersStep ==
    GateInv /\ RequestInv /\ [ServicesNext]_<<part, servicesVars, gateVars, moreVars>> => GateInv' /\ RequestInv'
<1> SUFFICES ASSUME GateInv, RequestInv, [ServicesNext]_<<part, servicesVars, gateVars, moreVars>>
             PROVE  GateInv' /\ RequestInv'
  OBVIOUS
<1>1. [GateNext]_gateVars
  BY DEF ServicesNext, moreVars
<1>2. [RequestNext]_requestVars
  BY DEF ServicesNext, moreVars, officeVars
<1> QED BY <1>1, <1>2, GateStep, RequestStep

\* Whoever is let in is known, whatever else the services do: a socket by the token
\* it verified, a request by the user, the role and the organization the guards
\* have read for it.
THEOREM CallersKnown == ServicesSpec => []CallersAreKnown
<1>1. GateInv /\ RequestInv => CallersAreKnown
  <2>1. GateInv => KnownIsOpen
    BY DEF GateInv, KnownIsOpen
  <2> QED BY <2>1, RequestInvSays DEF CallersAreKnown
<1> QED BY <1>1, CallersInitially, CallersStep, PTL DEF ServicesSpec

-----------------------------------------------------------------------------
(* Documents: files without a record *)

\* What the document has had is on record, its file of now included; what else is on
\* disk is named, busy or excused.
LeakInv ==
    /\ doc.file = 0 \/ doc.file \in contents
    /\ LeakHasCause

LEMMA LeakStep == DocInv /\ LeakInv /\ [DocNext]_docVars => LeakInv'
<1> SUFFICES ASSUME DocInv, LeakInv, [DocNext]_docVars PROVE LeakInv'
  OBVIOUS
<1>t. /\ written \in Nat /\ files \subseteq 1..written /\ file \in [Uploaders -> Nat]
      /\ docPc \in [Uploaders -> DocSteps] /\ doc.file \in Nat
  BY DEF DocInv, DocShape
<1>n. 0 \notin files
  BY <1>t
<1>i. (doc.file = 0 \/ doc.file \in contents) /\ \A f \in files \ (Named \cup InFlight) : f \in excused \/ f \in contents
  BY DEF LeakInv, LeakHasCause
<1>f. \A f : f \in InFlight <=> \E c \in Uploaders : docPc[c] \in Holding /\ f = file[c]
  BY DEF InFlight, Holding, Writing
<1>g. \A f : f \in InFlight' <=> \E c \in Uploaders : docPc'[c] \in Holding /\ f = file'[c]
  BY DEF InFlight, Holding, Writing
<1>m. \A f : f \in Named <=> f = doc.file \/ \E v \in versions : f = v.file
  BY DEF Named
<1>o. \A f : f \in Named' <=> f = doc'.file \/ \E v \in versions' : f = v.file
  BY DEF Named
<1>1. ASSUME NEW c \in Uploaders, Upload(c) \/ NewVersion(c) PROVE LeakInv'
  <2>1. /\ UNCHANGED <<files, doc, versions, file, contents, excused>>
        /\ docPc[c] = "idle" /\ \A d \in Uploaders \ {c} : docPc'[d] = docPc[d]
    BY <1>1, <1>t DEF Upload, NewVersion, DocGoto
  <2>2. \A f \in InFlight : f \in InFlight'
    BY <2>1, <1>f, <1>g DEF Holding, Writing
  <2> QED BY <2>1, <2>2, <1>i, <1>m, <1>o DEF LeakInv, LeakHasCause
<1>2. ASSUME NEW c \in Uploaders, StoreFile(c) PROVE LeakInv'
  <2>1. /\ UNCHANGED <<doc, versions, contents, excused>> /\ files' = files \cup {written + 1}
        /\ docPc[c] \notin Holding /\ docPc'[c] \in Holding /\ file'[c] = written + 1
        /\ \A d \in Uploaders \ {c} : docPc'[d] = docPc[d] /\ file'[d] = file[d]
    BY <1>2, <1>t DEF StoreFile, DocGoto, Holding, Writing
  <2>2. \A f \in InFlight : f \in InFlight'
    BY <2>1, <1>f, <1>g
  <2>3. written + 1 \in InFlight'
    BY <2>1, <1>g
  <2> QED BY <2>1, <2>2, <2>3, <1>i, <1>m, <1>o DEF LeakInv, LeakHasCause
<1>3. ASSUME NEW c \in Uploaders, StoreFails(c) PROVE LeakInv'
  <2>1. /\ UNCHANGED <<doc, versions, contents, file>> /\ files' \subseteq files \cup {written + 1}
        /\ excused' = excused \cup {written + 1}
        /\ docPc[c] \notin Holding /\ \A d \in Uploaders \ {c} : docPc'[d] = docPc[d]
    BY <1>3, <1>t DEF StoreFails, DocGoto, Holding, Writing
  <2>2. \A f \in InFlight : f \in InFlight'
    BY <2>1, <1>f, <1>g
  <2> QED BY <2>1, <2>2, <1>i, <1>m, <1>o DEF LeakInv, LeakHasCause
\* A write: what it puts in the place of the document's file the document has had.
<1>w. ASSUME NEW c \in Uploaders, DocWrite(c) \/ UNCHANGED <<doc, versions, contents>>,
             UNCHANGED <<files, file, excused>>, \A d \in Uploaders \ {c} : docPc'[d] = docPc[d],
             docPc'[c] \in Holding \/ doc'.file = file[c]
      PROVE LeakInv'
  <2>1. /\ contents \subseteq contents' /\ versions \subseteq versions'
        /\ doc' = doc \/ (doc'.file = file[c] /\ file[c] \in contents')
    BY <1>w DEF DocWrite, InsertDocument, InsertVersion, ReplaceFile
  <2>2. \A f \in InFlight : f \in InFlight' \cup Named'
    BY <1>w, <1>f, <1>g, <1>o
  <2>3. \A f \in Named : f \in Named' \/ f = 0 \/ f \in contents'
    BY <2>1, <1>i, <1>m, <1>o
  <2> QED BY <1>w, <2>1, <2>2, <2>3, <1>i, <1>n DEF LeakInv, LeakHasCause
<1>4. ASSUME NEW c \in Uploaders, WriteRow(c) PROVE LeakInv'
  <2>1. /\ DocWrite(c) /\ UNCHANGED <<files, file, excused>>
        /\ docPc' = [docPc EXCEPT ![c] = IF docPc[c] = "list" THEN "replace" ELSE "idle"]
    BY <1>4 DEF WriteRow, DocGoto
  <2>2. docPc'[c] \in Holding \/ doc'.file = file[c]
    BY <2>1, <1>t DEF DocWrite, InsertDocument, InsertVersion, ReplaceFile, Holding, Writing
  <2>3. \A d \in Uploaders \ {c} : docPc'[d] = docPc[d]
    BY <2>1, <1>t
  <2> QED BY <2>1, <2>2, <2>3, <1>w
<1>5. ASSUME NEW c \in Uploaders, WriteFails(c) PROVE LeakInv'
  <2>1. /\ DocWrite(c) \/ UNCHANGED <<doc, versions, contents>>
        /\ UNCHANGED <<files, file, excused>>
        /\ docPc' = [docPc EXCEPT ![c] = "undo"]
    BY <1>5 DEF WriteFails, DocGoto
  <2>2. docPc'[c] \in Holding /\ \A d \in Uploaders \ {c} : docPc'[d] = docPc[d]
    BY <2>1, <1>t DEF Holding
  <2> QED BY <1>5, <2>1, <2>2, <1>w DEF WriteFails
<1>6. ASSUME NEW c \in Uploaders, Undo(c) PROVE LeakInv'
  <2>1. /\ UNCHANGED <<doc, versions, contents, file>> /\ files' \subseteq files /\ excused \subseteq excused'
        /\ file[c] \notin files' \/ file[c] \in excused'
        /\ \A d \in Uploaders \ {c} : docPc'[d] = docPc[d]
    BY <1>6, <1>t DEF Undo, DocGoto
  <2>2. \A f \in InFlight : f \in InFlight' \/ f = file[c]
    BY <2>1, <1>f, <1>g
  <2> QED BY <2>1, <2>2, <1>i, <1>m, <1>o DEF LeakInv, LeakHasCause
<1>7. CASE DeleteDocument
  <2>1. /\ UNCHANGED <<files, versions, docPc, file, contents>> /\ doc'.file = 0 /\ excused' = excused \cup {doc.file}
    BY <1>7 DEF DeleteDocument, callDocVars, NoDoc
  <2> QED BY <2>1, <1>i, <1>f, <1>g, <1>m, <1>o DEF LeakInv, LeakHasCause
<1>8. CASE DocCrash
  <2>1. /\ UNCHANGED <<files, versions, doc, file, contents>>
        /\ excused' = excused \cup {file[d] : d \in {e \in Uploaders : docPc[e] \in {"insert", "list", "replace", "undo"}}}
    BY <1>8 DEF DocCrash
  <2>2. \A f \in InFlight : f \in excused'
    BY <2>1, <1>f DEF Holding, Writing
  <2> QED BY <2>1, <2>2, <1>i, <1>m, <1>o DEF LeakInv, LeakHasCause
<1>9. CASE UNCHANGED docVars
  BY <1>9, <1>i, <1>f, <1>g, <1>m, <1>o DEF docVars, callDocVars, LeakInv, LeakHasCause
<1> QED BY <1>1, <1>2, <1>3, <1>4, <1>5, <1>6, <1>7, <1>8, <1>9 DEF DocNext

LEMMA LeakInitially == DocInit => DocInv /\ LeakInv
<1>1. DocInit => DocInv
  BY DEF DocInit, DocInv, DocShape, FilesAreOwned, ListedFirst, DocumentHasFile, CurrentIsListed,
         NoDoc, Holding, Writing, DocSteps
<1> QED BY <1>1 DEF DocInit, LeakInv, LeakHasCause, NoDoc

-----------------------------------------------------------------------------
(* Organizations: founders and placeholders *)

\* Rows and calls, as long as there are n rows.
RowsUpTo(n) == {NoRow} \cup [id : 1..n, role : MemberRoles, status : {"ACTIVE", "INVITED"}]
CallsUpTo(n) ==
    [op : {"none", "addFounder", "find", "addMember", "addUser", "addInvited", "setRole", "remove", "delete"},
     org : 0..MaxOrgs, person : People \cup {"nobody"}, role : MemberRoles \cup {"none"}, id : 0..n]

\* What a call knows of the organization, person and row it is about.
CallsAreRight ==
    \A d \in Desks :
        /\ desk[d].org \in 0..founded /\ (Does(d, "none") <=> desk[d].org = 0)
        /\ desk[d].op \in {"addFounder", "find", "addMember", "addUser", "addInvited"} =>
            desk[d].person \in People /\ desk[d].role \in MemberRoles
        /\ desk[d].op \in {"setRole", "remove"} => desk[d].id \in 1..rows
        /\ Does(d, "setRole") => desk[d].role \in MemberRoles

RowsAreApart ==
    \A o \in OrgIds : \A p, q \in People :
        members[o][p] # NoRow /\ members[o][p].id = members[o][q].id => p = q

\* An organization has no rows yet, and nobody else calls for it, or its founder is
\* an owner whose row no call in flight changes.
NoRows(o) == \A p \in People : members[o][p] = NoRow
Founding(o, d) ==
    /\ desk[d].org = o /\ Does(d, "addFounder") /\ desk[d].person = founder[o] /\ desk[d].role = "OWNER"
    /\ NoRows(o) /\ \A e \in Desks \ {d} : desk[e].org # o
IsOwned(o) ==
    /\ founder[o] \in People /\ members[o][founder[o]].role = "OWNER" /\ members[o][founder[o]].status = "ACTIVE"
    /\ \A d \in Desks : desk[d].org = o =>
        ~Does(d, "addFounder") /\ (desk[d].op \in {"setRole", "remove"} => desk[d].id # members[o][founder[o]].id)
IsStanding(o) ==
    \/ o > founded /\ NoRows(o)
    \/ o <= founded /\ o \in orphans /\ NoRows(o) /\ \A d \in Desks : desk[d].org # o
    \/ o <= founded /\ \E d \in Desks : Founding(o, d)
    \/ o <= founded /\ IsOwned(o)

OrgInv == OrgTypeOK /\ CallsAreRight /\ RowsAreApart /\ (\A o \in OrgIds : IsStanding(o)) /\ PlaceholderHasCause

LEMMA OrgTypesAre ==
    OrgTypeOK <=>
        /\ accounts \in [People -> {"none", "placeholder", "registered"}]
        /\ rows \in 0..MaxRows /\ founded \in 0..MaxOrgs /\ standing \subseteq 1..founded
        /\ members \in [OrgIds -> [People -> RowsUpTo(rows)]] /\ desk \in [Desks -> CallsUpTo(rows)]
        /\ founder \in [OrgIds -> People \cup {"nobody"}] /\ orphans \subseteq OrgIds /\ withdrawn \subseteq People
  BY DEF OrgTypeOK, RowsUpTo, CallsUpTo

LEMMA MoreRows == ASSUME NEW n \in Nat PROVE RowsUpTo(n) \subseteq RowsUpTo(n + 1) /\ CallsUpTo(n) \subseteq CallsUpTo(n + 1)
<1>1. 1..n \subseteq 1..(n + 1) /\ 0..n \subseteq 0..(n + 1)
  OBVIOUS
<1> QED BY <1>1 DEF RowsUpTo, CallsUpTo

LEMMA RowFields ==
    ASSUME NEW n \in Nat, NEW r \in RowsUpTo(n)
    PROVE  r.id \in 0..n /\ (r.id = 0 <=> r = NoRow) /\ (r # NoRow => r.role \in MemberRoles) /\ (r.role = "OWNER" => r # NoRow)
           /\ (r.status = "ACTIVE" => r # NoRow)
  BY DEF RowsUpTo, NoRow

\* Whoever calls for an organization finds its founder there.
LEMMA CallersFindFounder ==
    ASSUME OrgInv, NEW o \in OrgIds,
           HasCaller(o) \/ \E d \in Desks : desk[d].org = o /\ ~Does(d, "addFounder")
    PROVE  IsOwned(o) /\ o \in 1..founded
<1>1. IsStanding(o) /\ founded \in Nat /\ o \in Nat /\ o > 0
  BY OrganizationAssumption DEF OrgInv, OrgTypeOK, OrgIds
<1>2. CASE HasCaller(o)
  <2>1. o <= founded /\ ~NoRows(o)
    BY <1>2, <1>1 DEF HasCaller, NoRows, NoRow
  <2> QED BY <1>1, <2>1 DEF IsStanding, Founding
<1>3. CASE \E d \in Desks : desk[d].org = o /\ ~Does(d, "addFounder")
  <2>1. PICK d \in Desks : desk[d].org = o /\ ~Does(d, "addFounder")
    BY <1>3
  <2>2. o <= founded
    BY <2>1, <1>1 DEF OrgInv, CallsAreRight
  <2>3. ~\E e \in Desks : Founding(o, e)
    BY <2>1 DEF Founding
  <2> QED BY <1>1, <2>1, <2>2, <2>3 DEF IsStanding
<1> QED BY <1>2, <1>3

\* A call moves on, and the rows stay as they are.
LEMMA DeskMoves ==
    ASSUME OrgInv, NEW d \in Desks, NEW r \in CallsUpTo(rows), desk' = [desk EXCEPT ![d] = r],
           UNCHANGED <<members, rows, founder, founded>>, orphans' \in SUBSET OrgIds, orphans \subseteq orphans',
           r.op = "none" <=> r.org = 0,
           Does(d, "addFounder") => r.org = 0 /\ desk[d].org \in orphans',
           r.op \in {"find", "addMember", "addUser", "addInvited"} => r.person \in People /\ r.role \in MemberRoles,
           r.op \in {"setRole", "remove"} => r.id \in 1..rows,
           r.op = "setRole" => r.role \in MemberRoles,
           r.org # 0 => /\ r.org \in OrgIds /\ r.org \in 1..founded /\ IsOwned(r.org) /\ r.op # "addFounder"
                        /\ (r.op \in {"setRole", "remove"} => r.id # members[r.org][founder[r.org]].id)
    PROVE  /\ desk' \in [Desks -> CallsUpTo(rows)] /\ CallsAreRight' /\ RowsAreApart' /\ \A o \in OrgIds : IsStanding(o)'
<1>1. desk \in [Desks -> CallsUpTo(rows)] /\ founded \in Nat
  BY OrgTypesAre, OrganizationAssumption DEF OrgInv
<1>2. desk'[d] = r /\ \A e \in Desks \ {d} : desk'[e] = desk[e]
  BY <1>1
<1>3. desk' \in [Desks -> CallsUpTo(rows)]
  BY <1>1
<1>4. CallsAreRight'
  <2> SUFFICES ASSUME NEW e \in Desks
               PROVE  /\ desk'[e].org \in 0..founded /\ (desk'[e].op = "none" <=> desk'[e].org = 0)
                      /\ desk'[e].op \in {"addFounder", "find", "addMember", "addUser", "addInvited"} =>
                          desk'[e].person \in People /\ desk'[e].role \in MemberRoles
                      /\ desk'[e].op \in {"setRole", "remove"} => desk'[e].id \in 1..rows
                      /\ desk'[e].op = "setRole" => desk'[e].role \in MemberRoles
    BY DEF CallsAreRight, Does
  <2>1. CASE e = d
    <3>1. r.op # "addFounder"
      OBVIOUS
    <3> QED BY <2>1, <1>2, <1>1, <3>1
  <2>2. CASE e # d
    BY <2>2, <1>2 DEF OrgInv, CallsAreRight, Does
  <2> QED BY <2>1, <2>2
<1>5. RowsAreApart'
  BY DEF OrgInv, RowsAreApart
<1>6. ASSUME NEW o \in OrgIds PROVE IsStanding(o)'
  <2>1. IsStanding(o) /\ o \in Nat /\ o > 0 /\ (NoRows(o)' <=> NoRows(o))
    BY DEF OrgInv, OrgIds, NoRows
  <2>2. r.org = o => IsOwned(o) /\ ~NoRows(o) /\ o <= founded
    BY <2>1, <1>1 DEF IsOwned, NoRows, NoRow
  <2>3. CASE o > founded /\ NoRows(o)
    BY <2>1, <2>3 DEF IsStanding
  <2>4. CASE o <= founded /\ o \in orphans /\ NoRows(o) /\ \A e \in Desks : desk[e].org # o
    <3>1. \A e \in Desks : desk'[e].org # o
      BY <2>2, <2>4, <1>2
    <3> QED BY <3>1, <2>1, <2>4 DEF IsStanding
  <2>5. ASSUME o <= founded, NEW e \in Desks, Founding(o, e) PROVE IsStanding(o)'
    <3>1. CASE e = d
      <4>1. o \in orphans' /\ NoRows(o) /\ r.org # o
        BY <3>1, <2>5, <2>1 DEF Founding
      <4>2. \A f \in Desks : desk'[f].org # o
        BY <4>1, <3>1, <2>5, <1>2 DEF Founding
      <4> QED BY <4>1, <4>2, <2>1, <2>5 DEF IsStanding
    <3>2. CASE e # d
      <4>1. r.org # o
        BY <2>2, <2>5 DEF Founding
      <4>2. \A f \in Desks \ {e} : desk'[f].org # o
        BY <4>1, <3>2, <2>5, <1>2 DEF Founding
      <4>3. desk'[e] = desk[e]
        BY <3>2, <1>2
      <4>4. Founding(o, e)'
        BY <4>2, <4>3, <2>1, <2>5 DEF Founding, Does
      <4> QED BY <4>4, <2>5 DEF IsStanding
    <3> QED BY <3>1, <3>2
  <2>6. CASE o <= founded /\ IsOwned(o)
    <3>1. ASSUME NEW e \in Desks, desk'[e].org = o
          PROVE  desk'[e].op # "addFounder" /\ (desk'[e].op \in {"setRole", "remove"} => desk'[e].id # members[o][founder[o]].id)
      <4>1. CASE e = d
        BY <4>1, <3>1, <1>2, <2>1
      <4>2. CASE e # d
        BY <4>2, <3>1, <1>2, <2>6 DEF IsOwned, Does
      <4> QED BY <4>1, <4>2
    <3>2. IsOwned(o)'
      BY <3>1, <2>6 DEF IsOwned, Does
    <3> QED BY <3>2, <2>6 DEF IsStanding
  <2> QED BY <2>1, <2>3, <2>4, <2>5, <2>6 DEF IsStanding
<1> QED BY <1>3, <1>4, <1>5, <1>6

\* What an insert does to the rows.
LEMMA AddRowIs ==
    ASSUME OrgInv, NEW d \in Desks, desk[d].org \in OrgIds, desk[d].person \in People,
           NEW role \in MemberRoles, NEW state \in {"ACTIVE", "INVITED"}, AddRow(d, role, state)
    PROVE  LET o == desk[d].org  p == desk[d].person
           IN  \/ members[o][p] # NoRow /\ UNCHANGED <<members, rows>>
               \/ /\ members[o][p] = NoRow /\ rows' = rows + 1 /\ rows' \in 0..MaxRows
                  /\ members' \in [OrgIds -> [People -> RowsUpTo(rows')]]
                  /\ members'[o][p] = [id |-> rows + 1, role |-> role, status |-> state]
                  /\ \A q \in People \ {p} : members'[o][q] = members[o][q]
                  /\ \A u \in OrgIds \ {o} : members'[u] = members[u]
<1> DEFINE o == desk[d].org
           p == desk[d].person
           new == [id |-> rows + 1, role |-> role, status |-> state]
<1>1. rows \in Nat /\ MaxRows \in Nat /\ members \in [OrgIds -> [People -> RowsUpTo(rows)]]
  BY OrgTypesAre, OrganizationAssumption DEF OrgInv
<1>2. CASE members[o][p] # NoRow
  BY <1>2 DEF AddRow
<1>3. CASE members[o][p] = NoRow
  <2>1. rows < MaxRows /\ rows' = rows + 1 /\ members' = [members EXCEPT ![o][p] = new]
    BY <1>3 DEF AddRow
  <2>2. new \in RowsUpTo(rows + 1)
    BY <1>1 DEF RowsUpTo
  <2>3. members \in [OrgIds -> [People -> RowsUpTo(rows + 1)]]
    BY <1>1, MoreRows
  <2>4. members' \in [OrgIds -> [People -> RowsUpTo(rows + 1)]]
    BY <2>1, <2>2, <2>3
  <2>5. /\ members'[o][p] = new /\ \A q \in People \ {p} : members'[o][q] = members[o][q]
        /\ \A u \in OrgIds \ {o} : members'[u] = members[u]
    BY <2>1, <1>1
  <2> QED BY <1>3, <2>1, <2>4, <2>5, <1>1
<1> QED BY <1>2, <1>3

\* A call that inserts ends, and the row is there.
LEMMA CallInserts ==
    ASSUME OrgInv, NEW d \in Desks, Does(d, "addFounder") \/ Does(d, "addMember") \/ Does(d, "addInvited"),
           NEW state \in {"ACTIVE", "INVITED"}, Does(d, "addFounder") => state = "ACTIVE",
           AddRow(d, desk[d].role, state), Leave(d), UNCHANGED <<accounts, standing, founded, founder, orphans, withdrawn>>
    PROVE  OrgInv'
<1> DEFINE o == desk[d].org
           p == desk[d].person
<1>t. /\ rows \in Nat /\ MaxRows \in Nat /\ members \in [OrgIds -> [People -> RowsUpTo(rows)]] /\ founded \in 0..MaxOrgs
      /\ desk \in [Desks -> CallsUpTo(rows)] /\ MaxOrgs \in Nat
  BY OrgTypesAre, OrganizationAssumption DEF OrgInv
<1>1. o \in OrgIds /\ o \in 1..founded /\ p \in People /\ desk[d].role \in MemberRoles
  BY <1>t DEF OrgInv, CallsAreRight, Does, OrgIds
<1>2. \/ members[o][p] # NoRow /\ UNCHANGED <<members, rows>>
      \/ /\ members[o][p] = NoRow /\ rows' = rows + 1 /\ rows' \in 0..MaxRows
         /\ members' \in [OrgIds -> [People -> RowsUpTo(rows')]]
         /\ members'[o][p] = [id |-> rows + 1, role |-> desk[d].role, status |-> state]
         /\ \A q \in People \ {p} : members'[o][q] = members[o][q]
         /\ \A u \in OrgIds \ {o} : members'[u] = members[u]
  BY <1>1, AddRowIs
<1>3. desk'[d] = AtRest /\ \A e \in Desks \ {d} : desk'[e] = desk[e]
  BY <1>t DEF Leave
<1>4. /\ rows' \in 0..MaxRows /\ rows' >= rows /\ members' \in [OrgIds -> [People -> RowsUpTo(rows')]]
      /\ RowsUpTo(rows) \subseteq RowsUpTo(rows') /\ CallsUpTo(rows) \subseteq CallsUpTo(rows')
  <2>1. rows \in 0..MaxRows
    BY OrgTypesAre DEF OrgInv
  <2> QED BY <1>2, <1>t, <2>1, MoreRows
<1>5. AtRest \in CallsUpTo(rows')
  BY <1>4, <1>t DEF CallsUpTo, AtRest
<1>6. OrgTypeOK'
  <2>1. desk' \in [Desks -> CallsUpTo(rows')]
    BY <1>3, <1>4, <1>5, <1>t DEF Leave
  <2>2. /\ accounts' \in [People -> {"none", "placeholder", "registered"}]
        /\ founded' \in 0..MaxOrgs /\ standing' \subseteq 1..founded'
        /\ founder' \in [OrgIds -> People \cup {"nobody"}] /\ orphans' \subseteq OrgIds /\ withdrawn' \subseteq People
    BY OrgTypesAre DEF OrgInv
  <2> QED BY <2>1, <2>2, <1>4 DEF OrgTypeOK, RowsUpTo, CallsUpTo
<1>7. CallsAreRight'
  <2> SUFFICES ASSUME NEW e \in Desks
               PROVE  /\ desk'[e].org \in 0..founded /\ (desk'[e].op = "none" <=> desk'[e].org = 0)
                      /\ desk'[e].op \in {"addFounder", "find", "addMember", "addUser", "addInvited"} =>
                          desk'[e].person \in People /\ desk'[e].role \in MemberRoles
                      /\ desk'[e].op \in {"setRole", "remove"} => desk'[e].id \in 1..rows'
                      /\ desk'[e].op = "setRole" => desk'[e].role \in MemberRoles
    BY DEF CallsAreRight, Does
  <2>1. CASE e = d
    BY <2>1, <1>3, <1>t DEF AtRest
  <2>2. CASE e # d
    <3>1. /\ desk[e].org \in 0..founded /\ (desk[e].op = "none" <=> desk[e].org = 0)
          /\ desk[e].op \in {"addFounder", "find", "addMember", "addUser", "addInvited"} =>
              desk[e].person \in People /\ desk[e].role \in MemberRoles
          /\ desk[e].op \in {"setRole", "remove"} => desk[e].id \in 1..rows
          /\ desk[e].op = "setRole" => desk[e].role \in MemberRoles
      BY DEF OrgInv, CallsAreRight, Does
    <3>2. 1..rows \subseteq 1..rows'
      BY <1>4, <1>t
    <3> QED BY <2>2, <3>1, <3>2, <1>3
  <2> QED BY <2>1, <2>2
<1>r. \A u \in OrgIds, q \in People : members[u][q] \in RowsUpTo(rows)
  BY <1>t
<1>8. RowsAreApart'
  <2> SUFFICES ASSUME NEW u \in OrgIds, NEW q1 \in People, NEW q2 \in People,
                      members'[u][q1] # NoRow, members'[u][q1].id = members'[u][q2].id
               PROVE  q1 = q2
    BY DEF RowsAreApart
  <2>1. CASE UNCHANGED members
    BY <2>1 DEF OrgInv, RowsAreApart
  <2>2. CASE ~UNCHANGED members
    <3>1. \A q \in People : members[u][q].id \in 0..rows
      BY <1>r, <1>t, RowFields
    <3>2. \A q \in People : (u = o /\ q = p) => members'[u][q].id = rows + 1
      BY <1>2, <2>2
    <3>3. \A q \in People : ~(u = o /\ q = p) => members'[u][q] = members[u][q]
      BY <1>2, <2>2
    <3> QED BY <3>1, <3>2, <3>3, <1>t DEF OrgInv, RowsAreApart
  <2> QED BY <2>1, <2>2
<1>9. ASSUME NEW u \in OrgIds PROVE IsStanding(u)'
  <2>1. IsStanding(u) /\ u \in Nat /\ u > 0
    BY DEF OrgInv, OrgIds
  <2>2. CASE u # o
    <3>1. members'[u] = members[u]
      BY <2>2, <1>2
    <3>2. \A e \in Desks : desk'[e].org = u => e # d /\ desk'[e] = desk[e]
      BY <1>3, <2>1 DEF AtRest
    <3>3. \A e \in Desks : desk[e].org = u => e # d /\ desk'[e] = desk[e]
      BY <1>3, <2>2
    <3>4. NoRows(u)' <=> NoRows(u)
      BY <3>1 DEF NoRows
    <3>5. (\A e \in Desks : desk[e].org # u) => \A e \in Desks : desk'[e].org # u
      BY <3>2
    <3>6. ASSUME NEW e \in Desks, Founding(u, e) PROVE Founding(u, e)'
      BY <3>2, <3>3, <3>4, <3>6 DEF Founding, Does
    <3>7. IsOwned(u) => IsOwned(u)'
      BY <3>1, <3>2 DEF IsOwned, Does
    <3> QED BY <2>1, <3>4, <3>5, <3>6, <3>7 DEF IsStanding
  <2>3. CASE u = o /\ Does(d, "addFounder")
    <3>1. Founding(o, d)
      BY <2>1, <2>3, <1>1, <1>t DEF IsStanding, Founding, IsOwned
    <3>2. p = founder[o] /\ members[o][p] = NoRow /\ state = "ACTIVE" /\ desk[d].role = "OWNER"
      BY <3>1, <1>1, <2>3 DEF Founding, NoRows
    <3>3. members'[o][p].role = "OWNER" /\ members'[o][p].status = "ACTIVE"
      BY <3>2, <1>2
    <3>4. \A e \in Desks : desk'[e].org # o
      BY <3>1, <1>3, <1>1 DEF Founding, AtRest
    <3>5. IsOwned(u)'
      BY <2>3, <3>2, <3>3, <3>4, <1>1 DEF IsOwned
    <3> QED BY <3>5, <2>3, <1>1 DEF IsStanding
  <2>4. CASE u = o /\ ~Does(d, "addFounder")
    <3>1. IsOwned(o)
      BY <1>1, <2>4, CallersFindFounder
    <3>2. founder[o] \in People /\ members[o][founder[o]] # NoRow
      BY <3>1, <1>r, <1>1, <1>t, RowFields DEF IsOwned
    <3>3. members'[o][founder[o]] = members[o][founder[o]]
      BY <3>2, <1>2
    <3>4. \A e \in Desks : desk'[e].org = o => desk'[e] = desk[e]
      BY <1>3, <1>1 DEF AtRest
    <3>5. IsOwned(u)'
      BY <2>4, <3>1, <3>3, <3>4 DEF IsOwned, Does
    <3> QED BY <3>5, <2>4, <1>1 DEF IsStanding
  <2> QED BY <2>2, <2>3, <2>4
<1>10. PlaceholderHasCause'
  <2> SUFFICES ASSUME NEW q \in People, accounts[q] = "placeholder"
               PROVE  \/ \E u \in OrgIds : members'[u][q] # NoRow
                      \/ q \in withdrawn \/ \E e \in Desks : desk'[e].op = "addInvited" /\ desk'[e].person = q
    BY DEF PlaceholderHasCause, Does
  <2>1. members'[o][p] # NoRow
    BY <1>2, <1>t DEF NoRow
  <2>2. \A u \in OrgIds : members[u][q] # NoRow => members'[u][q] # NoRow
    BY <1>2, <1>1, <2>1
  <2>3. CASE \E e \in Desks : Does(e, "addInvited") /\ desk[e].person = q
    <3>1. PICK e \in Desks : Does(e, "addInvited") /\ desk[e].person = q
      BY <2>3
    <3>2. CASE e = d
      BY <3>1, <3>2, <2>1, <1>1
    <3>3. CASE e # d
      BY <3>1, <3>3, <1>3 DEF Does
    <3> QED BY <3>2, <3>3
  <2> QED BY <2>2, <2>3 DEF OrgInv, PlaceholderHasCause
<1> QED BY <1>6, <1>7, <1>8, <1>9, <1>10 DEF OrgInv

\* A call that writes the row it found ends; another's row stays.
LEMMA CallRewrites ==
    ASSUME OrgInv, NEW d \in Desks, desk[d].op \in {"setRole", "remove"}, Leave(d),
           UNCHANGED <<accounts, standing, founded, founder, orphans, rows>>,
           NEW new, \A p \in People : Holder(d, p) =>
                        /\ new[p] \in RowsUpTo(rows) /\ new[p].id \in {0, members[desk[d].org][p].id}
                        /\ new[p] # NoRow \/ p \in withdrawn',
           RewriteRow(d, new), withdrawn' \subseteq People, withdrawn \subseteq withdrawn'
    PROVE  OrgInv'
<1> DEFINE o == desk[d].org
<1>t. /\ rows \in 0..MaxRows /\ MaxRows \in Nat /\ members \in [OrgIds -> [People -> RowsUpTo(rows)]] /\ founded \in 0..MaxOrgs
      /\ desk \in [Desks -> CallsUpTo(rows)] /\ MaxOrgs \in Nat
  BY OrgTypesAre, OrganizationAssumption DEF OrgInv
<1>1. o \in OrgIds /\ o \in 1..founded /\ desk[d].id \in 1..rows
  BY <1>t DEF OrgInv, CallsAreRight, Does, OrgIds
<1>2. /\ \A q \in People : members'[o][q] = IF Holder(d, q) THEN new[q] ELSE members[o][q]
      /\ \A u \in OrgIds \ {o} : members'[u] = members[u]
      /\ members' \in [OrgIds -> [People -> RowsUpTo(rows)]]
  <2> DEFINE line == [q \in People |-> IF Holder(d, q) THEN new[q] ELSE members[o][q]]
  <2>1. members' = [members EXCEPT ![o] = line]
    BY DEF RewriteRow
  <2>2. line \in [People -> RowsUpTo(rows)]
    BY <1>t, <1>1
  <2> HIDE DEF line
  <2>3. members'[o] = line /\ (\A u \in OrgIds \ {o} : members'[u] = members[u]) /\ members' \in [OrgIds -> [People -> RowsUpTo(rows)]]
    BY <2>1, <2>2, <1>t, <1>1
  <2> QED BY <2>3 DEF line
<1>3. desk'[d] = AtRest /\ \A e \in Desks \ {d} : desk'[e] = desk[e]
  BY <1>t DEF Leave
<1>5. AtRest \in CallsUpTo(rows)
  BY <1>t DEF CallsUpTo, AtRest
<1>6. OrgTypeOK'
  <2>1. desk' \in [Desks -> CallsUpTo(rows)]
    BY <1>5, <1>t DEF Leave
  <2>2. /\ accounts' \in [People -> {"none", "placeholder", "registered"}]
        /\ founded' \in 0..MaxOrgs /\ standing' \subseteq 1..founded'
        /\ founder' \in [OrgIds -> People \cup {"nobody"}] /\ orphans' \subseteq OrgIds
    BY OrgTypesAre DEF OrgInv
  <2> QED BY <2>1, <2>2, <1>2, <1>t DEF OrgTypeOK, RowsUpTo, CallsUpTo
<1>7. CallsAreRight'
  BY <1>3, <1>t DEF OrgInv, CallsAreRight, Does, AtRest
<1>r. \A u \in OrgIds, q \in People : members[u][q] \in RowsUpTo(rows) /\ members'[u][q] \in RowsUpTo(rows)
  BY <1>t, <1>2
<1>n. rows \in Nat
  BY <1>t
<1>8. RowsAreApart'
  <2> SUFFICES ASSUME NEW u \in OrgIds, NEW q1 \in People, NEW q2 \in People,
                      members'[u][q1] # NoRow, members'[u][q1].id = members'[u][q2].id
               PROVE  q1 = q2
    BY DEF RowsAreApart
  <2>1. \A q \in People : members'[u][q].id = 0 \/ members'[u][q].id = members[u][q].id
    BY <1>2
  <2>2. members'[u][q1].id # 0
    BY <1>r, <1>n, RowFields
  <2>3. members[u][q1].id = members[u][q2].id /\ members[u][q1].id # 0
    BY <2>1, <2>2
  <2>4. members[u][q1] # NoRow
    BY <2>3, <1>r, <1>n, RowFields
  <2> QED BY <2>3, <2>4 DEF OrgInv, RowsAreApart
<1>9. ASSUME NEW u \in OrgIds PROVE IsStanding(u)'
  <2>1. IsStanding(u) /\ u \in Nat /\ u > 0
    BY DEF OrgInv, OrgIds
  <2>2. CASE u # o
    <3>1. members'[u] = members[u]
      BY <2>2, <1>2
    <3>2. \A e \in Desks : desk'[e].org = u => e # d /\ desk'[e] = desk[e]
      BY <1>3, <2>1 DEF AtRest
    <3>3. \A e \in Desks : desk[e].org = u => e # d /\ desk'[e] = desk[e]
      BY <1>3, <2>2
    <3>4. NoRows(u)' <=> NoRows(u)
      BY <3>1 DEF NoRows
    <3>5. (\A e \in Desks : desk[e].org # u) => \A e \in Desks : desk'[e].org # u
      BY <3>2
    <3>6. ASSUME NEW e \in Desks, Founding(u, e) PROVE Founding(u, e)'
      BY <3>2, <3>3, <3>4, <3>6 DEF Founding, Does
    <3>7. IsOwned(u) => IsOwned(u)'
      BY <3>1, <3>2 DEF IsOwned, Does
    <3> QED BY <2>1, <3>4, <3>5, <3>6, <3>7 DEF IsStanding
  <2>3. CASE u = o
    <3>1. IsOwned(o)
      BY <1>1, CallersFindFounder DEF Does
    <3>2. founder[o] \in People /\ ~Holder(d, founder[o])
      BY <3>1 DEF IsOwned, Holder
    <3>3. members'[o][founder[o]] = members[o][founder[o]]
      BY <3>2, <1>2
    <3>4. \A e \in Desks : desk'[e].org = o => desk'[e] = desk[e]
      BY <1>3, <1>1 DEF AtRest
    <3>5. IsOwned(u)'
      BY <2>3, <3>1, <3>3, <3>4 DEF IsOwned, Does
    <3> QED BY <3>5, <2>3, <1>1 DEF IsStanding
  <2> QED BY <2>2, <2>3
<1>10. PlaceholderHasCause'
  <2> SUFFICES ASSUME NEW q \in People, accounts[q] = "placeholder"
               PROVE  \/ \E u \in OrgIds : members'[u][q] # NoRow
                      \/ q \in withdrawn' \/ \E e \in Desks : desk'[e].op = "addInvited" /\ desk'[e].person = q
    BY DEF PlaceholderHasCause, Does
  <2>1. \A u \in OrgIds : members[u][q] # NoRow => members'[u][q] # NoRow \/ q \in withdrawn'
    BY <1>2
  <2>2. \A e \in Desks : Does(e, "addInvited") => desk'[e] = desk[e]
    BY <1>3 DEF Does
  <2> QED BY <2>1, <2>2 DEF OrgInv, PlaceholderHasCause, Does
<1> QED BY <1>6, <1>7, <1>8, <1>9, <1>10 DEF OrgInv

\* A call moves on, and what else it changes keeps the placeholders explained.
LEMMA OrgMoves ==
    ASSUME OrgInv, NEW d \in Desks, NEW r \in CallsUpTo(rows), desk' = [desk EXCEPT ![d] = r],
           UNCHANGED <<members, rows, founder, founded>>, orphans' \in SUBSET OrgIds, orphans \subseteq orphans',
           r.op = "none" <=> r.org = 0,
           Does(d, "addFounder") => r.org = 0 /\ desk[d].org \in orphans',
           r.op \in {"find", "addMember", "addUser", "addInvited"} => r.person \in People /\ r.role \in MemberRoles,
           r.op \in {"setRole", "remove"} => r.id \in 1..rows,
           r.op = "setRole" => r.role \in MemberRoles,
           r.org # 0 => /\ r.org \in OrgIds /\ r.org \in 1..founded /\ IsOwned(r.org) /\ r.op # "addFounder"
                        /\ (r.op \in {"setRole", "remove"} => r.id # members[r.org][founder[r.org]].id),
           accounts' \in [People -> {"none", "placeholder", "registered"}], standing' \subseteq standing,
           withdrawn' \subseteq People, withdrawn \subseteq withdrawn',
           Does(d, "addInvited") => desk[d].person \in withdrawn',
           \A p \in People : accounts'[p] = "placeholder" =>
               accounts[p] = "placeholder" \/ (r.op = "addInvited" /\ r.person = p)
    PROVE  OrgInv'
<1>1. desk' \in [Desks -> CallsUpTo(rows)] /\ CallsAreRight' /\ RowsAreApart' /\ \A o \in OrgIds : IsStanding(o)'
  BY DeskMoves
<1>2. /\ members \in [OrgIds -> [People -> RowsUpTo(rows)]] /\ rows \in 0..MaxRows /\ founded \in 0..MaxOrgs
      /\ standing \subseteq 1..founded /\ founder \in [OrgIds -> People \cup {"nobody"}]
      /\ desk \in [Desks -> CallsUpTo(rows)]
  BY OrgTypesAre DEF OrgInv
<1>3. OrgTypeOK'
  BY <1>1, <1>2 DEF OrgTypeOK, RowsUpTo, CallsUpTo
<1>4. PlaceholderHasCause'
  <2> SUFFICES ASSUME NEW q \in People, accounts'[q] = "placeholder"
               PROVE  \/ \E u \in OrgIds : members[u][q] # NoRow
                      \/ q \in withdrawn' \/ \E e \in Desks : desk'[e].op = "addInvited" /\ desk'[e].person = q
    BY DEF PlaceholderHasCause, Does
  <2>1. desk'[d] = r /\ \A e \in Desks \ {d} : desk'[e] = desk[e]
    BY <1>2
  <2>2. CASE r.op = "addInvited" /\ r.person = q
    BY <2>1, <2>2
  <2>3. CASE accounts[q] = "placeholder"
    <3>1. \/ \E u \in OrgIds : members[u][q] # NoRow
          \/ q \in withdrawn \/ \E e \in Desks : Does(e, "addInvited") /\ desk[e].person = q
      BY <2>3 DEF OrgInv, PlaceholderHasCause
    <3>2. \A e \in Desks : Does(e, "addInvited") /\ desk[e].person = q => q \in withdrawn' \/ (desk'[e].op = "addInvited" /\ desk'[e].person = q)
      BY <2>1 DEF Does
    <3> QED BY <3>1, <3>2
  <2> QED BY <2>2, <2>3
<1> QED BY <1>1, <1>3, <1>4 DEF OrgInv

LEMMA OrgStep == OrgInv /\ [OrgNext]_orgVars => OrgInv'
<1> SUFFICES ASSUME OrgInv, [OrgNext]_orgVars PROVE OrgInv'
  OBVIOUS
<1>t. /\ rows \in 0..MaxRows /\ MaxRows \in Nat /\ members \in [OrgIds -> [People -> RowsUpTo(rows)]] /\ founded \in 0..MaxOrgs
      /\ desk \in [Desks -> CallsUpTo(rows)] /\ MaxOrgs \in Nat /\ standing \subseteq 1..founded
      /\ accounts \in [People -> {"none", "placeholder", "registered"}] /\ founder \in [OrgIds -> People \cup {"nobody"}]
      /\ orphans \subseteq OrgIds /\ withdrawn \subseteq People /\ rows \in Nat /\ founded \in Nat
  BY OrgTypesAre, OrganizationAssumption DEF OrgInv
<1>r. AtRest \in CallsUpTo(rows) /\ AtRest.op = "none" /\ AtRest.org = 0
  BY <1>t DEF CallsUpTo, AtRest
<1>d. ASSUME NEW d \in Desks PROVE desk[d] \in CallsUpTo(rows)
  BY <1>t
<1>f. \A o \in OrgIds, p \in People : members[o][p] \in RowsUpTo(rows)
  BY <1>t
\* An account is registered.
<1>a. ASSUME NEW p \in People, accounts' = [accounts EXCEPT ![p] = "registered"],
             UNCHANGED <<standing, founded, members, desk, founder, orphans, withdrawn, rows>>
      PROVE  OrgInv'
  <2>1. accounts' \in [People -> {"none", "placeholder", "registered"}]
    BY <1>a, <1>t
  <2>2. \A q \in People : accounts'[q] = "placeholder" => accounts[q] = "placeholder"
    BY <1>a, <1>t
  <2>3. OrgTypeOK'
    BY <2>1, <1>a DEF OrgInv, OrgTypeOK
  <2>4. CallsAreRight' /\ RowsAreApart' /\ \A o \in OrgIds : IsStanding(o)'
    BY <1>a DEF OrgInv, CallsAreRight, RowsAreApart, IsStanding, NoRows, Founding, IsOwned, Does
  <2>5. PlaceholderHasCause'
    BY <2>2, <1>a DEF OrgInv, PlaceholderHasCause, Does
  <2> QED BY <2>3, <2>4, <2>5 DEF OrgInv
\* A call ends, or stops.
<1>l. ASSUME NEW d \in Desks, Leave(d), ~Does(d, "addFounder") \/ desk[d].org \in orphans',
             UNCHANGED <<founded, members, founder, rows>>, standing' \subseteq standing,
             accounts' = accounts, orphans' \subseteq OrgIds, orphans \subseteq orphans',
             withdrawn' \subseteq People, withdrawn \subseteq withdrawn', Does(d, "addInvited") => desk[d].person \in withdrawn'
      PROVE  OrgInv'
  <2>1. desk' = [desk EXCEPT ![d] = AtRest]
    BY <1>l DEF Leave
  <2> QED BY <2>1, <1>l, <1>r, <1>t, OrgMoves
\* A call begins.
<1>b. ASSUME NEW d \in Desks, NEW o \in OrgIds, HasCaller(o), NEW p \in People \cup {"nobody"},
             NEW role \in MemberRoles \cup {"none"}, NEW id \in 0..rows,
             NEW op \in {"find", "addUser", "setRole", "remove", "delete"}, Does(d, "none"), Turn(d, op, o, p, role, id),
             op \in {"find", "addUser"} => p \in People /\ role \in MemberRoles,
             op \in {"setRole", "remove"} => id \in 1..rows /\ id # members[o][founder[o]].id,
             op = "setRole" => role \in MemberRoles,
             UNCHANGED <<accounts, standing, founded, members, founder, orphans, withdrawn, rows>>
      PROVE  OrgInv'
  <2> DEFINE r == [op |-> op, org |-> o, person |-> p, role |-> role, id |-> id]
  <2>1. r \in CallsUpTo(rows) /\ desk' = [desk EXCEPT ![d] = r]
    BY <1>b, <1>t DEF CallsUpTo, Turn, OrgIds
  <2>2. IsOwned(o) /\ o \in 1..founded /\ o # 0
    BY <1>b, CallersFindFounder
  <2>3. r.op = op /\ r.org = o /\ r.person = p /\ r.role = role /\ r.id = id
    OBVIOUS
  <2>4. ~Does(d, "addFounder") /\ ~Does(d, "addInvited")
    BY <1>b DEF Does
  <2> HIDE DEF r
  <2> QED BY <2>1, <2>2, <2>3, <2>4, <1>b, <1>t, OrgMoves
\* An invitation goes on.
<1>g. ASSUME NEW d \in Desks, NEW op \in {"addMember", "addInvited"}, Does(d, "find") \/ Does(d, "addUser"), Go(d, op),
             UNCHANGED <<standing, founded, members, founder, orphans, withdrawn, rows>>,
             accounts' \in [People -> {"none", "placeholder", "registered"}],
             \A p \in People : accounts'[p] = "placeholder" => accounts[p] = "placeholder" \/ (op = "addInvited" /\ desk[d].person = p)
      PROVE  OrgInv'
  <2> DEFINE r == [desk[d] EXCEPT !.op = op]
  <2>1. r \in CallsUpTo(rows) /\ desk' = [desk EXCEPT ![d] = r]
    BY <1>g, <1>d DEF CallsUpTo, Go
  <2>2. r.op = op /\ r.org = desk[d].org /\ r.person = desk[d].person /\ r.role = desk[d].role
    BY <1>d DEF CallsUpTo
  <2>3. /\ ~Does(d, "addFounder") /\ ~Does(d, "addInvited") /\ desk[d].person \in People /\ desk[d].role \in MemberRoles
        /\ desk[d].org \in 1..founded
    BY <1>g, <1>t DEF OrgInv, CallsAreRight, Does
  <2>4. desk[d].org \in OrgIds
    BY <2>3, <1>t DEF OrgIds
  <2>5. IsOwned(desk[d].org) /\ desk[d].org # 0
    BY <2>3, <2>4, CallersFindFounder
  <2> HIDE DEF r
  <2> QED BY <2>1, <2>2, <2>3, <2>4, <2>5, <1>g, <1>t, OrgMoves
<1>1. ASSUME NEW p \in People, Register(p) \/ TakeOver(p) PROVE OrgInv'
  BY <1>1, <1>a DEF Register, TakeOver
<1>2. ASSUME NEW d \in Desks, NEW p \in People, CreateOrg(d, p) PROVE OrgInv'
  <2> DEFINE o == founded + 1
             r == [op |-> "addFounder", org |-> o, person |-> p, role |-> "OWNER", id |-> 0]
  <2>1. /\ Does(d, "none") /\ o \in OrgIds /\ founded' = o /\ standing' = standing \cup {o}
        /\ founder' = [founder EXCEPT ![o] = p] /\ desk' = [desk EXCEPT ![d] = r]
        /\ UNCHANGED <<accounts, members, orphans, withdrawn, rows>>
    BY <1>2, <1>t DEF CreateOrg, Turn, OrgIds
  <2>2. r \in CallsUpTo(rows)
    BY <2>1, <1>t DEF CallsUpTo, OrgIds, MemberRoles
  <2>3. desk'[d] = r /\ \A e \in Desks \ {d} : desk'[e] = desk[e]
    BY <2>1, <1>t
  <2>4. founder'[o] = p /\ \A u \in OrgIds \ {o} : founder'[u] = founder[u]
    BY <2>1, <1>t
  <2>5. OrgTypeOK'
    <3>1. desk' \in [Desks -> CallsUpTo(rows)] /\ founder' \in [OrgIds -> People \cup {"nobody"}]
      BY <2>1, <2>2, <1>t
    <3>2. founded' \in 0..MaxOrgs /\ standing' \subseteq 1..founded'
      BY <2>1, <1>t DEF OrgIds
    <3> QED BY <3>1, <3>2, <2>1, <1>t DEF OrgTypeOK, RowsUpTo, CallsUpTo
  <2>6. CallsAreRight'
    <3> SUFFICES ASSUME NEW e \in Desks
                 PROVE  /\ desk'[e].org \in 0..o /\ (desk'[e].op = "none" <=> desk'[e].org = 0)
                        /\ desk'[e].op \in {"addFounder", "find", "addMember", "addUser", "addInvited"} =>
                            desk'[e].person \in People /\ desk'[e].role \in MemberRoles
                        /\ desk'[e].op \in {"setRole", "remove"} => desk'[e].id \in 1..rows
                        /\ desk'[e].op = "setRole" => desk'[e].role \in MemberRoles
      BY <2>1 DEF CallsAreRight, Does
    <3>1. CASE e = d
      BY <3>1, <2>3, <1>t DEF MemberRoles
    <3>2. CASE e # d
      <4>1. /\ desk[e].org \in 0..founded /\ (desk[e].op = "none" <=> desk[e].org = 0)
            /\ desk[e].op \in {"addFounder", "find", "addMember", "addUser", "addInvited"} =>
                desk[e].person \in People /\ desk[e].role \in MemberRoles
            /\ desk[e].op \in {"setRole", "remove"} => desk[e].id \in 1..rows
            /\ desk[e].op = "setRole" => desk[e].role \in MemberRoles
        BY DEF OrgInv, CallsAreRight, Does
      <4>2. 0..founded \subseteq 0..o
        BY <1>t
      <4> QED BY <3>2, <2>3, <4>1, <4>2
    <3> QED BY <3>1, <3>2
  <2>7. RowsAreApart'
    BY <2>1 DEF OrgInv, RowsAreApart
  <2>8. ASSUME NEW u \in OrgIds PROVE IsStanding(u)'
    <3>0. IsStanding(u) /\ u \in Nat /\ u > 0 /\ (NoRows(u)' <=> NoRows(u)) /\ desk[d].org = 0
      BY <2>1 DEF OrgInv, OrgIds, NoRows, CallsAreRight
    <3>1. CASE u = o
      <4>1. NoRows(o)
        BY <3>0, <3>1, <1>t DEF IsStanding
      <4>2. \A e \in Desks : desk[e].org # o
        BY <1>t DEF OrgInv, CallsAreRight
      <4>3. Founding(u, d)'
        BY <3>1, <4>1, <4>2, <3>0, <3>1, <2>3, <2>4 DEF Founding, Does
      <4> QED BY <4>3, <3>1, <2>1, <1>t DEF IsStanding
    <3>2. CASE u # o
      <4>1. \A e \in Desks : desk'[e].org = u => e # d /\ desk'[e] = desk[e]
        BY <3>2, <2>3
      <4>2. \A e \in Desks : desk[e].org = u => e # d /\ desk'[e] = desk[e]
        BY <3>0, <2>3
      <4>3. founder'[u] = founder[u] /\ (u > founded => u > founded') /\ (u <= founded => u <= founded')
        BY <3>2, <3>0, <2>1, <2>4, <1>t
      <4>4. (\A e \in Desks : desk[e].org # u) => \A e \in Desks : desk'[e].org # u
        BY <4>1
      <4>5. ASSUME NEW e \in Desks, Founding(u, e) PROVE Founding(u, e)'
        BY <4>1, <4>2, <4>3, <4>5, <3>0 DEF Founding, Does
      <4>6. IsOwned(u) => IsOwned(u)'
        BY <4>1, <4>3, <2>1 DEF IsOwned, Does
      <4> QED BY <3>0, <4>3, <4>4, <4>5, <4>6, <2>1 DEF IsStanding
    <3> QED BY <3>1, <3>2
  <2>9. PlaceholderHasCause'
    <3>1. \A e \in Desks : Does(e, "addInvited") => desk'[e] = desk[e]
      BY <2>1, <2>3 DEF Does
    <3> QED BY <3>1, <2>1 DEF OrgInv, PlaceholderHasCause, Does
  <2> QED BY <2>5, <2>6, <2>7, <2>8, <2>9 DEF OrgInv
<1>3. ASSUME NEW d \in Desks, AddFounder(d) PROVE OrgInv'
  <2>1. /\ Does(d, "addFounder") /\ AddRow(d, "OWNER", "ACTIVE") /\ Leave(d)
        /\ UNCHANGED <<accounts, standing, founded, founder, orphans, withdrawn>>
    BY <1>3 DEF AddFounder
  <2>2. desk[d].org \in 1..founded
    BY <2>1, <1>t DEF OrgInv, CallsAreRight, Does
  <2>3. desk[d].org \in OrgIds
    BY <2>2, <1>t DEF OrgIds
  <2>4. IsStanding(desk[d].org)
    BY <2>3 DEF OrgInv
  <2>5. desk[d].role = "OWNER"
    BY <2>1, <2>2, <2>4, <1>t DEF IsStanding, Founding, IsOwned
  <2> QED BY <2>1, <2>5, CallInserts
<1>4. ASSUME NEW d \in Desks, RemoveOrg(d) PROVE OrgInv'
  BY <1>4, <1>l, <1>t DEF RemoveOrg, Does
<1>5. ASSUME NEW d \in Desks, FindMember(d) PROVE OrgInv'
  <2>1. Does(d, "find") /\ (Go(d, "addMember") \/ Leave(d))
        /\ UNCHANGED <<accounts, standing, founded, members, founder, orphans, withdrawn, rows>>
    BY <1>5 DEF FindMember
  <2>2. CASE Go(d, "addMember")
    BY <2>1, <2>2, <1>g, <1>t
  <2>3. CASE Leave(d)
    BY <2>1, <2>3, <1>l, <1>t DEF Does
  <2> QED BY <2>1, <2>2, <2>3
<1>6. ASSUME NEW d \in Desks, AddMember(d) PROVE OrgInv'
  BY <1>6, CallInserts DEF AddMember, Does
<1>7. ASSUME NEW d \in Desks, AddUser(d) PROVE OrgInv'
  <2>1. Does(d, "addUser") /\ UNCHANGED <<standing, founded, members, founder, orphans, withdrawn, rows>>
    BY <1>7 DEF AddUser
  <2>2. CASE Leave(d) /\ UNCHANGED accounts
    BY <2>1, <2>2, <1>l, <1>t DEF Does
  <2>3. CASE accounts' = [accounts EXCEPT ![desk[d].person] = "placeholder"] /\ Go(d, "addInvited")
    <3>1. /\ accounts' \in [People -> {"none", "placeholder", "registered"}]
          /\ \A p \in People : accounts'[p] = "placeholder" => accounts[p] = "placeholder" \/ desk[d].person = p
      BY <2>3, <1>t
    <3> QED BY <2>1, <2>3, <3>1, <1>g
  <2> QED BY <2>2, <2>3, <1>7 DEF AddUser
<1>8. ASSUME NEW d \in Desks, AddInvited(d) PROVE OrgInv'
  BY <1>8, CallInserts DEF AddInvited, Does
<1>9. ASSUME NEW d \in Desks, WriteRole(d) PROVE OrgInv'
  <2> DEFINE o == desk[d].org
             new == [p \in People |-> [members[o][p] EXCEPT !.role = desk[d].role]]
  <2>1. /\ Does(d, "setRole") /\ RewriteRow(d, new) /\ Leave(d)
        /\ UNCHANGED <<accounts, standing, founded, founder, orphans, withdrawn, rows>>
    BY <1>9 DEF WriteRole
  <2>2. o \in 1..founded /\ desk[d].role \in MemberRoles /\ desk[d].id \in 1..rows
    BY <2>1, <1>t DEF OrgInv, CallsAreRight, Does
  <2>3. o \in OrgIds
    BY <2>2, <1>t DEF OrgIds
  <2>4. ASSUME NEW p \in People, Holder(d, p)
        PROVE  new[p] \in RowsUpTo(rows) /\ new[p].id = members[o][p].id /\ new[p] # NoRow
    <3>1. members[o][p].id \in 1..rows /\ members[o][p] \in RowsUpTo(rows)
      BY <2>2, <2>3, <2>4, <1>f DEF Holder
    <3>2. members[o][p] \in [id : 1..rows, role : MemberRoles, status : {"ACTIVE", "INVITED"}]
      BY <3>1 DEF RowsUpTo, NoRow
    <3>3. new[p] = [members[o][p] EXCEPT !.role = desk[d].role]
      OBVIOUS
    <3>4. new[p] \in [id : 1..rows, role : MemberRoles, status : {"ACTIVE", "INVITED"}] /\ new[p].id = members[o][p].id
      BY <3>2, <3>3, <2>2
    <3> QED BY <3>1, <3>4 DEF RowsUpTo, NoRow
  <2> HIDE DEF new
  <2> QED BY <2>1, <2>4, <1>t, CallRewrites DEF Does
<1>10. ASSUME NEW d \in Desks, RemoveRow(d) PROVE OrgInv'
  <2> DEFINE new == [p \in People |-> NoRow]
  <2>1. /\ Does(d, "remove") /\ RewriteRow(d, new) /\ Leave(d)
        /\ UNCHANGED <<accounts, standing, founded, founder, orphans, rows>>
        /\ withdrawn' = withdrawn \cup {p \in People : Holder(d, p)}
    BY <1>10 DEF RemoveRow
  <2>2. \A p \in People : new[p] \in RowsUpTo(rows) /\ new[p].id = 0
    BY DEF RowsUpTo, NoRow
  <2>3. \A p \in People : Holder(d, p) => p \in withdrawn'
    BY <2>1
  <2>4. withdrawn' \subseteq People /\ withdrawn \subseteq withdrawn'
    BY <2>1, <1>t
  <2> HIDE DEF new
  <2> QED BY <2>1, <2>2, <2>3, <2>4, CallRewrites DEF Does
<1>11. ASSUME NEW d \in Desks, Interrupt(d) PROVE OrgInv'
  <2>1. /\ orphans' = orphans \cup {o \in OrgIds : Does(d, "addFounder") /\ desk[d].org = o}
        /\ withdrawn' = withdrawn \cup {p \in People : Does(d, "addInvited") /\ desk[d].person = p}
        /\ Leave(d) /\ UNCHANGED <<accounts, standing, founded, members, founder, rows>>
    BY <1>11 DEF Interrupt
  <2>2. Does(d, "addFounder") => desk[d].org \in 1..founded
    BY <1>t DEF OrgInv, CallsAreRight, Does
  <2>3. ~Does(d, "addFounder") \/ desk[d].org \in orphans'
    BY <2>1, <2>2, <1>t DEF OrgIds
  <2>4. Does(d, "addInvited") => desk[d].person \in withdrawn'
    BY <2>1 DEF OrgInv, CallsAreRight, Does
  <2> QED BY <2>1, <2>3, <2>4, <1>l, <1>t
<1>12. ASSUME NEW d \in Desks, NEW o \in OrgIds, DeleteOrg(d, o) PROVE OrgInv'
  <2>1. /\ Does(d, "none") /\ HasCaller(o) /\ Turn(d, "delete", o, "nobody", "none", 0) /\ 0 \in 0..rows
        /\ UNCHANGED <<accounts, standing, founded, members, founder, orphans, withdrawn, rows>>
    BY <1>12, <1>t DEF DeleteOrg
  <2> QED BY <2>1, <1>b
<1>13. ASSUME NEW d \in Desks, NEW o \in OrgIds, NEW p \in People, NEW role \in MemberRoles, Invite(d, o, p, role) PROVE OrgInv'
  <2>1. /\ Does(d, "none") /\ HasCaller(o) /\ 0 \in 0..rows
        /\ Turn(d, "addUser", o, p, role, 0) \/ Turn(d, "find", o, p, role, 0)
        /\ UNCHANGED <<accounts, standing, founded, members, founder, orphans, withdrawn, rows>>
    BY <1>13, <1>t DEF Invite
  <2> QED BY <2>1, <1>b
<1>14. ASSUME NEW d \in Desks, NEW o \in OrgIds, NEW p \in People, NEW op \in {"setRole", "remove"},
              NEW role \in MemberRoles \cup {"none"}, op = "setRole" => role \in MemberRoles, FindRow(d, o, p, op, role)
       PROVE  OrgInv'
  <2>1. /\ Does(d, "none") /\ HasCaller(o) /\ members[o][p] # NoRow /\ members[o][p].role # "OWNER"
        /\ Turn(d, op, o, p, role, members[o][p].id)
        /\ UNCHANGED <<accounts, standing, founded, members, founder, orphans, withdrawn, rows>>
    BY <1>14 DEF FindRow, Spared
  <2>2. members[o][p].id \in 0..rows /\ members[o][p].id # 0
    BY <2>1, <1>f, <1>t, RowFields
  <2>3. IsOwned(o)
    BY <2>1, CallersFindFounder
  <2>4. members[o][p].id # members[o][founder[o]].id
    BY <2>1, <2>3 DEF IsOwned, OrgInv, RowsAreApart
  <2>5. members[o][p].id \in 1..rows
    BY <2>2, <1>t
  <2> QED BY <2>1, <2>2, <2>4, <2>5, <1>14, <1>b
<1>15. CASE UNCHANGED orgVars
  BY <1>15 DEF orgVars, OrgInv, OrgTypeOK, CallsAreRight, RowsAreApart, IsStanding, NoRows, Founding, IsOwned, PlaceholderHasCause, Does
<1> QED BY <1>1, <1>2, <1>3, <1>4, <1>5, <1>6, <1>7, <1>8, <1>9, <1>10, <1>11, <1>12, <1>13, <1>14, <1>15 DEF OrgNext

LEMMA OrgInitially == OrgInit => OrgInv
<1> SUFFICES ASSUME OrgInit PROVE OrgInv
  OBVIOUS
<1>1. /\ accounts = [p \in People |-> "none"] /\ standing = {} /\ founded = 0 /\ rows = 0
      /\ members = [o \in OrgIds |-> [p \in People |-> NoRow]] /\ desk = [d \in Desks |-> AtRest]
      /\ founder = [o \in OrgIds |-> "nobody"] /\ orphans = {} /\ withdrawn = {}
  BY DEF OrgInit
<1>2. OrgTypeOK
  <2>1. AtRest \in CallsUpTo(0) /\ NoRow \in RowsUpTo(0)
    BY OrganizationAssumption DEF CallsUpTo, RowsUpTo, AtRest
  <2>2. members \in [OrgIds -> [People -> RowsUpTo(0)]] /\ desk \in [Desks -> CallsUpTo(0)]
    BY <1>1, <2>1
  <2> QED BY <2>2, <1>1, OrganizationAssumption, OrgTypesAre
<1>3. CallsAreRight /\ RowsAreApart /\ PlaceholderHasCause
  BY <1>1 DEF CallsAreRight, RowsAreApart, PlaceholderHasCause, Does, AtRest
<1>4. \A o \in OrgIds : IsStanding(o)
  BY <1>1 DEF IsStanding, NoRows, OrgIds
<1> QED BY <1>2, <1>3, <1>4 DEF OrgInv

LEMMA OrgInvSays == OrgInv => FounderStays /\ PlaceholderHasCause
<1> SUFFICES ASSUME OrgInv, NEW o \in standing
             PROVE  \/ members[o][founder[o]].role = "OWNER" /\ members[o][founder[o]].status = "ACTIVE"
                    \/ o \in orphans \/ \E d \in Desks : Does(d, "addFounder") /\ desk[d].org = o
  BY DEF OrgInv, FounderStays
<1>1. o \in OrgIds /\ o \in 1..founded /\ founded \in Nat
  BY OrganizationAssumption DEF OrgInv, OrgTypeOK, OrgIds
<1>2. IsStanding(o)
  BY <1>1 DEF OrgInv
<1> QED BY <1>1, <1>2 DEF IsStanding, IsOwned, Founding

-----------------------------------------------------------------------------
(* Pictures and videos: work that is paid for *)

\* A vendor's work that is running or ready has the request waiting for it, or is the
\* picture or the film that is used, or was given up for a reason that excuses it. A
\* model that was given up is not asked again, and one that is still to come has not
\* been asked.
GaveUp == {"failed", "none", "kept"}
AsBefore(m) == m > model \/ (m = model /\ asking \in {"new", "submit", "over"})
Accounted(m) ==
    \/ m = model /\ asking \in {"wait", "fetch", "store", "made"}
    \/ given[m] \in {"timeout", "lost"} /\ (m # model \/ asking \in GaveUp)

\* What a run that was cut short has wasted is one model's work, and so is what is
\* whole of what it left.
CutShortOK(p) == (\A m, n \in p.wasted : m = n) /\ (p.left.whole => p.left.of \in p.wasted)

MediaInv ==
    /\ medium \in {"image", "video"} /\ model \in Nat
    /\ asking \in InWork \cup {"new", "made", "failed", "none", "kept", "over"}
    /\ jobs \in [AllModels -> {"none", "running", "ready", "rejected"}] /\ DOMAIN given = AllModels
    /\ lastSeen \in {"running", "ready", "rejected"} /\ disk \in [of : Nat, whole : BOOLEAN]
    /\ asking \in InWork => model \in Models
    /\ asking \in {"new", "over"} => model = 1
    /\ \A m \in AllModels : AsBefore(m) => jobs[m] = "none"
    /\ \A m \in AllModels : m > model \/ (m = model /\ asking \notin GaveUp) => given[m] = "none"
    /\ asking = "wait" => jobs[model] # "none" /\ (lastSeen = "running" \/ lastSeen = jobs[model])
    /\ asking \in {"fetch", "store"} => jobs[model] = "ready"
    /\ \A m \in AllModels : jobs[m] \in {"running", "ready"} => Accounted(m)
    /\ disk.whole <=> asking = "made"
    /\ asking = "made" => disk.of = model /\ model \in AllModels /\ jobs[model] = "ready"
    /\ asking \in {"new", "none", "over"} => disk = NoFile
    /\ disk.of # 0 /\ ~disk.whole =>
        /\ disk.of \in AllModels /\ given[disk.of] = "lost"
        /\ disk.of < model \/ asking \in {"failed", "kept"}
    /\ \A p \in past : CutShortOK(p)

LEMMA MediaStep == MediaInv /\ [MediaNext]_mediaVars => MediaInv'
<1> SUFFICES ASSUME MediaInv, [MediaNext]_mediaVars PROVE MediaInv'
  OBVIOUS
<1> DEFINE Forms == [of : Nat, whole : BOOLEAN]
           Work == {"none", "running", "ready", "rejected"}
<1>t. /\ medium \in {"image", "video"} /\ model \in Nat
      /\ asking \in InWork \cup {"new", "made", "failed", "none", "kept", "over"}
      /\ jobs \in [AllModels -> Work] /\ DOMAIN given = AllModels
      /\ lastSeen \in {"running", "ready", "rejected"} /\ disk \in Forms
  BY DEF MediaInv
<1>i. /\ asking \in InWork => model \in Models
      /\ asking \in {"new", "over"} => model = 1
      /\ \A m \in AllModels : AsBefore(m) => jobs[m] = "none"
      /\ \A m \in AllModels : m > model \/ (m = model /\ asking \notin GaveUp) => given[m] = "none"
      /\ asking = "wait" => jobs[model] # "none" /\ (lastSeen = "running" \/ lastSeen = jobs[model])
      /\ asking \in {"fetch", "store"} => jobs[model] = "ready"
      /\ \A m \in AllModels : jobs[m] \in {"running", "ready"} => Accounted(m)
  BY DEF MediaInv
<1>d. /\ disk.whole <=> asking = "made"
      /\ asking = "made" => disk.of = model /\ model \in AllModels /\ jobs[model] = "ready"
      /\ asking \in {"new", "none", "over"} => disk = NoFile
      /\ disk.of # 0 /\ ~disk.whole =>
        /\ disk.of \in AllModels /\ given[disk.of] = "lost"
        /\ disk.of < model \/ asking \in {"failed", "kept"}
      /\ \A p \in past : CutShortOK(p)
  BY DEF MediaInv
<1>m. Models \subseteq AllModels /\ Models \subseteq Nat /\ AllModels \subseteq Nat /\ 0 \notin AllModels
  BY MediaAssumption DEF Models, AllModels
<1>s. medium' = medium => Models' = Models
  BY DEF Models
\* The model that was asked is given up, for a reason that excuses what it has made.
<1>g. ASSUME NEW why, GiveUp(why), asking \in {"submit", "wait", "fetch"}, UNCHANGED jobOfMediaVars,
             jobs' \in [AllModels -> Work], \A m \in AllModels \ {model} : jobs'[m] = jobs[m],
             jobs'[model] \in {"running", "ready"} => why \in {"timeout", "lost"},
             lastSeen' \in {"running", "ready", "rejected"},
             disk' = disk \/ (disk' = [of |-> model, whole |-> FALSE] /\ why = "lost")
      PROVE  MediaInv'
  <2>1. /\ given'[model] = why /\ DOMAIN given' = AllModels /\ \A m \in AllModels \ {model} : given'[m] = given[m]
        /\ \/ model + 1 \in Models /\ asking' = "submit" /\ model' = model + 1
           \/ asking' = "failed" /\ model' = model
    BY <1>g, <1>t, <1>i, <1>m DEF GiveUp, InWork
  <2>2. model' \in Nat /\ asking' \in {"submit", "failed"} /\ model \in AllModels
    BY <2>1, <1>t, <1>i, <1>m, <1>g DEF InWork
  <2>3. ~disk.whole
    BY <1>g, <1>d
  <2>4. disk' \in Forms /\ ~disk'.whole
    <3>1. CASE disk' = disk
      BY <3>1, <1>t, <2>3
    <3>2. CASE disk' = [of |-> model, whole |-> FALSE]
      BY <3>2, <1>t
    <3> QED BY <3>1, <3>2, <1>g
  <2>5. \A m \in AllModels : AsBefore(m)' => jobs'[m] = "none"
    BY <2>1, <2>2, <1>g, <1>i, <1>m, <1>t DEF AsBefore
  <2>6. \A m \in AllModels : jobs'[m] \in {"running", "ready"} => Accounted(m)'
    <3> SUFFICES ASSUME NEW m \in AllModels, jobs'[m] \in {"running", "ready"}
                 PROVE  given'[m] \in {"timeout", "lost"} /\ (m # model' \/ asking' = "failed")
      BY DEF Accounted, GaveUp
    <3>1. CASE m = model
      BY <3>1, <2>1, <1>g, <1>t
    <3>2. CASE m # model
      <4>1. jobs[m] \in {"running", "ready"} /\ given'[m] = given[m]
        BY <3>2, <2>1, <1>g
      <4>2. given[m] \in {"timeout", "lost"}
        BY <4>1, <3>2, <1>i, <1>g DEF Accounted
      <4>3. m # model' \/ asking' = "failed"
        BY <2>1, <2>5, <3>2 DEF AsBefore
      <4> QED BY <4>1, <4>2, <4>3
    <3> QED BY <3>1, <3>2
  <2>7. disk'.of # 0 => /\ disk'.of \in AllModels /\ given'[disk'.of] = "lost"
                        /\ disk'.of < model' \/ asking' = "failed"
    <3>1. CASE disk' = disk
      <4> SUFFICES ASSUME disk.of # 0
                   PROVE  disk.of \in AllModels /\ given'[disk.of] = "lost" /\ (disk.of < model' \/ asking' = "failed")
        BY <3>1
      <4>1. disk.of \in AllModels /\ given[disk.of] = "lost" /\ disk.of < model
        BY <2>3, <1>d, <1>g
      <4>2. disk.of # model /\ disk.of \in Nat
        BY <4>1, <1>m, <1>t
      <4> QED BY <4>1, <4>2, <2>1, <1>t
    <3>2. CASE disk' = [of |-> model, whole |-> FALSE] /\ why = "lost"
      BY <3>2, <2>1, <2>2, <1>t
    <3> QED BY <3>1, <3>2, <1>g
  <2>8. \A m \in AllModels : m > model' \/ (m = model' /\ asking' \notin GaveUp) => given'[m] = "none"
    BY <2>1, <2>2, <1>i, <1>m, <1>t DEF GaveUp
  <2>9. medium' = medium /\ past' = past /\ Models' = Models
    BY <1>g, <1>s DEF jobOfMediaVars
  <2>10. asking' \in InWork => model' \in Models
    BY <2>1 DEF InWork
  <2>11. \A p \in past' : CutShortOK(p)
    BY <2>9, <1>d
  <2> QED BY <1>g, <1>t, <1>m, <2>1, <2>2, <2>4, <2>5, <2>6, <2>7, <2>8, <2>9, <2>10, <2>11 DEF MediaInv, InWork, CutShortOK
\* A step to where the model is still asked, or its work used: of the model and what
\* the others have made nothing changes.
<1>k. ASSUME UNCHANGED <<medium, model, given, past>>, asking \in InWork,
             asking' \in {"wait", "fetch", "store", "made"},
             jobs' \in [AllModels -> Work], \A m \in AllModels \ {model} : jobs'[m] = jobs[m],
             asking' = "wait" => jobs'[model] # "none" /\ (lastSeen' = "running" \/ lastSeen' = jobs'[model]),
             asking' # "wait" => jobs'[model] = "ready",
             lastSeen' \in {"running", "ready", "rejected"},
             IF asking' = "made" THEN disk' = [of |-> model, whole |-> TRUE] ELSE disk' = disk
      PROVE  MediaInv'
  <2>1. model \in Models /\ model \in AllModels /\ Models' = Models /\ asking \notin GaveUp /\ asking' \notin GaveUp
    BY <1>k, <1>i, <1>m, <1>s DEF InWork, GaveUp
  <2>2. \A m \in AllModels : AsBefore(m)' => jobs'[m] = "none"
    BY <1>k, <1>i, <1>t, <1>m, <2>1 DEF AsBefore
  <2>3. \A m \in AllModels : jobs'[m] \in {"running", "ready"} => Accounted(m)'
    <3> SUFFICES ASSUME NEW m \in AllModels, m # model, jobs[m] \in {"running", "ready"} PROVE given[m] \in {"timeout", "lost"}
      BY <1>k DEF Accounted
    <3> QED BY <1>i DEF Accounted
  <2>4. \A m \in AllModels : m > model \/ (m = model /\ asking' \notin GaveUp) => given[m] = "none"
    BY <1>i, <2>1
  <2>5. disk' \in Forms /\ (disk'.whole <=> asking' = "made") /\ (asking' = "made" => disk'.of = model)
    <3>1. CASE asking' = "made"
      <4>1. disk' = [of |-> model, whole |-> TRUE]
        BY <3>1, <1>k
      <4> QED BY <4>1, <3>1, <1>t
    <3>2. CASE asking' # "made"
      <4>1. disk' = disk /\ asking # "made"
        BY <3>2, <1>k DEF InWork
      <4> QED BY <4>1, <3>2, <1>d, <1>t
    <3> QED BY <3>1, <3>2
  <2>6. disk'.of # 0 /\ ~disk'.whole =>
           disk'.of \in AllModels /\ given[disk'.of] = "lost" /\ (disk'.of < model \/ asking' \in {"failed", "kept"})
    <3>1. ~disk'.whole => disk' = disk
      BY <1>k, <2>5
    <3>2. asking \notin {"failed", "kept"}
      BY <1>k DEF InWork
    <3> QED BY <3>1, <3>2, <1>d
  <2>7. \A p \in past' : CutShortOK(p)
    BY <1>k, <1>d
  <2> QED BY <1>k, <1>t, <2>1, <2>2, <2>3, <2>4, <2>5, <2>6, <2>7 DEF MediaInv, InWork, CutShortOK
<1>1. CASE AskMedia
  <2>1. /\ asking = "new" /\ asking' \in {"none", "submit"} /\ UNCHANGED <<medium, model, jobs, lastSeen, given, disk, past>>
        /\ asking' = "submit" => Models # {}
    BY <1>1 DEF AskMedia, jobOfMediaVars
  <2>2. Models # {} => 1 \in Models
    BY MediaAssumption DEF Models
  <2>3. model = 1 /\ disk = NoFile /\ Models' = Models
    BY <2>1, <1>i, <1>d, <1>s
  <2>4. \A m \in AllModels : jobs[m] = "none"
    BY <2>1, <2>3, <1>i, <1>t, MediaAssumption DEF AsBefore, AllModels
  <2>5. \A m \in AllModels : m > model \/ (m = model /\ asking' \notin GaveUp) => given[m] = "none"
    BY <2>1, <1>i DEF GaveUp
  <2>6. NoFile.of = 0 /\ ~NoFile.whole
    BY DEF NoFile
  <2> QED BY <2>1, <2>2, <2>3, <2>4, <2>5, <2>6, <1>t, <1>d DEF MediaInv, InWork, CutShortOK
<1>2. ASSUME NEW removed \in BOOLEAN, CleanUp(removed) PROVE MediaInv'
  <2>1. /\ asking = "failed" /\ asking' \in {"none", "kept"} /\ UNCHANGED <<medium, model, jobs, lastSeen, given, past>>
        /\ disk' = (IF asking' = "none" THEN NoFile ELSE disk)
    BY <1>2 DEF CleanUp, jobOfMediaVars
  <2>2. NoFile \in Forms /\ NoFile.of = 0 /\ ~NoFile.whole
    BY DEF NoFile
  <2>3. \A m \in AllModels : AsBefore(m)' => jobs[m] = "none"
    BY <2>1, <1>i DEF AsBefore
  <2>4. \A m \in AllModels : jobs[m] \in {"running", "ready"} => Accounted(m)'
    BY <2>1, <1>i DEF Accounted, GaveUp
  <2>5. \A m \in AllModels : m > model \/ (m = model /\ asking' \notin GaveUp) => given[m] = "none"
    BY <2>1, <1>i DEF GaveUp
  <2>6. disk' \in Forms /\ ~disk'.whole /\ ~disk.whole
    BY <2>1, <2>2, <1>t, <1>d
  <2>7. disk'.of # 0 => /\ disk'.of \in AllModels /\ given[disk'.of] = "lost" /\ asking' = "kept"
    BY <2>1, <2>2, <2>6, <1>d
  <2>8. \A p \in past' : CutShortOK(p)
    BY <2>1, <1>d
  <2> QED BY <2>1, <2>3, <2>4, <2>5, <2>6, <2>7, <2>8, <1>t DEF MediaInv, InWork, CutShortOK
<1>3. ASSUME NEW begun \in BOOLEAN, NEW callLost \in BOOLEAN, SubmitJob(begun, callLost) PROVE MediaInv'
  <2>1. /\ asking = "submit" /\ jobs' = (IF begun THEN [jobs EXCEPT ![model] = "running"] ELSE jobs)
        /\ lastSeen' = "running" /\ disk' = disk /\ UNCHANGED jobOfMediaVars /\ model \in AllModels /\ jobs[model] = "none"
    BY <1>3, <1>i, <1>m DEF SubmitJob, InWork, AsBefore
  <2>2. jobs' \in [AllModels -> Work] /\ \A m \in AllModels \ {model} : jobs'[m] = jobs[m]
    BY <2>1, <1>t
  <2>3. CASE begun /\ ~callLost
    <3>1. asking' = "wait" /\ UNCHANGED <<model, given>> /\ jobs'[model] = "running"
      BY <1>3, <2>1, <2>3, <1>t DEF SubmitJob
    <3> QED BY <2>1, <2>2, <3>1, <1>k DEF InWork, jobOfMediaVars
  <2>4. CASE ~(begun /\ ~callLost)
    <3>1. GiveUp(IF callLost THEN "lost" ELSE "unmade") /\ (jobs'[model] \in {"running", "ready"} => callLost)
      BY <1>3, <2>1, <2>4, <1>t DEF SubmitJob
    <3> QED BY <2>1, <2>2, <3>1, <1>g
  <2> QED BY <2>3, <2>4
<1>4. ASSUME NEW drawn \in BOOLEAN, NEW callLost \in BOOLEAN, Draw(drawn, callLost) PROVE MediaInv'
  <2>1. /\ asking = "submit" /\ jobs' = (IF drawn THEN [jobs EXCEPT ![model] = "ready"] ELSE jobs)
        /\ UNCHANGED <<lastSeen, disk, jobOfMediaVars>> /\ model \in AllModels /\ jobs[model] = "none"
    BY <1>4, <1>i, <1>m DEF Draw, InWork, AsBefore
  <2>2. jobs' \in [AllModels -> Work] /\ \A m \in AllModels \ {model} : jobs'[m] = jobs[m]
    BY <2>1, <1>t
  <2>3. CASE drawn /\ ~callLost
    <3>1. asking' = "store" /\ UNCHANGED <<model, given>> /\ jobs'[model] = "ready"
      BY <1>4, <2>1, <2>3, <1>t DEF Draw
    <3> QED BY <2>1, <2>2, <3>1, <1>k, <1>t DEF InWork, jobOfMediaVars
  <2>4. CASE ~(drawn /\ ~callLost)
    <3>1. GiveUp(IF callLost THEN "lost" ELSE "unmade") /\ (jobs'[model] \in {"running", "ready"} => callLost) /\ disk' = disk
      BY <1>4, <2>1, <2>4, <1>t DEF Draw
    <3> QED BY <2>1, <2>2, <3>1, <1>g, <1>t
  <2> QED BY <2>3, <2>4
<1>5. ASSUME NEW callLost \in BOOLEAN, Wait(callLost) PROVE MediaInv'
  <2>1. asking = "wait" /\ UNCHANGED <<jobs, disk, jobOfMediaVars>> /\ model \in AllModels
    BY <1>5, <1>i, <1>m DEF Wait, InWork
  <2>2. jobs[model] \in Work
    BY <2>1, <1>t
  <2>3. CASE lastSeen = "ready"
    <3>1. asking' = "fetch" /\ UNCHANGED <<model, given, lastSeen>> /\ jobs[model] = "ready"
      BY <1>5, <2>1, <2>3, <1>i DEF Wait
    <3> QED BY <2>1, <3>1, <1>k, <1>t DEF InWork, jobOfMediaVars
  <2>4. CASE lastSeen = "rejected"
    <3>1. GiveUp("unmade") /\ UNCHANGED lastSeen /\ jobs[model] = "rejected"
      BY <1>5, <2>1, <2>4, <1>i DEF Wait
    <3> QED BY <2>1, <3>1, <1>g, <1>t
  <2>5. CASE lastSeen = "running" /\ GiveUp(TooLate) /\ UNCHANGED lastSeen
    BY <2>1, <2>5, <1>g, <1>t DEF TooLate
  <2>6. CASE lastSeen = "running" /\ GiveUp("lost") /\ UNCHANGED lastSeen
    BY <2>1, <2>6, <1>g, <1>t
  <2>7. CASE lastSeen = "running" /\ lastSeen' = jobs[model] /\ UNCHANGED <<asking, model, given>>
    <3>1. jobs[model] # "none"
      BY <2>1, <2>7, <1>i
    <3> QED BY <2>1, <2>2, <2>7, <3>1, <1>k, <1>t DEF InWork, jobOfMediaVars
  <2> QED BY <1>5, <1>t, <2>3, <2>4, <2>5, <2>6, <2>7 DEF Wait
<1>6. ASSUME NEW callLost \in BOOLEAN, Fetch(callLost) PROVE MediaInv'
  <2>1. asking = "fetch" /\ UNCHANGED <<jobs, lastSeen, jobOfMediaVars>> /\ model \in AllModels /\ jobs[model] = "ready"
    BY <1>6, <1>i, <1>m DEF Fetch, InWork
  <2>2. CASE callLost
    <3>1. GiveUp("lost") /\ (disk' = disk \/ disk' = [of |-> model, whole |-> FALSE])
      BY <1>6, <2>2 DEF Fetch
    <3> QED BY <2>1, <3>1, <1>g, <1>t
  <2>3. CASE ~callLost
    <3>1. asking' = "made" /\ disk' = [of |-> model, whole |-> TRUE] /\ UNCHANGED <<model, given>>
      BY <1>6, <2>3 DEF Fetch
    <3> QED BY <2>1, <3>1, <1>k, <1>t DEF InWork, jobOfMediaVars
  <2> QED BY <2>2, <2>3
<1>7. CASE StorePicture
  <2>1. /\ asking = "store" /\ asking' = "made" /\ disk' = [of |-> model, whole |-> TRUE] /\ jobs[model] = "ready"
        /\ UNCHANGED <<medium, model, jobs, lastSeen, given, past>>
    BY <1>7, <1>i DEF StorePicture, jobOfMediaVars
  <2> QED BY <2>1, <1>k, <1>t DEF InWork
<1>8. ASSUME NEW m \in AllModels, NEW how \in {"ready", "rejected"}, VendorEnds(m, how) PROVE MediaInv'
  <2>1. /\ jobs[m] = "running" /\ jobs' = [jobs EXCEPT ![m] = how]
        /\ UNCHANGED <<medium, asking, model, lastSeen, given, disk, past>>
    BY <1>8 DEF VendorEnds, jobOfMediaVars
  <2>2. jobs' \in [AllModels -> Work] /\ jobs'[m] = how /\ \A n \in AllModels \ {m} : jobs'[n] = jobs[n]
    BY <2>1, <1>t
  <2>3. \A n \in AllModels : jobs'[n] \in {"running", "ready"} => jobs[n] \in {"running", "ready"}
    BY <2>1, <2>2
  <2>4. asking \in {"fetch", "store", "made"} => m # model
    BY <2>1, <1>i, <1>d
  <2>5. \A n \in AllModels : AsBefore(n)' => jobs'[n] = "none"
    BY <2>1, <2>2, <1>i DEF AsBefore
  <2>6. asking = "wait" => jobs'[model] # "none" /\ (lastSeen = "running" \/ lastSeen = jobs'[model])
    BY <2>1, <2>2, <1>i, <1>m DEF InWork
  <2>7. asking \in {"fetch", "store"} => jobs'[model] = "ready"
    BY <2>2, <2>4, <1>i, <1>m DEF InWork
  <2>8. asking = "made" => jobs'[model] = "ready"
    BY <2>2, <2>4, <1>d
  <2>9. \A n \in AllModels : jobs'[n] \in {"running", "ready"} => Accounted(n)'
    BY <2>1, <2>3, <1>i DEF Accounted
  <2>10. \A p \in past' : CutShortOK(p)
    BY <2>1, <1>d
  <2> QED BY <2>1, <2>2, <2>5, <2>6, <2>7, <2>8, <2>9, <2>10, <1>s, <1>t, <1>i, <1>d DEF MediaInv, InWork, CutShortOK
<1>9. ASSUME NEW died \in BOOLEAN, NEW again \in BOOLEAN, RunEnds(died, again) PROVE MediaInv'
  <2>1. PICK left \in {disk} \cup {[of |-> model, whole |-> FALSE]} : past' = past \cup {[wasted |-> Wasted, left |-> left]}
    BY <1>9 DEF RunEnds
  <2>2. /\ asking' \in {"new", "over"} /\ model' = 1 /\ lastSeen' = "running" /\ disk' = NoFile /\ medium' = medium
        /\ jobs' = [m \in AllModels |-> "none"] /\ given' = [m \in AllModels |-> "none"]
    BY <1>9 DEF RunEnds
  <2>3. \A m \in Wasted : m = model /\ asking \notin GaveUp
    <3> SUFFICES ASSUME NEW m \in AllModels, jobs[m] \in {"running", "ready"}, given[m] = "none"
                 PROVE  m = model /\ asking \notin GaveUp
      BY DEF Wasted
    <3> QED BY <1>i DEF Accounted, GaveUp
  <2>4. left.whole => left.of \in Wasted
    <3> SUFFICES ASSUME left.whole PROVE left.of \in Wasted
      OBVIOUS
    <3>1. left = disk
      BY <2>1
    <3>2. asking = "made" /\ disk.of = model /\ model \in AllModels /\ jobs[model] = "ready"
      BY <3>1, <1>d
    <3>3. given[model] = "none"
      BY <3>2, <1>i DEF GaveUp
    <3> QED BY <3>1, <3>2, <3>3 DEF Wasted
  <2>5. \A p \in past' : CutShortOK(p)
    <3> DEFINE new == [wasted |-> Wasted, left |-> left]
    <3>1. new.wasted = Wasted /\ new.left = left
      OBVIOUS
    <3>2. CutShortOK(new)
      BY <3>1, <2>3, <2>4 DEF CutShortOK
    <3> QED BY <3>2, <2>1, <1>d
  <2>6. NoFile \in Forms /\ NoFile.of = 0 /\ ~NoFile.whole
    BY DEF NoFile
  <2> QED BY <2>2, <2>5, <2>6, <1>t DEF MediaInv, InWork, CutShortOK
<1>10. CASE UNCHANGED mediaVars
  <2>1. UNCHANGED <<medium, asking, model, jobs, lastSeen, given, disk, past>> /\ Models' = Models
    BY <1>10, <1>s DEF mediaVars, askingVars, jobOfMediaVars
  <2>2. \A m \in AllModels : (AsBefore(m)' <=> AsBefore(m)) /\ (Accounted(m)' <=> Accounted(m))
    BY <2>1 DEF AsBefore, Accounted
  <2>3. \A p \in past' : CutShortOK(p)
    BY <2>1, <1>d
  <2> QED BY <2>1, <2>2, <2>3, <1>t, <1>i, <1>d DEF MediaInv, CutShortOK
<1> QED BY <1>1, <1>2, <1>3, <1>4, <1>5, <1>6, <1>7, <1>8, <1>9, <1>10 DEF MediaNext

LEMMA MediaInitially == MediaInit => MediaInv
<1> SUFFICES ASSUME MediaInit PROVE MediaInv
  OBVIOUS
<1>1. NoFile \in [of : Nat, whole : BOOLEAN] /\ NoFile.of = 0 /\ ~NoFile.whole
  BY DEF NoFile
<1> QED BY <1>1 DEF MediaInit, MediaInv, InWork

LEMMA MediaInvSays == MediaInv => PaidMediaIsUsed
<1> SUFFICES ASSUME MediaInv PROVE PaidMediaIsUsed
  OBVIOUS
<1>1. ASSUME NEW m \in AllModels, jobs[m] = "ready"
      PROVE  \/ disk = [of |-> m, whole |-> TRUE]
             \/ m = model /\ asking \in {"wait", "fetch", "store"}
             \/ given[m] \in {"timeout", "lost"}
  <2>1. CASE m = model /\ asking = "made"
    BY <2>1 DEF MediaInv
  <2>2. CASE ~(m = model /\ asking = "made")
    BY <1>1, <2>2 DEF MediaInv, Accounted
  <2> QED BY <2>1, <2>2
<1>2. disk # NoFile /\ asking \notin InWork \cup {"failed"} => asking \in {"made", "kept"}
  BY DEF MediaInv
<1>3. \A p \in past : CutShortOK(p)
  BY DEF MediaInv
<1> QED BY <1>1, <1>2, <1>3 DEF MediaInv, PaidMediaIsUsed, CutShortOK

-----------------------------------------------------------------------------
(* The seed script: numbers and rows *)

\* Where the script is in its order, which names every step once.
LEMMA SeedOrderIs ==
    /\ DOMAIN SeedOrder = 1..14
    /\ \A i, j \in 1..14 : SeedOrder[i] = SeedOrder[j] => i = j
    /\ SeedSteps = Keyed \cup Created \cup {"invoices", "counter"}
    /\ "idle" \notin SeedSteps
    /\ SeedOrder[1] = "users" /\ SeedOrder[14] = "labels"
  BY DEF SeedOrder, SeedSteps, Keyed, Created

LEMMA StepAfterIs == \A i \in 1..13 : StepAfter(SeedOrder[i]) = SeedOrder[i + 1]
<1> SUFFICES ASSUME NEW i \in 1..13 PROVE StepAfter(SeedOrder[i]) = SeedOrder[i + 1]
  OBVIOUS
<1> DEFINE n == CHOOSE j \in DOMAIN SeedOrder : SeedOrder[j] = SeedOrder[i]
<1>1. n \in 1..14 /\ SeedOrder[n] = SeedOrder[i]
  BY SeedOrderIs
<1>2. n = i
  BY <1>1, SeedOrderIs
<1>3. StepAfter(SeedOrder[i]) = SeedOrder[n + 1]
  BY DEF StepAfter
<1> HIDE DEF n
<1> QED BY <1>2, <1>3

LEMMA SizesOfSteps ==
    /\ \A s \in SeedSteps : Size(s) \in Nat /\ Size(s) > 0
    /\ Size("invoices") = SeedInvoices /\ Size("counter") = 1
  BY SeedAssumption DEF Size, SeedSteps, SeedOrder

\* What the script has passed is there, and what it is writing as far as it is.
PassedSteps ==
    /\ \A i, j \in 1..14 : seedAt = SeedOrder[j] /\ i < j /\ SeedOrder[i] # "counter" =>
        seeded[SeedOrder[i]] >= Size(SeedOrder[i])
    /\ seedAt \in SeedSteps \ {"counter"} => seeded[seedAt] >= seedRow
    /\ completed > 0 => \A s \in SeedSteps \ {"counter"} : seeded[s] >= Size(s)

\* This run has written its first invoice, which no other run can then write.
PastInvoices == seedAt \in {"counter", "categories", "labels"} \/ (seedAt = "invoices" /\ seedRow > 0)

\* The invoices' numbers let one run past them.
OneRun ==
    /\ (1 \notin takenNumbers \/ PastInvoices) => completed = 0
    /\ 1 \notin takenNumbers => ~PastInvoices /\ seeded["invoices"] = 0
    /\ (1 \notin takenNumbers \/ seedAt = "counter" \/ (seedAt = "invoices" /\ seedRow > 0)) =>
        seeded["categories"] = 0 /\ seeded["labels"] = 0
    /\ seedAt = "invoices" /\ seedRow > 0 => seeded["invoices"] = seedRow
    /\ seedAt = "categories" => seeded["categories"] = seedRow /\ seeded["labels"] = 0
    /\ seedAt = "labels" => seeded["labels"] = seedRow
    /\ completed <= 1
    /\ \A s \in Keyed \cup {"invoices", "categories", "labels"} : seeded[s] <= Size(s)

\* Undisturbed, the numbers that are taken are those of a run that is under way, or
\* the counter is past them.
NumbersInUse ==
    ~disturbed =>
        \/ /\ takenNumbers = {} /\ invoiceCounter = 0 /\ completed = 0
           /\ seedAt \notin {"counter", "categories", "labels"} /\ (seedAt = "invoices" => seedRow = 0)
        \/ /\ seedAt = "invoices" /\ seedRow > 0 /\ completed = 0
           /\ 1 \in takenNumbers /\ takenNumbers \subseteq 1..seedRow
        \/ /\ seedAt = "counter" /\ completed = 0
           /\ 1 \in takenNumbers /\ takenNumbers \subseteq 1..SeedInvoices
        \/ /\ 1 \in takenNumbers /\ takenNumbers \subseteq 1..(invoiceCounter + 1)
           /\ seedAt # "counter" /\ (seedAt = "invoices" => seedRow = 0)

SeedTypes ==
    /\ seedAt \in SeedSteps \cup {"idle"} /\ seedRow \in Nat /\ (seedAt # "idle" => seedRow < Size(seedAt))
    /\ seeded \in [SeedSteps -> Nat] /\ takenNumbers \subseteq Nat /\ invoiceCounter \in Nat
    /\ completed \in Nat /\ disturbed \in BOOLEAN

SeedInv == SeedTypes /\ PassedSteps /\ OneRun /\ NumbersInUse

\* The steps before the invoices, and what follows each.
Early == (Keyed \cup Created) \ {"categories", "labels"}

LEMMA NextSteps ==
    /\ \A s \in Early : StepAfter(s) \in Early \cup {"invoices"}
    /\ StepAfter("invoices") = "counter" /\ StepAfter("counter") = "categories" /\ StepAfter("categories") = "labels"
<1>1. /\ \A i \in 1..10 : SeedOrder[i] \in Early
      /\ \A s \in Early : \E i \in 1..10 : s = SeedOrder[i]
      /\ SeedOrder[11] = "invoices" /\ SeedOrder[12] = "counter" /\ SeedOrder[13] = "categories" /\ SeedOrder[14] = "labels"
  BY DEF SeedOrder, Early, Keyed, Created
<1>2. StepAfter("invoices") = "counter" /\ StepAfter("counter") = "categories" /\ StepAfter("categories") = "labels"
  <2>1. /\ StepAfter(SeedOrder[11]) = SeedOrder[11 + 1] /\ StepAfter(SeedOrder[12]) = SeedOrder[12 + 1]
        /\ StepAfter(SeedOrder[13]) = SeedOrder[13 + 1]
    BY StepAfterIs
  <2> QED BY <2>1, <1>1
<1>3. ASSUME NEW s \in Early PROVE StepAfter(s) \in Early \cup {"invoices"}
  <2>1. PICK i \in 1..10 : s = SeedOrder[i]
    BY <1>1
  <2>2. StepAfter(s) = SeedOrder[i + 1]
    BY <2>1, StepAfterIs
  <2>3. i + 1 \in 1..10 \/ i + 1 = 11
    OBVIOUS
  <2> QED BY <2>2, <2>3, <1>1
<1> QED BY <1>2, <1>3

\* Where the next row is.
Follows ==
    \/ /\ seedRow + 1 < Size(seedAt) /\ seedRow' = seedRow + 1
       /\ seedAt' = seedAt /\ completed' = completed
    \/ /\ seedRow + 1 = Size(seedAt) /\ seedRow' = 0
       /\ \/ seedAt = "labels" /\ seedAt' = "idle" /\ completed' = completed + 1
          \/ /\ completed' = completed
             /\ \/ seedAt \in Early /\ seedAt' \in Early \cup {"invoices"}
                \/ seedAt = "invoices" /\ seedAt' = "counter"
                \/ seedAt = "counter" /\ seedAt' = "categories"
                \/ seedAt = "categories" /\ seedAt' = "labels"

\* A row has been written, or is there, of the step the script is at.
LEMMA RowIsThere ==
    ASSUME SeedTypes, PassedSteps, seedAt \in SeedSteps, NextRow, seeded' \in [SeedSteps -> Nat],
           \A s \in SeedSteps : seeded'[s] >= seeded[s],
           seedAt # "counter" => seeded'[seedAt] >= seedRow + 1
    PROVE  /\ Follows /\ PassedSteps'
           /\ seedAt' \in SeedSteps \cup {"idle"} /\ seedRow' \in Nat /\ (seedAt' # "idle" => seedRow' < Size(seedAt'))
           /\ completed' \in Nat
<1>t. /\ seedRow \in Nat /\ seedRow < Size(seedAt) /\ Size(seedAt) \in Nat /\ completed \in Nat
      /\ seeded \in [SeedSteps -> Nat]
  BY SeedOrderIs, SizesOfSteps DEF SeedTypes
<1>1. PICK j \in 1..14 : seedAt = SeedOrder[j]
  BY SeedOrderIs DEF SeedSteps
<1>2. j = 14 <=> seedAt = "labels"
  BY <1>1, SeedOrderIs
<1>3. \A i \in 1..14 : i < j /\ SeedOrder[i] # "counter" => seeded[SeedOrder[i]] >= Size(SeedOrder[i])
  BY <1>1 DEF PassedSteps
<1>4. \A i \in 1..14 : SeedOrder[i] \in SeedSteps /\ Size(SeedOrder[i]) \in Nat /\ Size(SeedOrder[i]) > 0
  BY SeedOrderIs, SizesOfSteps DEF SeedSteps
<1>5. \A i \in 1..14 : i < j /\ SeedOrder[i] # "counter" => seeded'[SeedOrder[i]] >= Size(SeedOrder[i])
  <2> SUFFICES ASSUME NEW i \in 1..14, i < j, SeedOrder[i] # "counter" PROVE seeded'[SeedOrder[i]] >= Size(SeedOrder[i])
    OBVIOUS
  <2>1. seeded'[SeedOrder[i]] \in Nat /\ seeded[SeedOrder[i]] \in Nat /\ seeded'[SeedOrder[i]] >= seeded[SeedOrder[i]]
    BY <1>4, <1>t
  <2> QED BY <2>1, <1>3, <1>4
<1>c. completed > 0 => \A s \in SeedSteps \ {"counter"} : seeded'[s] >= Size(s)
  <2> SUFFICES ASSUME completed > 0, NEW s \in SeedSteps \ {"counter"} PROVE seeded'[s] >= Size(s)
    OBVIOUS
  <2>1. seeded'[s] \in Nat /\ seeded[s] \in Nat /\ seeded'[s] >= seeded[s] /\ Size(s) \in Nat /\ seeded[s] >= Size(s)
    BY <1>t, SizesOfSteps DEF PassedSteps
  <2> QED BY <2>1
<1>w. seedAt # "counter" => seeded'[seedAt] \in Nat /\ seeded'[seedAt] >= seedRow + 1
  OBVIOUS
<1>6. CASE seedRow + 1 < Size(seedAt)
  <2>1. seedRow' = seedRow + 1 /\ seedAt' = seedAt /\ completed' = completed
    BY <1>6 DEF NextRow
  <2>2. \A i, k \in 1..14 : seedAt' = SeedOrder[k] /\ i < k /\ SeedOrder[i] # "counter" => seeded'[SeedOrder[i]] >= Size(SeedOrder[i])
    BY <2>1, <1>1, <1>5, SeedOrderIs
  <2>3. PassedSteps'
    BY <2>1, <2>2, <1>c, <1>w DEF PassedSteps
  <2> QED BY <2>1, <2>3, <1>6, <1>t DEF Follows
<1>7. CASE ~(seedRow + 1 < Size(seedAt)) /\ j = 14
  <2>1. seedRow' = 0 /\ seedAt' = "idle" /\ completed' = completed + 1 /\ seedRow + 1 = Size(seedAt) /\ seedAt = "labels"
    BY <1>7, <1>2, <1>t DEF NextRow
  <2>2. \A s \in SeedSteps \ {"counter"} : seeded'[s] >= Size(s)
    <3> SUFFICES ASSUME NEW s \in SeedSteps \ {"counter"} PROVE seeded'[s] >= Size(s)
      OBVIOUS
    <3>1. PICK i \in 1..14 : s = SeedOrder[i]
      BY SeedOrderIs DEF SeedSteps
    <3>2. CASE i < j
      BY <3>1, <3>2, <1>5
    <3>3. CASE i = j
      BY <3>1, <3>3, <1>1, <1>w, <2>1
    <3> QED BY <3>2, <3>3, <1>7
  <2>3. PassedSteps'
    BY <2>1, <2>2, SeedOrderIs DEF PassedSteps, SeedSteps
  <2> QED BY <2>1, <2>3, <1>t DEF Follows
<1>8. CASE ~(seedRow + 1 < Size(seedAt)) /\ j # 14
  <2>1. /\ seedRow' = 0 /\ seedAt' = StepAfter(seedAt) /\ completed' = completed /\ seedRow + 1 = Size(seedAt)
        /\ seedAt # "labels"
    BY <1>8, <1>2, <1>t DEF NextRow
  <2>2. j \in 1..13 /\ j + 1 \in 1..14 /\ seedAt' = SeedOrder[j + 1]
    BY <2>1, <1>1, <1>8, StepAfterIs
  <2>3. \A i, k \in 1..14 : seedAt' = SeedOrder[k] /\ i < k /\ SeedOrder[i] # "counter" => seeded'[SeedOrder[i]] >= Size(SeedOrder[i])
    <3> SUFFICES ASSUME NEW i \in 1..14, NEW k \in 1..14, seedAt' = SeedOrder[k], i < k, SeedOrder[i] # "counter"
                 PROVE  seeded'[SeedOrder[i]] >= Size(SeedOrder[i])
      OBVIOUS
    <3>1. k = j + 1
      BY <2>2, SeedOrderIs
    <3>2. CASE i < j
      BY <3>2, <1>5
    <3>3. CASE i = j
      BY <3>3, <1>1, <1>w, <2>1
    <3> QED BY <3>1, <3>2, <3>3
  <2>4. seedAt' \in SeedSteps /\ Size(seedAt') > 0 /\ Size(seedAt') \in Nat
    BY <2>2, <1>4
  <2>5. seeded'[seedAt'] \in Nat
    BY <2>4
  <2>6. PassedSteps'
    BY <2>1, <2>3, <2>5, <1>c DEF PassedSteps
  <2>7. seedAt \in Early \cup {"invoices", "counter", "categories"}
    BY <2>1, SeedOrderIs DEF Early
  <2>8. Follows
    BY <2>1, <2>7, NextSteps DEF Follows
  <2> QED BY <2>1, <2>4, <2>6, <2>8, <1>t
<1> QED BY <1>6, <1>7, <1>8

LEMMA SeedStep == SeedInv /\ [SeedNext]_seedVars => SeedInv'
<1> SUFFICES ASSUME SeedInv, [SeedNext]_seedVars PROVE SeedInv'
  OBVIOUS
<1>i. SeedTypes /\ PassedSteps /\ OneRun /\ NumbersInUse
  BY DEF SeedInv
<1>t. /\ seedAt \in SeedSteps \cup {"idle"} /\ seedRow \in Nat /\ (seedAt # "idle" => seedRow < Size(seedAt))
      /\ seeded \in [SeedSteps -> Nat] /\ takenNumbers \subseteq Nat /\ invoiceCounter \in Nat
      /\ completed \in Nat /\ disturbed \in BOOLEAN
  BY <1>i DEF SeedTypes
<1>z. /\ SeedInvoices \in Nat /\ Size("invoices") = SeedInvoices /\ Size("counter") = 1
      /\ Size("categories") \in Nat /\ Size("labels") \in Nat
      /\ \A s \in Keyed : Size(s) \in Nat /\ s \in SeedSteps
      /\ {"invoices", "counter", "categories", "labels"} \subseteq SeedSteps
      /\ Early \subseteq SeedSteps /\ Early \cap {"idle", "invoices", "counter", "categories", "labels"} = {}
      /\ Keyed \subseteq Early /\ Created \subseteq Early \cup {"categories", "labels"}
  BY SeedOrderIs, SizesOfSteps, SeedAssumption DEF Keyed, Created, Early
<1>r. /\ seeded["invoices"] \in Nat /\ seeded["categories"] \in Nat /\ seeded["labels"] \in Nat
  BY <1>t, <1>z
\* A run begins, ends early, or nothing happens to it.
<1>e. ASSUME seedRow' = 0, seedAt' \in {"idle", "users"}, UNCHANGED <<seeded, takenNumbers, invoiceCounter, completed>>,
             disturbed' \in BOOLEAN, disturbed' = disturbed \/ disturbed',
             disturbed' \/ ~(seedAt = "counter" \/ (seedAt = "invoices" /\ seedRow > 0))
      PROVE SeedInv'
  <2>1. seedAt' \notin {"invoices", "counter", "categories", "labels"} /\ seedAt' \in SeedSteps \cup {"idle"}
    BY <1>e, <1>z DEF Keyed
  <2>2. seedAt' # "idle" => seedAt' = SeedOrder[1] /\ Size(seedAt') > 0
    BY <1>e, SeedOrderIs, SizesOfSteps DEF Keyed
  <2>3. SeedTypes'
    BY <2>1, <2>2, <1>e, <1>t DEF SeedTypes
  <2>4. PassedSteps'
    <3>1. \A j \in 1..14 : seedAt' = SeedOrder[j] => j = 1
      BY <2>2, SeedOrderIs DEF SeedSteps
    <3>2. seedAt' \in SeedSteps => seeded[seedAt'] >= 0
      BY <1>t
    <3> QED BY <3>1, <3>2, <1>e, <1>i DEF PassedSteps
  <2>5. OneRun'
    BY <2>1, <1>e, <1>i DEF OneRun, PastInvoices
  <2>6. NumbersInUse'
    BY <2>1, <1>e, <1>i DEF NumbersInUse
  <2> QED BY <2>3, <2>4, <2>5, <2>6 DEF SeedInv
\* A row of a step before the invoices.
<1>y. ASSUME seedAt \in Early, NextRow, UNCHANGED <<takenNumbers, invoiceCounter, disturbed>>,
             NEW n \in Nat, seeded' = [seeded EXCEPT ![seedAt] = n], n >= seeded[seedAt], n >= seedRow + 1,
             seedAt \in Keyed => n <= Size(seedAt)
      PROVE SeedInv'
  <2>1. /\ seeded' \in [SeedSteps -> Nat] /\ seeded'[seedAt] = n /\ \A s \in SeedSteps \ {seedAt} : seeded'[s] = seeded[s]
        /\ seedAt \in SeedSteps
    BY <1>y, <1>t, <1>z
  <2>2. \A s \in SeedSteps : seeded'[s] >= seeded[s]
    BY <2>1, <1>y, <1>t
  <2>3. /\ Follows /\ PassedSteps'
        /\ seedAt' \in SeedSteps \cup {"idle"} /\ seedRow' \in Nat /\ (seedAt' # "idle" => seedRow' < Size(seedAt'))
        /\ completed' \in Nat
    BY <2>1, <2>2, <1>y, <1>i, RowIsThere
  <2>4. completed' = completed /\ (seedAt' \in Early \/ (seedAt' = "invoices" /\ seedRow' = 0))
    BY <2>3, <1>y, <1>z DEF Follows
  <2>5. UNCHANGED <<seeded["invoices"], seeded["categories"], seeded["labels"]>>
    BY <2>1, <1>y, <1>z
  <2>6. \A s \in Keyed : seeded'[s] <= Size(s)
    BY <2>1, <1>y, <1>z, <1>i DEF OneRun
  <2>7. ~PastInvoices' /\ seedAt' \notin {"counter", "categories", "labels"}
    BY <2>4, <1>z DEF PastInvoices
  <2>8. OneRun'
    BY <2>4, <2>5, <2>6, <2>7, <1>y, <1>z, <1>i DEF OneRun
  <2>9. NumbersInUse'
    BY <2>4, <2>7, <1>y, <1>z, <1>i DEF NumbersInUse
  <2> QED BY <2>1, <2>3, <2>8, <2>9, <1>y, <1>t DEF SeedInv, SeedTypes
<1>1. CASE StartSeed
  BY <1>1, <1>e, <1>t DEF StartSeed
<1>2. CASE UpsertRow
  <2> DEFINE n == IF seeded[seedAt] > seedRow THEN seeded[seedAt] ELSE seeded[seedAt] + 1
  <2>1. /\ seedAt \in Keyed /\ NextRow /\ UNCHANGED <<takenNumbers, invoiceCounter, disturbed>>
        /\ seeded' = [seeded EXCEPT ![seedAt] = n]
    BY <1>2 DEF UpsertRow
  <2>2. seedAt \in SeedSteps /\ seedAt \in Early /\ seedAt # "idle" /\ seedAt # "counter"
    BY <2>1, <1>z, SeedOrderIs DEF Keyed
  <2>3. seeded[seedAt] \in Nat /\ seeded[seedAt] >= seedRow /\ seeded[seedAt] <= Size(seedAt) /\ seedRow < Size(seedAt)
        /\ Size(seedAt) \in Nat
    BY <2>1, <2>2, <1>t, <1>i, <1>z DEF PassedSteps, OneRun
  <2>4. n \in Nat /\ n >= seeded[seedAt] /\ n >= seedRow + 1 /\ n <= Size(seedAt)
    BY <2>3, <1>t
  <2> QED BY <2>1, <2>2, <2>4, <1>y
<1>3. CASE CreateRow /\ seedAt \in Early
  <2>1. /\ NextRow /\ UNCHANGED <<takenNumbers, invoiceCounter, disturbed>> /\ seedAt \in Created
        /\ seeded' = [seeded EXCEPT ![seedAt] = seeded[seedAt] + 1]
    BY <1>3 DEF CreateRow
  <2>2. seedAt \in SeedSteps /\ seedAt \notin Keyed /\ seedAt # "counter"
    BY <2>1, <1>3, <1>z DEF Created, Keyed
  <2>3. seeded[seedAt] \in Nat /\ seeded[seedAt] >= seedRow
    BY <2>2, <1>t, <1>i DEF PassedSteps
  <2>4. seeded[seedAt] + 1 \in Nat /\ seeded[seedAt] + 1 >= seeded[seedAt] /\ seeded[seedAt] + 1 >= seedRow + 1
    BY <2>3, <1>t
  <2> QED BY <2>1, <2>2, <2>4, <1>3, <1>y
<1>4. CASE CreateRow /\ seedAt \in {"categories", "labels"}
  <2>1. /\ NextRow /\ UNCHANGED <<takenNumbers, invoiceCounter, disturbed>>
        /\ seeded' = [seeded EXCEPT ![seedAt] = seeded[seedAt] + 1]
    BY <1>4 DEF CreateRow
  <2>2. seedAt \in SeedSteps /\ seedAt # "idle" /\ seeded[seedAt] = seedRow /\ PastInvoices
    BY <1>4, <1>z, <1>i DEF OneRun, PastInvoices
  <2>3. /\ seeded' \in [SeedSteps -> Nat] /\ seeded'[seedAt] = seedRow + 1
        /\ \A s \in SeedSteps \ {seedAt} : seeded'[s] = seeded[s]
    BY <2>1, <2>2, <1>t
  <2>4. \A s \in SeedSteps : seeded'[s] >= seeded[s]
    BY <2>2, <2>3, <1>t
  <2>5. /\ Follows /\ PassedSteps'
        /\ seedAt' \in SeedSteps \cup {"idle"} /\ seedRow' \in Nat /\ (seedAt' # "idle" => seedRow' < Size(seedAt'))
        /\ completed' \in Nat
    BY <2>1, <2>2, <2>3, <2>4, <1>i, <1>t, RowIsThere
  <2>6. completed = 0 /\ 1 \in takenNumbers
    BY <2>2, <1>i DEF OneRun
  <2>7. seedRow + 1 <= Size(seedAt)
    BY <2>2, <1>t, SizesOfSteps
  <2>8. \A s \in Keyed \cup {"invoices", "categories", "labels"} : seeded'[s] <= Size(s)
    BY <2>3, <2>7, <1>i, <1>z DEF OneRun
  <2>9. CASE seedAt = "categories"
    <3>1. /\ \/ seedAt' = "categories" /\ seedRow' = seedRow + 1
             \/ seedAt' = "labels" /\ seedRow' = 0
          /\ completed' = 0
      BY <2>5, <2>6, <2>9, <1>z DEF Follows
    <3>2. seeded'["categories"] = seedRow + 1 /\ seeded'["labels"] = 0
      BY <2>3, <2>9, <1>i, <1>z DEF OneRun
    <3>3. OneRun'
      BY <2>1, <2>6, <2>8, <3>1, <3>2 DEF OneRun, PastInvoices
    <3>4. NumbersInUse'
      BY <2>1, <2>6, <2>9, <3>1, <1>i DEF NumbersInUse
    <3> QED BY <2>1, <2>3, <2>5, <3>3, <3>4, <1>t DEF SeedInv, SeedTypes
  <2>10. CASE seedAt = "labels"
    <3>1. \/ seedAt' = "labels" /\ seedRow' = seedRow + 1 /\ completed' = 0
          \/ seedAt' = "idle" /\ completed' = 1
      BY <2>5, <2>6, <2>10, <1>z DEF Follows
    <3>2. seeded'["labels"] = seedRow + 1
      BY <2>3, <2>10
    <3>3. OneRun'
      BY <2>1, <2>6, <2>8, <3>1, <3>2 DEF OneRun, PastInvoices
    <3>4. NumbersInUse'
      BY <2>1, <2>6, <2>10, <3>1, <1>i DEF NumbersInUse
    <3> QED BY <2>1, <2>3, <2>5, <3>3, <3>4, <1>t DEF SeedInv, SeedTypes
  <2> QED BY <1>4, <2>9, <2>10
<1>5. CASE CreateInvoice /\ seedRow + 1 \in takenNumbers
  <2>1. /\ seedAt = "invoices" /\ seedAt' = "idle" /\ seedRow' = 0 /\ disturbed' = (disturbed \/ seedRow > 0)
        /\ UNCHANGED <<seeded, takenNumbers, invoiceCounter, completed>>
    BY <1>5 DEF CreateInvoice
  <2> QED BY <2>1, <1>e, <1>t
<1>6. CASE CreateInvoice /\ seedRow + 1 \notin takenNumbers
  <2>1. /\ seedAt = "invoices" /\ takenNumbers' = takenNumbers \cup {seedRow + 1} /\ NextRow
        /\ seeded' = [seeded EXCEPT !["invoices"] = seeded["invoices"] + 1] /\ UNCHANGED <<invoiceCounter, disturbed>>
    BY <1>6 DEF CreateInvoice
  <2>2. seeded["invoices"] = seedRow
    <3>1. CASE seedRow > 0
      BY <2>1, <3>1, <1>i DEF OneRun
    <3>2. CASE seedRow = 0
      BY <1>6, <3>2, <1>i DEF OneRun
    <3> QED BY <3>1, <3>2, <1>t
  <2>3. /\ seeded' \in [SeedSteps -> Nat] /\ seeded'["invoices"] = seedRow + 1
        /\ \A s \in SeedSteps \ {"invoices"} : seeded'[s] = seeded[s]
    BY <2>1, <2>2, <1>t, <1>z
  <2>4. \A s \in SeedSteps : seeded'[s] >= seeded[s]
    BY <2>2, <2>3, <1>t
  <2>5. /\ Follows /\ PassedSteps'
        /\ seedAt' \in SeedSteps \cup {"idle"} /\ seedRow' \in Nat /\ (seedAt' # "idle" => seedRow' < Size(seedAt'))
        /\ completed' \in Nat
    BY <2>1, <2>3, <2>4, <1>i, <1>z, RowIsThere
  <2>6. /\ completed' = completed /\ seedRow + 1 <= SeedInvoices
        /\ \/ seedAt' = "invoices" /\ seedRow' = seedRow + 1
           \/ seedAt' = "counter"
    BY <2>1, <2>5, <1>z, <1>t DEF Follows, Early
  <2>7. completed = 0 /\ seeded["categories"] = 0 /\ seeded["labels"] = 0
    <3>1. CASE seedRow > 0
      BY <2>1, <3>1, <1>i DEF OneRun, PastInvoices
    <3>2. CASE seedRow = 0
      BY <1>6, <3>2, <1>i DEF OneRun
    <3> QED BY <3>1, <3>2, <1>t
  <2>8. 1 \in takenNumbers'
    <3>1. CASE seedRow > 0
      BY <2>1, <3>1, <1>i DEF OneRun, PastInvoices
    <3>2. CASE seedRow = 0
      BY <2>1, <3>2
    <3> QED BY <3>1, <3>2, <1>t
  <2>9. \A s \in Keyed \cup {"invoices", "categories", "labels"} : seeded'[s] <= Size(s)
    BY <2>3, <2>6, <1>i, <1>z DEF OneRun, Keyed
  <2>10. seeded'["categories"] = 0 /\ seeded'["labels"] = 0
    BY <2>3, <2>7, <1>z
  <2>11. OneRun'
    BY <2>3, <2>6, <2>7, <2>8, <2>9, <2>10 DEF OneRun, PastInvoices
  <2>12. NumbersInUse'
    <3> SUFFICES ASSUME ~disturbed
                 PROVE  takenNumbers' \subseteq 1..(seedRow + 1)
      BY <2>1, <2>6, <2>7, <2>8, <1>t, <1>z DEF NumbersInUse
    <3>1. CASE seedRow > 0
      BY <2>1, <3>1, <1>i, <1>t DEF NumbersInUse
    <3>2. CASE seedRow = 0
      BY <2>1, <3>2, <1>6, <1>i, <1>t DEF NumbersInUse
    <3> QED BY <3>1, <3>2, <1>t
  <2>13. takenNumbers' \subseteq Nat
    BY <2>1, <1>t
  <2> QED BY <2>1, <2>3, <2>5, <2>11, <2>12, <2>13, <1>t DEF SeedInv, SeedTypes
<1>7. CASE SetCounter
  <2>1. seedAt = "counter" /\ invoiceCounter' = SeedInvoices /\ NextRow /\ UNCHANGED <<seeded, takenNumbers, disturbed>>
    BY <1>7 DEF SetCounter
  <2>2. \A s \in SeedSteps : seeded'[s] >= seeded[s]
    BY <2>1, <1>t
  <2>3. /\ Follows /\ PassedSteps'
        /\ seedAt' \in SeedSteps \cup {"idle"} /\ seedRow' \in Nat /\ (seedAt' # "idle" => seedRow' < Size(seedAt'))
        /\ completed' \in Nat
    BY <2>1, <2>2, <1>i, <1>t, <1>z, RowIsThere
  <2>4. completed' = completed /\ seedAt' = "categories" /\ seedRow' = 0
    BY <2>1, <2>3, <1>z, <1>t DEF Follows, Early
  <2>5. OneRun'
    BY <2>1, <2>4, <1>i DEF OneRun, PastInvoices
  <2>6. NumbersInUse'
    BY <2>1, <2>4, <1>i, <1>z DEF NumbersInUse
  <2> QED BY <2>1, <2>3, <2>5, <2>6, <1>t, <1>z DEF SeedInv, SeedTypes
<1>8. CASE StopSeed
  BY <1>8, <1>e, <1>t DEF StopSeed
<1>9. CASE NumberInvoice
  <2>1. /\ invoiceCounter' = invoiceCounter + 1 /\ takenNumbers' = takenNumbers \cup {invoiceCounter + 2}
        /\ disturbed' = (disturbed \/ completed = 0) /\ UNCHANGED <<seedAt, seedRow, seeded, completed>>
    BY <1>9 DEF NumberInvoice
  <2>2. 1 \in takenNumbers' <=> 1 \in takenNumbers
    BY <2>1, <1>t
  <2>3. SeedTypes' /\ PassedSteps' /\ OneRun'
    BY <2>1, <2>2, <1>i, <1>t DEF SeedTypes, PassedSteps, OneRun, PastInvoices
  <2>4. NumbersInUse'
    <3> SUFFICES ASSUME ~disturbed, completed # 0
                 PROVE  /\ 1 \in takenNumbers' /\ takenNumbers' \subseteq 1..(invoiceCounter' + 1)
                        /\ seedAt # "counter" /\ (seedAt = "invoices" => seedRow = 0)
      BY <2>1, <1>t DEF NumbersInUse
    <3>1. /\ 1 \in takenNumbers /\ takenNumbers \subseteq 1..(invoiceCounter + 1)
          /\ seedAt # "counter" /\ (seedAt = "invoices" => seedRow = 0)
      BY <1>i DEF NumbersInUse
    <3> QED BY <3>1, <2>1, <2>2, <1>t
  <2> QED BY <2>3, <2>4 DEF SeedInv
<1>10. CASE UNCHANGED seedVars
  BY <1>10, <1>i DEF seedVars, SeedInv, SeedTypes, PassedSteps, OneRun, PastInvoices, NumbersInUse
<1>11. CreateRow => seedAt \in Early \cup {"categories", "labels"}
  BY <1>z DEF CreateRow
<1> QED BY <1>1, <1>2, <1>3, <1>4, <1>5, <1>6, <1>7, <1>8, <1>9, <1>10, <1>11 DEF SeedNext

LEMMA SeedInitially == SeedInit => SeedInv
<1> SUFFICES ASSUME SeedInit PROVE SeedInv
  OBVIOUS
<1>1. /\ seedAt = "idle" /\ seedRow = 0 /\ seeded = [s \in SeedSteps |-> 0] /\ takenNumbers = {}
      /\ invoiceCounter = 0 /\ completed = 0 /\ disturbed = FALSE
  BY DEF SeedInit
<1>2. \A s \in Keyed \cup {"invoices", "categories", "labels"} : s \in SeedSteps /\ Size(s) \in Nat
  BY SeedOrderIs, SizesOfSteps DEF Created
<1>3. \A i \in 1..14 : SeedOrder[i] # "idle"
  BY SeedOrderIs DEF SeedSteps
<1>4. SeedTypes
  BY <1>1 DEF SeedTypes
<1>5. PassedSteps
  BY <1>1, <1>3, SeedOrderIs DEF PassedSteps
<1>6. OneRun
  <2>1. \A s \in Keyed \cup {"invoices", "categories", "labels"} : seeded[s] = 0 /\ seeded[s] <= Size(s)
    BY <1>1, <1>2, SizesOfSteps
  <2> QED BY <1>1, <2>1 DEF OneRun, PastInvoices
<1>7. NumbersInUse
  BY <1>1 DEF NumbersInUse
<1> QED BY <1>4, <1>5, <1>6, <1>7 DEF SeedInv

LEMMA SeedInvSays == SeedInv => NextNumberIsFree /\ SeedIsOnce
<1> SUFFICES ASSUME SeedInv PROVE NextNumberIsFree /\ SeedIsOnce
  OBVIOUS
<1>1. NextNumberIsFree
  BY DEF SeedInv, SeedTypes, NumbersInUse, NextNumberIsFree
<1>2. SeedIsOnce
  BY DEF SeedInv, PassedSteps, OneRun, SeedIsOnce
<1> QED BY <1>1, <1>2

-----------------------------------------------------------------------------
(* Pages of the mailed links: links that are used up *)

TabSteps == {"idle", "ask", "mail", "asked", "form", "read", "act", "open", "tidy", "me", "done", "ok", "failed"}
Looks == {"nothing", "sent", "success", "error", "gone"}
TabForms == [at : TabSteps, link : Nat, shows : Looks]

\* The page that used link l up: it reports the success, or waits for the answer.
Speaks(t, l) == tab[t].link = l /\ (tab[t].shows = "success" \/ tab[t].at \in {"ok", "open", "me"})

\* A page that reports a success is through with its request, and a link that is
\* used up has such a page, or one that waits, or is known to be broken.
LinkPagesInv ==
    /\ purpose \in {"reset", "magic", "verify"}
    /\ tab \in [Tabs -> TabForms] /\ DOMAIN links = 1..MaxLinks
    /\ \A t \in Tabs : tab[t].shows = "success" => tab[t].at = "done"
    /\ \A l \in 1..MaxLinks : links[l] = "used" => l \in broken \/ \E t \in Tabs : Speaks(t, l)

\* One tab changes, to what a tab may be.
TabTurns(t, step, l, look) ==
    /\ tab' \in [Tabs -> TabForms] /\ \A u \in Tabs \ {t} : tab'[u] = tab[u]
    /\ tab'[t].at = step /\ tab'[t].link = l /\ tab'[t].shows = look

LEMMA TabWrites ==
    ASSUME tab \in [Tabs -> TabForms], NEW t \in Tabs, NEW step \in TabSteps, NEW l \in Nat, NEW look \in Looks
    PROVE  /\ tab' = [tab EXCEPT ![t].at = step] => TabTurns(t, step, tab[t].link, tab[t].shows)
           /\ tab' = [tab EXCEPT ![t].shows = look] => TabTurns(t, tab[t].at, tab[t].link, look)
           /\ tab' = [tab EXCEPT ![t].at = step, ![t].shows = look] => TabTurns(t, step, tab[t].link, look)
           /\ tab' = [tab EXCEPT ![t].at = step, ![t].link = l] => TabTurns(t, step, l, tab[t].shows)
<1>1. /\ [tab[t] EXCEPT !.at = step] \in TabForms /\ [tab[t] EXCEPT !.shows = look] \in TabForms
      /\ [tab[t] EXCEPT !.at = step, !.shows = look] \in TabForms /\ [tab[t] EXCEPT !.at = step, !.link = l] \in TabForms
  BY DEF TabForms
<1>2. tab[t] \in TabForms
  OBVIOUS
<1>3. ASSUME tab' = [tab EXCEPT ![t].at = step] PROVE TabTurns(t, step, tab[t].link, tab[t].shows)
  BY <1>1, <1>2, <1>3 DEF TabTurns, TabForms
<1>4. ASSUME tab' = [tab EXCEPT ![t].shows = look] PROVE TabTurns(t, tab[t].at, tab[t].link, look)
  BY <1>1, <1>2, <1>4 DEF TabTurns, TabForms
<1>5. ASSUME tab' = [tab EXCEPT ![t].at = step, ![t].shows = look] PROVE TabTurns(t, step, tab[t].link, look)
  BY <1>1, <1>2, <1>5 DEF TabTurns, TabForms
<1>6. ASSUME tab' = [tab EXCEPT ![t].at = step, ![t].link = l] PROVE TabTurns(t, step, l, tab[t].shows)
  BY <1>1, <1>2, <1>6 DEF TabTurns, TabForms
<1> QED BY <1>3, <1>4, <1>5, <1>6

LEMMA LinkPagesStep == LinkPagesInv /\ [LinkPagesNext]_linkPageVars => LinkPagesInv'
<1> SUFFICES ASSUME LinkPagesInv, [LinkPagesNext]_linkPageVars PROVE LinkPagesInv'
  OBVIOUS
<1>t. /\ purpose \in {"reset", "magic", "verify"}
      /\ tab \in [Tabs -> TabForms] /\ DOMAIN links = 1..MaxLinks
      /\ \A t \in Tabs : tab[t].shows = "success" => tab[t].at = "done"
      /\ \A l \in 1..MaxLinks : links[l] = "used" => l \in broken \/ \E t \in Tabs : Speaks(t, l)
  BY DEF LinkPagesInv
<1>f. \A t \in Tabs : tab[t].at \in TabSteps /\ tab[t].link \in Nat /\ tab[t].shows \in Looks
  BY <1>t DEF TabForms
<1>n. \A l \in 1..MaxLinks : l \in Nat
  BY LinkAssumption
\* A step of one tab. What it uses up it speaks of, and what it spoke of it goes on
\* speaking of, or the link is broken.
<1>s. ASSUME NEW t \in Tabs, NEW step, NEW l, NEW look, TabTurns(t, step, l, look),
             look = "success" => step = "done", UNCHANGED purpose,
             DOMAIN links' = 1..MaxLinks, broken \subseteq broken',
             \A k \in 1..MaxLinks : links'[k] = "used" => links[k] = "used" \/ Speaks(t, k)',
             \A k \in 1..MaxLinks : links[k] = "used" /\ Speaks(t, k) => Speaks(t, k)' \/ k \in broken'
      PROVE  LinkPagesInv'
  <2>1. /\ tab' \in [Tabs -> TabForms] /\ tab'[t].at = step /\ tab'[t].shows = look
        /\ \A u \in Tabs \ {t} : tab'[u] = tab[u]
    BY <1>s DEF TabTurns
  <2>2. \A u \in Tabs : tab'[u].shows = "success" => tab'[u].at = "done"
    BY <2>1, <1>s, <1>t
  <2>3. ASSUME NEW k \in 1..MaxLinks, links'[k] = "used" PROVE k \in broken' \/ \E u \in Tabs : Speaks(u, k)'
    <3>1. CASE Speaks(t, k)'
      BY <3>1
    <3>2. CASE ~Speaks(t, k)'
      <4>1. links[k] = "used" /\ (k \in broken \/ \E u \in Tabs : Speaks(u, k))
        BY <1>s, <2>3, <3>2, <1>t
      <4>2. CASE k \in broken
        BY <4>2, <1>s
      <4>3. ASSUME NEW u \in Tabs, Speaks(u, k) PROVE k \in broken' \/ Speaks(u, k)'
        <5>1. CASE u = t
          BY <4>1, <4>3, <5>1, <1>s, <2>3
        <5>2. CASE u # t
          BY <5>2, <4>3, <2>1 DEF Speaks
        <5> QED BY <5>1, <5>2
      <4> QED BY <4>1, <4>2, <4>3
    <3> QED BY <3>1, <3>2
  <2> QED BY <1>s, <1>t, <2>1, <2>2, <2>3 DEF LinkPagesInv
\* Steps in which the tab speaks of nothing before, and uses nothing up.
<1>q. ASSUME NEW t \in Tabs, NEW step, NEW l, NEW look, TabTurns(t, step, l, look),
             look = "success" => step = "done", tab[t].at \notin {"ok", "open", "me", "done"},
             UNCHANGED <<purpose, links, broken>>
      PROVE  LinkPagesInv'
  <2>1. \A k : ~Speaks(t, k)
    BY <1>q, <1>t DEF Speaks
  <2> QED BY <2>1, <1>q, <1>s, <1>t
<1>1. ASSUME NEW t \in Tabs, AskLink(t) PROVE LinkPagesInv'
  <2>1. TabTurns(t, "ask", tab[t].link, "nothing")
    BY <1>1, <1>t, <1>f, TabWrites DEF AskLink, TabSteps, Looks
  <2> QED BY <1>1, <2>1, <1>f, <1>q DEF AskLink, Is, TabSteps, Looks
<1>2. ASSUME NEW t \in Tabs, NEW l \in 1..MaxLinks, CreateLink(t, l) PROVE LinkPagesInv'
  <2>1. /\ TabTurns(t, "mail", l, tab[t].shows)
        /\ links' = [links EXCEPT ![l] = "good"] /\ tab[t].at = "ask" /\ UNCHANGED <<purpose, broken>>
    BY <1>2, <1>t, <1>f, <1>n, TabWrites DEF CreateLink, Is, TabSteps, Looks
  <2>2. tab[t].shows # "success" /\ \A k : ~Speaks(t, k)
    BY <2>1, <1>t DEF Speaks
  <2>3. DOMAIN links' = 1..MaxLinks /\ \A k \in 1..MaxLinks : links'[k] = "used" => links[k] = "used"
    BY <2>1, <1>t
  <2>4. "mail" \in TabSteps /\ l \in Nat /\ tab[t].shows \in Looks
    BY <1>f, LinkAssumption DEF TabSteps
  <2> QED BY <2>1, <2>2, <2>3, <2>4, <1>s
<1>3. ASSUME NEW t \in Tabs, SendMail(t) PROVE LinkPagesInv'
  <2>1. TabTurns(t, "asked", tab[t].link, tab[t].shows)
    BY <1>3, <1>t, <1>f, TabWrites DEF SendMail, Turns, TabSteps, Looks
  <2>2. tab[t].at = "mail" /\ tab[t].shows # "success" /\ UNCHANGED <<purpose, links, broken>>
    BY <1>3, <1>t DEF SendMail, Is
  <2> QED BY <2>1, <2>2, <1>f, <1>q DEF TabSteps
<1>4. ASSUME NEW t \in Tabs, ShowAsked(t) PROVE LinkPagesInv'
  <2>1. PICK look \in {"sent", "error"} :
            TabTurns(t, "idle", tab[t].link, look)
    BY <1>4, <1>t, <1>f, TabWrites DEF ShowAsked, TabSteps, Looks
  <2>2. tab[t].at \in {"ask", "asked"} /\ UNCHANGED <<purpose, links, broken>>
    BY <1>4 DEF ShowAsked, Is
  <2> QED BY <2>1, <2>2, <1>f, <1>q DEF TabSteps, Looks
<1>5. ASSUME NEW t \in Tabs, NEW l \in 1..MaxLinks, OpenLink(t, l) PROVE LinkPagesInv'
  <2> DEFINE step == IF purpose = "reset" THEN "form" ELSE "read"
  <2>1. /\ tab[t].at = "idle" /\ tab[t].shows = "nothing" /\ UNCHANGED <<purpose, links, broken>>
        /\ tab' = [tab EXCEPT ![t].at = step, ![t].link = l]
    BY <1>5 DEF OpenLink, Blank
  <2>2. step \in TabSteps
    BY DEF TabSteps
  <2> HIDE DEF step
  <2>3. TabTurns(t, step, l, tab[t].shows)
    BY <2>1, <2>2, <1>t, <1>n, TabWrites DEF Looks
  <2> QED BY <2>1, <2>3, <1>q
<1>6. ASSUME NEW t \in Tabs, SubmitPassword(t) PROVE LinkPagesInv'
  <2>1. \E step \in {"form", "read"}, look \in {"nothing", "error"} :
            TabTurns(t, step, tab[t].link, look)
    BY <1>6, <1>t, <1>f, TabWrites DEF SubmitPassword, TabSteps, Looks
  <2>2. tab[t].at = "form" /\ UNCHANGED <<purpose, links, broken>>
    BY <1>6 DEF SubmitPassword, Is
  <2> QED BY <2>1, <2>2, <1>f, <1>q DEF TabSteps, Looks
<1>7. ASSUME NEW t \in Tabs, ReadLink(t) PROVE LinkPagesInv'
  <2>1. \E step \in {"act", "failed"} :
            TabTurns(t, step, tab[t].link, tab[t].shows)
    BY <1>7, <1>t, <1>f, TabWrites DEF ReadLink, Turns, TabSteps, Looks
  <2>2. tab[t].at = "read" /\ tab[t].shows # "success" /\ UNCHANGED <<purpose, links, broken>>
    BY <1>7, <1>t DEF ReadLink, Is
  <2> QED BY <2>1, <2>2, <1>f, <1>q DEF TabSteps
<1>8. ASSUME NEW t \in Tabs, Effect(t) PROVE LinkPagesInv'
  <2> DEFINE after == AfterEffect[purpose]
  <2>2. after \in {"ok", "open", "tidy"} /\ (purpose # "verify" => after \in {"ok", "open"})
    BY <1>t DEF AfterEffect
  <2>6. after \in TabSteps
    BY <2>2 DEF TabSteps
  <2>1. /\ TabTurns(t, after, tab[t].link, tab[t].shows)
        /\ tab[t].at = "act" /\ tab[t].shows # "success" /\ broken \subseteq broken' /\ UNCHANGED purpose
        /\ links' = IF purpose = "verify" THEN links ELSE [links EXCEPT ![tab[t].link] = "used"]
    BY <1>8, <1>t, <1>f, <2>6, TabWrites DEF Effect, Turns, Is, TabSteps, Looks
  <2>3. \A k : ~Speaks(t, k)
    BY <2>1 DEF Speaks
  <2> HIDE DEF after
  <2>4. tab'[t].at = after /\ tab'[t].link = tab[t].link
    BY <2>1 DEF TabTurns
  <2>5. DOMAIN links' = 1..MaxLinks /\ \A k \in 1..MaxLinks : links'[k] = "used" => links[k] = "used" \/ Speaks(t, k)'
    BY <2>1, <2>2, <2>4, <1>t DEF Speaks
  <2> QED BY <2>1, <2>3, <2>5, <2>6, <1>f, <1>s
<1>9. ASSUME NEW t \in Tabs, OpenSession(t) PROVE LinkPagesInv'
  <2>1. /\ TabTurns(t, "ok", tab[t].link, tab[t].shows)
        /\ tab[t].at = "open" /\ tab[t].shows # "success" /\ UNCHANGED <<purpose, links, broken>>
    BY <1>9, <1>t, <1>f, TabWrites DEF OpenSession, Turns, Is, TabSteps, Looks
  <2>2. tab'[t].at = "ok" /\ tab'[t].link = tab[t].link
    BY <2>1 DEF TabTurns
  <2>3. \A k : Speaks(t, k) => Speaks(t, k)'
    BY <2>2 DEF Speaks
  <2> QED BY <2>1, <2>3, <1>f, <1>t, <1>s DEF TabSteps
<1>10. ASSUME NEW t \in Tabs, RemoveKey(t) PROVE LinkPagesInv'
  <2>1. /\ TabTurns(t, "ok", tab[t].link, tab[t].shows)
        /\ tab[t].at = "tidy" /\ tab[t].shows # "success" /\ broken \subseteq broken' /\ UNCHANGED purpose
        /\ links' = [links EXCEPT ![tab[t].link] = "used"]
    BY <1>10, <1>t, <1>f, TabWrites DEF RemoveKey, Turns, Is, TabSteps, Looks
  <2>2. tab'[t].at = "ok" /\ tab'[t].link = tab[t].link
    BY <2>1 DEF TabTurns
  <2>3. \A k : ~Speaks(t, k)
    BY <2>1 DEF Speaks
  <2>4. DOMAIN links' = 1..MaxLinks /\ \A k \in 1..MaxLinks : links'[k] = "used" => links[k] = "used" \/ Speaks(t, k)'
    BY <2>1, <2>2, <1>t DEF Speaks
  <2> QED BY <2>1, <2>3, <2>4, <1>f, <1>s DEF TabSteps
<1>11. ASSUME NEW t \in Tabs, CallFails(t) PROVE LinkPagesInv'
  <2>1. /\ TabTurns(t, "failed", tab[t].link, tab[t].shows)
        /\ tab[t].at \in {"read", "act", "open", "tidy"} /\ tab[t].shows # "success" /\ UNCHANGED <<purpose, links>>
        /\ broken' = IF tab[t].at = "open" THEN broken \cup {tab[t].link} ELSE broken
    BY <1>11, <1>t, <1>f, TabWrites DEF CallFails, Turns, Is, TabSteps, Looks
  <2>2. \A k : Speaks(t, k) => k \in broken'
    BY <2>1 DEF Speaks
  <2> QED BY <2>1, <2>2, <1>f, <1>t, <1>s DEF TabSteps
<1>12. ASSUME NEW t \in Tabs, Accepted(t) PROVE LinkPagesInv'
  <2>1. /\ \/ TabTurns(t, "me", tab[t].link, tab[t].shows)
           \/ TabTurns(t, "done", tab[t].link, "success")
        /\ tab[t].at = "ok" /\ tab[t].shows # "success" /\ UNCHANGED <<purpose, links, broken>>
    BY <1>12, <1>t, <1>f, TabWrites DEF Accepted, Turns, Is, TabSteps, Looks
  <2>2. tab'[t].link = tab[t].link /\ (tab'[t].at = "me" \/ tab'[t].shows = "success")
    BY <2>1 DEF TabTurns
  <2>3. \A k : Speaks(t, k) => Speaks(t, k)'
    BY <2>2 DEF Speaks
  <2> QED BY <2>1, <2>3, <1>f, <1>t, <1>s DEF TabSteps, Looks
<1>13. ASSUME NEW t \in Tabs, GoHome(t) PROVE LinkPagesInv'
  <2>1. /\ TabTurns(t, "done", tab[t].link, "success")
        /\ UNCHANGED <<purpose, links, broken>>
    BY <1>13, <1>t, <1>f, TabWrites DEF GoHome, TabSteps, Looks
  <2>2. tab'[t].link = tab[t].link /\ tab'[t].shows = "success"
    BY <2>1 DEF TabTurns
  <2>3. \A k : Speaks(t, k) => Speaks(t, k)'
    BY <2>2 DEF Speaks
  <2> QED BY <2>1, <2>3, <1>f, <1>t, <1>s DEF TabSteps, Looks
<1>14. ASSUME NEW t \in Tabs, ShowError(t) PROVE LinkPagesInv'
  <2>1. /\ \E step \in {"form", "done"} :
             TabTurns(t, step, tab[t].link, "error")
        /\ tab[t].at \in {"ok", "failed"} /\ tab[t].shows # "success" /\ UNCHANGED <<purpose, links>>
        /\ broken' = IF tab[t].at = "ok" THEN broken \cup {tab[t].link} ELSE broken
    BY <1>14, <1>t, <1>f, TabWrites DEF ShowError, Is, Replied, TabSteps, Looks
  <2>2. \A k : Speaks(t, k) => k \in broken'
    BY <2>1 DEF Speaks
  <2> QED BY <2>1, <2>2, <1>f, <1>t, <1>s DEF TabSteps, Looks
<1>15. ASSUME NEW t \in Tabs, CloseTab(t) PROVE LinkPagesInv'
  <2>1. /\ TabTurns(t, tab[t].at, tab[t].link, "gone")
        /\ broken' = (IF links[tab[t].link] = "used" THEN broken \cup {tab[t].link} ELSE broken)
        /\ UNCHANGED <<purpose, links>>
    BY <1>15, <1>t, <1>f, TabWrites DEF CloseTab, TabSteps, Looks
  <2>2. \A k : links[k] = "used" /\ Speaks(t, k) => k \in broken'
    BY <2>1 DEF Speaks
  <2> QED BY <2>1, <2>2, <1>f, <1>t, <1>s DEF Looks
<1>16. ASSUME NEW l \in 1..MaxLinks, LinkRunsOut(l) PROVE LinkPagesInv'
  <2>1. links' = [links EXCEPT ![l] = "expired"] /\ UNCHANGED <<purpose, tab, broken>>
    BY <1>16 DEF LinkRunsOut
  <2>2. DOMAIN links' = 1..MaxLinks /\ \A k \in 1..MaxLinks : links'[k] = "used" => links[k] = "used"
    BY <2>1, <1>t
  <2> QED BY <2>1, <2>2, <1>t DEF LinkPagesInv, Speaks
<1>17. CASE UNCHANGED linkPageVars
  BY <1>17, <1>t DEF linkPageVars, LinkPagesInv, Speaks
<1> QED
  BY <1>1, <1>2, <1>3, <1>4, <1>5, <1>6, <1>7, <1>8, <1>9, <1>10, <1>11, <1>12, <1>13, <1>14, <1>15, <1>16, <1>17
  DEF LinkPagesNext

LEMMA LinkPagesInitially == LinkPagesInit => LinkPagesInv
<1> SUFFICES ASSUME LinkPagesInit PROVE LinkPagesInv
  OBVIOUS
<1>1. Blank \in TabForms /\ Blank.shows = "nothing"
  BY DEF Blank, TabForms, TabSteps, Looks
<1> QED BY <1>1 DEF LinkPagesInit, LinkPagesInv

LEMMA LinkPagesInvSays == LinkPagesInv => LinksAreSpentOpenly
  BY DEF LinkPagesInv, LinksAreSpentOpenly, Speaks

-----------------------------------------------------------------------------
(* What is left over, in the composition *)

LEMMA LeftoversInitially ==
    ServicesInit => /\ DocInv /\ LeakInv /\ OrgInv /\ MediaInv /\ SeedInv /\ LinkPagesInv
  BY LeakInitially, OrgInitially, MediaInitially, SeedInitially, LinkPagesInitially DEF ServicesInit

LEMMA LeftoversStep ==
    DocInv /\ LeakInv /\ OrgInv /\ MediaInv /\ SeedInv /\ LinkPagesInv /\ [ServicesNext]_<<part, servicesVars, gateVars, moreVars>> =>
        DocInv' /\ LeakInv' /\ OrgInv' /\ MediaInv' /\ SeedInv' /\ LinkPagesInv'
<1> SUFFICES ASSUME DocInv, LeakInv, OrgInv, MediaInv, SeedInv, LinkPagesInv,
                    [ServicesNext]_<<part, servicesVars, gateVars, moreVars>>
             PROVE  DocInv' /\ LeakInv' /\ OrgInv' /\ MediaInv' /\ SeedInv' /\ LinkPagesInv'
  OBVIOUS
<1>1. [DocNext]_docVars
  BY DEF ServicesNext, servicesVars
<1>2. [OrgNext]_orgVars
  BY DEF ServicesNext, moreVars, officeVars
<1>3. [MediaNext]_mediaVars
  BY DEF ServicesNext, moreVars, officeVars
<1>4. [SeedNext]_seedVars
  BY DEF ServicesNext, moreVars, officeVars
<1>5. [LinkPagesNext]_linkPageVars
  BY DEF ServicesNext, moreVars, officeVars, adviceVars
<1> QED BY <1>1, <1>2, <1>3, <1>4, <1>5, DocStep, LeakStep, OrgStep, MediaStep, SeedStep, LinkPagesStep

\* What is left over anywhere has a cause the code does not rule out, whatever else
\* the services do: a file without a record, an account for an invitation, an
\* organization without an owner, a vendor's work nobody uses, a number that is
\* taken, a link that is used up.
THEOREM LeftoversAreExplained == ServicesSpec => []LeftoversExplained
<1>1. DocInv /\ LeakInv /\ OrgInv /\ MediaInv /\ SeedInv /\ LinkPagesInv => LeftoversExplained
  <2>1. LeakInv => LeakHasCause
    BY DEF LeakInv, LeakHasCause
  <2> QED BY <2>1, OrgInvSays, MediaInvSays, SeedInvSays, LinkPagesInvSays DEF LeftoversExplained
<1> QED BY <1>1, LeftoversInitially, LeftoversStep, PTL DEF ServicesSpec

=============================================================================
