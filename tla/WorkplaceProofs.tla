--------------------------- MODULE WorkplaceProofs ---------------------------
(***************************************************************************)
(* What people have to do with, proved for every number of requests,       *)
(* links, calls, rows, accounts and organizations: the ways to sign in     *)
(* (SignIn), the rows of an organization (Workspace), the browser tab      *)
(* (Shell) and its pages (Dashboard). The sessions have a module of their  *)
(* own.                                                                    *)
(***************************************************************************)
EXTENDS MCWorkplace, SessionsProofs, FiniteSetTheorems

-----------------------------------------------------------------------------
(* Signing in: types *)

RequestTypes ==
    /\ at \in [Requests -> SignInSteps]
    /\ arg \in [Requests -> Nat] /\ typed \in [Requests -> Nat]
    /\ code \in [Requests -> Nat] /\ seen \in [Requests -> SUBSET Nat]

\* The three ways an action treats its request keep the types.
LEMMA RequestMoves ==
  ASSUME RequestTypes, NEW r \in Requests, NEW step \in SignInSteps,
         NEW a \in Nat, NEW p \in Nat, NEW k \in Nat,
         Done(r) \/ Onto(r, step) \/ Arrive(r, step, a, p, k)
  PROVE  RequestTypes'
<1> USE DEF RequestTypes, Move
<1>1. CASE Done(r)
  BY <1>1 DEF Done, SignInSteps
<1>2. CASE Onto(r, step)
  BY <1>2 DEF Onto
<1>3. CASE Arrive(r, step, a, p, k)
  BY <1>3 DEF Arrive
<1> QED BY <1>1, <1>2, <1>3

LEMMA RequestTypeStep ==
  ASSUME SignInTypeOK, [SignInNext]_signInVars
  PROVE  RequestTypes'
<1>t. RequestTypes
  BY DEF SignInTypeOK, RequestTypes
<1>s. 0 \in Nat /\ 1 \in Nat /\ Links \subseteq Nat /\ account.password \in Nat
  BY SignInAssumption DEF SignInTypeOK
<1>1. ASSUME NEW r \in Requests, NEW p \in {0, account.password}, Submit(r, p) PROVE RequestTypes'
  BY <1>t, <1>s, <1>1, RequestMoves DEF Submit, SignInSteps
<1>2. ASSUME NEW r \in Requests, NEW c \in challenges, NEW k \in factor.codes \cup spent \cup {0}, Verify(r, c, k)
      PROVE  RequestTypes'
  <2>1. c.no \in Nat /\ c.password \in Nat /\ k \in Nat
    BY DEF SignInTypeOK, Challenge
  <2> QED BY <1>t, <1>2, <2>1, RequestMoves DEF Verify, SignInSteps
<1>3. ASSUME NEW r \in Requests, \/ Enable2FA(r) \/ Disable2FA(r) \/ AskChange(r) \/ Register(r) \/ OAuth(r)
                                 \/ \E l \in Links : FollowLink(r, l)
      PROVE  RequestTypes'
  <2>1. \E step \in SignInSteps, a \in Nat, p \in Nat, k \in Nat : Arrive(r, step, a, p, k)
    BY <1>s, <1>3 DEF Enable2FA, Disable2FA, AskChange, Register, OAuth, FollowLink, SignInSteps
  <2> QED BY <1>t, <2>1, RequestMoves
<1>4. ASSUME NEW r \in Requests, CountFailure(r) PROVE RequestTypes'
  <2>1. CASE Done(r)
    BY <1>t, <1>s, <2>1, RequestMoves DEF SignInSteps
  <2>2. CASE Move(r, "counted") /\ arg' = [arg EXCEPT ![r] = failures + 1] /\ UNCHANGED <<typed, code, seen>>
    <3>1. failures + 1 \in Nat
      BY DEF SignInTypeOK
    <3> QED BY <1>t, <2>2, <3>1 DEF RequestTypes, Move, SignInSteps
  <2> QED BY <1>4, <2>1, <2>2 DEF CountFailure
<1>5. ASSUME NEW r \in Requests, ReadFactor(r) PROVE RequestTypes'
  <2>1. CASE Onto(r, "consume") \/ Done(r)
    BY <1>t, <1>s, <2>1, RequestMoves DEF SignInSteps
  <2>2. CASE Move(r, "spend") /\ seen' = [seen EXCEPT ![r] = factor.codes] /\ UNCHANGED <<arg, typed, code>>
    <3>1. factor.codes \subseteq Nat
      BY DEF SignInTypeOK
    <3> QED BY <1>t, <2>2, <3>1 DEF RequestTypes, Move, SignInSteps
  <2> QED BY <1>5, <2>1, <2>2 DEF ReadFactor
<1>6. ASSUME NEW r \in Requests,
             \/ CheckLock(r) \/ Lookup(r) \/ LimitWindow(r) \/ ClearFailures(r) \/ Open(r) \/ Abandon(r)
             \/ AskSecondFactor(r) \/ ReadChallenge(r) \/ SpendCode(r) \/ ConsumeChallenge(r)
             \/ WriteFactor(r) \/ ForgetSecret(r) \/ DeleteFactor(r)
             \/ CheckLink(r) \/ Redeem(r) \/ Tidy(r) \/ Create(r) \/ LinkProvider(r) \/ ChangePassword(r)
      PROVE  RequestTypes'
  <2>1. Done(r) \/ \E step \in SignInSteps : Onto(r, step)
    BY <1>6 DEF CheckLock, Lookup, LimitWindow, ClearFailures, Open, Abandon, AskSecondFactor, ReadChallenge,
       SpendCode, ConsumeChallenge, WriteFactor, ForgetSecret, DeleteFactor, CheckLink, Redeem, Tidy, Create,
       LinkProvider, ChangePassword, SignInSteps
  <2>2. "idle" \in SignInSteps
    BY DEF SignInSteps
  <2> QED BY <1>t, <1>s, <2>1, <2>2, RequestMoves
<1>7. ASSUME \/ UNCHANGED signInVars \/ WindowEnds \/ SetActive \/ SetUp2FA \/ FactorKeyExpires
             \/ \E l \in Links : MailLink(l) \/ LinkExpires(l)
      PROVE  RequestTypes'
  <2>1. UNCHANGED requestVars
    BY <1>7 DEF signInVars, WindowEnds, SetActive, SetUp2FA, FactorKeyExpires, MailLink, LinkExpires
  <2> QED BY <1>t, <2>1 DEF RequestTypes, requestVars
<1> QED
  BY <1>1, <1>2, <1>3, <1>4, <1>5, <1>6, <1>7 DEF SignInNext, Locking, Factoring, Linking

\* The row of the account and the counter of its failures.
LEMMA RowTypeStep ==
  ASSUME SignInTypeOK, [SignInNext]_signInVars
  PROVE  /\ account' \in [exists : BOOLEAN, password : Nat, active : BOOLEAN, verified : BOOLEAN, linked : BOOLEAN]
         /\ failures' \in Nat /\ timed' \in BOOLEAN /\ dropped' \in BOOLEAN
<1> DEFINE Row == [exists : BOOLEAN, password : Nat, active : BOOLEAN, verified : BOOLEAN, linked : BOOLEAN]
<1>t. account \in Row /\ failures \in Nat /\ timed \in BOOLEAN /\ dropped \in BOOLEAN /\ typed \in [Requests -> Nat]
  BY DEF SignInTypeOK
<1>1. account' \in Row
  <2>1. ASSUME NEW r \in Requests, Redeem(r) \/ Create(r) \/ LinkProvider(r) \/ ChangePassword(r)
        PROVE  account' \in Row
    <3>1. CASE Create(r)
      <4>1. typed[r] \in Nat /\ (at[r] = "create") \in BOOLEAN
        BY <1>t
      <4> QED BY <1>t, <3>1, <4>1, ZenonT(30) DEF Create, NoAccount
    <3>2. CASE Redeem(r)
      <4>1. \/ account' = [account EXCEPT !.password = @ + 1]
            \/ account' = [account EXCEPT !.verified = TRUE]
        BY <3>2 DEF Redeem
      <4>2. account.password + 1 \in Nat
        BY <1>t
      <4>3. CASE account' = [account EXCEPT !.password = @ + 1]
        BY <1>t, <4>2, <4>3
      <4>4. CASE account' = [account EXCEPT !.verified = TRUE]
        BY <1>t, <4>4
      <4> QED BY <4>1, <4>3, <4>4
    <3>3. CASE LinkProvider(r)
      BY <1>t, <3>3 DEF LinkProvider
    <3>4. CASE ChangePassword(r)
      <4>1. account.password + 1 \in Nat
        BY <1>t
      <4> QED BY <1>t, <3>4, <4>1 DEF ChangePassword
    <3> QED BY <2>1, <3>1, <3>2, <3>3, <3>4
  <2>2. ASSUME SetActive \/ \E l \in Links : MailLink(l) PROVE account' \in Row
    <3>1. CASE SetActive
      <4>1. (~account.active) \in BOOLEAN
        OBVIOUS
      <4> QED BY <1>t, <3>1, <4>1 DEF SetActive
    <3>2. CASE \E l \in Links : MailLink(l)
      <4>1. account' = account \/ account' = [NoAccount EXCEPT !.exists = TRUE, !.verified = TRUE]
        BY <3>2 DEF MailLink
      <4>2. CASE account' = account
        BY <1>t, <4>2
      <4>3. CASE account' = [NoAccount EXCEPT !.exists = TRUE, !.verified = TRUE]
        BY <4>3 DEF NoAccount
      <4> QED BY <4>1, <4>2, <4>3
    <3> QED BY <2>2, <3>1, <3>2
  <2>3. ASSUME ~SetActive, \A l \in Links : ~MailLink(l),
               \A r \in Requests : ~(Redeem(r) \/ Create(r) \/ LinkProvider(r) \/ ChangePassword(r))
        PROVE  UNCHANGED account
    BY <2>3 DEF SignInNext, Locking, Factoring, Linking, signInVars, Submit, CheckLock, Lookup, CountFailure,
       LimitWindow, ClearFailures, Open, Abandon, WindowEnds, Verify, AskSecondFactor, ReadChallenge, ReadFactor,
       SpendCode, ConsumeChallenge, Enable2FA, WriteFactor, ForgetSecret, Disable2FA, DeleteFactor, SetUp2FA,
       FactorKeyExpires, FollowLink, CheckLink, Tidy, Register, OAuth, AskChange, LinkExpires
  <2> QED BY <1>t, <2>1, <2>2, <2>3
<1>2. failures' \in Nat /\ timed' \in BOOLEAN /\ dropped' \in BOOLEAN
  <2>1. ASSUME NEW r \in Requests, CountFailure(r) \/ LimitWindow(r) \/ ClearFailures(r) \/ Abandon(r)
        PROVE  failures' \in Nat /\ timed' \in BOOLEAN /\ dropped' \in BOOLEAN
    <3>1. CASE CountFailure(r)
      BY <1>t, <3>1 DEF CountFailure
    <3>2. CASE LimitWindow(r)
      <4>1. (failures > 0) \in BOOLEAN
        OBVIOUS
      <4> QED BY <1>t, <3>2, <4>1 DEF LimitWindow
    <3>3. CASE ClearFailures(r)
      <4>1. \/ failures' = 0 /\ timed' = FALSE /\ dropped' = FALSE
            \/ failures' = failures /\ timed' = timed /\ dropped' = dropped
        BY <3>3 DEF ClearFailures, NoFailures, lockVars
      <4>2. CASE failures' = 0 /\ timed' = FALSE /\ dropped' = FALSE
        BY <4>2
      <4>3. CASE failures' = failures /\ timed' = timed /\ dropped' = dropped
        <5>1. failures \in Nat /\ timed \in BOOLEAN /\ dropped \in BOOLEAN
          BY <1>t
        <5> QED BY <4>3, <5>1
      <4> QED BY <4>1, <4>2, <4>3
    <3>4. CASE Abandon(r)
      <4>1. (dropped \/ (at[r] = "counted" /\ failures > 0)) \in BOOLEAN
        OBVIOUS
      <4> QED BY <1>t, <3>4, <4>1 DEF Abandon
    <3> QED BY <2>1, <3>1, <3>2, <3>3, <3>4
  <2>2. ASSUME WindowEnds PROVE failures' \in Nat /\ timed' \in BOOLEAN /\ dropped' \in BOOLEAN
    <3>1. failures' = 0 /\ timed' = FALSE /\ dropped' = FALSE
      BY <2>2 DEF WindowEnds, NoFailures
    <3> QED BY <3>1
  <2>3. ASSUME ~WindowEnds,
               \A r \in Requests : ~(CountFailure(r) \/ LimitWindow(r) \/ ClearFailures(r) \/ Abandon(r))
        PROVE  UNCHANGED lockVars
    BY <2>3 DEF SignInNext, Locking, Factoring, Linking, signInVars, Submit, CheckLock, Lookup, Open, SetActive,
       Verify, AskSecondFactor, ReadChallenge, ReadFactor, SpendCode, ConsumeChallenge, Enable2FA, WriteFactor,
       ForgetSecret, Disable2FA, DeleteFactor, SetUp2FA, FactorKeyExpires, FollowLink, CheckLink, Redeem, Tidy,
       Register, OAuth, Create, LinkProvider, AskChange, ChangePassword, MailLink, LinkExpires
  <2> QED BY <1>t, <2>1, <2>2, <2>3 DEF lockVars
<1> QED BY <1>1, <1>2

\* What request q carries stays.
Kept(q) == arg'[q] = arg[q] /\ typed'[q] = typed[q] /\ code'[q] = code[q] /\ seen'[q] = seen[q]

\* It arrives at step with a link or a challenge a, a password p, a code k.
Arrived(q, step, a, p, k) ==
    at[q] = "idle" /\ at'[q] = step /\ arg'[q] = a /\ typed'[q] = p /\ code'[q] = k /\ seen'[q] = seen[q]

\* It goes from one step to another.
Went(q, steps, to) == at[q] \in steps /\ at'[q] = to

\* All that a step of the system may do to request q.
GoesOn(q) ==
    \/ at'[q] = at[q] /\ Kept(q)
    \/ at'[q] = "idle" /\ arg'[q] = 0 /\ typed'[q] = 0 /\ code'[q] = 0 /\ seen'[q] = {}
    \/ \E p \in {0, account.password} : Arrived(q, "check", 0, p, 0)
    \/ Went(q, {"check"}, "lookup") /\ Kept(q)
    \/ Went(q, {"lookup"}, "wrong") /\ Kept(q)
    \/ \E step \in {"right", "right2FA"} :
        Went(q, {"lookup"}, step) /\ Kept(q) /\ typed[q] = account.password
    \/ Went(q, {"wrong"}, "counted") /\ typed'[q] = typed[q] /\ code'[q] = code[q] /\ seen'[q] = seen[q]
    \/ Went(q, {"right"}, "open") /\ Kept(q)
    \/ Went(q, {"right2FA"}, "challenge") /\ Kept(q)
    \/ \E c \in challenges, k \in factor.codes \cup spent \cup {0} : Arrived(q, "verify", c.no, c.password, k)
    \/ Went(q, {"verify"}, "factor") /\ Kept(q)
    \/ /\ Went(q, {"factor"}, "spend")
       /\ arg'[q] = arg[q] /\ typed'[q] = typed[q] /\ code'[q] = code[q]
       /\ seen'[q] = factor.codes /\ code[q] \in factor.codes
    \/ Went(q, {"factor", "spend"}, "consume") /\ Kept(q)
    \/ Went(q, {"consume"}, "open") /\ Kept(q)
    \/ \E step \in {"enable", "disable"} : Arrived(q, step, 0, 0, 0)
    \/ account.exists /\ Arrived(q, "change", 0, 0, 0)
    \/ Went(q, {"enable"}, "enabled") /\ Kept(q)
    \/ \E l \in Links : link[l] # "none" /\ Arrived(q, "redeem", l, 0, 0)
    \/ /\ Went(q, {"redeem"}, "found") /\ Kept(q)
       /\ link[arg[q]] = "sent"
       /\ excused' = IF Honouring(q, arg[q]) THEN excused \cup {arg[q]} ELSE excused
    \/ Went(q, {"found"}, "open") /\ Kept(q)
    \/ Went(q, {"found"}, "tidy") /\ Kept(q)
    \/ ~account.exists /\ Arrived(q, "register", 0, 1, 0)
    \/ \E step \in {"open", "link", "create"} : Arrived(q, step, 0, 0, 0)
    \/ Went(q, {"register"}, "open") /\ Kept(q) /\ ~account.exists
    \/ Went(q, {"create", "link"}, "open") /\ Kept(q)

LEMMA GoesOnStep ==
  ASSUME SignInTypeOK, [SignInNext]_signInVars, NEW q \in Requests
  PROVE  GoesOn(q)
<1>t. RequestTypes
  BY DEF SignInTypeOK, RequestTypes
<1> DEFINE Other(r) == r # q => at'[q] = at[q] /\ Kept(q)
<1>d. ASSUME NEW r \in Requests, Done(r)
      PROVE  /\ Other(r)
             /\ r = q => at'[q] = "idle" /\ arg'[q] = 0 /\ typed'[q] = 0 /\ code'[q] = 0 /\ seen'[q] = {}
  BY <1>t, <1>d DEF Done, Move, RequestTypes, Kept
<1>o. ASSUME NEW r \in Requests, NEW step, Onto(r, step)
      PROVE  Other(r) /\ (r = q => at'[q] = step /\ Kept(q))
  BY <1>t, <1>o DEF Onto, Move, RequestTypes, Kept
<1>a. ASSUME NEW r \in Requests, NEW step, NEW a, NEW p, NEW k, Arrive(r, step, a, p, k)
      PROVE  Other(r) /\ (r = q => Arrived(q, step, a, p, k))
  BY <1>t, <1>a DEF Arrive, Move, RequestTypes, Kept, Arrived
<1>1. ASSUME NEW r \in Requests, \E p \in {0, account.password} : Submit(r, p) PROVE GoesOn(q)
  BY <1>1, <1>a DEF Submit, GoesOn
<1>2. ASSUME NEW r \in Requests, \E c \in challenges, k \in factor.codes \cup spent \cup {0} : Verify(r, c, k)
      PROVE  GoesOn(q)
  BY <1>2, <1>a DEF Verify, GoesOn
<1>3. ASSUME NEW r \in Requests, \/ Enable2FA(r) \/ Disable2FA(r) \/ AskChange(r) \/ Register(r) \/ OAuth(r)
                                 \/ \E l \in Links : FollowLink(r, l)
      PROVE  GoesOn(q)
  <2>1. CASE Enable2FA(r) \/ Disable2FA(r) \/ AskChange(r)
    BY <2>1, <1>a DEF Enable2FA, Disable2FA, AskChange, GoesOn
  <2>2. CASE Register(r)
    BY <2>2, <1>a DEF Register, GoesOn
  <2>3. CASE OAuth(r)
    BY <2>3, <1>a DEF OAuth, GoesOn
  <2>4. CASE \E l \in Links : FollowLink(r, l)
    BY <2>4, <1>a DEF FollowLink, GoesOn
  <2> QED BY <1>3, <2>1, <2>2, <2>3, <2>4
<1>4. ASSUME NEW r \in Requests, CountFailure(r) PROVE GoesOn(q)
  <2>1. CASE Done(r)
    BY <2>1, <1>d DEF GoesOn
  <2>2. CASE Move(r, "counted") /\ arg' = [arg EXCEPT ![r] = failures + 1] /\ UNCHANGED <<typed, code, seen>>
    <3>1. at[r] = "wrong"
      BY <1>4 DEF CountFailure
    <3>2. /\ r = q => at'[q] = "counted" /\ typed'[q] = typed[q] /\ code'[q] = code[q] /\ seen'[q] = seen[q]
          /\ Other(r)
      BY <1>t, <2>2 DEF RequestTypes, Move, Kept
    <3> QED BY <3>1, <3>2 DEF GoesOn, Went
  <2> QED BY <1>4, <2>1, <2>2 DEF CountFailure
<1>5. ASSUME NEW r \in Requests, ReadFactor(r) PROVE GoesOn(q)
  <2>1. CASE Done(r)
    BY <2>1, <1>d DEF GoesOn
  <2>2. CASE Onto(r, "consume")
    <3>1. at[r] = "factor"
      BY <1>5 DEF ReadFactor
    <3> QED BY <2>2, <3>1, <1>o DEF GoesOn, Went
  <2>3. CASE /\ code[r] \in factor.codes
             /\ Move(r, "spend") /\ seen' = [seen EXCEPT ![r] = factor.codes] /\ UNCHANGED <<arg, typed, code>>
    <3>1. at[r] = "factor"
      BY <1>5 DEF ReadFactor
    <3>2. /\ r = q => /\ at'[q] = "spend" /\ typed'[q] = typed[q] /\ code'[q] = code[q] /\ arg'[q] = arg[q]
                      /\ seen'[q] = factor.codes
          /\ Other(r)
      BY <1>t, <2>3 DEF RequestTypes, Move, Kept
    <3> QED BY <2>3, <3>1, <3>2 DEF GoesOn, Went
  <2> QED BY <1>5, <2>1, <2>2, <2>3 DEF ReadFactor
<1>6. ASSUME NEW r \in Requests,
             \/ CheckLock(r) \/ Lookup(r) \/ LimitWindow(r) \/ ClearFailures(r) \/ Open(r) \/ Abandon(r)
             \/ AskSecondFactor(r) \/ ReadChallenge(r) \/ SpendCode(r) \/ ConsumeChallenge(r)
             \/ WriteFactor(r) \/ ForgetSecret(r) \/ DeleteFactor(r)
             \/ CheckLink(r) \/ Redeem(r) \/ Tidy(r) \/ Create(r) \/ LinkProvider(r) \/ ChangePassword(r)
      PROVE  GoesOn(q)
  <2>d. CASE Done(r)
    BY <2>d, <1>d DEF GoesOn
  <2>n. SUFFICES ASSUME ~Done(r) PROVE GoesOn(q)
    BY <2>d
  <2>1. CASE CheckLock(r)
    BY <1>o, <2>1, <2>n DEF CheckLock, GoesOn, Went
  <2>2. CASE Lookup(r)
    <3>1. /\ at[r] = "lookup"
          /\ \/ Onto(r, "wrong")
             \/ typed[r] = account.password /\ \E step \in {"right", "right2FA"} : Onto(r, step)
      BY <2>2, <2>n DEF Lookup
    <3> QED BY <1>o, <3>1 DEF GoesOn, Went
  <2>3. CASE ClearFailures(r)
    BY <1>o, <2>3, <2>n DEF ClearFailures, GoesOn, Went
  <2>4. CASE ReadChallenge(r)
    BY <1>o, <2>4, <2>n DEF ReadChallenge, GoesOn, Went
  <2>5. CASE SpendCode(r)
    BY <1>o, <2>5, <2>n DEF SpendCode, GoesOn, Went
  <2>6. CASE ConsumeChallenge(r)
    BY <1>o, <2>6, <2>n DEF ConsumeChallenge, GoesOn, Went
  <2>7. CASE WriteFactor(r)
    BY <1>o, <2>7, <2>n DEF WriteFactor, GoesOn, Went
  <2>8. CASE CheckLink(r)
    BY <1>o, <2>8, <2>n DEF CheckLink, GoesOn, Went
  <2>9. CASE Redeem(r)
    <3>1. at[r] = "found" /\ \E step \in {"open", "tidy"} : Onto(r, step)
      BY <2>9, <2>n DEF Redeem
    <3> QED BY <1>o, <3>1 DEF GoesOn, Went
  <2>10. CASE Create(r)
    <3>1. at[r] \in {"register", "create"} /\ ~account.exists /\ Onto(r, "open")
      BY <2>10, <2>n DEF Create
    <3> QED BY <1>o, <3>1 DEF GoesOn, Went
  <2>11. CASE LinkProvider(r)
    BY <1>o, <2>11, <2>n DEF LinkProvider, GoesOn, Went
  <2>12. CASE \/ LimitWindow(r) \/ Open(r) \/ Abandon(r) \/ AskSecondFactor(r) \/ ForgetSecret(r)
              \/ DeleteFactor(r) \/ Tidy(r) \/ ChangePassword(r)
    BY <2>12, <2>n DEF LimitWindow, Open, Abandon, AskSecondFactor, ForgetSecret, DeleteFactor, Tidy, ChangePassword
  <2> QED BY <1>6, <2>1, <2>2, <2>3, <2>4, <2>5, <2>6, <2>7, <2>8, <2>9, <2>10, <2>11, <2>12
<1>7. ASSUME \/ UNCHANGED signInVars \/ WindowEnds \/ SetActive \/ SetUp2FA \/ FactorKeyExpires
             \/ \E l \in Links : MailLink(l) \/ LinkExpires(l)
      PROVE  GoesOn(q)
  <2>1. UNCHANGED requestVars
    BY <1>7 DEF signInVars, WindowEnds, SetActive, SetUp2FA, FactorKeyExpires, MailLink, LinkExpires
  <2> QED BY <2>1 DEF GoesOn, Kept, requestVars
<1>8. ASSUME \E r \in Requests : Submit(r, account.password) PROVE GoesOn(q)
  BY <1>1, <1>8
<1> QED
  BY <1>1, <1>2, <1>3, <1>4, <1>5, <1>6, <1>7, <1>8 DEF SignInNext, Locking, Factoring, Linking

\* A step is a step of one request at most.
LEMMA OneRequest ==
  ASSUME SignInTypeOK, [SignInNext]_signInVars, NEW q \in Requests, NEW r \in Requests,
         ~(at'[q] = at[q] /\ Kept(q)), ~(at'[r] = at[r] /\ Kept(r))
  PROVE  q = r
<1>t. RequestTypes
  BY DEF SignInTypeOK, RequestTypes
<1> DEFINE Alone(x) == \A y \in Requests : y # x => at'[y] = at[y] /\ Kept(y)
<1>1. ASSUME NEW x \in Requests,
             \/ Done(x) \/ \E step : Onto(x, step) \/ \E a, p, k : Arrive(x, step, a, p, k)
      PROVE  Alone(x)
  BY <1>t, <1>1 DEF Done, Onto, Arrive, Move, RequestTypes, Kept
<1>2. ASSUME NEW x \in Requests,
             \/ \E p : Submit(x, p)
             \/ \E c, k : Verify(x, c, k)
             \/ \E l : FollowLink(x, l)
             \/ Enable2FA(x) \/ Disable2FA(x) \/ AskChange(x) \/ Register(x) \/ OAuth(x)
      PROVE  Alone(x)
  <2>1. \E step, a, p, k : Arrive(x, step, a, p, k)
    BY <1>2 DEF Submit, Verify, FollowLink, Enable2FA, Disable2FA, AskChange, Register, OAuth
  <2> QED BY <1>1, <2>1
<1>3. ASSUME NEW x \in Requests,
             \/ CheckLock(x) \/ Lookup(x) \/ LimitWindow(x) \/ ClearFailures(x) \/ Open(x) \/ Abandon(x)
             \/ AskSecondFactor(x) \/ ReadChallenge(x) \/ SpendCode(x) \/ ConsumeChallenge(x)
             \/ WriteFactor(x) \/ ForgetSecret(x) \/ DeleteFactor(x)
             \/ CheckLink(x) \/ Redeem(x) \/ Tidy(x) \/ Create(x) \/ LinkProvider(x) \/ ChangePassword(x)
      PROVE  Alone(x)
  <2>1. Done(x) \/ \E step : Onto(x, step)
    BY <1>3 DEF CheckLock, Lookup, LimitWindow, ClearFailures, Open, Abandon, AskSecondFactor, ReadChallenge,
       SpendCode, ConsumeChallenge, WriteFactor, ForgetSecret, DeleteFactor, CheckLink, Redeem, Tidy, Create,
       LinkProvider, ChangePassword
  <2> QED BY <1>1, <2>1
<1>4. ASSUME NEW x \in Requests, CountFailure(x) \/ ReadFactor(x) PROVE Alone(x)
  <2>1. \/ Done(x) \/ \E step : Onto(x, step)
        \/ \E step, n : Move(x, step) /\ arg' = [arg EXCEPT ![x] = n] /\ UNCHANGED <<typed, code, seen>>
        \/ \E step, n : Move(x, step) /\ seen' = [seen EXCEPT ![x] = n] /\ UNCHANGED <<arg, typed, code>>
    BY <1>4 DEF CountFailure, ReadFactor
  <2>2. ASSUME NEW step, NEW n, Move(x, step) /\ arg' = [arg EXCEPT ![x] = n] /\ UNCHANGED <<typed, code, seen>>
        PROVE  Alone(x)
    BY <1>t, <2>2 DEF Move, RequestTypes, Kept
  <2>3. ASSUME NEW step, NEW n, Move(x, step) /\ seen' = [seen EXCEPT ![x] = n] /\ UNCHANGED <<arg, typed, code>>
        PROVE  Alone(x)
    BY <1>t, <2>3 DEF Move, RequestTypes, Kept
  <2> QED BY <1>1, <2>1, <2>2, <2>3
<1>5. ASSUME \/ UNCHANGED signInVars \/ WindowEnds \/ SetActive \/ SetUp2FA \/ FactorKeyExpires
             \/ \E l \in Links : MailLink(l) \/ LinkExpires(l)
      PROVE  \A y : at'[y] = at[y] /\ Kept(y)
  <2>1. UNCHANGED requestVars
    BY <1>5 DEF signInVars, WindowEnds, SetActive, SetUp2FA, FactorKeyExpires, MailLink, LinkExpires
  <2> QED BY <2>1 DEF Kept, requestVars
<1>6. (\E x \in Requests : Alone(x)) \/ \A y : at'[y] = at[y] /\ Kept(y)
  BY <1>2, <1>3, <1>4, <1>5 DEF SignInNext, Locking, Factoring, Linking
<1> QED BY <1>6

\* The second factor.
LEMMA FactorTypeStep ==
  ASSUME SignInTypeOK, [SignInNext]_signInVars
  PROVE  /\ factor' \in [on : BOOLEAN, codes : SUBSET Nat] /\ setUp' \in BOOLEAN
         /\ challenges' \subseteq Challenge /\ asked' \in Nat /\ sets' \in Nat
         /\ spent' \subseteq Nat /\ revived' \subseteq Nat
<1> DEFINE Row == [on : BOOLEAN, codes : SUBSET Nat]
<1> DEFINE Goal == /\ factor' \in Row /\ setUp' \in BOOLEAN
                   /\ challenges' \subseteq Challenge /\ asked' \in Nat /\ sets' \in Nat
                   /\ spent' \subseteq Nat /\ revived' \subseteq Nat
<1>t. /\ factor \in Row /\ setUp \in BOOLEAN
      /\ challenges \subseteq Challenge /\ asked \in Nat /\ sets \in Nat
      /\ spent \subseteq Nat /\ revived \subseteq Nat
  BY DEF SignInTypeOK
<1>c. CodesPerSet \in Nat
  BY SignInAssumption
<1>1. ASSUME NEW r \in Requests, AskSecondFactor(r) PROVE Goal
  <2>1. typed[r] \in Nat /\ asked + 1 \in Nat
    BY <1>t DEF SignInTypeOK
  <2>2. [no |-> asked + 1, password |-> typed[r]] \in Challenge
    BY <2>1 DEF Challenge
  <2> QED BY <1>t, <1>1, <2>1, <2>2 DEF AskSecondFactor
<1>2. ASSUME NEW r \in Requests, SpendCode(r) PROVE Goal
  <2>1. code[r] \in Nat /\ seen[r] \subseteq Nat
    BY DEF SignInTypeOK
  <2>2. UNCHANGED <<setUp, challenges, asked, sets>>
    BY <1>2 DEF SpendCode
  <2>3. CASE UNCHANGED <<factor, spent, revived>>
    BY <1>t, <2>2, <2>3
  <2>4. CASE /\ factor' = [factor EXCEPT !.codes = Remaining(r)]
             /\ spent' = spent \cup {code[r]}
             /\ revived' = (revived \cap Remaining(r)) \cup (Remaining(r) \ factor.codes)
    <3>1. Remaining(r) \subseteq Nat
      BY <2>1 DEF Remaining
    <3> HIDE DEF Remaining
    <3> QED BY <1>t, <2>1, <2>2, <2>4, <3>1
  <2> QED BY <1>2, <2>3, <2>4 DEF SpendCode
<1>3. ASSUME NEW r \in Requests, ConsumeChallenge(r) \/ ForgetSecret(r) PROVE Goal
  BY <1>t, <1>3 DEF ConsumeChallenge, ForgetSecret
<1>4. ASSUME NEW r \in Requests, WriteFactor(r) PROVE Goal
  <2>1. {sets * CodesPerSet + i : i \in 1..CodesPerSet} \subseteq Nat
    BY <1>t, <1>c
  <2>2. sets + 1 \in Nat
    BY <1>t
  <2> QED BY <1>t, <1>4, <2>1, <2>2 DEF WriteFactor
<1>5. ASSUME NEW r \in Requests, DeleteFactor(r) PROVE Goal
  BY <1>t, <1>5 DEF DeleteFactor
<1>6. ASSUME SetUp2FA \/ FactorKeyExpires PROVE Goal
  BY <1>t, <1>6 DEF SetUp2FA, FactorKeyExpires
<1>7. ASSUME ~SetUp2FA, ~FactorKeyExpires,
             \A r \in Requests : ~(\/ AskSecondFactor(r) \/ SpendCode(r) \/ ConsumeChallenge(r) \/ ForgetSecret(r)
                                  \/ WriteFactor(r) \/ DeleteFactor(r))
      PROVE  UNCHANGED factorVars
  BY <1>7 DEF SignInNext, Locking, Factoring, Linking, signInVars, Submit, CheckLock, Lookup, CountFailure,
     LimitWindow, ClearFailures, Open, Abandon, WindowEnds, SetActive, Verify, ReadChallenge, ReadFactor,
     Enable2FA, Disable2FA, FollowLink, CheckLink, Redeem, Tidy, Register, OAuth, Create, LinkProvider,
     AskChange, ChangePassword, MailLink, LinkExpires
<1> QED BY <1>t, <1>1, <1>2, <1>3, <1>4, <1>5, <1>6, <1>7 DEF factorVars

-----------------------------------------------------------------------------
(* Signing in: the invariant *)

\* What requests carry: a link that was mailed once it is followed, and a
\* password only on the ways in that ask for one.
CarriedOK ==
    \A r \in Requests :
        /\ at[r] \in {"redeem", "found", "tidy"} => arg[r] \in Links /\ link[arg[r]] # "none"
        /\ at[r] \in {"redeem", "found", "tidy", "link", "create"} => typed[r] = 0

\* Links are mailed to the owner of the account; without one there is no password.
AccountOK ==
    /\ \A l \in Links : link[l] # "none" => account.exists
    /\ \A r \in Requests : at[r] = "change" => account.exists
    /\ account.exists \/ account.password = 0
    /\ resetTo <= account.password

\* The row does not go away, and its password only moves on.
LEMMA AccountStep ==
  ASSUME SignInTypeOK, CarriedOK, AccountOK, [SignInNext]_signInVars
  PROVE  /\ account.exists => account'.exists
         /\ account.password <= account'.password
         /\ account'.exists \/ account'.password = 0
<1> DEFINE Row == [exists : BOOLEAN, password : Nat, active : BOOLEAN, verified : BOOLEAN, linked : BOOLEAN]
<1> DEFINE Goal == /\ account.exists => account'.exists
                   /\ account.password <= account'.password
                   /\ account'.exists \/ account'.password = 0
<1>t. account \in Row /\ typed \in [Requests -> Nat] /\ (account.exists \/ account.password = 0)
  BY DEF SignInTypeOK, AccountOK
<1>1. ASSUME NEW r \in Requests, Redeem(r) \/ ChangePassword(r) PROVE Goal
  <2>1. account.exists
    BY <1>1 DEF Redeem, ChangePassword, CarriedOK, AccountOK
  <2>2. account' = [account EXCEPT !.password = @ + 1] \/ account' = [account EXCEPT !.verified = TRUE]
    BY <1>1 DEF Redeem, ChangePassword
  <2> QED BY <1>t, <2>1, <2>2
<1>2. ASSUME NEW r \in Requests, Create(r) PROVE Goal
  <2>1. CASE account.exists
    BY <1>t, <1>2, <2>1 DEF Create
  <2>2. CASE ~account.exists
    <3>1. account' = [NoAccount EXCEPT !.exists = TRUE, !.password = typed[r],
                                       !.verified = at[r] = "create", !.linked = at[r] = "create"]
      BY <1>2, <2>2 DEF Create
    <3>2. account'.exists /\ account'.password = typed[r] /\ typed[r] \in Nat
      BY <1>t, <3>1 DEF NoAccount
    <3> QED BY <1>t, <2>2, <3>2
  <2> QED BY <2>1, <2>2
<1>3. ASSUME NEW r \in Requests, LinkProvider(r) PROVE Goal
  BY <1>t, <1>3 DEF LinkProvider
<1>4. ASSUME SetActive PROVE Goal
  BY <1>t, <1>4 DEF SetActive
<1>5. ASSUME NEW l \in Links, MailLink(l) PROVE Goal
  <2>1. CASE account' = account
    BY <1>t, <2>1
  <2>2. CASE ~account.exists /\ account' = [NoAccount EXCEPT !.exists = TRUE, !.verified = TRUE]
    <3>1. account'.exists /\ account'.password = 0
      BY <2>2 DEF NoAccount
    <3> QED BY <1>t, <2>2, <3>1
  <2> QED BY <1>5, <2>1, <2>2 DEF MailLink
<1>6. ASSUME ~SetActive, \A l \in Links : ~MailLink(l),
             \A r \in Requests : ~(Redeem(r) \/ Create(r) \/ LinkProvider(r) \/ ChangePassword(r))
      PROVE  UNCHANGED account
  BY <1>6 DEF SignInNext, Locking, Factoring, Linking, signInVars, Submit, CheckLock, Lookup, CountFailure,
     LimitWindow, ClearFailures, Open, Abandon, WindowEnds, Verify, AskSecondFactor, ReadChallenge, ReadFactor,
     SpendCode, ConsumeChallenge, Enable2FA, WriteFactor, ForgetSecret, Disable2FA, DeleteFactor, SetUp2FA,
     FactorKeyExpires, FollowLink, CheckLink, Tidy, Register, OAuth, AskChange, LinkExpires
<1> QED BY <1>t, <1>1, <1>2, <1>3, <1>4, <1>5, <1>6

\* The rows of the links: a link is mailed once, and stays used.
LEMMA LinkStep ==
  ASSUME SignInTypeOK, CarriedOK, AccountOK, [SignInNext]_signInVars
  PROVE  /\ link' \in [Links -> {"none", "sent", "used"}]
         /\ \A l \in Links :
                \/ link'[l] = link[l]
                \/ link[l] = "none" /\ link'[l] = "sent" /\ account'.exists
                \/ link[l] # "none" /\ link'[l] = "used"
<1> DEFINE Goal == /\ link' \in [Links -> {"none", "sent", "used"}]
                   /\ \A l \in Links :
                        \/ link'[l] = link[l]
                        \/ link[l] = "none" /\ link'[l] = "sent" /\ account'.exists
                        \/ link[l] # "none" /\ link'[l] = "used"
<1>t. link \in [Links -> {"none", "sent", "used"}]
  BY DEF SignInTypeOK
<1>1. ASSUME NEW r \in Requests, Redeem(r) \/ Tidy(r) PROVE Goal
  <2>1. arg[r] \in Links /\ link[arg[r]] # "none"
    BY <1>1 DEF Redeem, Tidy, CarriedOK
  <2>2. link' = link \/ link' = [link EXCEPT ![arg[r]] = "used"]
    BY <1>1 DEF Redeem, Tidy, UseUp
  <2> QED BY <1>t, <2>1, <2>2
<1>2. ASSUME NEW r \in Requests, Create(r) PROVE Goal
  <2>1. CASE account.exists
    BY <1>t, <1>2, <2>1 DEF Create
  <2>2. CASE ~account.exists
    <3>1. \A l \in Links : link[l] = "none"
      BY <2>2 DEF AccountOK
    <3>2. account'.exists
      BY <1>2, <2>2 DEF Create, NoAccount
    <3>3. link' = [l \in Links |-> IF at[r] = "register" /\ kind[l] = "verify" THEN "sent" ELSE link[l]]
      BY <1>2, <2>2 DEF Create
    <3> QED BY <1>t, <3>1, <3>2, <3>3
  <2> QED BY <2>1, <2>2
<1>3. ASSUME NEW l \in Links, MailLink(l) PROVE Goal
  <2>1. account'.exists
    <3>1. CASE account.exists
      BY <1>3, <3>1 DEF MailLink
    <3>2. CASE ~account.exists
      <4>1. account' = [NoAccount EXCEPT !.exists = TRUE, !.verified = TRUE]
        BY <1>3, <3>2 DEF MailLink
      <4> QED BY <4>1 DEF NoAccount
    <3> QED BY <3>1, <3>2
  <2>2. link[l] = "none" /\ link' = [link EXCEPT ![l] = "sent"]
    BY <1>3 DEF MailLink
  <2> QED BY <1>t, <2>1, <2>2
<1>4. ASSUME \A l \in Links : ~MailLink(l), \A r \in Requests : ~(Redeem(r) \/ Create(r) \/ Tidy(r))
      PROVE  UNCHANGED link
  BY <1>4 DEF SignInNext, Locking, Factoring, Linking, signInVars, factorVars, linkVars, Submit, CheckLock, Lookup,
     CountFailure, LimitWindow, ClearFailures, Open, Abandon, WindowEnds, SetActive, Verify, AskSecondFactor,
     ReadChallenge, ReadFactor, SpendCode, ConsumeChallenge, Enable2FA, WriteFactor, ForgetSecret, Disable2FA,
     DeleteFactor, SetUp2FA, FactorKeyExpires, FollowLink, CheckLink, Register, OAuth, LinkProvider, AskChange,
     ChangePassword, LinkExpires
<1> QED BY <1>t, <1>1, <1>2, <1>3, <1>4

LEMMA RequestsCarry ==
  ASSUME SignInTypeOK, CarriedOK, AccountOK, [SignInNext]_signInVars
  PROVE  CarriedOK'
<1> SUFFICES ASSUME NEW q \in Requests
    PROVE  /\ at'[q] \in {"redeem", "found", "tidy"} => arg'[q] \in Links /\ link'[arg'[q]] # "none"
           /\ at'[q] \in {"redeem", "found", "tidy", "link", "create"} => typed'[q] = 0
  BY DEF CarriedOK
<1>1. \A l \in Links : link[l] # "none" => link'[l] # "none"
  BY LinkStep
<1>2. GoesOn(q)
  BY GoesOnStep
<1> QED BY <1>1, <1>2 DEF GoesOn, Kept, Went, Arrived, CarriedOK

LEMMA AccountOKStep ==
  ASSUME SignInTypeOK, CarriedOK, AccountOK, [SignInNext]_signInVars
  PROVE  AccountOK'
<1>1. \A l \in Links : link'[l] # "none" => account'.exists
  BY LinkStep, AccountStep DEF AccountOK
<1>2. ASSUME NEW q \in Requests, at'[q] = "change" PROVE account'.exists
  <2>1. GoesOn(q)
    BY GoesOnStep
  <2>2. account.exists
    BY <1>2, <2>1 DEF GoesOn, Went, Arrived, AccountOK
  <2> QED BY <2>2, AccountStep
<1>3. account'.exists \/ account'.password = 0
  BY AccountStep
<1>4. resetTo' <= account'.password
  <2>t. resetTo \in Nat /\ account.password \in Nat /\ account'.password \in Nat
    BY RowTypeStep DEF SignInTypeOK
  <2>1. CASE resetTo' = resetTo
    BY <2>t, <2>1, AccountStep DEF AccountOK
  <2>2. ASSUME NEW r \in Requests, Redeem(r), resetTo' # resetTo PROVE resetTo' <= account'.password
    <3>1. account' = [account EXCEPT !.password = @ + 1] /\ resetTo' = account.password + 1
      BY <2>2 DEF Redeem, openVars
    <3>2. account'.password = account.password + 1
      BY <3>1 DEF SignInTypeOK
    <3> QED BY <2>t, <3>1, <3>2
  <2>3. (\A r \in Requests : ~Redeem(r)) => resetTo' = resetTo
    BY DEF SignInNext, Locking, Factoring, Linking, signInVars, openVars, Submit, CheckLock, Lookup,
     CountFailure, LimitWindow, ClearFailures, Open, Abandon, WindowEnds, SetActive, Verify, AskSecondFactor,
     ReadChallenge, ReadFactor, SpendCode, ConsumeChallenge, Enable2FA, WriteFactor, ForgetSecret, Disable2FA,
     DeleteFactor, SetUp2FA, FactorKeyExpires, FollowLink, CheckLink, Tidy, Register, OAuth, Create, LinkProvider,
     AskChange, ChangePassword, MailLink, LinkExpires
  <2> QED BY <2>1, <2>2, <2>3
<1> QED BY <1>1, <1>2, <1>3, <1>4 DEF AccountOK

\* The other columns of the links, and what is told of them.
LEMMA LinkTypeStep ==
  ASSUME SignInTypeOK, CarriedOK, [SignInNext]_signInVars
  PROVE  /\ kind' \in [Links -> Kinds] /\ stale' \subseteq Links
         /\ uses' \in [Links -> 0..2] /\ excused' \subseteq Links
<1>t. kind \in [Links -> Kinds] /\ stale \subseteq Links /\ uses \in [Links -> 0..2] /\ excused \subseteq Links
  BY DEF SignInTypeOK
<1>1. UNCHANGED kind
  BY DEF SignInNext, Locking, Factoring, Linking, signInVars, linkVars, Submit, CheckLock, Lookup,
     CountFailure, LimitWindow, ClearFailures, Open, Abandon, WindowEnds, SetActive, Verify, AskSecondFactor,
     ReadChallenge, ReadFactor, SpendCode, ConsumeChallenge, Enable2FA, WriteFactor, ForgetSecret, Disable2FA,
     DeleteFactor, SetUp2FA, FactorKeyExpires, FollowLink, CheckLink, Redeem, Tidy, Register, OAuth, Create,
     LinkProvider, AskChange, ChangePassword, MailLink, LinkExpires
<1>2. stale' = stale \/ \E l \in Links : stale' = stale \cup {l}
  BY DEF SignInNext, Locking, Factoring, Linking, signInVars, linkVars, Submit, CheckLock, Lookup,
     CountFailure, LimitWindow, ClearFailures, Open, Abandon, WindowEnds, SetActive, Verify, AskSecondFactor,
     ReadChallenge, ReadFactor, SpendCode, ConsumeChallenge, Enable2FA, WriteFactor, ForgetSecret, Disable2FA,
     DeleteFactor, SetUp2FA, FactorKeyExpires, FollowLink, CheckLink, Redeem, Tidy, Register, OAuth, Create,
     LinkProvider, AskChange, ChangePassword, MailLink, LinkExpires
<1>3. uses' = uses \/ \E r \in Requests : at[r] = "found" /\ uses' = [uses EXCEPT ![arg[r]] = IF @ = 0 THEN 1 ELSE 2]
  BY DEF SignInNext, Locking, Factoring, Linking, signInVars, linkVars, Submit, CheckLock, Lookup,
     CountFailure, LimitWindow, ClearFailures, Open, Abandon, WindowEnds, SetActive, Verify, AskSecondFactor,
     ReadChallenge, ReadFactor, SpendCode, ConsumeChallenge, Enable2FA, WriteFactor, ForgetSecret, Disable2FA,
     DeleteFactor, SetUp2FA, FactorKeyExpires, FollowLink, CheckLink, Redeem, Tidy, Register, OAuth, Create,
     LinkProvider, AskChange, ChangePassword, MailLink, LinkExpires
<1>4. \/ excused' = excused
      \/ \E r \in Requests : at[r] \in {"redeem", "tidy"} /\ excused' = excused \cup {arg[r]}
  BY DEF SignInNext, Locking, Factoring, Linking, signInVars, linkVars, Submit, CheckLock, Lookup,
     CountFailure, LimitWindow, ClearFailures, Open, Abandon, WindowEnds, SetActive, Verify, AskSecondFactor,
     ReadChallenge, ReadFactor, SpendCode, ConsumeChallenge, Enable2FA, WriteFactor, ForgetSecret, Disable2FA,
     DeleteFactor, SetUp2FA, FactorKeyExpires, FollowLink, CheckLink, Redeem, Tidy, Register, OAuth, Create,
     LinkProvider, AskChange, ChangePassword, MailLink, LinkExpires
<1>5. uses' \in [Links -> 0..2]
  BY <1>t, <1>3
<1>6. excused' \subseteq Links
  BY <1>t, <1>4 DEF CarriedOK
<1> QED BY <1>t, <1>1, <1>2, <1>5, <1>6

LEMMA OpenTypeStep ==
  ASSUME SignInTypeOK, [SignInNext]_signInVars
  PROVE  opened' \subseteq Nat /\ resetTo' \in Nat /\ begun' \subseteq Nat
<1>t. /\ opened \subseteq Nat /\ resetTo \in Nat /\ begun \subseteq Nat
      /\ account.password + 1 \in Nat /\ typed \in [Requests -> Nat]
  BY DEF SignInTypeOK
<1>u. Underway \subseteq Nat
  <2>1. \A c \in challenges : c.password \in Nat
    BY DEF SignInTypeOK, Challenge
  <2> QED BY <1>t, <2>1 DEF Underway
<1>1. \/ UNCHANGED openVars
      \/ \E r \in Requests : opened' = opened \cup ({typed[r]} \ {0}) /\ UNCHANGED <<resetTo, begun>>
      \/ opened' = {} /\ resetTo' = account.password + 1 /\ begun' = Underway
  BY ZenonT(30) DEF SignInNext, Locking, Factoring, Linking, signInVars, linkVars, Submit, CheckLock, Lookup,
     CountFailure, LimitWindow, ClearFailures, Open, Abandon, WindowEnds, SetActive, Verify, AskSecondFactor,
     ReadChallenge, ReadFactor, SpendCode, ConsumeChallenge, Enable2FA, WriteFactor, ForgetSecret, Disable2FA,
     DeleteFactor, SetUp2FA, FactorKeyExpires, FollowLink, CheckLink, Redeem, Tidy, Register, OAuth, Create,
     LinkProvider, AskChange, ChangePassword, MailLink, LinkExpires, CloseAll
<1> QED BY <1>t, <1>u, <1>1 DEF openVars

\* Types are part of the invariant.
LEMMA SignInTypeStep ==
  ASSUME SignInTypeOK, CarriedOK, AccountOK, [SignInNext]_signInVars
  PROVE  SignInTypeOK'
<1>1. RequestTypes' /\ link' \in [Links -> {"none", "sent", "used"}]
  BY RequestTypeStep, LinkStep
<1> QED BY <1>1, RowTypeStep, FactorTypeStep, LinkTypeStep, OpenTypeStep DEF RequestTypes, SignInTypeOK
-----------------------------------------------------------------------------
(* Signing in: the lock *)

\* The count of failures has an end, from the types alone.
LEMMA LockStep ==
  ASSUME SignInTypeOK, LockHasEnd, [SignInNext]_signInVars
  PROVE  LockHasEnd'
<1>t. failures \in Nat /\ timed \in BOOLEAN /\ dropped \in BOOLEAN /\ RequestTypes
  BY DEF SignInTypeOK, RequestTypes
<1> DEFINE Counted(r) == at[r] = "counted"
<1>1. ASSUME NEW r \in Requests, CountFailure(r), ~Done(r) PROVE LockHasEnd'
  <2>1. at'[r] = "counted"
    BY <1>t, <1>1 DEF CountFailure, Move, RequestTypes
  <2> QED BY <2>1 DEF LockHasEnd
<1>2. ASSUME NEW r \in Requests, CountFailure(r), Done(r) PROVE LockHasEnd'
  <2>1. at[r] = "wrong" /\ UNCHANGED <<timed, dropped>>
    BY <1>2 DEF CountFailure
  <2>2. \A q \in Requests : at[q] = "counted" => at'[q] = "counted"
    BY <1>t, <1>2, <2>1 DEF Done, Move, RequestTypes
  <2>3. failures' = failures \/ failures > 0
    <3>1. CASE failures = 0 /\ failures' = failures + 1
      <4>1. Limits(failures + 1)
        BY <3>1 DEF Limits
      <4>2. Move(r, "counted")
        BY <1>2, <3>1, <4>1 DEF CountFailure
      <4> QED BY <1>t, <1>2, <4>2 DEF Done, Move, RequestTypes
    <3> QED BY <1>t, <1>2, <3>1 DEF CountFailure
  <2> QED BY <2>1, <2>2, <2>3 DEF LockHasEnd
<1>3. ASSUME NEW r \in Requests, LimitWindow(r) PROVE LockHasEnd'
  BY <1>t, <1>3 DEF LimitWindow, LockHasEnd
<1>4. ASSUME NEW r \in Requests, ClearFailures(r) PROVE LockHasEnd'
  <2>1. CASE failures' = 0
    BY <2>1 DEF LockHasEnd
  <2>2. CASE UNCHANGED lockVars
    <3>1. \A q \in Requests : at[q] = "counted" => at'[q] = "counted"
      BY <1>t, <1>4 DEF ClearFailures, Onto, Move, RequestTypes
    <3> QED BY <2>2, <3>1 DEF LockHasEnd, lockVars
  <2> QED BY <1>4, <2>1, <2>2 DEF ClearFailures, NoFailures
<1>5. ASSUME WindowEnds PROVE LockHasEnd'
  BY <1>5 DEF WindowEnds, NoFailures, LockHasEnd
<1>6. ASSUME NEW r \in Requests, Abandon(r) PROVE LockHasEnd'
  <2>1. UNCHANGED <<failures, timed>> /\ dropped' = (dropped \/ (at[r] = "counted" /\ failures > 0))
    BY <1>6 DEF Abandon
  <2>2. \A q \in Requests \ {r} : at'[q] = at[q]
    BY <1>t, <1>6 DEF Abandon, Done, Move, RequestTypes
  <2> QED BY <2>1, <2>2 DEF LockHasEnd
<1>7. ASSUME ~WindowEnds,
             \A r \in Requests : ~(CountFailure(r) \/ LimitWindow(r) \/ ClearFailures(r) \/ Abandon(r))
      PROVE  LockHasEnd'
  <2>1. UNCHANGED lockVars
    BY <1>7 DEF SignInNext, Locking, Factoring, Linking, signInVars, Submit, CheckLock, Lookup, Open, SetActive,
       Verify, AskSecondFactor, ReadChallenge, ReadFactor, SpendCode, ConsumeChallenge, Enable2FA, WriteFactor,
       ForgetSecret, Disable2FA, DeleteFactor, SetUp2FA, FactorKeyExpires, FollowLink, CheckLink, Redeem, Tidy,
       Register, OAuth, Create, LinkProvider, AskChange, ChangePassword, MailLink, LinkExpires
  <2>2. ASSUME NEW q \in Requests, at[q] = "counted" PROVE at'[q] = "counted"
    <3>1. ASSUME NEW r \in Requests, at[r] # "counted",
                 Done(r) \/ \E step : Onto(r, step) \/ \E a, p, k : Arrive(r, step, a, p, k)
          PROVE  at'[q] = "counted"
      BY <1>t, <2>2, <3>1 DEF Done, Onto, Arrive, Move, RequestTypes
    <3>2. ASSUME NEW r \in Requests, ReadFactor(r) PROVE at'[q] = "counted"
      BY <1>t, <2>2, <3>2 DEF ReadFactor, Done, Onto, Move, RequestTypes
    <3>3. ASSUME NEW r \in Requests,
                 \/ \E p : Submit(r, p)
                 \/ \E c, k : Verify(r, c, k)
                 \/ \E l : FollowLink(r, l)
                 \/ Enable2FA(r) \/ Disable2FA(r) \/ AskChange(r) \/ Register(r) \/ OAuth(r)
          PROVE  at[r] # "counted" /\ \E step, a, p, k : Arrive(r, step, a, p, k)
      BY <3>3 DEF Submit, Verify, FollowLink, Enable2FA, Disable2FA, AskChange, Register, OAuth, Arrive
    <3>4. ASSUME NEW r \in Requests,
                 \/ CheckLock(r) \/ Lookup(r) \/ Open(r)
                 \/ AskSecondFactor(r) \/ ReadChallenge(r) \/ SpendCode(r) \/ ConsumeChallenge(r)
                 \/ WriteFactor(r) \/ ForgetSecret(r) \/ DeleteFactor(r)
                 \/ CheckLink(r) \/ Redeem(r) \/ Tidy(r) \/ Create(r) \/ LinkProvider(r) \/ ChangePassword(r)
          PROVE  at[r] # "counted" /\ (Done(r) \/ \E step : Onto(r, step))
      BY <3>4 DEF CheckLock, Lookup, Open, AskSecondFactor, ReadChallenge,
         SpendCode, ConsumeChallenge, WriteFactor, ForgetSecret, DeleteFactor, CheckLink, Redeem, Tidy, Create,
         LinkProvider, ChangePassword
    <3>5. ASSUME \/ UNCHANGED signInVars \/ SetActive \/ SetUp2FA \/ FactorKeyExpires
                 \/ \E l \in Links : MailLink(l) \/ LinkExpires(l)
          PROVE  at'[q] = "counted"
      BY <2>2, <3>5 DEF signInVars, requestVars, SetActive, SetUp2FA, FactorKeyExpires, MailLink, LinkExpires
    <3> QED BY <1>7, <3>1, <3>2, <3>3, <3>4, <3>5 DEF SignInNext, Locking, Factoring, Linking
  <2> QED BY <2>1, <2>2 DEF LockHasEnd, lockVars
<1> QED BY <1>1, <1>2, <1>3, <1>4, <1>5, <1>6, <1>7

-----------------------------------------------------------------------------
(* Signing in: links and codes *)

Honours(r, l) == at[r] \in {"found", "tidy"} /\ arg[r] = l

\* A link nobody crossed is in the hands of one request at a time, and one that
\* was used is marked, or its request is about to mark it.
LinkInv ==
    \A l \in Links :
        l \notin excused =>
            /\ \A r, q \in Requests : Honours(r, l) /\ Honours(q, l) => r = q
            /\ uses[l] <= 1
            /\ uses[l] = 1 => \/ link[l] = "used"
                              \/ \E r \in Requests : at[r] = "tidy" /\ arg[r] = l
            /\ uses[l] = 1 => \A r \in Requests : ~(at[r] = "found" /\ arg[r] = l)

\* Codes are numbered set after set, so those of a new set were never seen.
CodesInv ==
    /\ factor.codes \cup spent \subseteq 1..(sets * CodesPerSet)
    /\ \A r \in Requests : seen[r] \subseteq 1..(sets * CodesPerSet) /\ code[r] \in 0..(sets * CodesPerSet)
    /\ \A r \in Requests : at[r] = "spend" => code[r] # 0
    /\ SpentCodesStaySpent

\* A use of a link, and what becomes of the request that made it.
LEMMA UseStep ==
  ASSUME SignInTypeOK, CarriedOK, AccountOK, [SignInNext]_signInVars, NEW l \in Links
  PROVE  \/ uses'[l] = uses[l]
         \/ \E r \in Requests :
                /\ at[r] = "found" /\ arg[r] = l
                /\ uses'[l] = IF uses[l] = 0 THEN 1 ELSE 2
                /\ \/ at'[r] \notin {"found", "tidy"} /\ link'[l] = "used"
                   \/ at'[r] = "tidy" /\ Kept(r)
<1>t. RequestTypes /\ uses \in [Links -> 0..2] /\ link \in [Links -> {"none", "sent", "used"}]
  BY DEF SignInTypeOK, RequestTypes
<1>1. ASSUME NEW r \in Requests, Redeem(r), arg[r] = l
      PROVE  /\ at[r] = "found"
             /\ uses'[l] = IF uses[l] = 0 THEN 1 ELSE 2
             /\ \/ at'[r] \notin {"found", "tidy"} /\ link'[l] = "used"
                \/ at'[r] = "tidy" /\ Kept(r)
  <2>1. at[r] = "found" /\ uses' = [uses EXCEPT ![arg[r]] = IF @ = 0 THEN 1 ELSE 2]
    BY <1>1 DEF Redeem
  <2>2. \/ (Done(r) \/ Onto(r, "open")) /\ UseUp(arg[r])
        \/ Onto(r, "tidy")
    BY <1>1 DEF Redeem
  <2>3. CASE (Done(r) \/ Onto(r, "open")) /\ UseUp(arg[r])
    BY <1>t, <1>1, <2>1, <2>3 DEF Done, Onto, Move, UseUp, RequestTypes
  <2>4. CASE Onto(r, "tidy")
    BY <1>t, <1>1, <2>1, <2>4 DEF Onto, Move, Kept, RequestTypes
  <2> QED BY <2>2, <2>3, <2>4
<1>2. uses' = uses \/ \E r \in Requests : Redeem(r) /\ uses' = [uses EXCEPT ![arg[r]] = IF @ = 0 THEN 1 ELSE 2]
  BY DEF SignInNext, Locking, Factoring, Linking, signInVars, linkVars, Submit, CheckLock, Lookup,
     CountFailure, LimitWindow, ClearFailures, Open, Abandon, WindowEnds, SetActive, Verify, AskSecondFactor,
     ReadChallenge, ReadFactor, SpendCode, ConsumeChallenge, Enable2FA, WriteFactor, ForgetSecret, Disable2FA,
     DeleteFactor, SetUp2FA, FactorKeyExpires, FollowLink, CheckLink, Redeem, Tidy, Register, OAuth, Create,
     LinkProvider, AskChange, ChangePassword, MailLink, LinkExpires
<1> QED BY <1>t, <1>1, <1>2

\* A request that is done with a link has used it up, or is excused.
LEMMA TidyStep ==
  ASSUME SignInTypeOK, CarriedOK, [SignInNext]_signInVars, NEW r \in Requests, at[r] = "tidy"
  PROVE  \/ at'[r] = "tidy" /\ Kept(r)
         \/ link'[arg[r]] = "used"
         \/ arg[r] \in excused'
<1>t. RequestTypes /\ link \in [Links -> {"none", "sent", "used"}]
  BY DEF SignInTypeOK, RequestTypes
<1>1. CASE Tidy(r)
  <2>1. arg[r] \in Links
    BY DEF CarriedOK
  <2> QED BY <1>t, <1>1, <2>1 DEF Tidy, UseUp
<1>2. CASE Abandon(r)
  BY <1>2 DEF Abandon
<1>3. ASSUME ~(at'[r] = "tidy" /\ Kept(r)) PROVE Tidy(r) \/ Abandon(r)
  <2> DEFINE Alone(x) == x # r => at'[r] = at[r] /\ Kept(r)
  <2>1. ASSUME NEW x \in Requests,
               \/ Done(x) \/ \E step : Onto(x, step) \/ \E a, p, k : Arrive(x, step, a, p, k)
               \/ \E step, n : Move(x, step) /\ arg' = [arg EXCEPT ![x] = n] /\ UNCHANGED <<typed, code, seen>>
               \/ \E step, n : Move(x, step) /\ seen' = [seen EXCEPT ![x] = n] /\ UNCHANGED <<arg, typed, code>>
        PROVE  Alone(x)
    <3>1. CASE Done(x) \/ \E step : Onto(x, step) \/ \E a, p, k : Arrive(x, step, a, p, k)
      BY <1>t, <3>1 DEF Done, Onto, Arrive, Move, RequestTypes, Kept
    <3>2. ASSUME NEW step, NEW n, Move(x, step) /\ arg' = [arg EXCEPT ![x] = n] /\ UNCHANGED <<typed, code, seen>>
          PROVE  Alone(x)
      BY <1>t, <3>2 DEF Move, RequestTypes, Kept
    <3>3. ASSUME NEW step, NEW n, Move(x, step) /\ seen' = [seen EXCEPT ![x] = n] /\ UNCHANGED <<arg, typed, code>>
          PROVE  Alone(x)
      BY <1>t, <3>3 DEF Move, RequestTypes, Kept
    <3> QED BY <2>1, <3>1, <3>2, <3>3
  <2>2. ASSUME NEW x \in Requests,
               \/ \E p : Submit(x, p)
               \/ \E c, k : Verify(x, c, k)
               \/ \E l : FollowLink(x, l)
               \/ Enable2FA(x) \/ Disable2FA(x) \/ AskChange(x) \/ Register(x) \/ OAuth(x)
        PROVE  Alone(x) /\ at[x] = "idle"
    <3>1. at[x] = "idle" /\ \E step, a, p, k : Arrive(x, step, a, p, k)
      BY <2>2 DEF Submit, Verify, FollowLink, Enable2FA, Disable2FA, AskChange, Register, OAuth, Arrive
    <3> QED BY <2>1, <3>1
  <2>3. ASSUME NEW x \in Requests,
               \/ CheckLock(x) \/ Lookup(x) \/ LimitWindow(x) \/ ClearFailures(x) \/ Open(x)
               \/ AskSecondFactor(x) \/ ReadChallenge(x) \/ SpendCode(x) \/ ConsumeChallenge(x)
               \/ WriteFactor(x) \/ ForgetSecret(x) \/ DeleteFactor(x)
               \/ CheckLink(x) \/ Redeem(x) \/ Create(x) \/ LinkProvider(x) \/ ChangePassword(x)
               \/ CountFailure(x) \/ ReadFactor(x)
        PROVE  Alone(x) /\ at[x] # "tidy"
    <3>1. /\ at[x] # "tidy"
          /\ \/ Done(x) \/ \E step : Onto(x, step)
             \/ \E step, n : Move(x, step) /\ arg' = [arg EXCEPT ![x] = n] /\ UNCHANGED <<typed, code, seen>>
             \/ \E step, n : Move(x, step) /\ seen' = [seen EXCEPT ![x] = n] /\ UNCHANGED <<arg, typed, code>>
      BY <2>3 DEF CheckLock, Lookup, LimitWindow, ClearFailures, Open, AskSecondFactor, ReadChallenge,
         SpendCode, ConsumeChallenge, WriteFactor, ForgetSecret, DeleteFactor, CheckLink, Redeem, Create,
         LinkProvider, ChangePassword, CountFailure, ReadFactor
    <3> QED BY <2>1, <3>1
  <2>4. ASSUME NEW x \in Requests, Tidy(x) \/ Abandon(x) PROVE Alone(x)
    <3>1. Done(x)
      BY <2>4 DEF Tidy, Abandon
    <3> QED BY <2>1, <3>1
  <2>5. ASSUME \/ UNCHANGED signInVars \/ WindowEnds \/ SetActive \/ SetUp2FA \/ FactorKeyExpires
               \/ \E l \in Links : MailLink(l) \/ LinkExpires(l)
        PROVE  at'[r] = at[r] /\ Kept(r)
    <3>1. UNCHANGED requestVars
      BY <2>5 DEF signInVars, WindowEnds, SetActive, SetUp2FA, FactorKeyExpires, MailLink, LinkExpires
    <3> QED BY <3>1 DEF Kept, requestVars
  <2> QED BY <1>3, <2>2, <2>3, <2>4, <2>5 DEF SignInNext, Locking, Factoring, Linking
<1> QED BY <1>1, <1>2, <1>3
LEMMA LinkInvStep ==
  ASSUME SignInTypeOK, CarriedOK, AccountOK, LinkInv, [SignInNext]_signInVars
  PROVE  LinkInv'
<1> SUFFICES ASSUME NEW l \in Links, l \notin excused'
    PROVE  /\ \A r, q \in Requests : Honours(r, l)' /\ Honours(q, l)' => r = q
           /\ uses'[l] <= 1
           /\ uses'[l] = 1 => \/ link'[l] = "used"
                              \/ \E r \in Requests : at'[r] = "tidy" /\ arg'[r] = l
           /\ uses'[l] = 1 => \A r \in Requests : ~(at'[r] = "found" /\ arg'[r] = l)
  BY DEF LinkInv, Honours
<1>u. uses \in [Links -> 0..2]
  BY DEF SignInTypeOK
<1>e. l \notin excused
  <2>1. \/ excused' = excused
        \/ \E r \in Requests : excused' = excused \cup {arg[r]}
    BY DEF SignInNext, Locking, Factoring, Linking, signInVars, linkVars, Submit, CheckLock, Lookup,
       CountFailure, LimitWindow, ClearFailures, Open, Abandon, WindowEnds, SetActive, Verify, AskSecondFactor,
       ReadChallenge, ReadFactor, SpendCode, ConsumeChallenge, Enable2FA, WriteFactor, ForgetSecret, Disable2FA,
       DeleteFactor, SetUp2FA, FactorKeyExpires, FollowLink, CheckLink, Redeem, Tidy, Register, OAuth, Create,
       LinkProvider, AskChange, ChangePassword, MailLink, LinkExpires
  <2> QED BY <2>1
<1>i. /\ \A r, q \in Requests : Honours(r, l) /\ Honours(q, l) => r = q
      /\ uses[l] <= 1
      /\ uses[l] = 1 => link[l] = "used" \/ \E r \in Requests : at[r] = "tidy" /\ arg[r] = l
      /\ uses[l] = 1 => \A r \in Requests : ~(at[r] = "found" /\ arg[r] = l)
  BY <1>e DEF LinkInv
\* Who honours the link now did so before, or has just found it good, alone.
<1>h. ASSUME NEW r \in Requests, Honours(r, l)'
      PROVE  \/ Honours(r, l) /\ Kept(r) /\ (at'[r] = at[r] \/ at[r] = "found")
             \/ at[r] = "redeem" /\ at'[r] = "found" /\ Kept(r) /\ link[l] = "sent" /\ ~Honouring(r, l)
  <2>1. GoesOn(r)
    BY GoesOnStep
  <2> QED BY <1>h, <2>1 DEF GoesOn, Honours, Kept, Went, Arrived
<1>1. ASSUME NEW r \in Requests, NEW q \in Requests, Honours(r, l)', Honours(q, l)', r # q PROVE FALSE
  <2>1. ASSUME NEW x \in Requests, NEW y \in Requests, Honours(x, l)', Honours(y, l)', x # y,
               at[x] = "redeem", at'[x] = "found", ~Honouring(x, l)
        PROVE  FALSE
    <3>1. at'[y] = at[y] /\ Kept(y)
      BY <2>1, OneRequest
    <3> QED BY <2>1, <3>1 DEF Honours, Honouring, Kept
  <2>2. Honours(r, l) /\ Honours(q, l)
    BY <1>1, <1>h, <2>1
  <2> QED BY <1>1, <1>i, <2>2
<1>2. CASE uses'[l] = uses[l]
  <2>1. ASSUME uses[l] = 1
        PROVE  link'[l] = "used" \/ \E r \in Requests : at'[r] = "tidy" /\ arg'[r] = l
    <3>1. CASE link[l] = "used"
      BY <3>1, LinkStep
    <3>2. ASSUME NEW r \in Requests, at[r] = "tidy", arg[r] = l
          PROVE  link'[l] = "used" \/ \E x \in Requests : at'[x] = "tidy" /\ arg'[x] = l
      BY <3>2, TidyStep DEF Kept
    <3> QED BY <1>i, <2>1, <3>1, <3>2
  <2>2. ASSUME uses[l] = 1, NEW r \in Requests, at'[r] = "found", arg'[r] = l
        PROVE  FALSE
    <3>1. at[r] = "redeem" /\ link[l] = "sent" /\ ~Honouring(r, l)
      BY <1>h, <1>i, <2>2 DEF Honours, Kept
    <3> QED BY <1>i, <2>2, <3>1 DEF Honouring
  <2> QED BY <1>1, <1>2, <1>i, <2>1, <2>2
<1>3. ASSUME NEW r \in Requests, at[r] = "found", arg[r] = l,
             uses'[l] = IF uses[l] = 0 THEN 1 ELSE 2,
             \/ at'[r] \notin {"found", "tidy"} /\ link'[l] = "used"
             \/ at'[r] = "tidy" /\ Kept(r)
      PROVE  /\ uses'[l] <= 1
             /\ link'[l] = "used" \/ \E x \in Requests : at'[x] = "tidy" /\ arg'[x] = l
             /\ \A x \in Requests : ~(at'[x] = "found" /\ arg'[x] = l)
  <2>1. uses[l] = 0 /\ uses'[l] = 1
    BY <1>u, <1>i, <1>3
  <2>2. ASSUME NEW x \in Requests, at'[x] = "found", arg'[x] = l PROVE FALSE
    <3>1. x # r
      BY <1>3, <2>2
    <3>2. at'[x] = at[x] /\ Kept(x)
      BY <1>3, <3>1, OneRequest
    <3> QED BY <1>3, <1>i, <2>2, <3>1, <3>2 DEF Honours, Kept
  <2> QED BY <1>3, <2>1, <2>2 DEF Kept
<1> QED BY <1>1, <1>2, <1>3, UseStep

\* How the codes, those used and the number of sets move.
LEMMA CodeStep ==
  ASSUME SignInTypeOK, [SignInNext]_signInVars
  PROVE  \/ UNCHANGED <<factor, spent, revived, sets>>
         \/ \E r \in Requests :
                /\ at[r] = "spend" /\ UNCHANGED sets
                /\ factor'.codes = Remaining(r)
                /\ spent' = spent \cup {code[r]}
                /\ revived' = (revived \cap Remaining(r)) \cup (Remaining(r) \ factor.codes)
         \/ /\ UNCHANGED <<spent, revived>>
            /\ sets' = sets + 1 /\ factor'.codes = {sets * CodesPerSet + i : i \in 1..CodesPerSet}
         \/ UNCHANGED <<spent, revived, sets>> /\ factor'.codes = {}
<1>1. \/ UNCHANGED <<factor, spent, revived, sets>>
      \/ \E r \in Requests : SpendCode(r) \/ WriteFactor(r) \/ DeleteFactor(r)
  BY ZenonT(30) DEF SignInNext, Locking, Factoring, Linking, signInVars, factorVars, Submit, CheckLock, Lookup,
     CountFailure, LimitWindow, ClearFailures, Open, Abandon, WindowEnds, SetActive, Verify, AskSecondFactor,
     ReadChallenge, ReadFactor, ConsumeChallenge, Enable2FA, ForgetSecret, Disable2FA,
     SetUp2FA, FactorKeyExpires, FollowLink, CheckLink, Redeem, Tidy, Register, OAuth, Create,
     LinkProvider, AskChange, ChangePassword, MailLink, LinkExpires
<1>t. factor \in [on : BOOLEAN, codes : SUBSET Nat]
  BY DEF SignInTypeOK
<1>2. ASSUME NEW r \in Requests, SpendCode(r), factor.on
      PROVE  /\ at[r] = "spend" /\ UNCHANGED sets
             /\ factor'.codes = Remaining(r)
             /\ spent' = spent \cup {code[r]}
             /\ revived' = (revived \cap Remaining(r)) \cup (Remaining(r) \ factor.codes)
  <2>1. factor' = [factor EXCEPT !.codes = Remaining(r)]
    BY <1>2 DEF SpendCode
  <2>2. factor'.codes = Remaining(r)
    BY <1>t, <2>1
  <2> QED BY <1>2, <2>2 DEF SpendCode
<1>3. ASSUME NEW r \in Requests, SpendCode(r), ~factor.on PROVE UNCHANGED <<factor, spent, revived, sets>>
  BY <1>3 DEF SpendCode
<1>4. ASSUME NEW r \in Requests, WriteFactor(r)
      PROVE  /\ UNCHANGED <<spent, revived>>
             /\ sets' = sets + 1 /\ factor'.codes = {sets * CodesPerSet + i : i \in 1..CodesPerSet}
  BY <1>4 DEF WriteFactor
<1>5. ASSUME NEW r \in Requests, DeleteFactor(r)
      PROVE  UNCHANGED <<spent, revived, sets>> /\ factor'.codes = {}
  BY <1>5 DEF DeleteFactor
<1> QED BY <1>1, <1>2, <1>3, <1>4, <1>5

LEMMA CodesInvStep ==
  ASSUME SignInTypeOK, CodesInv, [SignInNext]_signInVars
  PROVE  CodesInv'
<1> DEFINE Top == sets * CodesPerSet
<1>t. sets \in Nat /\ CodesPerSet \in Nat /\ Top \in Nat
  BY SignInAssumption, SMTT(30) DEF SignInTypeOK
<1>c. /\ factor.codes \subseteq 1..Top /\ spent \subseteq 1..Top
      /\ \A r \in Requests : seen[r] \subseteq 1..Top /\ code[r] \in 0..Top
      /\ \A r \in Requests : at[r] = "spend" => code[r] # 0
      /\ spent \cap factor.codes \subseteq revived
  BY DEF CodesInv, SpentCodesStaySpent
<1>s. Top' \in Nat /\ Top <= Top'
  <2>1. sets' = sets \/ sets' = sets + 1
    BY CodeStep
  <2>2. (sets + 1) * CodesPerSet = Top + CodesPerSet
    BY <1>t
  <2> QED BY <1>t, <2>1, <2>2
<1>1. factor'.codes \subseteq 1..Top' /\ spent' \subseteq 1..Top' /\ spent' \cap factor'.codes \subseteq revived'
  <2>1. CASE UNCHANGED <<factor, spent, revived, sets>>
    BY <1>c, <2>1
  <2>2. ASSUME NEW r \in Requests, at[r] = "spend", UNCHANGED sets,
               factor'.codes = Remaining(r),
               spent' = spent \cup {code[r]},
               revived' = (revived \cap Remaining(r)) \cup (Remaining(r) \ factor.codes)
        PROVE  factor'.codes \subseteq 1..Top' /\ spent' \subseteq 1..Top' /\ spent' \cap factor'.codes \subseteq revived'
    <3>1. Remaining(r) \subseteq 1..Top /\ code[r] \in 1..Top /\ code[r] \notin Remaining(r)
      BY <1>t, <1>c, <2>2 DEF Remaining
    <3>2. Top' = Top
      BY <2>2
    <3>3. spent' \cap factor'.codes \subseteq revived'
      BY <1>c, <2>2, <3>1
    <3> QED BY <1>c, <2>2, <3>1, <3>2, <3>3
  <2>3. CASE /\ UNCHANGED <<spent, revived>>
             /\ sets' = sets + 1 /\ factor'.codes = {sets * CodesPerSet + i : i \in 1..CodesPerSet}
    <3>1. Top' = Top + CodesPerSet
      BY <1>t, <2>3
    <3>2. \A k \in factor'.codes : k \in Nat /\ k > Top /\ k <= Top + CodesPerSet
      <4> HIDE DEF Top
      <4>1. factor'.codes = {Top + i : i \in 1..CodesPerSet}
        BY <2>3 DEF Top
      <4> QED BY <1>t, <4>1
    <3> HIDE DEF Top
    <3>3. \A k \in spent' : k <= Top /\ k \in 1..Top'
      BY <1>t, <1>c, <2>3, <3>1
    <3>4. factor'.codes \subseteq 1..Top'
      BY <1>t, <3>1, <3>2
    <3>5. spent' \cap factor'.codes = {}
      <4> SUFFICES ASSUME NEW k \in spent', k \in factor'.codes PROVE FALSE
        OBVIOUS
      <4>1. k \in Nat /\ k > Top /\ k <= Top
        BY <3>2, <3>3
      <4> QED BY <1>t, <4>1
    <3> QED BY <3>3, <3>4, <3>5
  <2>4. CASE UNCHANGED <<spent, revived, sets>> /\ factor'.codes = {}
    BY <1>c, <2>4
  <2> QED BY <2>1, <2>2, <2>3, <2>4, CodeStep
<1>2. ASSUME NEW q \in Requests
      PROVE  /\ seen'[q] \subseteq 1..Top' /\ code'[q] \in 0..Top'
             /\ at'[q] = "spend" => code'[q] # 0
  <2> HIDE DEF Top
  <2>1. 1..Top \subseteq 1..Top' /\ 0..Top \subseteq 0..Top' /\ 0 \in 0..Top' /\ 1..Top \subseteq 0..Top
    BY <1>t, <1>s
  <2>2. GoesOn(q)
    BY GoesOnStep
  <2>3. \/ seen'[q] = seen[q] \/ seen'[q] = {} \/ seen'[q] = factor.codes
    BY <2>2 DEF GoesOn, Kept, Went, Arrived
  <2>4. code'[q] = code[q] \/ code'[q] \in factor.codes \cup spent \cup {0}
    BY <2>2 DEF GoesOn, Kept, Went, Arrived
  <2>5. at'[q] = "spend" => code'[q] = code[q] /\ (at[q] = "spend" \/ code[q] \in factor.codes)
    BY <2>2 DEF GoesOn, Kept, Went, Arrived
  <2>6. 0 \notin 1..Top
    BY <1>t
  <2> QED BY <1>c, <2>1, <2>3, <2>4, <2>5, <2>6
<1> QED BY <1>1, <1>2 DEF CodesInv, SpentCodesStaySpent
-----------------------------------------------------------------------------
(* Signing in: passwords on their way in *)

\* A password on its way in is not older than the last reset, or was on its
\* way in then.
UnderwayInv ==
    /\ ResetClosesSessions
    /\ \A p \in Underway : p # 0 /\ p < resetTo => p \in begun

\* The steps past the comparison of the password.
PastIt == {"right", "right2FA", "challenge", "verify", "factor", "spend", "consume", "open"}

\* A password that is on its way in now was before, or is the current one, or
\* is the first of an account that has just been registered.
LEMMA UnderwayStep ==
  ASSUME SignInTypeOK, CarriedOK, AccountOK, [SignInNext]_signInVars, NEW p \in Underway', p # 0
  PROVE  p \in Underway \/ p >= resetTo
<1>t. account.password \in Nat /\ resetTo \in Nat /\ resetTo <= account.password
  BY DEF SignInTypeOK, AccountOK
<1>1. ASSUME NEW q \in Requests, at'[q] \in PastIt, p = typed'[q] PROVE p \in Underway \/ p >= resetTo
  <2>1. GoesOn(q)
    BY GoesOnStep
  <2>2. \/ at[q] \in PastIt /\ typed'[q] = typed[q]
        \/ \E c \in challenges : typed'[q] = c.password
        \/ typed'[q] = account.password
        \/ typed'[q] = 0
        \/ ~account.exists
    BY <1>1, <2>1 DEF GoesOn, Kept, Went, Arrived, PastIt, CarriedOK
  <2>3. CASE at[q] \in PastIt /\ typed'[q] = typed[q]
    BY <1>1, <2>3 DEF Underway, PastIt
  <2>4. CASE \E c \in challenges : typed'[q] = c.password
    BY <1>1, <2>4 DEF Underway
  <2>5. CASE typed'[q] = account.password
    BY <1>t, <1>1, <2>5
  <2>6. CASE ~account.exists
    <3>1. resetTo = 0
      BY <1>t, <2>6 DEF AccountOK
    <3>2. typed'[q] \in Nat
      BY RequestTypeStep DEF RequestTypes
    <3> QED BY <1>1, <3>1, <3>2
  <2> QED BY <1>1, <2>2, <2>3, <2>4, <2>5, <2>6
<1>2. ASSUME NEW c \in challenges', p = c.password PROVE p \in Underway
  <2>1. \/ challenges' \subseteq challenges
        \/ \E r \in Requests : /\ at[r] = "challenge"
                               /\ challenges' = challenges \cup {[no |-> asked + 1, password |-> typed[r]]}
    BY DEF SignInNext, Locking, Factoring, Linking, signInVars, factorVars, Submit, CheckLock, Lookup,
     CountFailure, LimitWindow, ClearFailures, Open, Abandon, WindowEnds, SetActive, Verify, AskSecondFactor,
     ReadChallenge, ReadFactor, SpendCode, ConsumeChallenge, Enable2FA, WriteFactor, ForgetSecret, Disable2FA,
     DeleteFactor, SetUp2FA, FactorKeyExpires, FollowLink, CheckLink, Redeem, Tidy, Register, OAuth, Create,
     LinkProvider, AskChange, ChangePassword, MailLink, LinkExpires
  <2> QED BY <1>2, <2>1 DEF Underway
<1>3. (\E q \in Requests : at'[q] \in PastIt /\ p = typed'[q]) \/ \E c \in challenges' : p = c.password
  BY DEF Underway, PastIt
<1> QED BY <1>1, <1>2, <1>3

LEMMA UnderwayInvStep ==
  ASSUME SignInTypeOK, CarriedOK, AccountOK, UnderwayInv, [SignInNext]_signInVars
  PROVE  UnderwayInv'
<1>t. resetTo \in Nat /\ RequestTypes /\ opened \subseteq Nat /\ Underway \subseteq Nat
  <2>1. \A c \in challenges : c.password \in Nat
    BY DEF SignInTypeOK, Challenge
  <2> QED BY <2>1 DEF SignInTypeOK, RequestTypes, Underway
<1>1. \/ UNCHANGED openVars
      \/ \E r \in Requests : Open(r)
      \/ \E r \in Requests : Redeem(r) /\ Done(r) /\ opened' = {} /\ begun' = Underway
  BY DEF SignInNext, Locking, Factoring, Linking, signInVars, linkVars, Submit, CheckLock, Lookup,
     CountFailure, LimitWindow, ClearFailures, Open, Abandon, WindowEnds, SetActive, Verify, AskSecondFactor,
     ReadChallenge, ReadFactor, SpendCode, ConsumeChallenge, Enable2FA, WriteFactor, ForgetSecret, Disable2FA,
     DeleteFactor, SetUp2FA, FactorKeyExpires, FollowLink, CheckLink, Redeem, Tidy, Register, OAuth, Create,
     LinkProvider, AskChange, ChangePassword, MailLink, LinkExpires, CloseAll
<1>2. ASSUME UNCHANGED <<resetTo, begun>>, NEW p \in Underway', p # 0, p < resetTo' PROVE p \in begun'
  <2>1. p \in Nat
    <3>1. \A c \in challenges' : c.password \in Nat
      BY FactorTypeStep DEF Challenge
    <3>2. \A q \in Requests : typed'[q] \in Nat
      BY RequestTypeStep DEF RequestTypes
    <3> QED BY <1>2, <3>1, <3>2 DEF Underway
  <2>2. p \in Underway
    BY <1>t, <1>2, <2>1, UnderwayStep
  <2> QED BY <1>2, <2>2 DEF UnderwayInv
<1>3. CASE UNCHANGED openVars
  BY <1>2, <1>3 DEF UnderwayInv, ResetClosesSessions, openVars
<1>4. ASSUME NEW r \in Requests, Open(r) PROVE UnderwayInv'
  <2>1. UNCHANGED <<resetTo, begun>> /\ opened' = opened \cup ({typed[r]} \ {0})
    BY <1>4 DEF Open
  <2>2. typed[r] \in Underway
    BY <1>4 DEF Open, Underway
  <2> QED BY <1>2, <2>1, <2>2 DEF UnderwayInv, ResetClosesSessions
<1>5. ASSUME NEW r \in Requests, Redeem(r), Done(r), opened' = {}, begun' = Underway PROVE UnderwayInv'
  <2>1. challenges' = challenges
    BY <1>5 DEF Redeem, factorVars
  <2>2. /\ at'[r] = "idle"
        /\ \A q \in Requests \ {r} : at'[q] = at[q] /\ typed'[q] = typed[q]
    BY <1>t, <1>5 DEF Done, Move, RequestTypes
  <2>3. Underway' \subseteq Underway
    BY <2>1, <2>2 DEF Underway
  <2> QED BY <1>5, <2>3 DEF UnderwayInv, ResetClosesSessions
<1> QED BY <1>1, <1>3, <1>4, <1>5

-----------------------------------------------------------------------------
(* Signing in: the theorems *)

SignInInv ==
    SignInTypeOK /\ LockHasEnd /\ CarriedOK /\ AccountOK /\ LinkInv /\ CodesInv /\ UnderwayInv

LEMMA SignInStart == SignInInit => SignInInv
<1> SUFFICES ASSUME SignInInit PROVE SignInInv
  OBVIOUS
<1> USE SignInAssumption
<1>1. SignInTypeOK
  <2>1. account \in [exists : BOOLEAN, password : Nat, active : BOOLEAN, verified : BOOLEAN, linked : BOOLEAN]
    <3>1. CASE account = NoAccount
      BY <3>1 DEF NoAccount
    <3>2. CASE account = [NoAccount EXCEPT !.exists = TRUE, !.password = 1]
      BY <3>2 DEF NoAccount
    <3> QED BY <3>1, <3>2 DEF SignInInit
  <2>2. failures \in Nat /\ timed \in BOOLEAN /\ dropped \in BOOLEAN /\ setUp \in BOOLEAN
    <3>1. failures = 0 /\ timed = FALSE /\ dropped = FALSE /\ setUp = FALSE
      BY DEF SignInInit
    <3> QED BY <3>1
  <2>3. factor \in [on : BOOLEAN, codes : SUBSET Nat]
    BY DEF SignInInit
  <2>4. /\ challenges \subseteq Challenge /\ asked \in Nat /\ sets \in Nat
        /\ kind \in [Links -> Kinds] /\ link \in [Links -> {"none", "sent", "used"}] /\ stale \subseteq Links
        /\ opened \subseteq Nat /\ resetTo \in Nat /\ begun \subseteq Nat
        /\ spent \subseteq Nat /\ revived \subseteq Nat /\ excused \subseteq Links
        /\ uses \in [Links -> 0..2]
    BY DEF SignInInit
  <2>5. /\ at \in [Requests -> SignInSteps]
        /\ arg \in [Requests -> Nat] /\ typed \in [Requests -> Nat]
        /\ code \in [Requests -> Nat] /\ seen \in [Requests -> SUBSET Nat]
    BY DEF SignInInit, SignInSteps
  <2> QED BY <2>1, <2>2, <2>3, <2>4, <2>5 DEF SignInTypeOK
<1>2. LockHasEnd /\ CarriedOK
  BY DEF SignInInit, LockHasEnd, CarriedOK
<1>3. AccountOK
  <2>1. account.exists \/ account.password = 0
    <3>1. CASE account = NoAccount
      BY <3>1 DEF NoAccount
    <3>2. CASE account = [NoAccount EXCEPT !.exists = TRUE, !.password = 1]
      BY <3>2 DEF NoAccount
    <3> QED BY <3>1, <3>2 DEF SignInInit
  <2>2. account.password \in Nat
    BY <1>1 DEF SignInTypeOK
  <2> QED BY <2>1, <2>2 DEF SignInInit, AccountOK
<1>4. LinkInv
  BY DEF SignInInit, LinkInv, Honours
<1>5. CodesInv
  BY DEF SignInInit, CodesInv, SpentCodesStaySpent
<1>6. UnderwayInv
  BY DEF SignInInit, UnderwayInv, ResetClosesSessions, Underway
<1> QED BY <1>1, <1>2, <1>3, <1>4, <1>5, <1>6 DEF SignInInv

\* Every part of the invariant is kept by every step.
LEMMA SignInInvariant == SignInSpec => []SignInInv
<1>1. SignInInv /\ [SignInNext]_signInVars => SignInInv'
  BY SignInTypeStep, LockStep, RequestsCarry, AccountOKStep, LinkInvStep, CodesInvStep, UnderwayInvStep DEF SignInInv
<1> QED BY <1>1, SignInStart, PTL DEF SignInSpec

\* However many requests run at once, what they carry and what the stores hold
\* keeps its type.
THEOREM SignInTyped == SignInSpec => []SignInTypeOK
BY SignInInvariant, PTL DEF SignInInv

\* recordFailedLogin: in every interleaving, a count of failures without an
\* expiry has a request about to set one, or lost the call that should have; so
\* an account is never locked for good by the order of the calls alone.
THEOREM LocksEnd == SignInSpec => []LockHasEnd
BY SignInInvariant, PTL DEF SignInInv

\* A link that is used twice, or a backup code accepted again, was crossed by
\* another request between the reading and the writing, or its last call was lost.
THEOREM OneTimeUse == SignInSpec => []OneTimeMeansOnce
<1>1. SignInInv => OneTimeMeansOnce
  BY DEF SignInInv, SignInTypeOK, LinkInv, CodesInv, OneTimeMeansOnce, LinkUsedOnce
<1> QED BY <1>1, SignInInvariant, PTL

\* resetPassword: the sessions left after a reset were opened with the new
\* password, or by somebody who was past the comparison when it ran.
THEOREM ResetCloses == SignInSpec => []ResetClosesSessions
<1>1. SignInInv => ResetClosesSessions
  BY DEF SignInInv, UnderwayInv
<1> QED BY <1>1, SignInInvariant, PTL

-----------------------------------------------------------------------------
(* The workspace: operations *)

\* What a read looks for, and the kinds of rows.
Word == {"count", "find", "fetch", "running", "check", "clear"}
RowKinds == {"none", "task", "comment", "item", "dependency", "project", "member", "milestone", "team", "lead",
             "activity", "client", "contact", "entry", "attendance", "employee", "leave", "expense", "category",
             "quotation", "notification"}

\* The kinds of rows that have a position among their siblings.
Placed == {"task", "item", "milestone"}

WorkRow == [id : Nat, up : Nat, kind : RowKinds, place : Nat, main : BOOLEAN,
            closed : BOOLEAN, dated : BOOLEAN, told : BOOLEAN, shaky : BOOLEAN]

Words(s) == {s[i] : i \in DOMAIN s}

\* What the operations have in common, whatever the service: who counts, who
\* demotes, who looks before making a main row.
Fits(sort, named, words, write) ==
    /\ "clear" \in words => sort = "contact"
    /\ "count" \in words => sort \in Placed /\ write # "tick"
    /\ write = "main" => {"check", "clear"} \cap words # {}
    /\ write \in {"make", "add", "main", "unique", "upsert"} =>
            /\ named \in {"none", "parent"}
            /\ sort \in Placed => "count" \in words
    /\ write \in {"close", "set", "setMany", "place", "stop", "edit"} => sort # "item" /\ named \in {"row", "child"}
    /\ write = "tick" => sort = "item" /\ named = "child"

Legal(o) ==
    o.reads \in Seq(Word) /\ Len(o.reads) <= 2 /\ o.kind \in RowKinds /\ Fits(o.kind, o.at, Words(o.reads), o.write)

LEMMA WordsOfLists ==
  /\ <<>> \in Seq(Word) /\ Words(<<>>) = {} /\ Len(<<>>) = 0
  /\ \A a \in Word : <<a>> \in Seq(Word) /\ Words(<<a>>) = {a} /\ Len(<<a>>) = 1
  /\ \A a, b \in Word : <<a, b>> \in Seq(Word) /\ Words(<<a, b>>) = {a, b} /\ Len(<<a, b>>) = 2
<1>1. Words(<<>>) = {}
  BY DEF Words
<1>2. ASSUME NEW a \in Word PROVE <<a>> \in Seq(Word) /\ Words(<<a>>) = {a} /\ Len(<<a>>) = 1
  <2>1. <<a>> \in Seq(Word) /\ Len(<<a>>) = 1
    OBVIOUS
  <2>2. DOMAIN <<a>> = {1} /\ <<a>>[1] = a
    OBVIOUS
  <2>3. Words(<<a>>) = {a}
    BY <2>2 DEF Words
  <2> QED BY <2>1, <2>3
<1>3. ASSUME NEW a \in Word, NEW b \in Word
      PROVE  <<a, b>> \in Seq(Word) /\ Words(<<a, b>>) = {a, b} /\ Len(<<a, b>>) = 2
  <2>1. <<a, b>> \in Seq(Word) /\ Len(<<a, b>>) = 2
    OBVIOUS
  <2>2. DOMAIN <<a, b>> = {1, 2} /\ <<a, b>>[1] = a /\ <<a, b>>[2] = b
    OBVIOUS
  <2>3. Words(<<a, b>>) = {a, b}
    BY <2>2 DEF Words
  <2> QED BY <2>1, <2>3
<1> QED BY <1>1, <1>2, <1>3

LEMMA WordsOfReads ==
  /\ <<>> \in Seq(Word) /\ Words(<<>>) = {} /\ Len(<<>>) <= 2
  /\ <<"find">> \in Seq(Word) /\ Words(<<"find">>) = {"find"} /\ Len(<<"find">>) <= 2
  /\ <<"count">> \in Seq(Word) /\ Words(<<"count">>) = {"count"} /\ Len(<<"count">>) <= 2
  /\ <<"check">> \in Seq(Word) /\ Words(<<"check">>) = {"check"} /\ Len(<<"check">>) <= 2
  /\ <<"running">> \in Seq(Word) /\ Words(<<"running">>) = {"running"} /\ Len(<<"running">>) <= 2
  /\ <<"find", "count">> \in Seq(Word) /\ Words(<<"find", "count">>) = {"find", "count"} /\ Len(<<"find", "count">>) <= 2
  /\ <<"find", "fetch">> \in Seq(Word) /\ Words(<<"find", "fetch">>) = {"find", "fetch"} /\ Len(<<"find", "fetch">>) <= 2
  /\ <<"find", "check">> \in Seq(Word) /\ Words(<<"find", "check">>) = {"find", "check"} /\ Len(<<"find", "check">>) <= 2
  /\ <<"find", "clear">> \in Seq(Word) /\ Words(<<"find", "clear">>) = {"find", "clear"} /\ Len(<<"find", "clear">>) <= 2
<1>1. {"find", "count", "check", "running", "fetch", "clear"} \subseteq Word
  BY DEF Word
<1> QED BY <1>1, WordsOfLists

LEMMA LegalOperations ==
  ASSUME NEW s \in Services, NEW o \in s \cup {NoOp}
  PROVE  Legal(o)
<1> USE WordsOfReads DEF Operation, Legal, Fits, Placed, RowKinds
<1>0. Legal(NoOp)
  BY DEF NoOp
<1>1. /\ Legal(CreateTask) /\ Legal(UpdateTask) /\ Legal(DeleteTask)
      /\ Legal(BulkUpdate) /\ Legal(AgentTask) /\ Legal(UpdateTaskStatus)
  BY DEF CreateTask, UpdateTask, DeleteTask, BulkUpdate, AgentTask, UpdateTaskStatus, Delete, Update
<1>2. Legal(AddChecklistItem) /\ Legal(ToggleChecklistItem) /\ Legal(DeleteChecklistItem)
  BY DEF AddChecklistItem, ToggleChecklistItem, DeleteChecklistItem, RemoveChild
<1>3. Legal(AddComment) /\ Legal(DeleteComment) /\ Legal(AddDependency) /\ Legal(RemoveDependency)
  BY DEF AddComment, DeleteComment, AddDependency, RemoveDependency, Add, RemoveChild
<1>4. /\ Legal(CreateProject) /\ Legal(UpdateProject) /\ Legal(AddMilestone)
      /\ Legal(CompleteMilestone) /\ Legal(DeleteMilestone)
  BY DEF CreateProject, UpdateProject, AddMilestone, CompleteMilestone, DeleteMilestone, CreateRow, Update,
     RemoveChild
<1>5. Legal(AddProjectMember) /\ Legal(RemoveProjectMember)
  BY DEF AddProjectMember, RemoveProjectMember, RemoveChild
<1>6. Legal(CreateTeam) /\ Legal(UpdateTeam) /\ Legal(DeleteTeam)
  BY DEF CreateTeam, UpdateTeam, DeleteTeam, Delete
<1>7. Legal(CreateLead) /\ Legal(UpdateLead) /\ Legal(DeleteLead) /\ Legal(AddActivity)
  BY DEF CreateLead, UpdateLead, DeleteLead, AddActivity, CreateRow, Update, Delete, Add
<1>8. /\ Legal(CreateClient) /\ Legal(UpdateClient) /\ Legal(AddContact)
      /\ Legal(AddPrimaryContact) /\ Legal(RemoveContact)
  BY DEF CreateClient, UpdateClient, AddContact, AddPrimaryContact, RemoveContact, Add, RemoveChild
<1>9. Legal(StartTimer) /\ Legal(StopTimer) /\ Legal(ManualEntry) /\ Legal(DeleteEntry)
  BY DEF StartTimer, StopTimer, ManualEntry, DeleteEntry, Delete
<1>10. Legal(CheckIn) /\ Legal(CheckOut) /\ Legal(CreateEmployee) /\ Legal(RequestLeave) /\ Legal(DecideLeave)
  BY DEF CheckIn, CheckOut, CreateEmployee, RequestLeave, DecideLeave
<1>11. /\ Legal(CreateExpense) /\ Legal(DecideExpense) /\ Legal(CreateCategory)
       /\ Legal(CreateQuotation) /\ Legal(UpdateQuotation)
  BY DEF CreateExpense, DecideExpense, CreateCategory, CreateQuotation, UpdateQuotation
<1>12. /\ Legal(DeleteQuotation) /\ Legal(ConvertToProject) /\ Legal(Notify)
       /\ Legal(MarkRead) /\ Legal(DeleteNotification)
  BY DEF DeleteQuotation, ConvertToProject, Notify, MarkRead, DeleteNotification, Delete, Add
<1> HIDE DEF Operation, Legal, Fits, Placed, RowKinds
<1>13. CASE o \in Teams \cup Leads \cup Customers \cup Hours \cup People
  BY <1>5, <1>6, <1>7, <1>8, <1>9, <1>10, <1>13 DEF Teams, Leads, Customers, Hours, People, AddTeamMember,
     RemoveTeamMember
<1>14. CASE o \in Tasks \cup Checklist \cup Discussion \cup Projects \cup ProjectMembers
  BY <1>1, <1>2, <1>3, <1>4, <1>5, <1>14 DEF Tasks, Checklist, Discussion, Projects, ProjectMembers
<1>15. CASE o \in Papers
  BY <1>11, <1>12, <1>15 DEF Papers
<1> QED BY <1>0, <1>13, <1>14, <1>15 DEF Services

LEMMA WordsOfTail ==
  ASSUME NEW s \in Seq(Word), s # <<>>
  PROVE  Tail(s) \in Seq(Word) /\ Words(Tail(s)) \subseteq Words(s) /\ Head(s) \in Words(s)
<1>1. Tail(s) \in Seq(Word) /\ Len(Tail(s)) = Len(s) - 1 /\ Len(s) \in Nat /\ Len(s) > 0
  OBVIOUS
<1>2. \A i \in DOMAIN Tail(s) : i + 1 \in DOMAIN s /\ Tail(s)[i] = s[i + 1]
  BY <1>1
<1>3. 1 \in DOMAIN s /\ Head(s) = s[1]
  BY <1>1
<1> QED BY <1>1, <1>2, <1>3 DEF Words

-----------------------------------------------------------------------------
(* The workspace: the invariant *)

\* What a call carries and has read belongs to its operation; the row it names
\* is of the kind the operation is about.
EditorsOK ==
    /\ service \in Services /\ made \in Nat
    /\ doing \in [Editors -> service \cup {NoOp}] /\ todo \in [Editors -> Seq(Word)]
    /\ on \in [Editors -> [id : Nat, up : Nat]] /\ saw \in [Editors -> Nat]
    /\ \A c \in Editors :
        /\ Words(todo[c]) \subseteq Words(doing[c].reads)
        /\ doing[c] = NoOp => saw[c] = 0
        /\ doing[c].write = "tick" => saw[c] \in {0, 1}
        /\ on[c].id <= made
        /\ doing[c].at \in {"row", "child"} => \A r \in workRows : r.id = on[c].id => r.kind = doing[c].kind

\* Every row has an identifier of its own.
RowsOK ==
    /\ workRows \subseteq WorkRow
    /\ \A r \in workRows : r.id \in 1..made
    /\ \A r, s \in workRows : r.id = s.id => r = s

Sibs(up, sort) == {r \in workRows : r.up = up /\ r.kind = sort}

\* A position is lower than the number of siblings, but for the exceptions of
\* SiblingsApart: so the count of siblings is a position nobody has.
PlacesOK ==
    \A up \in Nat, sort \in Placed :
        /\ IsFiniteSet(Sibs(up, sort))
        /\ <<up, sort>> \notin gaps => \A r \in Sibs(up, sort) : ~r.shaky => r.place < Cardinality(Sibs(up, sort))

WorkInv == EditorsOK /\ RowsOK /\ PlacesOK /\ SiblingsApart /\ MarksAddUp

-----------------------------------------------------------------------------
(* The workspace: what a step does to the rows *)

\* The main ones among some contacts are demoted.
Demoted(S) == (workRows \ S) \cup {[r EXCEPT !.main = FALSE] : r \in S}

\* A row takes the place of another: the same for its siblings, or less.
Replaces(r, s) ==
    /\ s \in workRows /\ r \in WorkRow
    /\ r.id = s.id /\ r.up = s.up /\ r.kind = s.kind
    /\ r.place \in {0, s.place}
    /\ r.main => s.main
    /\ ~r.shaky => ~s.shaky /\ r.place = s.place
    /\ r.kind # "item" => (r.closed => r.dated \/ r.told) \/ (r.closed = s.closed /\ r.dated = s.dated /\ r.told = s.told)
    /\ r.kind = "item" /\ ~r.shaky => (s.closed = s.told => r.closed = r.told)

\* A row is new: its call says where it hangs and what the count of its siblings
\* was, which is its position still, or it is shaky.
NewRow(r) ==
    /\ r \in WorkRow /\ r.id = made + 1 /\ r.closed = r.told
    /\ \E c \in Editors : r.up = on[c].id /\ r.place = saw[c]
    /\ ~r.shaky => /\ r.kind \in Placed => r.place = Cardinality(Sibs(r.up, r.kind))
                   /\ r.main => \A s \in Sibs(r.up, r.kind) : ~s.main

WorkRowsStep ==
    \/ UNCHANGED <<workRows, made, gaps>>
    \/ \E S \in SUBSET workRows :
            (\A r \in S : r.kind = "contact") /\ workRows' = Demoted(S) /\ UNCHANGED <<made, gaps>>
    \/ \E r : NewRow(r) /\ workRows' = workRows \cup {r} /\ made' = made + 1 /\ UNCHANGED gaps
    \/ \E r, s : Replaces(r, s) /\ workRows' = (workRows \ {s}) \cup {r} /\ UNCHANGED <<made, gaps>>
    \/ /\ workRows' \subseteq workRows /\ UNCHANGED made
       /\ gaps' = gaps \cup {<<r.up, r.kind>> : r \in workRows \ workRows'}

LEMMA ReadEffect ==
  ASSUME WorkInv, NEW c \in Editors, ReadRow(c)
  PROVE  WorkRowsStep
<1>1. CASE UNCHANGED workRows
  BY <1>1 DEF ReadRow, WorkRowsStep
<1>2. CASE Head(todo[c]) = "clear" /\ workRows' = Demoted(Siblings(c))
  <2>1. "clear" \in Words(doing[c].reads)
    <3>1. todo[c] \in Seq(Word) /\ todo[c] # <<>> /\ Words(todo[c]) \subseteq Words(doing[c].reads)
      BY DEF ReadRow, WorkInv, EditorsOK
    <3> QED BY <1>2, <3>1, WordsOfTail
  <2>2. Legal(doing[c])
    BY LegalOperations DEF WorkInv, EditorsOK
  <2>3. \A r \in Siblings(c) : r.kind = "contact"
    BY <2>1, <2>2 DEF Legal, Fits, Siblings
  <2>4. Siblings(c) \subseteq workRows
    BY DEF Siblings
  <2> QED BY <1>2, <2>3, <2>4 DEF ReadRow, WorkRowsStep
<1> QED BY <1>1, <1>2 DEF ReadRow, Demoted

LEMMA MakeEffect ==
  ASSUME WorkInv, NEW c \in Editors, Make(c)
  PROVE  WorkRowsStep
<1> DEFINE alone == doing[c].write \in {"main", "unique", "upsert"}
           taken == alone /\ \E r \in Siblings(c) : r.main
           had == {doing[c].reads[i] : i \in DOMAIN doing[c].reads}
           row(closed) == [Root EXCEPT !.id = made + 1, !.up = on[c].id, !.kind = doing[c].kind,
                                  !.place = saw[c], !.main = alone, !.closed = closed, !.told = closed,
                                  !.shaky = \/ taken /\ had \cap {"check", "clear"} # {}
                                            \/ "count" \in had /\ saw[c] # Cardinality(Siblings(c))]
<1>1. CASE taken /\ doing[c].write # "main"
  BY <1>1 DEF Make, WorkRowsStep
<1>2. CASE ~(taken /\ doing[c].write # "main")
  <2>1. PICK closed \in BOOLEAN : workRows' = workRows \cup {row(closed)}
    BY <1>2 DEF Make
  <2>2. made' = made + 1 /\ UNCHANGED gaps /\ doing[c].write \in {"make", "add", "main", "unique", "upsert"}
    BY <1>2 DEF Make, Writes
  <2>3. Legal(doing[c]) /\ doing[c].kind \in RowKinds
    BY LegalOperations DEF WorkInv, EditorsOK, Legal
  <2>4. made + 1 \in Nat /\ on[c].id \in Nat /\ saw[c] \in Nat
    BY DEF WorkInv, EditorsOK
  <2>5. Siblings(c) = Sibs(on[c].id, doing[c].kind)
    BY DEF Siblings, Sibs
  <2>6. had = Words(doing[c].reads)
    BY DEF Words
  <2> DEFINE new == row(closed)
  <2>7. /\ new.id = made + 1 /\ new.up = on[c].id /\ new.kind = doing[c].kind /\ new.place = saw[c]
        /\ new.main = alone /\ new.closed = closed /\ new.told = closed /\ new.dated = FALSE
        /\ new.shaky = (\/ taken /\ had \cap {"check", "clear"} # {}
                        \/ "count" \in had /\ saw[c] # Cardinality(Siblings(c)))
    BY DEF Root
  <2>8. new \in WorkRow
    <3> DEFINE worn == \/ taken /\ had \cap {"check", "clear"} # {}
                       \/ "count" \in had /\ saw[c] # Cardinality(Siblings(c))
    <3>1. alone \in BOOLEAN /\ worn \in BOOLEAN
      OBVIOUS
    <3>2. ASSUME NEW m \in BOOLEAN, NEW sh \in BOOLEAN
          PROVE  [Root EXCEPT !.id = made + 1, !.up = on[c].id, !.kind = doing[c].kind,
                              !.place = saw[c], !.main = m, !.closed = closed, !.told = closed,
                              !.shaky = sh] \in WorkRow
      BY <2>3, <2>4 DEF Root, WorkRow
    <3> QED BY <3>1, <3>2, Zenon
  <2> HIDE DEF new
  <2>9. ASSUME ~new.shaky, new.kind \in Placed PROVE new.place = Cardinality(Sibs(new.up, new.kind))
    <3>1. "count" \in had
      BY <2>2, <2>3, <2>6, <2>7, <2>9 DEF Legal, Fits
    <3> QED BY <2>5, <2>7, <2>9, <3>1
  <2>10. ASSUME ~new.shaky, new.main PROVE \A s \in Sibs(new.up, new.kind) : ~s.main
    <3>1. ~taken
      BY <1>2, <2>3, <2>6, <2>7, <2>10 DEF Legal, Fits
    <3> QED BY <2>5, <2>7, <2>10, <3>1
  <2>11. NewRow(new)
    BY <2>7, <2>8, <2>9, <2>10 DEF NewRow
  <2>12. workRows' = workRows \cup {new}
    BY <2>1 DEF new
  <2> QED BY <2>2, <2>11, <2>12 DEF WorkRowsStep
<1> QED BY <1>1, <1>2
\* The row a call names is of the kind of its operation.
LEMMA NamedRow ==
  ASSUME WorkInv, NEW c \in Editors, Exists(on[c].id)
  PROVE  /\ RowOf(c) \in workRows /\ RowOf(c).id = on[c].id
         /\ doing[c].at \in {"row", "child"} => RowOf(c).kind = doing[c].kind
<1>1. RowOf(c) \in workRows /\ RowOf(c).id = on[c].id
  BY DEF Exists, RowOf
<1> QED BY <1>1 DEF WorkInv, EditorsOK

LEMMA ChangeEffect ==
  ASSUME WorkInv, NEW c \in Editors, ChangeRow(c)
  PROVE  WorkRowsStep
<1>1. CASE UNCHANGED workRows
  BY <1>1 DEF ChangeRow, WorkRowsStep
<1>2. CASE Exists(on[c].id)
  <2>1. PICK r \in Updates(RowOf(c), doing[c].write) : workRows' = (workRows \ {RowOf(c)}) \cup {r}
    BY <1>2 DEF ChangeRow
  <2>2. Legal(doing[c])
    BY LegalOperations DEF WorkInv, EditorsOK
  <2> DEFINE s == RowOf(c)
  <2>3. s \in workRows /\ s \in WorkRow /\ s.kind # "item"
    BY <1>2, <2>2, NamedRow DEF WorkInv, RowsOK, ChangeRow, Writes, Legal, Fits
  <2> HIDE DEF s
  <2>4. r \in {s, Closed(s), [s EXCEPT !.closed = FALSE, !.told = FALSE], [s EXCEPT !.place = 0, !.shaky = TRUE],
               [s EXCEPT !.main = FALSE]}
    BY <2>1 DEF Updates, s
  <2>5. Replaces(r, s)
    <3>1. r \in WorkRow /\ r.id = s.id /\ r.up = s.up /\ r.kind = s.kind
      <4>1. CASE r = s
        BY <2>3, <4>1
      <4>2. CASE r = Closed(s)
        BY <2>3, <4>2 DEF Closed, WorkRow
      <4>3. CASE r = [s EXCEPT !.closed = FALSE, !.told = FALSE]
        BY <2>3, <4>3 DEF WorkRow
      <4>4. CASE r = [s EXCEPT !.place = 0, !.shaky = TRUE]
        BY <2>3, <4>4 DEF WorkRow
      <4>5. CASE r = [s EXCEPT !.main = FALSE]
        BY <2>3, <4>5 DEF WorkRow
      <4> QED BY <2>4, <4>1, <4>2, <4>3, <4>4, <4>5
    <3>2. r.place \in {0, s.place} /\ (r.main => s.main)
      BY <2>3, <2>4 DEF Closed, WorkRow
    <3>3. ~r.shaky => ~s.shaky /\ r.place = s.place
      BY <2>3, <2>4 DEF Closed, WorkRow
    <3>4. (r.closed => r.dated \/ r.told) \/ (r.closed = s.closed /\ r.dated = s.dated /\ r.told = s.told)
      BY <2>3, <2>4 DEF Closed, WorkRow
    <3> QED BY <2>3, <3>1, <3>2, <3>3, <3>4 DEF Replaces
  <2>6. workRows' = (workRows \ {s}) \cup {r}
    BY <2>1 DEF s
  <2> QED BY <2>5, <2>6 DEF ChangeRow, WorkRowsStep
<1> QED BY <1>1, <1>2 DEF ChangeRow

LEMMA TickEffect ==
  ASSUME WorkInv, NEW c \in Editors, Tick(c)
  PROVE  WorkRowsStep
<1>1. CASE UNCHANGED workRows
  BY <1>1 DEF Tick, WorkRowsStep
<1>2. CASE Exists(on[c].id)
  <2> DEFINE s == RowOf(c)
             r == [s EXCEPT !.closed = (saw[c] = 0), !.told = ~@, !.shaky = @ \/ (s.closed # (saw[c] = 1))]
  <2>1. Legal(doing[c])
    BY LegalOperations DEF WorkInv, EditorsOK
  <2>2. s \in workRows /\ s \in WorkRow /\ s.kind = "item"
    BY <1>2, <2>1, NamedRow DEF WorkInv, RowsOK, Tick, Writes, Legal, Fits
  <2>3. saw[c] \in {0, 1}
    BY DEF WorkInv, EditorsOK, Tick, Writes
  <2>4. workRows' = (workRows \ {s}) \cup {r}
    BY <1>2 DEF Tick
  <2> HIDE DEF s
  <2>5. /\ r.id = s.id /\ r.up = s.up /\ r.kind = s.kind /\ r.place = s.place /\ r.main = s.main
        /\ r.closed = (saw[c] = 0) /\ r.told = ~s.told /\ r.shaky = (s.shaky \/ (s.closed # (saw[c] = 1)))
    BY <2>2 DEF WorkRow
  <2>6. r \in WorkRow
    <3>1. (saw[c] = 0) \in BOOLEAN /\ (~s.told) \in BOOLEAN /\ (s.shaky \/ (s.closed # (saw[c] = 1))) \in BOOLEAN
      OBVIOUS
    <3> QED BY <2>2, <3>1 DEF WorkRow
  <2>7. s.closed \in BOOLEAN /\ s.told \in BOOLEAN /\ s.shaky \in BOOLEAN
    BY <2>2 DEF WorkRow
  <2> HIDE DEF r
  <2>8. Replaces(r, s)
    <3>1. ~r.shaky => (s.closed = s.told => r.closed = r.told)
      <4>1. CASE saw[c] = 0
        BY <2>5, <2>7, <4>1
      <4>2. CASE saw[c] = 1
        <5>0. saw[c] # 0
          BY <4>2
        <5>1. ~r.closed
          BY <2>5, <5>0
        <5>2. ~r.shaky => s.closed
          BY <2>5, <2>7, <4>2
        <5>3. r.told <=> ~s.told
          BY <2>5, <2>7
        <5>4. r.closed \in BOOLEAN /\ r.told \in BOOLEAN
          BY <2>6 DEF WorkRow
        <5> QED BY <2>7, <5>1, <5>2, <5>3, <5>4
      <4> QED BY <2>3, <4>1, <4>2
    <3> QED BY <2>2, <2>5, <2>6, <3>1 DEF Replaces
  <2> QED BY <2>4, <2>8 DEF Tick, WorkRowsStep
<1> QED BY <1>1, <1>2 DEF Tick

LEMMA WorkEffect ==
  ASSUME WorkInv, [WorkNext]_workVars
  PROVE  WorkRowsStep
<1>1. ASSUME NEW c \in Editors, NEW o, Call(c, o) PROVE WorkRowsStep
  BY <1>1 DEF Call, WorkRowsStep
<1>2. ASSUME NEW c \in Editors, Drop(c) PROVE WorkRowsStep
  BY <1>2 DEF Drop, WorkRowsStep
<1>3. CASE UNCHANGED workVars
  BY <1>3 DEF workVars, WorkRowsStep
<1> QED BY <1>1, <1>2, <1>3, ReadEffect, MakeEffect, ChangeEffect, TickEffect DEF WorkNext
-----------------------------------------------------------------------------
(* The workspace: the invariant is kept *)

LEMMA RowsOKStep ==
  ASSUME RowsOK, made \in Nat, WorkRowsStep
  PROVE  RowsOK'
<1>1. CASE UNCHANGED <<workRows, made, gaps>>
  BY <1>1 DEF RowsOK
<1>2. ASSUME NEW S \in SUBSET workRows, workRows' = Demoted(S), UNCHANGED made PROVE RowsOK'
  <2>1. \A r \in S : [r EXCEPT !.main = FALSE] \in WorkRow /\ [r EXCEPT !.main = FALSE].id = r.id
    BY ZenonT(30) DEF RowsOK, WorkRow
  <2>2. \A r \in workRows' : \E q \in workRows : r.id = q.id /\ ((r = q /\ q \notin S) \/ (r = [q EXCEPT !.main = FALSE] /\ q \in S))
    BY <1>2, <2>1 DEF Demoted
  <2>3. workRows' \subseteq WorkRow /\ \A r \in workRows' : r.id \in 1..made'
    BY <1>2, <2>1, <2>2 DEF RowsOK
  <2>4. \A r, s \in workRows' : r.id = s.id => r = s
    BY <2>2 DEF RowsOK
  <2> QED BY <2>3, <2>4 DEF RowsOK
<1>3. ASSUME NEW r, NewRow(r), workRows' = workRows \cup {r}, made' = made + 1 PROVE RowsOK'
  BY <1>3 DEF RowsOK, NewRow
<1>4. ASSUME NEW r, NEW s, Replaces(r, s), workRows' = (workRows \ {s}) \cup {r}, UNCHANGED made PROVE RowsOK'
  BY <1>4 DEF RowsOK, Replaces
<1>5. ASSUME workRows' \subseteq workRows, UNCHANGED made PROVE RowsOK'
  BY <1>5 DEF RowsOK
<1> QED BY <1>1, <1>2, <1>3, <1>4, <1>5 DEF WorkRowsStep

LEMMA PlacesOKStep ==
  ASSUME RowsOK, PlacesOK, made \in Nat, WorkRowsStep
  PROVE  PlacesOK'
<1> SUFFICES ASSUME NEW up \in Nat, NEW sort \in Placed
    PROVE  /\ IsFiniteSet(Sibs(up, sort)')
           /\ <<up, sort>> \notin gaps' =>
                \A r \in Sibs(up, sort)' : ~r.shaky => r.place < Cardinality(Sibs(up, sort)')
  BY DEF PlacesOK, Sibs
<1> DEFINE Old == Sibs(up, sort)
           New == Sibs(up, sort)'
<1>p. /\ IsFiniteSet(Old)
      /\ <<up, sort>> \notin gaps => \A r \in Old : ~r.shaky => r.place < Cardinality(Old)
      /\ \A r \in Old : r.place \in Nat
  BY DEF PlacesOK, RowsOK, Sibs, WorkRow
<1>c. Cardinality(Old) \in Nat
  BY <1>p, FS_CardinalityType
<1>1. CASE UNCHANGED <<workRows, made, gaps>>
  BY <1>p, <1>1 DEF Sibs
<1>2. ASSUME NEW S \in SUBSET workRows, \A r \in S : r.kind = "contact", workRows' = Demoted(S), UNCHANGED gaps
      PROVE  New = Old
  <2>1. \A r \in S : [r EXCEPT !.main = FALSE].kind = "contact"
    BY <1>2 DEF RowsOK, WorkRow
  <2> QED BY <1>2, <2>1 DEF Sibs, Demoted, Placed
<1>3. ASSUME NEW r, NewRow(r), workRows' = workRows \cup {r}, UNCHANGED gaps
      PROVE  /\ IsFiniteSet(New)
             /\ <<up, sort>> \notin gaps' => \A x \in New : ~x.shaky => x.place < Cardinality(New)
  <2>1. CASE r.up = up /\ r.kind = sort
    <3>1. New = Old \cup {r}
      BY <1>3, <2>1 DEF Sibs
    <3>2. r \notin Old
      BY <1>3 DEF Sibs, NewRow, RowsOK
    <3>3. IsFiniteSet(New) /\ Cardinality(New) = Cardinality(Old) + 1
      BY <1>p, <3>1, <3>2, FS_AddElement
    <3>4. ~r.shaky => r.place = Cardinality(Old)
      BY <1>3, <2>1 DEF NewRow
    <3> HIDE DEF Old, New
    <3>5. ASSUME <<up, sort>> \notin gaps', NEW x \in New, ~x.shaky PROVE x.place < Cardinality(New)
      <4>1. CASE x = r
        BY <1>c, <3>3, <3>4, <3>5, <4>1
      <4>2. CASE x \in Old
        BY <1>p, <1>c, <1>3, <3>3, <3>5, <4>2
      <4> QED BY <3>1, <3>5, <4>1, <4>2
    <3> QED BY <3>3, <3>5
  <2>2. CASE ~(r.up = up /\ r.kind = sort)
    <3>1. New = Old
      BY <1>3, <2>2 DEF Sibs
    <3> QED BY <1>p, <1>3, <3>1
  <2> QED BY <2>1, <2>2
<1>4. ASSUME NEW r, NEW s, Replaces(r, s), workRows' = (workRows \ {s}) \cup {r}, UNCHANGED gaps
      PROVE  /\ IsFiniteSet(New)
             /\ <<up, sort>> \notin gaps' => \A x \in New : ~x.shaky => x.place < Cardinality(New)
  <2>1. CASE s \in Old
    <3>1. New = (Old \ {s}) \cup {r} /\ r \notin Old \ {s}
      BY <1>4, <2>1 DEF Sibs, Replaces, RowsOK
    <3>2. IsFiniteSet(Old \ {s}) /\ Cardinality(Old \ {s}) = Cardinality(Old) - 1
      BY <1>p, <2>1, FS_RemoveElement
    <3>3. IsFiniteSet(New) /\ Cardinality(New) = Cardinality(Old)
      <4> HIDE DEF Old, New
      <4>1. IsFiniteSet((Old \ {s}) \cup {r}) /\ Cardinality((Old \ {s}) \cup {r}) = Cardinality(Old \ {s}) + 1
        BY <3>1, <3>2, FS_AddElement
      <4> QED BY <1>c, <3>1, <3>2, <4>1
    <3>4. ~r.shaky => ~s.shaky /\ r.place = s.place
      BY <1>4 DEF Replaces
    <3> HIDE DEF Old, New
    <3> QED BY <1>p, <1>4, <2>1, <3>1, <3>3, <3>4
  <2>2. CASE s \notin Old
    <3>1. New = Old
      BY <1>4, <2>2 DEF Sibs, Replaces
    <3> QED BY <1>p, <1>4, <3>1
  <2> QED BY <2>1, <2>2
<1>5. ASSUME workRows' \subseteq workRows, gaps' = gaps \cup {<<r.up, r.kind>> : r \in workRows \ workRows'}
      PROVE  /\ IsFiniteSet(New)
             /\ <<up, sort>> \notin gaps' => New = Old
  <2>1. New \subseteq Old
    BY <1>5 DEF Sibs
  <2>2. IsFiniteSet(New)
    BY <1>p, <2>1, FS_Subset
  <2>3. <<up, sort>> \notin gaps' => New = Old
    BY <1>5 DEF Sibs
  <2> QED BY <2>2, <2>3
<1>6. ASSUME workRows' \subseteq workRows, gaps' = gaps \cup {<<r.up, r.kind>> : r \in workRows \ workRows'}
      PROVE  /\ IsFiniteSet(New)
             /\ <<up, sort>> \notin gaps' => \A x \in New : ~x.shaky => x.place < Cardinality(New)
  <2> HIDE DEF Old, New
  <2> QED BY <1>5, <1>6, <1>p
<1>7. ASSUME New = Old, UNCHANGED gaps
      PROVE  /\ IsFiniteSet(New)
             /\ <<up, sort>> \notin gaps' => \A x \in New : ~x.shaky => x.place < Cardinality(New)
  <2> HIDE DEF Old, New
  <2> QED BY <1>7, <1>p
<1>8. CASE UNCHANGED <<workRows, made, gaps>>
  <2>1. New = Old
    BY <1>8 DEF Sibs
  <2> QED BY <1>7, <1>8, <2>1
<1> QED BY <1>2, <1>3, <1>4, <1>6, <1>7, <1>8 DEF WorkRowsStep

LEMMA SiblingsStep ==
  ASSUME RowsOK, PlacesOK, SiblingsApart, WorkRowsStep
  PROVE  SiblingsApart'
<1> DEFINE Twins(r, s) == r # s /\ r.up = s.up /\ r.kind = s.kind /\ ~r.shaky /\ ~s.shaky
           Apart(r, s, holes) == /\ ~(r.main /\ s.main)
                                 /\ r.kind \in Placed /\ <<r.up, r.kind>> \notin holes => r.place # s.place
<1>a. SiblingsApart <=> \A r, s \in workRows : Twins(r, s) => Apart(r, s, gaps)
  BY DEF SiblingsApart, Placed
<1>b. SiblingsApart' <=> \A r, s \in workRows' : Twins(r, s) => Apart(r, s, gaps')
  BY DEF SiblingsApart, Placed
<1>1. CASE UNCHANGED <<workRows, made, gaps>>
  BY <1>a, <1>b, <1>1
<1>2. ASSUME NEW S \in SUBSET workRows, \A r \in S : r.kind = "contact", workRows' = Demoted(S), UNCHANGED gaps
      PROVE  SiblingsApart'
  <2>1. \A r \in workRows' : \E q \in workRows :
            \/ r = q
            \/ /\ r.id = q.id /\ r.up = q.up /\ r.kind = q.kind /\ r.shaky = q.shaky /\ ~r.main
               /\ r.kind = "contact"
    BY <1>2 DEF Demoted, RowsOK, WorkRow
  <2>2. \A r \in workRows', s \in workRows' : Twins(r, s) => Apart(r, s, gaps')
    BY <1>a, <1>2, <2>1 DEF Placed
  <2> QED BY <1>b, <2>2
<1>3. ASSUME NEW n, NewRow(n), workRows' = workRows \cup {n}, UNCHANGED gaps PROVE SiblingsApart'
  <2>1. ASSUME NEW s \in workRows, Twins(n, s) PROVE Apart(n, s, gaps) /\ Apart(s, n, gaps)
    <3>1. s \in Sibs(n.up, n.kind) /\ n.up \in Nat /\ s.place \in Nat /\ n.place \in Nat
      BY <1>3, <2>1 DEF Sibs, NewRow, WorkRow, RowsOK
    <3>2. ~(n.main /\ s.main)
      BY <1>3, <2>1, <3>1 DEF NewRow
    <3>3. ASSUME n.kind \in Placed, <<n.up, n.kind>> \notin gaps PROVE n.place # s.place
      <4>1. n.place = Cardinality(Sibs(n.up, n.kind))
        BY <1>3, <2>1, <3>3 DEF NewRow
      <4>2. s.place < Cardinality(Sibs(n.up, n.kind))
        BY <2>1, <3>1, <3>3 DEF PlacesOK
      <4> QED BY <3>1, <4>1, <4>2
    <3> QED BY <2>1, <3>2, <3>3
  <2>2. \A s \in workRows : Twins(s, n) => Twins(n, s)
    OBVIOUS
  <2> HIDE DEF Apart
  <2>3. ASSUME NEW r \in workRows', NEW s \in workRows', Twins(r, s) PROVE Apart(r, s, gaps)
    <3>1. CASE r \in workRows /\ s \in workRows
      BY <1>a, <2>3, <3>1
    <3>2. CASE r = n /\ s \in workRows
      BY <2>1, <2>3, <3>2
    <3>3. CASE s = n /\ r \in workRows
      BY <2>1, <2>2, <2>3, <3>3
    <3>4. CASE r = n /\ s = n
      BY <2>3, <3>4
    <3> QED BY <1>3, <3>1, <3>2, <3>3, <3>4
  <2> QED BY <1>b, <1>3, <2>3
<1>4. ASSUME NEW n, NEW o, Replaces(n, o), workRows' = (workRows \ {o}) \cup {n}, UNCHANGED gaps PROVE SiblingsApart'
  <2>1. ASSUME NEW s \in workRows \ {o}, Twins(n, s) PROVE Apart(n, s, gaps) /\ Apart(s, n, gaps)
    BY <1>a, <1>4, <2>1 DEF Replaces
  <2>2. \A s \in workRows : Twins(s, n) => Twins(n, s)
    OBVIOUS
  <2> HIDE DEF Apart
  <2>3. ASSUME NEW r \in workRows', NEW s \in workRows', Twins(r, s) PROVE Apart(r, s, gaps)
    <3>1. CASE r \in workRows \ {o} /\ s \in workRows \ {o}
      BY <1>a, <2>3, <3>1
    <3>2. CASE r = n /\ s \in workRows \ {o}
      BY <2>1, <2>3, <3>2
    <3>3. CASE s = n /\ r \in workRows \ {o}
      BY <2>1, <2>2, <2>3, <3>3
    <3>4. CASE r = n /\ s = n
      BY <2>3, <3>4
    <3> QED BY <1>4, <2>3, <3>1, <3>2, <3>3, <3>4
  <2> QED BY <1>b, <1>4, <2>3
<1>5. ASSUME workRows' \subseteq workRows, gaps' = gaps \cup {<<r.up, r.kind>> : r \in workRows \ workRows'}
      PROVE  SiblingsApart'
  BY <1>a, <1>b, <1>5
<1> QED BY <1>1, <1>2, <1>3, <1>4, <1>5 DEF WorkRowsStep

LEMMA MarksStep ==
  ASSUME RowsOK, MarksAddUp, WorkRowsStep
  PROVE  MarksAddUp'
<1>1. CASE UNCHANGED <<workRows, made, gaps>>
  BY <1>1 DEF MarksAddUp
<1>2. ASSUME NEW S \in SUBSET workRows, \A r \in S : r.kind = "contact", workRows' = Demoted(S) PROVE MarksAddUp'
  <2>1. \A r \in workRows' : \E q \in workRows :
            \/ r = q
            \/ r.kind = q.kind /\ r.closed = q.closed /\ r.dated = q.dated /\ r.told = q.told /\ r.kind = "contact"
    BY <1>2 DEF Demoted, RowsOK, WorkRow
  <2> QED BY <2>1 DEF MarksAddUp
<1>3. ASSUME NEW r, NewRow(r), workRows' = workRows \cup {r} PROVE MarksAddUp'
  BY <1>3 DEF MarksAddUp, NewRow
<1>4. ASSUME NEW r, NEW s, Replaces(r, s), workRows' = (workRows \ {s}) \cup {r} PROVE MarksAddUp'
  BY <1>4 DEF MarksAddUp, Replaces
<1>5. ASSUME workRows' \subseteq workRows PROVE MarksAddUp'
  BY <1>5 DEF MarksAddUp
<1> QED BY <1>1, <1>2, <1>3, <1>4, <1>5 DEF WorkRowsStep
\* What becomes of call c.
LEMMA EditorsOKStep ==
  ASSUME WorkInv, [WorkNext]_workVars
  PROVE  EditorsOK'
<1> DEFINE Goes(c) == /\ Words(todo[c]) \subseteq Words(doing[c].reads)
                      /\ doing[c] = NoOp => saw[c] = 0
                      /\ doing[c].write = "tick" => saw[c] \in {0, 1}
                      /\ on[c].id <= made
                      /\ doing[c].at \in {"row", "child"} =>
                            \A r \in workRows : r.id = on[c].id => r.kind = doing[c].kind
           Types == /\ service \in Services /\ made \in Nat
                    /\ doing \in [Editors -> service \cup {NoOp}] /\ todo \in [Editors -> Seq(Word)]
                    /\ on \in [Editors -> [id : Nat, up : Nat]] /\ saw \in [Editors -> Nat]
<1>t. Types /\ \A c \in Editors : Goes(c)
  BY DEF WorkInv, EditorsOK
<1>n. /\ NoOp.write = "none" /\ NoOp.at = "none" /\ NoOp.reads = <<>>
      /\ NameOf(Root) = [id |-> 0, up |-> 0] /\ Words(<<>>) = {}
  BY WordsOfLists DEF NoOp, Operation, NameOf, Root
\* Rows keep their kind, and new ones have an identifier no call names.
<1>k. /\ made' \in Nat /\ made <= made'
      /\ \A r \in workRows' : r.id <= made => \E q \in workRows : q.id = r.id /\ q.kind = r.kind
  <2>r. WorkRowsStep
    BY WorkEffect
  <2>1. ASSUME UNCHANGED <<workRows, made, gaps>>
        PROVE  \A r \in workRows' : \E q \in workRows : q.id = r.id /\ q.kind = r.kind
    BY <2>1
  <2>2. ASSUME NEW S \in SUBSET workRows, workRows' = Demoted(S), UNCHANGED made
        PROVE  \A r \in workRows' : \E q \in workRows : q.id = r.id /\ q.kind = r.kind
    <3>1. \A r \in S : [r EXCEPT !.main = FALSE].id = r.id /\ [r EXCEPT !.main = FALSE].kind = r.kind
      BY DEF WorkInv, RowsOK, WorkRow
    <3> SUFFICES ASSUME NEW x \in workRows' PROVE \E q \in workRows : q.id = x.id /\ q.kind = x.kind
      OBVIOUS
    <3>2. x \in workRows \/ \E r \in S : x = [r EXCEPT !.main = FALSE]
      BY <2>2 DEF Demoted
    <3> QED BY <2>2, <3>1, <3>2
  <2>3. ASSUME NEW r, NewRow(r), workRows' = workRows \cup {r}, made' = made + 1
        PROVE  /\ made' \in Nat /\ made <= made'
               /\ \A x \in workRows' : x.id <= made => x \in workRows
    BY <1>t, <2>3 DEF NewRow
  <2>4. ASSUME NEW r, NEW s, Replaces(r, s), workRows' = (workRows \ {s}) \cup {r}, UNCHANGED made
        PROVE  \A x \in workRows' : \E q \in workRows : q.id = x.id /\ q.kind = x.kind
    BY <2>4 DEF Replaces
  <2>5. ASSUME workRows' \subseteq workRows, UNCHANGED made
        PROVE  \A x \in workRows' : x \in workRows
    BY <2>5
  <2>6. \/ /\ UNCHANGED made
           /\ \A r \in workRows' : \E q \in workRows : q.id = r.id /\ q.kind = r.kind
        \/ /\ made' \in Nat /\ made <= made'
           /\ \A r \in workRows' : r.id <= made => r \in workRows
    BY <2>r, <2>1, <2>2, <2>3, <2>4, <2>5 DEF WorkRowsStep
  <2> QED BY <1>t, <2>6
\* A call that does not move keeps all this.
<1>o. ASSUME NEW c \in Editors, doing'[c] = doing[c], todo'[c] = todo[c], on'[c] = on[c], saw'[c] = saw[c]
      PROVE  Goes(c)'
  BY <1>t, <1>k, <1>o
<1>1. ASSUME NEW c \in Editors, NEW o \in service, Call(c, o) PROVE EditorsOK'
  <2>1. PICK r \in Targets(o) : on' = [on EXCEPT ![c] = NameOf(r)]
    BY <1>1 DEF Call
  <2>2. /\ doing' = [doing EXCEPT ![c] = o] /\ todo' = [todo EXCEPT ![c] = o.reads]
        /\ UNCHANGED <<service, workRows, made, saw>> /\ doing[c] = NoOp
    BY <1>1 DEF Call
  <2>3. Legal(o)
    BY <1>t, LegalOperations
  <2>4. \/ o.at = "none" /\ r = Root
        \/ o.at = "parent" /\ r \in workRows
        \/ r \in workRows /\ r.kind = o.kind
    BY <2>1 DEF Targets
  <2>5. /\ NameOf(r) \in [id : Nat, up : Nat] /\ NameOf(r).id = r.id /\ r.id <= made /\ r.id \in Nat
    <3>1. CASE r = Root
      BY <1>t, <3>1 DEF NameOf, Root
    <3>2. CASE r \in workRows
      BY <1>t, <3>2 DEF NameOf, WorkInv, RowsOK, WorkRow
    <3> QED BY <2>4, <3>1, <3>2
  <2>6. Types'
    BY <1>t, <2>1, <2>2, <2>3, <2>5 DEF Legal
  <2>7. saw[c] = 0
    BY <1>t, <2>2
  <2>8. Goes(c)'
    <3>1. doing'[c] = o /\ todo'[c] = o.reads /\ on'[c] = NameOf(r) /\ saw'[c] = 0
      BY <1>t, <2>1, <2>2, <2>7
    <3>2. o.at \in {"row", "child"} => \A q \in workRows : q.id = r.id => q.kind = o.kind
      BY <2>4 DEF WorkInv, RowsOK
    <3> QED BY <2>2, <2>5, <3>1, <3>2
  <2>9. \A x \in Editors \ {c} : doing'[x] = doing[x] /\ todo'[x] = todo[x] /\ on'[x] = on[x] /\ saw'[x] = saw[x]
    BY <1>t, <2>1, <2>2
  <2> HIDE DEF Goes, Types
  <2>10. \A x \in Editors : Goes(x)'
    BY <1>o, <2>8, <2>9
  <2> QED BY <2>6, <2>10 DEF Goes, Types, EditorsOK
<1>2. ASSUME NEW c \in Editors, Answered(c), UNCHANGED service PROVE EditorsOK'
  <2>1. Types'
    <3>1. NameOf(Root) \in [id : Nat, up : Nat] /\ <<>> \in Seq(Word)
      BY <1>n
    <3> QED BY <1>t, <1>k, <1>2, <3>1 DEF Answered
  <2>2. Goes(c)'
    <3>1. doing'[c] = NoOp /\ todo'[c] = <<>> /\ on'[c] = NameOf(Root) /\ saw'[c] = 0
      BY <1>t, <1>2 DEF Answered
    <3> QED BY <1>n, <1>k, <3>1
  <2>3. \A x \in Editors \ {c} : doing'[x] = doing[x] /\ todo'[x] = todo[x] /\ on'[x] = on[x] /\ saw'[x] = saw[x]
    BY <1>t, <1>2 DEF Answered
  <2> HIDE DEF Goes, Types
  <2>4. \A x \in Editors : Goes(x)'
    BY <1>o, <2>2, <2>3
  <2> QED BY <2>1, <2>4 DEF Goes, Types, EditorsOK
<1>3. ASSUME NEW c \in Editors, ReadRow(c), ~Answered(c) PROVE EditorsOK'
  <2> DEFINE value == CASE Head(todo[c]) = "count" -> Cardinality(Siblings(c))
                        [] Head(todo[c]) = "fetch" -> IF RowOf(c).closed THEN 1 ELSE 0
                        [] OTHER -> saw[c]
  <2>1. /\ todo[c] # <<>> /\ todo' = [todo EXCEPT ![c] = Tail(@)] /\ saw' = [saw EXCEPT ![c] = value]
        /\ UNCHANGED <<doing, on, service, made>>
    BY <1>t, <1>3 DEF ReadRow
  <2>2. Tail(todo[c]) \in Seq(Word) /\ Words(Tail(todo[c])) \subseteq Words(todo[c]) /\ Head(todo[c]) \in Words(todo[c])
    BY <1>t, <2>1, WordsOfTail
  <2>3. Legal(doing[c]) /\ Words(todo[c]) \subseteq Words(doing[c].reads)
    BY <1>t, LegalOperations
  <2>4. value \in Nat /\ (doing[c].write = "tick" => value \in {0, 1})
    <3>1. CASE Head(todo[c]) = "count"
      <4>1. doing[c].kind \in Placed /\ doing[c].write # "tick"
        BY <2>2, <2>3, <3>1 DEF Legal, Fits
      <4>2. Siblings(c) = Sibs(on[c].id, doing[c].kind) /\ on[c].id \in Nat
        BY <1>t DEF Siblings, Sibs
      <4>3. Cardinality(Siblings(c)) \in Nat
        BY <4>1, <4>2, FS_CardinalityType DEF WorkInv, PlacesOK
      <4> QED BY <3>1, <4>1, <4>3
    <3>2. CASE Head(todo[c]) # "count"
      BY <1>t, <3>2
    <3> QED BY <3>1, <3>2
  <2> HIDE DEF value
  <2>5. Types'
    BY <1>t, <2>1, <2>2, <2>4
  <2>6. Goes(c)'
    <3>1. doing'[c] = doing[c] /\ todo'[c] = Tail(todo[c]) /\ on'[c] = on[c] /\ saw'[c] = value
      BY <1>t, <2>1
    <3>2. doing[c] # NoOp
      BY <1>n, <2>2, <2>3
    <3> QED BY <1>t, <1>k, <2>2, <2>4, <3>1, <3>2
  <2>7. \A x \in Editors \ {c} : doing'[x] = doing[x] /\ todo'[x] = todo[x] /\ on'[x] = on[x] /\ saw'[x] = saw[x]
    BY <1>t, <2>1
  <2> HIDE DEF Goes, Types
  <2>8. \A x \in Editors : Goes(x)'
    BY <1>o, <2>6, <2>7
  <2> QED BY <2>5, <2>8 DEF Goes, Types, EditorsOK
<1>4. CASE UNCHANGED workVars
  BY <1>4 DEF workVars, callerVars, WorkInv, EditorsOK
<1>5. ASSUME NEW c \in Editors, Make(c) \/ ChangeRow(c) \/ Tick(c) \/ Drop(c) PROVE EditorsOK'
  BY <1>2, <1>5 DEF Make, ChangeRow, Tick, Drop
<1>6. ASSUME NEW c \in Editors, ReadRow(c), Answered(c) PROVE EditorsOK'
  BY <1>2, <1>6 DEF ReadRow
<1> QED BY <1>1, <1>3, <1>4, <1>5, <1>6 DEF WorkNext

LEMMA WorkInvariant == WorkSpec => []WorkInv
<1>1. WorkInit => WorkInv
  <2> SUFFICES ASSUME WorkInit PROVE WorkInv
    OBVIOUS
  <2>1. EditorsOK
    <3>1. NameOf(Root) \in [id : Nat, up : Nat] /\ NameOf(Root).id = 0
      BY DEF NameOf, Root
    <3>2. NoOp.write # "tick" /\ NoOp.at \notin {"row", "child"} /\ <<>> \in Seq(Word) /\ Words(<<>>) = {}
      BY WordsOfLists DEF NoOp, Operation
    <3> QED BY <3>1, <3>2 DEF WorkInit, EditorsOK
  <2>2. RowsOK /\ SiblingsApart /\ MarksAddUp
    BY DEF WorkInit, RowsOK, SiblingsApart, MarksAddUp
  <2>3. PlacesOK
    <3>1. \A up, sort : Sibs(up, sort) = {}
      BY DEF WorkInit, Sibs
    <3> QED BY <3>1, FS_EmptySet DEF PlacesOK
  <2> QED BY <2>1, <2>2, <2>3 DEF WorkInv
<1>2. WorkInv /\ [WorkNext]_workVars => WorkInv'
  <2> SUFFICES ASSUME WorkInv, [WorkNext]_workVars PROVE WorkInv'
    OBVIOUS
  <2>1. made \in Nat
    BY DEF WorkInv, EditorsOK
  <2> QED BY <2>1, WorkEffect, EditorsOKStep, RowsOKStep, PlacesOKStep, SiblingsStep, MarksStep DEF WorkInv
<1> QED BY <1>1, <1>2, PTL DEF WorkSpec

\* Whatever the service, the calls in flight and the rows they make: two
\* siblings share a position, or are both the main one, only if one was written
\* on a reading that another call had outdated, was placed by hand, or a sibling
\* was removed (TasksService.create, addContact, startTimer and the like).
THEOREM SiblingsAreApart == WorkSpec => []SiblingsApart
BY WorkInvariant, PTL DEF WorkInv

\* However the updates, toggles and closings of a row interleave, a closed row
\* has its date or was made closed, and a checklist item that no two toggles
\* crossed is ticked when it has been toggled an odd number of times.
THEOREM MarksAreRight == WorkSpec => []MarksAddUp
BY WorkInvariant, PTL DEF WorkInv

-----------------------------------------------------------------------------
(* The workspace: types *)

\* There are no more rows than have been made, and nobody has counted more.
Few ==
    /\ made <= MaxRows
    /\ \A r \in workRows : r.up <= made /\ r.place <= made
    /\ \A c \in Editors : saw[c] <= made /\ Len(todo[c]) <= 2

LEMMA NoMoreThanMade ==
  ASSUME WorkInv, NEW S \in SUBSET workRows
  PROVE  Cardinality(S) <= made
<1>1. IsFiniteSet(1..made) /\ Cardinality(1..made) = made
  BY FS_Interval DEF WorkInv, EditorsOK
<1> DEFINE Id == [r \in S |-> r.id]
<1>2. Id \in Injection(S, 1..made)
  BY DEF Injection, IsInjective, WorkInv, RowsOK
<1> QED BY <1>1, <1>2, FS_Injection

LEMMA FewRows ==
  ASSUME WorkInv, Few, WorkRowsStep
  PROVE  made' \in {made, made + 1} /\ \A r \in workRows' : r.up <= made /\ r.place <= made
<1>t. made \in Nat /\ workRows \subseteq WorkRow /\ \A c \in Editors : on[c].id <= made
  BY DEF WorkInv, EditorsOK, RowsOK
<1>o. \A r \in workRows : r.up <= made /\ r.place <= made
  BY DEF Few
<1>1. ASSUME NEW S \in SUBSET workRows, workRows' = Demoted(S), UNCHANGED made
      PROVE  \A r \in workRows' : r.up <= made /\ r.place <= made
  <2>1. \A r \in S : [r EXCEPT !.main = FALSE].up = r.up /\ [r EXCEPT !.main = FALSE].place = r.place
    BY <1>t DEF WorkRow
  <2> SUFFICES ASSUME NEW x \in workRows' PROVE x.up <= made /\ x.place <= made
    OBVIOUS
  <2>2. x \in workRows \/ \E r \in S : x = [r EXCEPT !.main = FALSE]
    BY <1>1 DEF Demoted
  <2> QED BY <1>o, <2>1, <2>2
<1>2. ASSUME NEW r, NewRow(r) PROVE r.up <= made /\ r.place <= made
  <2>1. PICK c \in Editors : r.up = on[c].id /\ r.place = saw[c]
    BY <1>2 DEF NewRow
  <2>2. on[c].id <= made /\ saw[c] <= made
    BY <1>t DEF Few
  <2> QED BY <2>1, <2>2
<1>3. ASSUME NEW r, NEW s, Replaces(r, s) PROVE r.up <= made /\ r.place <= made
  <2>1. s \in workRows /\ r.up = s.up /\ r.place \in {0, s.place}
    BY <1>3 DEF Replaces
  <2>2. 0 <= made
    BY <1>t
  <2> QED BY <1>o, <2>1, <2>2
<1>4. \/ UNCHANGED <<workRows, made>>
      \/ workRows' \subseteq workRows /\ UNCHANGED made
      \/ \E S \in SUBSET workRows : workRows' = Demoted(S) /\ UNCHANGED made
      \/ \E r : NewRow(r) /\ workRows' = workRows \cup {r} /\ made' = made + 1
      \/ \E r, s : Replaces(r, s) /\ workRows' = (workRows \ {s}) \cup {r} /\ UNCHANGED made
  BY DEF WorkRowsStep
<1> QED BY <1>o, <1>1, <1>2, <1>3, <1>4

LEMMA FewStep ==
  ASSUME WorkInv, Few, [WorkNext]_workVars
  PROVE  Few'
<1>t. /\ made \in Nat /\ saw \in [Editors -> Nat] /\ todo \in [Editors -> Seq(Word)] /\ made <= MaxRows
      /\ workRows \subseteq WorkRow /\ \A r \in workRows : r.id \in 1..made
      /\ \A x \in Editors : saw[x] <= made /\ Len(todo[x]) <= 2
  BY DEF WorkInv, EditorsOK, RowsOK, Few
<1>r. /\ made' \in {made, made + 1} /\ \A r \in workRows' : r.up <= made' /\ r.place <= made'
  <2>1. \A r \in workRows' : r.up \in Nat /\ r.place \in Nat
    BY WorkEffect, RowsOKStep DEF WorkInv, EditorsOK, RowsOK, WorkRow
  <2> QED BY <1>t, <2>1, WorkEffect, FewRows
<1> DEFINE Held == \A x \in Editors : saw'[x] <= made' /\ Len(todo'[x]) <= 2
<1>a. ASSUME NEW c \in Editors, Answered(c) PROVE Held
  BY <1>t, <1>r, <1>a DEF Answered
<1>1. ASSUME NEW c \in Editors, NEW o \in service, Call(c, o) PROVE made' <= MaxRows /\ Held
  <2>1. Len(o.reads) <= 2
    BY LegalOperations DEF WorkInv, EditorsOK, Legal
  <2> QED BY <1>t, <1>1, <2>1 DEF Call
<1>2. ASSUME NEW c \in Editors, ReadRow(c) PROVE made' <= MaxRows /\ Held
  <2>1. CASE Answered(c)
    BY <1>t, <1>2, <1>a, <2>1 DEF ReadRow
  <2>2. CASE ~Answered(c)
    <3> DEFINE value == CASE Head(todo[c]) = "count" -> Cardinality(Siblings(c))
                          [] Head(todo[c]) = "fetch" -> IF RowOf(c).closed THEN 1 ELSE 0
                          [] OTHER -> saw[c]
    <3>1. /\ todo[c] # <<>> /\ todo' = [todo EXCEPT ![c] = Tail(@)] /\ saw' = [saw EXCEPT ![c] = value]
          /\ UNCHANGED made /\ ~TurnedDown(c)
      BY <1>2, <2>2, <1>t DEF ReadRow
    <3>2. value <= made
      <4>1. CASE Head(todo[c]) = "count"
        BY <4>1, NoMoreThanMade DEF Siblings
      <4>2. CASE Head(todo[c]) = "fetch"
        <5>1. Exists(on[c].id)
          BY <3>1, <4>2 DEF TurnedDown
        <5> QED BY <1>t, <4>2, <5>1 DEF Exists
      <4>3. CASE Head(todo[c]) \notin {"count", "fetch"}
        BY <1>t, <4>3
      <4> QED BY <4>1, <4>2, <4>3
    <3> HIDE DEF value
    <3>3. Len(Tail(todo[c])) <= 2
      BY <1>t, <3>1
    <3> QED BY <1>t, <3>1, <3>2, <3>3
  <2> QED BY <2>1, <2>2
<1>3. ASSUME NEW c \in Editors, Make(c) PROVE made' <= MaxRows /\ Held
  <2>1. Answered(c) /\ made < MaxRows
    BY <1>3 DEF Make
  <2>2. made' <= MaxRows
    BY <1>t, <1>r, <2>1, WorkspaceAssumption
  <2> QED BY <1>a, <2>1, <2>2
<1>4. ASSUME NEW c \in Editors, ChangeRow(c) \/ Tick(c) \/ Drop(c) PROVE made' <= MaxRows /\ Held
  <2>1. Answered(c) /\ made' = made
    BY <1>4 DEF ChangeRow, Tick, Drop
  <2> QED BY <1>t, <1>a, <2>1
<1>5. ASSUME UNCHANGED workVars PROVE made' <= MaxRows /\ Held
  BY <1>t, <1>5 DEF workVars, callerVars
<1> HIDE DEF Held
<1>6. made' <= MaxRows /\ Held
  BY <1>1, <1>2, <1>3, <1>4, <1>5 DEF WorkNext
<1>7. \A r \in workRows' : r.up <= made' /\ r.place <= made'
  BY <1>r
<1> QED BY <1>6, <1>7, Zenon DEF Few, Held

LEMMA WorkTypes == ASSUME WorkInv, Few PROVE WorkTypeOK
<1>1. /\ service \in Services /\ made \in 0..MaxRows
      /\ \A c \in Editors : doing[c] \in service \cup {NoOp} /\ saw[c] \in 0..MaxRows
  BY WorkspaceAssumption DEF WorkInv, EditorsOK, Few
<1>2. \A r \in workRows : r.id \in 1..made /\ r.up \in 0..made /\ r.place \in 0..MaxRows
  BY WorkspaceAssumption DEF WorkInv, EditorsOK, RowsOK, WorkRow, Few
<1>3. \A r \in workRows : {r.main, r.closed, r.dated, r.told, r.shaky} \subseteq BOOLEAN
  BY DEF WorkInv, RowsOK, WorkRow
<1>4. \A c \in Editors : \E n \in 0..2 : Len(todo[c]) = n
  <2> SUFFICES ASSUME NEW c \in Editors PROVE \E n \in 0..2 : Len(todo[c]) = n
    OBVIOUS
  <2> DEFINE k == Len(todo[c])
  <2>1. k \in Nat /\ k <= 2
    BY DEF WorkInv, EditorsOK, Few
  <2> HIDE DEF k
  <2>2. \E n \in 0..2 : k = n
    BY <2>1
  <2> QED BY <2>2 DEF k
<1> QED BY <1>1, <1>2, <1>3, <1>4 DEF WorkTypeOK

\* However the calls interleave, rows, calls and what calls have read keep their
\* types: nobody counts more rows than were made.
LEMMA WorkTyped == WorkSpec => []WorkTypeOK
<1>1. WorkInit => Few
  BY WorkspaceAssumption DEF WorkInit, Few
<1>2. WorkInv /\ Few /\ [WorkNext]_workVars => Few'
  BY FewStep
<1>3. WorkInv /\ Few => WorkTypeOK
  BY WorkTypes
<1> QED BY <1>1, <1>2, <1>3, WorkInvariant, PTL DEF WorkSpec

-----------------------------------------------------------------------------
(* The browser tab: types *)

ServerTypes ==
    /\ cookies \in [who : Accounts \cup {NoOne}, fresh : BOOLEAN]
    /\ members \in [Accounts -> SUBSET Companies]

ShownTypes ==
    /\ storedOrg \in Companies \cup {NoOne} /\ currentOrg \in Companies \cup {NoOne}
    /\ user \in Accounts \cup {NoOne} /\ organizations \in SUBSET Companies

PlaceTypes ==
    /\ path \in {OnLogin, "dashboard", "create"}
    /\ entry \in {"none", "code", "sign in", "create", "waiting"}

FlagTypes == restoring \in BOOLEAN /\ leaving \in BOOLEAN

MeTypes ==
    me \in [sent : Accounts \cup {NoOne}, state : {"none", "sent", "answered", "failed"},
            orgs : SUBSET Companies, clean : BOOLEAN]

ConnectionTypes ==
    connection \in [org : Companies \cup {NoOne}, as : Accounts \cup {NoOne, "connecting", "refused"}, mixed : BOOLEAN]

CauseTypes ==
    cause \in {"none", "other tab", "joined", "outlived", "expired", "failed", "members", "not left"}

ShellTyped ==
    ServerTypes /\ ShownTypes /\ PlaceTypes /\ FlagTypes /\ MeTypes /\ ConnectionTypes /\ CauseTypes

LEMMA TypesApart == ShellTypeOK <=> ShellTyped
BY Zenon DEF ShellTypeOK, ShellTyped, ServerTypes, ShownTypes, PlaceTypes, FlagTypes,
    MeTypes, ConnectionTypes, CauseTypes

LEMMA TypesRest ==
  ASSUME ShellTyped
  PROVE  /\ cookies' = cookies /\ members' = members => ServerTypes'
         /\ storedOrg' = storedOrg /\ currentOrg' = currentOrg /\ user' = user /\ organizations' = organizations => ShownTypes'
         /\ path' = path /\ entry' = entry => PlaceTypes'
         /\ restoring' = restoring /\ leaving' = leaving => FlagTypes'
         /\ me' = me => MeTypes'
         /\ connection' = connection => ConnectionTypes'
         /\ cause' = cause => CauseTypes'
BY DEF ShellTyped, ServerTypes, ShownTypes, PlaceTypes, FlagTypes, MeTypes, ConnectionTypes, CauseTypes

LEMMA ShellTypeStep ==
  ASSUME ShellTyped, [ShellNext]_shellVars
  PROVE  ShellTyped'
<1> USE DEF ShellTyped, NoOne, OnLogin
<1>1. ASSUME ServeMe  PROVE ShellTyped'
  <2>1. MeTypes'  BY <1>1 DEF ServeMe, ServerTypes, MeTypes, shownVars
  <2>2. ServerTypes' /\ ShownTypes' /\ PlaceTypes' /\ FlagTypes' /\ ConnectionTypes' /\ CauseTypes'  BY <1>1, TypesRest DEF ServeMe, shownVars
  <2> QED  BY <2>1, <2>2 DEF ShellTyped
<1>2. ASSUME MeAnswered  PROVE ShellTyped'
  <2>1. ShownTypes'  BY <1>2 DEF MeAnswered, ShowAccount, ShowNobody, MeTypes, ShownTypes
  <2>2. PlaceTypes'  BY <1>2 DEF MeAnswered, Guarded, PlaceTypes, shownVars
  <2>3. FlagTypes'  BY <1>2 DEF MeAnswered, FlagTypes, shownVars
  <2>4. MeTypes'  BY <1>2 DEF MeAnswered, NoRequest, MeTypes, shownVars
  <2>5. ConnectionTypes'  BY <1>2, <2>1 DEF MeAnswered, Reconnect, NoConnection, ShownTypes, ConnectionTypes
  <2>6. CauseTypes'  BY <1>2 DEF MeAnswered, Since, CauseTypes, shownVars
  <2>7. ServerTypes'  BY <1>2, TypesRest DEF MeAnswered, shownVars
  <2> QED  BY <2>1, <2>2, <2>3, <2>4, <2>5, <2>6, <2>7 DEF ShellTyped
<1>3. ASSUME SubmitEntry  PROVE ShellTyped'
  <2>1. PlaceTypes'  BY <1>3 DEF SubmitEntry, PlaceTypes, shownVars
  <2>2. ServerTypes' /\ ShownTypes' /\ FlagTypes' /\ MeTypes' /\ ConnectionTypes' /\ CauseTypes'  BY <1>3, TypesRest DEF SubmitEntry, shownVars
  <2> QED  BY <2>1, <2>2 DEF ShellTyped
<1>4. ASSUME EntryRefused  PROVE ShellTyped'
  <2>1. PlaceTypes'  BY <1>4 DEF EntryRefused, PlaceTypes, shownVars
  <2>2. ServerTypes' /\ ShownTypes' /\ FlagTypes' /\ MeTypes' /\ ConnectionTypes' /\ CauseTypes'  BY <1>4, TypesRest DEF EntryRefused, shownVars
  <2> QED  BY <2>1, <2>2 DEF ShellTyped
<1>5. ASSUME EntryAccepted  PROVE ShellTyped'
  <2>1. ServerTypes'
    <3>1. PICK u \in Accounts : cookies' = [who |-> u, fresh |-> TRUE]  BY <1>5 DEF EntryAccepted
    <3>2. members' = members  BY <1>5 DEF EntryAccepted
    <3> QED  BY <3>1, <3>2 DEF ServerTypes
  <2>2. PlaceTypes'  BY <1>5 DEF EntryAccepted, PlaceTypes, shownVars
  <2>3. MeTypes'  BY <1>5, <2>1 DEF EntryAccepted, RefreshUser, AskMe, ServerTypes, MeTypes
  <2>4. CauseTypes'  BY <1>5 DEF EntryAccepted, Because, Since, CauseTypes, shownVars
  <2>5. ShownTypes' /\ FlagTypes' /\ ConnectionTypes'  BY <1>5, TypesRest DEF EntryAccepted, shownVars
  <2> QED  BY <2>1, <2>2, <2>3, <2>4, <2>5 DEF ShellTyped
<1>6. ASSUME OAuthReturns  PROVE ShellTyped'
  <2>1. ServerTypes'  BY <1>6 DEF OAuthReturns, ServerTypes, shownVars
  <2>2. ShownTypes'  BY <1>6 DEF OAuthReturns, Boot, ShownTypes, shownVars
  <2>3. PlaceTypes'  BY <1>6 DEF OAuthReturns, Boot, PlaceTypes, shownVars
  <2>4. FlagTypes'  BY <1>6 DEF OAuthReturns, Boot, FlagTypes, shownVars
  <2>5. MeTypes'  BY <1>6 DEF OAuthReturns, Boot, AskMe, MeTypes, shownVars
  <2>6. ConnectionTypes'  BY <1>6 DEF OAuthReturns, Boot, NoConnection, ConnectionTypes, shownVars
  <2>7. CauseTypes'  BY <1>6, TypesRest DEF OAuthReturns, shownVars
  <2> QED  BY <2>1, <2>2, <2>3, <2>4, <2>5, <2>6, <2>7 DEF ShellTyped
<1>7. ASSUME SubmitCompany  PROVE ShellTyped'
  <2>1. PlaceTypes'  BY <1>7 DEF SubmitCompany, PlaceTypes, shownVars
  <2>2. ServerTypes' /\ ShownTypes' /\ FlagTypes' /\ MeTypes' /\ ConnectionTypes' /\ CauseTypes'  BY <1>7, TypesRest DEF SubmitCompany, shownVars
  <2> QED  BY <2>1, <2>2 DEF ShellTyped
<1>8. ASSUME CompanyCreated  PROVE ShellTyped'
  <2>1. ServerTypes'
    <3>1. PICK o \in Companies : members' = [members EXCEPT ![cookies.who] = @ \cup {o}]  BY <1>8 DEF CompanyCreated
    <3>2. members' \in [Accounts -> SUBSET Companies]  BY <1>8, <3>1 DEF CompanyCreated, ServerTypes
    <3>3. cookies' = [cookies EXCEPT !.fresh = TRUE]  BY <1>8 DEF CompanyCreated
    <3>4. cookies' \in [who : Accounts \cup {NoOne}, fresh : BOOLEAN]  BY <3>3 DEF ServerTypes
    <3> QED  BY <3>2, <3>4 DEF ServerTypes
  <2>2. PlaceTypes'  BY <1>8 DEF CompanyCreated, PlaceTypes, shownVars
  <2>3. MeTypes'  BY <1>8, <2>1 DEF CompanyCreated, RefreshUser, AskMe, ServerTypes, MeTypes
  <2>4. CauseTypes'  BY <1>8 DEF CompanyCreated, Because, Since, CauseTypes, shownVars
  <2>5. ShownTypes' /\ FlagTypes' /\ ConnectionTypes'  BY <1>8, TypesRest DEF CompanyCreated, shownVars
  <2> QED  BY <2>1, <2>2, <2>3, <2>4, <2>5 DEF ShellTyped
<1>9. ASSUME Leave  PROVE ShellTyped'
  <2>1. FlagTypes'  BY <1>9 DEF Leave, FlagTypes, shownVars
  <2>2. ServerTypes' /\ ShownTypes' /\ PlaceTypes' /\ MeTypes' /\ ConnectionTypes' /\ CauseTypes'  BY <1>9, TypesRest DEF Leave, shownVars
  <2> QED  BY <2>1, <2>2 DEF ShellTyped
<1>10. ASSUME Left  PROVE ShellTyped'
  <2>1. ServerTypes'
    <3>1. cookies' = [who |-> NoOne, fresh |-> FALSE] \/ cookies' = cookies  BY <1>10 DEF Left
    <3>2. members' = members  BY <1>10 DEF Left
    <3>3. CASE cookies' = cookies  BY <3>2, <3>3, TypesRest
    <3>4. CASE cookies' = [who |-> NoOne, fresh |-> FALSE]  BY <3>2, <3>4 DEF ServerTypes
    <3> QED  BY <3>1, <3>3, <3>4
  <2>2. ShownTypes'  BY <1>10 DEF Left, Forget, ShownTypes, shownVars
  <2>3. PlaceTypes'  BY <1>10 DEF Left, Guarded, PlaceTypes, shownVars
  <2>4. FlagTypes'  BY <1>10 DEF Left, FlagTypes, shownVars
  <2>5. MeTypes'  BY <1>10 DEF Left, Unclean, MeTypes, shownVars
  <2>6. ConnectionTypes'  BY <1>10, <2>2 DEF Left, Reconnect, NoConnection, ShownTypes, ConnectionTypes
  <2>7. CauseTypes'  BY <1>10 DEF Left, Since, CauseTypes, shownVars
  <2> QED  BY <2>1, <2>2, <2>3, <2>4, <2>5, <2>6, <2>7 DEF ShellTyped
<1>11. ASSUME NEW p \in {OnLogin, "dashboard", "create"}, Navigate(p)  PROVE ShellTyped'
  <2>1. PlaceTypes'  BY <1>11 DEF Navigate, Guarded, PlaceTypes, shownVars
  <2>2. ServerTypes' /\ ShownTypes' /\ FlagTypes' /\ MeTypes' /\ ConnectionTypes' /\ CauseTypes'  BY <1>11, TypesRest DEF Navigate, shownVars
  <2> QED  BY <2>1, <2>2 DEF ShellTyped
<1>12. ASSUME NEW p \in {OnLogin, "dashboard", "create"}, LoadPage(p)  PROVE ShellTyped'
  <2>1. ShownTypes'  BY <1>12 DEF LoadPage, Boot, ShownTypes, shownVars
  <2>2. PlaceTypes'  BY <1>12 DEF LoadPage, Boot, PlaceTypes, shownVars
  <2>3. FlagTypes'  BY <1>12 DEF LoadPage, Boot, FlagTypes, shownVars
  <2>4. MeTypes'  BY <1>12 DEF LoadPage, Boot, AskMe, ServerTypes, MeTypes, shownVars
  <2>5. ConnectionTypes'  BY <1>12 DEF LoadPage, Boot, NoConnection, ConnectionTypes, shownVars
  <2>6. ServerTypes' /\ CauseTypes'  BY <1>12, TypesRest DEF LoadPage, shownVars
  <2> QED  BY <2>1, <2>2, <2>3, <2>4, <2>5, <2>6 DEF ShellTyped
<1>13. ASSUME SettingsSaved  PROVE ShellTyped'
  <2>1. MeTypes'  BY <1>13 DEF SettingsSaved, RefreshUser, AskMe, ServerTypes, MeTypes, shownVars
  <2>2. ServerTypes' /\ ShownTypes' /\ PlaceTypes' /\ FlagTypes' /\ ConnectionTypes' /\ CauseTypes'  BY <1>13, TypesRest DEF SettingsSaved, shownVars
  <2> QED  BY <2>1, <2>2 DEF ShellTyped
<1>14. ASSUME PageUnauthorized  PROVE ShellTyped'
  <2>1. ServerTypes'  BY <1>14 DEF PageUnauthorized, ServerTypes, shownVars
  <2>2. ShownTypes'  BY <1>14 DEF PageUnauthorized, Boot, ShownTypes, shownVars
  <2>3. PlaceTypes'  BY <1>14 DEF PageUnauthorized, Boot, PlaceTypes, shownVars
  <2>4. FlagTypes'  BY <1>14 DEF PageUnauthorized, Boot, FlagTypes, shownVars
  <2>5. MeTypes'
    <3>1. me' = me \/ me' = AskMe(cookies)  BY <1>14 DEF PageUnauthorized, Boot
    <3>2. CASE me' = me  BY <3>2, TypesRest
    <3>3. CASE me' = AskMe(cookies)  BY <3>3 DEF AskMe, ServerTypes, MeTypes
    <3> QED  BY <3>1, <3>2, <3>3
  <2>6. ConnectionTypes'
    <3>1. connection' = connection \/ connection' = NoConnection  BY <1>14 DEF PageUnauthorized, Boot, shownVars
    <3>2. CASE connection' = connection  BY <3>2, TypesRest
    <3>3. CASE connection' = NoConnection  BY <3>3 DEF NoConnection, ConnectionTypes
    <3> QED  BY <3>1, <3>2, <3>3
  <2>7. CauseTypes'  BY <1>14, TypesRest DEF PageUnauthorized, shownVars
  <2> QED  BY <2>1, <2>2, <2>3, <2>4, <2>5, <2>6, <2>7 DEF ShellTyped
<1>15. ASSUME Handshake  PROVE ShellTyped'
  <2>1. ConnectionTypes'  BY <1>15 DEF Handshake, ServerTypes, ConnectionTypes, shownVars
  <2>2. ServerTypes' /\ ShownTypes' /\ PlaceTypes' /\ FlagTypes' /\ MeTypes' /\ CauseTypes'  BY <1>15, TypesRest DEF Handshake, shownVars
  <2> QED  BY <2>1, <2>2 DEF ShellTyped
<1>16. ASSUME ConnectionDrops  PROVE ShellTyped'
  <2>1. ConnectionTypes'  BY <1>16 DEF ConnectionDrops, ConnectionTypes, shownVars
  <2>2. ServerTypes' /\ ShownTypes' /\ PlaceTypes' /\ FlagTypes' /\ MeTypes' /\ CauseTypes'  BY <1>16, TypesRest DEF ConnectionDrops, shownVars
  <2> QED  BY <2>1, <2>2 DEF ShellTyped
<1>17. ASSUME NEW o \in Companies, SwitchTo(o)  PROVE ShellTyped'
  <2>1. ShownTypes'  BY <1>17 DEF SwitchTo, ShownTypes, shownVars
  <2>2. ConnectionTypes'  BY <1>17 DEF SwitchTo, Reconnect, NoConnection, ConnectionTypes, shownVars
  <2>3. ServerTypes' /\ PlaceTypes' /\ FlagTypes' /\ MeTypes' /\ CauseTypes'  BY <1>17, TypesRest DEF SwitchTo, shownVars
  <2> QED  BY <2>1, <2>2, <2>3 DEF ShellTyped
<1>18. ASSUME Expires  PROVE ShellTyped'
  <2>1. ServerTypes'  BY <1>18 DEF Expires, ServerTypes, shownVars
  <2>2. ShownTypes' /\ PlaceTypes' /\ FlagTypes' /\ MeTypes' /\ ConnectionTypes' /\ CauseTypes'  BY <1>18, TypesRest DEF Expires, shownVars
  <2> QED  BY <2>1, <2>2 DEF ShellTyped
<1>19. ASSUME ElsewhereInBrowser  PROVE ShellTyped'
  <2>1. ServerTypes'
    <3>1. PICK u \in Accounts \cup {NoOne}, b \in BOOLEAN : cookies' = [who |-> u, fresh |-> b]  BY <1>19 DEF ElsewhereInBrowser
    <3>2. members' = members  BY <1>19 DEF ElsewhereInBrowser
    <3> QED  BY <3>1, <3>2 DEF ServerTypes
  <2>2. ShownTypes'  BY <1>19 DEF ElsewhereInBrowser, ShownTypes, shownVars
  <2>3. MeTypes'  BY <1>19 DEF ElsewhereInBrowser, Unclean, MeTypes, shownVars
  <2>4. CauseTypes'  BY <1>19 DEF ElsewhereInBrowser, Because, Since, CauseTypes, shownVars
  <2>5. PlaceTypes' /\ FlagTypes' /\ ConnectionTypes'  BY <1>19, TypesRest DEF ElsewhereInBrowser, shownVars
  <2> QED  BY <2>1, <2>2, <2>3, <2>4, <2>5 DEF ShellTyped
<1>20. ASSUME MembersChange  PROVE ShellTyped'
  <2>1. ServerTypes'  BY <1>20 DEF MembersChange, ServerTypes, shownVars
  <2>2. MeTypes'  BY <1>20 DEF MembersChange, Unclean, MeTypes, shownVars
  <2>3. CauseTypes'  BY <1>20 DEF MembersChange, Because, Since, CauseTypes, shownVars
  <2>4. ShownTypes' /\ PlaceTypes' /\ FlagTypes' /\ ConnectionTypes'  BY <1>20, TypesRest DEF MembersChange, shownVars
  <2> QED  BY <2>1, <2>2, <2>3, <2>4 DEF ShellTyped
<1>21. CASE UNCHANGED shellVars
  BY <1>21, TypesRest DEF ShellTyped, shellVars
<1> QED  BY <1>1, <1>2, <1>3, <1>4, <1>5, <1>6, <1>7, <1>8, <1>9, <1>10, <1>11, <1>12, <1>13, <1>14, <1>15, <1>16, <1>17, <1>18, <1>19, <1>20, <1>21 DEF ShellNext

-----------------------------------------------------------------------------
(* The browser tab: the invariant *)

\* What is shown hangs together, whosever it is.
ShownOK ==
    /\ user = NoOne => organizations = {} /\ currentOrg = NoOne
    /\ IF organizations = {} THEN currentOrg = NoOne ELSE currentOrg \in organizations

\* A tab that has not been told yet whose cookies it has is waiting for the
\* answer; one that has been told is on a page that is for the account.
GuardsOK ==
    /\ restoring => Awaited
    /\ ~restoring =>
        /\ user = NoOne => path = OnLogin
        /\ path = "dashboard" => organizations # {}

\* An answer under way that nothing has overtaken is about the account of the
\* cookies, or was asked for with none.
AskedOK ==
    (Awaited /\ (me.clean \/ cause = "none")) =>
        /\ me.sent \in {NoOne, cookies.who}
        /\ (me.state = "answered" /\ me.sent # NoOne) => me.orgs = members[me.sent]

\* Without a cause to differ, a tab that awaits no answer agrees with the server,
\* whatever form is being sent.
AgreesOK ==
    (~Awaited /\ cause = "none") =>
        /\ user = cookies.who
        /\ organizations = (IF user = NoOne THEN {} ELSE members[user])
        /\ organizations # {} => storedOrg = currentOrg

\* A request that is awaited was sent.
WaitsOK == Awaited <=> me.state # "none"

ShellRest == WaitsOK /\ ShownOK /\ GuardsOK /\ AskedOK /\ AgreesOK /\ ConnectionFollows

LEMMA SaysRest ==
  ASSUME ShellRest
  PROVE  /\ me' = me => WaitsOK'
         /\ user' = user /\ organizations' = organizations /\ currentOrg' = currentOrg => ShownOK'
         /\ restoring' = restoring /\ me' = me /\ path' = path /\ user' = user /\ organizations' = organizations => GuardsOK'
         /\ me' = me /\ cause' = cause /\ cookies' = cookies /\ members' = members => AskedOK'
         /\ me' = me /\ cause' = cause /\ user' = user /\ cookies' = cookies /\ organizations' = organizations /\ members' = members /\ storedOrg' = storedOrg /\ currentOrg' = currentOrg => AgreesOK'
         /\ connection' = connection /\ currentOrg' = currentOrg /\ user' = user => ConnectionFollows'
BY DEF ShellRest, Awaited, WaitsOK, ShownOK, GuardsOK, AskedOK, AgreesOK, ConnectionFollows

LEMMA SentIsAwaited ==
  ASSUME NEW m, m.state # "none"
  PROVE  m # NoRequest
BY DEF NoRequest

LEMMA ShellRestStep ==
  ASSUME ShellTyped, ShellRest, [ShellNext]_shellVars
  PROVE  ShellRest'
<1> USE ShellAssumption DEF ShellTyped, ServerTypes, ShownTypes, PlaceTypes, FlagTypes, MeTypes, ConnectionTypes, CauseTypes, ShellRest, NoOne, OnLogin
<1>1. ASSUME ServeMe  PROVE ShellRest'
  <2>1. WaitsOK'
    <3>1. me.state # "none" /\ me'.state \in {"answered", "failed"}  BY <1>1 DEF ServeMe
    <3>2. me' # NoRequest  BY <3>1, SentIsAwaited
    <3> QED  BY <3>1, <3>2 DEF WaitsOK, Awaited
  <2>2. GuardsOK'  BY <1>1, <2>1 DEF ServeMe, GuardsOK, WaitsOK, ShownOK, shownVars
  <2>3. AskedOK'  BY <1>1, <2>1 DEF ServeMe, AskedOK, WaitsOK, ShownOK, shownVars
  <2>4. AgreesOK'  BY <1>1, <2>1 DEF ServeMe, AgreesOK, WaitsOK, ShownOK, shownVars
  <2>5. ShownOK' /\ ConnectionFollows'  BY <1>1, SaysRest DEF ServeMe, shownVars
  <2> QED  BY <2>1, <2>2, <2>3, <2>4, <2>5 DEF ShellRest
<1>2. ASSUME MeAnswered  PROVE ShellRest'
  <2>1. WaitsOK'  BY <1>2 DEF MeAnswered, WaitsOK, Awaited, NoRequest, ShownOK, shownVars
  <2>2. ShownOK'  BY <1>2 DEF MeAnswered, ShowAccount, ShowNobody, ShownOK, NoRequest, shownVars
  <2>3. GuardsOK'  BY <1>2, <2>1 DEF MeAnswered, ShowAccount, ShowNobody, Guarded, GuardsOK, NoRequest, WaitsOK, ShownOK, shownVars
  <2>4. AskedOK'  BY <1>2, <2>1 DEF MeAnswered, Since, AskedOK, NoRequest, WaitsOK, ShownOK, shownVars
  <2>5. AgreesOK'
    <3>1. CASE me.state = "answered" /\ me.sent # NoOne
      <4>1. user' = me.sent /\ organizations' = me.orgs /\ cookies' = cookies /\ members' = members
        BY <1>2, <3>1 DEF MeAnswered, ShowAccount
      <4>2. organizations' # {} => storedOrg' = currentOrg'
        BY <1>2, <3>1 DEF MeAnswered, ShowAccount
      <4>3. cause' = "none" => me.clean \/ cause = "none"
        BY <1>2, <3>1 DEF MeAnswered, Since
      <4> QED  BY <1>2, <3>1, <4>1, <4>2, <4>3 DEF MeAnswered, AgreesOK, AskedOK, WaitsOK
    <3>2. CASE ~(me.state = "answered" /\ me.sent # NoOne)
      <4>1. user' = NoOne /\ organizations' = {} /\ cookies' = cookies
        BY <1>2, <3>2 DEF MeAnswered, ShowNobody
      <4>2. cause' = "none" => cookies.who = NoOne
        BY <1>2, <3>2 DEF MeAnswered, Since
      <4> QED  BY <4>1, <4>2 DEF AgreesOK
    <3> QED  BY <3>1, <3>2
  <2>6. ConnectionFollows'  BY <1>2 DEF MeAnswered, ShowAccount, ShowNobody, Reconnect, NoConnection, ConnectionFollows, NoRequest, ShownOK, shownVars
  <2> QED  BY <2>1, <2>2, <2>3, <2>4, <2>5, <2>6 DEF ShellRest
<1>3. ASSUME SubmitEntry  PROVE ShellRest'
  BY <1>3, SaysRest DEF SubmitEntry, shownVars, ShellRest
<1>4. ASSUME EntryRefused  PROVE ShellRest'
  BY <1>4, SaysRest DEF EntryRefused, shownVars, ShellRest
<1>5. ASSUME EntryAccepted  PROVE ShellRest'
  <2>1. WaitsOK'  BY <1>5 DEF EntryAccepted, RefreshUser, AskMe, WaitsOK, Awaited, NoRequest, ShownOK, shownVars
  <2>2. GuardsOK'  BY <1>5, <2>1 DEF EntryAccepted, RefreshUser, AskMe, GuardsOK, WaitsOK, ShownOK, shownVars
  <2>3. AskedOK'  BY <1>5, <2>1 DEF EntryAccepted, RefreshUser, AskMe, Because, Since, AskedOK, WaitsOK, ShownOK, shownVars
  <2>4. AgreesOK'  BY <1>5, <2>1 DEF EntryAccepted, RefreshUser, AskMe, Because, Since, AgreesOK, WaitsOK, ShownOK, shownVars
  <2>5. ShownOK' /\ ConnectionFollows'  BY <1>5, SaysRest DEF EntryAccepted, shownVars
  <2> QED  BY <2>1, <2>2, <2>3, <2>4, <2>5 DEF ShellRest
<1>6. ASSUME OAuthReturns  PROVE ShellRest'
  <2>1. WaitsOK'  BY <1>6 DEF OAuthReturns, Boot, AskMe, WaitsOK, Awaited, NoRequest, ShownOK, shownVars
  <2>2. ShownOK'  BY <1>6 DEF OAuthReturns, Boot, ShownOK, shownVars
  <2>3. GuardsOK'  BY <1>6, <2>1 DEF OAuthReturns, Boot, AskMe, GuardsOK, WaitsOK, ShownOK, shownVars
  <2>4. AskedOK'  BY <1>6, <2>1 DEF OAuthReturns, Boot, AskMe, AskedOK, WaitsOK, ShownOK, shownVars
  <2>5. AgreesOK'  BY <1>6, <2>1 DEF OAuthReturns, Boot, AskMe, AgreesOK, WaitsOK, ShownOK, shownVars
  <2>6. ConnectionFollows'  BY <1>6 DEF OAuthReturns, Boot, NoConnection, ConnectionFollows, ShownOK, shownVars
  <2> QED  BY <2>1, <2>2, <2>3, <2>4, <2>5, <2>6 DEF ShellRest
<1>7. ASSUME SubmitCompany  PROVE ShellRest'
  BY <1>7, SaysRest DEF SubmitCompany, shownVars, ShellRest
<1>8. ASSUME CompanyCreated  PROVE ShellRest'
  <2>1. WaitsOK'  BY <1>8 DEF CompanyCreated, RefreshUser, AskMe, WaitsOK, Awaited, NoRequest, ShownOK, shownVars
  <2>2. GuardsOK'  BY <1>8, <2>1 DEF CompanyCreated, RefreshUser, AskMe, GuardsOK, WaitsOK, ShownOK, shownVars
  <2>3. AskedOK'  BY <1>8, <2>1 DEF CompanyCreated, RefreshUser, AskMe, Because, Since, AskedOK, WaitsOK, ShownOK, shownVars
  <2>4. AgreesOK'  BY <1>8, <2>1 DEF CompanyCreated, RefreshUser, AskMe, Because, Since, AgreesOK, WaitsOK, ShownOK, shownVars
  <2>5. ShownOK' /\ ConnectionFollows'  BY <1>8, SaysRest DEF CompanyCreated, shownVars
  <2> QED  BY <2>1, <2>2, <2>3, <2>4, <2>5 DEF ShellRest
<1>9. ASSUME Leave  PROVE ShellRest'
  BY <1>9, SaysRest DEF Leave, shownVars, ShellRest
<1>10. ASSUME Left  PROVE ShellRest'
  <2>1. WaitsOK'  BY <1>10 DEF Left, Unclean, WaitsOK, Awaited, NoRequest, ShownOK, shownVars
  <2>2. ShownOK'  BY <1>10 DEF Left, Forget, ShownOK, shownVars
  <2>3. GuardsOK'  BY <1>10, <2>1 DEF Left, Forget, Guarded, Unclean, GuardsOK, WaitsOK, ShownOK, shownVars
  <2>4. AskedOK'  BY <1>10, <2>1 DEF Left, Unclean, Since, AskedOK, WaitsOK, ShownOK, shownVars
  <2>5. AgreesOK'  BY <1>10, <2>1 DEF Left, Forget, Unclean, Since, AgreesOK, WaitsOK, ShownOK, shownVars
  <2>6. ConnectionFollows'  BY <1>10 DEF Left, Forget, Reconnect, NoConnection, ConnectionFollows, ShownOK, shownVars
  <2> QED  BY <2>1, <2>2, <2>3, <2>4, <2>5, <2>6 DEF ShellRest
<1>11. ASSUME NEW p \in {OnLogin, "dashboard", "create"}, Navigate(p)  PROVE ShellRest'
  <2>1. GuardsOK'
    <3>1. restoring' = restoring /\ me' = me /\ user' = user /\ organizations' = organizations
      BY <1>11 DEF Navigate, shownVars
    <3>2. path' = Guarded(p)  BY <1>11 DEF Navigate
    <3>3. CASE restoring  BY <3>1, <3>3 DEF GuardsOK, Awaited
    <3>4. CASE ~restoring
      <4>1. user = NoOne => path' = OnLogin  BY <3>1, <3>2, <3>4 DEF Guarded
      <4>2. path' = "dashboard" => organizations # {}  BY <3>1, <3>2, <3>4 DEF Guarded
      <4> QED  BY <3>1, <3>4, <4>1, <4>2 DEF GuardsOK
    <3> QED  BY <3>3, <3>4 DEF GuardsOK, Awaited
  <2>2. WaitsOK' /\ ShownOK' /\ AskedOK' /\ AgreesOK' /\ ConnectionFollows'  BY <1>11, SaysRest DEF Navigate, shownVars
  <2> QED  BY <2>1, <2>2 DEF ShellRest
<1>12. ASSUME NEW p \in {OnLogin, "dashboard", "create"}, LoadPage(p)  PROVE ShellRest'
  <2>1. WaitsOK'  BY <1>12 DEF LoadPage, Boot, AskMe, WaitsOK, Awaited, NoRequest, ShownOK, shownVars
  <2>2. ShownOK'  BY <1>12 DEF LoadPage, Boot, ShownOK, shownVars
  <2>3. GuardsOK'  BY <1>12, <2>1 DEF LoadPage, Boot, AskMe, GuardsOK, WaitsOK, ShownOK, shownVars
  <2>4. AskedOK'  BY <1>12, <2>1 DEF LoadPage, Boot, AskMe, AskedOK, WaitsOK, ShownOK, shownVars
  <2>5. AgreesOK'  BY <1>12, <2>1 DEF LoadPage, Boot, AskMe, AgreesOK, WaitsOK, ShownOK, shownVars
  <2>6. ConnectionFollows'  BY <1>12 DEF LoadPage, Boot, NoConnection, ConnectionFollows, ShownOK, shownVars
  <2> QED  BY <2>1, <2>2, <2>3, <2>4, <2>5, <2>6 DEF ShellRest
<1>13. ASSUME SettingsSaved  PROVE ShellRest'
  <2>1. WaitsOK'  BY <1>13 DEF SettingsSaved, RefreshUser, AskMe, WaitsOK, Awaited, NoRequest, ShownOK, shownVars
  <2>2. GuardsOK'  BY <1>13, <2>1 DEF SettingsSaved, RefreshUser, AskMe, GuardsOK, WaitsOK, ShownOK, shownVars
  <2>3. AskedOK'  BY <1>13, <2>1 DEF SettingsSaved, RefreshUser, AskMe, AskedOK, WaitsOK, ShownOK, shownVars
  <2>4. AgreesOK'  BY <1>13, <2>1 DEF SettingsSaved, RefreshUser, AskMe, AgreesOK, WaitsOK, ShownOK, shownVars
  <2>5. ShownOK' /\ ConnectionFollows'  BY <1>13, SaysRest DEF SettingsSaved, shownVars
  <2> QED  BY <2>1, <2>2, <2>3, <2>4, <2>5 DEF ShellRest
<1>14. ASSUME PageUnauthorized  PROVE ShellRest'
  <2>1. CASE cookies' = [cookies EXCEPT !.fresh = TRUE] /\ UNCHANGED <<storedOrg, shownVars, restoring, path, me, entry, leaving>>
    <3>1. cookies'.who = cookies.who /\ UNCHANGED <<storedOrg, user, organizations, currentOrg, connection, restoring, path, me, members, cause>>
      BY <1>14, <2>1 DEF PageUnauthorized, shownVars
    <3>2. AskedOK' /\ AgreesOK'  BY <3>1 DEF AskedOK, AgreesOK, Awaited
    <3> QED  BY <3>1, <3>2, SaysRest DEF ShellRest
  <2>2. CASE cookies' = cookies /\ Boot(OnLogin, cookies)
    <3>1. restoring' /\ user' = NoOne /\ organizations' = {} /\ currentOrg' = NoOne /\ connection' = NoConnection
      BY <2>2 DEF Boot
    <3>2. me' = AskMe(cookies)  BY <2>2 DEF Boot
    <3>3. me'.state = "sent" /\ me'.sent \in {NoOne, cookies'.who}  BY <2>2, <3>2 DEF AskMe
    <3>4. Awaited'  BY <3>3, SentIsAwaited DEF Awaited
    <3> QED
      BY <3>1, <3>3, <3>4 DEF WaitsOK, ShownOK, GuardsOK, AskedOK, AgreesOK, ConnectionFollows, NoConnection
  <2> QED  BY <1>14, <2>1, <2>2 DEF PageUnauthorized
<1>15. ASSUME Handshake  PROVE ShellRest'
  <2>1. ConnectionFollows'  BY <1>15 DEF Handshake, ConnectionFollows, ShownOK, shownVars
  <2>2. WaitsOK' /\ ShownOK' /\ GuardsOK' /\ AskedOK' /\ AgreesOK'  BY <1>15, SaysRest DEF Handshake, shownVars
  <2> QED  BY <2>1, <2>2 DEF ShellRest
<1>16. ASSUME ConnectionDrops  PROVE ShellRest'
  <2>1. ConnectionFollows'  BY <1>16 DEF ConnectionDrops, ConnectionFollows, ShownOK, shownVars
  <2>2. WaitsOK' /\ ShownOK' /\ GuardsOK' /\ AskedOK' /\ AgreesOK'  BY <1>16, SaysRest DEF ConnectionDrops, shownVars
  <2> QED  BY <2>1, <2>2 DEF ShellRest
<1>17. ASSUME NEW o \in Companies, SwitchTo(o)  PROVE ShellRest'
  <2>1. ShownOK'  BY <1>17 DEF SwitchTo, ShownOK, shownVars
  <2>2. AgreesOK'
    <3>1. UNCHANGED <<cookies, members, user, organizations, me, cause>>  BY <1>17 DEF SwitchTo
    <3>2. storedOrg' = currentOrg'  BY <1>17 DEF SwitchTo
    <3> QED  BY <3>1, <3>2 DEF AgreesOK, Awaited
  <2>3. ConnectionFollows'  BY <1>17 DEF SwitchTo, Reconnect, NoConnection, ConnectionFollows, ShownOK, shownVars
  <2>4. WaitsOK' /\ GuardsOK' /\ AskedOK'  BY <1>17, SaysRest DEF SwitchTo, shownVars
  <2> QED  BY <2>1, <2>2, <2>3, <2>4 DEF ShellRest
<1>18. ASSUME Expires  PROVE ShellRest'
  <2>1. cookies'.who = cookies.who /\ UNCHANGED <<storedOrg, user, organizations, currentOrg, connection, restoring, path, me, members, cause>>
    BY <1>18 DEF Expires, shownVars
  <2>2. AskedOK' /\ AgreesOK'  BY <2>1 DEF AskedOK, AgreesOK, Awaited
  <2> QED  BY <2>1, <2>2, SaysRest DEF ShellRest
<1>19. ASSUME ElsewhereInBrowser  PROVE ShellRest'
  <2>1. WaitsOK'  BY <1>19 DEF ElsewhereInBrowser, Unclean, WaitsOK, Awaited, NoRequest, ShownOK, shownVars
  <2>2. GuardsOK'  BY <1>19, <2>1 DEF ElsewhereInBrowser, Unclean, GuardsOK, WaitsOK, ShownOK, shownVars
  <2>3. AskedOK'  BY <1>19, <2>1 DEF ElsewhereInBrowser, Because, Since, Unclean, AskedOK, WaitsOK, ShownOK, shownVars
  <2>4. AgreesOK'  BY <1>19, <2>1 DEF ElsewhereInBrowser, Because, Since, Unclean, AgreesOK, WaitsOK, ShownOK, shownVars
  <2>5. ShownOK' /\ ConnectionFollows'  BY <1>19, SaysRest DEF ElsewhereInBrowser, shownVars
  <2> QED  BY <2>1, <2>2, <2>3, <2>4, <2>5 DEF ShellRest
<1>20. ASSUME MembersChange  PROVE ShellRest'
  <2>1. WaitsOK'  BY <1>20 DEF MembersChange, Unclean, WaitsOK, Awaited, NoRequest, ShownOK, shownVars
  <2>2. GuardsOK'  BY <1>20, <2>1 DEF MembersChange, Unclean, GuardsOK, WaitsOK, ShownOK, shownVars
  <2>3. AskedOK'  BY <1>20, <2>1 DEF MembersChange, Because, Since, Unclean, AskedOK, WaitsOK, ShownOK, shownVars
  <2>4. AgreesOK'  BY <1>20, <2>1 DEF MembersChange, Because, Since, Unclean, AgreesOK, WaitsOK, ShownOK, shownVars
  <2>5. ShownOK' /\ ConnectionFollows'  BY <1>20, SaysRest DEF MembersChange, shownVars
  <2> QED  BY <2>1, <2>2, <2>3, <2>4, <2>5 DEF ShellRest
<1>21. CASE UNCHANGED shellVars
  BY <1>21, SaysRest DEF shellVars, ShellRest
<1> QED  BY <1>1, <1>2, <1>3, <1>4, <1>5, <1>6, <1>7, <1>8, <1>9, <1>10, <1>11, <1>12, <1>13, <1>14, <1>15, <1>16, <1>17, <1>18, <1>19, <1>20, <1>21 DEF ShellNext

LEMMA ShellStart == ShellInit => ShellTyped /\ ShellRest
<1> SUFFICES ASSUME ShellInit  PROVE ShellTyped /\ ShellRest
  OBVIOUS
<1> USE DEF ShellInit, NoOne, OnLogin
<1>1. ServerTypes /\ ShownTypes /\ PlaceTypes /\ FlagTypes /\ CauseTypes
  BY DEF ServerTypes, ShownTypes, PlaceTypes, FlagTypes, CauseTypes
<1>2. MeTypes /\ ConnectionTypes  BY DEF MeTypes, ConnectionTypes, NoRequest, NoConnection
<1>3. me.state = "sent" /\ me.sent = NoOne  BY DEF NoRequest
<1>4. Awaited  BY <1>3, SentIsAwaited DEF Awaited
<1>5. ConnectionFollows  BY ShellAssumption DEF ConnectionFollows, NoConnection
<1>6. ShownOK /\ GuardsOK /\ AskedOK /\ AgreesOK /\ WaitsOK
  BY <1>3, <1>4 DEF ShownOK, GuardsOK, AskedOK, AgreesOK, WaitsOK
<1> QED  BY <1>1, <1>2, <1>5, <1>6 DEF ShellTyped, ShellRest

LEMMA ShellInvariant == ShellSpec => [](ShellTyped /\ ShellRest)
<1>1. ShellTyped /\ ShellRest /\ [ShellNext]_shellVars => (ShellTyped /\ ShellRest)'
  BY ShellTypeStep, ShellRestStep
<1> QED  BY ShellStart, <1>1, PTL DEF ShellSpec

LEMMA ShellInvSays == ShellTyped /\ ShellRest => ShellTypeOK /\ TabIsItsAccounts
<1> SUFFICES ASSUME ShellTyped, ShellRest  PROVE ShellTypeOK /\ TabIsItsAccounts
  OBVIOUS
<1>1. ASSUME Quiet, cause = "none"
      PROVE  /\ user = cookies.who
             /\ organizations = (IF user = NoOne THEN {} ELSE members[user])
             /\ IF organizations = {} THEN currentOrg = NoOne
                ELSE currentOrg \in organizations /\ storedOrg = currentOrg
             /\ user = NoOne => path = OnLogin
             /\ path = "dashboard" => organizations # {}
  BY <1>1 DEF ShellRest, ShownOK, GuardsOK, AgreesOK, Quiet
<1>2. ShellAgrees  BY <1>1, Zenon DEF ShellAgrees
<1> QED  BY <1>2, TypesApart DEF ShellRest, TabIsItsAccounts

\* For any accounts and organizations, and however sign-ins, sign-outs, other
\* tabs and changes of membership interleave with the answers of /auth/me: a tab
\* that waits for nothing shows the account of the cookies and an organization of
\* it, is on a page it may be on and connected as it should be, unless one of the
\* causes Shell names came between (auth-context.tsx, dashboard layout).
THEOREM TabTellsAccount == ShellSpec => []TabIsItsAccounts
BY ShellInvariant, ShellInvSays, PTL

\* The cookies, what the tab shows, where it is and its connection keep their types.
THEOREM TabTyped == ShellSpec => []ShellTypeOK
BY ShellInvariant, ShellInvSays, PTL

-----------------------------------------------------------------------------
(* The pages: what they have in common *)

On(p, i) == \E c \in p.chains : c.first <= i /\ i <= c.last

\* What the pages have in common: chains lie within the lists, what is written
\* is in a list that is loaded, what is put into a list is shown there, events
\* are fed into lists of their own or have loaded ones read again; and what is
\* special about the page whose projects lead to its tasks, about those of one
\* row, and about the one that asks for the organization it was rendered with.
ChainLaw(p) == \A c \in p.chains : c.first \in Lists /\ c.last \in Lists /\ c.first <= c.last

OpLaw(p, op) ==
    /\ op.list \in Lists /\ op.after \in {"reload", "reread", "patch", "optimistic"}
    /\ On(p, op.list) \/ (p.leads /\ op.list = 2)
    /\ op.after \in {"patch", "optimistic"} => op.list \notin p.misread
    /\ op.after = "optimistic" => op.list \notin p.everyones

EventLaw(p) ==
    /\ \A i \in p.fed : i \in Lists /\ ~On(p, i) /\ ~p.leads
    /\ \A i \in p.woken : i \in Lists /\ (IF p.leads THEN i = 2 ELSE On(p, i)) /\ ~p.single /\ ~p.named

SingleLaw(p) ==
    /\ p.misread = {} /\ p.everyones = {} /\ ~p.leads /\ ~p.named
    /\ \A c \in p.chains : c.first = c.last

LeadLaw(p) ==
    /\ p.misread = {} /\ On(p, 1) /\ On(p, 3)
    /\ p.everyones = {3} /\ ~p.single /\ ~p.named
    /\ \A c \in p.chains : c.first = c.last /\ c.first # 2
    /\ \A op \in p.ops :
        /\ op.after # "reload"
        /\ op.after = "reread" => op.list = 2
        /\ op.list = 2 => op.after \in {"reread", "optimistic"}

PageLaws(p) ==
    /\ {p.leads, p.single, p.named} \subseteq BOOLEAN
    /\ ChainLaw(p) /\ (\A op \in p.ops : OpLaw(p, op)) /\ EventLaw(p)
    /\ p.leads => LeadLaw(p)
    /\ p.single => SingleLaw(p)

LEMMA FieldsOfPages ==
  /\ \A a, b : Chain(a, b).first = a /\ Chain(a, b).last = b
  /\ \A a, b : Op(a, b).list = a /\ Op(a, b).after = b
BY DEF Chain, Op

LEMMA LawsOfPages ==
  ASSUME NEW p \in Pages
  PROVE  PageLaws(p)
<1>1. CASE p = AgentsPage
  <2>1. /\ p.chains = {Chain(1, 2)} /\ p.misread = {} /\ p.everyones = {}
        /\ p.woken = {1} /\ p.fed = {3} /\ p.leads = FALSE /\ p.single = FALSE /\ p.named = FALSE
        /\ p.ops = {Op(1, "reload"), Op(1, "reread"), Op(1, "patch"), Op(2, "patch"), Op(2, "reread")}
    BY <1>1 DEF Page, Simple, AgentsPage
  <2>2. ChainLaw(p)  BY <2>1, FieldsOfPages DEF ChainLaw, Lists
  <2>3. On(p, 1) /\ On(p, 2) /\ ~On(p, 3)
    BY <2>1, FieldsOfPages DEF On
  <2>4. ASSUME NEW op \in p.ops  PROVE OpLaw(p, op)
    <3>1. op = Op(1, "reload") \/ op = Op(1, "reread") \/ op = Op(1, "patch") \/ op = Op(2, "patch") \/ op = Op(2, "reread")  BY <2>1
    <3> QED  BY <2>1, <2>3, <3>1, FieldsOfPages DEF OpLaw, Lists
  <2>5. p.leads => LeadLaw(p)  BY <2>1
  <2>6. p.single => SingleLaw(p)  BY <2>1
  <2>7. EventLaw(p)  BY <2>1, <2>3 DEF EventLaw, Lists
  <2> QED  BY <2>1, <2>2, <2>4, <2>5, <2>6, <2>7 DEF PageLaws
<1>2. CASE p = TasksPage
  <2>1. /\ p.chains = {Chain(1, 1), Chain(3, 3)} /\ p.misread = {} /\ p.everyones = {3}
        /\ p.woken = {2} /\ p.fed = {} /\ p.leads = TRUE /\ p.single = FALSE /\ p.named = FALSE
        /\ p.ops = {Op(2, "reread"), Op(2, "optimistic"), Op(3, "patch")}
    BY <1>2 DEF Page, Simple, TasksPage
  <2>2. ChainLaw(p)  BY <2>1, FieldsOfPages DEF ChainLaw, Lists
  <2>3. On(p, 1) /\ On(p, 3)
    BY <2>1, FieldsOfPages DEF On
  <2>4. ASSUME NEW op \in p.ops  PROVE OpLaw(p, op)
    <3>1. op = Op(2, "reread") \/ op = Op(2, "optimistic") \/ op = Op(3, "patch")  BY <2>1
    <3> QED  BY <2>1, <2>3, <3>1, FieldsOfPages DEF OpLaw, Lists
  <2>5. p.leads => LeadLaw(p)  BY <2>1, <2>3, FieldsOfPages DEF LeadLaw
  <2>6. p.single => SingleLaw(p)  BY <2>1
  <2>7. EventLaw(p)  BY <2>1, <2>3 DEF EventLaw, Lists
  <2> QED  BY <2>1, <2>2, <2>4, <2>5, <2>6, <2>7 DEF PageLaws
<1>3. CASE p = Simple
  <2>1. /\ p.chains = {Chain(1, 1)} /\ p.misread = {} /\ p.everyones = {}
        /\ p.woken = {} /\ p.fed = {} /\ p.leads = FALSE /\ p.single = FALSE /\ p.named = FALSE
        /\ p.ops = {Op(1, "reload")}
    BY <1>3 DEF Page, Simple
  <2>2. ChainLaw(p)  BY <2>1, FieldsOfPages DEF ChainLaw, Lists
  <2>3. On(p, 1)
    BY <2>1, FieldsOfPages DEF On
  <2>4. ASSUME NEW op \in p.ops  PROVE OpLaw(p, op)
    <3>1. op = Op(1, "reload")  BY <2>1
    <3> QED  BY <2>1, <2>3, <3>1, FieldsOfPages DEF OpLaw, Lists
  <2>5. p.leads => LeadLaw(p)  BY <2>1
  <2>6. p.single => SingleLaw(p)  BY <2>1
  <2>7. EventLaw(p)  BY <2>1 DEF EventLaw
  <2> QED  BY <2>1, <2>2, <2>4, <2>5, <2>6, <2>7 DEF PageLaws
<1>4. CASE p = ClientDetailPage
  <2>1. /\ p.chains = {Chain(1, 1)} /\ p.misread = {} /\ p.everyones = {}
        /\ p.woken = {} /\ p.fed = {} /\ p.leads = FALSE /\ p.single = TRUE /\ p.named = FALSE
        /\ p.ops = {Op(1, "reload")}
    BY <1>4 DEF Page, Simple, ClientDetailPage
  <2>2. ChainLaw(p)  BY <2>1, FieldsOfPages DEF ChainLaw, Lists
  <2>3. On(p, 1)
    BY <2>1, FieldsOfPages DEF On
  <2>4. ASSUME NEW op \in p.ops  PROVE OpLaw(p, op)
    <3>1. op = Op(1, "reload")  BY <2>1
    <3> QED  BY <2>1, <2>3, <3>1, FieldsOfPages DEF OpLaw, Lists
  <2>5. p.leads => LeadLaw(p)  BY <2>1
  <2>6. p.single => SingleLaw(p)  BY <2>1, FieldsOfPages DEF SingleLaw
  <2>7. EventLaw(p)  BY <2>1 DEF EventLaw
  <2> QED  BY <2>1, <2>2, <2>4, <2>5, <2>6, <2>7 DEF PageLaws
<1>5. CASE p = ProjectDetailPage
  <2>1. /\ p.chains = {Chain(1, 1)} /\ p.misread = {} /\ p.everyones = {}
        /\ p.woken = {} /\ p.fed = {} /\ p.leads = FALSE /\ p.single = TRUE /\ p.named = FALSE
        /\ p.ops = {Op(1, "reload"), Op(1, "optimistic")}
    BY <1>5 DEF Page, Simple, ClientDetailPage, ProjectDetailPage
  <2>2. ChainLaw(p)  BY <2>1, FieldsOfPages DEF ChainLaw, Lists
  <2>3. On(p, 1)
    BY <2>1, FieldsOfPages DEF On
  <2>4. ASSUME NEW op \in p.ops  PROVE OpLaw(p, op)
    <3>1. op = Op(1, "reload") \/ op = Op(1, "optimistic")  BY <2>1
    <3> QED  BY <2>1, <2>3, <3>1, FieldsOfPages DEF OpLaw, Lists
  <2>5. p.leads => LeadLaw(p)  BY <2>1
  <2>6. p.single => SingleLaw(p)  BY <2>1, FieldsOfPages DEF SingleLaw
  <2>7. EventLaw(p)  BY <2>1 DEF EventLaw
  <2> QED  BY <2>1, <2>2, <2>4, <2>5, <2>6, <2>7 DEF PageLaws
<1>6. CASE p = DocumentsPage
  <2>1. /\ p.chains = {Chain(1, 2)} /\ p.misread = {1} /\ p.everyones = {}
        /\ p.woken = {} /\ p.fed = {} /\ p.leads = FALSE /\ p.single = FALSE /\ p.named = FALSE
        /\ p.ops = {Op(1, "reload"), Op(2, "reload")}
    BY <1>6 DEF Page, Simple, DocumentsPage
  <2>2. ChainLaw(p)  BY <2>1, FieldsOfPages DEF ChainLaw, Lists
  <2>3. On(p, 1) /\ On(p, 2)
    BY <2>1, FieldsOfPages DEF On
  <2>4. ASSUME NEW op \in p.ops  PROVE OpLaw(p, op)
    <3>1. op = Op(1, "reload") \/ op = Op(2, "reload")  BY <2>1
    <3> QED  BY <2>1, <2>3, <3>1, FieldsOfPages DEF OpLaw, Lists
  <2>5. p.leads => LeadLaw(p)  BY <2>1
  <2>6. p.single => SingleLaw(p)  BY <2>1
  <2>7. EventLaw(p)  BY <2>1 DEF EventLaw
  <2> QED  BY <2>1, <2>2, <2>4, <2>5, <2>6, <2>7 DEF PageLaws
<1>7. CASE p = HrPage
  <2>1. /\ p.chains = {Chain(1, 3)} /\ p.misread = {2} /\ p.everyones = {2, 3}
        /\ p.woken = {} /\ p.fed = {} /\ p.leads = FALSE /\ p.single = FALSE /\ p.named = FALSE
        /\ p.ops = {Op(2, "reload"), Op(3, "reload")}
    BY <1>7 DEF Page, Simple, HrPage
  <2>2. ChainLaw(p)  BY <2>1, FieldsOfPages DEF ChainLaw, Lists
  <2>3. On(p, 1) /\ On(p, 2) /\ On(p, 3)
    BY <2>1, FieldsOfPages DEF On
  <2>4. ASSUME NEW op \in p.ops  PROVE OpLaw(p, op)
    <3>1. op = Op(2, "reload") \/ op = Op(3, "reload")  BY <2>1
    <3> QED  BY <2>1, <2>3, <3>1, FieldsOfPages DEF OpLaw, Lists
  <2>5. p.leads => LeadLaw(p)  BY <2>1
  <2>6. p.single => SingleLaw(p)  BY <2>1
  <2>7. EventLaw(p)  BY <2>1 DEF EventLaw
  <2> QED  BY <2>1, <2>2, <2>4, <2>5, <2>6, <2>7 DEF PageLaws
<1>8. CASE p = QuotationsPage
  <2>1. /\ p.chains = {Chain(1, 1), Chain(2, 2)} /\ p.misread = {} /\ p.everyones = {}
        /\ p.woken = {} /\ p.fed = {} /\ p.leads = FALSE /\ p.single = FALSE /\ p.named = FALSE
        /\ p.ops = {Op(1, "reload")}
    BY <1>8 DEF Page, Simple, QuotationsPage
  <2>2. ChainLaw(p)  BY <2>1, FieldsOfPages DEF ChainLaw, Lists
  <2>3. On(p, 1) /\ On(p, 2)
    BY <2>1, FieldsOfPages DEF On
  <2>4. ASSUME NEW op \in p.ops  PROVE OpLaw(p, op)
    <3>1. op = Op(1, "reload")  BY <2>1
    <3> QED  BY <2>1, <2>3, <3>1, FieldsOfPages DEF OpLaw, Lists
  <2>5. p.leads => LeadLaw(p)  BY <2>1
  <2>6. p.single => SingleLaw(p)  BY <2>1
  <2>7. EventLaw(p)  BY <2>1 DEF EventLaw
  <2> QED  BY <2>1, <2>2, <2>4, <2>5, <2>6, <2>7 DEF PageLaws
<1>9. CASE p = InvoicesPage
  <2>1. /\ p.chains = {Chain(1, 2), Chain(3, 3)} /\ p.misread = {} /\ p.everyones = {}
        /\ p.woken = {} /\ p.fed = {} /\ p.leads = FALSE /\ p.single = FALSE /\ p.named = FALSE
        /\ p.ops = {Op(1, "reload")}
    BY <1>9 DEF Page, Simple, InvoicesPage
  <2>2. ChainLaw(p)  BY <2>1, FieldsOfPages DEF ChainLaw, Lists
  <2>3. On(p, 1) /\ On(p, 2) /\ On(p, 3)
    BY <2>1, FieldsOfPages DEF On
  <2>4. ASSUME NEW op \in p.ops  PROVE OpLaw(p, op)
    <3>1. op = Op(1, "reload")  BY <2>1
    <3> QED  BY <2>1, <2>3, <3>1, FieldsOfPages DEF OpLaw, Lists
  <2>5. p.leads => LeadLaw(p)  BY <2>1
  <2>6. p.single => SingleLaw(p)  BY <2>1
  <2>7. EventLaw(p)  BY <2>1 DEF EventLaw
  <2> QED  BY <2>1, <2>2, <2>4, <2>5, <2>6, <2>7 DEF PageLaws
<1>10. CASE p = ExpensesPage
  <2>1. /\ p.chains = {Chain(1, 3)} /\ p.misread = {2, 3} /\ p.everyones = {}
        /\ p.woken = {} /\ p.fed = {} /\ p.leads = FALSE /\ p.single = FALSE /\ p.named = FALSE
        /\ p.ops = {Op(1, "reload")}
    BY <1>10 DEF Page, Simple, ExpensesPage
  <2>2. ChainLaw(p)  BY <2>1, FieldsOfPages DEF ChainLaw, Lists
  <2>3. On(p, 1) /\ On(p, 2) /\ On(p, 3)
    BY <2>1, FieldsOfPages DEF On
  <2>4. ASSUME NEW op \in p.ops  PROVE OpLaw(p, op)
    <3>1. op = Op(1, "reload")  BY <2>1
    <3> QED  BY <2>1, <2>3, <3>1, FieldsOfPages DEF OpLaw, Lists
  <2>5. p.leads => LeadLaw(p)  BY <2>1
  <2>6. p.single => SingleLaw(p)  BY <2>1
  <2>7. EventLaw(p)  BY <2>1 DEF EventLaw
  <2> QED  BY <2>1, <2>2, <2>4, <2>5, <2>6, <2>7 DEF PageLaws
<1>11. CASE p = PaymentsPage
  <2>1. /\ p.chains = {Chain(1, 1)} /\ p.misread = {} /\ p.everyones = {}
        /\ p.woken = {} /\ p.fed = {} /\ p.leads = FALSE /\ p.single = FALSE /\ p.named = FALSE
        /\ p.ops = {Op(1, "reload")}
    BY <1>11 DEF Page, Simple, PaymentsPage
  <2>2. ChainLaw(p)  BY <2>1, FieldsOfPages DEF ChainLaw, Lists
  <2>3. On(p, 1)
    BY <2>1, FieldsOfPages DEF On
  <2>4. ASSUME NEW op \in p.ops  PROVE OpLaw(p, op)
    <3>1. op = Op(1, "reload")  BY <2>1
    <3> QED  BY <2>1, <2>3, <3>1, FieldsOfPages DEF OpLaw, Lists
  <2>5. p.leads => LeadLaw(p)  BY <2>1
  <2>6. p.single => SingleLaw(p)  BY <2>1
  <2>7. EventLaw(p)  BY <2>1 DEF EventLaw
  <2> QED  BY <2>1, <2>2, <2>4, <2>5, <2>6, <2>7 DEF PageLaws
<1>12. CASE p = SettingsPage
  <2>1. /\ p.chains = {Chain(1, 2)} /\ p.misread = {} /\ p.everyones = {1}
        /\ p.woken = {} /\ p.fed = {} /\ p.leads = FALSE /\ p.single = FALSE /\ p.named = TRUE
        /\ p.ops = {Op(1, "patch"), Op(2, "reread")}
    BY <1>12 DEF Page, Simple, SettingsPage
  <2>2. ChainLaw(p)  BY <2>1, FieldsOfPages DEF ChainLaw, Lists
  <2>3. On(p, 1) /\ On(p, 2)
    BY <2>1, FieldsOfPages DEF On
  <2>4. ASSUME NEW op \in p.ops  PROVE OpLaw(p, op)
    <3>1. op = Op(1, "patch") \/ op = Op(2, "reread")  BY <2>1
    <3> QED  BY <2>1, <2>3, <3>1, FieldsOfPages DEF OpLaw, Lists
  <2>5. p.leads => LeadLaw(p)  BY <2>1
  <2>6. p.single => SingleLaw(p)  BY <2>1
  <2>7. EventLaw(p)  BY <2>1 DEF EventLaw
  <2> QED  BY <2>1, <2>2, <2>4, <2>5, <2>6, <2>7 DEF PageLaws
<1>13. CASE p = HomePage
  <2>1. /\ p.chains = {Chain(1, 2)} /\ p.misread = {} /\ p.everyones = {}
        /\ p.woken = {} /\ p.fed = {} /\ p.leads = FALSE /\ p.single = FALSE /\ p.named = FALSE
        /\ p.ops = {}
    BY <1>13 DEF Page, Simple, HomePage
  <2>2. ChainLaw(p)  BY <2>1, FieldsOfPages DEF ChainLaw, Lists
  <2>3. On(p, 1) /\ On(p, 2)
    BY <2>1, FieldsOfPages DEF On
  <2>4. ASSUME NEW op \in p.ops  PROVE OpLaw(p, op)
    BY <2>1
  <2>5. p.leads => LeadLaw(p)  BY <2>1
  <2>6. p.single => SingleLaw(p)  BY <2>1
  <2>7. EventLaw(p)  BY <2>1 DEF EventLaw
  <2> QED  BY <2>1, <2>2, <2>4, <2>5, <2>6, <2>7 DEF PageLaws
<1>14. CASE p = ChatPage
  <2>1. /\ p.chains = {Chain(1, 1)} /\ p.misread = {} /\ p.everyones = {}
        /\ p.woken = {} /\ p.fed = {} /\ p.leads = FALSE /\ p.single = FALSE /\ p.named = FALSE
        /\ p.ops = {}
    BY <1>14 DEF Page, Simple, ChatPage
  <2>2. ChainLaw(p)  BY <2>1, FieldsOfPages DEF ChainLaw, Lists
  <2>3. On(p, 1)
    BY <2>1, FieldsOfPages DEF On
  <2>4. ASSUME NEW op \in p.ops  PROVE OpLaw(p, op)
    BY <2>1
  <2>5. p.leads => LeadLaw(p)  BY <2>1
  <2>6. p.single => SingleLaw(p)  BY <2>1
  <2>7. EventLaw(p)  BY <2>1 DEF EventLaw
  <2> QED  BY <2>1, <2>2, <2>4, <2>5, <2>6, <2>7 DEF PageLaws
<1> QED
  BY <1>1, <1>2, <1>3, <1>4, <1>5, <1>6, <1>7, <1>8, <1>9, <1>10, <1>11, <1>12, <1>13, <1>14
  DEF Pages, ProjectsPage, LeadsPage, ClientsPage, TeamsPage

-----------------------------------------------------------------------------
(* The pages: types *)

Named == Orgs \cup {NoProject}
Owners == Orgs \cup {NoProject, Astray, Everyone}
ListSet(n) == [org : Owners, seen : SUBSET (1..n)]
LoadSet(r, n) ==
    [run : 1..r, at : Lists, last : Lists, org : Orgs, of : Named, got : BOOLEAN, seen : SUBSET (1..n)]
WriteSet(ops, n) ==
    [no : 1..n, op : ops, org : Orgs, of : Owners, before : ListSet(n), state : {"sent", "done", "refused"}]
AckSet(n) == [no : 1..n, org : Orgs, list : Lists]
Troubles == {"none", "overtaken", "outrun", "failed", "crossed", "restored", "left", "astray"}

\* The shape of a state: what a list shows, what a load and a write are.
TabShape == page \in Pages /\ current \in Orgs /\ kept \in Orgs /\ selected \in Named /\ loading \in BOOLEAN
ListShape == lists \in [Lists -> ListSet(written)]
LoadShape == runs \in 1..MaxRuns /\ newest \in [Lists -> 0..runs] /\ loads \subseteq LoadSet(runs, written)
WriteShape ==
    /\ written \in 0..MaxWrites /\ writes \subseteq WriteSet(page.ops, written)
    /\ \A w \in writes : ~OnRow(w.op) => w.of \in Named
DataShape == data \in [Orgs -> SUBSET (1..written)] /\ acked \subseteq AckSet(written)
TroubleShape == trouble \in Troubles
PageShape == TabShape /\ ListShape /\ LoadShape /\ WriteShape /\ DataShape /\ TroubleShape

LEMMA ShapesGrow ==
  ASSUME NEW n \in Nat, NEW m \in Nat, n <= m, NEW r \in Nat, NEW s \in Nat, r <= s, NEW ops
  PROVE  /\ ListSet(n) \subseteq ListSet(m)
         /\ LoadSet(r, n) \subseteq LoadSet(s, m)
         /\ WriteSet(ops, n) \subseteq WriteSet(ops, m)
         /\ AckSet(n) \subseteq AckSet(m)
         /\ SUBSET (1..n) \subseteq SUBSET (1..m)
<1>1. 1..n \subseteq 1..m /\ 1..r \subseteq 1..s  OBVIOUS
<1>2. ListSet(n) \subseteq ListSet(m)  BY <1>1 DEF ListSet
<1>3. LoadSet(r, n) \subseteq LoadSet(s, m)  BY <1>1 DEF LoadSet
<1>4. WriteSet(ops, n) \subseteq WriteSet(ops, m)  BY <1>1, <1>2 DEF WriteSet
<1>5. AckSet(n) \subseteq AckSet(m)  BY <1>1 DEF AckSet
<1> QED  BY <1>1, <1>2, <1>3, <1>4, <1>5

LEMMA RunShape ==
  ASSUME NEW r \in Nat \ {0}, NEW n \in Nat, NEW chains, NEW asker \in Orgs, NEW of \in Named,
         \A c \in chains : c.first \in Lists /\ c.last \in Lists
  PROVE  Run(r, chains, asker, of) \subseteq LoadSet(r, n)
<1> SUFFICES ASSUME NEW f \in Run(r, chains, asker, of)  PROVE f \in LoadSet(r, n)
  OBVIOUS
<1>1. PICK c \in chains :
        f = [run |-> r, at |-> c.first, last |-> c.last, org |-> asker, of |-> of, got |-> FALSE, seen |-> {}]
  BY DEF Run
<1>2. r \in 1..r /\ c.first \in Lists /\ c.last \in Lists  OBVIOUS
<1> QED  BY <1>1, <1>2 DEF LoadSet

LEMMA AgainLawful ==
  ASSUME NEW w, page \in Pages, w.op \in page.ops
  PROVE  \A c \in Again(w.op) : c.first \in Lists /\ c.last \in Lists /\ c.first <= c.last
<1>1. PageLaws(page)  BY LawsOfPages
<1> QED  BY <1>1, FieldsOfPages DEF Again, PageLaws, ChainLaw, OpLaw, Lists

LEMMA FirstShape ==
  ASSUME TroubleShape, NEW why \in Troubles \ {"none"}
  PROVE  First(why) \in Troubles /\ First(why) # "none"
BY DEF First, TroubleShape, Troubles

\* The request that follows one: for list i, up to l, about o's project.
AskFor(f, i, l, o) == [f EXCEPT !.at = i, !.last = l, !.org = Sender(f.org), !.of = o, !.got = FALSE, !.seen = {}]
Then(f) ==
    IF f.at < f.last THEN {AskFor(f, f.at + 1, f.last, Sender(f.org))}
    ELSE IF Selects(f) /\ selected # f.org THEN {AskFor(f, 2, 2, f.org)} ELSE {}

LEMMA TakeEffect ==
  ASSUME NEW f, TakeLoad(f)
  PROVE  /\ f.got /\ loads' = (loads \ {f}) \cup Then(f)
         /\ newest' = [newest EXCEPT ![f.at] = f.run]
         /\ lists' = IF f.at \in page.misread THEN lists ELSE Put(f.at, [org |-> Shown(f), seen |-> f.seen])
         /\ selected' = IF Selects(f) THEN f.org ELSE selected
         /\ UNCHANGED <<page, current, kept, runs, writes, written, data, acked>>
BY DEF TakeLoad, Then, AskFor

\* The rows of an organization are its own, everyone's are those of all.
LEMMA RowsAre ==
  /\ RowsOf(NoProject) = {} /\ RowsOf(Astray) = {}
  /\ \A o \in Orgs : RowsOf(o) = data[o]
  /\ \A i : \A o \in Orgs : data[o] \subseteq RowsOf(Owner(i, o))
  /\ \A i : \A o \in Orgs : Owner(i, o) \in Orgs \cup {Everyone}
  /\ \A f : Shown(f) = Astray \/ Shown(f) = Owner(f.at, f.org)
  /\ Everyone # NoProject /\ Everyone # Astray /\ \A o \in Orgs : o \notin {NoProject, Astray, Everyone}
BY DashboardAssumption DEF RowsOf, Owner, Shown, NoProject, Astray, Everyone

LEMMA RowsShape ==
  ASSUME PageShape, NEW o
  PROVE  RowsOf(o) \subseteq 1..written
<1>1. \A q \in Orgs : data[q] \subseteq 1..written  BY DEF PageShape, DataShape
<1> QED  BY <1>1 DEF RowsOf

LEMMA ServeLoadShape ==
  ASSUME PageShape, NEW f \in loads, ServeLoad(f)
  PROVE  PageShape'
<1> USE DEF PageShape
<1>1. TabShape' /\ TroubleShape'  BY DEF ServeLoad, TabShape, TroubleShape
<1>2. ListShape' /\ WriteShape' /\ DataShape'  BY DEF ServeLoad, ListShape, WriteShape, DataShape, OnRow, Ahead
<1>3. LoadShape'
  <2>1. f \in LoadSet(runs, written)  BY DEF LoadShape
  <2>2. RowsOf(Shown(f)) \in SUBSET (1..written)  BY RowsShape
  <2>3. [f EXCEPT !.got = TRUE, !.seen = RowsOf(Shown(f))] \in LoadSet(runs, written)
    BY <2>1, <2>2 DEF LoadSet
  <2> QED  BY <2>3 DEF ServeLoad, LoadShape
<1> QED  BY <1>1, <1>2, <1>3

LEMMA TakeLoadShape ==
  ASSUME PageShape, NEW f \in loads, TakeLoad(f)
  PROVE  PageShape'
<1> USE DEF PageShape
<1>1. f \in LoadSet(runs, written)  BY DEF LoadShape
<1>2. f.at \in Lists /\ f.run \in 1..runs /\ f.org \in Orgs /\ f.of \in Named /\ f.seen \subseteq 1..written /\ f.last \in Lists
  BY <1>1 DEF LoadSet
<1>3. TabShape'
  <2>1. selected' \in Named  BY <1>2 DEF TakeLoad, TabShape, Named
  <2>2. loading' = loading \/ loading' = (loading /\ \E g \in loads \ {f} : g.run = f.run)
    BY DEF TakeLoad, Finish
  <2>3. loading' \in BOOLEAN  BY <2>2 DEF TabShape
  <2> QED  BY <2>1, <2>3 DEF TakeLoad, TabShape
<1>4. ListShape'
  <2>1. Shown(f) \in Owners  BY <1>2 DEF Shown, Owner, Owners
  <2>2. [org |-> Shown(f), seen |-> f.seen] \in ListSet(written)  BY <2>1, <1>2 DEF ListSet
  <2> QED  BY <2>2, <1>2 DEF TakeLoad, Put, ListShape
<1>5. LoadShape'
  <2>1. ASSUME NEW a \in Lists, NEW l \in Lists, NEW o \in Named
        PROVE  AskFor(f, a, l, o) \in LoadSet(runs, written)
    BY <2>1, <1>1 DEF AskFor, LoadSet, TabShape, Sender
  <2>2. Sender(f.org) \in Named /\ f.org \in Named /\ 2 \in Lists  BY <1>2 DEF TabShape, Named, Lists, Sender
  <2>3. f.at < f.last => f.at + 1 \in Lists  BY <1>2 DEF Lists
  <2>4. Then(f) \subseteq LoadSet(runs, written)  BY <2>1, <2>2, <2>3, <1>2 DEF Then
  <2>6. loads' \subseteq LoadSet(runs, written)  BY <2>4, TakeEffect DEF LoadShape
  <2>5. newest' \in [Lists -> 0..runs]  BY <1>2 DEF TakeLoad, LoadShape
  <2> QED  BY <2>5, <2>6 DEF TakeLoad, LoadShape
<1>6. WriteShape' /\ DataShape'  BY DEF TakeLoad, WriteShape, DataShape, OnRow, Ahead
<1>7. TroubleShape'
  BY FirstShape DEF TakeLoad, TroubleShape, Troubles
<1> QED  BY <1>3, <1>4, <1>5, <1>6, <1>7

LEMMA FailLoadShape ==
  ASSUME PageShape, NEW f \in loads, FailLoad(f)
  PROVE  PageShape' /\ trouble' # "none"
<1> USE DEF PageShape
<1>1. TabShape'
  <2>1. loading' \in BOOLEAN  BY DEF FailLoad, Finish, TabShape
  <2> QED  BY <2>1 DEF FailLoad, TabShape
<1>2. ListShape'
  <2>1. [org |-> Astray, seen |-> {}] \in ListSet(written)  BY DEF ListSet, Owners
  <2> QED  BY <2>1 DEF FailLoad, ListShape
<1>3. LoadShape' /\ WriteShape' /\ DataShape'  BY DEF FailLoad, LoadShape, WriteShape, DataShape, OnRow, Ahead
<1>4. TroubleShape' /\ trouble' # "none"  BY FirstShape DEF FailLoad, TroubleShape, Troubles
<1> QED  BY <1>1, <1>2, <1>3, <1>4

LEMMA SwitchShape ==
  ASSUME PageShape, NEW o \in Orgs, Switch(o)
  PROVE  PageShape'
<1> USE DEF PageShape
<1>1. TabShape'
  <2>1. loading' \in BOOLEAN  BY DEF Switch, Reload, TabShape
  <2> QED  BY <2>1 DEF Switch, TabShape
<1>2. ListShape' /\ WriteShape' /\ DataShape'  BY DEF Switch, ListShape, WriteShape, DataShape, OnRow, Ahead
<1>3. LoadShape'
  <2>1. PageLaws(page)  BY LawsOfPages DEF TabShape
  <2>2. runs \in Nat /\ runs + 1 \in Nat \ {0} /\ written \in Nat  BY DashboardAssumption DEF LoadShape, WriteShape
  <2> DEFINE of == IF page.single THEN selected ELSE o
  <2>6. of \in Named /\ \A c \in page.chains : c.first \in Lists /\ c.last \in Lists
    BY <2>1 DEF PageLaws, ChainLaw, TabShape, Named
  <2>3. Run(runs + 1, page.chains, o, of) \subseteq LoadSet(runs + 1, written)
    BY <2>2, <2>6, RunShape
  <2>4. LoadSet(runs, written) \subseteq LoadSet(runs + 1, written)  BY <2>2, ShapesGrow
  <2>5. runs' \in 1..MaxRuns /\ newest' \in [Lists -> 0..runs']  BY DashboardAssumption DEF Switch, Reload, LoadShape
  <2> QED  BY <2>3, <2>4, <2>5 DEF Switch, Reload, LoadShape
<1>4. TroubleShape'  BY FirstShape DEF Switch, TroubleShape, Troubles
<1> QED  BY <1>1, <1>2, <1>3, <1>4

LEMMA OtherTabShape ==
  ASSUME PageShape, NEW o \in Orgs, OtherTab(o)
  PROVE  PageShape' /\ trouble' # "none"
<1> USE DEF PageShape
<1>1. TabShape'  BY DEF OtherTab, TabShape
<1>2. ListShape' /\ WriteShape' /\ DataShape' /\ LoadShape'
  BY DEF OtherTab, ListShape, WriteShape, DataShape, LoadShape, OnRow, Ahead
<1>3. TroubleShape' /\ trouble' # "none"  BY FirstShape DEF OtherTab, TroubleShape, Troubles
<1> QED  BY <1>1, <1>2, <1>3

LEMMA EventShape ==
  ASSUME PageShape, NEW i \in Lists, Event(i)
  PROVE  PageShape'
<1> USE DEF PageShape
<1>1. TabShape' /\ TroubleShape' /\ LoadShape' /\ WriteShape' /\ DataShape'
  BY DEF Event, TabShape, TroubleShape, LoadShape, WriteShape, DataShape, OnRow, Ahead
<1>2. PICK o \in Owners : lists' = [lists EXCEPT ![i].org = o]
  <2>1. current \in Owners /\ Everyone \in Owners  BY DEF TabShape, Owners
  <2> QED  BY <2>1 DEF Event
<1>3. [lists[i] EXCEPT !.org = o] \in ListSet(written)  BY DEF ListShape, ListSet
<1>4. ListShape'
  <2>1. lists' = [lists EXCEPT ![i] = [lists[i] EXCEPT !.org = o]]  BY <1>2
  <2> QED  BY <2>1, <1>3 DEF Event, ListShape
<1> QED  BY <1>1, <1>4

LEMMA WakeShape ==
  ASSUME PageShape, NEW i \in Lists, Wake(i)
  PROVE  PageShape'
<1> USE DEF PageShape
<1>1. TabShape' /\ TroubleShape' /\ ListShape' /\ WriteShape' /\ DataShape'
  BY DEF Wake, TabShape, TroubleShape, ListShape, WriteShape, DataShape, OnRow, Ahead
<1>2. LoadShape'
  <2>1. runs \in Nat /\ runs + 1 \in Nat \ {0} /\ written \in Nat  BY DashboardAssumption DEF LoadShape, WriteShape
  <2> DEFINE of == IF page.leads THEN selected ELSE kept
  <2>2. of \in Named /\ kept \in Orgs /\ \A c \in {Chain(i, i)} : c.first \in Lists /\ c.last \in Lists
    BY FieldsOfPages DEF TabShape, Named
  <2>3. Run(runs + 1, {Chain(i, i)}, kept, of) \subseteq LoadSet(runs + 1, written)
    BY <2>1, <2>2, RunShape
  <2>4. LoadSet(runs, written) \subseteq LoadSet(runs + 1, written)  BY <2>1, ShapesGrow
  <2>5. runs' \in 1..MaxRuns /\ newest' \in [Lists -> 0..runs']  BY DashboardAssumption DEF Wake, LoadShape
  <2> QED  BY <2>3, <2>4, <2>5 DEF Wake, LoadShape
<1> QED  BY <1>1, <1>2

LEMMA WriteStepShape ==
  ASSUME PageShape, NEW op \in page.ops, Write(op)
  PROVE  PageShape'
<1> USE DEF PageShape
<1>1. TabShape' /\ TroubleShape'  BY DEF Write, TabShape, TroubleShape
<1>2. written \in Nat /\ written' = written + 1 /\ written' \in 0..MaxWrites /\ runs \in Nat
  BY DashboardAssumption DEF Write, WriteShape, LoadShape
<1>3. /\ ListSet(written) \subseteq ListSet(written + 1)
      /\ LoadSet(runs, written) \subseteq LoadSet(runs, written + 1)
      /\ WriteSet(page.ops, written) \subseteq WriteSet(page.ops, written + 1)
      /\ AckSet(written) \subseteq AckSet(written + 1)
      /\ SUBSET (1..written) \subseteq SUBSET (1..(written + 1))
  <2>1. written <= written + 1 /\ runs <= runs /\ written + 1 \in Nat  BY <1>2
  <2> QED  BY <1>2, <2>1, ShapesGrow
<1>4. op.list \in Lists  BY LawsOfPages DEF TabShape, PageLaws, OpLaw
<1>5. lists[op.list] \in ListSet(written)  BY <1>4 DEF ListShape
<1>6. ListShape'
  <2>1. [lists[op.list] EXCEPT !.seen = @ \cup {written + 1}] \in ListSet(written + 1)
    BY <1>5, <1>2 DEF ListSet
  <2>2. lists \in [Lists -> ListSet(written + 1)]  BY <1>3 DEF ListShape
  <2>3. lists' = lists \/ lists' = [lists EXCEPT ![op.list] = [lists[op.list] EXCEPT !.seen = @ \cup {written + 1}]]
    BY DEF Write
  <2> QED  BY <1>2, <1>4, <2>1, <2>2, <2>3 DEF ListShape
<1>7. LoadShape'  BY <1>2, <1>3 DEF Write, LoadShape
<1>8. WriteShape'
  <2>1. About(op) \in Owners /\ (~OnRow(op) => About(op) \in Named) /\ Sender(current) \in Orgs
    BY <1>5 DEF About, ListSet, TabShape, Named, Owners, Sender
  <2> DEFINE w == [no |-> written + 1, op |-> op, org |-> Sender(current), of |-> About(op), before |-> lists[op.list], state |-> "sent"]
  <2>2. w \in WriteSet(page.ops, written + 1)
    BY <1>2, <1>3, <1>5, <2>1 DEF WriteSet, TabShape
  <2>3. w.op = op /\ w.of = About(op)  OBVIOUS
  <2>4. writes' = writes \cup {w} /\ page' = page  BY DEF Write
  <2> HIDE DEF w
  <2>5. \A v \in writes' : ~OnRow(v.op) => v.of \in Named
    BY <2>1, <2>3, <2>4 DEF WriteShape
  <2>6. writes' \subseteq WriteSet(page.ops, written + 1)  BY <1>3, <2>2, <2>4 DEF WriteShape
  <2> QED  BY <1>2, <2>4, <2>5, <2>6 DEF WriteShape, OnRow, Ahead, Named
<1>9. DataShape'
  <2>1. data \in [Orgs -> SUBSET (1..(written + 1))]  BY <1>3 DEF DataShape
  <2> QED  BY <1>2, <1>3, <2>1 DEF Write, DataShape
<1> QED  BY <1>1, <1>6, <1>7, <1>8, <1>9

LEMMA ServeWriteShape ==
  ASSUME PageShape, NEW w \in writes, ServeWrite(w)
  PROVE  PageShape'
<1> USE DEF PageShape
<1>1. TabShape' /\ TroubleShape' /\ ListShape' /\ LoadShape'
  BY DEF ServeWrite, TabShape, TroubleShape, ListShape, LoadShape
<1>2. w \in WriteSet(page.ops, written)  BY DEF WriteShape
<1>3. PICK s \in {"done", "refused"} : writes' = (writes \ {w}) \cup {[w EXCEPT !.state = s]}
  BY DEF ServeWrite
<1>4. [w EXCEPT !.state = s] \in WriteSet(page.ops, written) /\ [w EXCEPT !.state = s].op = w.op /\ [w EXCEPT !.state = s].of = w.of
  BY <1>2 DEF WriteSet
<1>5. WriteShape'
  <2>1. \A v \in writes' : ~OnRow(v.op) => v.of \in Named
    BY <1>3, <1>4 DEF WriteShape
  <2> QED  BY <1>3, <1>4, <2>1 DEF ServeWrite, WriteShape, OnRow, Ahead, Named
<1>6. DataShape'
  <2>1. w.org \in Orgs /\ w.no \in 1..written  BY <1>2 DEF WriteSet
  <2>2. data' = data \/ data' = [data EXCEPT ![w.org] = @ \cup {w.no}]  BY DEF ServeWrite
  <2>3. data' \in [Orgs -> SUBSET (1..written)]  BY <2>1, <2>2 DEF DataShape
  <2> QED  BY <2>3 DEF ServeWrite, DataShape
<1> QED  BY <1>1, <1>5, <1>6

LEMMA RefusedShape ==
  ASSUME PageShape, NEW w \in writes, Refused(w)
  PROVE  PageShape'
<1> USE DEF PageShape
<1>1. w \in WriteSet(page.ops, written)  BY DEF WriteShape
<1>2. w.op.list \in Lists
  BY <1>1, LawsOfPages DEF WriteSet, TabShape, PageLaws, OpLaw
<1>3. TabShape' /\ LoadShape' /\ DataShape'  BY DEF Refused, TabShape, LoadShape, DataShape
<1>4. WriteShape'  BY DEF Refused, WriteShape, OnRow, Ahead, Named
<1>5. ListShape'
  <2>1. w.before \in ListSet(written)  BY <1>1 DEF WriteSet
  <2> QED  BY <2>1, <1>2 DEF Refused, Undo, Put, ListShape
<1>6. TroubleShape'  BY FirstShape DEF Refused, Undo, TroubleShape, Troubles
<1> QED  BY <1>3, <1>4, <1>5, <1>6

LEMMA SucceededShape ==
  ASSUME PageShape, NEW w \in writes, Succeeded(w)
  PROVE  PageShape'
<1> USE DEF PageShape
<1>1. w \in WriteSet(page.ops, written)  BY DEF WriteShape
<1>2. w.op \in page.ops /\ w.no \in 1..written /\ w.org \in Orgs  BY <1>1 DEF WriteSet
<1>3. w.op.list \in Lists
  BY <1>2, LawsOfPages DEF TabShape, PageLaws, OpLaw
<1>4. TabShape'
  <2>1. loading' \in BOOLEAN  BY DEF Succeeded, Follow, TabShape
  <2> QED  BY <2>1 DEF Succeeded, TabShape
<1>5. WriteShape'  BY DEF Succeeded, WriteShape, OnRow, Ahead, Named
<1>6. DataShape'
  <2>1. [no |-> w.no, org |-> w.org, list |-> w.op.list] \in AckSet(written)  BY <1>2, <1>3 DEF AckSet
  <2> QED  BY <2>1 DEF Succeeded, DataShape
<1>7. ListShape'
  <2>1. lists[w.op.list] \in ListSet(written)  BY <1>3 DEF ListShape
  <2>2. [lists[w.op.list] EXCEPT !.seen = @ \cup {w.no}] \in ListSet(written)  BY <1>2, <2>1 DEF ListSet
  <2>3. lists' = lists \/ lists' = [lists EXCEPT ![w.op.list] = [lists[w.op.list] EXCEPT !.seen = @ \cup {w.no}]]
    BY DEF Succeeded
  <2> QED  BY <1>3, <2>2, <2>3 DEF Succeeded, ListShape
<1>8. LoadShape'
  <2>1. CASE w.op.after \notin {"reload", "reread"}  BY <2>1 DEF Succeeded, Follow, LoadShape
  <2>2. CASE w.op.after \in {"reload", "reread"}
    <3>1. runs \in Nat /\ runs + 1 \in Nat \ {0} /\ written \in Nat  BY DashboardAssumption DEF LoadShape, WriteShape
    <3> DEFINE of == IF page.leads THEN w.of ELSE IF page.single THEN selected ELSE Sender(w.org)
    <3>2. of \in Named /\ Sender(w.org) \in Orgs
      <4>1. PageLaws(page)  BY LawsOfPages DEF TabShape
      <4>2. page.leads => w.of \in Named
        BY <2>2, <4>1 DEF WriteShape, OnRow, Ahead, PageLaws, LeadLaw
      <4> QED  BY <4>2, <1>2 DEF TabShape, Named, Sender
    <3>3. \A c \in Again(w.op) : c.first \in Lists /\ c.last \in Lists
      BY <1>2, AgainLawful DEF TabShape
    <3>4. Run(runs + 1, Again(w.op), Sender(w.org), of) \subseteq LoadSet(runs + 1, written)
      BY <3>1, <3>2, <3>3, RunShape
    <3>5. LoadSet(runs, written) \subseteq LoadSet(runs + 1, written)  BY <3>1, ShapesGrow
    <3>6. runs' \in 1..MaxRuns /\ newest' \in [Lists -> 0..runs']
      BY <2>2, DashboardAssumption DEF Succeeded, Follow, LoadShape
    <3> QED  BY <2>2, <3>4, <3>5, <3>6 DEF Succeeded, Follow, LoadShape
  <2> QED  BY <2>1, <2>2
<1>9. TroubleShape'
  BY FirstShape DEF Succeeded, TroubleShape, Troubles
<1> QED  BY <1>4, <1>5, <1>6, <1>7, <1>8, <1>9

-----------------------------------------------------------------------------
(* While nothing has made the page out of date *)

\* Load f is on its way to list i.
Late(f, i) == f.at <= i /\ i <= f.last

\* A list that the page asks for of itself and shows.
Filled(i) == On(page, i) /\ i \notin page.misread

\* The list of the tasks of the project that is selected.
Led(i) == page.leads /\ i = 2

\* Load f will show the current organization in list i: the next list of a chain
\* is asked for in its name, unless the page asks for the one it was rendered with.
Comes(f, i) == Late(f, i) /\ ((f.at = i \/ page.named) => f.org = current)

\* Load f is for the projects, or for the tasks of the one selected.
WillLead(f) == f.at = 1 /\ f.org = current
Matched(f) == f.at = 2 /\ f.of = selected /\ f.org = selected

\* A load asks for lists of the page, in the name of the organization whose
\* project it is about unless it is for tasks or one row, and has only what was there.
LoadOK(f) ==
    /\ f.at <= f.last /\ f.seen \subseteq RowsOf(Shown(f))
    /\ f.of # f.org => Led(f.at) \/ page.single
    /\ \A i \in Lists : Late(f, i) => On(page, i) \/ Led(i)
    /\ page.leads => f.last = f.at

\* An answer for another organization is overwritten, or comes after a newer
\* one, which is noticed.
OrderOK ==
    \A g \in loads, i \in Lists : (Late(g, i) /\ Filled(i) /\ ~Comes(g, i)) =>
        \/ newest[i] > g.run
        \/ \E f \in loads : f.run > g.run /\ Comes(f, i)

\* A list shows the current organization, or will, or has lost its row.
FilledOK ==
    \A i \in Lists : Filled(i) => lists[i].org = Owner(i, current) \/ Missing(i) \/ \E f \in loads : Comes(f, i)
OthersOK ==
    \A i \in Lists : Filled(i) \/ Led(i) \/ lists[i] = Nothing \/ (i \in page.fed /\ lists[i].seen = {})

\* The project selected is the current organization's, and its tasks are
\* shown, or the projects are still asked for.
SelectedOK == page.leads => selected \in {NoProject, current} \/ \E f \in loads : WillLead(f)
TasksOK == page.leads => lists[2].org = selected \/ (\E f \in loads : Matched(f)) \/ (\E f \in loads : WillLead(f))

\* Before a project is selected nothing is known of tasks.
NoTasksOK == (page.leads /\ selected = NoProject) =>
    /\ lists[2].org = NoProject
    /\ \A f \in loads : f.at # 2
    /\ \A w \in writes : w.op.list = 2 => w.of = NoProject /\ w.state # "done" /\ ~Ahead(w.op)
    /\ \A a \in acked : a.list # 2

\* Write u is in list i ahead of its answer.
Due(u, i) == \E v \in writes : Ahead(v.op) /\ v.op.list = i /\ v.no = u

\* A list shows rows that are there or are being written.
SeenOK == \A i \in Lists :
    /\ \A u \in lists[i].seen : u \in RowsOf(lists[i].org) \/ Due(u, i)
    /\ lists[i].org = NoProject => lists[i].seen = {}

\* A write that is under way is one of a kind, and has been done where it says.
WriteOK(w) ==
    /\ \A v \in writes : v.no = w.no => v = w
    /\ \A a \in acked : a.no # w.no
    /\ \A o \in Orgs : w.no \in data[o] => o = w.org /\ w.state = "done"
    /\ w.state = "done" => Possible(w) /\ (w.of = w.org => w.no \in data[w.org])
    /\ ~(OnRow(w.op) \/ Led(w.op.list)) => w.of = w.org

\* A row that was put into a list before it was written is still there, and the
\* snapshot from before has what is there or was put in earlier.
AheadOK(w) == Ahead(w.op) =>
    /\ w.no \in lists[w.op.list].seen /\ lists[w.op.list].org = w.of
    /\ w.before.org = w.of /\ w.of \notin {NoProject, Astray}
    /\ \A u \in w.before.seen : u < w.no /\ (u \in RowsOf(w.of) \/ Due(u, w.op.list))

\* What was acknowledged has been done, and is shown or will be wherever its
\* organization is.
Tells(f, a) == f.at # a.list \/ Shown(f) # Owner(a.list, a.org) \/ ~f.got \/ a.no \in f.seen
AckOK(a) ==
    /\ a.no \in data[a.org] /\ (On(page, a.list) \/ Led(a.list))
    /\ a.list \notin page.misread =>
        \/ a.no \in lists[a.list].seen
        \/ lists[a.list].org # Owner(a.list, a.org)
        \/ \E f \in loads : Late(f, a.list) /\ Tells(f, a)

LoadsOK == kept = current /\ \A f \in loads : LoadOK(f)
WritesOK == \A w \in writes : WriteOK(w) /\ AheadOK(w)
AcksOK == \A a \in acked : AckOK(a)

PageFine ==
    /\ LoadsOK /\ OrderOK /\ FilledOK /\ OthersOK /\ SelectedOK /\ TasksOK /\ NoTasksOK
    /\ SeenOK /\ WritesOK /\ AcksOK

-----------------------------------------------------------------------------
LEMMA Troubled ==
  ASSUME NEW why, First(why) = "none"
  PROVE  why = "none" /\ trouble = "none"
BY DEF First

LEMMA Typed ==
  ASSUME PageShape
  PROVE  /\ PageLaws(page) /\ current \in Orgs /\ kept \in Orgs /\ runs \in Nat /\ written \in Nat
         /\ \A f \in loads : /\ f.run \in 1..runs /\ f.at \in Lists /\ f.last \in Lists /\ f.org \in Orgs
                             /\ f.got \in BOOLEAN /\ f.seen \subseteq 1..written
         /\ \A w \in writes : /\ w.no \in 1..written /\ w.op \in page.ops /\ w.org \in Orgs
                              /\ w.op.list \in Lists /\ OpLaw(page, w.op)
                              /\ w.before.seen \subseteq 1..written
         /\ \A a \in acked : a.no \in 1..written /\ a.org \in Orgs /\ a.list \in Lists
         /\ \A i \in Lists : newest[i] \in Nat
         /\ \A i \in Lists : lists[i].seen \subseteq 1..written
         /\ \A o \in Orgs : data[o] \subseteq 1..written
<1>1. PageLaws(page)  BY LawsOfPages DEF PageShape, TabShape
<1>2. current \in Orgs /\ kept \in Orgs /\ runs \in Nat /\ written \in Nat
  BY DashboardAssumption DEF PageShape, TabShape, LoadShape, WriteShape
<1>3. \A f \in loads : /\ f.run \in 1..runs /\ f.at \in Lists /\ f.last \in Lists /\ f.org \in Orgs
                       /\ f.got \in BOOLEAN /\ f.seen \subseteq 1..written
  BY DEF PageShape, LoadShape, LoadSet
<1>4. ASSUME NEW w \in writes
      PROVE  /\ w.no \in 1..written /\ w.op \in page.ops /\ w.org \in Orgs
             /\ w.op.list \in Lists /\ OpLaw(page, w.op)
             /\ w.before.seen \subseteq 1..written
  <2>1. w \in WriteSet(page.ops, written)  BY DEF PageShape, WriteShape
  <2>2. w.no \in 1..written /\ w.op \in page.ops /\ w.org \in Orgs /\ w.before \in ListSet(written)
    BY <2>1 DEF WriteSet
  <2>3. OpLaw(page, w.op)  BY <1>1, <2>2 DEF PageLaws
  <2> QED  BY <2>2, <2>3 DEF OpLaw, ListSet
<1>5. \A a \in acked : a.no \in 1..written /\ a.org \in Orgs /\ a.list \in Lists
  BY DEF PageShape, DataShape, AckSet
<1>6. \A i \in Lists : newest[i] \in Nat  BY <1>2 DEF PageShape, LoadShape
<1>7. \A i \in Lists : lists[i].seen \subseteq 1..written  BY DEF PageShape, ListShape, ListSet
<1>8. \A o \in Orgs : data[o] \subseteq 1..written  BY DEF PageShape, DataShape
<1> QED  BY <1>1, <1>2, <1>3, <1>4, <1>5, <1>6, <1>7, <1>8

\* The page whose projects lead to tasks does not ask for the tasks of itself, and
\* has no row that could be missing.
LEMMA LedApart ==
  ASSUME PageShape, page.leads
  PROVE  /\ LeadLaw(page) /\ ~On(page, 2) /\ Filled(1) /\ Filled(3)
         /\ ~page.single /\ ~page.named /\ \A o : Owner(1, o) = o /\ Owner(2, o) = o
<1>1. PageLaws(page)  BY Typed
<1>2. LeadLaw(page) /\ ChainLaw(page)  BY <1>1 DEF PageLaws
<1>3. ~On(page, 2)  BY <1>2 DEF LeadLaw, ChainLaw, Lists, On
<1> QED  BY <1>2, <1>3 DEF LeadLaw, Filled, Owner

\* A load that differs from another in its answer alone.
Like(f, g) == g.run = f.run /\ g.at = f.at /\ g.last = f.last /\ g.org = f.org /\ g.of = f.of

LEMMA LikeComes ==
  ASSUME NEW f, NEW g, Like(f, g), NEW i
  PROVE  /\ Late(f, i) <=> Late(g, i)
         /\ Comes(f, i) <=> Comes(g, i)
         /\ WillLead(f) <=> WillLead(g)
         /\ Matched(f) <=> Matched(g)
         /\ Shown(f) = Shown(g)
BY DEF Like, Late, Comes, WillLead, Matched, Shown, Owner

LEMMA ServeLoadFine ==
  ASSUME PageShape, PageFine, NEW f \in loads, ServeLoad(f)
  PROVE  PageFine'
<1> DEFINE f2 == [f EXCEPT !.got = TRUE, !.seen = RowsOf(Shown(f))]
<1>1. /\ loads' = (loads \ {f}) \cup {f2} /\ ~f.got
      /\ UNCHANGED <<page, current, kept, lists, selected, loading, runs, newest, writes, written, data, acked, trouble>>
  BY DEF ServeLoad
<1>2. f \in LoadSet(runs, written)  BY DEF PageShape, LoadShape
<1>3. Like(f, f2) /\ f2.got = TRUE /\ f2.seen = RowsOf(Shown(f))
  BY <1>2 DEF LoadSet, Like
<1> HIDE DEF f2
<1>4. \A h \in loads : \E h2 \in loads' : Like(h, h2)
  BY <1>1, <1>3 DEF Like
<1>5. \A h2 \in loads' : \E h \in loads : Like(h, h2)
  BY <1>1, <1>3 DEF Like
<1>6. /\ \A g, i : /\ Comes(g, i)' <=> Comes(g, i)
                   /\ WillLead(g)' <=> WillLead(g)
                   /\ Matched(g)' <=> Matched(g)
      /\ \A g : Shown(g)' = Shown(g)
      /\ \A o : RowsOf(o)' = RowsOf(o)
      /\ \A i, o : Owner(i, o)' = Owner(i, o) /\ (Filled(i)' <=> Filled(i)) /\ (Missing(i)' <=> Missing(i))
  BY <1>1 DEF Comes, WillLead, Matched, Shown, Owner, RowsOf, Filled, On, Missing
<1>7. LoadsOK'
  <2>1. ASSUME NEW g \in loads'  PROVE LoadOK(g)'
    <3>1. CASE g \in loads
      BY <3>1, <1>1, <1>6 DEF PageFine, LoadsOK, LoadOK, On, Led
    <3>2. CASE g = f2
      <4>1. LoadOK(f)  BY DEF PageFine, LoadsOK
      <4>2. Shown(g) = Shown(f)  BY <1>3, <3>2, LikeComes
      <4>5. g.seen \subseteq RowsOf(Shown(g))'  BY <1>1, <1>3, <1>6, <3>2, <4>2 DEF RowsOf
      <4>3. f2.of # f2.org => Led(f2.at) \/ page.single  BY <1>3, <4>1 DEF Like, LoadOK
      <4>4. \A i : Late(f2, i) <=> Late(f, i)  BY <1>3, LikeComes
      <4> QED  BY <1>1, <1>3, <3>2, <4>1, <4>3, <4>4, <4>5 DEF LoadOK, On, Led, Like
    <3> QED  BY <3>1, <3>2, <1>1
  <2> QED  BY <2>1, <1>1 DEF PageFine, LoadsOK
<1>8. OrderOK'
  <2> SUFFICES ASSUME NEW g2 \in loads', NEW i \in Lists, Late(g2, i), Filled(i)', ~Comes(g2, i)', ~(newest[i] > g2.run)'
               PROVE  \E h2 \in loads' : h2.run > g2.run /\ Comes(h2, i)'
    BY DEF OrderOK
  <2>1. PICK g \in loads : Like(g, g2)  BY <1>5
  <2>2. Late(g, i) /\ Filled(i) /\ ~Comes(g, i) /\ ~(newest[i] > g.run)
    BY <1>1, <1>6, <2>1, LikeComes DEF Like
  <2>3. PICK h \in loads : h.run > g.run /\ Comes(h, i)  BY <2>2 DEF PageFine, OrderOK
  <2>4. PICK h2 \in loads' : Like(h, h2)  BY <1>4
  <2>5. Comes(h2, i) /\ h2.run = h.run  BY <2>3, <2>4, LikeComes DEF Like
  <2> QED  BY <2>1, <2>3, <2>5, <1>6 DEF Like
<1>9. FilledOK' /\ OthersOK'
  <2>1. ASSUME NEW i \in Lists, Filled(i), lists[i].org # Owner(i, current), ~Missing(i)
        PROVE  \E h2 \in loads' : Comes(h2, i)'
    <3>1. PICK h \in loads : Comes(h, i)  BY <2>1 DEF PageFine, FilledOK
    <3>2. PICK h2 \in loads' : Like(h, h2)  BY <1>4
    <3> QED  BY <3>1, <3>2, LikeComes, <1>6
  <2>2. FilledOK'  BY <2>1, <1>1, <1>6 DEF FilledOK
  <2> QED  BY <2>2, <1>1 DEF PageFine, OthersOK, Filled, Led, On
<1>10. SelectedOK' /\ TasksOK'
  <2>1. (\E h \in loads : WillLead(h)) => \E h2 \in loads' : WillLead(h2)'
    BY <1>4, <1>6, LikeComes
  <2>2. (\E h \in loads : Matched(h)) => \E h2 \in loads' : Matched(h2)'
    BY <1>4, <1>6, LikeComes
  <2>3. SelectedOK /\ TasksOK  BY DEF PageFine
  <2>4. SelectedOK'  BY <1>1, <2>1, <2>3 DEF SelectedOK
  <2>5. TasksOK'  BY <1>1, <2>1, <2>2, <2>3 DEF TasksOK
  <2> QED  BY <2>4, <2>5
<1>11. NoTasksOK'
  <2>1. (\A h \in loads : h.at # 2) => \A h2 \in loads' : h2.at # 2  BY <1>5 DEF Like
  <2> QED  BY <1>1, <2>1 DEF PageFine, NoTasksOK, Ahead
<1>12. SeenOK' /\ WritesOK'
  <2>1. SeenOK'  BY <1>1, <1>6 DEF PageFine, SeenOK, Due, Ahead
  <2>2. WritesOK'  BY <1>1, <1>6 DEF PageFine, WritesOK, WriteOK, AheadOK, Due, Ahead, OnRow, Possible, Led
  <2> QED  BY <2>1, <2>2
<1>13. AcksOK'
  <2> SUFFICES ASSUME NEW a \in acked, AckOK(a)  PROVE AckOK(a)'
    BY <1>1 DEF PageFine, AcksOK
  <2>1. ASSUME NEW h \in loads, Late(h, a.list), Tells(h, a)
        PROVE  \E h2 \in loads' : Late(h2, a.list) /\ Tells(h2, a)
    <3>1. CASE h # f  BY <3>1, <2>1, <1>1
    <3>2. CASE h = f
      <4>1. a.org \in Orgs  BY Typed, <1>1
      <4>2. a.no \in data[a.org]  BY DEF AckOK
      <4>3. a.no \in RowsOf(Owner(a.list, a.org))  BY <4>1, <4>2, RowsAre
      <4>4. Shown(f2) = Shown(f) /\ (Late(f2, a.list) <=> Late(f, a.list))  BY <1>3, LikeComes
      <4>5. Tells(f2, a)  BY <1>3, <4>3, <4>4 DEF Tells
      <4> QED  BY <4>4, <4>5, <3>2, <2>1, <1>1
    <3> QED  BY <3>1, <3>2
  <2>2. (\E h \in loads : Late(h, a.list) /\ Tells(h, a)) => \E h2 \in loads' : Late(h2, a.list) /\ Tells(h2, a)
    BY <2>1
  <2>3. \A h : Tells(h, a)' <=> Tells(h, a)  BY <1>1, <1>6 DEF Tells
  <2> QED  BY <2>2, <2>3, <1>1, <1>6 DEF AckOK, On, Led
<1> QED  BY <1>7, <1>8, <1>9, <1>10, <1>11, <1>12, <1>13 DEF PageFine

\* What was asked for after a list is asked for once the list has come.
LEMMA Follows ==
  ASSUME PageShape, NEW f \in loads, TakeLoad(f)
  PROVE  /\ \A j \in Lists : (Late(f, j) /\ j # f.at) =>
               \E n \in loads' : n.run = f.run /\ Late(n, j) /\ n.org = Sender(f.org) /\ ~n.got
         /\ \A n \in Then(f) : n.org = Sender(f.org) /\ n.run = f.run /\ n.seen = {}
<1>1. f \in LoadSet(runs, written)  BY DEF PageShape, LoadShape
<1>2. f.at \in Lists /\ f.last \in Lists  BY <1>1 DEF LoadSet
<1>3. \A n \in Then(f) : n.org = Sender(f.org) /\ n.run = f.run /\ n.seen = {}
  BY <1>1 DEF Then, AskFor, LoadSet
<1>4. ASSUME NEW j \in Lists, Late(f, j), j # f.at
      PROVE  \E n \in loads' : n.run = f.run /\ Late(n, j) /\ n.org = Sender(f.org) /\ ~n.got
  <2>1. f.at < f.last /\ f.at + 1 <= j /\ j <= f.last  BY <1>2, <1>4 DEF Late, Lists
  <2> DEFINE n == AskFor(f, f.at + 1, f.last, Sender(f.org))
  <2>2. n.run = f.run /\ n.at = f.at + 1 /\ n.last = f.last /\ n.org = Sender(f.org) /\ n.got = FALSE
    BY <1>1 DEF AskFor, LoadSet
  <2>3. n \in loads'  BY <2>1, TakeEffect DEF Then
  <2> HIDE DEF n
  <2> QED  BY <2>1, <2>2, <2>3 DEF Late
<1> QED  BY <1>3, <1>4

\* An answer that leaves the page in date: it is as new as what was shown, has
\* what the list has to show, and is about the project it asked for.
LEMMA TakenInOrder ==
  ASSUME PageShape, NEW f \in loads, TakeLoad(f), trouble' = "none"
  PROVE  /\ trouble = "none"
         /\ f.at \notin page.misread => /\ newest[f.at] <= f.run /\ ~Newer(f) /\ ~LeftBehind(f)
                                        /\ ~Strays(f, loads \ {f})
<1>1. newest[f.at] \in Nat /\ f.run \in Nat  BY Typed
<1>2. ASSUME f.at \in page.misread  PROVE trouble = "none"  BY <1>2 DEF TakeLoad
<1>3. ASSUME f.at \notin page.misread
      PROVE  ~(newest[f.at] > f.run) /\ ~Newer(f) /\ ~LeftBehind(f) /\ ~Strays(f, loads \ {f}) /\ trouble = "none"
  BY <1>3, Troubled DEF TakeLoad, First
<1> QED  BY <1>1, <1>2, <1>3

LEMMA TakeLoadFine ==
  ASSUME PageShape, PageFine, NEW f \in loads, TakeLoad(f), trouble' = "none"
  PROVE  PageFine'
<1> DEFINE i == f.at
           others == loads \ {f}
<1>1. /\ f.got /\ loads' = others \cup Then(f)
      /\ newest' = [newest EXCEPT ![i] = f.run]
      /\ lists' = IF i \in page.misread THEN lists ELSE Put(i, [org |-> Shown(f), seen |-> f.seen])
      /\ selected' = IF Selects(f) THEN f.org ELSE selected
      /\ UNCHANGED <<page, current, kept, runs, writes, written, data, acked>>
  BY TakeEffect
<1>2. i \notin page.misread => newest[i] <= f.run /\ ~Newer(f) /\ ~LeftBehind(f) /\ ~Strays(f, others)
  BY TakenInOrder
<1>3. f \in LoadSet(runs, written)  BY DEF PageShape, LoadShape
<1>4. f.at \in Lists /\ f.last \in Lists /\ f.org \in Orgs /\ f.run \in Nat  BY Typed
<1>5. LoadOK(f) /\ kept = current /\ f.at <= f.last /\ f.seen \subseteq RowsOf(Shown(f))
  BY DEF PageFine, LoadsOK, LoadOK
<1>6. /\ \A j \in Lists : (Late(f, j) /\ j # i) =>
            \E n \in loads' : n.run = f.run /\ Late(n, j) /\ n.org = Sender(f.org) /\ ~n.got
      /\ \A n \in Then(f) : n.org = Sender(f.org) /\ n.run = f.run /\ n.seen = {}
      /\ ~page.named => Sender(f.org) = current
      /\ page.named => Sender(f.org) = f.org
  BY <1>5, Follows DEF Sender
<1>7. page.leads => /\ i \notin page.misread /\ f.last = i /\ Filled(1) /\ ~On(page, 2) /\ ~page.single /\ ~page.named
                    /\ \A o : Owner(1, o) = o /\ Owner(2, o) = o
  BY <1>5, LedApart DEF LoadOK, LeadLaw
<1>8. Late(f, i) /\ (On(page, i) \/ Led(i))  BY <1>4, <1>5 DEF Late, LoadOK, Lists
<1>12. /\ f.of = f.org => Shown(f) = Owner(i, f.org)
       /\ f.of # f.org => Shown(f) = Astray /\ f.seen = {} /\ (Led(i) \/ page.single)
  <2>1. f.of # f.org => Shown(f) = Astray  BY DEF Shown
  <2> QED  BY <2>1, <1>5, RowsAre DEF Shown, LoadOK
<1>9. f.of = f.org \/ f.seen = {}  BY <1>12
<1>10. lists \in [Lists -> ListSet(written)] /\ newest \in [Lists -> 0..runs]  BY DEF PageShape, ListShape, LoadShape
<1>11. /\ \A j \in Lists : j # i => lists'[j] = lists[j] /\ newest'[j] = newest[j]
       /\ newest'[i] = f.run
       /\ i \in page.misread \/ Missing(i) => lists' = lists
       /\ i \notin page.misread /\ ~Missing(i) => lists'[i].org = Shown(f) /\ lists'[i].seen = f.seen
  BY <1>1, <1>4, <1>10 DEF Put
<1>13. others \subseteq loads /\ \A h \in loads : h # f => h \in loads'
  BY <1>1
<1> HIDE DEF i, others
<1>14. /\ \A g, j : Comes(g, j)' <=> Comes(g, j)
       /\ \A g : (WillLead(g)' <=> WillLead(g)) /\ Shown(g)' = Shown(g)
       /\ \A o : RowsOf(o)' = RowsOf(o)
       /\ \A j, o : Owner(j, o)' = Owner(j, o) /\ (Filled(j)' <=> Filled(j))
  BY <1>1 DEF Comes, WillLead, Shown, Owner, RowsOf, Filled, On
<1>15. \A j \in Lists : Missing(j) => Missing(j)'
  BY <1>1, <1>11 DEF Missing
<1>16. ASSUME NEW j \in Lists, Comes(f, j), j # i
       PROVE  \E n \in loads' : n.run = f.run /\ Comes(n, j)
  <2>1. Late(f, j) /\ Sender(f.org) = current  BY <1>16, <1>6 DEF Comes
  <2> QED  BY <2>1, <1>16, <1>6 DEF Comes
<1>20. LoadsOK'
  <2>1. ASSUME NEW g \in others  PROVE LoadOK(g)'
    <3>1. LoadOK(g)  BY <1>13 DEF PageFine, LoadsOK
    <3>2. g.seen \subseteq RowsOf(Shown(g))'  BY <3>1, <1>1, <1>14 DEF LoadOK, RowsOf
    <3> QED  BY <3>1, <3>2, <1>1 DEF LoadOK, On, Led
  <2>2. ASSUME NEW g \in Then(f)  PROVE LoadOK(g)'
    <3>1. CASE f.at < f.last /\ g = AskFor(f, f.at + 1, f.last, Sender(f.org))
      <4>1. g.at = f.at + 1 /\ g.last = f.last /\ g.org = Sender(f.org) /\ g.of = Sender(f.org) /\ g.seen = {}
        BY <1>3, <3>1 DEF AskFor, LoadSet
      <4>2. \A j \in Lists : Late(g, j) => Late(f, j)  BY <4>1, <1>4 DEF Late, Lists
      <4>3. ~page.leads  BY <3>1, <1>4, <1>7 DEF i, Lists
      <4>5. \A j \in Lists : Late(g, j) => On(page, j) \/ Led(j)  BY <4>2, <1>5 DEF LoadOK
      <4>6. g.at <= g.last  BY <3>1, <4>1, <1>4 DEF Lists
      <4> QED  BY <4>1, <4>3, <4>5, <4>6, <1>1 DEF LoadOK, On, Led
    <3>2. CASE Selects(f) /\ g = AskFor(f, 2, 2, f.org)
      <4>1. g.at = 2 /\ g.last = 2 /\ g.of = f.org /\ g.seen = {}
        BY <1>3, <3>2 DEF AskFor, LoadSet
      <4>2. page.leads  BY <3>2 DEF Selects
      <4>3. \A j \in Lists : Late(g, j) => Led(j)  BY <4>1, <4>2 DEF Late, Led, Lists
      <4> QED  BY <4>1, <4>2, <4>3, <1>1, <1>4 DEF LoadOK, On, Led
    <3> QED  BY <3>1, <3>2 DEF Then
  <2> QED  BY <2>1, <2>2, <1>1, <1>5 DEF LoadsOK
<1>21. OrderOK'
  <2> SUFFICES ASSUME NEW g \in loads', NEW j \in Lists, Late(g, j), Filled(j), ~Comes(g, j), ~(newest'[j] > g.run)
               PROVE  \E h \in loads' : h.run > g.run /\ Comes(h, j)
    BY <1>14 DEF OrderOK, Late
  <2>1. f.run \in Nat /\ newest[j] \in Nat  BY Typed
\* What follows f is as late as f is.
  <2>2. CASE g \in Then(f)
    <3>1. page.named /\ g.org = f.org /\ g.run = f.run /\ f.org # current
      BY <2>2, <1>6 DEF Comes
    <3>2. f.at < f.last /\ g = AskFor(f, f.at + 1, f.last, Sender(f.org))
      BY <2>2, <3>1, <1>7 DEF Then, Selects
    <3>3. g.at = f.at + 1 /\ g.last = f.last  BY <3>2, <1>3 DEF AskFor, LoadSet
    <3>4. Late(f, j) /\ j # i  BY <3>3, <1>4 DEF Late, Lists, i
    <3>5. ~Comes(f, j)  BY <3>1 DEF Comes
    <3>6. newest[j] = newest'[j]  BY <3>4, <1>11
    <3>7. PICK h \in loads : h.run > f.run /\ Comes(h, j)
      BY <3>1, <3>4, <3>5, <3>6 DEF PageFine, OrderOK
    <3>8. h # f  BY <3>7, <2>1
    <3> QED  BY <3>1, <3>7, <3>8, <1>13
  <2>3. CASE g \in others
    <3>1. g \in loads /\ g.run \in Nat  BY <2>3, <1>13, Typed
    <3>2. ~(newest[j] > g.run)
      <4>1. CASE j = i
        <5>1. newest[i] <= f.run /\ newest'[i] = f.run  BY <4>1, <1>2, <1>11 DEF Filled
        <5> QED  BY <4>1, <5>1, <2>1, <3>1
      <4>2. CASE j # i  BY <4>2, <1>11
      <4> QED  BY <4>1, <4>2
    <3>3. PICK h \in loads : h.run > g.run /\ Comes(h, j)
      BY <3>1, <3>2 DEF PageFine, OrderOK
    <3>4. CASE h # f  BY <3>3, <3>4, <1>13
    <3>5. CASE h = f
      <4>1. j # i  BY <3>3, <3>5, <1>11
      <4> QED  BY <4>1, <3>3, <3>5, <1>16
    <3> QED  BY <3>4, <3>5
  <2> QED  BY <2>2, <2>3, <1>1
<1>22. FilledOK'
  <2> SUFFICES ASSUME NEW j \in Lists, Filled(j), lists'[j].org # Owner(j, current), ~Missing(j)'
               PROVE  \E h \in loads' : Comes(h, j)
    BY <1>1, <1>14 DEF FilledOK
  <2>0. ~Missing(j)  BY <1>15
  <2>1. CASE j = i
    <3>1. ~Led(i) /\ i \notin page.misread
      BY <2>1, <1>7 DEF Filled, Led
    <3>2. f.org # current
      <4>1. f.of # f.org => Missing(j)'
        BY <2>0, <2>1, <3>1, <1>1, <1>11, <1>12 DEF Missing
      <4> QED  BY <2>0, <4>1, <3>1, <2>1, <1>11, <1>12
    <3>3. ~(newest[i] > f.run) /\ ~Comes(f, i)  BY <3>1, <3>2, <1>2, <1>4, Typed DEF Comes, i
    <3>4. PICK h \in loads : h.run > f.run /\ Comes(h, i)
      BY <3>3, <2>1, <1>8 DEF PageFine, OrderOK
    <3>5. h # f  BY <3>4, <1>4
    <3> QED  BY <3>4, <3>5, <2>1, <1>13
  <2>2. CASE j # i
    <3>1. PICK h \in loads : Comes(h, j)  BY <2>0, <2>2, <1>11 DEF PageFine, FilledOK
    <3>2. CASE h # f  BY <3>1, <3>2, <1>13
    <3>3. CASE h = f  BY <3>1, <3>3, <2>2, <1>16
    <3> QED  BY <3>2, <3>3
  <2> QED  BY <2>1, <2>2
<1>23. OthersOK'
  <2>1. \A j \in Lists : Filled(j) \/ Led(j) \/ lists'[j] = Nothing \/ (j \in page.fed /\ lists'[j].seen = {})
    BY <1>8, <1>11 DEF PageFine, OthersOK, Filled
  <2> QED  BY <2>1, <1>1 DEF OthersOK, Filled, Led, On
\* The projects of another organization give way to those that are asked for.
<1>24. ASSUME page.leads, i = 1, f.org # current  PROVE \E h \in loads' : WillLead(h)
  <2>1. ~(newest[i] > f.run) /\ ~Comes(f, i)  BY <1>24, <1>2, <1>4, <1>7, Typed DEF Comes, i
  <2>2. PICK h \in loads : h.run > f.run /\ Comes(h, i)
    BY <1>24, <1>7, <1>8, <2>1, <1>4 DEF PageFine, OrderOK, i
  <2>3. h # f /\ h.at \in Lists  BY <2>2, <1>4, Typed
  <2>4. h.at = 1  BY <1>24, <2>2, <2>3 DEF Comes, Late, Lists, i
  <2> QED  BY <1>13, <1>24, <2>2, <2>3, <2>4 DEF Comes, WillLead, i
<1>25. SelectedOK'
  <2> SUFFICES ASSUME page.leads  PROVE selected' \in {NoProject, current} \/ \E h \in loads' : WillLead(h)
    BY <1>1, <1>14 DEF SelectedOK
  <2>1. CASE Selects(f)
    <3>1. selected' = f.org /\ i = 1  BY <2>1, <1>1 DEF Selects, i
    <3> QED  BY <3>1, <1>24
  <2>2. CASE ~Selects(f)
    <3>1. selected' = selected  BY <2>2, <1>1
    <3>2. CASE \E h \in loads : h # f /\ WillLead(h)  BY <3>2, <1>13
    <3>3. CASE WillLead(f)
      <4>1. i = 1 /\ f.org = current /\ f.org \in Bare  BY <2>2, <3>3, <1>4 DEF WillLead, Selects, i
      <4>2. selected = NoProject  BY <4>1, <1>2, <1>7 DEF LeftBehind, i
      <4> QED  BY <3>1, <4>2
    <3>4. CASE selected \in {NoProject, current}  BY <3>1, <3>4
    <3> QED  BY <3>2, <3>3, <3>4 DEF PageFine, SelectedOK
  <2> QED  BY <2>1, <2>2
<1>26. TasksOK'
  <2> SUFFICES ASSUME page.leads
               PROVE  lists'[2].org = selected' \/ (\E h \in loads' : Matched(h)') \/ (\E h \in loads' : WillLead(h))
    BY <1>1, <1>14 DEF TasksOK
  <2>0. i \notin page.misread /\ ~LeftBehind(f) /\ ~Strays(f, others) /\ 2 \in Lists /\ ~(f.at < f.last) /\ ~Missing(i)
    BY <1>2, <1>4, <1>7 DEF Lists, i, Missing
  <2>1. CASE Selects(f)
    <3>1. selected' = f.org /\ i = 1  BY <2>1, <1>1 DEF Selects, i
    <3>2. CASE f.org # current  BY <3>1, <3>2, <1>24
    <3>3. CASE f.org = current /\ selected # f.org
      <4>1. AskFor(f, 2, 2, f.org) \in loads'  BY <2>0, <2>1, <3>3, <1>1 DEF Then
      <4>2. AskFor(f, 2, 2, f.org).at = 2 /\ AskFor(f, 2, 2, f.org).of = f.org /\ AskFor(f, 2, 2, f.org).org = Sender(f.org)
        BY <1>3 DEF AskFor, LoadSet
      <4> QED  BY <4>1, <4>2, <3>1, <3>3, <1>6, <1>7 DEF Matched
    <3>4. CASE f.org = current /\ selected = f.org
      <4>1. lists[2].org = f.org \/ \E g \in others : g.at = 2 /\ g.of = f.org /\ g.org = f.org
        BY <2>0, <2>1, <3>4 DEF Strays
      <4>2. lists'[2] = lists[2]  BY <2>0, <3>1, <1>11
      <4>3. \A g \in others : g \in loads'  BY <1>1
      <4> QED  BY <4>1, <4>2, <4>3, <3>1 DEF Matched
    <3> QED  BY <3>2, <3>3, <3>4
  <2>2. CASE ~Selects(f)
    <3>1. selected' = selected  BY <2>2, <1>1
    <3>2. CASE \E h \in loads : h # f /\ WillLead(h)  BY <3>2, <1>13
    <3>3. CASE \E h \in loads : h # f /\ Matched(h)  BY <3>1, <3>3, <1>13 DEF Matched
    <3>4. CASE WillLead(f)
      <4>1. i = 1 /\ f.org = current /\ f.org \in Bare  BY <2>2, <3>4, <1>4 DEF WillLead, Selects, i
      <4>2. selected = NoProject  BY <4>1, <2>0 DEF LeftBehind, i
      <4>3. lists[2].org = NoProject  BY <4>2 DEF PageFine, NoTasksOK
      <4> QED  BY <3>1, <4>1, <4>2, <4>3, <2>0, <1>11
    <3>5. CASE Matched(f)
      <4>1. i = 2 /\ Shown(f) = selected  BY <3>5, <1>7, <1>12 DEF Matched, i
      <4> QED  BY <4>1, <3>1, <2>0, <1>11
    <3>6. CASE lists[2].org = selected
      <4>1. CASE i = 2
        <5>1. Shown(f) = selected  BY <2>0, <4>1, <3>6 DEF Strays, i
        <5> QED  BY <4>1, <5>1, <3>1, <2>0, <1>11
      <4>2. CASE i # 2  BY <4>2, <3>1, <3>6, <2>0, <1>11
      <4> QED  BY <4>1, <4>2
    <3> QED  BY <3>2, <3>3, <3>4, <3>5, <3>6 DEF PageFine, TasksOK
  <2> QED  BY <2>1, <2>2
<1>27. NoTasksOK'
  <2> SUFFICES ASSUME page.leads, selected' = NoProject
               PROVE  /\ lists'[2].org = NoProject
                      /\ \A h \in loads' : h.at # 2
                      /\ \A w \in writes : w.op.list = 2 => w.of = NoProject /\ w.state # "done" /\ ~Ahead(w.op)
                      /\ \A a \in acked : a.list # 2
    BY <1>1 DEF NoTasksOK, Ahead
  <2>1. ~Selects(f) /\ selected = NoProject  BY <1>1, <1>4, DashboardAssumption
  <2>2. /\ lists[2].org = NoProject
        /\ \A h \in loads : h.at # 2
        /\ \A w \in writes : w.op.list = 2 => w.of = NoProject /\ w.state # "done" /\ ~Ahead(w.op)
        /\ \A a \in acked : a.list # 2
    BY <2>1 DEF PageFine, NoTasksOK
  <2>3. Then(f) = {}  BY <2>1, <1>4, <1>7 DEF Then, Lists, i
  <2>4. lists'[2] = lists[2] /\ \A h \in loads' : h \in loads
    BY <2>2, <2>3, <1>1, <1>11 DEF Lists, i, others
  <2> QED  BY <2>2, <2>4
<1>28. SeenOK'
  <2>1. ASSUME NEW j \in Lists
        PROVE  /\ \A u \in lists'[j].seen : u \in RowsOf(lists'[j].org) \/ Due(u, j)
               /\ lists'[j].org = NoProject => lists'[j].seen = {}
    <3>1. CASE j = i /\ i \notin page.misread /\ ~Missing(i)
      <4>1. lists'[j].org = Shown(f) /\ lists'[j].seen = f.seen  BY <3>1, <1>11
      <4>2. f.seen \subseteq RowsOf(Shown(f))  BY <1>5
      <4> QED  BY <4>1, <4>2, RowsAre
    <3>2. CASE j # i \/ i \in page.misread \/ Missing(i)
      <4>1. lists'[j] = lists[j]  BY <3>2, <1>11
      <4> QED  BY <4>1 DEF PageFine, SeenOK
    <3> QED  BY <3>1, <3>2
  <2>2. \A u, j : Due(u, j)' <=> Due(u, j)  BY <1>1 DEF Due, Ahead
  <2> QED  BY <2>1, <2>2, <1>1 DEF SeenOK, RowsOf
<1>29. WritesOK'
  <2> SUFFICES ASSUME NEW w \in writes, WriteOK(w), AheadOK(w)  PROVE WriteOK(w)' /\ AheadOK(w)'
    BY <1>1 DEF PageFine, WritesOK
  <2>1. WriteOK(w)'  BY <1>1 DEF WriteOK, Possible, OnRow, Ahead, Led
  <2>2. ASSUME Ahead(w.op)
        PROVE  w.no \in lists'[w.op.list].seen /\ lists'[w.op.list].org = w.of
    <3>1. w.op.list \in Lists /\ w.op.list \notin page.everyones /\ w.org \in Orgs  BY <2>2, Typed DEF OpLaw, Ahead
    <3>2. w.no \in lists[w.op.list].seen /\ lists[w.op.list].org = w.of  BY <2>2 DEF AheadOK
    <3>3. CASE w.op.list = i /\ i \notin page.misread /\ ~Missing(i)
      <4>1. w.no \in f.seen  BY <3>3, <1>2 DEF Newer, i
      <4>2. f.of = f.org /\ Shown(f) = f.org  BY <3>1, <3>3, <4>1, <1>9, <1>12 DEF Owner
      <4>3. w.no \in data[f.org]  BY <4>1, <4>2, <1>4, <1>5, RowsAre
      <4>4. f.org = w.org /\ w.state = "done"  BY <4>3, <1>4 DEF WriteOK
      <4>5. w.of = w.org  BY <4>4, <2>2 DEF WriteOK, Possible, OnRow
      <4> QED  BY <4>1, <4>2, <4>4, <4>5, <3>3, <1>11
    <3>4. CASE w.op.list # i \/ i \in page.misread \/ Missing(i)
      <4>1. lists'[w.op.list] = lists[w.op.list]  BY <3>1, <3>4, <1>11
      <4> QED  BY <4>1, <3>2
    <3> QED  BY <3>3, <3>4
  <2>3. \A u, j : Due(u, j)' <=> Due(u, j)  BY <1>1 DEF Due, Ahead
  <2>4. AheadOK(w)'  BY <2>2, <2>3, <1>1 DEF AheadOK, Ahead, RowsOf
  <2> QED  BY <2>1, <2>4
<1>30. AcksOK'
  <2> SUFFICES ASSUME NEW a \in acked, AckOK(a)  PROVE AckOK(a)'
    BY <1>1 DEF PageFine, AcksOK
  <2>1. a.no \in data[a.org] /\ (On(page, a.list) \/ Led(a.list)) /\ a.list \in Lists /\ a.org \in Orgs
    BY Typed DEF AckOK
  <2>2. ASSUME a.list \notin page.misread
        PROVE  \/ a.no \in lists'[a.list].seen
               \/ lists'[a.list].org # Owner(a.list, a.org)
               \/ \E h \in loads' : Late(h, a.list) /\ Tells(h, a)
    <3>1. CASE a.list = i /\ ~Missing(i)
      <4>1. Owner(a.list, a.org) = Shown(f) => a.no \in f.seen  BY <3>1, <1>2, <2>2 DEF Newer, i
      <4> QED  BY <4>1, <2>2, <3>1, <1>11
    <3>2. CASE a.list = i /\ Missing(i)
      <4>1. lists'[a.list].org = Astray  BY <3>2, <1>11 DEF Missing
      <4>2. Owner(a.list, a.org) # Astray  BY <2>1, RowsAre
      <4> QED  BY <4>1, <4>2
    <3>3. CASE a.list # i
      <4>1. lists'[a.list] = lists[a.list]  BY <3>3, <2>1, <1>11
      <4>2. CASE \E h \in loads : h # f /\ Late(h, a.list) /\ Tells(h, a)  BY <4>2, <1>13
      <4>3. CASE Late(f, a.list)
        <5>1. PICK n \in loads' : Late(n, a.list) /\ ~n.got  BY <4>3, <3>3, <2>1, <1>6
        <5> QED  BY <5>1 DEF Tells
      <4> QED  BY <4>1, <4>2, <4>3, <2>2 DEF AckOK
    <3> QED  BY <3>1, <3>2, <3>3
  <2>3. \A h : Tells(h, a)' <=> Tells(h, a)  BY <1>1, <1>14 DEF Tells
  <2>4. Owner(a.list, a.org)' = Owner(a.list, a.org)  BY <1>1 DEF Owner
  <2> QED  BY <2>1, <2>2, <2>3, <2>4, <1>1 DEF AckOK, On, Led, Late
<1> QED  BY <1>20, <1>21, <1>22, <1>23, <1>25, <1>26, <1>27, <1>28, <1>29, <1>30 DEF PageFine

\* The requests of a run: one for each chain, of which nothing has come.
LEMMA RunFields ==
  ASSUME NEW r, NEW chains, NEW asker, NEW of, NEW n \in Run(r, chains, asker, of)
  PROVE  \E c \in chains : /\ n.run = r /\ n.at = c.first /\ n.last = c.last /\ n.org = asker /\ n.of = of
                           /\ n.got = FALSE /\ n.seen = {}
<1>1. PICK c \in chains :
        n = [run |-> r, at |-> c.first, last |-> c.last, org |-> asker, of |-> of, got |-> FALSE, seen |-> {}]
  BY DEF Run
<1> QED  BY <1>1

LEMMA SwitchFine ==
  ASSUME PageShape, PageFine, NEW o \in Orgs, Switch(o)
  PROVE  PageFine'
<1>0. PICK r, new, of : r = runs + 1 /\ of = (IF page.single THEN selected ELSE o) /\ new = Run(r, page.chains, o, of)
  OBVIOUS
<1>1. /\ current' = o /\ kept' = o /\ runs' = runs + 1 /\ loads' = loads \cup new
      /\ UNCHANGED <<page, lists, selected, newest, writes, written, data, acked>>
  BY <1>0 DEF Switch, Reload
<1>2. PageLaws(page) /\ runs \in Nat  BY Typed
<1>3. \A g \in new : \E c \in page.chains :
        /\ g.run = r /\ g.at = c.first /\ g.last = c.last /\ g.org = o /\ g.of = of /\ g.seen = {}
  <2>1. \A n \in Run(r, page.chains, o, of) :
          \E c \in page.chains : /\ n.run = r /\ n.at = c.first /\ n.last = c.last /\ n.org = o /\ n.of = of
                                 /\ n.got = FALSE /\ n.seen = {}
    BY RunFields
  <2> QED  BY <2>1, <1>0
<1>4. \A c \in page.chains : \E n \in new :
        n.run = r /\ n.at = c.first /\ n.last = c.last /\ n.org = o
  <2> SUFFICES ASSUME NEW c \in page.chains
               PROVE  \E n \in new : n.run = r /\ n.at = c.first /\ n.last = c.last /\ n.org = o
    OBVIOUS
  <2>1. PICK n : n = [run |-> r, at |-> c.first, last |-> c.last, org |-> o, of |-> of, got |-> FALSE, seen |-> {}]
    OBVIOUS
  <2>2. n \in new  BY <2>1, <1>0 DEF Run
  <2> QED  BY <2>1, <2>2
<1>5. \A j \in Lists : On(page, j) =>
        \E n \in loads' : n.run = r /\ Late(n, j) /\ n.org = o /\ n.at \in Lists
  BY <1>1, <1>2, <1>4 DEF On, Late, PageLaws, ChainLaw
<1>15. /\ \A g : Shown(g)' = Shown(g)
       /\ \A q : RowsOf(q)' = RowsOf(q)
       /\ \A k, q : Owner(k, q)' = Owner(k, q) /\ (Filled(k)' <=> Filled(k))
  BY <1>1 DEF Shown, Owner, RowsOf, Filled, On
<1>6. LoadsOK'
  <2>1. ASSUME NEW g \in loads  PROVE LoadOK(g)'
    <3>1. LoadOK(g)  BY DEF PageFine, LoadsOK
    <3>2. g.seen \subseteq RowsOf(Shown(g))'  BY <3>1, <1>1, <1>15 DEF LoadOK, RowsOf
    <3> QED  BY <3>1, <3>2, <1>1 DEF LoadOK, On, Led
  <2>2. ASSUME NEW g \in new  PROVE LoadOK(g)'
    <3>1. PICK c \in page.chains : g.at = c.first /\ g.last = c.last /\ g.org = o /\ g.of = of /\ g.seen = {}
      BY <1>3
    <3>2. g.at <= g.last /\ \A j \in Lists : Late(g, j) => On(page, j)
      BY <3>1, <1>2 DEF PageLaws, ChainLaw, Late, On
    <3>3. page.leads => g.last = g.at  BY <3>1, LedApart DEF LeadLaw
    <3>4. g.of # g.org => page.single  BY <3>1, <1>0
    <3> QED  BY <3>1, <3>2, <3>3, <3>4, <1>1 DEF LoadOK, On, Led
  <2> QED  BY <2>1, <2>2, <1>1 DEF LoadsOK
<1>7. OrderOK'
  <2> SUFFICES ASSUME NEW g \in loads', NEW j \in Lists, Late(g, j), Filled(j), ~Comes(g, j)'
               PROVE  \E h \in loads' : h.run > g.run /\ Comes(h, j)'
    BY <1>15 DEF OrderOK, Late
  <2>1. g.org # o  BY <1>1 DEF Comes
  <2>2. g \in loads  BY <2>1, <1>1, <1>3
  <2>3. g.run \in 1..runs  BY <2>2, Typed
  <2>4. PICK n \in loads' : n.run = r /\ Late(n, j) /\ n.org = o
    BY <1>5 DEF Filled
  <2> QED  BY <2>3, <2>4, <1>0, <1>1, <1>2 DEF Comes
<1>8. FilledOK'
  <2> SUFFICES ASSUME NEW j \in Lists, Filled(j)  PROVE \E h \in loads' : Comes(h, j)'
    BY <1>1 DEF FilledOK, Filled, On
  <2> QED  BY <1>1, <1>5 DEF Comes, Filled
<1>9. OthersOK'  BY <1>1 DEF PageFine, OthersOK, Filled, Led, On
<1>10. page.leads => \E h \in loads' : WillLead(h)'
  <2> SUFFICES ASSUME page.leads  PROVE \E h \in loads' : WillLead(h)'
    OBVIOUS
  <2>1. On(page, 1) /\ 1 \in Lists  BY LedApart DEF Filled, Lists
  <2>2. PICK n \in loads' : Late(n, 1) /\ n.org = o /\ n.at \in Lists  BY <2>1, <1>5
  <2>3. n.at = 1  BY <2>2 DEF Late, Lists
  <2> QED  BY <2>2, <2>3, <1>1 DEF WillLead
<1>11. SelectedOK' /\ TasksOK'
  BY <1>1, <1>10 DEF SelectedOK, TasksOK
<1>12. NoTasksOK'
  <2>1. page.leads => \A g \in new : g.at # 2  BY <1>3, LedApart DEF LeadLaw
  <2> QED  BY <2>1, <1>1 DEF PageFine, NoTasksOK, Ahead
<1>13. SeenOK' /\ WritesOK'
  <2>1. SeenOK'  BY <1>1, <1>15 DEF PageFine, SeenOK, Due, Ahead
  <2>2. WritesOK'  BY <1>1, <1>15 DEF PageFine, WritesOK, WriteOK, AheadOK, Due, Ahead, OnRow, Possible, Led
  <2> QED  BY <2>1, <2>2
<1>14. AcksOK'
  <2>1. \A h \in loads : h \in loads'  BY <1>1
  <2> SUFFICES ASSUME NEW a \in acked, AckOK(a)  PROVE AckOK(a)'
    BY <1>1 DEF PageFine, AcksOK
  <2>2. \A h : Tells(h, a)' <=> Tells(h, a)  BY <1>1, <1>15 DEF Tells
  <2>3. Owner(a.list, a.org)' = Owner(a.list, a.org)  BY <1>1 DEF Owner
  <2> QED  BY <2>1, <2>2, <2>3, <1>1 DEF AckOK, On, Led, Late
<1> QED  BY <1>6, <1>7, <1>8, <1>9, <1>11, <1>12, <1>13, <1>14 DEF PageFine

LEMMA EventFine ==
  ASSUME PageShape, PageFine, NEW i \in Lists, Event(i)
  PROVE  PageFine'
<1>1. /\ i \in page.fed
      /\ \A j \in Lists : j # i => lists'[j] = lists[j]
      /\ lists'[i].seen = lists[i].seen
      /\ UNCHANGED <<page, current, kept, selected, loading, loads, runs, newest, writes, written, data, acked, trouble>>
  <2>1. lists \in [Lists -> ListSet(written)]  BY DEF PageShape, ListShape
  <2> QED  BY <2>1 DEF Event, ListSet
\* Nothing is asked for, written or told about a list that is fed.
<1>2. ~On(page, i) /\ ~page.leads  BY <1>1, Typed DEF PageLaws, EventLaw
<1>3. ~Filled(i) /\ ~Led(i)  BY <1>2 DEF Filled, Led
<1>4. /\ \A g : Shown(g)' = Shown(g)
      /\ \A q : RowsOf(q)' = RowsOf(q)
      /\ \A k, q : Owner(k, q)' = Owner(k, q) /\ (Filled(k)' <=> Filled(k)) /\ (Led(k)' <=> Led(k))
      /\ \A g, k : Comes(g, k)' <=> Comes(g, k)
  BY <1>1 DEF Shown, Owner, RowsOf, Filled, On, Led, Comes
<1>5. LoadsOK'
  <2>1. ASSUME NEW g \in loads  PROVE LoadOK(g)'
    <3>1. LoadOK(g)  BY DEF PageFine, LoadsOK
    <3>2. g.seen \subseteq RowsOf(Shown(g))'  BY <3>1, <1>1, <1>4 DEF LoadOK, RowsOf
    <3> QED  BY <3>1, <3>2, <1>1 DEF LoadOK, On, Led
  <2> QED  BY <2>1, <1>1 DEF PageFine, LoadsOK
<1>6. OrderOK' /\ SelectedOK' /\ TasksOK' /\ NoTasksOK'
  BY <1>1, <1>2, <1>4 DEF PageFine, OrderOK, SelectedOK, TasksOK, NoTasksOK
<1>7. FilledOK'
  BY <1>1, <1>3, <1>4 DEF PageFine, FilledOK, Missing
<1>8. OthersOK' /\ lists[i].seen = {}
  <2>1. lists[i].seen = {}  BY <1>3 DEF PageFine, OthersOK, Nothing
  <2> QED  BY <2>1, <1>1, <1>4 DEF PageFine, OthersOK
<1>9. SeenOK'
  BY <1>1, <1>4, <1>8 DEF PageFine, SeenOK, Due, Ahead
<1>10. WritesOK'
  <2> SUFFICES ASSUME NEW w \in writes, WriteOK(w), AheadOK(w)  PROVE WriteOK(w)' /\ AheadOK(w)'
    BY <1>1 DEF PageFine, WritesOK
  <2>1. w.op.list \in Lists /\ w.op.list # i  BY <1>2, Typed DEF OpLaw
  <2>2. WriteOK(w)'  BY <1>1 DEF WriteOK, Possible, OnRow, Ahead, Led
  <2> QED  BY <2>1, <2>2, <1>1, <1>4 DEF AheadOK, Due, Ahead
<1>11. AcksOK'
  <2> SUFFICES ASSUME NEW a \in acked, AckOK(a)  PROVE AckOK(a)'
    BY <1>1 DEF PageFine, AcksOK
  <2>1. a.list \in Lists /\ a.list # i  BY <1>2, <1>3, Typed DEF AckOK
  <2>2. \A h : Tells(h, a)' <=> Tells(h, a)  BY <1>1, <1>4 DEF Tells
  <2>3. Owner(a.list, a.org)' = Owner(a.list, a.org)  BY <1>1 DEF Owner
  <2> QED  BY <2>1, <2>2, <2>3, <1>1 DEF AckOK, On, Led, Late
<1> QED  BY <1>5, <1>6, <1>7, <1>8, <1>9, <1>10, <1>11 DEF PageFine

LEMMA WakeFine ==
  ASSUME PageShape, PageFine, NEW i \in Lists, Wake(i)
  PROVE  PageFine'
<1>0. PICK r, new, of : r = runs + 1 /\ of = (IF page.leads THEN selected ELSE kept) /\ new = Run(r, {Chain(i, i)}, kept, of)
  OBVIOUS
<1>1. /\ loads' = loads \cup new /\ i \in page.woken /\ (page.leads => selected # NoProject)
      /\ UNCHANGED <<page, current, kept, lists, selected, newest, writes, written, data, acked>>
  BY <1>0 DEF Wake
<1>2. (IF page.leads THEN i = 2 ELSE On(page, i)) /\ ~page.single /\ kept = current
  BY <1>1, Typed DEF PageLaws, EventLaw, PageFine, LoadsOK
<1>3. \A g \in new : g.run = r /\ g.at = i /\ g.last = i /\ g.org = current /\ g.of = of /\ g.seen = {}
  <2>1. \A g \in Run(r, {Chain(i, i)}, kept, of) : \E c \in {Chain(i, i)} :
          /\ g.run = r /\ g.at = c.first /\ g.last = c.last /\ g.org = kept /\ g.of = of
          /\ g.got = FALSE /\ g.seen = {}
    BY RunFields
  <2> QED  BY <2>1, <1>0, <1>2, FieldsOfPages
<1>4. /\ \A g : Shown(g)' = Shown(g)
      /\ \A q : RowsOf(q)' = RowsOf(q)
      /\ \A k, q : Owner(k, q)' = Owner(k, q) /\ (Filled(k)' <=> Filled(k)) /\ (Missing(k)' <=> Missing(k))
      /\ \A g, k : Comes(g, k)' <=> Comes(g, k)
      /\ \A g : (WillLead(g)' <=> WillLead(g)) /\ (Matched(g)' <=> Matched(g))
  BY <1>1 DEF Shown, Owner, RowsOf, Filled, On, Missing, Comes, WillLead, Matched
<1>5. LoadsOK'
  <2>1. ASSUME NEW g \in loads  PROVE LoadOK(g)'
    <3>1. LoadOK(g)  BY DEF PageFine, LoadsOK
    <3>2. g.seen \subseteq RowsOf(Shown(g))'  BY <3>1, <1>1, <1>4 DEF LoadOK, RowsOf
    <3> QED  BY <3>1, <3>2, <1>1 DEF LoadOK, On, Led
  <2>2. ASSUME NEW g \in new  PROVE LoadOK(g)'
    <3>1. \A j \in Lists : Late(g, j) => j = i  BY <2>2, <1>3 DEF Late, Lists
    <3>2. On(page, i) \/ Led(i)  BY <1>2 DEF Led
    <3>3. g.of # g.org => Led(g.at)  BY <2>2, <1>0, <1>2, <1>3 DEF Led
    <3>4. g.at <= g.last  BY <2>2, <1>3 DEF Lists
    <3> QED  BY <2>2, <3>1, <3>2, <3>3, <3>4, <1>1, <1>3 DEF LoadOK, On, Led
  <2> QED  BY <2>1, <2>2, <1>1 DEF PageFine, LoadsOK
<1>6. OrderOK'
  <2>1. \A j : \A g \in new : Late(g, j) => Comes(g, j)  BY <1>3 DEF Comes
  <2>2. OrderOK  BY DEF PageFine
  <2> QED  BY <2>1, <2>2, <1>1, <1>4 DEF OrderOK, Late
<1>7. FilledOK' /\ OthersOK' /\ SelectedOK' /\ TasksOK'
  <2>1. FilledOK'  BY <1>1, <1>4 DEF PageFine, FilledOK
  <2>2. OthersOK'  BY <1>1 DEF PageFine, OthersOK, Filled, On, Led
  <2>3. SelectedOK' /\ TasksOK'  BY <1>1, <1>4 DEF PageFine, SelectedOK, TasksOK
  <2> QED  BY <2>1, <2>2, <2>3
<1>8. NoTasksOK'
  BY <1>1 DEF NoTasksOK
<1>9. SeenOK' /\ WritesOK'
  <2>1. SeenOK'  BY <1>1, <1>4 DEF PageFine, SeenOK, Due, Ahead
  <2>2. WritesOK'  BY <1>1, <1>4 DEF PageFine, WritesOK, WriteOK, AheadOK, Due, Ahead, OnRow, Possible, Led
  <2> QED  BY <2>1, <2>2
<1>10. AcksOK'
  <2> SUFFICES ASSUME NEW a \in acked, AckOK(a)  PROVE AckOK(a)'
    BY <1>1 DEF PageFine, AcksOK
  <2>1. \A h \in loads : h \in loads'  BY <1>1
  <2>2. \A h : Tells(h, a)' <=> Tells(h, a)  BY <1>1, <1>4 DEF Tells
  <2>3. Owner(a.list, a.org)' = Owner(a.list, a.org)  BY <1>1 DEF Owner
  <2> QED  BY <2>1, <2>2, <2>3, <1>1 DEF AckOK, On, Led, Late
<1> QED  BY <1>5, <1>6, <1>7, <1>8, <1>9, <1>10 DEF PageFine

LEMMA WriteFine ==
  ASSUME PageShape, PageFine, NEW op \in page.ops, Write(op)
  PROVE  PageFine'
<1>0. PICK w0 : w0 = [no |-> written + 1, op |-> op, org |-> Sender(current), of |-> About(op), before |-> lists[op.list], state |-> "sent"]
  OBVIOUS
<1>1. /\ writes' = writes \cup {w0} /\ written' = written + 1
      /\ OnRow(op) => lists[op.list].org \notin {NoProject, Astray}
      /\ lists' = IF Ahead(op) THEN [lists EXCEPT ![op.list].seen = @ \cup {written + 1}] ELSE lists
      /\ UNCHANGED <<page, current, kept, selected, loading, loads, runs, newest, data, acked, trouble>>
  BY <1>0 DEF Write
<1>2. w0.no = written + 1 /\ w0.op = op /\ w0.org = current /\ w0.of = About(op) /\ w0.before = lists[op.list] /\ w0.state = "sent"
  BY <1>0 DEF PageFine, LoadsOK, Sender
<1>3. OpLaw(page, op) /\ op.list \in Lists /\ written \in Nat /\ kept = current /\ current \in Orgs
  BY Typed DEF PageLaws, OpLaw, PageFine, LoadsOK
<1>4. lists \in [Lists -> ListSet(written)]  BY DEF PageShape, ListShape
<1>5. /\ \A j \in Lists : lists'[j].org = lists[j].org /\ lists[j].seen \subseteq lists'[j].seen
      /\ \A j \in Lists : lists'[j] = lists[j] \/ (Ahead(op) /\ j = op.list)
      /\ \A j \in Lists : \A u \in lists'[j].seen : u \in lists[j].seen \/ (Ahead(op) /\ j = op.list /\ u = written + 1)
      /\ Ahead(op) => written + 1 \in lists'[op.list].seen
  BY <1>1, <1>3, <1>4 DEF ListSet
<1>19. /\ \A g : Shown(g)' = Shown(g)
       /\ \A k, q : Owner(k, q)' = Owner(k, q) /\ (Filled(k)' <=> Filled(k))
       /\ \A g, k : Comes(g, k)' <=> Comes(g, k)
       /\ \A g : (WillLead(g)' <=> WillLead(g)) /\ (Matched(g)' <=> Matched(g))
       /\ \A q : RowsOf(q)' = RowsOf(q)
       /\ \A k \in Lists : Missing(k)' <=> Missing(k)
  BY <1>1, <1>5 DEF Shown, Owner, Filled, On, Comes, WillLead, Matched, RowsOf, Missing
<1>6. LoadsOK' /\ OrderOK' /\ SelectedOK'
  <2>1. ASSUME NEW g \in loads  PROVE LoadOK(g)'
    <3>1. LoadOK(g)  BY DEF PageFine, LoadsOK
    <3>2. g.seen \subseteq RowsOf(Shown(g))'  BY <3>1, <1>1, <1>19 DEF LoadOK, RowsOf
    <3> QED  BY <3>1, <3>2, <1>1 DEF LoadOK, On, Led
  <2>2. LoadsOK'  BY <2>1, <1>1 DEF PageFine, LoadsOK
  <2>3. OrderOK' /\ SelectedOK'  BY <1>1, <1>19 DEF PageFine, OrderOK, SelectedOK
  <2> QED  BY <2>2, <2>3
<1>7. FilledOK' /\ TasksOK'
  <2>1. 2 \in Lists  BY DEF Lists
  <2>2. FilledOK'  BY <1>1, <1>5, <1>19 DEF PageFine, FilledOK
  <2>3. TasksOK'  BY <1>1, <1>5, <1>19, <2>1 DEF PageFine, TasksOK
  <2> QED  BY <2>2, <2>3
<1>8. OthersOK'
  <2>1. ASSUME Ahead(op)  PROVE Filled(op.list) \/ Led(op.list)
    BY <2>1, <1>3 DEF Ahead, OpLaw, Filled, Led
  <2>2. \A k \in Lists : Filled(k) \/ Led(k) \/ lists[k] = Nothing \/ (k \in page.fed /\ lists[k].seen = {})
    BY DEF PageFine, OthersOK
  <2>3. \A k \in Lists : Filled(k) \/ Led(k) \/ lists'[k] = Nothing \/ (k \in page.fed /\ lists'[k].seen = {})
    BY <2>1, <2>2, <1>5
  <2> QED  BY <2>3, <1>1 DEF OthersOK, Filled, Led, On
<1>9. NoTasksOK'
  <2> SUFFICES ASSUME page.leads, selected = NoProject
               PROVE  /\ lists'[2].org = NoProject
                      /\ \A f \in loads : f.at # 2
                      /\ \A w \in writes' : w.op.list = 2 => w.of = NoProject /\ w.state # "done" /\ ~Ahead(w.op)
                      /\ \A a \in acked : a.list # 2
    BY <1>1 DEF NoTasksOK, Ahead
  <2>1. /\ lists[2].org = NoProject
        /\ \A f \in loads : f.at # 2
        /\ \A w \in writes : w.op.list = 2 => w.of = NoProject /\ w.state # "done" /\ ~Ahead(w.op)
        /\ \A a \in acked : a.list # 2
    BY DEF PageFine, NoTasksOK
  <2>2. op.list = 2 => ~Ahead(op) /\ About(op) = NoProject  BY <2>1, <1>1, LedApart DEF About, OnRow
  <2>3. 2 \in Lists  BY DEF Lists
  <2> QED  BY <2>1, <2>2, <2>3, <1>1, <1>2, <1>5
<1>10. \A u, j : Due(u, j) => Due(u, j)'  BY <1>1 DEF Due, Ahead
<1>11. \A o : RowsOf(o)' = RowsOf(o)  BY <1>1 DEF RowsOf
<1>12. SeenOK'
  <2>1. Ahead(op) => Due(w0.no, op.list)'  BY <1>1, <1>2 DEF Due, Ahead
  <2>2. \A j \in Lists : lists[j].org = NoProject => lists[j].seen = {}  BY DEF PageFine, SeenOK
  <2>3. \A j \in Lists : lists'[j].org = NoProject => lists'[j].seen = {}  BY <2>2, <1>1, <1>5 DEF OnRow
  <2>4. \A j \in Lists : \A u \in lists[j].seen : u \in RowsOf(lists[j].org) \/ Due(u, j)
    BY DEF PageFine, SeenOK
  <2>5. ASSUME NEW j \in Lists, NEW u \in lists'[j].seen
        PROVE  u \in RowsOf(lists'[j].org) \/ Due(u, j)'
    <3>1. CASE u \in lists[j].seen  BY <3>1, <2>4, <1>5, <1>10 DEF RowsOf
    <3>2. CASE Ahead(op) /\ j = op.list /\ u = written + 1  BY <3>2, <2>1, <1>2
    <3> QED  BY <3>1, <3>2, <1>5
  <2> QED  BY <2>3, <2>5, <1>1 DEF SeenOK, RowsOf
<1>13. \A w \in writes : WriteOK(w)'
  <2> SUFFICES ASSUME NEW w \in writes  PROVE WriteOK(w)'
    OBVIOUS
  <2>1. w.no # w0.no  BY <1>2, <1>3, Typed
  <2>2. WriteOK(w)  BY DEF PageFine, WritesOK
  <2> QED  BY <2>1, <2>2, <1>1 DEF WriteOK, Possible, OnRow, Ahead, Led
<1>14. WriteOK(w0)'
  <2>1. \A v \in writes : v.no # w0.no  BY <1>2, <1>3, Typed
  <2>2. \A a \in acked : a.no # w0.no  BY <1>2, <1>3, Typed
  <2>3. \A o \in Orgs : w0.no \notin data[o]  BY <1>2, <1>3, Typed
  <2>4. ~(OnRow(w0.op) \/ Led(w0.op.list)) => w0.of = w0.org
    BY <1>2, <1>3 DEF About, Led, Sender
  <2> QED  BY <2>1, <2>2, <2>3, <2>4, <1>1, <1>2 DEF WriteOK, OnRow, Ahead, Led
<1>15. \A w \in writes : AheadOK(w)'
  <2> SUFFICES ASSUME NEW w \in writes, Ahead(w.op)  PROVE AheadOK(w)'
    BY DEF AheadOK, Ahead
  <2>1. AheadOK(w) /\ w.op.list \in Lists  BY Typed DEF PageFine, WritesOK
  <2> QED  BY <2>1, <1>5, <1>10, <1>11 DEF AheadOK, Ahead
<1>16. AheadOK(w0)'
  <2> SUFFICES ASSUME Ahead(op)  PROVE AheadOK(w0)'
    BY <1>2 DEF AheadOK, Ahead
  <2>1. About(op) = lists[op.list].org /\ OnRow(op)  BY DEF About, OnRow
  <2>2. w0.no \in lists'[w0.op.list].seen /\ lists'[w0.op.list].org = w0.of /\ w0.before.org = w0.of /\ w0.of \notin {NoProject, Astray}
    BY <2>1, <1>1, <1>2, <1>3, <1>5
  <2>3. \A u \in w0.before.seen : u < w0.no  BY <1>2, <1>3, Typed
  <2>4. \A u \in lists[op.list].seen : u \in RowsOf(lists[op.list].org) \/ Due(u, op.list)
    BY <1>3 DEF PageFine, SeenOK
  <2>5. \A u \in w0.before.seen : u \in RowsOf(w0.of) \/ Due(u, w0.op.list)
    BY <2>1, <2>4, <1>2
  <2> QED  BY <2>2, <2>3, <2>5, <1>10, <1>11 DEF AheadOK
<1>17. WritesOK'  BY <1>1, <1>13, <1>14, <1>15, <1>16 DEF WritesOK
<1>18. AcksOK'
  <2> SUFFICES ASSUME NEW a \in acked, AckOK(a)  PROVE AckOK(a)'
    BY <1>1 DEF PageFine, AcksOK
  <2>1. a.list \in Lists  BY Typed
  <2>2. \A h : Tells(h, a)' <=> Tells(h, a)  BY <1>1, <1>19 DEF Tells
  <2>3. Owner(a.list, a.org)' = Owner(a.list, a.org)  BY <1>1 DEF Owner
  <2> QED  BY <2>1, <2>2, <2>3, <1>1, <1>5 DEF AckOK, On, Led, Late
<1> QED  BY <1>6, <1>7, <1>8, <1>9, <1>12, <1>17, <1>18 DEF PageFine

LEMMA ServeWriteFine ==
  ASSUME PageShape, PageFine, NEW w \in writes, ServeWrite(w)
  PROVE  PageFine'
<1>1. PICK ok \in BOOLEAN :
        /\ ok => Possible(w)
        /\ data' = IF ok /\ w.of = w.org THEN [data EXCEPT ![w.org] = @ \cup {w.no}] ELSE data
        /\ writes' = (writes \ {w}) \cup {[w EXCEPT !.state = IF ok THEN "done" ELSE "refused"]}
  BY DEF ServeWrite
<1>2. /\ w.state = "sent"
      /\ UNCHANGED <<page, current, kept, lists, selected, loading, loads, runs, newest, written, acked, trouble>>
  BY DEF ServeWrite
<1> DEFINE w2 == [w EXCEPT !.state = IF ok THEN "done" ELSE "refused"]
<1>3. w \in WriteSet(page.ops, written) /\ w.org \in Orgs  BY Typed DEF PageShape, WriteShape
<1>4. /\ w2.no = w.no /\ w2.op = w.op /\ w2.org = w.org /\ w2.of = w.of /\ w2.before = w.before
      /\ w2.state = IF ok THEN "done" ELSE "refused"
  BY <1>3 DEF WriteSet
<1>5. writes' = (writes \ {w}) \cup {w2}  BY <1>1
<1> HIDE DEF w2
<1>6. data \in [Orgs -> SUBSET (1..written)]  BY DEF PageShape, DataShape
<1>7. /\ \A o \in Orgs : data[o] \subseteq data'[o]
      /\ \A o \in Orgs : \A u \in data'[o] : u \in data[o] \/ (ok /\ w.of = w.org /\ o = w.org /\ u = w.no)
      /\ (ok /\ w.of = w.org) => w.no \in data'[w.org]
  BY <1>1, <1>3, <1>6
<1>12. \A o : RowsOf(o) \subseteq RowsOf(o)'  BY <1>7 DEF RowsOf
<1>21. /\ \A g : Shown(g)' = Shown(g)
       /\ \A k, q : Owner(k, q)' = Owner(k, q) /\ (Filled(k)' <=> Filled(k))
       /\ \A g, k : Comes(g, k)' <=> Comes(g, k)
       /\ \A g : (WillLead(g)' <=> WillLead(g)) /\ (Matched(g)' <=> Matched(g))
       /\ \A k : Missing(k)' <=> Missing(k)
  BY <1>2 DEF Shown, Owner, Filled, On, Comes, WillLead, Matched, Missing
<1>8. LoadsOK'
  <2>1. ASSUME NEW g \in loads  PROVE LoadOK(g)'
    <3>1. LoadOK(g)  BY DEF PageFine, LoadsOK
    <3>2. g.seen \subseteq RowsOf(Shown(g))'  BY <3>1, <1>7, <1>21 DEF LoadOK, RowsOf
    <3> QED  BY <3>1, <3>2, <1>2 DEF LoadOK, On, Led
  <2> QED  BY <2>1, <1>2 DEF PageFine, LoadsOK
<1>9. OrderOK' /\ FilledOK' /\ OthersOK' /\ SelectedOK' /\ TasksOK'
  <2>1. OrderOK' /\ FilledOK'  BY <1>2, <1>21 DEF PageFine, OrderOK, FilledOK
  <2>2. OthersOK' /\ SelectedOK' /\ TasksOK'  BY <1>2, <1>21 DEF PageFine, OthersOK, SelectedOK, TasksOK, Led
  <2> QED  BY <2>1, <2>2
<1>10. NoTasksOK'
  <2>1. (page.leads /\ selected = NoProject /\ w.op.list = 2) => w.of = NoProject /\ ~Ahead(w.op) /\ ~ok
    BY <1>1, LedApart DEF PageFine, NoTasksOK, Possible, OnRow
  <2> QED  BY <2>1, <1>2, <1>4, <1>5 DEF PageFine, NoTasksOK, Ahead
<1>11. \A u, j : Due(u, j) => Due(u, j)'
  BY <1>4, <1>5 DEF Due, Ahead
<1>13. SeenOK'
  <2>1. \A j \in Lists :
          /\ \A u \in lists[j].seen : u \in RowsOf(lists[j].org) \/ Due(u, j)
          /\ lists[j].org = NoProject => lists[j].seen = {}
    BY DEF PageFine, SeenOK
  <2>2. \A j \in Lists :
          /\ \A u \in lists[j].seen : u \in RowsOf(lists[j].org)' \/ Due(u, j)'
          /\ lists[j].org = NoProject => lists[j].seen = {}
    BY <2>1, <1>2, <1>11, <1>12 DEF RowsOf
  <2> QED  BY <2>2, <1>2 DEF SeenOK
<1>14. WriteOK(w)  BY DEF PageFine, WritesOK
<1>15. ASSUME NEW v \in writes, v # w  PROVE WriteOK(v)'
  <2>1. WriteOK(v)  BY DEF PageFine, WritesOK
  <2>2. v.no # w.no  BY <1>15, <2>1 DEF WriteOK
  <2>3. \A x \in writes' : x.no = v.no => x = v  BY <2>1, <2>2, <1>4, <1>5 DEF WriteOK
  <2>4. \A o \in Orgs : v.no \in data'[o] => o = v.org /\ v.state = "done"  BY <2>1, <2>2, <1>7 DEF WriteOK
  <2>5. v.org \in Orgs  BY Typed
  <2>6. v.state = "done" => Possible(v) /\ (v.of = v.org => v.no \in data'[v.org])  BY <2>1, <2>5, <1>7 DEF WriteOK
  <2>7. ~(OnRow(v.op) \/ Led(v.op.list)) => v.of = v.org  BY <2>1 DEF WriteOK
  <2>8. \A a \in acked' : a.no # v.no  BY <2>1, <1>2 DEF WriteOK
  <2> QED  BY <2>3, <2>4, <2>6, <2>7, <2>8, <1>2 DEF WriteOK, Possible, OnRow, Ahead, Led
<1>16. WriteOK(w2)'
  <2>1. \A x \in writes' : x.no = w2.no => x = w2  BY <1>4, <1>5, <1>14 DEF WriteOK
  <2>2. \A o \in Orgs : w.no \notin data[o]  BY <1>2, <1>14 DEF WriteOK
  <2>3. \A o \in Orgs : w2.no \in data'[o] => o = w2.org /\ w2.state = "done"  BY <2>2, <1>4, <1>7
  <2>4. w2.state = "done" => Possible(w2) /\ (w2.of = w2.org => w2.no \in data'[w2.org])
    BY <1>1, <1>4, <1>7 DEF Possible, OnRow
  <2>5. ~(OnRow(w2.op) \/ Led(w2.op.list)) => w2.of = w2.org  BY <1>4, <1>14 DEF WriteOK, OnRow
  <2>6. \A a \in acked' : a.no # w2.no  BY <1>2, <1>4, <1>14 DEF WriteOK
  <2> QED  BY <2>1, <2>3, <2>4, <2>5, <2>6, <1>2 DEF WriteOK, Possible, OnRow, Ahead, Led
<1>17. ASSUME NEW v, AheadOK(v)  PROVE AheadOK(v)'
  BY <1>2, <1>11, <1>12, <1>17 DEF AheadOK, Ahead
<1>18. AheadOK(w2)
  <2>1. AheadOK(w)  BY DEF PageFine, WritesOK
  <2> QED  BY <2>1, <1>4 DEF AheadOK
<1>19. WritesOK'
  <2>1. \A v \in writes : AheadOK(v)  BY DEF PageFine, WritesOK
  <2> QED  BY <2>1, <1>5, <1>15, <1>16, <1>17, <1>18 DEF WritesOK
<1>20. AcksOK'
  <2>1. \A a \in acked : AckOK(a) /\ a.org \in Orgs  BY Typed DEF PageFine, AcksOK
  <2> SUFFICES ASSUME NEW a \in acked, AckOK(a), a.org \in Orgs  PROVE AckOK(a)'
    BY <2>1, <1>2 DEF AcksOK
  <2>2. \A h : Tells(h, a)' <=> Tells(h, a)  BY <1>2, <1>21 DEF Tells
  <2>3. Owner(a.list, a.org)' = Owner(a.list, a.org)  BY <1>2 DEF Owner
  <2> QED  BY <2>2, <2>3, <1>2, <1>7 DEF AckOK, On, Led, Late
<1> QED  BY <1>8, <1>9, <1>10, <1>13, <1>19, <1>20 DEF PageFine

LEMMA RefusedFine ==
  ASSUME PageShape, PageFine, NEW w \in writes, Refused(w), trouble' = "none"
  PROVE  PageFine'
<1>1. /\ writes' = writes \ {w}
      /\ UNCHANGED <<page, current, kept, selected, loading, loads, runs, newest, written, data, acked>>
      /\ ~Ahead(w.op) => lists' = lists
      /\ Ahead(w.op) => lists' = Put(w.op.list, w.before)
  BY DEF Refused, Undo
<1>2. Ahead(w.op) => lists[w.op.list] = [w.before EXCEPT !.seen = @ \cup {w.no}]
  BY Troubled DEF Refused, Undo
<1>3. WriteOK(w) /\ AheadOK(w)  BY DEF PageFine, WritesOK
<1>4. w.op.list \in Lists /\ OpLaw(page, w.op) /\ w.no \in Nat  BY Typed
<1>5. lists \in [Lists -> ListSet(written)] /\ w.before \in ListSet(written)
  BY DEF PageShape, ListShape, WriteShape, WriteSet
\* The row that was put in goes, and nothing else does.
<1>6. Ahead(w.op) => /\ lists'[w.op.list] = w.before
                     /\ w.before.org = lists[w.op.list].org
                     /\ lists[w.op.list].seen = w.before.seen \cup {w.no}
  BY <1>1, <1>2, <1>3, <1>4, <1>5 DEF ListSet, Put, Missing, AheadOK
<1>7. /\ \A j \in Lists : lists'[j].org = lists[j].org
      /\ \A j \in Lists : lists'[j] = lists[j] \/ (Ahead(w.op) /\ j = w.op.list)
      /\ \A j \in Lists : \A u \in lists[j].seen : u \in lists'[j].seen \/ u = w.no
      /\ \A j \in Lists : lists'[j].seen \subseteq lists[j].seen
  <2>1. Ahead(w.op) => \A k \in Lists : k # w.op.list => lists'[k] = lists[k]  BY <1>1, <1>5 DEF Put
  <2> QED  BY <2>1, <1>1, <1>4, <1>6
<1>8. Ahead(w.op) => \A u \in lists'[w.op.list].seen : u < w.no
  BY <1>3, <1>6 DEF AheadOK
<1>18. /\ \A g : Shown(g)' = Shown(g)
       /\ \A k, q : Owner(k, q)' = Owner(k, q) /\ (Filled(k)' <=> Filled(k))
       /\ \A g, k : Comes(g, k)' <=> Comes(g, k)
       /\ \A g : (WillLead(g)' <=> WillLead(g)) /\ (Matched(g)' <=> Matched(g))
       /\ \A q : RowsOf(q)' = RowsOf(q)
       /\ \A k \in Lists : Missing(k)' <=> Missing(k)
  BY <1>1, <1>7 DEF Shown, Owner, Filled, On, Comes, WillLead, Matched, RowsOf, Missing
<1>9. LoadsOK' /\ OrderOK' /\ SelectedOK'
  <2>1. ASSUME NEW g \in loads  PROVE LoadOK(g)'
    <3>1. LoadOK(g)  BY DEF PageFine, LoadsOK
    <3>2. g.seen \subseteq RowsOf(Shown(g))'  BY <3>1, <1>1, <1>18 DEF LoadOK, RowsOf
    <3> QED  BY <3>1, <3>2, <1>1 DEF LoadOK, On, Led
  <2>2. LoadsOK'  BY <2>1, <1>1 DEF PageFine, LoadsOK
  <2>3. OrderOK' /\ SelectedOK'  BY <1>1, <1>18 DEF PageFine, OrderOK, SelectedOK
  <2> QED  BY <2>2, <2>3
<1>10. FilledOK' /\ TasksOK'
  <2>1. 2 \in Lists  BY DEF Lists
  <2>2. FilledOK'  BY <1>1, <1>7, <1>18 DEF PageFine, FilledOK
  <2>3. TasksOK'  BY <1>1, <1>7, <1>18, <2>1 DEF PageFine, TasksOK
  <2> QED  BY <2>2, <2>3
<1>11. OthersOK'
  <2>1. ASSUME Ahead(w.op)  PROVE Filled(w.op.list) \/ Led(w.op.list)
    BY <2>1, <1>4 DEF Ahead, OpLaw, Filled, Led
  <2>2. \A k \in Lists : Filled(k) \/ Led(k) \/ lists[k] = Nothing \/ (k \in page.fed /\ lists[k].seen = {})
    BY DEF PageFine, OthersOK
  <2>3. \A k \in Lists : Filled(k) \/ Led(k) \/ lists'[k] = Nothing \/ (k \in page.fed /\ lists'[k].seen = {})
    BY <2>1, <2>2, <1>7
  <2> QED  BY <2>3, <1>1 DEF OthersOK, Filled, Led, On
<1>12. NoTasksOK'
  <2>1. 2 \in Lists  BY DEF Lists
  <2> QED  BY <2>1, <1>1, <1>7 DEF PageFine, NoTasksOK, Ahead
<1>13. \A u, j : Due(u, j) => Due(u, j)' \/ (u = w.no /\ Ahead(w.op) /\ j = w.op.list)
  BY <1>1 DEF Due, Ahead
<1>14. \A o : RowsOf(o)' = RowsOf(o)  BY <1>1 DEF RowsOf
<1>15. SeenOK'
  <2> SUFFICES ASSUME NEW j \in Lists
               PROVE  /\ \A u \in lists'[j].seen : u \in RowsOf(lists[j].org) \/ Due(u, j)'
                      /\ lists[j].org = NoProject => lists'[j].seen = {}
    BY <1>1, <1>7 DEF SeenOK, RowsOf
  <2>1. /\ \A u \in lists[j].seen : u \in RowsOf(lists[j].org) \/ Due(u, j)
        /\ lists[j].org = NoProject => lists[j].seen = {}
    BY DEF PageFine, SeenOK
  <2>2. ASSUME NEW u \in lists'[j].seen  PROVE u \in RowsOf(lists[j].org) \/ Due(u, j)'
    <3>1. u \in lists[j].seen  BY <1>7
    <3>2. (Ahead(w.op) /\ j = w.op.list) => u # w.no  BY <1>4, <1>8
    <3> QED  BY <3>1, <3>2, <2>1, <1>13
  <2> QED  BY <2>1, <2>2, <1>7
<1>16. WritesOK'
  <2> SUFFICES ASSUME NEW v \in writes, v # w  PROVE WriteOK(v)' /\ AheadOK(v)'
    BY <1>1 DEF WritesOK
  <2>1. WriteOK(v) /\ AheadOK(v) /\ v.op.list \in Lists /\ v.no \in Nat  BY Typed DEF PageFine, WritesOK
  <2>2. v.no # w.no  BY <1>3 DEF WriteOK
  <2>3. WriteOK(v)'  BY <2>1, <1>1 DEF WriteOK, Possible, OnRow, Ahead, Led
  <2>4. ASSUME Ahead(v.op)  PROVE AheadOK(v)'
    <3>1. /\ v.no \in lists[v.op.list].seen /\ lists[v.op.list].org = v.of
          /\ v.before.org = v.of /\ v.of \notin {NoProject, Astray}
          /\ \A u \in v.before.seen : u < v.no /\ (u \in RowsOf(v.of) \/ Due(u, v.op.list))
      BY <2>1, <2>4 DEF AheadOK
    <3>2. v.no \in lists'[v.op.list].seen /\ lists'[v.op.list].org = v.of  BY <3>1, <2>1, <2>2, <1>7
    <3>3. ASSUME NEW u \in v.before.seen  PROVE u \in RowsOf(v.of) \/ Due(u, v.op.list)'
      <4>1. CASE u = w.no /\ Ahead(w.op) /\ v.op.list = w.op.list
        <5>1. v.no < w.no  BY <4>1, <3>2, <1>8
        <5>2. w.no < v.no  BY <4>1, <3>1
        <5> QED  BY <5>1, <5>2, <2>1, <1>4
      <4>2. CASE ~(u = w.no /\ Ahead(w.op) /\ v.op.list = w.op.list)  BY <4>2, <3>1, <1>13
      <4> QED  BY <4>1, <4>2
    <3> QED  BY <3>1, <3>2, <3>3, <1>14 DEF AheadOK
  <2>5. ~Ahead(v.op) => AheadOK(v)'  BY DEF AheadOK, Ahead
  <2> QED  BY <2>3, <2>4, <2>5
<1>17. AcksOK'
  <2> SUFFICES ASSUME NEW a \in acked, AckOK(a)  PROVE AckOK(a)'
    BY <1>1 DEF PageFine, AcksOK
  <2>1. a.list \in Lists /\ a.no # w.no  BY <1>3, Typed DEF WriteOK
  <2>2. \A h : Tells(h, a)' <=> Tells(h, a)  BY <1>1, <1>18 DEF Tells
  <2>3. Owner(a.list, a.org)' = Owner(a.list, a.org)  BY <1>1 DEF Owner
  <2> QED  BY <2>1, <2>2, <2>3, <1>1, <1>7 DEF AckOK, On, Led, Late
<1> QED  BY <1>9, <1>10, <1>11, <1>12, <1>15, <1>16, <1>17 DEF PageFine

LEMMA SucceededFine ==
  ASSUME PageShape, PageFine, NEW w \in writes, Succeeded(w), trouble' = "none"
  PROVE  PageFine'
<1>0. PICK r, new, of : /\ r = runs + 1 /\ new = Run(r, Again(w.op), Sender(w.org), of)
                        /\ of = (IF page.leads THEN w.of ELSE IF page.single THEN selected ELSE Sender(w.org))
  OBVIOUS
<1> DEFINE i == w.op.list
           again == w.op.after \in {"reload", "reread"}
<1>1. /\ w.state = "done" /\ writes' = writes \ {w}
      /\ acked' = acked \cup {[no |-> w.no, org |-> w.org, list |-> i]}
      /\ lists' = IF w.op.after = "patch" THEN [lists EXCEPT ![i].seen = @ \cup {w.no}] ELSE lists
      /\ loads' = IF again THEN loads \cup new ELSE loads
      /\ UNCHANGED <<page, current, kept, selected, newest, written, data>>
  BY <1>0 DEF Succeeded, Follow
<1>2. w.of = w.org /\ (page.named => w.org = current) /\ (i \notin page.misread => lists[i].org = Owner(i, w.org))
  BY Troubled DEF Succeeded
<1>3. WriteOK(w) /\ AheadOK(w) /\ kept = current /\ Sender(w.org) = current
  BY <1>2 DEF PageFine, WritesOK, LoadsOK, Sender
<1>4. /\ i \in Lists /\ OpLaw(page, w.op) /\ w.org \in Orgs /\ w.op \in page.ops /\ current \in Orgs
      /\ PageLaws(page) /\ page \in Pages
  BY Typed DEF PageShape, TabShape
<1>5. lists \in [Lists -> ListSet(written)]  BY DEF PageShape, ListShape
<1>6. w.no \in data[w.org] /\ w.no \in RowsOf(Owner(i, w.org)) /\ Owner(i, w.org) # NoProject
  <2>1. w.no \in data[w.org]  BY <1>1, <1>2, <1>3 DEF WriteOK
  <2> QED  BY <2>1, <1>4, RowsAre
<1>7. \A g \in new : \E c \in Again(w.op) :
        g.run = r /\ g.at = c.first /\ g.last = c.last /\ g.org = current /\ g.of = of /\ g.seen = {}
  <2>1. \A g \in Run(r, Again(w.op), Sender(w.org), of) : \E c \in Again(w.op) :
          /\ g.run = r /\ g.at = c.first /\ g.last = c.last /\ g.org = Sender(w.org) /\ g.of = of
          /\ g.got = FALSE /\ g.seen = {}
    BY RunFields
  <2> QED  BY <2>1, <1>0, <1>3
\* The list that was written to is among those asked for again.
<1>8. again => \E g \in new : Late(g, i) /\ g.got = FALSE
  <2> SUFFICES ASSUME again  PROVE \E g \in new : Late(g, i) /\ g.got = FALSE
    OBVIOUS
  <2>1. page.leads => w.op.after = "reread"  BY <1>4, LedApart DEF LeadLaw
  <2>2. PICK c \in Again(w.op) : c.first <= i /\ i <= c.last
    <3>1. CASE w.op.after = "reload"
      <4>1. On(page, i)  BY <2>1, <3>1, <1>4 DEF OpLaw
      <4>2. PICK c \in page.chains : c.first <= i /\ i <= c.last  BY <4>1 DEF On
      <4>3. c.first \in Lists /\ c.last \in Lists  BY <4>2, <1>4 DEF PageLaws, ChainLaw
      <4>4. c \in Again(w.op)  BY <3>1, <4>2, <4>3, <1>4 DEF Again, Lists
      <4> QED  BY <4>2, <4>4
    <3>2. CASE w.op.after = "reread"
      <4>1. Chain(i, i) \in Again(w.op)  BY <3>2 DEF Again
      <4>2. Chain(i, i).first = i /\ Chain(i, i).last = i /\ i <= i  BY <1>4, FieldsOfPages DEF Lists
      <4> QED  BY <4>1, <4>2
    <3> QED  BY <3>1, <3>2
  <2>3. PICK n : n = [run |-> r, at |-> c.first, last |-> c.last, org |-> Sender(w.org), of |-> of, got |-> FALSE, seen |-> {}]
    OBVIOUS
  <2>4. n \in new  BY <2>3, <1>0 DEF Run
  <2> QED  BY <2>2, <2>3, <2>4 DEF Late
<1>9. loads \subseteq loads' /\ \A g \in loads' : g \in loads \/ (again /\ g \in new)
  BY <1>1
<1>10. /\ \A j \in Lists : lists'[j].org = lists[j].org /\ lists[j].seen \subseteq lists'[j].seen
       /\ \A j \in Lists : lists'[j] = lists[j] \/ (w.op.after = "patch" /\ j = i)
       /\ \A j \in Lists : \A u \in lists'[j].seen : u \in lists[j].seen \/ (w.op.after = "patch" /\ j = i /\ u = w.no)
       /\ w.op.after = "patch" => w.no \in lists'[i].seen
  BY <1>1, <1>4, <1>5 DEF ListSet
<1> HIDE DEF i, again
<1>25. /\ \A g : Shown(g)' = Shown(g)
       /\ \A k, q : Owner(k, q)' = Owner(k, q) /\ (Filled(k)' <=> Filled(k))
       /\ \A g, k : Comes(g, k)' <=> Comes(g, k)
       /\ \A g : (WillLead(g)' <=> WillLead(g)) /\ (Matched(g)' <=> Matched(g))
       /\ \A q : RowsOf(q)' = RowsOf(q)
       /\ \A k \in Lists : Missing(k)' <=> Missing(k)
  BY <1>1, <1>10 DEF Shown, Owner, Filled, On, Comes, WillLead, Matched, RowsOf, Missing
<1>11. LoadsOK'
  <2>1. ASSUME NEW g \in loads  PROVE LoadOK(g)'
    <3>1. LoadOK(g)  BY DEF PageFine, LoadsOK
    <3>2. g.seen \subseteq RowsOf(Shown(g))'  BY <3>1, <1>1, <1>25 DEF LoadOK, RowsOf
    <3> QED  BY <3>1, <3>2, <1>1 DEF LoadOK, On, Led
  <2>2. ASSUME NEW g \in new, again  PROVE LoadOK(g)'
    <3>1. PICK c \in Again(w.op) : g.at = c.first /\ g.last = c.last /\ g.org = current /\ g.of = of /\ g.seen = {}
      BY <1>7
    <3>2. c.first \in Lists /\ c.last \in Lists /\ c.first <= c.last  BY <1>4, AgainLawful
    <3>3. of # current => page.leads \/ page.single  BY <1>0, <1>3
    <3>4. page.leads => w.op.after = "reread" /\ i = 2  BY <2>2, <1>4, LedApart DEF LeadLaw, again, i
    <3>5. w.op.after = "reread" => c.first = i /\ c.last = i  BY FieldsOfPages DEF Again, i
    <3>6. w.op.after # "reread" => c \in page.chains  BY <2>2 DEF Again, again
    <3>7. \A j \in Lists : Late(g, j) => On(page, j) \/ Led(j)
      <4>1. CASE w.op.after = "reread"
        <5>1. \A j \in Lists : Late(g, j) => j = i  BY <3>1, <3>5, <4>1, <1>4 DEF Late, Lists
        <5>2. On(page, i) \/ Led(i)  BY <1>4 DEF OpLaw, Led, i
        <5> QED  BY <5>1, <5>2
      <4>2. CASE w.op.after # "reread"  BY <4>2, <3>1, <3>6 DEF Late, On
      <4> QED  BY <4>1, <4>2
    <3>8. page.leads => g.last = g.at /\ Led(g.at)  BY <3>1, <3>4, <3>5 DEF Led
    <3> QED  BY <3>1, <3>2, <3>3, <3>7, <3>8, <1>1 DEF LoadOK, On, Led
  <2> QED  BY <2>1, <2>2, <1>1, <1>3, <1>9 DEF LoadsOK
<1>12. OrderOK'
  <2>1. \A j : \A g \in loads' : Late(g, j) /\ ~Comes(g, j) => g \in loads  BY <1>7, <1>9 DEF Comes
  <2>2. OrderOK  BY DEF PageFine
  <2> QED  BY <2>1, <2>2, <1>1, <1>9, <1>25 DEF OrderOK, Late
<1>13. FilledOK' /\ SelectedOK' /\ TasksOK'
  <2>1. 2 \in Lists  BY DEF Lists
  <2>2. FilledOK'  BY <1>1, <1>9, <1>10, <1>25 DEF PageFine, FilledOK
  <2>3. SelectedOK'  BY <1>1, <1>9, <1>25 DEF PageFine, SelectedOK
  <2>4. TasksOK'  BY <2>1, <1>1, <1>9, <1>10, <1>25 DEF PageFine, TasksOK
  <2> QED  BY <2>2, <2>3, <2>4
<1>14. OthersOK'
  <2>1. w.op.after = "patch" => Filled(i) \/ Led(i)  BY <1>4 DEF OpLaw, Filled, Led, i
  <2>2. \A k \in Lists : Filled(k) \/ Led(k) \/ lists[k] = Nothing \/ (k \in page.fed /\ lists[k].seen = {})
    BY DEF PageFine, OthersOK
  <2>3. \A k \in Lists : Filled(k) \/ Led(k) \/ lists'[k] = Nothing \/ (k \in page.fed /\ lists'[k].seen = {})
    BY <2>1, <2>2, <1>10
  <2> QED  BY <2>3, <1>1 DEF OthersOK, Filled, Led, On
<1>15. NoTasksOK'
  <2> SUFFICES ASSUME page.leads, selected = NoProject
               PROVE  /\ lists'[2].org = NoProject
                      /\ \A f \in loads' : f.at # 2
                      /\ \A v \in writes' : v.op.list = 2 => v.of = NoProject /\ v.state # "done" /\ ~Ahead(v.op)
                      /\ \A a \in acked' : a.list # 2
    BY <1>1 DEF NoTasksOK, Ahead
  <2>1. /\ lists[2].org = NoProject
        /\ \A f \in loads : f.at # 2
        /\ \A v \in writes : v.op.list = 2 => v.of = NoProject /\ v.state # "done" /\ ~Ahead(v.op)
        /\ \A a \in acked : a.list # 2
    BY DEF PageFine, NoTasksOK
  <2>2. i # 2  BY <2>1, <1>1 DEF i
  <2>3. ~again  BY <2>2, <1>4, LedApart DEF LeadLaw, again, i
  <2>4. \A a \in acked' : a.list # 2  BY <2>1, <2>2, <1>1
  <2>5. lists'[2].org = NoProject  BY <2>1, <1>10 DEF Lists
  <2> QED  BY <2>1, <2>3, <2>4, <2>5, <1>1, <1>9
<1>16. \A u, j : Due(u, j) => Due(u, j)' \/ (u = w.no /\ Ahead(w.op) /\ j = i)
  BY <1>1 DEF Due, Ahead, i
<1>17. \A o : RowsOf(o)' = RowsOf(o)  BY <1>1 DEF RowsOf
<1>18. Ahead(w.op) => lists[i].org = Owner(i, w.org) /\ w.no \in lists[i].seen /\ i \notin page.misread
  BY <1>2, <1>3, <1>4 DEF AheadOK, OpLaw, Ahead, i
<1>19. w.op.after = "patch" => lists[i].org = Owner(i, w.org)  BY <1>2, <1>4 DEF OpLaw, i
<1>20. SeenOK'
  <2> SUFFICES ASSUME NEW j \in Lists
               PROVE  /\ \A u \in lists'[j].seen : u \in RowsOf(lists[j].org) \/ Due(u, j)'
                      /\ lists[j].org = NoProject => lists'[j].seen = {}
    BY <1>1, <1>10 DEF SeenOK, RowsOf
  <2>1. /\ \A u \in lists[j].seen : u \in RowsOf(lists[j].org) \/ Due(u, j)
        /\ lists[j].org = NoProject => lists[j].seen = {}
    BY DEF PageFine, SeenOK
  <2>2. ASSUME NEW u \in lists'[j].seen  PROVE u \in RowsOf(lists[j].org) \/ Due(u, j)'
    <3>1. CASE u \in lists[j].seen  BY <3>1, <2>1, <1>6, <1>16, <1>18
    <3>2. CASE w.op.after = "patch" /\ j = i /\ u = w.no  BY <3>2, <1>6, <1>19
    <3> QED  BY <3>1, <3>2, <1>10
  <2> QED  BY <2>1, <2>2, <1>6, <1>10, <1>19
<1>21. WritesOK'
  <2> SUFFICES ASSUME NEW v \in writes, v # w  PROVE WriteOK(v)' /\ AheadOK(v)'
    BY <1>1 DEF WritesOK
  <2>1. WriteOK(v) /\ AheadOK(v) /\ v.op.list \in Lists  BY Typed DEF PageFine, WritesOK
  <2>2. v.no # w.no  BY <1>3 DEF WriteOK
  <2>3. WriteOK(v)'
    <3>1. \A a \in acked' : a.no # v.no  BY <2>1, <2>2, <1>1 DEF WriteOK
    <3> QED  BY <2>1, <3>1, <1>1 DEF WriteOK, Possible, OnRow, Ahead, Led
  <2>4. ASSUME Ahead(v.op)  PROVE AheadOK(v)'
    <3>1. /\ v.no \in lists[v.op.list].seen /\ lists[v.op.list].org = v.of
          /\ v.before.org = v.of /\ v.of \notin {NoProject, Astray}
          /\ \A u \in v.before.seen : u < v.no /\ (u \in RowsOf(v.of) \/ Due(u, v.op.list))
      BY <2>1, <2>4 DEF AheadOK
    <3>2. v.no \in lists'[v.op.list].seen /\ lists'[v.op.list].org = v.of  BY <3>1, <2>1, <1>10
    <3>3. \A u \in v.before.seen : u \in RowsOf(v.of) \/ Due(u, v.op.list)'
      BY <3>1, <1>6, <1>16, <1>18
    <3> QED  BY <3>1, <3>2, <3>3, <1>17 DEF AheadOK
  <2>5. ~Ahead(v.op) => AheadOK(v)'  BY DEF AheadOK, Ahead
  <2> QED  BY <2>3, <2>4, <2>5
<1>22. \A a \in acked : AckOK(a)'
  <2> SUFFICES ASSUME NEW a \in acked, AckOK(a)  PROVE AckOK(a)'
    BY DEF PageFine, AcksOK
  <2>1. a.list \in Lists  BY Typed
  <2>2. \A h : Tells(h, a)' <=> Tells(h, a)  BY <1>1, <1>25 DEF Tells
  <2>3. Owner(a.list, a.org)' = Owner(a.list, a.org)  BY <1>1 DEF Owner
  <2> QED  BY <2>1, <2>2, <2>3, <1>1, <1>9, <1>10 DEF AckOK, On, Led, Late
<1>23. ASSUME NEW a, a.no = w.no, a.org = w.org, a.list = i  PROVE AckOK(a)'
  <2>1. On(page, i) \/ Led(i)  BY <1>4 DEF OpLaw, Led, i
  <2>2. i \notin page.misread => \/ w.no \in lists'[i].seen
                                 \/ \E g \in loads' : Late(g, i) /\ g.got = FALSE
    <3>1. CASE again  BY <3>1, <1>1, <1>8
    <3>2. CASE w.op.after = "patch"  BY <3>2, <1>10
    <3>3. CASE w.op.after = "optimistic"  BY <3>3, <1>4, <1>10, <1>18 DEF Ahead, i
    <3> QED  BY <3>1, <3>2, <3>3, <1>4 DEF OpLaw, again, i
  <2> QED  BY <2>1, <2>2, <1>1, <1>6, <1>23 DEF AckOK, On, Led, Late, Tells
<1>24. AcksOK'
  <2>1. \A a \in acked' : a \in acked \/ (a.no = w.no /\ a.org = w.org /\ a.list = i)  BY <1>1
  <2> QED  BY <2>1, <1>22, <1>23 DEF AcksOK
<1> QED  BY <1>11, <1>12, <1>13, <1>14, <1>15, <1>20, <1>21, <1>24 DEF PageFine

-----------------------------------------------------------------------------
(* The pages: the theorems *)

PageInv == PageShape /\ (trouble = "none" => PageFine)

LEMMA PageStart ==
  ASSUME PageInit
  PROVE  PageInv
<1>1. PICK p \in Pages, o \in Orgs : Opened(p, o)  BY DEF PageInit
<1>2. PageLaws(p)  BY LawsOfPages
<1>3. /\ page = p /\ current = o /\ kept = o
      /\ lists = [i \in Lists |-> Nothing] /\ selected = (IF p.single THEN o ELSE NoProject) /\ loading \in BOOLEAN
      /\ runs = 1 /\ loads = Run(1, p.chains, o, o) /\ newest = [i \in Lists |-> 0]
      /\ writes = {} /\ written = 0 /\ data = [q \in Orgs |-> {}] /\ acked = {} /\ trouble = "none"
  BY <1>1 DEF Opened
<1>14. p.leads => selected = NoProject  BY <1>2, <1>3 DEF PageLaws, LeadLaw
<1>4. PageShape
  <2>1. TabShape /\ TroubleShape  BY <1>3 DEF TabShape, TroubleShape, Named, Troubles
  <2>2. ListShape  BY <1>3 DEF ListShape, ListSet, Owners, Nothing
  <2>3. LoadShape
    <3>1. Run(1, p.chains, o, o) \subseteq LoadSet(1, 0)  BY <1>2, RunShape DEF PageLaws, ChainLaw, Named
    <3> QED  BY <3>1, <1>3, DashboardAssumption DEF LoadShape
  <2>4. WriteShape  BY <1>3, DashboardAssumption DEF WriteShape
  <2>5. DataShape  BY <1>3 DEF DataShape
  <2> QED  BY <2>1, <2>2, <2>3, <2>4, <2>5 DEF PageShape
<1>5. \A g \in loads : \E c \in p.chains :
        g.run = 1 /\ g.at = c.first /\ g.last = c.last /\ g.org = o /\ g.of = o /\ g.seen = {}
  <2>1. \A n \in Run(1, p.chains, o, o) : \E c \in p.chains :
          /\ n.run = 1 /\ n.at = c.first /\ n.last = c.last /\ n.org = o /\ n.of = o
          /\ n.got = FALSE /\ n.seen = {}
    BY RunFields
  <2> QED  BY <2>1, <1>3
<1>6. LoadsOK
  <2> SUFFICES ASSUME NEW g \in loads  PROVE LoadOK(g)
    BY <1>3 DEF LoadsOK
  <2>1. PICK c \in p.chains : g.at = c.first /\ g.last = c.last /\ g.org = o /\ g.of = o /\ g.seen = {}
    BY <1>5
  <2>2. g.at <= g.last /\ \A j \in Lists : Late(g, j) => On(p, j)
    BY <2>1, <1>2 DEF PageLaws, ChainLaw, Late, On
  <2>3. p.leads => g.last = g.at  BY <2>1, <1>2 DEF PageLaws, LeadLaw
  <2> QED  BY <2>1, <2>2, <2>3, <1>3 DEF LoadOK
<1>7. OrderOK  BY <1>3, <1>5 DEF OrderOK, Comes
<1>8. FilledOK
  <2> SUFFICES ASSUME NEW j \in Lists, On(p, j)  PROVE \E g \in loads : Comes(g, j)
    BY <1>3 DEF FilledOK, Filled
  <2>1. PICK c \in p.chains : c.first <= j /\ j <= c.last  BY DEF On
  <2>2. PICK n : n = [run |-> 1, at |-> c.first, last |-> c.last, org |-> o, of |-> o, got |-> FALSE, seen |-> {}]
    OBVIOUS
  <2>3. n \in loads  BY <2>2, <1>3 DEF Run
  <2> QED  BY <2>1, <2>2, <2>3, <1>3 DEF Comes, Late
<1>9. OthersOK  BY <1>3 DEF OthersOK
<1>10. SelectedOK /\ TasksOK  BY <1>3, <1>14 DEF SelectedOK, TasksOK, Nothing, Lists
<1>11. NoTasksOK
  <2>1. p.leads => \A g \in loads : g.at # 2  BY <1>2, <1>5 DEF PageLaws, LeadLaw
  <2>2. lists[2].org = NoProject  BY <1>3 DEF Nothing, Lists
  <2> QED  BY <2>1, <2>2, <1>3 DEF NoTasksOK
<1>12. SeenOK  BY <1>3 DEF SeenOK, Nothing
<1>13. WritesOK /\ AcksOK  BY <1>3 DEF WritesOK, AcksOK
<1> QED  BY <1>4, <1>6, <1>7, <1>8, <1>9, <1>10, <1>11, <1>12, <1>13 DEF PageInv, PageFine

LEMMA PageStep ==
  ASSUME PageInv, [PageNext]_tabVars
  PROVE  PageInv'
<1>1. CASE UNCHANGED tabVars
  <2>1. PageShape'
    BY <1>1 DEF tabVars, PageInv, PageShape, TabShape, ListShape, LoadShape, WriteShape, DataShape, TroubleShape, OnRow, Ahead
  <2>2. /\ \A o : RowsOf(o)' = RowsOf(o)
        /\ \A f : Shown(f)' = Shown(f)
        /\ \A i, o : Owner(i, o)' = Owner(i, o)
        /\ \A u, i : Due(u, i)' <=> Due(u, i)
    BY <1>1 DEF tabVars, RowsOf, Shown, Owner, Due, Ahead
  <2>3. (LoadsOK /\ OrderOK)' <=> (LoadsOK /\ OrderOK)
    <3>1. \A f : LoadOK(f)' <=> LoadOK(f)  BY <1>1, <2>2 DEF tabVars, LoadOK, Late, On, Led
    <3> QED  BY <1>1, <3>1 DEF tabVars, LoadsOK, OrderOK, Late, Filled, On, Comes
  <2>4. (FilledOK /\ OthersOK /\ SelectedOK /\ TasksOK /\ NoTasksOK)' <=> (FilledOK /\ OthersOK /\ SelectedOK /\ TasksOK /\ NoTasksOK)
    BY <1>1, <2>2 DEF tabVars, FilledOK, OthersOK, SelectedOK, TasksOK, NoTasksOK, Missing, Late, Filled, On, Led, Comes,
                      WillLead, Matched, Ahead
  <2>5. SeenOK' <=> SeenOK  BY <1>1, <2>2 DEF tabVars, SeenOK
  <2>6. WritesOK' <=> WritesOK
    <3>1. \A w : WriteOK(w)' <=> WriteOK(w)  BY <1>1, <2>2 DEF tabVars, WriteOK, Possible, OnRow, Ahead, Led
    <3>2. \A w : AheadOK(w)' <=> AheadOK(w)  BY <1>1, <2>2 DEF tabVars, AheadOK, Ahead
    <3> QED  BY <1>1, <3>1, <3>2 DEF tabVars, WritesOK
  <2>7. AcksOK' <=> AcksOK
    <3>1. \A a : AckOK(a)' <=> AckOK(a)  BY <1>1, <2>2 DEF tabVars, AckOK, Tells, Late, On, Led
    <3> QED  BY <1>1, <3>1 DEF tabVars, AcksOK
  <2>8. trouble' = trouble  BY <1>1 DEF tabVars
  <2> QED  BY <2>1, <2>3, <2>4, <2>5, <2>6, <2>7, <2>8 DEF PageInv, PageFine
<1>2. CASE \E f \in loads : ServeLoad(f)
  <2>1. PICK f \in loads : ServeLoad(f)  BY <1>2
  <2>2. trouble' = trouble  BY <2>1 DEF ServeLoad
  <2> QED  BY <2>1, <2>2, ServeLoadShape, ServeLoadFine DEF PageInv
<1>3. CASE \E f \in loads : TakeLoad(f)
  <2>1. PICK f \in loads : TakeLoad(f)  BY <1>3
  <2>2. trouble' = "none" => trouble = "none"  BY <2>1, TakenInOrder DEF PageInv
  <2> QED  BY <2>1, <2>2, TakeLoadShape, TakeLoadFine DEF PageInv
<1>4. CASE \E f \in loads : FailLoad(f)
  BY <1>4, FailLoadShape DEF PageInv
<1>5. CASE \E o \in Orgs : Switch(o)
  <2>1. PICK o \in Orgs : Switch(o)  BY <1>5
  <2>2. trouble' = "none" => trouble = "none"  BY <2>1, Troubled DEF Switch
  <2> QED  BY <2>1, <2>2, SwitchShape, SwitchFine DEF PageInv
<1>6. CASE \E o \in Orgs : OtherTab(o)
  BY <1>6, OtherTabShape DEF PageInv
<1>11. CASE \E i \in Lists : Event(i)
  <2>1. PICK i \in Lists : Event(i)  BY <1>11
  <2>2. trouble' = trouble  BY <2>1 DEF Event
  <2> QED  BY <2>1, <2>2, EventShape, EventFine DEF PageInv
<1>12. CASE \E i \in Lists : Wake(i)
  <2>1. PICK i \in Lists : Wake(i)  BY <1>12
  <2>2. trouble' = trouble  BY <2>1 DEF Wake
  <2> QED  BY <2>1, <2>2, WakeShape, WakeFine DEF PageInv
<1>7. CASE \E op \in page.ops : Write(op)
  <2>1. PICK op \in page.ops : Write(op)  BY <1>7
  <2>2. trouble' = trouble  BY <2>1 DEF Write
  <2> QED  BY <2>1, <2>2, WriteStepShape, WriteFine DEF PageInv
<1>8. CASE \E w \in writes : ServeWrite(w)
  <2>1. PICK w \in writes : ServeWrite(w)  BY <1>8
  <2>2. trouble' = trouble  BY <2>1 DEF ServeWrite
  <2> QED  BY <2>1, <2>2, ServeWriteShape, ServeWriteFine DEF PageInv
<1>9. CASE \E w \in writes : Refused(w)
  <2>1. PICK w \in writes : Refused(w)  BY <1>9
  <2>2. trouble' = "none" => trouble = "none"  BY <2>1, Troubled DEF Refused, Undo
  <2> QED  BY <2>1, <2>2, RefusedShape, RefusedFine DEF PageInv
<1>10. CASE \E w \in writes : Succeeded(w)
  <2>1. PICK w \in writes : Succeeded(w)  BY <1>10
  <2>2. trouble' = "none" => trouble = "none"  BY <2>1, Troubled DEF Succeeded
  <2> QED  BY <2>1, <2>2, SucceededShape, SucceededFine DEF PageInv
<1> QED  BY <1>1, <1>2, <1>3, <1>4, <1>5, <1>6, <1>7, <1>8, <1>9, <1>10, <1>11, <1>12 DEF PageNext

LEMMA PageInvariant == PageSpec => []PageInv
<1>1. PageInit => PageInv  BY PageStart
<1>2. PageInv /\ [PageNext]_tabVars => PageInv'  BY PageStep
<1> QED  BY <1>1, <1>2, PTL DEF PageSpec

LEMMA PageInvTyped ==
  ASSUME PageShape
  PROVE  PageTypeOK
<1>1. page \in Pages /\ {current, kept} \subseteq Orgs /\ loading \in BOOLEAN /\ selected \in Orgs \cup {NoProject}
  BY DEF PageShape, TabShape, Named
<1>2. \A i \in Lists : lists[i].org \in Orgs \cup {NoProject, Astray, Everyone} /\ lists[i].seen \subseteq 1..written
  BY DEF PageShape, ListShape, ListSet, Owners
<1>3. runs \in 0..MaxRuns /\ newest \in [Lists -> 0..runs]  BY DashboardAssumption DEF PageShape, LoadShape
<1>4. \A f \in loads : f.run \in 1..runs /\ f.at \in Lists /\ f.org \in Orgs  BY Typed
<1>5. written \in 0..MaxWrites /\ data \in [Orgs -> SUBSET (1..written)]  BY DEF PageShape, WriteShape, DataShape
<1>6. \A w \in writes : w.no \in 1..written /\ w.op \in page.ops  BY Typed
<1>7. acked \subseteq [no : 1..written, org : Orgs, list : Lists]  BY DEF PageShape, DataShape, AckSet
<1>8. trouble \in {"none", "overtaken", "outrun", "failed", "crossed", "restored", "left", "astray"}
  BY DEF PageShape, TroubleShape, Troubles
<1> QED  BY <1>1, <1>2, <1>3, <1>4, <1>5, <1>6, <1>7, <1>8 DEF PageTypeOK

LEMMA PageInvCurrent ==
  ASSUME PageInv
  PROVE  PageIsCurrent
<1> SUFFICES ASSUME AtRest
             PROVE  /\ \A i \in Lists \ page.fed : lists[i].org \in {NoProject, Owner(i, current)} \/ Missing(i)
                    /\ \A a \in acked : Owner(a.list, a.org) = Owner(a.list, current) =>
                          a.no \in lists[a.list].seen \/ a.list \in page.misread \/ Missing(a.list)
                    /\ \A i \in Lists : lists[i].seen \subseteq RowsOf(Owner(i, current))
  BY DEF PageIsCurrent, PageShowsItsOrg, OwnWritesShown
<1>1. loads = {} /\ writes = {} /\ PageShape /\ PageFine  BY DEF AtRest, PageInv
<1>2. current \in Orgs /\ current # NoProject  BY <1>1, Typed, DashboardAssumption
<1>3. ASSUME NEW i \in Lists, Filled(i)  PROVE lists[i].org = Owner(i, current) \/ Missing(i)
  BY <1>1, <1>3 DEF PageFine, FilledOK
<1>4. ASSUME page.leads
      PROVE  selected \in {NoProject, current} /\ lists[2].org = selected /\ Owner(2, current) = current
  BY <1>1, <1>4, LedApart DEF PageFine, SelectedOK, TasksOK
<1>5. ASSUME NEW i \in Lists
      PROVE  \/ lists[i].org \in {NoProject, Owner(i, current)} \/ Missing(i)
             \/ i \in page.fed /\ lists[i].seen = {}
  <2>1. CASE Filled(i)  BY <2>1, <1>3
  <2>2. CASE Led(i)  BY <2>2, <1>4 DEF Led
  <2>3. CASE lists[i] = Nothing  BY <2>3 DEF Nothing
  <2> QED  BY <2>1, <2>2, <2>3, <1>1 DEF PageFine, OthersOK
<1>6. ASSUME NEW a \in acked, Owner(a.list, a.org) = Owner(a.list, current),
             a.list \notin page.misread, ~Missing(a.list)
      PROVE  a.no \in lists[a.list].seen
  <2>1. a.list \in Lists  BY <1>1, Typed
  <2>2. AckOK(a)  BY <1>1 DEF PageFine, AcksOK
  <2>3. lists[a.list].org = Owner(a.list, current)
    <3>1. CASE On(page, a.list)  BY <3>1, <2>1, <1>3, <1>6 DEF Filled
    <3>2. CASE Led(a.list)
      <4>1. page.leads /\ a.list = 2  BY <3>2 DEF Led
      <4>2. selected # NoProject  BY <4>1, <1>1 DEF PageFine, NoTasksOK
      <4> QED  BY <4>1, <4>2, <1>4
    <3> QED  BY <3>1, <3>2, <2>2 DEF AckOK
  <2> QED  BY <2>2, <2>3, <1>1, <1>6 DEF AckOK
<1>7. ASSUME NEW i \in Lists  PROVE lists[i].seen \subseteq RowsOf(Owner(i, current))
  <2>1. /\ \A u \in lists[i].seen : u \in RowsOf(lists[i].org) \/ Due(u, i)
        /\ lists[i].org = NoProject => lists[i].seen = {}
    BY <1>1 DEF PageFine, SeenOK
  <2>2. \A u : ~Due(u, i)  BY <1>1 DEF Due
  <2>3. Missing(i) => lists[i].seen = {}  BY <2>1, <2>2, RowsAre DEF Missing
  <2> QED  BY <2>1, <2>2, <2>3, <1>5
<1>8. ASSUME NEW i \in Lists \ page.fed
      PROVE  lists[i].org \in {NoProject, Owner(i, current)} \/ Missing(i)
  BY <1>5
<1> QED  BY <1>6, <1>7, <1>8

\* However loads, switches and writes overlap, what a page shows, has asked for
\* and has written keeps its type.
THEOREM PageTyped == PageSpec => []PageTypeOK
<1>1. PageInv => PageTypeOK  BY PageInvTyped DEF PageInv
<1> QED  BY <1>1, PageInvariant, PTL

\* For every page, any number of organizations, loads and writes: a page that
\* waits for nothing shows the organization that is selected, every write on it
\* that was answered with success and none that was refused, unless what trouble
\* names came between (the effects on currentOrg, loadData, the handlers).
THEOREM PageTellsOrg == PageSpec => []PageIsCurrent
<1>1. PageInv => PageIsCurrent  BY PageInvCurrent
<1> QED  BY <1>1, PageInvariant, PTL

-----------------------------------------------------------------------------
(* The workplace *)

\* The parts of the workplace do side by side what each of them does alone.
LEMMA PartsOfWorkplace == WorkplaceSpec => Spec /\ SignInSpec /\ PageSpec /\ WorkSpec /\ ShellSpec
<1>1. WorkplaceInit => Init /\ SignInInit /\ PageInit /\ WorkInit /\ ShellInit
  BY DEF WorkplaceInit
<1>2. [WorkplaceNext]_<<part, vars, signInVars, tabVars, workVars, shellVars>> =>
        [Next]_vars /\ [SignInNext]_signInVars /\ [PageNext]_tabVars /\ [WorkNext]_workVars /\ [ShellNext]_shellVars
  <2>1. WorkplaceNext => [Next]_vars /\ [PageNext]_tabVars /\ [WorkNext]_workVars /\ [ShellNext]_shellVars
    BY DEF WorkplaceNext
  <2>2. WorkplaceNext => [SignInNext]_signInVars
    BY DEF WorkplaceNext, SignInNext
  <2>3. UNCHANGED <<part, vars, signInVars, tabVars, workVars, shellVars>> =>
            UNCHANGED vars /\ UNCHANGED signInVars /\ UNCHANGED tabVars /\ UNCHANGED workVars /\ UNCHANGED shellVars
    OBVIOUS
  <2> QED  BY <2>1, <2>2, <2>3, Zenon
<1> QED  BY <1>1, <1>2, PTL DEF WorkplaceSpec, Spec, SignInSpec, PageSpec, WorkSpec, ShellSpec

\* A tab at rest is current, inside and around: the page shows its organization
\* and the writes made on it, and the account is the one of the cookies.
THEOREM TabStaysCurrent == WorkplaceSpec => []TabIsCurrent
<1>1. PageIsCurrent /\ TabIsItsAccounts => TabIsCurrent
  BY DEF TabIsCurrent
<1> QED  BY <1>1, PartsOfWorkplace, PageTellsOrg, TabTellsAccount, PTL

LEMMA PartIsPart == WorkplaceSpec => [](part \in Parts)
<1>1. WorkplaceInit => part \in Parts
  BY DEF WorkplaceInit
<1>2. part \in Parts /\ [WorkplaceNext]_<<part, vars, signInVars, tabVars, workVars, shellVars>> => (part \in Parts)'
  BY DEF WorkplaceNext
<1> QED  BY <1>1, <1>2, PTL DEF WorkplaceSpec

\* Every part keeps its types: the rows that the steps of these services store,
\* what each request has read of them, and the step it is at.
THEOREM WorkplaceTyped == WorkplaceSpec => []WorkplaceTypeOK
<1>1. part \in Parts /\ TypeOK /\ SignInTypeOK /\ PageTypeOK /\ WorkTypeOK /\ ShellTypeOK => WorkplaceTypeOK
  BY Zenon DEF WorkplaceTypeOK, Parts
<1> QED  BY <1>1, PartIsPart, PartsOfWorkplace, TypeCorrect, SignInTyped, PageTyped, WorkTyped, TabTyped, PTL
=============================================================================
