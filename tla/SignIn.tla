------------------------------- MODULE SignIn -------------------------------
(***************************************************************************)
(* How one account is signed in to: its row, the counter of failed logins  *)
(* in Redis, the second factor with its backup codes, and the links mailed *)
(* to its owner. A request is one call of the auth controller; it waits    *)
(* for the database or for Redis between two of its steps, and any other   *)
(* request may run meanwhile. The refresh token at the end of every way in *)
(* is the subject of Sessions; here it is the set opened.                  *)
(***************************************************************************)
EXTENDS Naturals, FiniteSets

CONSTANTS
    Requests,       \* requests in flight
    MaxFailed,      \* MAX_FAILED_LOGINS
    CodesPerSet,    \* backup codes that enable2FA hands out
    Links,          \* one-time links, numbered
    MaxCount,       \* bound: failures counted in one window
    MaxPassword,    \* bound: passwords the account has had
    MaxSets,        \* bound: sets of backup codes handed out
    MaxChallenges   \* bound: second-factor challenges

ASSUME SignInAssumption == Links \cup {MaxFailed, CodesPerSet} \subseteq Nat \ {0}

VARIABLES
    account,        \* the User row; password 0 is no passwordHash
    failures,       \* login-failures:<email>, 0 when there is no key
    timed,          \* does the key have an expiry
    factor, setUp,  \* the TwoFactorAuth row; is a secret waiting in Redis
    challenges,     \* 2fa-pending: keys, with the password they were opened with
    asked, sets,    \* challenges and sets of codes issued so far
    kind, link, stale,              \* each link: what for, its row; past expiresAt
    at, arg, typed, code, seen,     \* each request: step, what it carries and has read
    opened,         \* the passwords that live sessions were opened with
    dropped,        \* history: an expiry was asked for and not set
    spent, revived, \* history: backup codes used; written back by another request
    uses, excused,  \* history: uses of each link; links two requests could honour
    resetTo, begun   \* history: password of the last reset; passwords on the way in during one

lockVars == <<failures, timed, dropped>>
factorVars == <<factor, setUp, challenges, asked, sets, spent, revived>>
linkVars == <<kind, link, stale, uses, excused>>
openVars == <<opened, resetTo, begun>>
requestVars == <<at, arg, typed, code, seen>>
signInVars == <<account, lockVars, factorVars, linkVars, openVars, requestVars>>

Kinds == {"reset", "magic", "verify"}
SignInSteps ==
    {"idle", "check", "lookup", "wrong", "counted", "right", "right2FA", "challenge", "open",
     "verify", "factor", "spend", "consume", "enable", "enabled", "disable",
     "redeem", "found", "tidy", "change", "register", "link", "create"}

Challenge == [no : Nat, password : Nat]

SignInTypeOK ==
    /\ account \in [exists : BOOLEAN, password : Nat, active : BOOLEAN, verified : BOOLEAN, linked : BOOLEAN]
    /\ failures \in Nat /\ timed \in BOOLEAN /\ dropped \in BOOLEAN
    /\ factor \in [on : BOOLEAN, codes : SUBSET Nat] /\ setUp \in BOOLEAN
    /\ challenges \subseteq Challenge /\ asked \in Nat /\ sets \in Nat
    /\ kind \in [Links -> Kinds] /\ link \in [Links -> {"none", "sent", "used"}] /\ stale \subseteq Links
    /\ at \in [Requests -> SignInSteps]
    /\ arg \in [Requests -> Nat] /\ typed \in [Requests -> Nat]
    /\ code \in [Requests -> Nat] /\ seen \in [Requests -> SUBSET Nat]
    /\ opened \subseteq Nat /\ resetTo \in Nat /\ begun \subseteq Nat
    /\ spent \subseteq Nat /\ revived \subseteq Nat
    /\ uses \in [Links -> 0..2] /\ excused \subseteq Links

NoAccount == [exists |-> FALSE, password |-> 0, active |-> TRUE, verified |-> FALSE, linked |-> FALSE]

SignInInit ==
    /\ account \in {NoAccount, [NoAccount EXCEPT !.exists = TRUE, !.password = 1]}
    /\ failures = 0 /\ timed = FALSE /\ dropped = FALSE
    /\ factor = [on |-> FALSE, codes |-> {}] /\ setUp = FALSE
    /\ challenges = {} /\ asked = 0 /\ sets = 0
    /\ kind \in [Links -> Kinds] /\ link = [l \in Links |-> "none"] /\ stale = {}
    /\ at = [r \in Requests |-> "idle"]
    /\ arg = [r \in Requests |-> 0] /\ typed = [r \in Requests |-> 0]
    /\ code = [r \in Requests |-> 0] /\ seen = [r \in Requests |-> {}]
    /\ opened = {} /\ resetTo = 0 /\ begun = {}
    /\ spent = {} /\ revived = {}
    /\ uses = [l \in Links |-> 0] /\ excused = {}

-----------------------------------------------------------------------------
(* Helpers *)

Move(r, step) == at' = [at EXCEPT ![r] = step]

\* Request r is answered.
Done(r) ==
    /\ Move(r, "idle")
    /\ arg' = [arg EXCEPT ![r] = 0] /\ typed' = [typed EXCEPT ![r] = 0]
    /\ code' = [code EXCEPT ![r] = 0] /\ seen' = [seen EXCEPT ![r] = {}]

\* Request r goes on to step with what it carries.
Onto(r, step) == Move(r, step) /\ UNCHANGED <<arg, typed, code, seen>>

\* Request r arrives, carrying a, a password p and a code k.
Arrive(r, step, a, p, k) ==
    /\ at[r] = "idle"
    /\ Move(r, step)
    /\ arg' = [arg EXCEPT ![r] = a] /\ typed' = [typed EXCEPT ![r] = p]
    /\ code' = [code EXCEPT ![r] = k] /\ UNCHANGED seen

-----------------------------------------------------------------------------
(* Password logins and the lockout *)

\* login with password p; 0 is a wrong one.
Submit(r, p) ==
    /\ Arrive(r, "check", 0, p, 0)
    /\ UNCHANGED <<account, lockVars, factorVars, linkVars, openVars>>

\* assertNotLockedOut; without Redis the attempt goes through.
CheckLock(r) ==
    /\ at[r] = "check"
    /\ \/ failures >= MaxFailed /\ Done(r)
       \/ Onto(r, "lookup")     \* fewer failures, or Redis did not answer
    /\ UNCHANGED <<account, lockVars, factorVars, linkVars, openVars>>

\* The row is read once and the password compared with that reading.
Lookup(r) ==
    /\ at[r] = "lookup"
    /\ LET known == account.exists /\ account.password # 0 IN
       \/ known /\ ~account.active /\ Done(r)
       \/ ~known /\ Onto(r, "wrong")
       \/ known /\ account.active /\ typed[r] # account.password /\ Onto(r, "wrong")
       \/ /\ known /\ account.active /\ typed[r] = account.password
          /\ Onto(r, IF factor.on THEN "right2FA" ELSE "right")
    /\ UNCHANGED <<account, lockVars, factorVars, linkVars, openVars>>

\* Mutant: the window is set once the account is locked, not before.
Limits_WhenLocked(count) == count >= MaxFailed

\* The failures after which recordFailedLogin asks for an expiry.
Limits(count) == count = 1 \/ count >= MaxFailed

\* INCR creates the key without an expiry.
CountFailure(r) ==
    /\ at[r] = "wrong"
    /\ \/ /\ failures < MaxCount /\ failures' = failures + 1
          /\ IF Limits(failures + 1)
             THEN Move(r, "counted") /\ arg' = [arg EXCEPT ![r] = failures + 1] /\ UNCHANGED <<typed, code, seen>>
             ELSE Done(r)
       \/ Done(r) /\ UNCHANGED failures     \* Redis did not answer
    /\ UNCHANGED <<account, timed, dropped, factorVars, linkVars, openVars>>

\* EXPIRE, which does nothing when the key has gone.
LimitWindow(r) ==
    /\ at[r] = "counted"
    /\ \/ timed' = (failures > 0) /\ UNCHANGED dropped
       \/ dropped' = (failures > 0) /\ UNCHANGED timed      \* the error is swallowed
    /\ Done(r)
    /\ UNCHANGED <<account, failures, factorVars, linkVars, openVars>>

\* The counter is no more: deleted, or its window is over.
NoFailures == failures' = 0 /\ timed' = FALSE /\ dropped' = FALSE

\* clearFailedLogins, whose failure does not matter to login.
ClearFailures(r) ==
    /\ at[r] \in {"right", "right2FA"}
    /\ NoFailures \/ UNCHANGED lockVars
    /\ Onto(r, IF at[r] = "right" THEN "open" ELSE "challenge")
    /\ UNCHANGED <<account, factorVars, linkVars, openVars>>

WindowEnds ==
    /\ timed /\ NoFailures
    /\ UNCHANGED <<account, factorVars, linkVars, openVars, requestVars>>

\* generateTokens and storeRefreshToken.
Open(r) ==
    /\ at[r] = "open"
    /\ opened' = opened \cup ({typed[r]} \ {0})
    /\ Done(r)
    /\ UNCHANGED <<account, lockVars, factorVars, linkVars, resetTo, begun>>

\* An administrator deactivates or reactivates the user.
SetActive ==
    /\ account.exists
    /\ account' = [account EXCEPT !.active = ~@]
    /\ UNCHANGED <<lockVars, factorVars, linkVars, openVars, requestVars>>

-----------------------------------------------------------------------------
(* The second factor *)

AskSecondFactor(r) ==
    /\ at[r] = "challenge" /\ asked < MaxChallenges
    /\ asked' = asked + 1
    /\ challenges' = challenges \cup {[no |-> asked + 1, password |-> typed[r]]}
    /\ Done(r)
    /\ UNCHANGED <<account, lockVars, factor, setUp, sets, spent, revived, linkVars, openVars>>

\* verify2FA with code k for challenge c: 0 is a valid TOTP code.
Verify(r, c, k) ==
    /\ Arrive(r, "verify", c.no, c.password, k)
    /\ UNCHANGED <<account, lockVars, factorVars, linkVars, openVars>>

ReadChallenge(r) ==
    /\ at[r] = "verify"
    /\ IF \E c \in challenges : c.no = arg[r] THEN Onto(r, "factor") ELSE Done(r)
    /\ UNCHANGED <<account, lockVars, factorVars, linkVars, openVars>>

ReadFactor(r) ==
    /\ at[r] = "factor"
    /\ \/ factor.on /\ code[r] = 0 /\ Onto(r, "consume")
       \/ /\ factor.on /\ code[r] \in factor.codes
          /\ Move(r, "spend")
          /\ seen' = [seen EXCEPT ![r] = factor.codes]
          /\ UNCHANGED <<arg, typed, code>>
       \/ ~(factor.on /\ code[r] \in factor.codes \cup {0}) /\ Done(r)
    /\ UNCHANGED <<account, lockVars, factorVars, linkVars, openVars>>

\* Mutant: splice on the copy, and the original written back.
Remaining_Original(r) == seen[r]

\* The codes left of those read, without the one used.
Remaining(r) == seen[r] \ {code[r]}

\* update, which throws when the row was deleted meanwhile.
SpendCode(r) ==
    /\ at[r] = "spend"
    /\ IF factor.on
       THEN /\ factor' = [factor EXCEPT !.codes = Remaining(r)]
            /\ spent' = spent \cup {code[r]}
            /\ revived' = (revived \cap Remaining(r)) \cup (Remaining(r) \ factor.codes)
            /\ Onto(r, "consume")
       ELSE Done(r) /\ UNCHANGED <<factor, spent, revived>>
    /\ UNCHANGED <<account, lockVars, setUp, challenges, asked, sets, linkVars, openVars>>

ConsumeChallenge(r) ==
    /\ at[r] = "consume"
    /\ challenges' = {c \in challenges : c.no # arg[r]}
    /\ Onto(r, "open")
    /\ UNCHANGED <<account, lockVars, factor, setUp, asked, sets, spent, revived, linkVars, openVars>>

\* setup2FA keeps a secret in Redis for ten minutes.
SetUp2FA ==
    /\ setUp' = TRUE
    /\ UNCHANGED <<account, lockVars, factor, challenges, asked, sets, spent, revived, linkVars, openVars, requestVars>>

\* enable2FA has found the secret and accepted the code.
Enable2FA(r) ==
    /\ setUp /\ Arrive(r, "enable", 0, 0, 0)
    /\ UNCHANGED <<account, lockVars, factorVars, linkVars, openVars>>

\* upsert: a second enabling replaces the secret and the codes.
WriteFactor(r) ==
    /\ at[r] = "enable" /\ sets < MaxSets
    /\ sets' = sets + 1
    /\ factor' = [on |-> TRUE, codes |-> {sets * CodesPerSet + i : i \in 1..CodesPerSet}]
    /\ Onto(r, "enabled")
    /\ UNCHANGED <<account, lockVars, setUp, challenges, asked, spent, revived, linkVars, openVars>>

ForgetSecret(r) ==
    /\ at[r] = "enabled"
    /\ setUp' = FALSE
    /\ Done(r)
    /\ UNCHANGED <<account, lockVars, factor, challenges, asked, sets, spent, revived, linkVars, openVars>>

\* disable2FA has read the row and accepted the code.
Disable2FA(r) ==
    /\ factor.on /\ Arrive(r, "disable", 0, 0, 0)
    /\ UNCHANGED <<account, lockVars, factorVars, linkVars, openVars>>

DeleteFactor(r) ==
    /\ at[r] = "disable"
    /\ factor' = [on |-> FALSE, codes |-> {}]
    /\ Done(r)
    /\ UNCHANGED <<account, lockVars, setUp, challenges, asked, sets, spent, revived, linkVars, openVars>>

\* Redis drops a challenge after five minutes, a secret after ten.
FactorKeyExpires ==
    /\ \/ \E c \in challenges : challenges' = challenges \ {c} /\ UNCHANGED setUp
       \/ setUp /\ setUp' = FALSE /\ UNCHANGED challenges
    /\ UNCHANGED <<account, lockVars, factor, asked, sets, spent, revived, linkVars, openVars, requestVars>>

-----------------------------------------------------------------------------
(* Links *)

\* A password reset or a magic link is asked for; the latter creates the account.
MailLink(l) ==
    /\ link[l] = "none"
    /\ \/ kind[l] = "reset" /\ account.exists /\ UNCHANGED account
       \/ /\ kind[l] = "magic"
          /\ account' = IF account.exists THEN account
                        ELSE [NoAccount EXCEPT !.exists = TRUE, !.verified = TRUE]
    /\ link' = [link EXCEPT ![l] = "sent"]
    /\ UNCHANGED <<lockVars, factorVars, kind, stale, uses, excused, openVars, requestVars>>

FollowLink(r, l) ==
    /\ link[l] # "none" /\ Arrive(r, "redeem", l, 0, 0)
    /\ UNCHANGED <<account, lockVars, factorVars, linkVars, openVars>>

\* Somebody but r has found link l good.
Honouring(r, l) == \E q \in Requests \ {r} : at[q] \in {"found", "tidy"} /\ arg[q] = l

CheckLink(r) ==
    /\ at[r] = "redeem"
    /\ IF link[arg[r]] = "sent" /\ arg[r] \notin stale
       THEN /\ Onto(r, "found")
            /\ excused' = IF Honouring(r, arg[r]) THEN excused \cup {arg[r]} ELSE excused
       ELSE Done(r) /\ UNCHANGED excused
    /\ UNCHANGED <<account, lockVars, factorVars, kind, link, stale, uses, openVars>>

\* The passwords with which somebody is about to get in.
Underway ==
    {typed[r] : r \in {q \in Requests : at[q] \in {"right", "right2FA", "challenge", "verify", "factor",
                                                   "spend", "consume", "open"}}}
    \cup {c.password : c \in challenges}

\* Mutant: usedAt is not written.
UseUp_Unmarked(l) == link' = link

\* The transaction that uses a link up with what it is for.
UseUp(l) == link' = [link EXCEPT ![l] = "used"]

\* Mutant: the sessions stay.
CloseAll_Never == opened' = opened

\* resetPassword removes every session of the user.
CloseAll == opened' = {}

Redeem(r) ==
    /\ at[r] = "found"
    /\ uses' = [uses EXCEPT ![arg[r]] = IF @ = 0 THEN 1 ELSE 2]
    /\ \/ /\ kind[arg[r]] = "reset" /\ account.password < MaxPassword
          /\ account' = [account EXCEPT !.password = @ + 1]
          /\ UseUp(arg[r]) /\ CloseAll
          /\ resetTo' = account.password + 1
          /\ begun' = Underway
          /\ Done(r)
       \/ /\ kind[arg[r]] = "magic"
          /\ account' = [account EXCEPT !.verified = TRUE]
          /\ UseUp(arg[r])
          /\ Onto(r, "open")
          /\ UNCHANGED openVars
       \/ /\ kind[arg[r]] = "verify"
          /\ account' = [account EXCEPT !.verified = TRUE]
          /\ Onto(r, "tidy")
          /\ UNCHANGED <<link, openVars>>
    /\ UNCHANGED <<lockVars, factorVars, kind, stale, excused>>

\* verifyEmail deletes its key in a call of its own.
Tidy(r) ==
    /\ at[r] = "tidy"
    /\ UseUp(arg[r])
    /\ Done(r)
    /\ UNCHANGED <<account, lockVars, factorVars, kind, stale, uses, excused, openVars>>

LinkExpires(l) ==
    /\ link[l] = "sent" /\ l \notin stale
    /\ stale' = stale \cup {l}
    /\ UNCHANGED <<account, lockVars, factorVars, kind, link, uses, excused, openVars, requestVars>>

\* changePassword has accepted the current password; sessions stay.
AskChange(r) ==
    /\ account.exists /\ account.password # 0 /\ Arrive(r, "change", 0, 0, 0)
    /\ UNCHANGED <<account, lockVars, factorVars, linkVars, openVars>>

ChangePassword(r) ==
    /\ at[r] = "change" /\ account.password < MaxPassword
    /\ account' = [account EXCEPT !.password = @ + 1]
    /\ Done(r)
    /\ UNCHANGED <<lockVars, factorVars, linkVars, openVars>>

-----------------------------------------------------------------------------
(* Accounts that appear *)

\* register and handleOAuthLogin look for the account before they write.
Register(r) ==
    /\ ~account.exists /\ Arrive(r, "register", 0, 1, 0)
    /\ UNCHANGED <<account, lockVars, factorVars, linkVars, openVars>>

OAuth(r) ==
    /\ Arrive(r, IF account.linked THEN "open" ELSE IF account.exists THEN "link" ELSE "create", 0, 0, 0)
    /\ UNCHANGED <<account, lockVars, factorVars, linkVars, openVars>>

\* create, which the unique index refuses once there is such an account.
\* register mails a link to confirm the address.
Create(r) ==
    /\ at[r] \in {"register", "create"}
    /\ IF account.exists
       THEN Done(r) /\ UNCHANGED <<account, link>>
       ELSE /\ account' = [NoAccount EXCEPT !.exists = TRUE, !.password = typed[r],
                                            !.verified = at[r] = "create", !.linked = at[r] = "create"]
            /\ link' = [l \in Links |-> IF at[r] = "register" /\ kind[l] = "verify" THEN "sent" ELSE link[l]]
            /\ Onto(r, "open")
    /\ UNCHANGED <<lockVars, factorVars, kind, stale, uses, excused, openVars>>

LinkProvider(r) ==
    /\ at[r] = "link"
    /\ account' = [account EXCEPT !.linked = TRUE, !.verified = TRUE]
    /\ Onto(r, "open")
    /\ UNCHANGED <<lockVars, factorVars, linkVars, openVars>>

\* The process dies or a database call throws.
Abandon(r) ==
    /\ at[r] # "idle"
    /\ dropped' = (dropped \/ (at[r] = "counted" /\ failures > 0))
    /\ excused' = IF at[r] = "tidy" THEN excused \cup {arg[r]} ELSE excused
    /\ Done(r)
    /\ UNCHANGED <<account, failures, timed, factorVars, kind, link, stale, uses, openVars>>

-----------------------------------------------------------------------------
Locking ==
    \/ \E r \in Requests, p \in {0, account.password} : Submit(r, p)
    \/ \E r \in Requests :
        CheckLock(r) \/ Lookup(r) \/ CountFailure(r) \/ LimitWindow(r) \/ ClearFailures(r) \/ Open(r) \/ Abandon(r)
    \/ WindowEnds \/ SetActive

Factoring ==
    \/ \E r \in Requests : Submit(r, account.password)
    \/ \E r \in Requests, c \in challenges, k \in factor.codes \cup spent \cup {0} : Verify(r, c, k)
    \/ \E r \in Requests :
        \/ CheckLock(r) \/ Lookup(r) \/ ClearFailures(r) \/ Open(r) \/ Abandon(r)
        \/ AskSecondFactor(r) \/ ReadChallenge(r) \/ ReadFactor(r) \/ SpendCode(r) \/ ConsumeChallenge(r)
        \/ Enable2FA(r) \/ WriteFactor(r) \/ ForgetSecret(r) \/ Disable2FA(r) \/ DeleteFactor(r)
    \/ SetUp2FA \/ FactorKeyExpires

Linking ==
    \/ \E r \in Requests : Submit(r, account.password)
    \/ \E r \in Requests, l \in Links : FollowLink(r, l)
    \/ \E r \in Requests :
        \/ CheckLock(r) \/ Lookup(r) \/ ClearFailures(r) \/ Open(r) \/ Abandon(r)
        \/ CheckLink(r) \/ Redeem(r) \/ Tidy(r) \/ Register(r) \/ OAuth(r) \/ Create(r) \/ LinkProvider(r)
        \/ AskChange(r) \/ ChangePassword(r)
    \/ \E l \in Links : MailLink(l) \/ LinkExpires(l)

SignInNext == Locking \/ Factoring \/ Linking

SignInSpec == SignInInit /\ [][SignInNext]_signInVars

-----------------------------------------------------------------------------
(* Properties *)

\* The count of failures does not last: its key has an expiry, or a request
\* is about to set one, or the call that should have set it was lost. So an
\* account is locked for a while, not for good (recordFailedLogin).
LockHasEnd ==
    failures > 0 /\ ~timed => dropped \/ \E r \in Requests : at[r] = "counted"

\* A backup code that has been used is not accepted again, unless another
\* verification or a new set of codes crossed the request that took it out:
\* the whole list is read, and written back (verify2FA).
SpentCodesStaySpent == spent \cap factor.codes \subseteq revived

\* A link does what it is for once, unless two requests had found it good
\* before either used it up, or the call that uses it up was lost.
LinkUsedOnce == \A l \in Links : uses[l] > 1 => l \in excused

\* What may be used once, a link or a backup code, is used once, with the
\* exceptions above.
OneTimeMeansOnce == LinkUsedOnce /\ SpentCodesStaySpent

\* After a password reset no session opened with an older password is left,
\* but those whose login was under way when the transaction ran: past the
\* comparison, or waiting for the second factor (resetPassword).
ResetClosesSessions == \A p \in opened : p < resetTo => p \in begun
=============================================================================
