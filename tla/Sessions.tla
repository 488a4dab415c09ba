----------------------------- MODULE Sessions -----------------------------
(***************************************************************************)
(* The sessions of one user: the RefreshToken rows, the cookies his        *)
(* browsers hold, and the requests that issue, rotate and revoke tokens.   *)
(* A browser may have several requests in flight (two tabs, or two calls   *)
(* of one page answered 401 together), and each refreshes on its own.      *)
(* Register, login, 2FA, magic link and OAuth all end in the same two      *)
(* calls, generateTokens and storeRefreshToken: they are one Login here.   *)
(***************************************************************************)
EXTENDS Naturals, FiniteSets

CONSTANTS
    Browsers,   \* cookie jars of the user
    Calls,      \* requests in flight
    MaxToken    \* bound: refresh tokens issued

ASSUME SessionsAssumption == MaxToken \in Nat

Tokens == Nat \ {0}     \* numbered as they are issued; 0 is no cookie

VARIABLES
    rows,           \* tokens with a RefreshToken row
    expired,        \* tokens past their expiresAt
    issued,         \* number of tokens issued
    jar, access,    \* each browser: refresh_token cookie; is its access token valid
    pc, from, tok,  \* each request: step, its browser, the token it carries
    session,        \* history: the token each token's session began with
    ended,          \* history: sessions revoked while they had a row
    lost            \* history: browsers a rotation of which got no answer

tokenVars == <<rows, expired, issued, session, ended>>
callVars == <<pc, from, tok>>
vars == <<tokenVars, jar, access, callVars, lost>>

Steps == {"idle", "issue", "denied", "find", "found", "rotated", "stored", "answer",
          "logout", "logoutAll", "cleared"}

TypeOK ==
    /\ rows \subseteq Tokens /\ expired \subseteq Tokens
    /\ issued \in Nat
    /\ jar \in [Browsers -> Nat]
    /\ access \in [Browsers -> BOOLEAN]
    /\ pc \in [Calls -> Steps]
    /\ from \in [Calls -> Browsers]
    /\ tok \in [Calls -> Nat]
    /\ session \in [1..issued -> Tokens]
    /\ ended \subseteq Tokens
    /\ lost \subseteq Browsers

Init ==
    /\ rows = {} /\ expired = {} /\ issued = 0 /\ session = <<>>
    /\ jar = [b \in Browsers |-> 0]
    /\ access = [b \in Browsers |-> FALSE]
    /\ pc = [c \in Calls |-> "idle"]
    /\ from \in [Calls -> Browsers]
    /\ tok = [c \in Calls |-> 0]
    /\ ended = {} /\ lost = {}

-----------------------------------------------------------------------------
(* Helpers *)

Goto(c, step) == pc' = [pc EXCEPT ![c] = step]

\* Request c is answered, or given up.
End(c) ==
    /\ Goto(c, "idle")
    /\ tok' = [tok EXCEPT ![c] = 0]

\* Request c of browser b starts, carrying token t.
Start(c, b, step, t) ==
    /\ pc[c] = "idle"
    /\ Goto(c, step)
    /\ from' = [from EXCEPT ![c] = b]
    /\ tok' = [tok EXCEPT ![c] = t]

\* Rows are removed on purpose: their sessions are over.
Revoke(ts) ==
    /\ rows' = rows \ ts
    /\ ended' = ended \cup {session[t] : t \in rows \cap ts}

\* The old token of request c is deleted and the new one not yet stored.
Replacing(c) == pc[c] = "rotated"

\* Request c replaces a token, and its browser does not hold the new one yet.
Rotating(c) ==
    \/ Replacing(c)
    \/ pc[c] \in {"stored", "answer"} /\ session[tok[c]] # tok[c]

-----------------------------------------------------------------------------
(* Issuing and rotating tokens *)

\* The credentials were accepted; tokens are about to be generated.
Login(c, b) ==
    /\ Start(c, b, "issue", 0)
    /\ UNCHANGED <<tokenVars, jar, access, lost>>

\* Mutant: the row keeps the token that was presented.
Store_Presented(c) ==
    /\ pc[c] \in {"issue", "rotated"} /\ issued < MaxToken
    /\ rows' = rows \cup {tok[c]}
    /\ Goto(c, "stored")
    /\ UNCHANGED <<expired, issued, session, ended, jar, access, from, tok, lost>>

\* storeRefreshToken inserts the row.
Store(c) ==
    /\ pc[c] \in {"issue", "rotated"} /\ issued < MaxToken
    /\ LET new == issued + 1 IN
        /\ issued' = new
        /\ rows' = rows \cup {new}
        /\ session' = [t \in 1..new |-> IF t < new THEN session[t]
                                        ELSE IF tok[c] = 0 THEN new ELSE session[tok[c]]]
        /\ tok' = [tok EXCEPT ![c] = new]
    /\ Goto(c, "stored")
    /\ UNCHANGED <<expired, ended, jar, access, from, lost>>

\* It then deletes the user's expired rows.
CleanUp(c) ==
    /\ pc[c] = "stored"
    /\ rows' = rows \ expired
    /\ Goto(c, "answer")
    /\ UNCHANGED <<expired, issued, session, ended, jar, access, from, tok, lost>>

\* setAuthCookies: the browser receives both cookies.
Answer(c) ==
    /\ pc[c] = "answer"
    /\ jar' = [jar EXCEPT ![from[c]] = tok[c]]
    /\ access' = [access EXCEPT ![from[c]] = TRUE]
    /\ End(c)
    /\ UNCHANGED <<tokenVars, from, lost>>

\* A request with a stale access token is answered 401.
Ask(c, b) ==
    /\ ~access[b]
    /\ Start(c, b, "denied", 0)
    /\ UNCHANGED <<tokenVars, jar, access, lost>>

\* The interceptor posts the refresh; the browser attaches the cookie it
\* holds by then. Without one the answer is 401.
SendRefresh(c) ==
    /\ pc[c] = "denied"
    /\ tok' = [tok EXCEPT ![c] = jar[from[c]]]
    /\ Goto(c, IF jar[from[c]] = 0 THEN "idle" ELSE "find")
    /\ UNCHANGED <<tokenVars, jar, access, from, lost>>

\* refreshTokens looks the token up; 401 if it is gone or expired.
Find(c) ==
    /\ pc[c] = "find"
    /\ IF tok[c] \in rows \ expired THEN Goto(c, "found") /\ UNCHANGED tok ELSE End(c)
    /\ UNCHANGED <<tokenVars, jar, access, from, lost>>

\* Mutant: deleteMany, which does not mind that the row is gone.
Rotate_DeleteMany(c) ==
    /\ pc[c] = "found"
    /\ rows' = rows \ {tok[c]}
    /\ Goto(c, "rotated")
    /\ UNCHANGED <<expired, issued, session, ended, jar, access, from, tok, lost>>

\* Mutant: every row of the user is deleted, not the one presented.
Rotate_WholeUser(c) ==
    /\ pc[c] = "found"
    /\ rows' = IF tok[c] \in rows THEN {} ELSE rows
    /\ IF tok[c] \in rows THEN Goto(c, "rotated") /\ UNCHANGED tok ELSE End(c)
    /\ UNCHANGED <<expired, issued, session, ended, jar, access, from, lost>>

\* It deletes the row by id, which throws when the row is gone.
Rotate(c) ==
    /\ pc[c] = "found"
    /\ rows' = rows \ {tok[c]}
    /\ IF tok[c] \in rows THEN Goto(c, "rotated") /\ UNCHANGED tok ELSE End(c)
    /\ UNCHANGED <<expired, issued, session, ended, jar, access, from, lost>>

-----------------------------------------------------------------------------
(* Revoking tokens *)

\* logout and logout-all are behind the JWT guard; logout carries the cookie.
Logout(c, b) ==
    /\ access[b]
    /\ Start(c, b, "logout", jar[b])
    /\ UNCHANGED <<tokenVars, jar, access, lost>>

LogoutAll(c, b) ==
    /\ access[b]
    /\ Start(c, b, "logoutAll", 0)
    /\ UNCHANGED <<tokenVars, jar, access, lost>>

DeleteRows(c) ==
    /\ pc[c] \in {"logout", "logoutAll"}
    /\ Revoke(IF pc[c] = "logout" THEN {tok[c]} ELSE rows)
    /\ Goto(c, "cleared")
    /\ UNCHANGED <<expired, issued, session, jar, access, from, tok, lost>>

\* clearAuthCookies.
LogoutAnswer(c) ==
    /\ pc[c] = "cleared"
    /\ jar' = [jar EXCEPT ![from[c]] = 0]
    /\ access' = [access EXCEPT ![from[c]] = FALSE]
    /\ End(c)
    /\ UNCHANGED <<tokenVars, from, lost>>

\* The transaction of resetPassword removes every row of the user.
ResetPassword ==
    /\ Revoke(rows)
    /\ UNCHANGED <<expired, issued, session, jar, access, callVars, lost>>

-----------------------------------------------------------------------------
(* Time and failures *)

TokenExpires(t) ==
    /\ t \in rows \ expired
    /\ expired' = expired \cup {t}
    /\ UNCHANGED <<rows, issued, session, ended, jar, access, callVars, lost>>

AccessExpires(b) ==
    /\ access[b]
    /\ access' = [access EXCEPT ![b] = FALSE]
    /\ UNCHANGED <<tokenVars, jar, callVars, lost>>

\* A database call throws, the process dies or the answer does not arrive. A
\* page whose refresh fails is signed out like one that was refused: it drops
\* its own state and the browser keeps the cookies.
Fail(c) ==
    /\ pc[c] \notin {"idle", "denied"}
    /\ lost' = IF Rotating(c) THEN lost \cup {from[c]} ELSE lost
    /\ End(c)
    /\ UNCHANGED <<tokenVars, jar, access, from>>

-----------------------------------------------------------------------------
Issue(c) == Store(c) \/ CleanUp(c) \/ Answer(c)

Refresh(c) == SendRefresh(c) \/ Find(c) \/ Rotate(c)

Next ==
    \/ \E c \in Calls : Issue(c) \/ Refresh(c) \/ DeleteRows(c) \/ LogoutAnswer(c) \/ Fail(c)
    \/ \E c \in Calls, b \in Browsers : Login(c, b) \/ Ask(c, b) \/ Logout(c, b) \/ LogoutAll(c, b)
    \/ \E t \in rows : TokenExpires(t)
    \/ \E b \in Browsers : AccessExpires(b)
    \/ ResetPassword

Spec == Init /\ [][Next]_vars

-----------------------------------------------------------------------------
(* Properties *)

\* Rotation hands a session on, it never copies it: of the tokens a session
\* has gone through at most one is stored or being replaced, however many
\* requests present the same cookie at once. refreshTokens counts on delete,
\* not deleteMany, for this.
OneTokenPerSession ==
    /\ \A t, u \in rows : session[t] = session[u] => t = u
    /\ \A c, d \in Calls : Replacing(c) /\ Replacing(d) /\ session[tok[c]] = session[tok[d]] => c = d
    /\ \A c \in Calls, t \in rows : Replacing(c) => session[tok[c]] # session[t]

\* A session that a logout, a logout of all devices or a password reset found
\* stored is over: no refresh that was already on its way, by whichever
\* request, stores a token for it again.
EndedStaysEnded ==
    /\ \A t \in rows : session[t] \notin ended
    /\ \A c \in Calls : Replacing(c) => session[tok[c]] \notin ended

\* A browser all of whose answers arrived holds a cookie the server can still
\* honour, or one that expired or was revoked; or a request of its own is
\* just replacing it.
CookieIsHonoured ==
    \A b \in Browsers : b \notin lost /\ jar[b] # 0 =>
        \/ jar[b] \in rows \cup expired
        \/ session[jar[b]] \in ended
        \/ \E c \in Calls : from[c] = b /\ Rotating(c) /\ session[tok[c]] = session[jar[b]]

\* "A 401 here (no cookie, or an expired/revoked one) means the session
\* genuinely can't be refreshed" (frontend/src/services/api.ts).
RefusedMeansGone ==
    [][\A c \in Calls : Find(c) /\ pc'[c] = "idle" =>
            \A t \in rows \ expired : session[t] # session[tok[c]]]_vars
=============================================================================
