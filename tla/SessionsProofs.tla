-------------------------- MODULE SessionsProofs --------------------------
(***************************************************************************)
(* For any number of browsers, requests and tokens: every state is typed,  *)
(* a session has one token, and a session that was ended stays ended.      *)
(***************************************************************************)
EXTENDS Sessions, TLAPS

\* Nobody holds a token that was not issued yet, and only a login stores a
\* token without having presented one.
TokensOK ==
    /\ issued \in Nat
    /\ rows \subseteq 1..issued /\ ended \subseteq 1..issued
    /\ expired \subseteq Tokens
    /\ session \in [1..issued -> 1..issued]

JarsOK ==
    /\ jar \in [Browsers -> 0..issued]
    /\ access \in [Browsers -> BOOLEAN]
    /\ lost \subseteq Browsers

CallsOK ==
    /\ pc \in [Calls -> Steps]
    /\ from \in [Calls -> Browsers]
    /\ tok \in [Calls -> 0..issued]
    /\ \A c \in Calls : pc[c] = "issue" => tok[c] = 0
    /\ \A c \in Calls : pc[c] \in {"found", "rotated", "stored", "answer"} => tok[c] # 0

TypeInv == TokensOK /\ JarsOK /\ CallsOK

-----------------------------------------------------------------------------
LEMMA TypeInit == Init => TypeInv
<1> SUFFICES ASSUME Init PROVE TypeInv
  OBVIOUS
<1>1. TokensOK
  <2>1. 1..0 = {}
    OBVIOUS
  <2>2. session \in [1..0 -> 1..0]
    BY <2>1 DEF Init
  <2> QED BY <2>2 DEF Init, TokensOK, Tokens
<1>2. JarsOK
  BY DEF Init, JarsOK
<1>3. CallsOK
  BY DEF Init, CallsOK, Steps
<1> QED BY <1>1, <1>2, <1>3 DEF TypeInv

LEMMA TypeImplied == TypeInv => TypeOK
<1> SUFFICES ASSUME TypeInv PROVE TypeOK
  OBVIOUS
<1>1. 1..issued \subseteq Tokens /\ 0..issued \subseteq Nat
  BY DEF TypeInv, TokensOK, Tokens
<1> QED BY <1>1 DEF TypeInv, TokensOK, JarsOK, CallsOK, TypeOK

\* The three ways a step treats its request.
LEMMA EndCalls ==
  ASSUME TypeInv, NEW c \in Calls, End(c), UNCHANGED <<from, issued>>
  PROVE  CallsOK'
BY DEF TypeInv, TokensOK, CallsOK, End, Goto, Steps

LEMMA StartCalls ==
  ASSUME TypeInv, NEW c \in Calls, NEW b \in Browsers, NEW t \in 0..issued,
         NEW step \in Steps \ {"found", "rotated", "stored", "answer"},
         step = "issue" => t = 0, Start(c, b, step, t), UNCHANGED issued
  PROVE  CallsOK'
BY DEF TypeInv, TokensOK, CallsOK, Start, Goto

LEMMA GotoCalls ==
  ASSUME TypeInv, NEW c \in Calls, NEW step \in Steps \ {"issue"},
         step \in {"found", "rotated", "stored", "answer"} => tok[c] # 0,
         Goto(c, step), UNCHANGED <<from, tok, issued>>
  PROVE  CallsOK'
BY DEF TypeInv, TokensOK, CallsOK, Goto

\* Every step keeps TypeInv.
LEMMA TypeStep == TypeInv /\ [Next]_vars => TypeInv'
<1> SUFFICES ASSUME TypeInv, [Next]_vars PROVE TypeInv'
  OBVIOUS
<1> USE DEF TypeInv
<1>a. UNCHANGED tokenVars => TokensOK' /\ issued' = issued
  BY DEF TokensOK, tokenVars
<1>b. UNCHANGED <<jar, access, lost, issued>> => JarsOK'
  BY DEF JarsOK
<1>c. UNCHANGED <<callVars, issued>> => CallsOK'
  BY DEF CallsOK, callVars
<1>d. rows' \subseteq rows /\ UNCHANGED <<expired, issued, session, ended>> => TokensOK'
  BY DEF TokensOK
<1>e. ASSUME NEW ts, Revoke(ts), UNCHANGED <<expired, issued, session>> PROVE TokensOK'
  BY <1>e DEF Revoke, TokensOK
<1>f. ASSUME NEW b \in Browsers PROVE jar[b] \in 0..issued
  BY DEF JarsOK
<1>g. 0 \in 0..issued
  BY DEF TokensOK
<1>1. ASSUME NEW c \in Calls, Store(c) PROVE TypeInv'
  <2> DEFINE new == issued + 1
  <2>1. /\ issued' = new /\ new \in Nat /\ rows' = rows \cup {new}
        /\ session' = [t \in 1..new |-> IF t < new THEN session[t]
                                        ELSE IF tok[c] = 0 THEN new ELSE session[tok[c]]]
        /\ tok' = [tok EXCEPT ![c] = new] /\ pc' = [pc EXCEPT ![c] = "stored"]
        /\ UNCHANGED <<expired, ended, jar, access, from, lost>>
    BY <1>1 DEF Store, Goto, TokensOK
  <2>2. session' \in [1..new -> 1..new]
    <3>1. \A t \in 1..new : t < new => t \in 1..issued /\ session[t] \in 1..new
      BY <2>1 DEF TokensOK
    <3>2. tok[c] # 0 => tok[c] \in 1..issued /\ session[tok[c]] \in 1..new
      BY <2>1 DEF TokensOK, CallsOK
    <3> QED BY <2>1, <3>1, <3>2
  <2>3. 1..issued \subseteq 1..new /\ 0..issued \subseteq 0..new /\ new \in 1..new /\ new \in 0..new /\ new # 0
    BY <2>1 DEF TokensOK
  <2>4. TokensOK'
    BY <2>1, <2>2, <2>3 DEF TokensOK
  <2>5. JarsOK'
    BY <2>1, <2>3 DEF JarsOK
  <2>6. tok \in [Calls -> 0..new]
    BY <2>3 DEF CallsOK
  <2>7. CallsOK'
    BY <2>1, <2>3, <2>6 DEF CallsOK, Steps
  <2> QED BY <2>4, <2>5, <2>7
<1>2. ASSUME NEW c \in Calls, NEW b \in Browsers, Login(c, b) \/ Ask(c, b) PROVE TypeInv'
  <2>1. CallsOK'
    BY <1>2, <1>g, StartCalls DEF Login, Ask, Steps, tokenVars
  <2> QED BY <1>2, <1>a, <1>b, <2>1 DEF Login, Ask
<1>3. ASSUME NEW c \in Calls, CleanUp(c) PROVE TypeInv'
  <2>1. CallsOK'
    BY <1>3, GotoCalls DEF CleanUp, CallsOK, Steps
  <2> QED BY <1>3, <1>d, <1>b, <2>1 DEF CleanUp
<1>4. ASSUME NEW c \in Calls, Answer(c) PROVE TypeInv'
  <2>1. CallsOK'
    BY <1>4, <1>a, EndCalls DEF Answer
  <2>2. JarsOK'
    BY <1>4, <1>a DEF Answer, JarsOK, CallsOK
  <2> QED BY <1>4, <1>a, <2>1, <2>2 DEF Answer
<1>5. ASSUME NEW c \in Calls, SendRefresh(c) PROVE TypeInv'
  <2>1. from[c] \in Browsers
    BY DEF CallsOK
  <2>2. CallsOK'
    BY <1>5, <1>a, <1>f, <2>1 DEF SendRefresh, CallsOK, Goto, Steps
  <2> QED BY <1>5, <1>a, <1>b, <2>2 DEF SendRefresh
<1>6. ASSUME NEW c \in Calls, Find(c) PROVE TypeInv'
  <2>1. tok[c] \in rows => tok[c] # 0
    BY DEF TokensOK
  <2>2. CallsOK'
    BY <1>6, <1>a, <2>1, EndCalls, GotoCalls DEF Find, Steps
  <2> QED BY <1>6, <1>a, <1>b, <2>2 DEF Find
<1>7. ASSUME NEW c \in Calls, Rotate(c) PROVE TypeInv'
  <2>1. tok[c] # 0
    BY <1>7 DEF Rotate, CallsOK
  <2>2. CallsOK'
    BY <1>7, <2>1, EndCalls, GotoCalls DEF Rotate, Steps
  <2> QED BY <1>7, <1>d, <1>b, <2>2 DEF Rotate
<1>8. ASSUME NEW c \in Calls, NEW b \in Browsers, Logout(c, b) \/ LogoutAll(c, b) PROVE TypeInv'
  <2>1. CallsOK'
    BY <1>8, <1>f, <1>g, StartCalls DEF Logout, LogoutAll, Steps, tokenVars
  <2> QED BY <1>8, <1>a, <1>b, <2>1 DEF Logout, LogoutAll
<1>9. ASSUME NEW c \in Calls, DeleteRows(c) PROVE TypeInv'
  <2>1. CallsOK'
    BY <1>9, GotoCalls DEF DeleteRows, Steps
  <2>2. TokensOK'
    BY <1>9, <1>e DEF DeleteRows
  <2> QED BY <1>9, <1>b, <2>1, <2>2 DEF DeleteRows
<1>10. ASSUME NEW c \in Calls, LogoutAnswer(c) PROVE TypeInv'
  <2>1. CallsOK'
    BY <1>10, <1>a, EndCalls DEF LogoutAnswer
  <2>2. JarsOK'
    BY <1>10, <1>a, <1>g DEF LogoutAnswer, JarsOK
  <2> QED BY <1>10, <1>a, <2>1, <2>2 DEF LogoutAnswer
<1>11. CASE ResetPassword
  <2>1. TokensOK'
    BY <1>11, <1>e DEF ResetPassword
  <2> QED BY <1>11, <1>b, <1>c, <2>1 DEF ResetPassword
<1>12. ASSUME NEW t \in rows, TokenExpires(t) PROVE TypeInv'
  <2>1. t \in Tokens
    BY DEF TokensOK, Tokens
  <2>2. TokensOK'
    BY <1>12, <2>1 DEF TokenExpires, TokensOK
  <2> QED BY <1>12, <1>b, <1>c, <2>2 DEF TokenExpires
<1>13. ASSUME NEW b \in Browsers, AccessExpires(b) PROVE TypeInv'
  <2>1. JarsOK'
    BY <1>13, <1>a DEF AccessExpires, JarsOK
  <2> QED BY <1>13, <1>a, <1>c, <2>1 DEF AccessExpires
<1>14. ASSUME NEW c \in Calls, Fail(c) PROVE TypeInv'
  <2>1. CallsOK'
    BY <1>14, <1>a, EndCalls DEF Fail
  <2>2. JarsOK'
    BY <1>14, <1>a DEF Fail, JarsOK, CallsOK
  <2> QED BY <1>14, <1>a, <2>1, <2>2 DEF Fail
<1>15. CASE UNCHANGED vars
  BY <1>15, <1>a, <1>b, <1>c DEF vars
<1> QED
  BY <1>1, <1>2, <1>3, <1>4, <1>5, <1>6, <1>7, <1>8, <1>9, <1>10, <1>11, <1>12, <1>13, <1>14, <1>15
  DEF Next, Issue, Refresh

\* Every state is well typed, and every token anyone holds was issued.
THEOREM TypeCorrect == Spec => []TypeOK
BY TypeInit, TypeStep, TypeImplied, PTL DEF Spec

-----------------------------------------------------------------------------
(* Sessions *)

\* A session has at most one token, and an ended one has none.
SessionsOK == OneTokenPerSession /\ EndedStaysEnded

\* A step that stores nothing, ends nothing and starts no replacement is harmless.
LEMMA QuietStep ==
  ASSUME SessionsOK, rows' \subseteq rows, UNCHANGED <<session, ended>>,
         \A c \in Calls : pc'[c] = "rotated" => pc[c] = "rotated" /\ tok'[c] = tok[c]
  PROVE  SessionsOK'
BY DEF SessionsOK, OneTokenPerSession, EndedStaysEnded, Replacing

\* The rows that are revoked were the only tokens of their sessions.
LEMMA RevokeStep ==
  ASSUME TypeInv, SessionsOK, NEW ts, Revoke(ts), UNCHANGED session,
         \A c \in Calls : pc'[c] = "rotated" => pc[c] = "rotated" /\ tok'[c] = tok[c]
  PROVE  SessionsOK'
<1>1. OneTokenPerSession'
  BY DEF SessionsOK, OneTokenPerSession, Replacing, Revoke
<1>2. \A t \in rows' : session'[t] \notin ended'
  BY DEF SessionsOK, OneTokenPerSession, EndedStaysEnded, Revoke
<1>3. \A c \in Calls : pc'[c] = "rotated" => session'[tok'[c]] \notin ended'
  BY DEF SessionsOK, OneTokenPerSession, EndedStaysEnded, Replacing, Revoke
<1> QED BY <1>1, <1>2, <1>3 DEF SessionsOK, EndedStaysEnded, Replacing

\* What a rotation removes from the rows is what its request then replaces.
LEMMA RotateStep ==
  ASSUME TypeInv, SessionsOK, NEW c \in Calls, Rotate(c)
  PROVE  SessionsOK'
<1>1. CASE tok[c] \in rows
  <2>1. /\ pc' = [pc EXCEPT ![c] = "rotated"] /\ rows' = rows \ {tok[c]}
        /\ UNCHANGED <<tok, session, ended>>
    BY <1>1 DEF Rotate, Goto
  <2>2. \A d \in Calls : pc'[d] = "rotated" => d = c \/ pc[d] = "rotated"
    BY <2>1 DEF TypeInv, CallsOK
  <2>3. OneTokenPerSession'
    BY <1>1, <2>1, <2>2 DEF SessionsOK, OneTokenPerSession, Replacing
  <2>4. EndedStaysEnded'
    BY <1>1, <2>1, <2>2 DEF SessionsOK, EndedStaysEnded, Replacing
  <2> QED BY <2>3, <2>4 DEF SessionsOK
<1>2. CASE tok[c] \notin rows
  BY <1>2, QuietStep DEF Rotate, End, Goto, TypeInv, CallsOK
<1> QED BY <1>1, <1>2

\* A stored token begins a session, or takes over that of the one it replaces.
LEMMA StoreStep ==
  ASSUME TypeInv, SessionsOK, NEW c \in Calls, Store(c)
  PROVE  SessionsOK'
<1> DEFINE new == issued + 1
           own == IF tok[c] = 0 THEN new ELSE session[tok[c]]
<1>1. /\ rows' = rows \cup {new} /\ ended' = ended
      /\ session' = [t \in 1..new |-> IF t < new THEN session[t] ELSE own]
      /\ tok' = [tok EXCEPT ![c] = new] /\ pc' = [pc EXCEPT ![c] = "stored"]
  BY DEF Store, Goto
<1>2. /\ issued \in Nat /\ new \in 1..new /\ ~(new < new)
      /\ \A t \in 1..issued : t \in 1..new /\ t < new
  BY DEF TypeInv, TokensOK
<1>3. session'[new] = own /\ \A t \in 1..issued : session'[t] = session[t] /\ session[t] \in 1..issued
  BY <1>1, <1>2 DEF TypeInv, TokensOK
<1>4. \A d \in Calls : pc'[d] = "rotated" =>
        /\ d # c /\ pc[d] = "rotated" /\ tok'[d] = tok[d] /\ tok[d] \in 1..issued
  <2>1. \A d \in Calls : pc[d] = "rotated" => tok[d] \in 1..issued
    BY DEF TypeInv, TokensOK, CallsOK
  <2> QED BY <1>1, <2>1 DEF TypeInv, CallsOK
<1>5. rows \subseteq 1..issued /\ ended \subseteq 1..issued /\ new \notin 1..issued
  BY DEF TypeInv, TokensOK
\* The session of the new token has no other token.
<1>6. /\ own \notin ended
      /\ \A t \in rows : session[t] # own
      /\ \A d \in Calls : pc'[d] = "rotated" => session[tok[d]] # own
  <2>1. CASE tok[c] = 0
    <3>1. own = new
      BY <2>1
    <3>2. own \notin ended
      BY <3>1, <1>5
    <3>3. \A t \in rows : session[t] # own
      BY <3>1, <1>3, <1>5
    <3>4. \A d \in Calls : pc'[d] = "rotated" => session[tok[d]] # own
      BY <3>1, <1>3, <1>4, <1>5
    <3> QED BY <3>2, <3>3, <3>4
  <2>2. CASE tok[c] # 0
    <3>1. pc[c] = "rotated" /\ own = session[tok[c]]
      BY <2>2 DEF Store, TypeInv, CallsOK
    <3>2. own \notin ended /\ \A t \in rows : session[t] # own
      BY <3>1 DEF SessionsOK, OneTokenPerSession, EndedStaysEnded, Replacing
    <3>3. \A d \in Calls : pc'[d] = "rotated" => session[tok[d]] # own
      BY <3>1, <1>4 DEF SessionsOK, OneTokenPerSession, Replacing
    <3> QED BY <3>2, <3>3
  <2> QED BY <2>1, <2>2
<1> HIDE DEF own, new
<1>7. \A d \in Calls : pc'[d] = "rotated" => session'[tok'[d]] = session[tok[d]]
  BY <1>3, <1>4
<1>8. \A t \in rows : session'[t] = session[t]
  BY <1>3, <1>5
<1>9. OneTokenPerSession'
  <2>1. \A t, u \in rows' : session'[t] = session'[u] => t = u
    BY <1>1, <1>3, <1>6, <1>8 DEF SessionsOK, OneTokenPerSession
  <2>2. \A d, e \in Calls : pc'[d] = "rotated" /\ pc'[e] = "rotated"
                              /\ session'[tok'[d]] = session'[tok'[e]] => d = e
    BY <1>4, <1>7 DEF SessionsOK, OneTokenPerSession, Replacing
  <2>3. \A d \in Calls, t \in rows' : pc'[d] = "rotated" => session'[tok'[d]] # session'[t]
    BY <1>1, <1>3, <1>4, <1>6, <1>7, <1>8 DEF SessionsOK, OneTokenPerSession, Replacing
  <2> QED BY <2>1, <2>2, <2>3 DEF OneTokenPerSession, Replacing
<1>10. EndedStaysEnded'
  <2>1. \A t \in rows' : session'[t] \notin ended'
    BY <1>1, <1>3, <1>6, <1>8 DEF SessionsOK, EndedStaysEnded
  <2>2. \A d \in Calls : pc'[d] = "rotated" => session'[tok'[d]] \notin ended'
    BY <1>1, <1>4, <1>7 DEF SessionsOK, EndedStaysEnded, Replacing
  <2> QED BY <2>1, <2>2 DEF EndedStaysEnded, Replacing
<1> QED BY <1>9, <1>10 DEF SessionsOK

LEMMA SessionStep == TypeInv /\ SessionsOK /\ [Next]_vars => SessionsOK'
<1> SUFFICES ASSUME TypeInv, SessionsOK, [Next]_vars PROVE SessionsOK'
  OBVIOUS
<1>1. pc \in [Calls -> Steps] /\ tok \in [Calls -> Nat]
  BY TypeImplied DEF TypeOK
<1>2. ASSUME NEW c \in Calls, Issue(c) PROVE SessionsOK'
  BY <1>1, <1>2, QuietStep, StoreStep DEF Issue, CleanUp, Answer, End, Goto, tokenVars
<1>3. ASSUME NEW c \in Calls, Refresh(c) PROVE SessionsOK'
  BY <1>1, <1>3, QuietStep, RotateStep DEF Refresh, SendRefresh, Find, End, Goto, tokenVars
<1>4. ASSUME NEW c \in Calls, DeleteRows(c) PROVE SessionsOK'
  BY <1>1, <1>4, RevokeStep DEF DeleteRows, Goto
<1>5. ASSUME NEW c \in Calls, LogoutAnswer(c) \/ Fail(c) PROVE SessionsOK'
  BY <1>1, <1>5, QuietStep DEF LogoutAnswer, Fail, End, Goto, tokenVars
<1>6. ASSUME NEW c \in Calls, NEW b \in Browsers,
             Login(c, b) \/ Ask(c, b) \/ Logout(c, b) \/ LogoutAll(c, b)
      PROVE  SessionsOK'
  BY <1>1, <1>6, QuietStep DEF Login, Ask, Logout, LogoutAll, Start, Goto, tokenVars
<1>7. CASE ResetPassword
  BY <1>7, RevokeStep DEF ResetPassword, callVars
<1>8. ASSUME NEW t \in rows, TokenExpires(t) PROVE SessionsOK'
  BY <1>8, QuietStep DEF TokenExpires, callVars
<1>9. ASSUME NEW b \in Browsers, AccessExpires(b) PROVE SessionsOK'
  BY <1>9, QuietStep DEF AccessExpires, tokenVars, callVars
<1>10. CASE UNCHANGED vars
  BY <1>10, QuietStep DEF vars, tokenVars, callVars
<1> QED
  BY <1>2, <1>3, <1>4, <1>5, <1>6, <1>7, <1>8, <1>9, <1>10 DEF Next

LEMMA SessionInit == Init => SessionsOK
BY DEF Init, SessionsOK, OneTokenPerSession, EndedStaysEnded, Replacing

\* However many requests present the same cookie at once, a session never has
\* two tokens.
THEOREM SessionsAreNotCopied == Spec => []OneTokenPerSession
<1>1. SessionsOK => OneTokenPerSession
  BY DEF SessionsOK
<1> QED
  BY TypeInit, TypeStep, SessionInit, SessionStep, <1>1, PTL DEF Spec

\* A session found stored by a logout or a password reset never comes back.
THEOREM EndingIsFinal == Spec => []EndedStaysEnded
<1>1. SessionsOK => EndedStaysEnded
  BY DEF SessionsOK
<1> QED
  BY TypeInit, TypeStep, SessionInit, SessionStep, <1>1, PTL DEF Spec

-----------------------------------------------------------------------------
(* Cookies *)

\* Token t is in the cookie of browser b, or on its way to or from it.
Carried(b, t) ==
    t # 0 /\ (jar[b] = t \/ \E c \in Calls : from[c] = b /\ tok[c] = t)

\* A session belongs to one browser: no other holds or carries a token of it.
OwnersOK ==
    \A b, d \in Browsers, t, u \in 1..issued :
        Carried(b, t) /\ Carried(d, u) /\ session[t] = session[u] => b = d

\* A new token is known to its own request only, so nobody can rotate it before
\* its answer: it is stored, or it expired or was revoked.
FreshOK ==
    \A c \in Calls : pc[c] \in {"stored", "answer"} =>
        /\ \A b \in Browsers : jar[b] # tok[c]
        /\ \A d \in Calls : d # c => tok[d] # tok[c]
        /\ tok[c] \in rows \cup expired \/ session[tok[c]] \in ended

CookiesOK == OwnersOK /\ FreshOK /\ CookieIsHonoured

\* What a new token is, and that nobody had it before.
LEMMA StoreEffect ==
  ASSUME TypeInv, NEW c \in Calls, Store(c), NEW new, new = issued + 1
  PROVE  /\ issued' = new /\ new \in Nat \ {0} /\ new \notin 0..issued /\ 1..new = 1..issued \cup {new}
         /\ rows' = rows \cup {new}
         /\ \A t \in 1..issued : session'[t] = session[t] /\ session[t] \in 1..issued
         /\ session'[new] = IF tok[c] = 0 THEN new ELSE session[tok[c]]
         /\ tok' = [tok EXCEPT ![c] = new] /\ pc' = [pc EXCEPT ![c] = "stored"]
         /\ UNCHANGED <<expired, ended, jar, access, from, lost>>
<1>1. issued \in Nat /\ session \in [1..issued -> 1..issued]
  BY DEF TypeInv, TokensOK
<1>2. /\ issued' = new /\ rows' = rows \cup {new}
      /\ session' = [t \in 1..new |-> IF t < new THEN session[t]
                                      ELSE IF tok[c] = 0 THEN new ELSE session[tok[c]]]
      /\ tok' = [tok EXCEPT ![c] = new] /\ pc' = [pc EXCEPT ![c] = "stored"]
      /\ UNCHANGED <<expired, ended, jar, access, from, lost>>
  BY DEF Store, Goto
<1>3. /\ new \in Nat \ {0} /\ new \notin 0..issued /\ 1..new = 1..issued \cup {new}
      /\ \A t \in 1..issued : t < new
      /\ ~(new < new)
  BY <1>1
<1>4. \A t \in 1..issued : session'[t] = session[t] /\ session[t] \in 1..issued
  BY <1>1, <1>2, <1>3
<1>5. session'[new] = IF tok[c] = 0 THEN new ELSE session[tok[c]]
  BY <1>2, <1>3
<1> QED BY <1>2, <1>3, <1>4, <1>5

\* A request other than Store writes no token and leaves the sessions alone.
LEMMA OtherStep ==
  ASSUME [Next]_vars, \A c \in Calls : ~Store(c)
  PROVE  UNCHANGED <<issued, session>> /\ rows' \subseteq rows /\ expired \subseteq expired'
<1>1. ASSUME NEW ts, Revoke(ts) PROVE rows' \subseteq rows
  BY <1>1 DEF Revoke
<1> QED BY <1>1 DEF Next, vars, tokenVars, Issue, Refresh, CleanUp, Answer, SendRefresh, Find, Rotate,
     DeleteRows, LogoutAnswer, Fail, Login, Ask, Logout, LogoutAll, Start, TokenExpires, AccessExpires,
     ResetPassword

\* Tokens do not move from one browser to another: what a step carries was
\* carried there already, unless it was stored right now.
LEMMA CarriedStep ==
  ASSUME TypeInv, [Next]_vars, NEW b \in Browsers, NEW t, Carried(b, t)'
  PROVE  \/ Carried(b, t)
         \/ \E c \in Calls : Store(c) /\ b = from[c] /\ t = issued + 1
<1>t. jar \in [Browsers -> Nat] /\ from \in [Calls -> Browsers] /\ tok \in [Calls -> Nat]
  BY TypeImplied DEF TypeOK
<1> USE <1>t DEF Carried
<1>1. ASSUME NEW c \in Calls, Store(c)
      PROVE  Carried(b, t) \/ (b = from[c] /\ t = issued + 1)
  BY <1>1 DEF Store
<1>2. ASSUME NEW c \in Calls, Answer(c) PROVE Carried(b, t)
  BY <1>2 DEF Answer, End
<1>3. ASSUME NEW c \in Calls, SendRefresh(c) PROVE Carried(b, t)
  BY <1>3 DEF SendRefresh
<1>4. ASSUME NEW c \in Calls, CleanUp(c) \/ Find(c) \/ Rotate(c) \/ DeleteRows(c) \/ Fail(c)
      PROVE  Carried(b, t)
  <2>1. UNCHANGED <<jar, from>> /\ (UNCHANGED tok \/ tok' = [tok EXCEPT ![c] = 0])
    BY <1>4 DEF CleanUp, Find, Rotate, DeleteRows, Fail, End
  <2> QED BY <2>1
<1>5. ASSUME NEW c \in Calls, LogoutAnswer(c) PROVE Carried(b, t)
  BY <1>5 DEF LogoutAnswer, End
<1>6. ASSUME NEW c \in Calls, NEW d \in Browsers, Login(c, d) \/ Ask(c, d) \/ Logout(c, d) \/ LogoutAll(c, d)
      PROVE  Carried(b, t)
  <2>1. /\ UNCHANGED jar /\ from' = [from EXCEPT ![c] = d]
        /\ tok' = [tok EXCEPT ![c] = 0] \/ tok' = [tok EXCEPT ![c] = jar[d]]
    BY <1>6 DEF Login, Ask, Logout, LogoutAll, Start
  <2> QED BY <2>1
<1>7. ASSUME \/ UNCHANGED vars \/ ResetPassword
             \/ \E u \in rows : TokenExpires(u)
             \/ \E d \in Browsers : AccessExpires(d)
      PROVE  Carried(b, t)
  BY <1>7 DEF vars, callVars, ResetPassword, TokenExpires, AccessExpires
<1> QED
  BY <1>1, <1>2, <1>3, <1>4, <1>5, <1>6, <1>7 DEF Next, Issue, Refresh

\* OwnersOK is inductive.
LEMMA OwnersStep ==
  ASSUME TypeInv, OwnersOK, [Next]_vars
  PROVE  OwnersOK'
<1> SUFFICES ASSUME NEW b \in Browsers, NEW d \in Browsers, NEW t \in 1..issued', NEW u \in 1..issued',
                    Carried(b, t)', Carried(d, u)', session'[t] = session'[u]
             PROVE  b = d
  BY DEF OwnersOK
<1>t. \A e \in Browsers : \A w : Carried(e, w) => w \in 1..issued
  BY DEF Carried, TypeInv, TokensOK, JarsOK, CallsOK
<1>1. ASSUME NEW c \in Calls, Store(c) PROVE b = d
  <2> DEFINE new == issued + 1
  <2>1. /\ new \notin 0..issued
        /\ \A w \in 1..issued : session'[w] = session[w] /\ session[w] \in 1..issued
        /\ session'[new] = IF tok[c] = 0 THEN new ELSE session[tok[c]]
        /\ UNCHANGED from
    BY <1>1, StoreEffect
  <2>2. \A e \in Browsers : \A w : Carried(e, w)' => Carried(e, w) \/ (e = from[c] /\ w = new)
    <3>1. \A f \in Calls : Store(f) => f = c
      <4>1. ASSUME NEW f \in Calls, Store(f), f # c PROVE FALSE
        <5>1. tok'[f] = issued + 1 /\ tok'[f] = tok[f]
          BY <1>1, <4>1 DEF Store, TypeInv, CallsOK
        <5>2. tok[f] \in 0..issued
          BY DEF TypeInv, CallsOK
        <5> QED BY <2>1, <5>1, <5>2
      <4> QED BY <4>1
    <3> QED BY <3>1, CarriedStep
  <2> HIDE DEF new
  <2>3. \A e \in Browsers, w \in 1..issued : Carried(e, w) /\ session[w] = session'[new] => e = from[c]
    <3>1. CASE tok[c] = 0
      BY <2>1, <3>1
    <3>2. CASE tok[c] # 0
      <4>1. tok[c] \in 1..issued /\ Carried(from[c], tok[c]) /\ from[c] \in Browsers
        BY <3>2 DEF Carried, TypeInv, TokensOK, CallsOK
      <4> QED BY <2>1, <3>2, <4>1 DEF OwnersOK
    <3> QED BY <3>1, <3>2
  <2>4. CASE Carried(b, t) /\ Carried(d, u)
    BY <1>t, <2>1, <2>4 DEF OwnersOK
  <2>5. CASE Carried(b, t) /\ d = from[c] /\ u = new
    BY <1>t, <2>1, <2>3, <2>5
  <2>6. CASE Carried(d, u) /\ b = from[c] /\ t = new
    BY <1>t, <2>1, <2>3, <2>6
  <2> QED BY <2>2, <2>4, <2>5, <2>6
<1>2. ASSUME \A c \in Calls : ~Store(c) PROVE b = d
  <2>1. Carried(b, t) /\ Carried(d, u) /\ session[t] = session[u]
    BY <1>2, CarriedStep, OtherStep
  <2> QED BY <1>t, <2>1 DEF OwnersOK
<1> QED BY <1>1, <1>2

\* Rows leave in three ways.
LEMMA RowsStep ==
  ASSUME TypeInv, [Next]_vars, NEW t \in rows
  PROVE  \/ t \in rows' \cup expired'
         \/ session'[t] \in ended'
         \/ \E c \in Calls : Rotate(c) /\ tok[c] = t /\ pc' = [pc EXCEPT ![c] = "rotated"]
<1>t. t \in 1..issued
  BY DEF TypeInv, TokensOK
<1>1. ASSUME NEW c \in Calls, Store(c) PROVE t \in rows'
  BY <1>1, StoreEffect
<1>2. ASSUME NEW c \in Calls, CleanUp(c) PROVE t \in rows' \cup expired'
  BY <1>2 DEF CleanUp
<1>3. ASSUME NEW c \in Calls, Rotate(c)
      PROVE  t \in rows' \/ (tok[c] = t /\ pc' = [pc EXCEPT ![c] = "rotated"])
  BY <1>3 DEF Rotate, Goto
<1>4. ASSUME ResetPassword \/ \E c \in Calls : DeleteRows(c)
      PROVE  t \in rows' \/ session'[t] \in ended'
  <2>1. UNCHANGED session /\ \E ts : Revoke(ts)
    BY <1>4 DEF ResetPassword, DeleteRows
  <2> QED BY <2>1 DEF Revoke
<1>5. ASSUME ~ResetPassword, \A c \in Calls : ~(Store(c) \/ CleanUp(c) \/ Rotate(c) \/ DeleteRows(c))
      PROVE  t \in rows'
  BY <1>5 DEF Next, vars, tokenVars, Issue, Refresh, Answer, SendRefresh, Find, LogoutAnswer, Fail,
     Login, Ask, Logout, LogoutAll, TokenExpires, AccessExpires
<1> QED BY <1>1, <1>2, <1>3, <1>4, <1>5

\* Nothing undoes an end or an expiry.
LEMMA EndsKept ==
  ASSUME [Next]_vars PROVE ended \subseteq ended' /\ expired \subseteq expired' /\ lost \subseteq lost'
BY DEF Next, vars, tokenVars, Issue, Store, Refresh, CleanUp, Answer, SendRefresh, Find, Rotate, Revoke,
     DeleteRows, LogoutAnswer, Fail, Login, Ask, Logout, LogoutAll, Start, TokenExpires, AccessExpires,
     ResetPassword

\* A step of another request leaves request c alone.
LEMMA OthersStep ==
  ASSUME TypeInv, [Next]_vars, NEW c \in Calls, pc[c] # "idle",
         ~(Issue(c) \/ Refresh(c) \/ DeleteRows(c) \/ LogoutAnswer(c) \/ Fail(c))
  PROVE  pc'[c] = pc[c] /\ tok'[c] = tok[c] /\ from'[c] = from[c]
<1> USE DEF TypeInv, CallsOK
<1>1. ASSUME NEW d \in Calls, d # c,
             Issue(d) \/ Refresh(d) \/ DeleteRows(d) \/ LogoutAnswer(d) \/ Fail(d)
      PROVE  pc'[c] = pc[c] /\ tok'[c] = tok[c] /\ from'[c] = from[c]
  <2>1. CASE Issue(d)
    BY <1>1, <2>1 DEF Issue, Store, CleanUp, Answer, End, Goto
  <2>2. CASE Refresh(d)
    BY <1>1, <2>2 DEF Refresh, SendRefresh, Find, Rotate, End, Goto
  <2>3. CASE DeleteRows(d) \/ LogoutAnswer(d) \/ Fail(d)
    BY <1>1, <2>3 DEF DeleteRows, LogoutAnswer, Fail, End, Goto
  <2> QED BY <1>1, <2>1, <2>2, <2>3
<1>2. ASSUME NEW d \in Calls, NEW b \in Browsers, Login(d, b) \/ Ask(d, b) \/ Logout(d, b) \/ LogoutAll(d, b)
      PROVE  pc'[c] = pc[c] /\ tok'[c] = tok[c] /\ from'[c] = from[c]
  BY <1>2 DEF Login, Ask, Logout, LogoutAll, Start, Goto
<1>3. ASSUME \/ UNCHANGED vars \/ ResetPassword
             \/ \E t \in rows : TokenExpires(t)
             \/ \E b \in Browsers : AccessExpires(b)
      PROVE  UNCHANGED callVars
  BY <1>3 DEF vars, ResetPassword, TokenExpires, AccessExpires
<1> QED BY <1>1, <1>2, <1>3 DEF Next, callVars

\* Who comes to know a token: its own request, or one the cookie goes with.
LEMMA TokensOfOthers ==
  ASSUME TypeInv, [Next]_vars, NEW c \in Calls, tok'[c] # 0, tok'[c] # tok[c]
  PROVE  \/ Store(c) /\ tok'[c] = issued + 1
         \/ pc'[c] \in {"find", "logout"} /\ \E b \in Browsers : tok'[c] = jar[b]
<1> USE DEF TypeInv, CallsOK
<1>1. ASSUME NEW d \in Calls, Store(d) PROVE d = c /\ tok'[c] = issued + 1
  BY <1>1 DEF Store
<1>2. ASSUME NEW d \in Calls, SendRefresh(d)
      PROVE  pc'[c] = "find" /\ tok'[c] = jar[from[c]]
  BY <1>2 DEF SendRefresh, Goto
<1>3. ASSUME NEW d \in Calls, NEW b \in Browsers, Logout(d, b)
      PROVE  pc'[c] = "logout" /\ tok'[c] = jar[b]
  BY <1>3 DEF Logout, Start, Goto
<1>4. ASSUME NEW d \in Calls, NEW b \in Browsers, Login(d, b) \/ Ask(d, b) \/ LogoutAll(d, b) PROVE FALSE
  BY <1>4 DEF Login, Ask, LogoutAll, Start
<1>5. ASSUME NEW d \in Calls, \/ CleanUp(d) \/ Answer(d) \/ Find(d) \/ Rotate(d)
                              \/ DeleteRows(d) \/ LogoutAnswer(d) \/ Fail(d)
      PROVE  FALSE
  <2>1. UNCHANGED tok \/ tok' = [tok EXCEPT ![d] = 0]
    BY <1>5 DEF CleanUp, Answer, Find, Rotate, DeleteRows, LogoutAnswer, Fail, End
  <2> QED BY <2>1
<1>6. ASSUME \/ UNCHANGED vars \/ ResetPassword
             \/ \E t \in rows : TokenExpires(t)
             \/ \E b \in Browsers : AccessExpires(b)
      PROVE  FALSE
  BY <1>6 DEF vars, callVars, ResetPassword, TokenExpires, AccessExpires
<1> QED BY <1>1, <1>2, <1>3, <1>4, <1>5, <1>6 DEF Next, Issue, Refresh

\* How a cookie changes.
LEMMA JarStep ==
  ASSUME TypeInv, [Next]_vars, NEW b \in Browsers, jar'[b] # 0, jar'[b] # jar[b]
  PROVE  \E c \in Calls : Answer(c) /\ from[c] = b /\ jar'[b] = tok[c]
<1> USE DEF TypeInv, JarsOK, CallsOK
<1>1. ASSUME NEW c \in Calls, Answer(c) PROVE from[c] = b /\ jar'[b] = tok[c]
  BY <1>1 DEF Answer
<1>2. ASSUME NEW c \in Calls, LogoutAnswer(c) PROVE FALSE
  BY <1>2 DEF LogoutAnswer
<1> QED BY <1>1, <1>2 DEF Next, vars, Issue, Store, Refresh, CleanUp, SendRefresh, Find, Rotate,
     DeleteRows, Fail, Login, Ask, Logout, LogoutAll, TokenExpires, AccessExpires, ResetPassword

\* FreshOK is inductive.
LEMMA FreshStep ==
  ASSUME TypeInv, FreshOK, [Next]_vars
  PROVE  FreshOK'
<1> SUFFICES ASSUME NEW c \in Calls, pc'[c] \in {"stored", "answer"}
             PROVE  /\ \A b \in Browsers : jar'[b] # tok'[c]
                    /\ \A d \in Calls : d # c => tok'[d] # tok'[c]
                    /\ tok'[c] \in rows' \cup expired' \/ session'[tok'[c]] \in ended'
  BY DEF FreshOK
<1>t. /\ jar \in [Browsers -> 0..issued] /\ tok \in [Calls -> 0..issued]
      /\ pc \in [Calls -> Steps] /\ issued \in Nat
  BY DEF TypeInv, TokensOK, JarsOK, CallsOK
<1>1. CASE Store(c)
  <2>1. /\ issued + 1 \notin 0..issued /\ tok'[c] = issued + 1 /\ issued + 1 \in rows'
        /\ UNCHANGED jar /\ \A d \in Calls : d # c => tok'[d] = tok[d]
    BY <1>t, <1>1, StoreEffect
  <2> QED BY <1>t, <2>1
<1>2. CASE ~Store(c)
  <2>1. pc[c] \in {"stored", "answer"} /\ tok'[c] = tok[c] /\ ~Answer(c) /\ ~Rotate(c)
    <3>1. CASE pc[c] = "idle"
      <4>1. ASSUME NEW d \in Calls, pc'[c] # pc[c] PROVE pc'[c] \notin {"stored", "answer"}
        BY <1>t, <1>2, <3>1, <4>1 DEF Next, Issue, Store, CleanUp, Answer, Refresh, SendRefresh, Find,
           Rotate, DeleteRows, LogoutAnswer, Fail, Login, Ask, Logout, LogoutAll, Start, End, Goto,
           vars, callVars, TokenExpires, AccessExpires, ResetPassword
      <4> QED BY <3>1, <4>1
    <3>2. CASE pc[c] # "idle" /\ ~(Issue(c) \/ Refresh(c) \/ DeleteRows(c) \/ LogoutAnswer(c) \/ Fail(c))
      BY <3>2, OthersStep DEF Issue, Refresh
    <3>3. CASE CleanUp(c)
      BY <1>t, <3>3 DEF CleanUp, Answer, Rotate
    <3>4. CASE Answer(c) \/ Refresh(c) \/ DeleteRows(c) \/ LogoutAnswer(c) \/ Fail(c)
      BY <1>t, <3>4 DEF Answer, Refresh, SendRefresh, Find, Rotate, DeleteRows, LogoutAnswer, Fail, End, Goto
    <3> QED BY <1>2, <3>1, <3>2, <3>3, <3>4 DEF Issue
  <2>2. /\ \A b \in Browsers : jar[b] # tok[c]
        /\ \A d \in Calls : d # c => tok[d] # tok[c]
        /\ tok[c] \in rows \cup expired \/ session[tok[c]] \in ended
        /\ tok[c] \in 1..issued
    BY <1>t, <2>1 DEF FreshOK, TypeInv, CallsOK
  <2>3. ASSUME NEW b \in Browsers PROVE jar'[b] # tok'[c]
    <3>1. \A d \in Calls : Answer(d) => tok[d] # tok[c]
      BY <2>1, <2>2
    <3> QED BY <2>1, <2>2, <3>1, JarStep
  <2>4. ASSUME NEW d \in Calls, d # c PROVE tok'[d] # tok'[c]
    <3>1. issued + 1 \notin 1..issued
      BY <1>t
    <3> QED BY <2>1, <2>2, <2>4, <3>1, TokensOfOthers
  <2>5. session'[tok[c]] = session[tok[c]]
    <3>1. CASE \E d \in Calls : Store(d)
      BY <2>2, <3>1, StoreEffect
    <3>2. CASE \A d \in Calls : ~Store(d)
      BY <3>2, OtherStep
    <3> QED BY <3>1, <3>2
  <2>6. tok'[c] \in rows' \cup expired' \/ session'[tok'[c]] \in ended'
    <3>1. \A d \in Calls : Rotate(d) => tok[d] # tok[c]
      BY <2>1, <2>2
    <3>2. CASE tok[c] \in rows
      BY <2>1, <3>1, <3>2, RowsStep
    <3>3. CASE tok[c] \notin rows
      BY <2>1, <2>2, <2>5, <3>3, EndsKept
    <3> QED BY <3>2, <3>3
  <2> QED BY <2>3, <2>4, <2>6
<1> QED BY <1>1, <1>2

\* A replacement goes on until its answer arrives or is lost.
LEMMA RotatingStep ==
  ASSUME TypeInv, [Next]_vars, NEW c \in Calls, Rotating(c)
  PROVE  \/ Rotating(c)' /\ from'[c] = from[c] /\ session'[tok'[c]] = session[tok[c]]
         \/ Answer(c)
         \/ from[c] \in lost'
<1>t. /\ pc \in [Calls -> Steps] /\ tok \in [Calls -> 0..issued] /\ issued \in Nat
      /\ pc[c] \in {"rotated", "stored", "answer"} /\ tok[c] \in 1..issued
  BY SMTT(30) DEF TypeInv, TokensOK, CallsOK, Rotating, Replacing
<1>0. session'[tok[c]] = session[tok[c]] /\ session[tok[c]] \in 1..issued
  <2>0. session[tok[c]] \in 1..issued
    BY <1>t DEF TypeInv, TokensOK
  <2>1. CASE \E d \in Calls : Store(d)
    BY <1>t, <2>0, <2>1, StoreEffect
  <2>2. CASE \A d \in Calls : ~Store(d)
    BY <2>0, <2>2, OtherStep
  <2> QED BY <2>1, <2>2
<1>1. CASE Store(c)
  <2>1. /\ issued + 1 \notin 0..issued /\ tok'[c] = issued + 1 /\ pc'[c] = "stored" /\ UNCHANGED from
        /\ session'[issued + 1] = session[tok[c]]
    BY <1>t, <1>1, StoreEffect
  <2> QED BY <1>0, <1>t, <2>1 DEF Rotating
<1>2. CASE CleanUp(c)
  BY <1>0, <1>t, <1>2 DEF CleanUp, Goto, Rotating, Replacing
<1>3. CASE Fail(c)
  BY <1>3 DEF Fail
<1>4. CASE ~(Issue(c) \/ Refresh(c) \/ DeleteRows(c) \/ LogoutAnswer(c) \/ Fail(c))
  BY <1>0, <1>t, <1>4, OthersStep DEF Rotating, Replacing
<1>5. ~(Refresh(c) \/ DeleteRows(c) \/ LogoutAnswer(c))
  BY <1>t DEF Refresh, SendRefresh, Find, Rotate, DeleteRows, LogoutAnswer
<1> QED BY <1>1, <1>2, <1>3, <1>4, <1>5 DEF Issue

\* With the owners and the fresh tokens CookieIsHonoured is inductive.
LEMMA CookieStep ==
  ASSUME TypeInv, CookiesOK, [Next]_vars
  PROVE  CookieIsHonoured'
<1> SUFFICES ASSUME NEW b \in Browsers, b \notin lost', jar'[b] # 0
             PROVE  \/ jar'[b] \in rows' \cup expired'
                    \/ session'[jar'[b]] \in ended'
                    \/ \E c \in Calls : /\ from'[c] = b /\ Rotating(c)'
                                        /\ session'[tok'[c]] = session'[jar'[b]]
  BY DEF CookieIsHonoured
<1>1. CASE \E c \in Calls : Answer(c) /\ from[c] = b /\ jar'[b] = tok[c]
  <2>1. PICK c \in Calls : Answer(c) /\ from[c] = b /\ jar'[b] = tok[c]
    BY <1>1
  <2> QED BY <2>1 DEF Answer, tokenVars, CookiesOK, FreshOK
<1>2. CASE jar'[b] = jar[b] /\ ~ \E c \in Calls : Answer(c) /\ from[c] = b
  <2>t. jar[b] \in 1..issued /\ b \notin lost
    BY <1>2, EndsKept DEF TypeInv, TokensOK, JarsOK
  <2>0. session'[jar[b]] = session[jar[b]]
    <3>1. CASE \E d \in Calls : Store(d)
      BY <2>t, <3>1, StoreEffect
    <3>2. CASE \A d \in Calls : ~Store(d)
      BY <3>2, OtherStep
    <3> QED BY <3>1, <3>2
  <2>1. CASE jar[b] \in expired \/ session[jar[b]] \in ended
    BY <1>2, <2>0, <2>1, EndsKept
  <2>2. CASE jar[b] \in rows
    <3>1. ASSUME NEW c \in Calls, Rotate(c), tok[c] = jar[b], pc' = [pc EXCEPT ![c] = "rotated"]
          PROVE  from'[c] = b /\ Rotating(c)' /\ session'[tok'[c]] = session'[jar'[b]]
      <4>1. from[c] = b
        BY <2>t, <3>1 DEF CookiesOK, OwnersOK, Carried, TypeInv, CallsOK
      <4>2. UNCHANGED from /\ pc'[c] = "rotated"
        BY <3>1 DEF Rotate, TypeInv, CallsOK
      <4>3. tok'[c] = tok[c]
        <5>1. pc'[c] # "idle"
          BY <4>2
        <5>2. ~End(c)
          BY <5>1 DEF End, Goto, TypeInv, CallsOK
        <5> QED BY <3>1, <5>2 DEF Rotate
      <4> QED BY <1>2, <2>0, <3>1, <4>1, <4>2, <4>3 DEF Rotating, Replacing
    <3> QED BY <1>2, <2>2, <3>1, RowsStep
  <2>3. ASSUME NEW c \in Calls, from[c] = b, Rotating(c), session[tok[c]] = session[jar[b]]
        PROVE  from'[c] = b /\ Rotating(c)' /\ session'[tok'[c]] = session'[jar'[b]]
    BY <1>2, <2>0, <2>3, RotatingStep
  <2> QED BY <1>2, <2>t, <2>1, <2>2, <2>3 DEF CookiesOK, CookieIsHonoured
<1>3. CASE jar'[b] = jar[b] /\ \E c \in Calls : Answer(c) /\ from[c] = b
  <2>1. PICK c \in Calls : Answer(c) /\ from[c] = b
    BY <1>3
  <2>2. jar'[b] = tok[c]
    BY <2>1 DEF Answer, TypeInv, JarsOK
  <2> QED BY <1>1, <2>1, <2>2
<1> QED BY <1>1, <1>2, <1>3, JarStep

\* Whatever requests are in flight together, a browser that received all its
\* answers never holds a cookie the server has forgotten for no reason.
THEOREM CookiesHonoured == Spec => []CookieIsHonoured
<1>1. Init => CookiesOK
  BY DEF Init, CookiesOK, OwnersOK, FreshOK, CookieIsHonoured, Carried
<1>2. TypeInv /\ CookiesOK /\ [Next]_vars => CookiesOK'
  BY OwnersStep, FreshStep, CookieStep DEF CookiesOK
<1>3. CookiesOK => CookieIsHonoured
  BY DEF CookiesOK
<1> QED
  BY TypeInit, TypeStep, <1>1, <1>2, <1>3, PTL DEF Spec

=============================================================================
