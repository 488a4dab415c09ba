------------------------------ MODULE LinkPages ------------------------------
(***************************************************************************)
(* The pages that ask for a mailed link and that follow one: a new         *)
(* password (forgot-password), a sign-in (magic-link), a confirmed address *)
(* (verify-email). A tab has one request in flight; the answer may be      *)
(* lost, and the tab may be closed while the server goes on. What the      *)
(* links do to the account among other requests is in SignIn.              *)
(***************************************************************************)
EXTENDS Naturals

CONSTANTS
    Tabs,
    MaxLinks    \* bound on links ever made; they are numbered

ASSUME LinkAssumption == MaxLinks \in Nat /\ 0 \notin Tabs

VARIABLES
    purpose,    \* what the links of this behaviour are for
    links,      \* each link's row
    inbox,      \* links in the owner's mailbox
    tab,        \* each tab: where its request is, its link, what it shows
    password,   \* the tab whose password is the account's, 0 the one before
    confirmed,  \* isEmailVerified
    cookies,    \* tabs that hold the cookies of a session they opened
    unsent,     \* history: links whose mail was refused
    broken      \* history: links whose use was not reported: answer lost, tab closed, or stopped half-way

linkPageVars == <<purpose, links, inbox, tab, password, confirmed, cookies, unsent, broken>>

Made == {l \in 1..MaxLinks : links[l] # "none"}
Replied == {"ok", "failed"}
Blank == [at |-> "idle", link |-> 0, shows |-> "nothing"]

LinkPagesTypeOK ==
    /\ purpose \in {"reset", "magic", "verify"}
    /\ links \in [1..MaxLinks -> {"none", "good", "used", "expired"}]
    /\ inbox \subseteq Made /\ unsent \subseteq Made /\ broken \subseteq Made
    /\ tab \in [Tabs -> [at : {"idle", "ask", "mail", "asked", "form", "read", "act", "open", "tidy", "me", "done"} \cup Replied,
                         link : 0..MaxLinks, shows : {"nothing", "sent", "success", "error", "gone"}]]
    /\ password \in Tabs \cup {0} /\ confirmed \in BOOLEAN /\ cookies \subseteq Tabs

\* The link of a new account is made and mailed by its registration.
LinkPagesInit ==
    /\ purpose \in {"reset", "magic", "verify"}
    /\ links = [l \in 1..MaxLinks |-> IF purpose = "verify" /\ l = 1 THEN "good" ELSE "none"]
    /\ inbox = Made
    /\ tab = [t \in Tabs |-> Blank]
    /\ password = 0 /\ confirmed = FALSE /\ cookies = {}
    /\ unsent = {} /\ broken = {}

Is(t, step) == tab[t].at = step
Turns(t, step) == tab' = [tab EXCEPT ![t].at = step]

-----------------------------------------------------------------------------
(* Asking for a link *)

\* The form stays until it has been answered well.
AskLink(t) ==
    /\ purpose # "verify" /\ Is(t, "idle") /\ tab[t].shows \in {"nothing", "error"}
    /\ tab' = [tab EXCEPT ![t].at = "ask", ![t].shows = "nothing"]
    /\ UNCHANGED <<purpose, links, inbox, password, confirmed, cookies, unsent, broken>>

CreateLink(t, l) ==
    /\ Is(t, "ask") /\ l \in 1..MaxLinks \ Made
    /\ links' = [links EXCEPT ![l] = "good"]
    /\ tab' = [tab EXCEPT ![t].at = "mail", ![t].link = l]
    /\ UNCHANGED <<purpose, inbox, password, confirmed, cookies, unsent, broken>>

\* sendMail catches what the mail server throws, and nobody reads what it returns.
SendMail(t) ==
    /\ Is(t, "mail")
    /\ \/ inbox' = inbox \cup {tab[t].link} /\ UNCHANGED unsent
       \/ unsent' = unsent \cup {tab[t].link} /\ UNCHANGED inbox
    /\ Turns(t, "asked")
    /\ UNCHANGED <<purpose, links, password, confirmed, cookies, broken>>

\* The page hears of it, or of a failure.
ShowAsked(t) ==
    /\ tab[t].shows # "gone"
    /\ \/ Is(t, "asked") /\ \E shown \in {"sent", "error"} : tab' = [tab EXCEPT ![t].at = "idle", ![t].shows = shown]
       \/ Is(t, "ask") /\ tab' = [tab EXCEPT ![t].at = "idle", ![t].shows = "error"]
    /\ UNCHANGED <<purpose, links, inbox, password, confirmed, cookies, unsent, broken>>

-----------------------------------------------------------------------------
(* Following one *)

\* A page with a token posts it as it opens; the one for a new password asks first.
OpenLink(t, l) ==
    /\ tab[t] = Blank /\ l \in inbox
    /\ tab' = [tab EXCEPT ![t].at = IF purpose = "reset" THEN "form" ELSE "read", ![t].link = l]
    /\ UNCHANGED <<purpose, links, inbox, password, confirmed, cookies, unsent, broken>>

\* "Passwords do not match." is found without a request.
SubmitPassword(t) ==
    /\ Is(t, "form")
    /\ \E matching \in BOOLEAN :
        tab' = [tab EXCEPT ![t].at = IF matching THEN "read" ELSE "form", ![t].shows = IF matching THEN "nothing" ELSE "error"]
    /\ UNCHANGED <<purpose, links, inbox, password, confirmed, cookies, unsent, broken>>

ReadLink(t) ==
    /\ Is(t, "read")
    /\ Turns(t, IF links[tab[t].link] = "good" THEN "act" ELSE "failed")
    /\ UNCHANGED <<purpose, links, inbox, password, confirmed, cookies, unsent, broken>>

\* Mutant: a magic link is answered as soon as it has been marked.
AfterEffect_Early == [reset |-> "ok", magic |-> "me", verify |-> "tidy"]

\* What follows the first write: a magic link opens a session in another call, and
\* a confirmed address still has its key.
AfterEffect == [reset |-> "ok", magic |-> "open", verify |-> "tidy"]

\* One transaction marks the link and does what it is for.
Effect(t) ==
    /\ Is(t, "act")
    /\ Turns(t, AfterEffect[purpose])
    /\ links' = IF purpose = "verify" THEN links ELSE [links EXCEPT ![tab[t].link] = "used"]
    /\ password' = IF purpose = "reset" THEN t ELSE password
    /\ confirmed' = (confirmed \/ purpose # "reset")
    /\ broken' = IF tab[t].shows = "gone" THEN broken \cup {tab[t].link} ELSE broken
    /\ UNCHANGED <<purpose, inbox, cookies, unsent>>

\* storeRefreshToken; the answer sets the cookies.
OpenSession(t) ==
    /\ Is(t, "open")
    /\ Turns(t, "ok")
    /\ UNCHANGED <<purpose, links, inbox, password, confirmed, cookies, unsent, broken>>

RemoveKey(t) ==
    /\ Is(t, "tidy")
    /\ links' = [links EXCEPT ![tab[t].link] = "used"]
    /\ Turns(t, "ok")
    /\ broken' = IF tab[t].shows = "gone" THEN broken \cup {tab[t].link} ELSE broken
    /\ UNCHANGED <<purpose, inbox, password, confirmed, cookies, unsent>>

\* A call fails, or the process stops: what was written stays.
CallFails(t) ==
    /\ tab[t].at \in {"read", "act", "open", "tidy"}
    /\ Turns(t, "failed")
    /\ broken' = IF Is(t, "open") THEN broken \cup {tab[t].link} ELSE broken
    /\ UNCHANGED <<purpose, links, inbox, password, confirmed, cookies, unsent>>

\* A magic link's page asks for the account next, and goes on whatever it hears.
Accepted(t) ==
    /\ Is(t, "ok") /\ tab[t].shows # "gone"
    /\ IF purpose = "magic"
       THEN Turns(t, "me") /\ cookies' = cookies \cup {t}
       ELSE tab' = [tab EXCEPT ![t].at = "done", ![t].shows = "success"] /\ UNCHANGED cookies
    /\ UNCHANGED <<purpose, links, inbox, password, confirmed, unsent, broken>>

GoHome(t) ==
    /\ Is(t, "me") /\ tab[t].shows # "gone"
    /\ tab' = [tab EXCEPT ![t].at = "done", ![t].shows = "success"]
    /\ UNCHANGED <<purpose, links, inbox, password, confirmed, cookies, unsent, broken>>

\* Refused, failed, or the answer is lost: an error is all the page knows. The
\* form for a password may be sent again.
ShowError(t) ==
    /\ tab[t].at \in Replied /\ tab[t].shows # "gone"
    /\ tab' = [tab EXCEPT ![t].at = IF purpose = "reset" THEN "form" ELSE "done", ![t].shows = "error"]
    /\ broken' = IF Is(t, "ok") THEN broken \cup {tab[t].link} ELSE broken
    /\ UNCHANGED <<purpose, links, inbox, password, confirmed, cookies, unsent>>

CloseTab(t) ==
    /\ tab[t].link # 0 /\ tab[t].shows # "gone"
    /\ tab' = [tab EXCEPT ![t].shows = "gone"]
    /\ broken' = IF links[tab[t].link] = "used" THEN broken \cup {tab[t].link} ELSE broken
    /\ UNCHANGED <<purpose, links, inbox, password, confirmed, cookies, unsent>>

LinkRunsOut(l) ==
    /\ links[l] = "good"
    /\ links' = [links EXCEPT ![l] = "expired"]
    /\ UNCHANGED <<purpose, inbox, tab, password, confirmed, cookies, unsent, broken>>

LinkPagesNext ==
    \/ \E t \in Tabs :
        \/ AskLink(t) \/ SendMail(t) \/ ShowAsked(t) \/ SubmitPassword(t) \/ ReadLink(t) \/ Effect(t) \/ OpenSession(t)
        \/ RemoveKey(t) \/ CallFails(t) \/ Accepted(t) \/ GoHome(t) \/ ShowError(t) \/ CloseTab(t)
        \/ \E l \in 1..MaxLinks : CreateLink(t, l) \/ OpenLink(t, l)
    \/ \E l \in 1..MaxLinks : LinkRunsOut(l)

LinkPagesSpec == LinkPagesInit /\ [][LinkPagesNext]_linkPageVars

-----------------------------------------------------------------------------
(* Properties *)

\* A page that reports a success is right: the password was changed, the session
\* is open, the address confirmed; and "Email Sent!" means the link is in the
\* mailbox, unless the mail server refused it, which no page is told.
PagesTellTheTruth ==
    \A t \in Tabs :
        /\ tab[t].shows = "success" =>
            /\ links[tab[t].link] # "good"
            /\ CASE purpose = "reset" -> password # 0
                 [] purpose = "magic" -> t \in cookies
                 [] OTHER -> confirmed
        /\ tab[t].shows = "sent" => tab[t].link \in inbox \cup unsent

\* A link is never used up without a word: some page reports its success or still
\* waits for the answer, unless an answer was lost, a tab closed, or the session
\* could not be opened.
LinksAreSpentOpenly ==
    \A l \in 1..MaxLinks : links[l] = "used" =>
        \/ l \in broken
        \/ \E t \in Tabs : tab[t].link = l /\ (tab[t].shows = "success" \/ tab[t].at \in {"ok", "open", "tidy", "me"})
=============================================================================
