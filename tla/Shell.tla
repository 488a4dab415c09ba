------------------------------- MODULE Shell -------------------------------
(***************************************************************************)
(* One browser tab around its pages: the account it shows, the guards that *)
(* send it to another page, and the connection for live updates. The       *)
(* session is in cookies that the tab cannot read and that the tabs of a   *)
(* browser share, so it asks the server whose they are (GET /api/auth/me), *)
(* once when it is loaded and after what it knows to have changed them.    *)
(* Who asks while an answer is awaited is given that answer.               *)
(***************************************************************************)
EXTENDS FiniteSets

CONSTANTS
    Accounts,   \* people with an account
    Companies   \* organizations

NoOne == "none"

\* Nobody's id is a word for nobody or for the state of a connection.
ASSUME ShellAssumption == Accounts \cap {NoOne, "connecting", "refused"} = {}

VARIABLES
    cookies,    \* whose session the cookies are of; is the access token accepted
    members,    \* the organizations of each account
    storedOrg,  \* organizationId in localStorage
    user, organizations, currentOrg, restoring,     \* AuthContext
    path,       \* the page: before signing in, the dashboard's, or organizations/create
    me,         \* refreshInFlight: the cookies it was sent with, its answer
    entry,      \* sign-in or creation of an organization under way
    leaving,    \* is a logout under way
    connection, \* the socket: the room it wants, whom the server takes it for
    cause       \* history: what first made the tab differ from the cookies, or from the server

shellVars == <<cookies, members, storedOrg, user, organizations, currentOrg, restoring, path, me,
               entry, leaving, connection, cause>>
shownVars == <<user, organizations, currentOrg, connection>>

NoRequest == [sent |-> NoOne, state |-> "none", orgs |-> {}, clean |-> FALSE]
NoConnection == [org |-> NoOne, as |-> NoOne, mixed |-> FALSE]
OnLogin == "login"

ShellTypeOK ==
    /\ cookies \in [who : Accounts \cup {NoOne}, fresh : BOOLEAN]
    /\ members \in [Accounts -> SUBSET Companies]
    /\ {storedOrg, currentOrg} \subseteq Companies \cup {NoOne}
    /\ user \in Accounts \cup {NoOne} /\ organizations \subseteq Companies
    /\ {restoring, leaving} \subseteq BOOLEAN
    /\ path \in {OnLogin, "dashboard", "create"}
    /\ me \in [sent : Accounts \cup {NoOne}, state : {"none", "sent", "answered", "failed"},
               orgs : SUBSET Companies, clean : BOOLEAN]
    /\ entry \in {"none", "code", "sign in", "create", "waiting"}
    /\ connection \in [org : Companies \cup {NoOne}, as : Accounts \cup {NoOne, "connecting", "refused"}, mixed : BOOLEAN]
    /\ cause \in {"none", "other tab", "joined", "outlived", "expired", "failed", "members", "not left"}

-----------------------------------------------------------------------------
(* refreshUser and the effects *)

\* Cookies c are sent as they are; an expired access token is none at all.
AskMe(c) == [sent |-> IF c.fresh THEN c.who ELSE NoOne, state |-> "sent", orgs |-> {}, clean |-> TRUE]

Awaited == me # NoRequest

\* refreshUser joins the request in flight.
RefreshUser(c) == me' = IF Awaited THEN [me EXCEPT !.clean = FALSE] ELSE AskMe(c)

\* What the tab shows may be out of date from now on; an answer on its way will
\* not say so.
Since(why) == IF cause = "none" THEN why ELSE cause
Because(why) == cause' = Since(why)
Unclean == me' = IF Awaited THEN [me EXCEPT !.clean = FALSE] ELSE me

\* The guards of AuthProvider and DashboardLayout, after every rendering.
Guarded(p) ==
    IF restoring' THEN p
    ELSE IF user' = NoOne THEN OnLogin
    ELSE IF p = "dashboard" /\ organizations' = {} THEN "create"
    ELSE p

\* SocketProvider's effect on the ids of the account and the organization.
Reconnect ==
    connection' =
        IF user' = user /\ currentOrg' = currentOrg THEN connection
        ELSE IF NoOne \in {user', currentOrg'} THEN NoConnection
        ELSE [org |-> currentOrg', as |-> "connecting", mixed |-> FALSE]

\* A page is loaded by the browser: nothing of the tab is left but localStorage.
Boot(p, c) ==
    /\ user' = NoOne /\ organizations' = {} /\ currentOrg' = NoOne
    /\ restoring' = TRUE /\ path' = p /\ me' = AskMe(c)
    /\ entry' = "none" /\ leaving' = FALSE /\ connection' = NoConnection

ShellInit ==
    /\ cookies = [who |-> NoOne, fresh |-> FALSE] /\ members \in [Accounts -> SUBSET Companies]
    /\ storedOrg = NoOne
    /\ user = NoOne /\ organizations = {} /\ currentOrg = NoOne /\ restoring = TRUE
    /\ path = OnLogin /\ me = [NoRequest EXCEPT !.state = "sent", !.clean = TRUE]
    /\ entry = "none" /\ leaving = FALSE /\ connection = NoConnection /\ cause = "none"

ServeMe ==
    /\ me.state = "sent"
    /\ \/ me' = [me EXCEPT !.state = "answered", !.orgs = IF me.sent = NoOne THEN {} ELSE members[me.sent]]
       \/ me' = [me EXCEPT !.state = "failed"]
    /\ UNCHANGED <<cookies, members, storedOrg, shownVars, restoring, path, entry, leaving, cause>>

\* The answer is shown: the organization is the one in localStorage if it is among
\* those of the account, else the first of them.
ShowAccount ==
    /\ user' = me.sent /\ organizations' = me.orgs
    /\ IF me.orgs = {} THEN currentOrg' = NoOne /\ UNCHANGED storedOrg
       ELSE /\ currentOrg' \in (IF storedOrg \in me.orgs THEN {storedOrg} ELSE me.orgs)
            /\ storedOrg' = currentOrg'

\* A 401, or any other failure.
ShowNobody == user' = NoOne /\ organizations' = {} /\ currentOrg' = NoOne /\ UNCHANGED storedOrg

\* Who has waited for the answer goes to the dashboard, whatever it was.
MeAnswered ==
    /\ me.state \in {"answered", "failed"}
    /\ IF me.state = "answered" /\ me.sent # NoOne THEN ShowAccount ELSE ShowNobody
    /\ restoring' = FALSE /\ me' = NoRequest
    /\ path' = Guarded(IF entry = "waiting" THEN "dashboard" ELSE path)
    /\ entry' = IF entry = "waiting" THEN "none" ELSE entry
    /\ Reconnect
    /\ cause' = IF me.state = "failed" THEN Since("failed")
                ELSE IF me.sent = NoOne /\ cookies.who # NoOne THEN Since("expired")
                ELSE IF me.clean THEN "none" ELSE cause
    /\ UNCHANGED <<cookies, members, leaving>>

-----------------------------------------------------------------------------
(* Signing in and out *)

\* login, register, verify2FA, verifyMagicLink; any page before signing in.
SubmitEntry ==
    /\ path = OnLogin /\ entry \in {"none", "code"}
    /\ entry' = "sign in"
    /\ UNCHANGED <<cookies, members, storedOrg, shownVars, restoring, path, me, leaving, cause>>

\* Refused, or the password was right and a code is asked for.
EntryRefused ==
    /\ entry \in {"sign in", "create"}
    /\ entry' \in (IF entry = "sign in" THEN {"none", "code"} ELSE {"none"})
    /\ UNCHANGED <<cookies, members, storedOrg, shownVars, restoring, path, me, leaving, cause>>

\* The cookies are those of account u from now on.
EntryAccepted ==
    /\ entry = "sign in"
    /\ \E u \in Accounts : cookies' = [who |-> u, fresh |-> TRUE]
    /\ entry' = "waiting"
    /\ RefreshUser(cookies')
    /\ IF Awaited THEN Because("joined") ELSE UNCHANGED cause
    /\ UNCHANGED <<members, storedOrg, shownVars, restoring, path, leaving>>

\* Signing in with Google or GitHub ends in a redirect to the dashboard.
OAuthReturns ==
    /\ path = OnLogin
    /\ \E u \in Accounts : cookies' = [who |-> u, fresh |-> TRUE]
    /\ Boot("dashboard", cookies')
    /\ UNCHANGED <<members, storedOrg, cause>>

SubmitCompany ==
    /\ path = "create" /\ entry = "none" /\ ~restoring
    /\ entry' = "create"
    /\ UNCHANGED <<cookies, members, storedOrg, shownVars, restoring, path, me, leaving, cause>>

CompanyCreated ==
    /\ entry = "create" /\ cookies.who # NoOne
    /\ \E o \in Companies \ members[cookies.who] :
        members' = [members EXCEPT ![cookies.who] = @ \cup {o}]
    /\ cookies' = [cookies EXCEPT !.fresh = TRUE]   \* refreshed on the way, where it had to be
    /\ entry' = "waiting"
    /\ RefreshUser(cookies')
    /\ IF Awaited THEN Because("joined") ELSE UNCHANGED cause
    /\ UNCHANGED <<storedOrg, shownVars, restoring, path, leaving>>

Leave ==
    /\ user # NoOne /\ path # OnLogin /\ ~restoring /\ ~leaving
    /\ leaving' = TRUE
    /\ UNCHANGED <<cookies, members, storedOrg, shownVars, restoring, path, me, entry, cause>>

\* Mutant: what logout shows is left to the next page.
Forget_Nothing == UNCHANGED <<storedOrg, user, organizations, currentOrg>>

Forget == storedOrg' = NoOne /\ user' = NoOne /\ organizations' = {} /\ currentOrg' = NoOne

\* The server clears the cookies, for a caller whose access token it accepts; the
\* tab signs out whether it has or not.
Left ==
    /\ leaving /\ leaving' = FALSE
    /\ UNCHANGED <<members, restoring, entry>>
    /\ \E reached \in BOOLEAN :
        cookies' = IF reached /\ cookies.fresh THEN [who |-> NoOne, fresh |-> FALSE] ELSE cookies
    /\ Forget
    /\ path' = Guarded(OnLogin)
    /\ Reconnect /\ Unclean
    /\ cause' = IF Awaited THEN Since("outlived")
                ELSE IF cookies'.who # NoOne THEN Since("not left") ELSE "none"

-----------------------------------------------------------------------------
(* Using the dashboard *)

\* A link within the application; logout and forms go on by themselves.
Navigate(p) ==
    /\ UNCHANGED <<cookies, members, storedOrg, shownVars, restoring, me, leaving, cause>>
    /\ path' = Guarded(p) /\ path' # path
    /\ entry' = IF entry = "code" THEN "none" ELSE entry

LoadPage(p) ==
    /\ p # OnLogin \/ path = OnLogin
    /\ Boot(p, cookies)
    /\ UNCHANGED <<cookies, members, storedOrg, cause>>

\* The settings page, after two-factor sign-in was turned on or off.
SettingsSaved ==
    /\ path = "dashboard" /\ user # NoOne /\ cookies.fresh
    /\ UNCHANGED cookies /\ RefreshUser(cookies)
    /\ UNCHANGED <<members, storedOrg, shownVars, restoring, path, entry, leaving, cause>>

SwitchTo(o) ==
    /\ path = "dashboard" /\ ~restoring /\ o \in organizations /\ o # currentOrg
    /\ storedOrg' = o /\ currentOrg' = o
    /\ UNCHANGED <<user, organizations>>
    /\ Reconnect
    /\ UNCHANGED <<cookies, members, restoring, path, me, entry, leaving, cause>>

\* A request of a page is answered 401: the interceptor has the cookies renewed, or
\* drops the session's traces and has the browser load the login page.
PageUnauthorized ==
    /\ path # OnLogin /\ user # NoOne /\ ~cookies.fresh
    /\ \/ /\ cookies.who # NoOne /\ cookies' = [cookies EXCEPT !.fresh = TRUE]
          /\ UNCHANGED <<storedOrg, shownVars, restoring, path, me, entry, leaving>>
       \/ /\ UNCHANGED cookies
          /\ storedOrg' = NoOne /\ Boot(OnLogin, cookies)
    /\ UNCHANGED <<members, cause>>

\* The handshake carries the cookies of the moment. A connection that is refused,
\* or that asks for its room before it is accepted, is ended and not tried again.
Handshake ==
    /\ connection.as = "connecting"
    /\ \/ connection' = [connection EXCEPT !.as = "refused"]
       \/ /\ cookies.fresh
          /\ connection' = [connection EXCEPT !.as = cookies.who, !.mixed = cookies.who # user]
    /\ UNCHANGED <<cookies, members, storedOrg, user, organizations, currentOrg, restoring, path, me, entry, leaving, cause>>

ConnectionDrops ==
    /\ connection.as \in Accounts
    /\ connection' = [connection EXCEPT !.as = "connecting", !.mixed = FALSE]
    /\ UNCHANGED <<cookies, members, storedOrg, user, organizations, currentOrg, restoring, path, me, entry, leaving, cause>>

-----------------------------------------------------------------------------
(* Around the tab *)

Expires ==
    /\ cookies.fresh
    /\ cookies' = [cookies EXCEPT !.fresh = FALSE]
    /\ UNCHANGED <<members, storedOrg, shownVars, restoring, path, me, entry, leaving, cause>>

\* Another tab of the browser signs in, signs out or switches.
ElsewhereInBrowser ==
    /\ \/ \E u \in Accounts, o \in Companies : cookies' = [who |-> u, fresh |-> TRUE] /\ storedOrg' = o
       \/ cookies' = [who |-> NoOne, fresh |-> FALSE] /\ storedOrg' = NoOne
    /\ <<cookies, storedOrg>>' # <<cookies, storedOrg>>
    /\ Because("other tab") /\ Unclean
    /\ UNCHANGED <<members, shownVars, restoring, path, entry, leaving>>

\* A membership is granted or ends.
MembersChange ==
    /\ \E u \in Accounts, o \in Companies :
        members' = [members EXCEPT ![u] = IF o \in @ THEN @ \ {o} ELSE @ \cup {o}]
    /\ Because("members") /\ Unclean
    /\ UNCHANGED <<cookies, storedOrg, shownVars, restoring, path, entry, leaving>>

ShellNext ==
    \/ ServeMe \/ MeAnswered \/ SubmitEntry \/ EntryRefused \/ EntryAccepted \/ OAuthReturns
    \/ SubmitCompany \/ CompanyCreated \/ Leave \/ Left
    \/ \E p \in {OnLogin, "dashboard", "create"} : Navigate(p) \/ LoadPage(p)
    \/ SettingsSaved \/ PageUnauthorized \/ Handshake \/ ConnectionDrops
    \/ \E o \in Companies : SwitchTo(o)
    \/ Expires \/ ElsewhereInBrowser \/ MembersChange

ShellSpec == ShellInit /\ [][ShellNext]_shellVars

-----------------------------------------------------------------------------
(* Properties *)

Quiet == ~Awaited /\ entry \in {"none", "code"} /\ ~leaving

\* A tab that waits for nothing shows the account of the browser's cookies with
\* its organizations, is on a page that is for it, sends the organization it
\* shows, and is connected to its room and to no other; unless another tab or
\* another person changed what it has shown, its access token had expired when
\* it asked, an answer or a logout did not get through, or somebody signed in,
\* created or left while an older answer was on its way.
ShellAgrees ==
    (Quiet /\ cause = "none") =>
        /\ user = cookies.who
        /\ organizations = (IF user = NoOne THEN {} ELSE members[user])
        /\ IF organizations = {} THEN currentOrg = NoOne
           ELSE currentOrg \in organizations /\ storedOrg = currentOrg
        /\ user = NoOne => path = OnLogin
        /\ path = "dashboard" => organizations # {}

\* The connection is for the organization that is shown, and for the account that
\* is shown unless the cookies were somebody else's when it was made.
ConnectionFollows ==
    /\ connection.org = currentOrg
    /\ connection.as \in Accounts => connection.as = user \/ connection.mixed

TabIsItsAccounts == ShellAgrees /\ ConnectionFollows
=============================================================================
