------------------------------ MODULE Channels ------------------------------
(***************************************************************************)
(* The accounts of one organization on one platform: people connect and    *)
(* disconnect them, tokens run out, and health checks, which the dashboard *)
(* and the CTO agent start, mark the expired ones by what they read before *)
(* they asked the platform. What orders the accounts is updatedAt.         *)
(***************************************************************************)
EXTENDS Naturals

CONSTANTS
    Accounts,       \* account names on the platform
    Checkers,       \* health checks in flight
    MaxTime         \* bound: the last instant

ASSUME ChannelsAssumption == MaxTime \in Nat

VARIABLES
    account,        \* the SocialAccount rows
    newest,         \* the accounts with the latest updatedAt: all after updateMany
    now,
    check,          \* each health check: step, account and deadline it has read, is it CONNECTED there
    tainted         \* history: accounts marked after they were changed under the check

channelVars == <<account, newest, now, check, tainted>>

Never == 0          \* no tokenExpiresAt
NoAccount == [status |-> "none", expires |-> Never]
NoCheck == [at |-> "idle"]

ChannelTypeOK ==
    /\ account \in [Accounts -> [status : {"none", "CONNECTED", "EXPIRED", "REVOKED"}, expires : 0..MaxTime]]
    /\ newest \subseteq Accounts /\ tainted \subseteq Accounts
    /\ now \in 0..MaxTime
    /\ \A c \in Checkers : check[c] = NoCheck \/
        check[c] \in [at : {"verify", "flag", "stamp"}, account : Accounts, expires : 0..MaxTime,
                      connected : BOOLEAN, touched : BOOLEAN]

ChannelInit ==
    /\ account = [a \in Accounts |-> NoAccount]
    /\ newest = {} /\ now = 0 /\ tainted = {}
    /\ check = [c \in Checkers |-> NoCheck]

AccountRows == {a \in Accounts : account[a].status # "none"}
PastDue(deadline) == deadline # Never /\ deadline < now

\* A change of the row while a check holds an older reading of it.
Touch(a) ==
    /\ newest' = {a}
    /\ tainted' = tainted \ {a}
    /\ check' = [c \in Checkers |-> IF check[c] # NoCheck /\ check[c].account = a THEN [check[c] EXCEPT !.touched = TRUE] ELSE check[c]]

-----------------------------------------------------------------------------
\* connectAccount: a field that is left out keeps its value in the row.
ConnectAccount(a) ==
    /\ \E expires \in {Never} \cup now..MaxTime :
        account' = [account EXCEPT ![a].status = "CONNECTED", ![a].expires = IF expires = Never THEN @ ELSE expires]
    /\ Touch(a)
    /\ UNCHANGED now

\* Accounts are never deleted, so the row that was found is there to update.
DisconnectAccount(a) ==
    /\ a \in AccountRows
    /\ account' = [account EXCEPT ![a].status = "REVOKED"]
    /\ Touch(a)
    /\ UNCHANGED now

TimePasses ==
    /\ now < MaxTime /\ now' = now + 1
    /\ UNCHANGED <<account, newest, check, tainted>>

-----------------------------------------------------------------------------
(* healthCheck, on the one platform *)

\* The newest account, whatever its status; with none there is nothing to mark.
ReadAccount(c) ==
    /\ check[c] = NoCheck
    /\ \E a \in newest :
        check' = [check EXCEPT ![c] =
            [at |-> "verify", account |-> a, expires |-> account[a].expires,
             connected |-> account[a].status = "CONNECTED", touched |-> FALSE]]
    /\ UNCHANGED <<account, newest, now, tainted>>

\* getCredentials and the adapter's verify: an answer, an error or a time-out
\* goes into the report, and changes no row.
Verify(c) ==
    /\ check[c].at = "verify"
    /\ check' = [check EXCEPT ![c].at = "flag"]
    /\ UNCHANGED <<account, newest, now, tainted>>

\* Mutant: an account that has a deadline is marked.
Expires_NotYet(c) == check[c].connected /\ check[c].expires # Never

\* Is the account, as it was read, to be marked as expired?
Expires(c) == check[c].connected /\ PastDue(check[c].expires)

\* The mark goes by the reading; the row may be another by now.
Flag(c) ==
    /\ check[c].at = "flag"
    /\ IF Expires(c)
       THEN /\ account' = [account EXCEPT ![check[c].account].status = "EXPIRED"]
            /\ newest' = {check[c].account}
            /\ tainted' = IF check[c].touched THEN tainted \cup {check[c].account} ELSE tainted
       ELSE UNCHANGED <<account, newest, tainted>>
    /\ check' = [check EXCEPT ![c].at = "stamp"]
    /\ UNCHANGED now

\* lastCheckedAt is written to every row.
Stamp(c) ==
    /\ check[c].at = "stamp"
    /\ newest' = AccountRows
    /\ check' = [check EXCEPT ![c] = NoCheck]
    /\ UNCHANGED <<account, now, tainted>>

ChannelNext ==
    \/ \E a \in Accounts : ConnectAccount(a) \/ DisconnectAccount(a)
    \/ TimePasses
    \/ \E c \in Checkers : ReadAccount(c) \/ Verify(c) \/ Flag(c) \/ Stamp(c)

ChannelSpec == ChannelInit /\ [][ChannelNext]_channelVars

-----------------------------------------------------------------------------
(* Properties *)

\* An account is marked EXPIRED only if its token has run out, unless someone
\* connected or disconnected it while a check held an older reading of it; then
\* the mark undoes what the person did until they do it again.
ExpiredIsTrue ==
    \A a \in Accounts : account[a].status = "EXPIRED" /\ a \notin tainted => PastDue(account[a].expires)
=============================================================================
