------------------------------ MODULE Requests ------------------------------
(***************************************************************************)
(* The requests of one user through one process of the API: the CSRF       *)
(* check, JwtStrategy with its cache of users, RolesGuard, TenantGuard,    *)
(* and the organization the handler acts for. RolesGuard is global and     *)
(* comes before the guards of a controller; the controllers whose routes   *)
(* name roles have no TenantGuard, and the others name no roles. The       *)
(* cache hands one and the same object to all requests of a user, and      *)
(* TenantGuard writes the organization and the role into it.               *)
(***************************************************************************)
EXTENDS Naturals, FiniteSets

CONSTANTS
    Inflight,   \* requests in flight
    Tenants,    \* organizations
    Ranks,      \* roles of members
    Gate,       \* roles that the routes with @Roles ask for
    MaxTurns    \* bound on the changes of the user's row and memberships

ASSUME RequestsAssumption ==
    /\ IsFiniteSet(Inflight) /\ MaxTurns \in Nat
    /\ Gate \subseteq Ranks /\ "none" \notin Ranks \cup Tenants

VARIABLES
    active,     \* user.isActive
    belongs,    \* the user's role in each organization
    entry,      \* userCache: Miss, Null, or the number of the object it holds
    objects,    \* the objects a request or the cache holds: role, organizationId
    reqs,       \* the requests
    turns,      \* changes of the user's row and memberships so far
    lag         \* history: why the entry may say something else than the row

requestVars == <<active, belongs, entry, objects, reqs, turns, lag>>

Objects == 1..(Cardinality(Inflight) + 1)
Miss == 0                           \* no entry, or one that has expired
Null == Cardinality(Inflight) + 2   \* an entry that says: nobody, or not active
Fresh == [role |-> "none", org |-> "none", stale |-> FALSE]
NoRequestYet == [pc |-> "idle", gated |-> FALSE, org |-> "none", user |-> 0, seen |-> FALSE,
                 acts |-> "none", mixed |-> FALSE, sure |-> FALSE]

RequestTypeOK ==
    /\ active \in BOOLEAN /\ belongs \in [Tenants -> Ranks \cup {"none"}]
    /\ entry \in Objects \cup {Miss, Null}
    /\ objects \in [Objects -> [role : Ranks \cup {"none"}, org : Tenants \cup {"none"}, stale : BOOLEAN]]
    /\ \A r \in Inflight :
        /\ reqs[r].pc \in {"idle", "query", "store", "member", "run", "served", "refused"}
        /\ reqs[r].org \in Tenants \cup {"none"}
        /\ reqs[r].user \in Objects \cup {0} /\ (reqs[r].pc \in {"member", "run", "served"} => reqs[r].user # 0)
    /\ turns \in 0..MaxTurns /\ lag \in {"none", "kept", "late"}

RequestInit ==
    /\ active = TRUE /\ belongs \in [Tenants -> Ranks \cup {"none"}]
    /\ entry = Miss /\ objects = [k \in Objects |-> Fresh]
    /\ reqs = [r \in Inflight |-> NoRequestYet] /\ turns = 0 /\ lag = "none"

\* An object that neither the cache nor a request holds is garbage.
Held(k, e, rs) == k = e \/ \E r \in Inflight : rs[r].user = k
Unheld == CHOOSE k \in Objects : ~Held(k, entry, reqs)
Collected(obs, e, rs) == [k \in Objects |-> IF Held(k, e, rs) THEN obs[k] ELSE Fresh]

Refuse(r) == reqs' = [reqs EXCEPT ![r] = [NoRequestYet EXCEPT !.pc = "refused"]]

-----------------------------------------------------------------------------
(* A request *)

\* RolesGuard, with the object k as it is: whatever request wrote its role.
PassRoles(r, request, k, object) ==
    reqs' = [reqs EXCEPT ![r] = [request EXCEPT
        !.user = k,
        !.pc = IF ~request.gated THEN "member" ELSE IF object.role \in Gate THEN "run" ELSE "refused",
        !.sure = object.org = request.org /\ ~object.stale]]

\* CsrfMiddleware compares the header the client took from the csrf_token cookie
\* with the cookie as it was when the request was sent: another tab may have had
\* the session renewed in between. Then the cache of JwtStrategy.
Arrive(r, gated, o, fits) ==
    /\ reqs[r].pc = "idle"
    /\ LET came == [NoRequestYet EXCEPT !.gated = gated, !.org = o] IN
        IF ~fits \/ entry = Null THEN Refuse(r)
        ELSE IF entry = Miss THEN reqs' = [reqs EXCEPT ![r] = [came EXCEPT !.pc = "query"]]
        ELSE PassRoles(r, came, entry, objects[entry])
    /\ UNCHANGED <<active, belongs, entry, objects, turns, lag>>

ReadUser(r) ==
    /\ reqs[r].pc = "query"
    /\ reqs' = [reqs EXCEPT ![r].pc = "store", ![r].seen = active]
    /\ UNCHANGED <<active, belongs, entry, objects, turns, lag>>

\* Mutant: the row is enough, active or not.
LetsIn_Anyone(isActive) == TRUE

LetsIn(isActive) == isActive

\* What was read goes into the cache, whatever has happened to the row since.
StoreUser(r) ==
    /\ reqs[r].pc = "store"
    /\ IF LetsIn(reqs[r].seen)
       THEN entry' = Unheld /\ PassRoles(r, [reqs[r] EXCEPT !.seen = FALSE], Unheld, Fresh)
       ELSE entry' = Null /\ Refuse(r)
    /\ objects' = Collected(objects, entry', reqs')
    /\ lag' = IF reqs[r].seen = active THEN "none" ELSE "late"
    /\ UNCHANGED <<active, belongs, turns>>

\* Requests that are about to run with the same object as r, for another
\* organization.
Sharing(r) == {q \in Inflight \ {r} :
    reqs[q].pc = "run" /\ ~reqs[q].gated /\ reqs[q].user = reqs[r].user /\ reqs[q].org # reqs[r].org}

\* Mutant: the role is attached, the organization is not.
Attached_RoleOnly(object, o) == [object EXCEPT !.role = belongs[o]]

Attached(object, o) == [role |-> belongs[o], org |-> o, stale |-> FALSE]

\* TenantGuard; how it comes to know the membership is MembershipCache's.
Admit(r) ==
    /\ reqs[r].pc = "member"
    /\ IF belongs[reqs[r].org] = "none" THEN Refuse(r) /\ objects' = Collected(objects, entry, reqs')
       ELSE /\ objects' = [objects EXCEPT ![reqs[r].user] = Attached(@, reqs[r].org)]
            /\ reqs' = [q \in Inflight |->
                IF q = r THEN [reqs[r] EXCEPT !.pc = "run"]
                ELSE IF q \in Sharing(r) THEN [reqs[q] EXCEPT !.mixed = TRUE] ELSE reqs[q]]
    /\ UNCHANGED <<active, belongs, entry, turns, lag>>

\* The handler acts for @OrgId(), or for the organization in its path.
Handle(r) ==
    /\ reqs[r].pc = "run"
    /\ reqs' = [reqs EXCEPT ![r].pc = "served",
                ![r].acts = IF reqs[r].gated THEN reqs[r].org ELSE objects[reqs[r].user].org]
    /\ UNCHANGED <<active, belongs, entry, objects, turns, lag>>

Respond(r) ==
    /\ reqs[r].pc \in {"served", "refused"}
    /\ reqs' = [reqs EXCEPT ![r] = NoRequestYet]
    /\ objects' = Collected(objects, entry, reqs')
    /\ UNCHANGED <<active, belongs, entry, turns, lag>>

-----------------------------------------------------------------------------
(* Around it *)

\* After 30 seconds, or pushed out by the entries of other users.
ForgetUser ==
    /\ entry # Miss
    /\ entry' = Miss /\ lag' = "none"
    /\ objects' = Collected(objects, Miss, reqs)
    /\ UNCHANGED <<active, belongs, reqs, turns>>

\* UsersService.activate and deactivate.
SetActive ==
    /\ turns < MaxTurns /\ turns' = turns + 1
    /\ active' = ~active
    /\ lag' = IF entry = Miss THEN "none" ELSE "kept"
    /\ UNCHANGED <<belongs, entry, objects, reqs>>

\* The role that objects and requests took from organization o is not the row's.
SetRank(o, rank) ==
    /\ turns < MaxTurns /\ turns' = turns + 1
    /\ belongs' = [belongs EXCEPT ![o] = rank] /\ belongs' # belongs
    /\ objects' = [k \in Objects |-> IF objects[k].org = o THEN [objects[k] EXCEPT !.stale = TRUE] ELSE objects[k]]
    /\ reqs' = [r \in Inflight |-> IF reqs[r].org = o THEN [reqs[r] EXCEPT !.sure = FALSE] ELSE reqs[r]]
    /\ UNCHANGED <<active, entry, lag>>

RequestNext ==
    \/ \E r \in Inflight :
        \/ \E gated, fits \in BOOLEAN, o \in Tenants : Arrive(r, gated, o, fits)
        \/ ReadUser(r) \/ StoreUser(r) \/ Admit(r) \/ Handle(r) \/ Respond(r)
    \/ ForgetUser \/ SetActive
    \/ \E o \in Tenants, rank \in Ranks \cup {"none"} : SetRank(o, rank)

RequestSpec == RequestInit /\ [][RequestNext]_requestVars

-----------------------------------------------------------------------------
(* Properties *)

\* A handler acts for the organization its request named, also where another
\* request of the user, for another organization, has been through the guard
\* before; only one that is let in between this one's guard and its handler
\* can make it act for the other.
ActsForItsOrg ==
    \A r \in Inflight : reqs[r].pc = "served" => reqs[r].acts = reqs[r].org \/ reqs[r].mixed

\* A route that names roles is decided by the user's role in its organization,
\* if that is where the cached object has its role from and the role has not
\* been changed since.
GateIsRight ==
    \A r \in Inflight : (reqs[r].gated /\ reqs[r].sure) =>
        (reqs[r].pc \in {"run", "served"} <=> belongs[reqs[r].org] \in Gate)

\* A user is let in while active and refused while not, unless the entry is
\* younger than 30 seconds and older than the change, or was read before the
\* change and written after it.
AccessFollows == entry # Miss /\ (entry # Null) # active => lag # "none"
=============================================================================
