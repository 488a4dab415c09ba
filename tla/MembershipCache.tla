-------------------------- MODULE MembershipCache --------------------------
(***************************************************************************)
(* Who may act on an organization: the membership rows, the Redis cache in *)
(* front of them, the lookups of TenantGuard and of the gateway's join on  *)
(* every app instance, and the member operations of OrganizationsService,  *)
(* which write the row and then delete the cache entry. A lookup that      *)
(* misses reads the row and then writes the cache. Redis may fail at any   *)
(* call, and every call goes on without it.                                *)
(***************************************************************************)
EXTENDS Naturals, FiniteSets

CONSTANTS
    Users,          \* users other than the owner, who is never changed
    Roles,          \* roles of an ACTIVE member
    Lookups,        \* requests and join messages in flight, on any instance
    Changes,        \* member operations in flight
    Events,         \* which of EventKinds the environment may produce
    Nobody          \* the user of an idle lookup or change

EventKinds == {"redisFails", "expiry"}

\* What a row says: no row, an invitation, or an active member's role.
NonMember == {"none", "INVITED"}
Rows == NonMember \cup Roles

ASSUME MembershipAssumption ==
    /\ Roles \cap (NonMember \cup {"miss"}) = {}
    /\ Events \subseteq EventKinds
    /\ Nobody \notin Users

VARIABLES
    row,        \* organizationMember of each user
    cache,      \* the Redis entry of each user: a row value, or "miss"
    lookupPc, who, value, \* each lookup: step, user, the membership it goes by
    changing,   \* each change: the user whose entry it has yet to delete
    room,       \* users with a socket in the organization's room
    legit,      \* history: what each lookup may go by (see AdmitsCurrent)
    fate        \* history: what may have left each user's entry stale

lookupVars == <<lookupPc, who, value>>
memberVars == <<row, cache, lookupVars, changing, room, legit, fate>>

MemberTypeOK ==
    /\ row \in [Users -> Rows]
    /\ cache \in [Users -> Rows \cup {"miss"}]
    /\ lookupPc \in [Lookups -> {"idle", "get", "query", "set", "decide"}]
    /\ who \in [Lookups -> Users \cup {Nobody}]
    /\ value \in [Lookups -> Rows \cup {"miss"}]
    /\ \A l \in Lookups :
        /\ who[l] = Nobody <=> lookupPc[l] = "idle"
        /\ value[l] # "miss" <=> lookupPc[l] \in {"set", "decide"}
    /\ changing \in [Changes -> Users \cup {Nobody}]
    /\ room \subseteq Users
    /\ legit \in [Lookups -> SUBSET (Rows \cup {"miss"})]
    /\ fate \in [Users -> SUBSET {"overlap", "redisFailed"}]

MemberInit ==
    /\ row \in [Users -> Rows]
    /\ cache = [u \in Users |-> "miss"]
    /\ lookupPc = [l \in Lookups |-> "idle"]
    /\ who = [l \in Lookups |-> Nobody]
    /\ value = [l \in Lookups |-> "miss"]
    /\ changing = [c \in Changes |-> Nobody]
    /\ room = {}
    /\ legit = [l \in Lookups |-> {}]
    /\ fate = [u \in Users |-> {}]

\* A change of u's row has been written and its entry not been deleted yet.
InTransit(u) == \E c \in Changes : changing[c] = u

\* A lookup is about to write what it read of u's row.
Overlap(u) == IF \E l \in Lookups : who[l] = u /\ lookupPc[l] = "set" THEN {"overlap"} ELSE {}

-----------------------------------------------------------------------------
(* TenantGuard.canActivate and EventsGateway.isOrgMember *)

BeginLookup(l, u) ==
    /\ lookupPc[l] = "idle"
    /\ lookupPc' = [lookupPc EXCEPT ![l] = "get"]
    /\ who' = [who EXCEPT ![l] = u]
    /\ legit' = [legit EXCEPT ![l] = {row[u]} \cup (IF InTransit(u) THEN {cache[u]} ELSE {})]
    /\ UNCHANGED <<row, cache, value, changing, room, fate>>

Get(l) ==
    /\ lookupPc[l] = "get"
    /\ \/ /\ cache[who[l]] # "miss"
          /\ value' = [value EXCEPT ![l] = cache[who[l]]]
          /\ lookupPc' = [lookupPc EXCEPT ![l] = "decide"]
          /\ legit' = [legit EXCEPT ![l] = IF fate[who[l]] # {} THEN @ \cup {cache[who[l]]} ELSE @]
       \/ /\ cache[who[l]] = "miss" \/ "redisFails" \in Events
          /\ lookupPc' = [lookupPc EXCEPT ![l] = "query"]
          /\ UNCHANGED <<value, legit>>
    /\ UNCHANGED <<row, cache, who, changing, room, fate>>

Query(l) ==
    /\ lookupPc[l] = "query"
    /\ value' = [value EXCEPT ![l] = row[who[l]]]
    /\ lookupPc' = [lookupPc EXCEPT ![l] = "set"]
    /\ UNCHANGED <<row, cache, who, changing, room, legit, fate>>

\* The entry is written whatever happened since the row was read.
Set(l) ==
    /\ lookupPc[l] = "set"
    /\ \/ cache' = [cache EXCEPT ![who[l]] = value[l]]
       \/ "redisFails" \in Events /\ UNCHANGED cache
    /\ lookupPc' = [lookupPc EXCEPT ![l] = "decide"]
    /\ UNCHANGED <<row, who, value, changing, room, legit, fate>>

\* Mutant: an invitation counts as a membership.
Admits_Invited(v) == v # "none"

Admits(v) == v \notin NonMember

\* The request is served with the role, or refused; a join message that is
\* admitted puts the socket into the room.
Decide(l) ==
    /\ lookupPc[l] = "decide"
    /\ room' \in {room} \cup (IF Admits(value[l]) THEN {room \cup {who[l]}} ELSE {})
    /\ lookupPc' = [lookupPc EXCEPT ![l] = "idle"]
    /\ who' = [who EXCEPT ![l] = Nobody]
    /\ value' = [value EXCEPT ![l] = "miss"]
    /\ legit' = [legit EXCEPT ![l] = {}]
    /\ UNCHANGED <<row, cache, changing, fate>>

\* Nothing but the end of its connection takes a socket out of the room.
Disconnect(u) ==
    /\ u \in room
    /\ room' = room \ {u}
    /\ UNCHANGED <<row, cache, lookupVars, changing, legit, fate>>

-----------------------------------------------------------------------------
(* Member operations *)

\* inviteMember makes a user who has an account an active member at once; a role
\* is changed, or the row is deleted. An invitation is the row of a user whose
\* account was created with it, and is there from the start or not at all;
\* acceptInvite is called without a user (its route is public, so nobody is
\* authenticated) and fails, so that an invitation can only be removed.
Change(c, u, v) ==
    /\ changing[c] = Nobody /\ v \notin {row[u], "INVITED"}
    /\ row[u] = "INVITED" => v = "none"
    /\ row' = [row EXCEPT ![u] = v]
    /\ changing' = [changing EXCEPT ![c] = u]
    /\ legit' = [l \in Lookups |-> IF who[l] = u THEN legit[l] \cup {v} ELSE legit[l]]
    /\ fate' = [fate EXCEPT ![u] = @ \cup Overlap(u)]
    /\ UNCHANGED <<cache, lookupVars, room>>

\* Mutant: the operation returns without deleting the entry.
Invalidate_Forgotten(c) ==
    /\ changing[c] # Nobody
    /\ changing' = [changing EXCEPT ![c] = Nobody]
    /\ UNCHANGED <<row, cache, lookupVars, room, legit, fate>>

\* The entry is deleted, and the operation returns even if that failed.
Invalidate(c) ==
    /\ changing[c] # Nobody
    /\ changing' = [changing EXCEPT ![c] = Nobody]
    /\ LET u == changing[c] IN
        \/ /\ cache' = [cache EXCEPT ![u] = "miss"]
           /\ fate' = [fate EXCEPT ![u] = Overlap(u)]
        \/ /\ "redisFails" \in Events
           /\ fate' = [fate EXCEPT ![u] = @ \cup {"redisFailed"}]
           /\ UNCHANGED cache
    /\ UNCHANGED <<row, lookupVars, room, legit>>

\* Five minutes after the entry was written.
Expire(u) ==
    /\ "expiry" \in Events /\ cache[u] # "miss"
    /\ cache' = [cache EXCEPT ![u] = "miss"]
    /\ fate' = [fate EXCEPT ![u] = Overlap(u)]
    /\ UNCHANGED <<row, lookupVars, changing, room, legit>>

-----------------------------------------------------------------------------
LookupStep(l) == Get(l) \/ Query(l) \/ Set(l) \/ Decide(l)

MemberNext ==
    \/ \E l \in Lookups : LookupStep(l) \/ \E u \in Users : BeginLookup(l, u)
    \/ \E c \in Changes : Invalidate(c) \/ \E u \in Users, v \in Rows : Change(c, u, v)
    \/ \E u \in Users : Disconnect(u) \/ Expire(u)

MemberSpec == MemberInit /\ [][MemberNext]_memberVars

-----------------------------------------------------------------------------
(* Properties *)

\* The cache agrees with the rows once every operation has returned, unless a
\* lookup was about to write what it had read when the row was changed, or
\* Redis did not delete the entry.
CacheCoherent ==
    \A u \in Users : cache[u] \in {"miss", row[u]} \/ InTransit(u) \/ fate[u] # {}

\* A request goes by a membership that was in the row at some time since the
\* request came in, or that an unfinished operation had just replaced, with
\* the same two exceptions.
AdmitsCurrent ==
    \A l \in Lookups : lookupPc[l] = "decide" => value[l] \in legit[l]

\* A socket enters the organization's room only if its user could be an active
\* member by what the join message may go by.
OnlyMembersJoin ==
    [][\A u \in room' \ room : \E l \in Lookups : who[l] = u /\ legit[l] \cap Roles # {}]_memberVars

\* README.md says "revocation takes effect immediately across all instances":
\* once removeMember has returned, no cache entry says the user is a member.
RevocationTakesEffect ==
    \A u \in Users : row[u] = "none" /\ ~InTransit(u) => cache[u] \notin Roles

=============================================================================
