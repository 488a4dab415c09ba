---------------------------- MODULE Organizations ----------------------------
(***************************************************************************)
(* Accounts, organizations and their members as OrganizationsService and   *)
(* AuthService write them: every operation is a few calls of the database, *)
(* without a transaction, and may stop between them. What the caches of    *)
(* memberships make of it is in MembershipCache.                           *)
(***************************************************************************)
EXTENDS Naturals, FiniteSets

CONSTANTS
    People,     \* addresses, with an account or without
    MaxOrgs,    \* bound on organizations; they are numbered as they are created
    MaxRows,    \* bound on OrganizationMember rows ever made
    Desks       \* calls in flight

ASSUME OrganizationAssumption == MaxOrgs \in Nat /\ MaxRows \in Nat /\ "nobody" \notin People

VARIABLES
    accounts,    \* the user row of an address: none, one made for an invitation, or the person's
    standing,   \* organizations that exist
    founded,    \* organizations created so far
    members,    \* OrganizationMember: id, role and status by organization and person
    rows,       \* rows made so far
    desk,       \* each call: what it does and where it is
    founder,    \* history: who created an organization
    orphans,    \* history: organizations whose creation stopped half-way
    withdrawn   \* history: people whose invitation stopped half-way, or whose row was removed

orgVars == <<accounts, standing, founded, members, rows, desk, founder, orphans, withdrawn>>

OrgIds == 1..MaxOrgs
MemberRoles == {"OWNER", "MEMBER"}
NoRow == [id |-> 0, role |-> "none", status |-> "none"]
AtRest == [op |-> "none", org |-> 0, person |-> "nobody", role |-> "none", id |-> 0]

OrgTypeOK ==
    /\ accounts \in [People -> {"none", "placeholder", "registered"}]
    /\ rows \in 0..MaxRows /\ founded \in 0..MaxOrgs /\ standing \subseteq 1..founded
    /\ members \in [OrgIds -> [People -> {NoRow} \cup [id : 1..rows, role : MemberRoles, status : {"ACTIVE", "INVITED"}]]]
    /\ desk \in [Desks -> [op : {"none", "addFounder", "find", "addMember", "addUser", "addInvited", "setRole", "remove",
                                 "delete"},
                           org : 0..MaxOrgs, person : People \cup {"nobody"}, role : MemberRoles \cup {"none"}, id : 0..rows]]
    /\ founder \in [OrgIds -> People \cup {"nobody"}]
    /\ orphans \subseteq OrgIds /\ withdrawn \subseteq People

OrgInit ==
    /\ accounts = [p \in People |-> "none"]
    /\ standing = {} /\ founded = 0
    /\ members = [o \in OrgIds |-> [p \in People |-> NoRow]]
    /\ desk = [d \in Desks |-> AtRest]
    /\ founder = [o \in OrgIds |-> "nobody"] /\ orphans = {} /\ withdrawn = {}
    /\ rows = 0

\* Who calls for an organization is an active member of it.
HasCaller(o) == o \in 1..founded /\ \E p \in People : members[o][p].status = "ACTIVE"

Turn(d, op, o, p, role, id) == desk' = [desk EXCEPT ![d] = [op |-> op, org |-> o, person |-> p, role |-> role, id |-> id]]
Go(d, op) == desk' = [desk EXCEPT ![d].op = op]
Leave(d) == desk' = [desk EXCEPT ![d] = AtRest]
Does(d, op) == desk[d].op = op

\* An insert; the unique index refuses a second row of a person.
AddRow(d, role, status) ==
    LET o == desk[d].org
        p == desk[d].person
    IN  IF members[o][p] # NoRow THEN UNCHANGED <<members, rows>>
        ELSE /\ rows < MaxRows /\ rows' = rows + 1
             /\ members' = [members EXCEPT ![o][p] = [id |-> rows + 1, role |-> role, status |-> status]]

\* What a write by id does to the row of the call, if it is still there.
Holder(d, p) == members[desk[d].org][p].id = desk[d].id
RewriteRow(d, new) ==
    members' = [members EXCEPT ![desk[d].org] = [p \in People |-> IF Holder(d, p) THEN new[p] ELSE @[p]]]

-----------------------------------------------------------------------------
(* Accounts *)

\* Register refuses an address that has an account, also one made for an
\* invitation; then "User with this email already exists" is all there is.
Register(p) ==
    /\ accounts[p] = "none"
    /\ accounts' = [accounts EXCEPT ![p] = "registered"]
    /\ UNCHANGED <<standing, founded, members, desk, founder, orphans, withdrawn, rows>>

\* OAuth links the account it finds by its address; so does a reset link, which
\* is mailed to it.
TakeOver(p) ==
    /\ accounts[p] # "registered"
    /\ accounts' = [accounts EXCEPT ![p] = "registered"]
    /\ UNCHANGED <<standing, founded, members, desk, founder, orphans, withdrawn, rows>>

-----------------------------------------------------------------------------
(* Organizations *)

CreateOrg(d, p) ==
    /\ Does(d, "none") /\ founded < MaxOrgs /\ accounts[p] = "registered"
    /\ founded' = founded + 1 /\ standing' = standing \cup {founded + 1}
    /\ founder' = [founder EXCEPT ![founded + 1] = p]
    /\ Turn(d, "addFounder", founded + 1, p, "OWNER", 0)
    /\ UNCHANGED <<accounts, members, orphans, withdrawn, rows>>

AddFounder(d) ==
    /\ Does(d, "addFounder")
    /\ AddRow(d, "OWNER", "ACTIVE")
    /\ Leave(d)
    /\ UNCHANGED <<accounts, standing, founded, founder, orphans, withdrawn>>

\* findOne, then the delete, which throws if it is not the first. The rows of the
\* members stay.
DeleteOrg(d, o) ==
    /\ Does(d, "none") /\ HasCaller(o) /\ o \in standing
    /\ Turn(d, "delete", o, "nobody", "none", 0)
    /\ UNCHANGED <<accounts, standing, founded, members, founder, orphans, withdrawn, rows>>

RemoveOrg(d) ==
    /\ Does(d, "delete")
    /\ standing' = standing \ {desk[d].org}
    /\ Leave(d)
    /\ UNCHANGED <<accounts, founded, members, founder, orphans, withdrawn, rows>>

-----------------------------------------------------------------------------
(* Members *)

\* A person who has an account becomes an active member at once; another gets an
\* account in his name first.
Invite(d, o, p, role) ==
    /\ Does(d, "none") /\ HasCaller(o)
    /\ Turn(d, IF accounts[p] = "none" THEN "addUser" ELSE "find", o, p, role, 0)
    /\ UNCHANGED <<accounts, standing, founded, members, founder, orphans, withdrawn, rows>>

FindMember(d) ==
    /\ Does(d, "find")
    /\ IF members[desk[d].org][desk[d].person] = NoRow THEN Go(d, "addMember") ELSE Leave(d)
    /\ UNCHANGED <<accounts, standing, founded, members, founder, orphans, withdrawn, rows>>

\* Both inserts throw if somebody was faster.
AddMember(d) ==
    /\ Does(d, "addMember")
    /\ AddRow(d, desk[d].role, "ACTIVE")
    /\ Leave(d)
    /\ UNCHANGED <<accounts, standing, founded, founder, orphans, withdrawn>>

AddUser(d) ==
    /\ Does(d, "addUser")
    /\ IF accounts[desk[d].person] = "none"
       THEN accounts' = [accounts EXCEPT ![desk[d].person] = "placeholder"] /\ Go(d, "addInvited")
       ELSE Leave(d) /\ UNCHANGED accounts
    /\ UNCHANGED <<standing, founded, members, founder, orphans, withdrawn, rows>>

AddInvited(d) ==
    /\ Does(d, "addInvited")
    /\ AddRow(d, desk[d].role, "INVITED")
    /\ Leave(d)
    /\ UNCHANGED <<accounts, standing, founded, founder, orphans, withdrawn>>

\* Mutant: only the last owner is left alone.
Spared_LastOwner(o, p) == Cardinality({q \in People : members[o][q].role = "OWNER"}) = 1 /\ members[o][p].role = "OWNER"

\* "Cannot change owner role", "Cannot remove owner".
Spared(o, p) == members[o][p].role = "OWNER"

\* updateMemberRole and removeMember read the row and write it in another call.
FindRow(d, o, p, op, role) ==
    /\ Does(d, "none") /\ HasCaller(o) /\ members[o][p] # NoRow /\ ~Spared(o, p)
    /\ Turn(d, op, o, p, role, members[o][p].id)
    /\ UNCHANGED <<accounts, standing, founded, members, founder, orphans, withdrawn, rows>>

\* By then the row may be gone, and the write throws.
WriteRole(d) ==
    /\ Does(d, "setRole")
    /\ RewriteRow(d, [p \in People |-> [members[desk[d].org][p] EXCEPT !.role = desk[d].role]])
    /\ Leave(d)
    /\ UNCHANGED <<accounts, standing, founded, founder, orphans, withdrawn, rows>>

RemoveRow(d) ==
    /\ Does(d, "remove")
    /\ RewriteRow(d, [p \in People |-> NoRow])
    /\ Leave(d)
    /\ withdrawn' = withdrawn \cup {p \in People : Holder(d, p)}
    /\ UNCHANGED <<accounts, standing, founded, founder, orphans, rows>>

\* The next call fails, or the process stops.
Interrupt(d) ==
    /\ ~Does(d, "none")
    /\ orphans' = orphans \cup {o \in OrgIds : Does(d, "addFounder") /\ desk[d].org = o}
    /\ withdrawn' = withdrawn \cup {p \in People : Does(d, "addInvited") /\ desk[d].person = p}
    /\ Leave(d)
    /\ UNCHANGED <<accounts, standing, founded, members, founder, rows>>

OrgNext ==
    \/ \E p \in People : Register(p) \/ TakeOver(p)
    \/ \E d \in Desks :
        \/ \E p \in People : CreateOrg(d, p)
        \/ AddFounder(d) \/ RemoveOrg(d) \/ FindMember(d) \/ AddMember(d) \/ AddUser(d) \/ AddInvited(d)
        \/ WriteRole(d) \/ RemoveRow(d) \/ Interrupt(d)
        \/ \E o \in OrgIds :
            \/ DeleteOrg(d, o)
            \/ \E p \in People, role \in MemberRoles :
                \/ Invite(d, o, p, role)
                \/ FindRow(d, o, p, "setRole", role) \/ FindRow(d, o, p, "remove", "none")

OrgSpec == OrgInit /\ [][OrgNext]_orgVars

-----------------------------------------------------------------------------
(* Properties *)

\* Whoever created an organization stays its owner, whatever other owners do at
\* the same time: there is always somebody who may manage and delete it. Only an
\* organization whose creation stopped after its first write has nobody.
FounderStays ==
    \A o \in standing :
        \/ members[o][founder[o]].role = "OWNER" /\ members[o][founder[o]].status = "ACTIVE"
        \/ o \in orphans \/ \E d \in Desks : Does(d, "addFounder") /\ desk[d].org = o

\* An account nobody has registered belongs to an invitation, or to one that was
\* withdrawn or stopped half-way. (Nobody can register its address any more.)
PlaceholderHasCause ==
    \A p \in People : accounts[p] = "placeholder" =>
        \/ \E o \in OrgIds : members[o][p] # NoRow
        \/ p \in withdrawn \/ \E d \in Desks : Does(d, "addInvited") /\ desk[d].person = p
=============================================================================
