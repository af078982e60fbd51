---------------------------- MODULE HostedAccounts ----------------------------
(***************************************************************************)
(* Accounts of the hosted API: users, one organization and its             *)
(* memberships, as the webhooks of the identity provider (Clerk) write     *)
(* them.  The provider is external: it delivers every event at least once, *)
(* in any order, and again until it was answered without an error.         *)
(*                                                                         *)
(* Sources: applyWebhook and the handlers below it in clerk.ts, for        *)
(* Postgres, and applyClerkWebhook of worker.ts, for D1.  Invitations,     *)
(* seats and the e-mail address are left out.                              *)
(***************************************************************************)
EXTENDS Naturals, FiniteSets

CONSTANTS
    Users,
    Roles,
    MaxEvents   \* bound: events the provider issues

ASSUME MaxEventsAssumption == MaxEvents \in Nat

VARIABLES
    store,          \* "postgres" or "d1"
    log,            \* events issued, numbered by their time
    membership,     \* of every user, as the provider has it
    organization,   \* the row of the organizations table
    known,          \* users with a row in the users table
    members,        \* the memberships table
    checked,        \* D1: deliveries between the look-up and the batch
    processed       \* webhook_events with processed_at

accountTables == <<organization, known, members>>
accountVars   == <<store, log, membership, accountTables, checked, processed>>

None == "none"

ASSUME NoneAssumption == None \notin Users \cup Roles

MembershipTypes ==
    {"organizationMembership.created", "organizationMembership.updated",
     "organizationMembership.deleted"}
Types == MembershipTypes \cup
    {"organization.created", "organization.deleted", "user.created", "user.deleted"}

Event == [type : Types, user : Users \cup {None}, role : Roles \cup {None}, seq : 1 .. MaxEvents]
Row   == [state : {None, "active", "revoked"}, role : Roles \cup {None}, seq : 0 .. MaxEvents]
NoRow == [state |-> None, role |-> None, seq |-> 0]

AccountInit ==
    /\ store \in {"postgres", "d1"}
    /\ log = {}
    /\ membership = [u \in Users |-> None]
    /\ organization = NoRow
    /\ known = {}
    /\ members = [u \in Users |-> NoRow]
    /\ checked = {}
    /\ processed = {}
-----------------------------------------------------------------------------
(***************************************************************************)
(* The provider.                                                           *)
(***************************************************************************)

Has(type, u) == \E e \in log : e.type = type /\ e.user = u

Issue(type, u, role) ==
    /\ Cardinality(log) < MaxEvents
    /\ log' = log \cup {[type |-> type, user |-> u, role |-> role,
                         seq |-> Cardinality(log) + 1]}
    /\ UNCHANGED <<store, accountTables, checked, processed>>

CreateOrganization ==
    /\ ~Has("organization.created", None)
    /\ Issue("organization.created", None, None)
    /\ UNCHANGED membership

OrganizationLives ==
    Has("organization.created", None) /\ ~Has("organization.deleted", None)

DropOrganization ==
    /\ OrganizationLives
    /\ membership' = [u \in Users |-> None]
    /\ Issue("organization.deleted", None, None)

CreateUser(u) ==
    /\ ~Has("user.created", u)
    /\ Issue("user.created", u, None)
    /\ UNCHANGED membership

UserLives(u) == Has("user.created", u) /\ ~Has("user.deleted", u)

DropUser(u) ==
    /\ UserLives(u)
    /\ membership' = [membership EXCEPT ![u] = None]
    /\ Issue("user.deleted", u, None)

SetMembership(u, role) ==
    /\ OrganizationLives /\ UserLives(u)
    /\ membership' = [membership EXCEPT ![u] = role]
    /\ Issue(IF membership[u] = None THEN "organizationMembership.created"
             ELSE "organizationMembership.updated", u, role)

\* The event of a deletion names the user and the role that ended.
DropMembership(u) ==
    /\ membership[u] # None
    /\ membership' = [membership EXCEPT ![u] = None]
    /\ Issue("organizationMembership.deleted", u, membership[u])

Provider ==
    \/ CreateOrganization \/ DropOrganization
    \/ \E u \in Users :
          \/ CreateUser(u) \/ DropUser(u) \/ DropMembership(u)
          \/ \E role \in Roles : SetMembership(u, role)
-----------------------------------------------------------------------------
(***************************************************************************)
(* applyClerkEvent: one transaction with the webhook_events row.  Every    *)
(* statement compares clerk_updated_at with the time of the event.         *)
(***************************************************************************)

\* Mutant: events are applied as they come.
IsCurrentAlways(row, e) == TRUE

IsCurrent(row, e) == row.seq <= e.seq

State(e) == IF e.type = "organizationMembership.deleted" THEN "revoked" ELSE "active"

Stored(e) == [state |-> State(e), role |-> e.role, seq |-> e.seq]

\* upsertMembership and revokeMembership throw if the organization or the user
\* is not synchronized; the provider tries again.
Synchronized(e) ==
    e.type \in MembershipTypes => organization.state # None /\ e.user \in known

ApplyOrganization(e) ==
    organization' =
        IF ~IsCurrent(organization, e) THEN organization
        ELSE CASE e.type = "organization.created" ->
                    [organization EXCEPT !.seq = e.seq,
                                         !.state = IF @ = None THEN "active" ELSE @]
               [] e.type = "organization.deleted" /\ organization.state # None ->
                    [organization EXCEPT !.seq = e.seq, !.state = "revoked"]
               [] OTHER -> organization

\* revokeUser touches the memberships the user has by now.
ApplyMembers(e) ==
    members' =
        IF e.user = None \/ ~IsCurrent(members[e.user], e) THEN members
        ELSE CASE e.type \in MembershipTypes -> [members EXCEPT ![e.user] = Stored(e)]
               [] e.type = "user.deleted" /\ members[e.user].state # None ->
                    [members EXCEPT ![e.user].state = "revoked", ![e.user].seq = e.seq]
               [] OTHER -> members

ApplyWebhook(e) ==
    /\ store = "postgres"
    /\ e \notin processed
    /\ Synchronized(e)
    /\ ApplyOrganization(e)
    /\ ApplyMembers(e)
    /\ known' = IF e.type = "user.created" THEN known \cup {e.user} ELSE known
    /\ processed' = processed \cup {e}
    /\ UNCHANGED <<store, log, membership, checked>>
-----------------------------------------------------------------------------
(***************************************************************************)
(* applyClerkWebhook on D1: a look-up, then a batch without any order, in  *)
(* which a membership of an unknown user or organization inserts nothing   *)
(* and the deletion of a user or an organization is ignored.               *)
(***************************************************************************)

CheckWebhook(e) ==
    /\ store = "d1"
    /\ e \notin processed \cup checked
    /\ checked' = checked \cup {e}
    /\ UNCHANGED <<store, log, membership, accountTables, processed>>

\* The batch; a duplicate that passed the look-up before may still follow.
ApplyClerkWebhook(e, again) ==
    /\ e \in checked
    /\ organization' = IF e.type = "organization.created" /\ organization.state = None
                       THEN [NoRow EXCEPT !.state = "active"] ELSE organization
    /\ known' = IF e.type = "user.created" THEN known \cup {e.user} ELSE known
    /\ members' = IF e.type \in MembershipTypes /\ Synchronized(e)
                  THEN [members EXCEPT ![e.user] = Stored(e)] ELSE members
    /\ processed' = processed \cup {e}
    /\ checked' = IF again THEN checked ELSE checked \ {e}
    /\ UNCHANGED <<store, log, membership>>

AccountNext ==
    \/ Provider
    \/ \E e \in log : ApplyWebhook(e) \/ CheckWebhook(e)
    \/ \E e \in checked, again \in BOOLEAN : ApplyClerkWebhook(e, again)

AccountSpec == AccountInit /\ [][AccountNext]_accountVars
-----------------------------------------------------------------------------
AccountTypeOK ==
    /\ store \in {"postgres", "d1"}
    /\ log \subseteq Event
    /\ membership \in [Users -> Roles \cup {None}]
    /\ organization \in Row
    /\ known \subseteq Users
    /\ members \in [Users -> Row]
    /\ checked \subseteq log
    /\ processed \subseteq log

\* Who is let in: resolveSession.
MayEnter(u) == organization.state = "active" /\ members[u].state = "active"

\* "keeps revocation across out-of-order events": no event that is older than
\* a revocation lets the user in again.
RevocationIsKept ==
    \A u \in Users, e \in processed :
        /\ e.type = "organizationMembership.deleted" /\ e.user = u
        /\ \A f \in log : f.user = u => f.seq <= e.seq
        => ~MayEnter(u)

(***************************************************************************)
(* On Postgres, revocations are kept, and once every event has been        *)
(* processed, in whatever order, the table agrees with the provider:       *)
(* nobody who was removed is let in, nobody who belongs is kept out, and   *)
(* the role is the last one given.  (Convergence is stated of users and    *)
(* organizations that were not deleted outright: see the README.)          *)
(***************************************************************************)
MembershipConverges ==
    store = "postgres" =>
        /\ RevocationIsKept
        /\ processed = log =>
             \A u \in Users :
                OrganizationLives /\ ~Has("user.deleted", u) =>
                    /\ MayEnter(u) <=> membership[u] # None
                    /\ MayEnter(u) => members[u].role = membership[u]
=============================================================================
