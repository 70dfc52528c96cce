------------------------------ MODULE Tenancy ------------------------------
(***************************************************************************)
(* Who may do what in which customer organization: the tables and triggers *)
(* of migrations 0004 to 0006, the API routes and the operator command     *)
(* line that write them.                                                   *)
(*                                                                         *)
(* One action is one committed transaction; a transaction the database     *)
(* refuses changes nothing and is no step.  How transactions interleave is *)
(* the subject of module OrgLocking.                                       *)
(*                                                                         *)
(* Time is relative.  Tick lets more than 24 hours pass, and an invitation *)
(* or a support grant carries the ticks it has left (0: expired), so the   *)
(* rolling 24 hours of the caps are the sends since the last Tick.         *)
(*                                                                         *)
(* Revoked memberships and closed invitations are not kept as rows: no     *)
(* rule reads them, except the caps (sent) and the trail (granted).        *)
(***************************************************************************)
EXTENDS Integers, FiniteSets, FiniteSetsExt

CONSTANTS
    Users,          \* people who may get an account
    Orgs,           \* rows of organizations
    OtherRoles,     \* contributor, budget_owner, authorized_approver: no rule tells them apart
    MaxOpen,        \* bound: open invitations at one time
    GrantIds,       \* bound: support grants not yet revoked at one time
    TTL,            \* 14 days, in ticks
    OrgCap, CallerCap, GlobalCap,  \* invitations per 24 hours
    Vendors,        \* bound: the people create-user is ever asked to make platform admin
    Changeable,     \* bound: the people whose flags an operator ever edits
    Stoppable,      \* bound: the organizations whose status ever changes
    Recovery        \* bound: does an operator ever revoke rows under a system_job reason

Roles == {"org_admin", "point_person"} \cup OtherRoles

Statuses == {"active", "suspended", "closed"}

ASSUME TTLAssumption == TTL \in Nat \ {0}
ASSUME CapsAssumption == {OrgCap, CallerCap, GlobalCap} \subseteq Nat
ASSUME PeopleAssumption == Vendors \subseteq Users /\ Changeable \subseteq Users
ASSUME StoppableAssumption == Stoppable \subseteq Orgs
ASSUME RecoveryAssumption == Recovery \in BOOLEAN

VARIABLES
    users,        \* users[u]: does the row exist, is_platform_admin, disabled_at set
    orgs,         \* orgs[o]: status, or "absent"
    memberships,  \* rows with revoked_at NULL
    invitations,  \* rows neither accepted, declined nor revoked, expired ones included
    grants,       \* support_access_grants rows with revoked_at NULL
    sent,         \* sent[o][u]: invitations u created or renewed for o in the last 24 hours
    granted,      \* audit_log: the (org, target_user_id, role) of every membership.grant
    vendors       \* audit_log: everybody a user.create or user.update made platform admin

vars == <<users, orgs, memberships, invitations, grants, sent, granted, vendors>>

User       == [known: BOOLEAN, vendor: BOOLEAN, disabled: BOOLEAN]
Membership == [org: Orgs, user: Users, role: Roles, by: Users]
Invitation == [org: Orgs, user: Users, role: Roles, by: Users, left: 0..TTL]
Grant      == [id: GrantIds, org: Orgs, support: Users, by: Users, left: 0..TTL]

-----------------------------------------------------------------------------
(* The questions the triggers ask. *)

Active(u) == users[u].known /\ ~users[u].disabled

PlatformAdmin(u) == Active(u) /\ users[u].vendor

Member(o, u, roles) ==
    /\ orgs[o] = "active"
    /\ Active(u) /\ ~users[u].vendor
    /\ \E m \in memberships : m.org = o /\ m.user = u /\ m.role \in roles

\* mutant: a point person may invite an org_admin
MayInviteTo_Either(r) == {"org_admin", "point_person"}

MayInviteTo(r) == IF r = "org_admin" THEN {"org_admin"} ELSE {"org_admin", "point_person"}

\* mutant: vendor staff may invite too
CanInvite_Vendor(o, by, r) == Member(o, by, MayInviteTo(r)) \/ PlatformAdmin(by)

CanInvite(o, by, r) == Member(o, by, MayInviteTo(r))

SupportAccess(o, u) ==
    /\ orgs[o] = "active" /\ PlatformAdmin(u)
    /\ \E g \in grants : g.org = o /\ g.support = u /\ g.left > 0

\* counts: the invitations of the last 24 hours (sent).
UnderCaps(counts, o, me) ==
    LET SentTo(org)   == MapThenSumSet(LAMBDA u : counts[org][u], Users)
        SentBy(u)     == MapThenSumSet(LAMBDA org : counts[org][u], Orgs)
    IN  /\ SentTo(o) < OrgCap
        /\ SentBy(me) < CallerCap
        /\ MapThenSumSet(SentTo, Orgs) < GlobalCap

InviteGate(me, o, r) == CanInvite(o, me, r) /\ UnderCaps(sent, o, me)

SameSlot(x, o, u, r) == x.org = o /\ x.user = u /\ x.role = r

Held(o, u, r) == \E m \in memberships : SameSlot(m, o, u, r)

\* mutant: the look-up of an open row forgets the expired ones
OpenFor_Unexpired(o, u, r) == {i \in invitations : SameSlot(i, o, u, r) /\ i.left > 0}

OpenFor(o, u, r) == {i \in invitations : SameSlot(i, o, u, r)}

\* What an AFTER INSERT trigger closes: the open, unexpired invitation of that
\* slot sent by the row's granted_by.
ClosedBy(m) == {i \in invitations : SameSlot(i, m.org, m.user, m.role) /\ i.by = m.by /\ i.left > 0}

AddMembership(m) ==
    /\ memberships' = memberships \cup {m}
    /\ invitations' = invitations \ ClosedBy(m)
    /\ granted' = granted \cup {<<m.org, m.user, m.role>>}
    /\ UNCHANGED <<users, orgs, grants, sent, vendors>>

-----------------------------------------------------------------------------
Nobody == [known |-> FALSE, vendor |-> FALSE, disabled |-> FALSE]

Init ==
    /\ users = [u \in Users |-> Nobody]
    /\ orgs = [o \in Orgs |-> "absent"]
    /\ memberships = {} /\ invitations = {} /\ grants = {}
    /\ sent = [o \in Orgs |-> [u \in Users |-> 0]]
    /\ granted = {} /\ vendors = {}

\* Another 24 hours and more.
Tick ==
    /\ invitations' = {[i EXCEPT !.left = IF @ > 0 THEN @ - 1 ELSE 0] : i \in invitations}
    /\ grants' = {[g EXCEPT !.left = IF @ > 0 THEN @ - 1 ELSE 0] : g \in grants}
    /\ sent' = [o \in Orgs |-> [u \in Users |-> 0]]
    /\ UNCHANGED <<users, orgs, memberships, granted, vendors>>

-----------------------------------------------------------------------------
(* Operators: the command line and SQL sessions of the privileged role. *)

\* create-user.  A platform admin after the first needs another as --as; since
\* one then exists, the requirement only decides who the trail names.
CreateUser(u, vendor) ==
    /\ ~users[u].known
    /\ vendor => u \in Vendors
    /\ users' = [users EXCEPT ![u] = [Nobody EXCEPT !.known = TRUE, !.vendor = vendor]]
    /\ vendors' = IF vendor THEN vendors \cup {u} ELSE vendors
    /\ UNCHANGED <<orgs, memberships, invitations, grants, sent, granted>>

\* Promotion, demotion, disabling, enabling: an UPDATE of users.
UpdateUser(u, vendor, disabled) ==
    /\ users[u].known
    /\ <<vendor, disabled>> # <<users[u].vendor, users[u].disabled>>
    /\ users' = [users EXCEPT ![u].vendor = vendor, ![u].disabled = disabled]
    /\ vendors' = IF vendor THEN vendors \cup {u} ELSE vendors
    /\ UNCHANGED <<orgs, memberships, invitations, grants, sent, granted>>

CreateOrg(me, o) ==
    /\ PlatformAdmin(me)
    /\ orgs[o] = "absent"
    /\ orgs' = [orgs EXCEPT ![o] = "active"]
    /\ UNCHANGED <<users, memberships, invitations, grants, sent, granted, vendors>>

SetOrgStatus(o, status) ==
    /\ orgs[o] \in Statuses \ {"closed", status}
    /\ orgs' = [orgs EXCEPT ![o] = status]
    /\ UNCHANGED <<users, memberships, invitations, grants, sent, granted, vendors>>

\* grant-org-admin, then the guard's second path with granted_by := me.
GrantOrgAdmin(me, o, u) ==
    /\ PlatformAdmin(me)
    /\ orgs[o] = "active"
    /\ Active(u) /\ ~users[u].vendor
    /\ ~Held(o, u, "org_admin")
    /\ AddMembership([org |-> o, user |-> u, role |-> "org_admin", by |-> me])

RecoveryRevokeMembership(m) ==
    /\ Recovery
    /\ memberships' = memberships \ {m}
    /\ UNCHANGED <<users, orgs, invitations, grants, sent, granted, vendors>>

RecoveryRevokeGrant(g) ==
    /\ Recovery
    /\ grants' = grants \ {g}
    /\ UNCHANGED <<users, orgs, memberships, invitations, sent, granted, vendors>>

-----------------------------------------------------------------------------
(* Customers: the API's requests. *)

NewInvitation(o, u, r, me) == [org |-> o, user |-> u, role |-> r, by |-> me, left |-> TTL]

\* invite_begin and invite_user in one transaction.  Somebody unknown gets an
\* account row; an expired open invitation is renewed in place; an unexpired
\* one is returned as it is, which is no step.
InviteUser(me, o, u, r) ==
    LET open == OpenFor(o, u, r)
    IN  /\ InviteGate(me, o, r)
        /\ u # me
        /\ \A i \in open : i.left = 0
        /\ Cardinality(invitations \ open) < MaxOpen
        /\ users' = [users EXCEPT ![u].known = TRUE]
        /\ invitations' = (invitations \ open) \cup {NewInvitation(o, u, r, me)}
        /\ sent' = [sent EXCEPT ![o][me] = @ + 1]
        /\ UNCHANGED <<orgs, memberships, grants, granted, vendors>>

\* mutant: accepting does not ask about the inviter again
InviterStillMay_Forgotten(i) == TRUE

InviterStillMay(i) == CanInvite(i.org, i.by, i.role)

\* The inviter's authority is asked again; a role already held is a
\* unique_violation, answered like an unknown invitation.
AcceptInvitation(i) ==
    /\ i.left > 0
    /\ orgs[i.org] = "active"
    /\ Active(i.user) /\ ~users[i.user].vendor
    /\ InviterStillMay(i)
    /\ ~Held(i.org, i.user, i.role)
    /\ AddMembership([org |-> i.org, user |-> i.user, role |-> i.role, by |-> i.by])

CloseInvitation(i) ==
    /\ invitations' = invitations \ {i}
    /\ UNCHANGED <<users, orgs, memberships, grants, sent, granted, vendors>>

DeclineInvitation(i) ==
    /\ i.left > 0
    /\ Active(i.user)
    /\ CloseInvitation(i)

RevokeInvitation(me, i) ==
    /\ \/ Member(i.org, me, {"org_admin"})
       \/ i.by = me /\ Member(i.org, me, {"org_admin", "point_person"})
    /\ CloseInvitation(i)

\* The rows of org_admin the last-admin rule counts: of people not disabled.
CountedAdmins(o) == {m \in memberships : m.org = o /\ m.role = "org_admin" /\ ~users[m.user].disabled}

\* mutant: the row being revoked counts as another admin
OtherAdmins_Itself(m) == CountedAdmins(m.org)

OtherAdmins(m) == CountedAdmins(m.org) \ {m}

RevokeMembership(me, m) ==
    /\ Member(m.org, me, {"org_admin"}) \/ (m.user = me /\ Active(me))
    /\ m.role = "org_admin" => OtherAdmins(m) # {}
    /\ memberships' = memberships \ {m}
    /\ UNCHANGED <<users, orgs, invitations, grants, sent, granted, vendors>>

\* mutant: anybody signed in consents
MayConsent_Anybody(me, o) == orgs[o] = "active" /\ Active(me)

MayConsent(me, o) == Member(o, me, {"org_admin"})

GrantSupportAccess(me, o, support, left) ==
    /\ MayConsent(me, o)
    /\ support # me
    /\ PlatformAdmin(support)
    /\ \E id \in GrantIds \ {g.id : g \in grants} :
          grants' = grants \cup
              {[id |-> id, org |-> o, support |-> support, by |-> me, left |-> left]}
    /\ UNCHANGED <<users, orgs, memberships, invitations, sent, granted, vendors>>

RevokeSupportAccess(me, g) ==
    /\ Member(g.org, me, {"org_admin"}) \/ (g.support = me /\ Active(me))
    /\ grants' = grants \ {g}
    /\ UNCHANGED <<users, orgs, memberships, invitations, sent, granted, vendors>>

-----------------------------------------------------------------------------
OperatorStep ==
    \/ \E u \in Users, vendor \in BOOLEAN : CreateUser(u, vendor)
    \/ \E u \in Changeable, vendor, disabled \in BOOLEAN : UpdateUser(u, vendor, disabled)
    \/ \E me \in Users, o \in Orgs : CreateOrg(me, o)
    \/ \E o \in Stoppable, status \in Statuses : SetOrgStatus(o, status)
    \/ \E me, u \in Users, o \in Orgs : GrantOrgAdmin(me, o, u)
    \/ \E m \in memberships : RecoveryRevokeMembership(m)
    \/ \E g \in grants : RecoveryRevokeGrant(g)

InvitationStep ==
    \/ \E me, u \in Users, o \in Orgs, r \in Roles : InviteUser(me, o, u, r)
    \/ \E i \in invitations : AcceptInvitation(i)
    \/ \E i \in invitations : DeclineInvitation(i)
    \/ \E me \in Users, i \in invitations : RevokeInvitation(me, i)

MemberStep ==
    \/ \E me \in Users, m \in memberships : RevokeMembership(me, m)
    \/ \E me, support \in Users, o \in Orgs, left \in 1..TTL : GrantSupportAccess(me, o, support, left)
    \/ \E me \in Users, g \in grants : RevokeSupportAccess(me, g)

Next == Tick \/ OperatorStep \/ InvitationStep \/ MemberStep

Spec == Init /\ [][Next]_vars

-----------------------------------------------------------------------------
(* Properties. *)

\* Every table holds rows of its type.
TypeOK ==
    /\ users \in [Users -> User]
    /\ orgs \in [Orgs -> Statuses \cup {"absent"}]
    /\ memberships \subseteq Membership
    /\ invitations \subseteq Invitation
    /\ grants \subseteq Grant
    /\ sent \in [Orgs -> [Users -> Nat]]
    /\ granted \subseteq Orgs \X Users \X Roles
    /\ vendors \subseteq Users

\* The unique indexes never have to refuse what the functions write: one open
\* invitation and one membership per (org, person, role), renewals, privileged
\* grants and re-entries included (0006:41-45 and 257-307, 0005:108-109).
OneRowPerSlot ==
    /\ \A m, n \in memberships : SameSlot(m, n.org, n.user, n.role) => m = n
    /\ \A i, j \in invitations : SameSlot(i, j.org, j.user, j.role) => i = j

\* by had, at some time, the authority to hand out role r of org o.
Trusted(by, o, r) ==
    \/ by \in vendors /\ r = "org_admin"
    \/ <<o, by, "org_admin">> \in granted
    \/ r # "org_admin" /\ <<o, by, "point_person">> \in granted

\* No escalation: whoever stands behind a membership or an invitation was once
\* made, in that organization, admin (or point person, for the lesser roles),
\* or is a platform admin naming an org_admin; nobody stands behind their own.
\* The trail therefore leads from every role back to an operator.
TrustChain ==
    /\ \A m \in memberships : m.by # m.user /\ Trusted(m.by, m.org, m.role)
    /\ \A i \in invitations : i.by # i.user /\ Trusted(i.by, i.org, i.role)

\* Every role anybody ever received in an organization came after somebody was
\* made its admin: an org without a first org_admin has no people at all.
AdminCameFirst ==
    \A o \in Orgs :
        (\E u \in Users, r \in Roles : <<o, u, r>> \in granted)
            => \E u \in Users : <<o, u, "org_admin">> \in granted

\* Both: authority comes down from the organization's own admins, and they from
\* an operator, whatever was renewed, re-entered, promoted or disabled since
\* (0006:149-155).
AuthorityDescends == TrustChain /\ AdminCameFirst

\* Vendor staff reach a customer only through the consent of somebody that
\* customer's organization had as admin, never their own, and for 14 days.
SupportByConsent ==
    \A o \in Orgs, u \in Users :
        SupportAccess(o, u) =>
            \E g \in grants :
                /\ g.org = o /\ g.support = u /\ g.by # u
                /\ g.left \in 1..TTL
                /\ <<o, g.by, "org_admin">> \in granted

\* A role appears only with the person's consent to an open, unexpired
\* invitation whose sender may still hand it out at that moment, or as
\* org_admin from an active platform admin to a customer, in an active org.
JoinedByConsent ==
    [][\A m \in memberships' \ memberships :
          /\ orgs[m.org] = "active" /\ Active(m.user) /\ ~users[m.user].vendor
          /\ \/ /\ \E i \in invitations \ invitations' :
                      SameSlot(i, m.org, m.user, m.role) /\ i.left > 0 /\ i.by = m.by
                /\ CanInvite(m.org, m.by, m.role)
             \/ m.role = "org_admin" /\ PlatformAdmin(m.by)]_vars

\* While nobody's account changes, an organization that has an enabled admin
\* keeps one (0006:453-462); Recovery is off in the runs of this property.
LastAdminKept ==
    [][\A o \in Orgs : users' = users /\ CountedAdmins(o) # {} => CountedAdmins(o)' # {}]_vars

ActiveAdmins(o) == {u \in Users : Member(o, u, {"org_admin"})}

\* The rule as its refusal words it (0006:460), "an organization must keep at
\* least one active admin", taking active as app_is_member does.
ActiveAdminKept ==
    [][\A o \in Orgs :
          users' = users /\ orgs' = orgs /\ ActiveAdmins(o) # {} => ActiveAdmins(o)' # {}]_vars
=============================================================================
