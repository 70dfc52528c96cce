--------------------------- MODULE TenancyProofs ---------------------------
(***************************************************************************)
(* What holds of module Tenancy for every set of people, organizations and *)
(* roles, every cap and every expiry, proved by TLAPS.                     *)
(***************************************************************************)
EXTENDS Tenancy, TLAPS

\* One more day leaves a row what it was, with less time.
Aged(S) == {[x EXCEPT !.left = IF @ > 0 THEN @ - 1 ELSE 0] : x \in S}

\* Ageing keeps the type of the rows that carry a time.
LEMMA AgedTyped ==
    /\ \A S \in SUBSET Invitation : Aged(S) \subseteq Invitation
    /\ \A S \in SUBSET Grant : Aged(S) \subseteq Grant
BY TTLAssumption DEF Aged, Invitation, Grant

\* What AddMembership writes, read off its definition once.
LEMMA AddMembershipTyped ==
    ASSUME TypeOK, NEW m \in Membership, AddMembership(m)
    PROVE  TypeOK'
BY DEF TypeOK, AddMembership, ClosedBy, Membership

\* Every table holds rows of its type, whatever the transactions.
THEOREM TypeCorrect == Spec => []TypeOK
<1>1. Init => TypeOK
  BY DEF Init, TypeOK, User, Nobody
<1>2. TypeOK /\ [Next]_vars => TypeOK'
  <2> SUFFICES ASSUME TypeOK, [Next]_vars PROVE TypeOK'
    OBVIOUS
  <2>1. CASE Tick
    <3>1. invitations' \subseteq Invitation /\ grants' \subseteq Grant
      BY <2>1, AgedTyped DEF Tick, Aged, TypeOK
    <3> QED
      BY <2>1, <3>1 DEF Tick, TypeOK
  <2>2. CASE OperatorStep
    <3>1. ASSUME NEW u \in Users, NEW vendor \in BOOLEAN, CreateUser(u, vendor) PROVE TypeOK'
      BY <3>1 DEF CreateUser, TypeOK, User, Nobody
    <3>2. ASSUME NEW u \in Changeable, NEW vendor \in BOOLEAN, NEW disabled \in BOOLEAN,
                 UpdateUser(u, vendor, disabled)
          PROVE TypeOK'
      BY <3>2, PeopleAssumption DEF UpdateUser, TypeOK, User
    <3>3. ASSUME NEW me \in Users, NEW o \in Orgs, CreateOrg(me, o) PROVE TypeOK'
      BY <3>3 DEF CreateOrg, TypeOK, Statuses
    <3>4. ASSUME NEW o \in Stoppable, NEW status \in Statuses, SetOrgStatus(o, status) PROVE TypeOK'
      BY <3>4, StoppableAssumption DEF SetOrgStatus, TypeOK
    <3>5. ASSUME NEW me \in Users, NEW u \in Users, NEW o \in Orgs, GrantOrgAdmin(me, o, u) PROVE TypeOK'
      BY <3>5, AddMembershipTyped DEF GrantOrgAdmin, Membership, Roles
    <3>6. ASSUME NEW m \in memberships, RecoveryRevokeMembership(m) PROVE TypeOK'
      BY <3>6 DEF RecoveryRevokeMembership, TypeOK
    <3>7. ASSUME NEW g \in grants, RecoveryRevokeGrant(g) PROVE TypeOK'
      BY <3>7 DEF RecoveryRevokeGrant, TypeOK
    <3> QED
      BY <2>2, <3>1, <3>2, <3>3, <3>4, <3>5, <3>6, <3>7 DEF OperatorStep
  <2>3. CASE InvitationStep
    <3>1. ASSUME NEW me \in Users, NEW u \in Users, NEW o \in Orgs, NEW r \in Roles, InviteUser(me, o, u, r)
          PROVE TypeOK'
      <4>1. NewInvitation(o, u, r, me) \in Invitation
        BY TTLAssumption DEF NewInvitation, Invitation
      <4>2. users' \in [Users -> User]
        BY <3>1 DEF InviteUser, TypeOK, User
      <4>3. sent' \in [Orgs -> [Users -> Nat]]
        BY <3>1 DEF InviteUser, TypeOK
      <4> QED
        BY <3>1, <4>1, <4>2, <4>3 DEF InviteUser, TypeOK
    <3>2. ASSUME NEW i \in invitations, AcceptInvitation(i) PROVE TypeOK'
      <4>1. [org |-> i.org, user |-> i.user, role |-> i.role, by |-> i.by] \in Membership
        BY DEF TypeOK, Invitation, Membership
      <4> QED
        BY <3>2, <4>1, AddMembershipTyped DEF AcceptInvitation
    <3>3. ASSUME NEW i \in invitations, CloseInvitation(i) PROVE TypeOK'
      BY <3>3 DEF CloseInvitation, TypeOK
    <3> QED
      BY <2>3, <3>1, <3>2, <3>3 DEF InvitationStep, DeclineInvitation, RevokeInvitation
  <2>4. CASE MemberStep
    <3>1. ASSUME NEW me \in Users, NEW m \in memberships, RevokeMembership(me, m) PROVE TypeOK'
      BY <3>1 DEF RevokeMembership, TypeOK
    <3>2. ASSUME NEW me \in Users, NEW support \in Users, NEW o \in Orgs, NEW left \in 1..TTL,
                 GrantSupportAccess(me, o, support, left)
          PROVE TypeOK'
      <4>1. PICK id \in GrantIds : grants' = grants \cup
              {[id |-> id, org |-> o, support |-> support, by |-> me, left |-> left]}
        BY <3>2 DEF GrantSupportAccess
      <4>2. grants' \subseteq Grant
        BY <4>1, TTLAssumption DEF TypeOK, Grant
      <4> QED
        BY <3>2, <4>2 DEF GrantSupportAccess, TypeOK
    <3>3. ASSUME NEW me \in Users, NEW g \in grants, RevokeSupportAccess(me, g) PROVE TypeOK'
      BY <3>3 DEF RevokeSupportAccess, TypeOK
    <3> QED
      BY <2>4, <3>1, <3>2, <3>3 DEF MemberStep
  <2>5. CASE UNCHANGED vars
    BY <2>5 DEF vars, TypeOK
  <2> QED
    BY <2>1, <2>2, <2>3, <2>4, <2>5 DEF Next
<1> QED
  BY <1>1, <1>2, PTL DEF Spec

-----------------------------------------------------------------------------
(* What a step can do to the rows that carry trust, action by action. *)

MembershipSource(m) ==
    /\ <<m.org, m.user, m.role>> \in granted'
    /\ orgs[m.org] = "active" /\ Active(m.user) /\ ~users[m.user].vendor
    /\ \/ /\ \E i \in invitations \ invitations' :
                SameSlot(i, m.org, m.user, m.role) /\ i.left > 0 /\ i.by = m.by
          /\ CanInvite(m.org, m.by, m.role)
       \/ m.role = "org_admin" /\ PlatformAdmin(m.by)

InvitationSource(j) ==
    \/ \E i \in invitations : SameSlot(i, j.org, j.user, j.role) /\ i.by = j.by
    \/ CanInvite(j.org, j.by, j.role) /\ j.by # j.user

GrantSource(h) ==
    \/ \E g \in grants : g.org = h.org /\ g.support = h.support /\ g.by = h.by
    \/ Member(h.org, h.by, {"org_admin"}) /\ h.by # h.support

Sources ==
    /\ granted \subseteq granted' /\ vendors \subseteq vendors'
    /\ \A u \in Users : users'[u].vendor => users[u].vendor \/ u \in vendors'
    /\ \A m \in memberships' \ memberships : MembershipSource(m)
    /\ \A t \in granted' \ granted : \E m \in memberships' : t = <<m.org, m.user, m.role>>
    /\ \A j \in invitations' : InvitationSource(j)
    /\ \A h \in grants' : GrantSource(h)

\* A step that leaves the trust-bearing tables alone or only deletes from them
\* has nothing to account for.
LEMMA ShrinkingSources ==
    ASSUME granted' = granted, vendors \subseteq vendors',
           \A u \in Users : users'[u].vendor => users[u].vendor \/ u \in vendors',
           memberships' \subseteq memberships,
           invitations' \subseteq invitations,
           grants' \subseteq grants
    PROVE  Sources
BY DEF Sources, InvitationSource, GrantSource, SameSlot

\* Ageing a row leaves its slot and its sender.
LEMMA AgedSources ==
    /\ \A S \in SUBSET Invitation : \A j \in Aged(S) :
          \E i \in S : SameSlot(i, j.org, j.user, j.role) /\ i.by = j.by
    /\ \A S \in SUBSET Grant : \A h \in Aged(S) :
          \E g \in S : g.org = h.org /\ g.support = h.support /\ g.by = h.by
BY DEF Aged, Invitation, Grant, SameSlot

LEMMA AddMembershipSources ==
    ASSUME TypeOK, NEW m \in Membership, AddMembership(m), MembershipSource(m)
    PROVE  Sources
<1>1. \A n \in memberships' \ memberships : MembershipSource(n)
  BY DEF AddMembership
<1>2. \A t \in granted' \ granted : \E n \in memberships' : t = <<n.org, n.user, n.role>>
  BY DEF AddMembership
<1>3. \A j \in invitations' : InvitationSource(j)
  BY DEF AddMembership, InvitationSource, SameSlot
<1>4. \A h \in grants' : GrantSource(h)
  BY DEF AddMembership, GrantSource
<1> QED
  BY <1>1, <1>2, <1>3, <1>4 DEF AddMembership, Sources

\* Every new row, and every new line of the trail, has one of the sources.
LEMMA StepSources ==
    ASSUME TypeOK, [Next]_vars
    PROVE  Sources
<1>1. CASE Tick
  <2>1. invitations' = Aged(invitations) /\ grants' = Aged(grants)
    BY <1>1 DEF Tick, Aged
  <2>2. (\A j \in invitations' : InvitationSource(j)) /\ (\A h \in grants' : GrantSource(h))
    BY <2>1, AgedSources DEF TypeOK, InvitationSource, GrantSource
  <2> QED
    BY <1>1, <2>2 DEF Tick, Sources
<1>2. CASE OperatorStep
  <2>1. ASSUME NEW u \in Users, NEW vendor \in BOOLEAN, CreateUser(u, vendor) PROVE Sources
    <3>1. \A w \in Users : users'[w].vendor => users[w].vendor \/ w \in vendors'
      BY <2>1 DEF CreateUser, TypeOK, User, Nobody
    <3> QED
      BY <2>1, <3>1, ShrinkingSources DEF CreateUser
  <2>2. ASSUME NEW u \in Changeable, NEW vendor \in BOOLEAN, NEW disabled \in BOOLEAN,
               UpdateUser(u, vendor, disabled)
        PROVE Sources
    <3>1. \A w \in Users : users'[w].vendor => users[w].vendor \/ w \in vendors'
      BY <2>2, PeopleAssumption DEF UpdateUser, TypeOK, User
    <3> QED
      BY <2>2, <3>1, ShrinkingSources DEF UpdateUser
  <2>3. ASSUME NEW me \in Users, NEW u \in Users, NEW o \in Orgs, GrantOrgAdmin(me, o, u) PROVE Sources
    <3> DEFINE m == [org |-> o, user |-> u, role |-> "org_admin", by |-> me]
    <3>1. m \in Membership /\ AddMembership(m)
      BY <2>3 DEF GrantOrgAdmin, Membership, Roles
    <3>2. MembershipSource(m)
      BY <2>3 DEF GrantOrgAdmin, AddMembership, MembershipSource
    <3> QED
      BY <3>1, <3>2, AddMembershipSources
  <2> QED
    BY <1>2, <2>1, <2>2, <2>3, ShrinkingSources
       DEF OperatorStep, CreateOrg, SetOrgStatus, RecoveryRevokeMembership, RecoveryRevokeGrant
<1>3. CASE InvitationStep
  <2>1. ASSUME NEW me \in Users, NEW u \in Users, NEW o \in Orgs, NEW r \in Roles, InviteUser(me, o, u, r)
        PROVE Sources
    <3> DEFINE new == NewInvitation(o, u, r, me)
    <3>1. invitations' \subseteq invitations \cup {new}
      BY <2>1 DEF InviteUser
    <3>2. InvitationSource(new)
      BY <2>1 DEF InviteUser, InviteGate, InvitationSource, NewInvitation
    <3>3. \A j \in invitations' : InvitationSource(j)
      BY <3>1, <3>2 DEF InvitationSource, SameSlot
    <3>4. \A w \in Users : users'[w].vendor => users[w].vendor
      BY <2>1 DEF InviteUser, TypeOK, User
    <3> QED
      BY <2>1, <3>3, <3>4 DEF InviteUser, Sources, GrantSource
  <2>2. ASSUME NEW i \in invitations, AcceptInvitation(i) PROVE Sources
    <3> DEFINE m == [org |-> i.org, user |-> i.user, role |-> i.role, by |-> i.by]
    <3>1. m \in Membership /\ AddMembership(m)
      BY <2>2 DEF AcceptInvitation, TypeOK, Invitation, Membership
    <3>2. i \in invitations \ invitations'
      BY <2>2, <3>1 DEF AcceptInvitation, AddMembership, ClosedBy, SameSlot
    <3>3. MembershipSource(m)
      BY <2>2, <3>1, <3>2 DEF AcceptInvitation, AddMembership, InviterStillMay, MembershipSource, SameSlot
    <3> QED
      BY <3>1, <3>3, AddMembershipSources
  <2> QED
    BY <1>3, <2>1, <2>2, ShrinkingSources
       DEF InvitationStep, DeclineInvitation, RevokeInvitation, CloseInvitation
<1>4. CASE MemberStep
  <2>1. ASSUME NEW me \in Users, NEW support \in Users, NEW o \in Orgs, NEW left \in 1..TTL,
               GrantSupportAccess(me, o, support, left)
        PROVE Sources
    <3>1. PICK id \in GrantIds : grants' = grants \cup
            {[id |-> id, org |-> o, support |-> support, by |-> me, left |-> left]}
      BY <2>1 DEF GrantSupportAccess
    <3>2. \A h \in grants' : GrantSource(h)
      BY <2>1, <3>1 DEF GrantSupportAccess, MayConsent, GrantSource
    <3> QED
      BY <2>1, <3>2 DEF GrantSupportAccess, Sources, InvitationSource, SameSlot
  <2> QED
    BY <1>4, <2>1, ShrinkingSources DEF MemberStep, RevokeMembership, RevokeSupportAccess
<1>5. CASE UNCHANGED vars
  BY <1>5, ShrinkingSources DEF vars
<1> QED
  BY <1>1, <1>2, <1>3, <1>4, <1>5 DEF Next

-----------------------------------------------------------------------------
(* The trail is complete: every live row that carries trust is in it.  This *)
(* is the strengthening that makes the trust properties inductive.          *)

TrailComplete ==
    /\ \A m \in memberships : <<m.org, m.user, m.role>> \in granted
    /\ \A u \in Users : users[u].vendor => u \in vendors
    /\ \A g \in grants : g.by # g.support /\ <<g.org, g.by, "org_admin">> \in granted

TrustInv == TypeOK /\ TrailComplete /\ TrustChain /\ AdminCameFirst

\* Who may invite is somebody the trail knows with that authority.
LEMMA InvitersAreTrusted ==
    ASSUME TypeOK, TrailComplete, NEW o \in Orgs, NEW by \in Users, NEW r \in Roles, CanInvite(o, by, r)
    PROVE  Trusted(by, o, r) /\ \E s \in Roles : <<o, by, s>> \in granted
<1>1. PICK m \in memberships : m.org = o /\ m.user = by /\ m.role \in MayInviteTo(r)
  BY DEF CanInvite, Member
<1>2. <<o, by, m.role>> \in granted
  BY <1>1 DEF TrailComplete
<1>3. r = "org_admin" => m.role = "org_admin"
  BY <1>1 DEF MayInviteTo
<1>4. m.role \in {"org_admin", "point_person"}
  BY <1>1 DEF MayInviteTo
<1> QED
  BY <1>2, <1>3, <1>4 DEF Trusted, Roles

LEMMA TrustInductive ==
    ASSUME TrustInv, TypeOK', [Next]_vars
    PROVE  TrustInv'
<1>1. Sources
  BY StepSources DEF TrustInv
<1>2. TypeOK /\ TrailComplete /\ TrustChain /\ AdminCameFirst
  BY DEF TrustInv
<1>3. \A by \in Users, o \in Orgs, r \in Roles : Trusted(by, o, r) => Trusted(by, o, r)'
  BY <1>1 DEF Sources, Trusted
<1>4. \A o \in Orgs, by \in Users, r \in Roles : CanInvite(o, by, r) => Trusted(by, o, r)'
  BY <1>2, <1>3, InvitersAreTrusted
<1>5. TrailComplete'
  <2>1. \A m \in memberships' : <<m.org, m.user, m.role>> \in granted'
    BY <1>1, <1>2 DEF Sources, MembershipSource, TrailComplete
  <2>2. \A u \in Users : users'[u].vendor => u \in vendors'
    BY <1>1, <1>2 DEF Sources, TrailComplete
  <2>3. ASSUME NEW h \in grants'
        PROVE  h.by # h.support /\ <<h.org, h.by, "org_admin">> \in granted'
    <3>1. CASE \E g \in grants : g.org = h.org /\ g.support = h.support /\ g.by = h.by
      BY <3>1, <1>1, <1>2 DEF Sources, TrailComplete
    <3>2. CASE Member(h.org, h.by, {"org_admin"}) /\ h.by # h.support
      BY <3>2, <1>1, <1>2 DEF Sources, TrailComplete, Member
    <3> QED
      BY <3>1, <3>2, <1>1 DEF Sources, GrantSource
  <2> QED
    BY <2>1, <2>2, <2>3 DEF TrailComplete
<1>6. \A j \in invitations' : j.by # j.user /\ Trusted(j.by, j.org, j.role)'
  <2> SUFFICES ASSUME NEW j \in invitations' PROVE j.by # j.user /\ Trusted(j.by, j.org, j.role)'
    OBVIOUS
  <2>1. j.org \in Orgs /\ j.by \in Users /\ j.role \in Roles
    BY DEF TypeOK, Invitation
  <2>2. CASE \E i \in invitations : SameSlot(i, j.org, j.user, j.role) /\ i.by = j.by
    BY <2>1, <2>2, <1>2, <1>3 DEF TrustChain, SameSlot
  <2>3. CASE CanInvite(j.org, j.by, j.role) /\ j.by # j.user
    BY <2>1, <2>3, <1>4
  <2> QED
    BY <2>2, <2>3, <1>1 DEF Sources, InvitationSource
<1>7. \A m \in memberships' : m.by # m.user /\ Trusted(m.by, m.org, m.role)'
  <2> SUFFICES ASSUME NEW m \in memberships' PROVE m.by # m.user /\ Trusted(m.by, m.org, m.role)'
    OBVIOUS
  <2>1. m.org \in Orgs /\ m.user \in Users /\ m.by \in Users /\ m.role \in Roles
    BY DEF TypeOK, Membership
  <2>2. CASE m \in memberships
    BY <2>1, <2>2, <1>2, <1>3 DEF TrustChain
  <2>3. CASE m \notin memberships
    <3>1. MembershipSource(m)
      BY <2>3, <1>1 DEF Sources
    <3>2. CASE m.role = "org_admin" /\ PlatformAdmin(m.by)
      <4>1. m.by # m.user
        BY <3>1, <3>2 DEF MembershipSource, PlatformAdmin
      <4>2. m.by \in vendors'
        BY <3>2, <2>1, <1>1, <1>2 DEF PlatformAdmin, TrailComplete, Sources
      <4> QED
        BY <4>1, <4>2, <3>2 DEF Trusted
    <3>3. CASE /\ \E i \in invitations \ invitations' :
                     SameSlot(i, m.org, m.user, m.role) /\ i.left > 0 /\ i.by = m.by
               /\ CanInvite(m.org, m.by, m.role)
      BY <3>3, <2>1, <1>2, <1>4 DEF TrustChain, SameSlot
    <3> QED
      BY <3>1, <3>2, <3>3 DEF MembershipSource
  <2> QED
    BY <2>2, <2>3
<1>8. AdminCameFirst'
  <2> SUFFICES ASSUME NEW o \in Orgs, NEW u \in Users, NEW r \in Roles, <<o, u, r>> \in granted'
               PROVE  \E w \in Users : <<o, w, "org_admin">> \in granted'
    BY DEF AdminCameFirst
  <2>1. CASE <<o, u, r>> \in granted
    BY <2>1, <1>1, <1>2 DEF AdminCameFirst, Sources
  <2>2. CASE <<o, u, r>> \notin granted
    <3>1. PICK m \in memberships' : <<o, u, r>> = <<m.org, m.user, m.role>>
      BY <2>2, <1>1 DEF Sources
    <3>2. m.org = o /\ m.user = u /\ m.role = r /\ m.by \in Users
      BY <3>1 DEF TypeOK, Membership
    <3>3. m \notin memberships
      BY <2>2, <3>2, <1>2 DEF TrailComplete
    <3>4. r = "org_admin" \/ CanInvite(o, m.by, r)
      BY <3>2, <3>3, <1>1 DEF Sources, MembershipSource
    <3>5. CASE r = "org_admin"
      BY <3>5
    <3>6. CASE CanInvite(o, m.by, r)
      <4>1. \E s \in Roles : <<o, m.by, s>> \in granted
        BY <3>2, <3>6, <1>2, InvitersAreTrusted
      <4> QED
        BY <4>1, <3>2, <1>1, <1>2 DEF AdminCameFirst, Sources
    <3> QED
      BY <3>4, <3>5, <3>6
  <2> QED
    BY <2>1, <2>2
<1> QED
  BY <1>5, <1>6, <1>7, <1>8 DEF TrustInv, TrustChain

LEMMA TrustInvariant == Spec => []TrustInv
<1>1. Init => TrustInv
  BY DEF Init, TrustInv, TypeOK, User, Nobody, TrailComplete, TrustChain, AdminCameFirst
<1>2. TrustInv /\ TypeOK' /\ [Next]_vars => TrustInv'
  BY TrustInductive
<1> QED
  BY <1>1, <1>2, TypeCorrect, PTL DEF Spec

\* No escalation: whoever stands behind a role or an invitation once had, in
\* that organization, the authority to hand it out, or is a platform admin
\* naming an org_admin; and nobody ever stands behind their own.
THEOREM NoEscalation == Spec => []TrustChain
<1>1. TrustInv => TrustChain
  BY DEF TrustInv
<1> QED
  BY <1>1, TrustInvariant, PTL

\* An organization has people only after an operator's first org_admin.
THEOREM OperatorsOpenOrganizations == Spec => []AdminCameFirst
<1>1. TrustInv => AdminCameFirst
  BY DEF TrustInv
<1> QED
  BY <1>1, TrustInvariant, PTL

\* Authority over an organization comes down from its admins and an operator,
\* whatever happened to anybody's account or role since (0006:149-155).
THEOREM AuthorityAlwaysDescends == Spec => []AuthorityDescends
<1> QED
  BY NoEscalation, OperatorsOpenOrganizations, PTL DEF AuthorityDescends

\* Vendor staff see a customer only while a grant stands that somebody once
\* admin of that organization, never themselves, consented to within 14 days.
THEOREM VendorsNeedConsent == Spec => []SupportByConsent
<1>1. TrustInv => SupportByConsent
  <2> SUFFICES ASSUME TrustInv, NEW o \in Orgs, NEW u \in Users, SupportAccess(o, u)
               PROVE  \E g \in grants :
                        /\ g.org = o /\ g.support = u /\ g.by # u
                        /\ g.left \in 1..TTL
                        /\ <<o, g.by, "org_admin">> \in granted
    BY DEF SupportByConsent
  <2>1. PICK g \in grants : g.org = o /\ g.support = u /\ g.left > 0
    BY DEF SupportAccess
  <2>2. g.left \in 1..TTL
    BY <2>1, TTLAssumption DEF TrustInv, TypeOK, Grant
  <2> QED
    BY <2>1, <2>2 DEF TrustInv, TrailComplete
<1> QED
  BY <1>1, TrustInvariant, PTL

\* A role appears only by the person's own consent to an invitation that is
\* open, unexpired and still backed, or by an operator naming an org_admin.
THEOREM RolesNeedConsent == Spec => JoinedByConsent
<1>1. TypeOK /\ [Next]_vars =>
        [\A m \in memberships' \ memberships :
          /\ orgs[m.org] = "active" /\ Active(m.user) /\ ~users[m.user].vendor
          /\ \/ /\ \E i \in invitations \ invitations' :
                      SameSlot(i, m.org, m.user, m.role) /\ i.left > 0 /\ i.by = m.by
                /\ CanInvite(m.org, m.by, m.role)
             \/ m.role = "org_admin" /\ PlatformAdmin(m.by)]_vars
  BY StepSources DEF Sources, MembershipSource
<1> QED
  BY <1>1, TypeCorrect, PTL DEF Spec, JoinedByConsent

-----------------------------------------------------------------------------
(* One row per slot. *)

\* Ageing neither splits nor merges slots.
LEMMA AgedSlots ==
    ASSUME NEW S \in SUBSET Invitation,
           \A i, j \in S : SameSlot(i, j.org, j.user, j.role) => i = j
    PROVE  \A i, j \in Aged(S) : SameSlot(i, j.org, j.user, j.role) => i = j
BY DEF Aged, SameSlot, Invitation

LEMMA AddMembershipSlots ==
    ASSUME OneRowPerSlot, NEW m \in Membership, AddMembership(m), ~Held(m.org, m.user, m.role)
    PROVE  OneRowPerSlot'
BY DEF OneRowPerSlot, AddMembership, Held, SameSlot

\* One membership and one open invitation per organization, person and role,
\* whatever renewals, acceptances and operator grants there were.
THEOREM SlotsAreUnique == Spec => []OneRowPerSlot
<1>1. Init => OneRowPerSlot
  BY DEF Init, OneRowPerSlot
<1>2. OneRowPerSlot /\ TypeOK /\ [Next]_vars => OneRowPerSlot'
  <2> SUFFICES ASSUME OneRowPerSlot, TypeOK, [Next]_vars PROVE OneRowPerSlot'
    OBVIOUS
  <2>1. CASE Tick
    <3>1. invitations' = Aged(invitations)
      BY <2>1 DEF Tick, Aged
    <3>2. \A i, j \in invitations' : SameSlot(i, j.org, j.user, j.role) => i = j
      BY <3>1, AgedSlots DEF OneRowPerSlot, TypeOK
    <3> QED
      BY <2>1, <3>2 DEF Tick, OneRowPerSlot
  <2>2. ASSUME NEW me \in Users, NEW u \in Users, NEW o \in Orgs, GrantOrgAdmin(me, o, u)
        PROVE OneRowPerSlot'
    BY <2>2, AddMembershipSlots DEF GrantOrgAdmin, Membership, Roles
  <2>3. ASSUME NEW me \in Users, NEW u \in Users, NEW o \in Orgs, NEW r \in Roles, InviteUser(me, o, u, r)
        PROVE OneRowPerSlot'
    <3>1. \A i \in invitations \ OpenFor(o, u, r) : ~SameSlot(i, o, u, r)
      BY DEF OpenFor
    <3>2. \A i, j \in invitations' : SameSlot(i, j.org, j.user, j.role) => i = j
      BY <2>3, <3>1 DEF InviteUser, NewInvitation, OneRowPerSlot, SameSlot
    <3> QED
      BY <2>3, <3>2 DEF InviteUser, OneRowPerSlot
  <2>4. ASSUME NEW i \in invitations, AcceptInvitation(i) PROVE OneRowPerSlot'
    BY <2>4, AddMembershipSlots DEF AcceptInvitation, Membership, TypeOK, Invitation
  <2>5. ASSUME memberships' \subseteq memberships, invitations' \subseteq invitations PROVE OneRowPerSlot'
    BY <2>5 DEF OneRowPerSlot
  <2>6. CASE OperatorStep
    BY <2>6, <2>2, <2>5
       DEF OperatorStep, CreateUser, UpdateUser, CreateOrg, SetOrgStatus, RecoveryRevokeMembership, RecoveryRevokeGrant
  <2>7. CASE InvitationStep
    BY <2>7, <2>3, <2>4, <2>5 DEF InvitationStep, DeclineInvitation, RevokeInvitation, CloseInvitation
  <2>8. CASE MemberStep
    BY <2>8, <2>5 DEF MemberStep, RevokeMembership, GrantSupportAccess, RevokeSupportAccess
  <2>9. CASE UNCHANGED vars
    BY <2>9, <2>5 DEF vars
  <2> QED
    BY <2>1, <2>6, <2>7, <2>8, <2>9 DEF Next
<1> QED
  BY <1>1, <1>2, TypeCorrect, PTL DEF Spec

-----------------------------------------------------------------------------
(* An organization keeps an admin. *)

\* Only a revocation takes memberships away, and it leaves another admin.
LEMMA AdminsStay ==
    ASSUME ~Recovery, [Next]_vars, users' = users, NEW o \in Orgs, CountedAdmins(o) # {}
    PROVE  CountedAdmins(o)' # {}
<1>1. ASSUME memberships \subseteq memberships' PROVE CountedAdmins(o)' # {}
  BY <1>1 DEF CountedAdmins
<1>2. ASSUME NEW me \in Users, NEW m \in memberships, RevokeMembership(me, m)
      PROVE  CountedAdmins(o)' # {}
  <2>1. memberships' = memberships \ {m}
    BY <1>2 DEF RevokeMembership
  <2>2. CASE m \in CountedAdmins(o)
    <3>1. PICK n \in CountedAdmins(o) : n # m
      BY <1>2, <2>2 DEF RevokeMembership, OtherAdmins, CountedAdmins
    <3> QED
      BY <2>1, <3>1 DEF CountedAdmins
  <2>3. CASE m \notin CountedAdmins(o)
    <3>1. PICK n : n \in CountedAdmins(o)
      OBVIOUS
    <3> QED
      BY <2>1, <2>3, <3>1 DEF CountedAdmins
  <2> QED
    BY <2>2, <2>3
<1>3. CASE OperatorStep
  BY <1>1, <1>3
     DEF OperatorStep, CreateUser, UpdateUser, CreateOrg, SetOrgStatus, GrantOrgAdmin, AddMembership,
         RecoveryRevokeMembership, RecoveryRevokeGrant
<1>4. CASE InvitationStep
  BY <1>1, <1>4
     DEF InvitationStep, InviteUser, AcceptInvitation, AddMembership, DeclineInvitation,
         RevokeInvitation, CloseInvitation
<1>5. CASE MemberStep
  BY <1>1, <1>2, <1>5 DEF MemberStep, GrantSupportAccess, RevokeSupportAccess
<1>6. CASE Tick \/ UNCHANGED vars
  BY <1>1, <1>6 DEF Tick, vars
<1> QED
  BY <1>3, <1>4, <1>5, <1>6 DEF Next

\* No request of a customer, and no command but a recovery under a system_job reason,
\* takes the last enabled admin away from an organization that has one.
THEOREM LastAdminStays ==
    ASSUME ~Recovery PROVE Spec => LastAdminKept
<1>1. [Next]_vars =>
        [\A o \in Orgs : users' = users /\ CountedAdmins(o) # {} => CountedAdmins(o)' # {}]_vars
  BY AdminsStay
<1> QED
  BY <1>1, PTL DEF Spec, LastAdminKept
=============================================================================
