---------------------------- MODULE MCOrgLocking ----------------------------
(***************************************************************************)
(* Instances of OrgLocking: one organization with two admins, a person one *)
(* of them has invited, and an operator.                                   *)
(***************************************************************************)
EXTENDS OrgLocking, TLC

CONSTANTS o1, ada, ben, cy, val

Person(vendor) == [known |-> TRUE, vendor |-> vendor, disabled |-> FALSE]

\* val made ada admin, who brought in ben as admin or point person; ben (or
\* ada, since a point person invites nobody as admin) then invited cy, and the
\* invitation is open, perhaps expired.
MCTables ==
    {[users       |-> [u \in Users |-> Person(u = val)],
      orgs        |-> [o \in Orgs |-> "active"],
      memberships |-> {[org |-> o1, user |-> ada, role |-> "org_admin", by |-> val],
                       [org |-> o1, user |-> ben, role |-> "org_admin", by |-> ada]},
      invitations |-> {[org |-> o1, user |-> cy, role |-> "org_admin", by |-> ben, left |-> l]},
      grants      |-> {},
      sent        |-> [o \in Orgs |-> [u \in Users |-> 0]],
      granted     |-> {<<o1, ada, "org_admin">>, <<o1, ben, "org_admin">>},
      vendors     |-> {val}] : l \in {0, TTL}}

Ask4(kind, me, user) ==
    [kind |-> kind, org |-> o1, me |-> me, user |-> user, role |-> "org_admin", status |-> "active"]

Acceptance == {Ask4("accept", cy, cy)}

Closing == {Ask4("decline", cy, cy)} \cup {Ask4("revoke_invitation", me, cy) : me \in {ada, ben}}

Inviting == {Ask4("invite", me, cy) : me \in {ada, ben}}

Leaving == {Ask4("revoke_membership", me, user) : me, user \in {ada, ben}}

Operator == {Ask4("grant_org_admin", val, cy)}

Stopping == {[Ask4("set_status", val, val) EXCEPT !.status = "suspended"]}

Support == {Ask4("grant_support", ben, val)}

AllRequests == Acceptance \cup Closing \cup Inviting \cup Leaving \cup Operator \cup Stopping \cup Support

SessionSymmetry == Permutations(Sessions)

(* Sessions are interchangeable and make one request each, so that every     *)
(* behaviour is one of those in which their requests are in order, with the  *)
(* sessions renamed.  (TLC's symmetry sets may not be used with liveness.)   *)

Rank(req) ==
    LET kind == CHOOSE k \in 1..8 : req.kind =
                    <<"accept", "decline", "grant_org_admin", "grant_support", "invite",
                      "revoke_invitation", "revoke_membership", "set_status">>[k]
        person(u) == CHOOSE k \in 1..4 : u = <<ada, ben, cy, val>>[k]
    IN  16 * kind + 4 * person(req.me) + person(req.user)

InOrder ==
    \A s, t \in Sessions :
        s < t /\ Running(s) /\ Running(t) => Rank(sessions[s].req) <= Rank(sessions[t].req)
=============================================================================
