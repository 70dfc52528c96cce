----------------------------- MODULE OrgLocking -----------------------------
(***************************************************************************)
(* The requests of module Tenancy as the database runs them: several at a  *)
(* time, at READ COMMITTED, each a sequence of row locks and decisions     *)
(* that ends in one commit, a refusal, or an abort.                        *)
(*                                                                         *)
(* The variables of Tenancy are the committed tables.  A statement reads   *)
(* what is committed when it runs; what a transaction writes is seen by    *)
(* the others at its commit, which also releases its locks.  People's      *)
(* flags do not change here (an UPDATE of users takes no lock of the       *)
(* organization), and no transaction lasts long enough for a Tick.         *)
(***************************************************************************)
EXTENDS Tenancy, Sequences

CONSTANTS
    Sessions,       \* bound: requests in one behaviour, each on a connection of its own
    Requests,       \* bound: what a session may ask for
    NoRequest,
    InitialTables   \* states of the tables the sessions find

VARIABLE sessions

lvars == <<vars, sessions>>

Kinds == {"accept", "decline", "revoke_invitation", "invite", "revoke_membership",
          "grant_org_admin", "set_status", "grant_support"}

\* status is read by set_status only, user and role by none of the last two.
Request == [kind: Kinds, org: Orgs, me: Users, user: Users, role: Roles, status: Statuses]

\* People accept and decline the invitations sent to themselves.
ASSUME RequestsAssumption ==
    /\ Requests \subseteq Request /\ NoRequest \notin Request
    /\ \A req \in Requests : req.kind \in {"accept", "decline"} => req.me = req.user

\* An invitation from somebody who has become vendor staff is the only kind that
\* grant-org-admin would close (and lock); the sessions find none.
ASSUME TablesAssumption ==
    \A t \in InitialTables :
        /\ t.users \in [Users -> User]
        /\ t.memberships \subseteq Membership /\ t.invitations \subseteq Invitation
        /\ \A m, n \in t.memberships : SameSlot(m, n.org, n.user, n.role) => m = n
        /\ \A i, j \in t.invitations : SameSlot(i, j.org, j.user, j.role) => i = j
        /\ \A i \in t.invitations : ~t.users[i.by].vendor
        /\ IsFiniteSet(t.grants)

\* The sessions find organizations whose first admin has been named: what an
\* organization without one may lose is not in question here.
ASSUME AdminsAssumption ==
    \A t \in InitialTables, o \in Orgs :
        \E m \in t.memberships :
            m.org = o /\ m.role = "org_admin" /\ ~t.users[m.user].disabled

(* What each kind of request does before it commits.  An org step locks the *)
(* organization's row in a mode, row locks the invitation or membership the *)
(* request is about, sender is the advisory lock of invite_begin; ask and   *)
(* decide read without locking.  The KS lock is the foreign key of the line *)
(* that the trigger adds to audit_log.                                      *)

\* mutant: accept_invitation locks the invitation, then the organization
AcceptSteps_RowFirst == <<"ask", "row", "org U", "decide">>

\* mutant: accept_invitation does not lock the organization
AcceptSteps_NoOrgLock == <<"ask", "row", "decide">>

AcceptSteps == <<"ask", "org U", "row", "decide">>

\* mutant: the guard on memberships does not lock the organization
RevokeMembershipSteps_NoOrgLock == <<"row", "decide">>

RevokeMembershipSteps == <<"row", "org U", "decide">>

Program ==
    [accept            |-> AcceptSteps,
     decline           |-> <<"row", "decide", "org KS">>,
     revoke_invitation |-> <<"row", "decide", "org KS">>,
     invite            |-> <<"ask", "sender", "org U", "ask", "row", "decide">>,
     revoke_membership |-> RevokeMembershipSteps,
     grant_org_admin   |-> <<"org S", "decide", "org U">>,
     set_status        |-> <<"org NKU", "decide">>,
     grant_support     |-> <<"ask", "org U", "decide">>]

Step(s) == Program[sessions[s].req.kind][sessions[s].at]

Running(s) == sessions[s].phase = "running"

HasStep(s, steps) ==
    /\ Running(s)
    /\ sessions[s].at <= Len(Program[sessions[s].req.kind])
    /\ Step(s) \in steps

Advance(s) == sessions[s].at + 1

-----------------------------------------------------------------------------
(* Row locks of PostgreSQL. *)

Conflict == {{"KS", "U"}, {"S", "U"}, {"S", "NKU"}, {"NKU"}, {"NKU", "U"}, {"U"}}

LockSteps == {"org KS", "org S", "org NKU", "org U", "row", "sender"}

LockOf(req, step) ==
    LET table == IF req.kind = "revoke_membership" THEN "membership" ELSE "invitation"
    IN  CASE step = "org KS"  -> [on |-> <<"org", req.org>>, mode |-> "KS"]
          [] step = "org S"   -> [on |-> <<"org", req.org>>, mode |-> "S"]
          [] step = "org NKU" -> [on |-> <<"org", req.org>>, mode |-> "NKU"]
          [] step = "org U"   -> [on |-> <<"org", req.org>>, mode |-> "U"]
          [] step = "sender"  -> [on |-> <<"sender", req.me>>, mode |-> "U"]
          [] step = "row"     -> [on |-> <<table, req.org, req.user, req.role>>, mode |-> "U"]

\* The lock that session s asks for in its present step.
Wanted(s) == LockOf(sessions[s].req, Step(s))

WaitsFor(s, t) ==
    /\ s # t /\ HasStep(s, LockSteps)
    /\ \E l \in sessions[t].locks : l.on = Wanted(s).on /\ {l.mode, Wanted(s).mode} \in Conflict

\* Everybody in S waits for somebody in S.
Deadlocked(S) == S # {} /\ \A s \in S : \E t \in S : WaitsFor(s, t)

-----------------------------------------------------------------------------
(* Decisions. *)

\* The row a request is about, among the members ms and the invitations is.
RowIn(req, ms, is) ==
    {x \in (IF req.kind = "revoke_membership" THEN ms ELSE is) :
        SameSlot(x, req.org, req.user, req.role)}

RowOf(req) == RowIn(req, memberships, invitations)

\* The answer to an unlocked question, asked before anything is locked and, by
\* invite, again under the locks.
AskAnswer(req) ==
    CASE req.kind = "accept"        -> \E i \in RowOf(req) : i.left > 0
      [] req.kind = "invite"        -> InviteGate(req.me, req.org, req.role)
      [] req.kind = "grant_support" -> MayConsent(req.me, req.org)

\* May the request go on, given what is committed now?  live: the row it named
\* at its start has not been closed since.
Allowed(req, live) ==
    CASE req.kind = "accept" ->
            /\ live /\ orgs[req.org] = "active"
            /\ Active(req.me) /\ ~users[req.me].vendor
            /\ \E i \in RowOf(req) : i.left > 0 /\ InviterStillMay(i)
            /\ ~Held(req.org, req.user, req.role)
      [] req.kind = "decline" ->
            live /\ Active(req.me) /\ \E i \in RowOf(req) : i.left > 0
      [] req.kind = "revoke_invitation" ->
            /\ live
            /\ \E i \in RowOf(req) :
                  \/ Member(req.org, req.me, {"org_admin"})
                  \/ i.by = req.me /\ Member(req.org, req.me, {"org_admin", "point_person"})
      [] req.kind = "invite" ->
            req.user # req.me /\ \A i \in RowOf(req) : i.left = 0
      [] req.kind = "revoke_membership" ->
            /\ live
            /\ Member(req.org, req.me, {"org_admin"}) \/ (req.user = req.me /\ Active(req.me))
            /\ \A m \in RowOf(req) : m.role = "org_admin" => OtherAdmins(m) # {}
      [] req.kind = "grant_org_admin" ->
            /\ PlatformAdmin(req.me) /\ orgs[req.org] = "active"
            /\ Active(req.user) /\ ~users[req.user].vendor
            /\ ~Held(req.org, req.user, "org_admin")
      [] req.kind = "set_status" ->
            orgs[req.org] \in Statuses \ {"closed", req.status}
      [] req.kind = "grant_support" ->
            MayConsent(req.me, req.org) /\ req.user # req.me /\ PlatformAdmin(req.user)

\* A number not given yet; which one makes no difference.
FreshId == CHOOSE id \in GrantIds : id \notin {g.id : g \in grants}

\* What the commit of an allowed request writes, row being what it found at
\* its last decision.
Write(req, row) ==
    CASE req.kind = "accept" ->
            \E i \in row : AddMembership([org |-> i.org, user |-> i.user, role |-> i.role, by |-> i.by])
      [] req.kind \in {"decline", "revoke_invitation"} ->
            \E i \in row : CloseInvitation(i)
      [] req.kind = "invite" ->
            /\ users' = [users EXCEPT ![req.user].known = TRUE]
            /\ invitations' = (invitations \ row)
                                 \cup {NewInvitation(req.org, req.user, req.role, req.me)}
            /\ sent' = [sent EXCEPT ![req.org][req.me] = @ + 1]
            /\ UNCHANGED <<orgs, memberships, grants, granted, vendors>>
      [] req.kind = "revoke_membership" ->
            /\ memberships' = memberships \ row
            /\ UNCHANGED <<users, orgs, invitations, grants, sent, granted, vendors>>
      [] req.kind = "grant_org_admin" ->
            AddMembership([org |-> req.org, user |-> req.user, role |-> "org_admin", by |-> req.me])
      [] req.kind = "set_status" ->
            /\ orgs' = [orgs EXCEPT ![req.org] = req.status]
            /\ UNCHANGED <<users, memberships, invitations, grants, sent, granted, vendors>>
      [] req.kind = "grant_support" ->
            /\ \E left \in 1..TTL :
                  grants' = grants \cup
                     {[id |-> FreshId, org |-> req.org, support |-> req.user, by |-> req.me, left |-> left]}
            /\ UNCHANGED <<users, orgs, memberships, invitations, sent, granted, vendors>>

-----------------------------------------------------------------------------
Quiet == [phase |-> "idle", req |-> NoRequest, at |-> 0, locks |-> {}, live |-> FALSE, row |-> {}]

Ended == [Quiet EXCEPT !.phase = "done"]

LInit ==
    /\ \E t \in InitialTables :
          /\ users = t.users /\ orgs = t.orgs /\ memberships = t.memberships
          /\ invitations = t.invitations /\ grants = t.grants /\ sent = t.sent
          /\ granted = t.granted /\ vendors = t.vendors
    /\ sessions = [s \in Sessions |-> Quiet]

Begin(s) ==
    /\ sessions[s].phase = "idle"
    /\ \E req \in Requests :
          sessions' = [sessions EXCEPT ![s] =
              [Quiet EXCEPT !.phase = "running", !.req = req, !.at = 1, !.live = RowOf(req) # {}]]
    /\ UNCHANGED vars

\* A refusal is answered by a rollback (_run, main), which releases the locks.
\* mutant: the refused request keeps its transaction open
Refused_KeepsLocks(s) == [Ended EXCEPT !.locks = sessions[s].locks]

Refused(s) == Ended

Ask(s) ==
    /\ HasStep(s, {"ask"})
    /\ sessions' = [sessions EXCEPT ![s] =
          IF AskAnswer(sessions[s].req) THEN [@ EXCEPT !.at = Advance(s)] ELSE Refused(s)]
    /\ UNCHANGED vars

Acquire(s) ==
    /\ HasStep(s, LockSteps)
    /\ \A t \in Sessions : ~WaitsFor(s, t)
    /\ sessions' = [sessions EXCEPT ![s].at = Advance(s), ![s].locks = @ \cup {Wanted(s)}]
    /\ UNCHANGED vars

Decide(s) ==
    /\ HasStep(s, {"decide"})
    /\ sessions' = [sessions EXCEPT ![s] =
          IF Allowed(sessions[s].req, sessions[s].live)
          THEN [@ EXCEPT !.at = Advance(s), !.row = RowOf(sessions[s].req)]
          ELSE Refused(s)]
    /\ UNCHANGED vars

\* Rows that the commit removes are gone for those who wait for them.
Commit(s) ==
    LET req == sessions[s].req
        Missing(t) == Running(t) /\ RowIn(sessions[t].req, memberships', invitations') = {}
    IN  /\ Running(s)
        /\ sessions[s].at = Len(Program[req.kind]) + 1
        /\ Write(req, sessions[s].row)
        /\ sessions' = [t \in Sessions |->
              IF t = s THEN Ended
              ELSE IF Missing(t) THEN [sessions[t] EXCEPT !.live = FALSE] ELSE sessions[t]]

\* A lost connection, a cancelled request, or lock_timeout.
Abort(s) ==
    /\ Running(s)
    /\ sessions' = [sessions EXCEPT ![s] = Ended]
    /\ UNCHANGED vars

\* PostgreSQL ends one transaction of every cycle; the API answers 409.
BreakDeadlock(s) ==
    /\ \E S \in SUBSET Sessions : s \in S /\ Deadlocked(S)
    /\ sessions' = [sessions EXCEPT ![s] = Ended]
    /\ UNCHANGED vars

Proceed(s) == Ask(s) \/ Acquire(s) \/ Decide(s) \/ Commit(s)

LNext == \E s \in Sessions : Begin(s) \/ Proceed(s) \/ Abort(s) \/ BreakDeadlock(s)

\* Every statement of a request runs to its end or waits, and the database
\* looks for cycles of waiting transactions; nothing forces a request to come.
Fairness == \A s \in Sessions : WF_lvars(Proceed(s)) /\ WF_lvars(BreakDeadlock(s))

LSpec == LInit /\ [][LNext]_lvars /\ Fairness

-----------------------------------------------------------------------------
(* Properties. *)

\* Sessions are at a step of their request, and only running ones hold locks.
SessionsOK ==
    \A s \in Sessions :
        LET t == sessions[s]
        IN  /\ t.phase \in {"idle", "running", "done"}
            /\ t.phase = "running" =>
                  t.req \in Requests /\ t.at \in 1..(Len(Program[t.req.kind]) + 1)
            /\ t.phase # "running" => t.locks = {}

\* revoke_invitation asks for the caller's standing without locking the
\* organization, so that standing may be gone when it commits.
LateRevocation ==
    \E s \in Sessions :
        /\ Running(s) /\ sessions[s].req.kind = "revoke_invitation"
        /\ \E i \in sessions[s].row : CloseInvitation(i)

\* However requests interleave, the tables change as if each had run alone, in
\* the order of the commits: every commit is a step of module Tenancy, with all
\* its conditions true at that moment, but for the revocation of an invitation,
\* which only takes away.  (UNCHANGED vars comes first for TLC's sake: most steps
\* of a request leave the tables alone.)
Serializable == [][UNCHANGED vars \/ Next \/ LateRevocation]_vars

\* Requests that race to remove admins leave one (nobody's account changes
\* here, so this is the rule of 0006:453-462 under concurrency).
AdminRemains == \A o \in Orgs : CountedAdmins(o) # {}

\* Every deadlock has in it a request that locks in another order than
\* organization, then row: one that closes an invitation, or grant-org-admin,
\* which reads the organization FOR SHARE and then has its row's trigger take it
\* FOR UPDATE.  Joining, leaving, inviting and consenting never deadlock.
OnlyTheUnorderedDeadlock ==
    \A S \in SUBSET Sessions :
        Deadlocked(S) =>
            \E s \in S : sessions[s].req.kind \in {"decline", "revoke_invitation", "grant_org_admin"}

\* 0006:325, "Lock order everywhere: organization first, then the invitation":
\* nobody waits for the organization with an invitation locked that the holder
\* of the organization is waiting for.
LockOrderEverywhere ==
    \A s, t \in Sessions :
        ~ /\ WaitsFor(s, t) /\ Wanted(s).on[1] = "org"
          /\ WaitsFor(t, s) /\ Wanted(t).on[1] = "invitation"

\* A request that was begun is answered, deadlocks and refusals included.
EveryRequestEnds == \A s \in Sessions : Running(s) ~> sessions[s].phase = "done"
=============================================================================
