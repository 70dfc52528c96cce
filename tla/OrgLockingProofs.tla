-------------------------- MODULE OrgLockingProofs --------------------------
(***************************************************************************)
(* Proofs about OrgLocking for any people, organizations, requests and     *)
(* number of sessions: what a request has decided under the lock of its    *)
(* organization is still true at its commit, so that the commit is a step  *)
(* of Tenancy, and who locks in the order sender or membership,            *)
(* organization, invitation is in no deadlock; and running requests go on. *)
(***************************************************************************)
EXTENDS OrgLocking, FiniteSetTheorems, TLAPS

-----------------------------------------------------------------------------
(* The programs. *)

LEMMA ProgramIs ==
    /\ Program["accept"] = <<"ask", "org U", "row", "decide">>
    /\ Program["decline"] = <<"row", "decide", "org KS">>
    /\ Program["revoke_invitation"] = <<"row", "decide", "org KS">>
    /\ Program["invite"] = <<"ask", "sender", "org U", "ask", "row", "decide">>
    /\ Program["revoke_membership"] = <<"row", "org U", "decide">>
    /\ Program["grant_org_admin"] = <<"org S", "decide", "org U">>
    /\ Program["set_status"] = <<"org NKU", "decide">>
    /\ Program["grant_support"] = <<"ask", "org U", "decide">>
BY DEF Program, AcceptSteps, RevokeMembershipSteps

LEMMA Lengths ==
    /\ Len(Program["accept"]) = 4 /\ Len(Program["decline"]) = 3
    /\ Len(Program["revoke_invitation"]) = 3 /\ Len(Program["invite"]) = 6
    /\ Len(Program["revoke_membership"]) = 3 /\ Len(Program["grant_org_admin"]) = 3
    /\ Len(Program["set_status"]) = 2 /\ Len(Program["grant_support"]) = 3
    /\ \A kind \in Kinds : Len(Program[kind]) \in Nat
<1>1. /\ Len(Program["accept"]) = 4 /\ Len(Program["decline"]) = 3
      /\ Len(Program["revoke_invitation"]) = 3 /\ Len(Program["invite"]) = 6
      /\ Len(Program["revoke_membership"]) = 3 /\ Len(Program["grant_org_admin"]) = 3
      /\ Len(Program["set_status"]) = 2 /\ Len(Program["grant_support"]) = 3
  BY ProgramIs
<1> QED BY <1>1 DEF Kinds

\* The steps that the proofs speak of.
LEMMA StepsAre ==
    /\ Program["accept"][1] = "ask" /\ Program["accept"][2] = "org U"
    /\ Program["accept"][3] = "row" /\ Program["accept"][4] = "decide"
    /\ Program["invite"][1] = "ask" /\ Program["invite"][2] = "sender"
    /\ Program["invite"][3] = "org U" /\ Program["invite"][4] = "ask"
    /\ Program["invite"][5] = "row" /\ Program["invite"][6] = "decide"
    /\ Program["revoke_membership"][1] = "row" /\ Program["revoke_membership"][2] = "org U"
    /\ Program["revoke_membership"][3] = "decide"
    /\ Program["grant_org_admin"][1] = "org S" /\ Program["grant_org_admin"][2] = "decide"
    /\ Program["grant_org_admin"][3] = "org U"
    /\ Program["set_status"][1] = "org NKU" /\ Program["set_status"][2] = "decide"
    /\ Program["grant_support"][1] = "ask" /\ Program["grant_support"][2] = "org U"
    /\ Program["grant_support"][3] = "decide"
<1>1. /\ Program["accept"][1] = "ask" /\ Program["accept"][2] = "org U" /\ Program["accept"][3] = "row"
      /\ Program["accept"][4] = "decide"
  BY DEF Program, AcceptSteps, RevokeMembershipSteps
<1>2. /\ Program["invite"][1] = "ask" /\ Program["invite"][2] = "sender" /\ Program["invite"][3] = "org U"
      /\ Program["invite"][4] = "ask" /\ Program["invite"][5] = "row" /\ Program["invite"][6] = "decide"
  BY DEF Program, AcceptSteps, RevokeMembershipSteps
<1>3. /\ Program["revoke_membership"][1] = "row" /\ Program["revoke_membership"][2] = "org U" /\ Program["revoke_membership"][3] = "decide"
  BY DEF Program, AcceptSteps, RevokeMembershipSteps
<1>4. /\ Program["grant_org_admin"][1] = "org S" /\ Program["grant_org_admin"][2] = "decide" /\ Program["grant_org_admin"][3] = "org U"
  BY DEF Program, AcceptSteps, RevokeMembershipSteps
<1>5. /\ Program["set_status"][1] = "org NKU" /\ Program["set_status"][2] = "decide"
  BY DEF Program, AcceptSteps, RevokeMembershipSteps
<1>6. /\ Program["grant_support"][1] = "ask" /\ Program["grant_support"][2] = "org U" /\ Program["grant_support"][3] = "decide"
  BY DEF Program, AcceptSteps, RevokeMembershipSteps
<1> QED BY <1>1, <1>2, <1>3, <1>4, <1>5, <1>6

-----------------------------------------------------------------------------
(* The invariant. *)

\* The locks of the lock steps before one.
LocksBefore(req, at) ==
    {LockOf(req, Program[req.kind][i]) : i \in {j \in 1..(at - 1) : Program[req.kind][j] \in LockSteps}}

Lock == {LockOf(req, step) : req \in Requests, step \in LockSteps}

Session ==
    [phase: {"idle", "running", "done"}, req: Requests \cup {NoRequest}, at: Nat,
     locks: SUBSET Lock, live: BOOLEAN, row: SUBSET (Membership \cup Invitation)]

\* A session holds the locks it has asked for, and the rows it found are those
\* its request names.
Shape(q) ==
    /\ q \in Session
    /\ q.phase # "running" => q.locks = {}
    /\ q.phase = "running" =>
          /\ q.req \in Requests
          /\ q.at \in 1..(Len(Program[q.req.kind]) + 1)
          /\ q.locks = LocksBefore(q.req, q.at)
          /\ \A x \in q.row : SameSlot(x, q.req.org, q.req.user, q.req.role)

\* Of two conflicting locks on one thing only one is held.
Exclusive ==
    \A s, t \in Sessions : s # t =>
        \A l \in sessions[s].locks, m \in sessions[t].locks :
            l.on = m.on => {l.mode, m.mode} \notin Conflict

\* What a session has decided about memberships is still so.
Decided(s) ==
    LET q == sessions[s]
    IN  q.phase = "running" =>
            /\ q.req.kind = "accept" /\ q.at >= 5 => ~Held(q.req.org, q.req.user, q.req.role)
            /\ q.req.kind = "grant_org_admin" /\ q.at >= 3 =>
                  ~Held(q.req.org, q.req.user, "org_admin")
            /\ q.req.kind = "revoke_membership" /\ q.at >= 4 /\ q.req.role = "org_admin" =>
                  \E n \in CountedAdmins(q.req.org) : n \notin q.row

Tables ==
    /\ users \in [Users -> User]
    /\ memberships \subseteq Membership /\ invitations \subseteq Invitation
    /\ \A m, n \in memberships : SameSlot(m, n.org, n.user, n.role) => m = n

Inv ==
    /\ sessions \in [Sessions -> Session]
    /\ \A s \in Sessions : Shape(sessions[s]) /\ Decided(s)
    /\ Exclusive
    /\ Tables
    /\ AdminRemains

-----------------------------------------------------------------------------
(* Locks. *)

LEMMA RequestTyped ==
    ASSUME NEW req \in Requests
    PROVE  /\ req \in Request /\ req.kind \in Kinds /\ req.org \in Orgs /\ req.me \in Users
           /\ req.user \in Users /\ req.role \in Roles /\ req # NoRequest
BY RequestsAssumption DEF Request

LEMMA LocksAtFirst == \A req : LocksBefore(req, 1) = {}
BY DEF LocksBefore

LEMMA LocksGrow ==
    ASSUME NEW req, NEW at \in Nat \ {0}
    PROVE  LocksBefore(req, at + 1) =
              IF Program[req.kind][at] \in LockSteps
              THEN LocksBefore(req, at) \cup {LockOf(req, Program[req.kind][at])}
              ELSE LocksBefore(req, at)
<1>1. 1..(at + 1 - 1) = (1..(at - 1)) \cup {at}
  OBVIOUS
<1> DEFINE P == Program[req.kind]
           Before == {j \in 1..(at - 1) : P[j] \in LockSteps}
           Through == {j \in 1..(at + 1 - 1) : P[j] \in LockSteps}
<1>2. Through = Before \cup (IF P[at] \in LockSteps THEN {at} ELSE {})
  BY <1>1
<1>3. /\ LocksBefore(req, at) = {LockOf(req, P[i]) : i \in Before}
      /\ LocksBefore(req, at + 1) = {LockOf(req, P[i]) : i \in Through}
  BY DEF LocksBefore
<1> HIDE DEF P, Before, Through
<1>4. {LockOf(req, P[i]) : i \in Through} =
         IF P[at] \in LockSteps
         THEN {LockOf(req, P[i]) : i \in Before} \cup {LockOf(req, P[at])}
         ELSE {LockOf(req, P[i]) : i \in Before}
  BY <1>2
<1> QED BY <1>3, <1>4 DEF P

LEMMA LocksTyped ==
    ASSUME NEW req \in Requests, NEW at
    PROVE  LocksBefore(req, at) \subseteq Lock
BY DEF LocksBefore, Lock

\* The lock of a step is held once the step is over.
LEMMA LockHeld ==
    ASSUME NEW s \in Sessions, Shape(sessions[s]), Running(s),
           NEW i \in 1..(sessions[s].at - 1), Program[sessions[s].req.kind][i] \in LockSteps
    PROVE  LockOf(sessions[s].req, Program[sessions[s].req.kind][i]) \in sessions[s].locks
BY DEF Shape, Running, LocksBefore

\* Who is about to change the memberships of an organization has it locked.
LEMMA OrgLocked ==
    ASSUME NEW s \in Sessions, Shape(sessions[s]), Running(s)
    PROVE  LET q == sessions[s]
               Has(mode) == [on |-> <<"org", q.req.org>>, mode |-> mode] \in q.locks
           IN  /\ q.req.kind = "accept" /\ q.at >= 5 => Has("U")
               /\ q.req.kind = "revoke_membership" /\ q.at >= 4 => Has("U")
               /\ q.req.kind = "grant_org_admin" /\ q.at >= 3 => Has("S")
               /\ q.req.kind = "grant_org_admin" /\ q.at >= 4 => Has("U")
<1> DEFINE q == sessions[s]
<1>1. q.at \in Nat
  BY DEF Shape, Session
<1>2. \A i \in 1..(q.at - 1) : Program[q.req.kind][i] \in LockSteps
          => LockOf(q.req, Program[q.req.kind][i]) \in q.locks
  BY LockHeld
<1>3. /\ LockOf(q.req, "org U") = [on |-> <<"org", q.req.org>>, mode |-> "U"]
      /\ LockOf(q.req, "org S") = [on |-> <<"org", q.req.org>>, mode |-> "S"]
      /\ "org U" \in LockSteps /\ "org S" \in LockSteps
  BY DEF LockOf, LockSteps
<1> HIDE DEF q
<1>4. /\ q.req.kind = "accept" => Program[q.req.kind][2] = "org U"
      /\ q.req.kind = "revoke_membership" => Program[q.req.kind][2] = "org U"
      /\ q.req.kind = "grant_org_admin" =>
            Program[q.req.kind][1] = "org S" /\ Program[q.req.kind][3] = "org U"
  BY StepsAre
<1>5. /\ q.at >= 3 => 1 \in 1..(q.at - 1) /\ 2 \in 1..(q.at - 1)
      /\ q.at >= 4 => 3 \in 1..(q.at - 1)
      /\ q.at >= 5 => q.at >= 3
      /\ q.at >= 4 => q.at >= 3
  BY <1>1
<1> QED BY <1>2, <1>3, <1>4, <1>5 DEF q
-----------------------------------------------------------------------------
(* The steps of a session that leave the tables alone. *)

LEMMA EndedShaped ==
    /\ Quiet \in Session /\ Ended \in Session /\ Ended.phase = "done" /\ Shape(Ended)
<1>1. Quiet \in Session
  BY DEF Quiet, Session
<1>2. Ended \in Session /\ Ended.phase = "done" /\ Ended.locks = {}
  BY <1>1 DEF Ended, Quiet, Session
<1> QED BY <1>1, <1>2 DEF Shape

LEMMA Advanced ==
    ASSUME NEW q, Shape(q), q.phase = "running", q.at <= Len(Program[q.req.kind]),
           NEW n \in Session, n.phase = "running", n.req = q.req, n.at = q.at + 1,
           n.locks = IF Program[q.req.kind][q.at] \in LockSteps
                     THEN q.locks \cup {LockOf(q.req, Program[q.req.kind][q.at])} ELSE q.locks,
           \A x \in n.row : SameSlot(x, q.req.org, q.req.user, q.req.role)
    PROVE  Shape(n)
<1>1. q.req \in Requests /\ q.at \in Nat \ {0} /\ q.locks = LocksBefore(q.req, q.at)
  BY DEF Shape, Session
<1>2. Len(Program[q.req.kind]) \in Nat
  BY <1>1, RequestTyped, Lengths
<1>3. n.locks = LocksBefore(n.req, n.at)
  BY <1>1, LocksGrow
<1>4. n.at \in 1..(Len(Program[n.req.kind]) + 1)
  BY <1>1, <1>2
<1> QED BY <1>1, <1>3, <1>4 DEF Shape

\* The present session: at a step of its program.
LEMMA AtStep ==
    ASSUME Inv, NEW s \in Sessions, NEW steps, HasStep(s, steps)
    PROVE  /\ sessions \in [Sessions -> Session] /\ sessions[s] \in Session
           /\ Shape(sessions[s]) /\ sessions[s].phase = "running"
           /\ sessions[s].req \in Requests /\ sessions[s].at \in Nat
           /\ sessions[s].at <= Len(Program[sessions[s].req.kind])
           /\ Step(s) = Program[sessions[s].req.kind][sessions[s].at] /\ Step(s) \in steps
BY DEF Inv, HasStep, Running, Step, Shape, Session

\* A session is as it was, or quiet, or one step further in its program; what it
\* holds it held or asked for with nobody in its way.
Onward(s) ==
    LET q == sessions[s]
        n == sessions'[s]
    IN  /\ UNCHANGED vars /\ sessions' = [sessions EXCEPT ![s] = n]
        /\ Shape(n)
        /\ \/ n.locks \subseteq q.locks
           \/ /\ n.locks = q.locks \cup {Wanted(s)} /\ HasStep(s, LockSteps)
              /\ \A t \in Sessions : ~WaitsFor(s, t)
        /\ Decided(s)'

LEMMA EndMoves ==
    ASSUME Inv, NEW s \in Sessions, sessions' = [sessions EXCEPT ![s] = Ended], UNCHANGED vars
    PROVE  Onward(s)
<1>1. sessions'[s] = Ended
  BY DEF Inv
<1>2. Ended.locks = {} /\ Ended.phase = "done"
  BY EndedShaped DEF Shape
<1> QED BY <1>1, <1>2, EndedShaped DEF Onward, Decided

LEMMA BeginMoves ==
    ASSUME Inv, NEW s \in Sessions, Begin(s)
    PROVE  Onward(s)
<1>1. PICK req \in Requests :
          sessions' = [sessions EXCEPT ![s] =
              [Quiet EXCEPT !.phase = "running", !.req = req, !.at = 1, !.live = RowOf(req) # {}]]
  BY DEF Begin
<1> DEFINE n == sessions'[s]
<1>2. n = [phase |-> "running", req |-> req, at |-> 1, locks |-> {}, live |-> RowOf(req) # {}, row |-> {}]
  BY <1>1 DEF Inv, Quiet
<1>3. n \in Session /\ n.at = 1 /\ n.locks = {} /\ n.row = {} /\ n.req = req
  BY <1>2 DEF Session
<1>4. sessions' = [sessions EXCEPT ![s] = n]
  BY <1>1 DEF Inv
<1>5. UNCHANGED vars
  BY DEF Begin
<1> HIDE DEF n
<1>6. 1 \in 1..(Len(Program[req.kind]) + 1)
  BY RequestTyped, Lengths
<1>7. Shape(n)
  BY <1>3, <1>6, LocksAtFirst DEF Shape
<1>8. Decided(s)'
  BY <1>3 DEF Decided, n
<1> QED BY <1>3, <1>4, <1>5, <1>7, <1>8 DEF Onward, n

LEMMA AskMoves ==
    ASSUME Inv, NEW s \in Sessions, Ask(s)
    PROVE  Onward(s)
<1> DEFINE q == sessions[s]
           n == sessions'[s]
<1>1. /\ sessions \in [Sessions -> Session] /\ q \in Session /\ Shape(q) /\ q.phase = "running"
      /\ q.req \in Requests /\ q.at \in Nat /\ q.at <= Len(Program[q.req.kind])
      /\ Program[q.req.kind][q.at] = "ask" /\ Decided(s)
  BY AtStep DEF Ask, Inv
<1>2. UNCHANGED vars
  BY DEF Ask
<1>3. CASE ~AskAnswer(q.req)
  <2>1. sessions' = [sessions EXCEPT ![s] = Ended]
    BY <1>3 DEF Ask, Refused
  <2> QED BY <1>2, <2>1, EndMoves
<1>4. CASE AskAnswer(q.req)
  <2>1. n = [q EXCEPT !.at = q.at + 1] /\ sessions' = [sessions EXCEPT ![s] = n]
    BY <1>1, <1>4 DEF Ask, Advance
  <2>2. /\ n \in Session /\ n.phase = "running" /\ n.req = q.req /\ n.at = q.at + 1
        /\ n.locks = q.locks /\ n.row = q.row
    BY <1>1, <2>1 DEF Session
  <2>3. "ask" \notin LockSteps
    BY DEF LockSteps
  <2>4. \A x \in q.row : SameSlot(x, q.req.org, q.req.user, q.req.role)
    BY <1>1 DEF Shape
  <2> HIDE DEF q, n
  <2>5. Shape(n)
    BY <1>1, <2>2, <2>3, <2>4, Advanced
  <2>6. q.req.kind \in Kinds
    BY <1>1, RequestTyped
  <2>7. /\ q.req.kind = "accept" => q.at # 4
        /\ q.req.kind = "grant_org_admin" => q.at # 2
        /\ q.req.kind = "revoke_membership" => q.at # 3
    BY <1>1, StepsAre
  <2>8. Decided(s)'
    BY <1>1, <1>2, <2>2, <2>7 DEF Decided, Held, CountedAdmins, vars, q, n
  <2> QED BY <1>2, <2>1, <2>2, <2>5, <2>8 DEF Onward, q, n
<1> QED BY <1>3, <1>4

LEMMA AcquireMoves ==
    ASSUME Inv, NEW s \in Sessions, Acquire(s)
    PROVE  Onward(s)
<1> DEFINE q == sessions[s]
           n == sessions'[s]
<1>1. /\ sessions \in [Sessions -> Session] /\ q \in Session /\ Shape(q) /\ q.phase = "running"
      /\ q.req \in Requests /\ q.at \in Nat /\ q.at <= Len(Program[q.req.kind])
      /\ Step(s) = Program[q.req.kind][q.at] /\ Step(s) \in LockSteps /\ Decided(s)
  BY AtStep DEF Acquire, Inv
<1>2. UNCHANGED vars /\ HasStep(s, LockSteps) /\ \A t \in Sessions : ~WaitsFor(s, t)
  BY DEF Acquire
<1>3. Wanted(s) \in Lock /\ Wanted(s) = LockOf(q.req, Program[q.req.kind][q.at])
  BY <1>1 DEF Wanted, Lock
<1>4. sessions' = [sessions EXCEPT ![s].at = Advance(s), ![s].locks = @ \cup {Wanted(s)}]
  BY DEF Acquire
<1>5. n = [q EXCEPT !.at = q.at + 1, !.locks = q.locks \cup {Wanted(s)}] /\ sessions' = [sessions EXCEPT ![s] = n]
  BY <1>1, <1>4 DEF Advance
<1>6. /\ n \in Session /\ n.phase = "running" /\ n.req = q.req /\ n.at = q.at + 1
      /\ n.locks = q.locks \cup {Wanted(s)} /\ n.row = q.row
  <2> DEFINE w == q.locks \cup {Wanted(s)}
             k == q.at + 1
  <2>1. w \in SUBSET Lock /\ q \in Session
    BY <1>1, <1>3 DEF Session
  <2>2. n = [q EXCEPT !.at = k, !.locks = w] /\ k \in Nat
    BY <1>1, <1>5
  <2> HIDE DEF w, q, n, k
  <2>3. n \in Session
    BY <2>1, <2>2 DEF Session
  <2>4. n.phase = q.phase /\ n.req = q.req /\ n.at = k /\ n.locks = w /\ n.row = q.row
    BY <2>1, <2>2 DEF Session
  <2> QED BY <1>1, <2>3, <2>4 DEF w, k
<1>7. \A x \in q.row : SameSlot(x, q.req.org, q.req.user, q.req.role)
  BY <1>1 DEF Shape
<1> HIDE DEF q, n
<1>8. Shape(n)
  BY <1>1, <1>3, <1>6, <1>7, Advanced
<1>9. "decide" \notin LockSteps
  BY DEF LockSteps
<1>10. /\ q.req.kind = "accept" => q.at # 4
       /\ q.req.kind = "grant_org_admin" => q.at # 2
       /\ q.req.kind = "revoke_membership" => q.at # 3
  BY <1>1, <1>9, StepsAre
<1>11. Decided(s)'
  BY <1>1, <1>2, <1>6, <1>10 DEF Decided, Held, CountedAdmins, vars, q, n
<1> QED BY <1>2, <1>5, <1>6, <1>8, <1>11 DEF Onward, q, n

LEMMA RowsTyped ==
    ASSUME Tables, NEW req
    PROVE  /\ RowOf(req) \in SUBSET (Membership \cup Invitation)
           /\ \A x \in RowOf(req) : SameSlot(x, req.org, req.user, req.role)
BY DEF Tables, RowOf, RowIn

\* What each decision about memberships rests on.
LEMMA DecisionsHold ==
    ASSUME Inv, NEW req \in Requests, NEW live, Allowed(req, live)
    PROVE  /\ req.kind = "accept" => ~Held(req.org, req.user, req.role)
           /\ req.kind = "grant_org_admin" => ~Held(req.org, req.user, "org_admin")
           /\ req.kind = "revoke_membership" /\ req.role = "org_admin" =>
                 \E n \in CountedAdmins(req.org) : n \notin RowOf(req)
<1>1. CASE req.kind = "accept"
  BY <1>1 DEF Allowed
<1>2. CASE req.kind = "grant_org_admin"
  BY <1>2 DEF Allowed
<1>3. ASSUME req.kind = "revoke_membership", req.role = "org_admin"
      PROVE  \E n \in CountedAdmins(req.org) : n \notin RowOf(req)
  <2>1. RowOf(req) = {m \in memberships : SameSlot(m, req.org, req.user, req.role)}
    BY <1>3 DEF RowOf, RowIn
  <2>2. \A m \in RowOf(req) : m.role = "org_admin" => OtherAdmins(m) # {}
    BY <1>3 DEF Allowed
  <2>3. CASE RowOf(req) = {}
    <3>1. req.org \in Orgs
      BY RequestTyped
    <3>2. CountedAdmins(req.org) # {}
      BY <3>1 DEF Inv, AdminRemains
    <3> QED BY <2>3, <3>2
  <2>4. ASSUME NEW m \in RowOf(req) PROVE \E n \in CountedAdmins(req.org) : n \notin RowOf(req)
    <3>1. m \in memberships /\ m.org = req.org /\ m.user = req.user /\ m.role = req.role
      BY <2>1 DEF SameSlot
    <3>2. PICK n \in CountedAdmins(req.org) : n # m
      BY <1>3, <2>2, <3>1 DEF OtherAdmins
    <3>3. n \in memberships
      BY DEF CountedAdmins
    <3>4. n \in RowOf(req) => SameSlot(n, m.org, m.user, m.role)
      BY <2>1, <3>1
    <3>5. SameSlot(n, m.org, m.user, m.role) => n = m
      BY <3>1, <3>3 DEF Inv, Tables
    <3> QED BY <3>2, <3>4, <3>5
  <2> QED BY <2>3, <2>4
<1> QED BY <1>1, <1>2, <1>3

LEMMA DecideMoves ==
    ASSUME Inv, NEW s \in Sessions, Decide(s)
    PROVE  Onward(s)
<1> DEFINE q == sessions[s]
           n == sessions'[s]
<1>1. /\ sessions \in [Sessions -> Session] /\ q \in Session /\ Shape(q) /\ q.phase = "running"
      /\ q.req \in Requests /\ q.at \in Nat /\ q.at <= Len(Program[q.req.kind])
      /\ Program[q.req.kind][q.at] = "decide" /\ Decided(s)
  BY AtStep DEF Decide, Inv
<1>2. UNCHANGED vars
  BY DEF Decide
<1>3. CASE ~Allowed(q.req, q.live)
  <2>1. sessions' = [sessions EXCEPT ![s] = Ended]
    BY <1>3 DEF Decide, Refused
  <2> QED BY <1>2, <2>1, EndMoves
<1>4. CASE Allowed(q.req, q.live)
  <2> DEFINE row == RowOf(q.req)
             k == q.at + 1
  <2>1. n = [q EXCEPT !.at = k, !.row = row] /\ sessions' = [sessions EXCEPT ![s] = n] /\ k \in Nat
    BY <1>1, <1>4 DEF Decide, Advance
  <2>2. row \in SUBSET (Membership \cup Invitation) /\ \A x \in row : SameSlot(x, q.req.org, q.req.user, q.req.role)
    BY RowsTyped DEF Inv
  <2>3. "decide" \notin LockSteps
    BY DEF LockSteps
  <2>4. /\ q.req.kind = "accept" => ~Held(q.req.org, q.req.user, q.req.role)
        /\ q.req.kind = "grant_org_admin" => ~Held(q.req.org, q.req.user, "org_admin")
        /\ q.req.kind = "revoke_membership" /\ q.req.role = "org_admin" =>
              \E x \in CountedAdmins(q.req.org) : x \notin row
    BY <1>1, <1>4, DecisionsHold
  <2> HIDE DEF q, n, row, k
  <2>5. n \in Session
    BY <1>1, <2>1, <2>2 DEF Session
  <2>6. n.phase = q.phase /\ n.req = q.req /\ n.at = k /\ n.locks = q.locks /\ n.row = row
    BY <1>1, <2>1 DEF Session
  <2>7. Shape(n)
    BY <1>1, <2>2, <2>3, <2>5, <2>6, Advanced DEF k
  <2>8. Decided(s)'
    BY <1>2, <2>4, <2>6 DEF Decided, Held, CountedAdmins, vars, q, n
  <2> QED BY <1>2, <2>1, <2>6, <2>7, <2>8 DEF Onward, q, n
<1> QED BY <1>3, <1>4

LEMMA OnwardInv ==
    ASSUME Inv, NEW s \in Sessions, Onward(s)
    PROVE  Inv'
<1> DEFINE n == sessions'[s]
<1>1. /\ UNCHANGED vars /\ sessions' = [sessions EXCEPT ![s] = n] /\ Shape(n) /\ Decided(s)'
      /\ \A t \in Sessions \ {s} : sessions'[t] = sessions[t]
  BY DEF Onward, Inv
<1>2. sessions' \in [Sessions -> Session] /\ \A t \in Sessions : Shape(sessions'[t])
  <2>1. n \in Session
    BY <1>1 DEF Shape
  <2> QED BY <1>1, <2>1 DEF Inv
<1>3. \A t \in Sessions \ {s} : Decided(t)'
  BY <1>1 DEF Inv, Decided, Held, CountedAdmins, vars
<1>4. ASSUME NEW t \in Sessions \ {s}, NEW l \in n.locks, NEW m \in sessions[t].locks, l.on = m.on
      PROVE  {l.mode, m.mode} \notin Conflict
  <2>1. CASE l \in sessions[s].locks
    BY <1>4, <2>1 DEF Inv, Exclusive
  <2>2. CASE l \notin sessions[s].locks
    <3>1. l = Wanted(s) /\ HasStep(s, LockSteps) /\ ~WaitsFor(s, t)
      BY <1>4, <2>2 DEF Onward
    <3>2. {m.mode, l.mode} \notin Conflict
      BY <1>4, <3>1 DEF WaitsFor
    <3>3. {m.mode, l.mode} = {l.mode, m.mode}
      OBVIOUS
    <3> QED BY <3>2, <3>3
  <2> QED BY <2>1, <2>2
<1>5. Exclusive'
  <2> SUFFICES ASSUME NEW a \in Sessions, NEW b \in Sessions, a # b,
                      NEW l \in sessions'[a].locks, NEW m \in sessions'[b].locks, l.on = m.on
               PROVE  {l.mode, m.mode} \notin Conflict
    BY DEF Exclusive
  <2>1. CASE a = s
    BY <1>1, <1>4, <2>1
  <2>2. CASE b = s
    <3>1. {m.mode, l.mode} \notin Conflict
      BY <1>1, <1>4, <2>2
    <3>2. {m.mode, l.mode} = {l.mode, m.mode}
      OBVIOUS
    <3> QED BY <3>1, <3>2
  <2>3. CASE a # s /\ b # s
    BY <1>1, <2>3 DEF Inv, Exclusive
  <2> QED BY <2>1, <2>2, <2>3
<1>6. Tables' /\ AdminRemains'
  BY <1>1 DEF Inv, Tables, AdminRemains, CountedAdmins, vars
<1> QED BY <1>1, <1>2, <1>3, <1>5, <1>6 DEF Inv

-----------------------------------------------------------------------------
(* The commit. *)

OrgLock(o, mode) == [on |-> <<"org", o>>, mode |-> mode]

SameFlags == users' \in [Users -> User] /\ \A u \in Users : users'[u].disabled = users[u].disabled

\* What a commit does to the tables: at most one membership comes, which nobody
\* had, or those go that the request named, another admin remaining.
LEMMA CommitWrites ==
    ASSUME Inv, NEW s \in Sessions, Commit(s)
    PROVE  LET q == sessions[s]
           IN  /\ SameFlags /\ invitations' \subseteq Invitation
               /\ \/ memberships' = memberships
                  \/ /\ OrgLock(q.req.org, "U") \in q.locks
                     /\ \E m \in Membership :
                           /\ m.org = q.req.org /\ ~Held(m.org, m.user, m.role)
                           /\ memberships' = memberships \cup {m}
                  \/ /\ OrgLock(q.req.org, "U") \in q.locks
                     /\ memberships' = memberships \ q.row
                     /\ \A x \in q.row : SameSlot(x, q.req.org, q.req.user, q.req.role)
                     /\ q.req.role = "org_admin" => \E n \in CountedAdmins(q.req.org) : n \notin q.row
<1> DEFINE q == sessions[s]
           req == q.req
<1>1. /\ Shape(q) /\ q \in Session /\ q.phase = "running" /\ Running(s) /\ Decided(s) /\ Tables
      /\ req \in Requests /\ q.at = Len(Program[req.kind]) + 1 /\ Write(req, q.row)
      /\ q.row \subseteq Membership \cup Invitation
      /\ \A x \in q.row : SameSlot(x, req.org, req.user, req.role)
  BY DEF Commit, Inv, Running, Shape, Session
<1>2. /\ req.kind \in Kinds /\ req.org \in Orgs /\ req.me \in Users /\ req.user \in Users /\ req.role \in Roles
  BY <1>1, RequestTyped
<1>3. users' = users => SameFlags
  BY <1>1 DEF SameFlags, Tables
<1>4. /\ req.kind = "accept" => OrgLock(req.org, "U") \in q.locks /\ ~Held(req.org, req.user, req.role)
      /\ req.kind = "grant_org_admin" =>
            OrgLock(req.org, "U") \in q.locks /\ ~Held(req.org, req.user, "org_admin")
      /\ req.kind = "revoke_membership" =>
            /\ OrgLock(req.org, "U") \in q.locks
            /\ req.role = "org_admin" => \E n \in CountedAdmins(req.org) : n \notin q.row
  <2>1. /\ req.kind = "accept" => q.at = 5
        /\ req.kind = "grant_org_admin" => q.at = 4
        /\ req.kind = "revoke_membership" => q.at = 4
    <3> HIDE DEF q, req
    <3>1. /\ req.kind = "accept" => Len(Program[req.kind]) = 4
          /\ req.kind = "grant_org_admin" => Len(Program[req.kind]) = 3
          /\ req.kind = "revoke_membership" => Len(Program[req.kind]) = 3
      BY Lengths
    <3>2. Len(Program[req.kind]) = 4 => q.at = 5
      BY <1>1
    <3>3. Len(Program[req.kind]) = 3 => q.at = 4
      BY <1>1
    <3> QED BY <3>1, <3>2, <3>3
  <2>2. /\ req.kind = "accept" => q.at >= 5
        /\ req.kind = "grant_org_admin" => q.at >= 4 /\ q.at >= 3
        /\ req.kind = "revoke_membership" => q.at >= 4
    BY <2>1
  <2> QED BY <1>1, <2>2, OrgLocked DEF OrgLock, Decided
<1> HIDE DEF q, req
<1>5. ASSUME NEW m \in Membership, AddMembership(m), m.org = req.org, ~Held(m.org, m.user, m.role),
             OrgLock(req.org, "U") \in q.locks
      PROVE  /\ SameFlags /\ invitations' \subseteq Invitation
             /\ OrgLock(req.org, "U") \in q.locks
             /\ \E x \in Membership :
                   x.org = req.org /\ ~Held(x.org, x.user, x.role) /\ memberships' = memberships \cup {x}
  BY <1>1, <1>3, <1>5 DEF AddMembership, Tables
<1>6. CASE req.kind = "accept"
  <2>1. PICK i \in q.row : AddMembership([org |-> i.org, user |-> i.user, role |-> i.role, by |-> i.by])
    BY <1>1, <1>6 DEF Write
  <2>2. i.org = req.org /\ i.user = req.user /\ i.role = req.role /\ i.by \in Users
    BY <1>1, <2>1 DEF SameSlot, Membership, Invitation
  <2> DEFINE m == [org |-> i.org, user |-> i.user, role |-> i.role, by |-> i.by]
  <2>3. m \in Membership /\ m.org = req.org /\ m.user = req.user /\ m.role = req.role
    BY <1>2, <2>2 DEF Membership
  <2> HIDE DEF m
  <2>4. AddMembership(m)
    BY <2>1 DEF m
  <2> QED BY <1>4, <1>5, <1>6, <2>3, <2>4 DEF q, req
<1>7. CASE req.kind = "grant_org_admin"
  <2> DEFINE m == [org |-> req.org, user |-> req.user, role |-> "org_admin", by |-> req.me]
  <2>1. m \in Membership /\ m.org = req.org /\ m.user = req.user /\ m.role = "org_admin"
    BY <1>2 DEF Membership, Roles
  <2>2. AddMembership(m)
    BY <1>1, <1>7 DEF Write
  <2> HIDE DEF m
  <2> QED BY <1>4, <1>5, <1>7, <2>1, <2>2 DEF q, req
<1>8. CASE req.kind = "revoke_membership"
  <2>1. memberships' = memberships \ q.row /\ UNCHANGED <<users, invitations>>
    BY <1>1, <1>8 DEF Write
  <2> QED BY <1>1, <1>3, <1>4, <1>8, <2>1 DEF q, req, Tables
<1>9. CASE req.kind = "invite"
  <2>1. /\ users' = [users EXCEPT ![req.user].known = TRUE] /\ memberships' = memberships
        /\ invitations' = (invitations \ q.row) \cup {NewInvitation(req.org, req.user, req.role, req.me)}
    BY <1>1, <1>9 DEF Write
  <2>2. NewInvitation(req.org, req.user, req.role, req.me) \in Invitation
    BY <1>2, TTLAssumption DEF NewInvitation, Invitation
  <2>3. SameFlags
    BY <1>1, <1>2, <2>1 DEF SameFlags, Tables, User
  <2> QED BY <1>1, <2>1, <2>2, <2>3 DEF Tables, q, req
<1>10. CASE req.kind \in {"decline", "revoke_invitation"}
  <2>1. memberships' = memberships /\ users' = users /\ invitations' \subseteq invitations
    BY <1>1, <1>10 DEF Write, CloseInvitation
  <2> QED BY <1>1, <1>3, <2>1 DEF Tables
<1>11. CASE req.kind \in {"set_status", "grant_support"}
  <2>1. UNCHANGED <<memberships, users, invitations>>
    BY <1>1, <1>11 DEF Write
  <2> QED BY <1>1, <1>3, <2>1 DEF Tables
<1> QED BY <1>2, <1>6, <1>7, <1>8, <1>9, <1>10, <1>11 DEF Kinds

\* No commit changes the memberships of an organization that another session has
\* locked, and nobody's account is disabled by one.
LEMMA OthersHold ==
    ASSUME Inv, NEW s \in Sessions, Commit(s), NEW t \in Sessions, s # t, NEW o \in Orgs,
           OrgLock(o, "U") \in sessions[t].locks \/ OrgLock(o, "S") \in sessions[t].locks
    PROVE  /\ \A user, role : Held(o, user, role)' <=> Held(o, user, role)
           /\ CountedAdmins(o)' = CountedAdmins(o)
<1> DEFINE q == sessions[s]
<1>1. OrgLock(q.req.org, "U") \in q.locks => q.req.org # o
  <2> SUFFICES ASSUME OrgLock(o, "U") \in q.locks PROVE FALSE
    OBVIOUS
  <2>1. {"U", "U"} \in Conflict /\ {"U", "S"} \in Conflict
    BY DEF Conflict
  <2>2. \A a, b : OrgLock(o, a).on = OrgLock(o, b).on /\ OrgLock(o, a).mode = a
    BY DEF OrgLock
  <2> QED BY <2>1, <2>2 DEF Inv, Exclusive
<1>2. \A m : m.org = o => (m \in memberships' <=> m \in memberships)
  BY <1>1, CommitWrites DEF SameSlot
<1>3. ASSUME NEW user, NEW role PROVE Held(o, user, role)' <=> Held(o, user, role)
  BY <1>2 DEF Held, SameSlot
<1>4. \A m \in memberships : m.user \in Users => users'[m.user].disabled = users[m.user].disabled
  BY CommitWrites DEF SameFlags
<1>5. \A m \in memberships : m.user \in Users
  BY DEF Inv, Tables, Membership
<1>6. CountedAdmins(o)' = CountedAdmins(o)
  BY <1>2, <1>4, <1>5 DEF CountedAdmins
<1> QED BY <1>3, <1>6

LEMMA CommitInv ==
    ASSUME Inv, NEW s \in Sessions, Commit(s)
    PROVE  Inv'
<1> DEFINE q == sessions[s]
<1>1. /\ sessions \in [Sessions -> Session]
      /\ \A t \in Sessions : sessions[t] \in Session /\ Shape(sessions[t]) /\ Decided(t)
  BY DEF Inv
<1>2. /\ sessions' = [t \in Sessions |-> sessions'[t]]
      /\ sessions'[s] = Ended
      /\ \A t \in Sessions \ {s} :
            sessions'[t] = sessions[t] \/ sessions'[t] = [sessions[t] EXCEPT !.live = FALSE]
  BY DEF Commit
<1>3. ASSUME NEW t \in Sessions \ {s}
      PROVE  /\ sessions'[t] \in Session
             /\ sessions'[t].phase = sessions[t].phase /\ sessions'[t].req = sessions[t].req
             /\ sessions'[t].at = sessions[t].at /\ sessions'[t].locks = sessions[t].locks
             /\ sessions'[t].row = sessions[t].row
  <2>1. sessions[t] \in Session
    BY <1>1
  <2>2. CASE sessions'[t] = sessions[t]
    BY <2>1, <2>2
  <2>3. CASE sessions'[t] = [sessions[t] EXCEPT !.live = FALSE]
    BY <2>1, <2>3 DEF Session
  <2> QED BY <1>2, <2>2, <2>3
<1>4. \A t \in Sessions : sessions'[t] \in Session /\ Shape(sessions'[t])
  BY <1>1, <1>2, <1>3, EndedShaped DEF Shape
<1>5. sessions' \in [Sessions -> Session]
  BY <1>2, <1>4
<1>6. Exclusive'
  <2>1. sessions'[s].locks = {}
    BY <1>2, EndedShaped DEF Shape
  <2> QED BY <1>3, <2>1 DEF Inv, Exclusive
<1>7. ASSUME NEW t \in Sessions PROVE Decided(t)'
  <2>1. CASE t = s
    BY <1>2, <2>1, EndedShaped DEF Decided
  <2>2. CASE t # s
    <3> DEFINE w == sessions[t]
               o == w.req.org
    <3>1. CASE w.phase # "running"
      BY <1>3, <2>2, <3>1 DEF Decided
    <3>2. CASE w.phase = "running" /\ (OrgLock(o, "U") \in w.locks \/ OrgLock(o, "S") \in w.locks)
      <4>1. PICK c \in Orgs : c = o
        BY <1>1, <3>2, RequestTyped DEF Shape
      <4>2. /\ \A user, role : Held(c, user, role)' <=> Held(c, user, role)
            /\ CountedAdmins(c)' = CountedAdmins(c)
        BY <2>2, <3>2, <4>1, OthersHold
      <4>3. Decided(t) /\ sessions'[t].req = w.req /\ sessions'[t].at = w.at /\ sessions'[t].row = w.row
            /\ sessions'[t].phase = w.phase
        BY <1>1, <1>3, <2>2
      <4> QED BY <4>1, <4>2, <4>3 DEF Decided, Held, CountedAdmins
    <3>3. CASE w.phase = "running" /\ OrgLock(o, "U") \notin w.locks /\ OrgLock(o, "S") \notin w.locks
      <4>1. /\ w.req.kind = "accept" => ~(w.at >= 5)
            /\ w.req.kind = "grant_org_admin" => ~(w.at >= 3)
            /\ w.req.kind = "revoke_membership" => ~(w.at >= 4)
        BY <1>1, <3>3, OrgLocked DEF Running, OrgLock
      <4> QED BY <1>3, <2>2, <4>1 DEF Decided
    <3> QED BY <3>1, <3>2, <3>3
  <2> QED BY <2>1, <2>2
<1>8. Tables'
  <2>1. Tables /\ SameFlags /\ invitations' \subseteq Invitation
    BY CommitWrites DEF Inv
  <2>2. memberships' \subseteq Membership
    BY <2>1, CommitWrites DEF Tables
  <2>3. \A m, n \in memberships' : SameSlot(m, n.org, n.user, n.role) => m = n
    <3>1. CASE memberships' \subseteq memberships
      BY <2>1, <3>1 DEF Tables
    <3>2. ASSUME NEW x \in Membership, ~Held(x.org, x.user, x.role), memberships' = memberships \cup {x}
          PROVE  \A m, n \in memberships' : SameSlot(m, n.org, n.user, n.role) => m = n
      BY <2>1, <3>2 DEF Tables, Held, SameSlot
    <3> QED BY <3>1, <3>2, CommitWrites
  <2> QED BY <2>1, <2>2, <2>3 DEF Tables, SameFlags
<1>9. AdminRemains'
  <2> SUFFICES ASSUME NEW o \in Orgs PROVE CountedAdmins(o)' # {}
    BY DEF AdminRemains
  <2>1. \A m \in memberships : users'[m.user].disabled = users[m.user].disabled
    BY CommitWrites DEF SameFlags, Inv, Tables, Membership
  <2>2. \A n \in CountedAdmins(o) : n \in memberships' => n \in CountedAdmins(o)'
    BY <2>1 DEF CountedAdmins
  <2>3. PICK n \in CountedAdmins(o) : TRUE
    BY DEF Inv, AdminRemains
  <2>4. n \in memberships /\ n.org = o /\ n.role = "org_admin"
    BY DEF CountedAdmins
  <2>5. CASE memberships \subseteq memberships'
    BY <2>2, <2>3, <2>4, <2>5
  <2>6. CASE /\ memberships' = memberships \ q.row
             /\ \A x \in q.row : SameSlot(x, q.req.org, q.req.user, q.req.role)
             /\ q.req.role = "org_admin" => \E x \in CountedAdmins(q.req.org) : x \notin q.row
    <3>1. CASE n \notin q.row
      BY <2>2, <2>4, <2>6, <3>1
    <3>2. CASE n \in q.row
      <4>1. q.req.org = o /\ q.req.role = "org_admin"
        BY <2>4, <2>6, <3>2 DEF SameSlot
      <4>2. PICK x \in CountedAdmins(o) : x \notin q.row
        BY <2>6, <4>1
      <4>3. x \in memberships'
        BY <2>6, <4>2 DEF CountedAdmins
      <4> QED BY <2>2, <4>2, <4>3
    <3> QED BY <3>1, <3>2
  <2> QED BY <2>5, <2>6, CommitWrites
<1> QED BY <1>4, <1>5, <1>6, <1>7, <1>8, <1>9 DEF Inv

-----------------------------------------------------------------------------
(* The invariant, and what follows from it. *)

LEMMA InitInv == LInit => Inv
<1> SUFFICES ASSUME LInit PROVE Inv
  OBVIOUS
<1>1. PICK t \in InitialTables :
          users = t.users /\ memberships = t.memberships /\ invitations = t.invitations
  BY DEF LInit
<1>2. Tables
  BY <1>1, TablesAssumption DEF Tables
<1>3. AdminRemains
  <2> SUFFICES ASSUME NEW o \in Orgs PROVE CountedAdmins(o) # {}
    BY DEF AdminRemains
  <2>1. PICK m \in t.memberships : m.org = o /\ m.role = "org_admin" /\ ~t.users[m.user].disabled
    BY <1>1, AdminsAssumption
  <2> QED BY <1>1, <2>1 DEF CountedAdmins
<1>4. /\ sessions = [s \in Sessions |-> Quiet] /\ Quiet \in Session
      /\ Quiet.phase = "idle" /\ Quiet.locks = {}
  BY EndedShaped DEF LInit, Quiet
<1>5. sessions \in [Sessions -> Session] /\ \A s \in Sessions : Shape(sessions[s]) /\ Decided(s)
  BY <1>4 DEF Shape, Decided
<1>6. Exclusive
  BY <1>4 DEF Exclusive
<1> QED BY <1>2, <1>3, <1>5, <1>6 DEF Inv

LEMMA StepInv == Inv /\ [LNext]_lvars => Inv'
<1> SUFFICES ASSUME Inv, [LNext]_lvars PROVE Inv'
  OBVIOUS
<1>1. ASSUME NEW s \in Sessions, Begin(s) \/ Ask(s) \/ Acquire(s) \/ Decide(s) PROVE Inv'
  BY <1>1, BeginMoves, AskMoves, AcquireMoves, DecideMoves, OnwardInv
<1>2. ASSUME NEW s \in Sessions, Commit(s) PROVE Inv'
  BY <1>2, CommitInv
<1>3. ASSUME NEW s \in Sessions, Abort(s) \/ BreakDeadlock(s) PROVE Inv'
  BY <1>3, EndMoves, OnwardInv DEF Abort, BreakDeadlock
<1>4. CASE UNCHANGED lvars
  BY <1>4 DEF lvars, vars, Inv, Decided, Held, CountedAdmins, Exclusive, Tables, AdminRemains
<1> QED BY <1>1, <1>2, <1>3, <1>4 DEF LNext, Proceed

THEOREM AlwaysInv == LSpec => []Inv
BY InitInv, StepInv, PTL DEF LSpec

\* Sessions are at a step of their request, and only running ones hold locks: a
\* refusal, an abort and a commit leave nothing locked.
THEOREM SessionsAlwaysOK == LSpec => []SessionsOK
<1>1. Inv => SessionsOK
  BY DEF Inv, Shape, Session, SessionsOK
<1> QED BY <1>1, AlwaysInv, PTL

\* Requests that race to remove an organization's admins leave one, whatever
\* else is asked for at the same time.
THEOREM AdminAlwaysRemains == LSpec => []AdminRemains
<1>1. Inv => AdminRemains
  BY DEF Inv
<1> QED BY <1>1, AlwaysInv, PTL

-----------------------------------------------------------------------------
(* Deadlocks. *)

\* The requests that lock sender or membership, then organization, then invitation.
Orderly == {"accept", "invite", "revoke_membership", "set_status", "grant_support"}

OrgSteps == {"org KS", "org S", "org NKU", "org U"}

LEMMA LockOn ==
    ASSUME NEW req, NEW step \in LockSteps
    PROVE  /\ step \in OrgSteps => LockOf(req, step).on[1] = "org"
           /\ step = "sender" => LockOf(req, step).on[1] = "sender"
           /\ step = "row" => LockOf(req, step).on[1] =
                 IF req.kind = "revoke_membership" THEN "membership" ELSE "invitation"
<1>1. step \in OrgSteps => LockOf(req, step).on = <<"org", req.org>>
  BY DEF LockOf, OrgSteps
<1>2. step = "sender" => LockOf(req, step).on = <<"sender", req.me>>
  BY DEF LockOf
<1>3. step = "row" /\ req.kind = "revoke_membership" =>
          LockOf(req, step).on = <<"membership", req.org, req.user, req.role>>
  BY DEF LockOf
<1>4. step = "row" /\ req.kind # "revoke_membership" =>
          LockOf(req, step).on = <<"invitation", req.org, req.user, req.role>>
  BY DEF LockOf
<1>5. \A a, b, c, d : <<a, b>>[1] = a /\ <<a, b, c, d>>[1] = a
  OBVIOUS
<1> QED BY <1>1, <1>2, <1>3, <1>4, <1>5

\* In the program of an orderly request every lock but the last comes before one of a
\* later kind.
LEMMA InOrderOfKinds ==
    ASSUME NEW kind \in Orderly, NEW at \in 1..Len(Program[kind]), NEW i \in 1..(at - 1),
           Program[kind][at] \in LockSteps, Program[kind][i] \in LockSteps
    PROVE  \/ kind = "accept" /\ Program[kind][i] = "org U" /\ Program[kind][at] = "row"
           \/ /\ kind = "invite"
              /\ \/ Program[kind][i] = "sender" /\ Program[kind][at] \in {"org U", "row"}
                 \/ Program[kind][i] = "org U" /\ Program[kind][at] = "row"
           \/ kind = "revoke_membership" /\ Program[kind][i] = "row" /\ Program[kind][at] = "org U"
<1>1. "ask" \notin LockSteps /\ "decide" \notin LockSteps
  BY DEF LockSteps
<1>2. ASSUME Len(Program[kind]) \in {2, 3, 4, 6}
      PROVE  /\ Len(Program[kind]) = 2 => at = 2 /\ i = 1
             /\ Len(Program[kind]) = 3 => at \in {2, 3} /\ i \in {1, 2} /\ (at = 2 => i = 1)
             /\ Len(Program[kind]) = 4 => at \in {2, 3, 4} /\ i \in {1, 2, 3} /\ (at = 2 => i = 1) /\ (at = 3 => i # 3)
             /\ Len(Program[kind]) = 6 => /\ at \in {2, 3, 4, 5, 6} /\ i \in {1, 2, 3, 4, 5}
                                          /\ (at = 2 => i = 1) /\ (at = 3 => i \in {1, 2})
                                          /\ (at = 4 => i \in {1, 2, 3}) /\ (at = 5 => i # 5)
  BY <1>2
<1>3. CASE kind = "accept"
  <2>1. Len(Program[kind]) = 4
    BY <1>3, Lengths
  <2>2. at \in {2, 3, 4} /\ i \in {1, 2, 3} /\ (at = 2 => i = 1) /\ (at = 3 => i # 3)
    BY <1>2, <2>1
  <2> QED BY <1>1, <1>3, <2>2, StepsAre
<1>4. CASE kind = "invite"
  <2>1. Len(Program[kind]) = 6
    BY <1>4, Lengths
  <2>2. /\ at \in {2, 3, 4, 5, 6} /\ i \in {1, 2, 3, 4, 5}
        /\ (at = 2 => i = 1) /\ (at = 3 => i \in {1, 2})
        /\ (at = 4 => i \in {1, 2, 3}) /\ (at = 5 => i # 5)
    BY <1>2, <2>1
  <2> QED BY <1>1, <1>4, <2>2, StepsAre
<1>5. CASE kind = "revoke_membership"
  <2>1. Len(Program[kind]) = 3
    BY <1>5, Lengths
  <2>2. at \in {2, 3} /\ i \in {1, 2} /\ (at = 2 => i = 1)
    BY <1>2, <2>1
  <2> QED BY <1>1, <1>5, <2>2, StepsAre
<1>6. CASE kind = "set_status"
  <2>1. Len(Program[kind]) = 2
    BY <1>6, Lengths
  <2>2. at = 2
    BY <1>2, <2>1
  <2> QED BY <1>1, <1>6, <2>2, StepsAre
<1>7. CASE kind = "grant_support"
  <2>1. Len(Program[kind]) = 3
    BY <1>7, Lengths
  <2>2. at \in {2, 3} /\ i \in {1, 2} /\ (at = 2 => i = 1)
    BY <1>2, <2>1
  <2> QED BY <1>1, <1>7, <2>2, StepsAre
<1> QED BY <1>3, <1>4, <1>5, <1>6, <1>7 DEF Orderly

\* An orderly request holds nothing of the kind it waits for, or of a later one.
LEMMA Climbs ==
    ASSUME Inv, NEW s \in Sessions, HasStep(s, LockSteps), sessions[s].req.kind \in Orderly,
           NEW l \in sessions[s].locks
    PROVE  \/ Wanted(s).on[1] = "org" /\ l.on[1] \in {"sender", "membership"}
           \/ Wanted(s).on[1] = "invitation" /\ l.on[1] \in {"sender", "org"}
<1> DEFINE q == sessions[s]
           P == Program[q.req.kind]
<1>1. /\ Shape(q) /\ q.phase = "running" /\ q.req \in Requests /\ q.at \in Nat
      /\ q.at <= Len(P) /\ Step(s) = P[q.at] /\ Step(s) \in LockSteps
  BY AtStep
<1>2. q.locks = LocksBefore(q.req, q.at) /\ q.at \in 1..(Len(P) + 1)
  BY <1>1 DEF Shape
<1>3. q.at \in 1..Len(P)
  <2>1. Len(P) \in Nat
    BY <1>1, RequestTyped, Lengths
  <2> QED BY <1>1, <1>2, <2>1
<1>4. PICK i \in 1..(q.at - 1) : P[i] \in LockSteps /\ l = LockOf(q.req, P[i])
  BY <1>2 DEF LocksBefore
<1>5. Wanted(s) = LockOf(q.req, P[q.at])
  BY <1>1 DEF Wanted
<1>6. \/ q.req.kind = "accept" /\ P[i] = "org U" /\ P[q.at] = "row"
      \/ /\ q.req.kind = "invite"
         /\ \/ P[i] = "sender" /\ P[q.at] \in {"org U", "row"}
            \/ P[i] = "org U" /\ P[q.at] = "row"
      \/ q.req.kind = "revoke_membership" /\ P[i] = "row" /\ P[q.at] = "org U"
  <2> DEFINE kind == q.req.kind
             at == q.at
  <2>1. kind \in Orderly /\ at \in 1..Len(Program[kind]) /\ i \in 1..(at - 1)
    BY <1>3, <1>4
  <2>2. Program[kind][at] \in LockSteps /\ Program[kind][i] \in LockSteps
    BY <1>1, <1>4
  <2> HIDE DEF kind, at
  <2>3. \/ kind = "accept" /\ Program[kind][i] = "org U" /\ Program[kind][at] = "row"
        \/ /\ kind = "invite"
           /\ \/ Program[kind][i] = "sender" /\ Program[kind][at] \in {"org U", "row"}
              \/ Program[kind][i] = "org U" /\ Program[kind][at] = "row"
        \/ kind = "revoke_membership" /\ Program[kind][i] = "row" /\ Program[kind][at] = "org U"
    BY <2>1, <2>2, InOrderOfKinds
  <2> QED BY <2>3 DEF kind, at
<1>7. /\ P[i] = "org U" => l.on[1] = "org"
      /\ P[i] = "sender" => l.on[1] = "sender"
      /\ P[i] = "row" /\ q.req.kind = "revoke_membership" => l.on[1] = "membership"
  BY <1>4, LockOn DEF OrgSteps
<1>8. /\ P[q.at] = "org U" => Wanted(s).on[1] = "org"
      /\ P[q.at] = "row" /\ q.req.kind # "revoke_membership" => Wanted(s).on[1] = "invitation"
  <2>1. P[q.at] \in LockSteps
    BY <1>1
  <2> DEFINE step == P[q.at]
             w == Wanted(s)
             req == q.req
  <2>2. step \in LockSteps /\ w = LockOf(req, step)
    BY <1>5, <2>1
  <2> HIDE DEF step, w, req
  <2>3. /\ step = "org U" => w.on[1] = "org"
        /\ step = "row" /\ req.kind # "revoke_membership" => w.on[1] = "invitation"
    BY <2>2, LockOn DEF OrgSteps
  <2> QED BY <2>3 DEF step, w, req
<1> HIDE DEF q, P
<1> QED BY <1>6, <1>7, <1>8

\* Every deadlock has in it a request that closes an invitation, or grant-org-admin:
\* joining, leaving, inviting, consenting and stopping an organization never
\* deadlock, however many wait for one another.
THEOREM OnlyTheUnordered == LSpec => []OnlyTheUnorderedDeadlock
<1>1. ASSUME Inv PROVE OnlyTheUnorderedDeadlock
  <2> SUFFICES ASSUME NEW S \in SUBSET Sessions, Deadlocked(S),
                      \A s \in S : sessions[s].req.kind \notin {"decline", "revoke_invitation", "grant_org_admin"}
               PROVE  FALSE
    BY DEF OnlyTheUnorderedDeadlock
  <2>1. ASSUME NEW s \in S
        PROVE  \E t \in S, l \in Lock : l \in sessions[t].locks /\ l.on = Wanted(s).on
    BY <1>1 DEF Deadlocked, WaitsFor, Inv, Session
  <2>2. ASSUME NEW s \in S
        PROVE  HasStep(s, LockSteps) /\ sessions[s].req.kind \in Orderly /\ s \in Sessions
    <3>1. HasStep(s, LockSteps)
      BY DEF Deadlocked, WaitsFor
    <3>2. sessions[s].req.kind \in Kinds
      BY <1>1, <3>1, AtStep, RequestTyped
    <3> QED BY <3>1, <3>2 DEF Kinds, Orderly
  <2>3. ASSUME NEW s \in S PROVE Wanted(s).on[1] # "invitation"
    BY <1>1, <2>1, <2>2, Climbs
  <2>4. ASSUME NEW s \in S PROVE Wanted(s).on[1] # "org"
    BY <1>1, <2>1, <2>2, <2>3, Climbs
  <2>5. PICK s \in S : TRUE
    BY DEF Deadlocked
  <2> QED BY <1>1, <2>1, <2>2, <2>3, <2>4, <2>5, Climbs
<1> QED BY <1>1, AlwaysInv, PTL

-----------------------------------------------------------------------------
(* The tables change as in Tenancy. *)

\* Two invitations under the locks of different organizations may pass GlobalCap
\* together (see InviteFlow): what follows is about one organization.
OneOrganization == \A p, r \in Requests : p.org = r.org

\* Tenancy's bounds on its state never stop a request.
AmpleBounds ==
    /\ \A S \in SUBSET Invitation : Cardinality(S) < MaxOpen
    /\ ~IsFiniteSet(GrantIds)
    /\ \A req \in Requests : req.kind = "set_status" => req.org \in Stoppable

\* The session has been through its decision.
Past(q) == \E i \in 1..(q.at - 1) : Program[q.req.kind][i] = "decide"

RowKinds == {"accept", "decline", "invite", "revoke_membership"}

\* What a session was allowed it is still allowed, and the row it found is still there;
\* but for the revocation of an invitation, which may be late.
Still(s) ==
    LET q == sessions[s]
    IN  q.phase = "running" =>
            /\ Past(q) /\ q.req.kind # "revoke_invitation" => Allowed(q.req, TRUE)
            /\ Past(q) /\ q.req.kind \in RowKinds => q.row = RowOf(q.req)
            /\ q.req.kind = "invite" /\ q.at >= 5 => InviteGate(q.req.me, q.req.org, q.req.role)

Rows ==
    /\ \A i, j \in invitations : SameSlot(i, j.org, j.user, j.role) => i = j
    /\ \A i \in invitations : ~users[i.by].vendor
    /\ IsFiniteSet({g.id : g \in grants})

SerialInv == (\A s \in Sessions : Still(s)) /\ Rows

\* The answers depend on the tables alone.
LEMMA SameAnswers ==
    ASSUME UNCHANGED vars, NEW req, NEW live
    PROVE  /\ Allowed(req, live)' <=> Allowed(req, live)
           /\ RowOf(req)' = RowOf(req)
           /\ InviteGate(req.me, req.org, req.role)' <=> InviteGate(req.me, req.org, req.role)
<1>1. RowOf(req)' = RowOf(req)
  BY DEF vars, RowOf, RowIn
<1>2. \A o, u, roles : Member(o, u, roles)' <=> Member(o, u, roles)
  BY DEF vars, Member, Active
<1>3. InviteGate(req.me, req.org, req.role)' <=> InviteGate(req.me, req.org, req.role)
  BY <1>2 DEF vars, InviteGate, CanInvite
<1>4. /\ \A o, u, r : Held(o, u, r)' <=> Held(o, u, r)
      /\ \A u : (Active(u)' <=> Active(u)) /\ (PlatformAdmin(u)' <=> PlatformAdmin(u))
      /\ \A m : OtherAdmins(m)' = OtherAdmins(m)
  BY DEF vars, Held, Active, PlatformAdmin, OtherAdmins, CountedAdmins
<1>5. Allowed(req, live)' <=> Allowed(req, live)
  BY <1>1, <1>2, <1>4 DEF vars, Allowed, InviterStillMay, CanInvite, MayConsent
<1> QED BY <1>1, <1>3, <1>5

\* Those of two kinds do not depend on the invitations.
LEMMA SameWithoutInvitations ==
    ASSUME UNCHANGED <<users, orgs, memberships>>
    PROVE  \A req : req.kind \in {"grant_org_admin", "set_status"} /\ Allowed(req, TRUE) => Allowed(req, TRUE)'
<1>1. \A o, u, roles : Member(o, u, roles)' <=> Member(o, u, roles)
  BY DEF Member, Active
<1>2. /\ \A o, u, r : Held(o, u, r)' <=> Held(o, u, r)
      /\ \A u : (Active(u)' <=> Active(u)) /\ (PlatformAdmin(u)' <=> PlatformAdmin(u))
  BY DEF Held, Active, PlatformAdmin
<1> QED BY <1>1, <1>2 DEF Allowed

LEMMA PastGrows ==
    ASSUME NEW q, NEW n, q.at \in Nat \ {0}, n.req = q.req, n.at = q.at + 1
    PROVE  Past(n) <=> Past(q) \/ Program[q.req.kind][q.at] = "decide"
<1>1. 1..(n.at - 1) = (1..(q.at - 1)) \cup {q.at}
  OBVIOUS
<1> QED BY <1>1 DEF Past

\* A step that leaves the tables alone.
LEMMA QuietStep ==
    ASSUME Inv, SerialInv, NEW s \in Sessions, Onward(s), Still(s)'
    PROVE  SerialInv'
<1>1. UNCHANGED vars /\ \A t \in Sessions \ {s} : sessions'[t] = sessions[t]
  BY DEF Onward, Inv
<1>2. ASSUME NEW t \in Sessions \ {s} PROVE Still(t)'
  <2> DEFINE q == sessions[t]
  <2>1. Still(t) /\ sessions'[t] = q
    BY <1>1 DEF SerialInv
  <2>2. /\ Allowed(q.req, TRUE) => Allowed(q.req, TRUE)'
        /\ InviteGate(q.req.me, q.req.org, q.req.role) => InviteGate(q.req.me, q.req.org, q.req.role)'
        /\ RowOf(q.req)' = RowOf(q.req)
    <3>1. \A req : /\ Allowed(req, TRUE) => Allowed(req, TRUE)'
                   /\ InviteGate(req.me, req.org, req.role) => InviteGate(req.me, req.org, req.role)'
                   /\ RowOf(req)' = RowOf(req)
      BY <1>1, SameAnswers
    <3> QED BY <2>1, <3>1
  <2> QED BY <2>1, <2>2 DEF Still, Past
<1>3. Rows'
  BY <1>1 DEF SerialInv, Rows, vars
<1> QED BY <1>2, <1>3 DEF SerialInv

LEMMA EndsStill ==
    ASSUME Inv, SerialInv, NEW s \in Sessions, sessions' = [sessions EXCEPT ![s] = Ended], UNCHANGED vars
    PROVE  SerialInv'
<1>1. sessions'[s] = Ended /\ Ended.phase = "done"
  BY EndedShaped DEF Inv
<1>2. Still(s)'
  BY <1>1 DEF Still
<1> QED BY <1>2, EndMoves, QuietStep

LEMMA BeginsStill ==
    ASSUME Inv, SerialInv, NEW s \in Sessions, Begin(s)
    PROVE  SerialInv'
<1>1. sessions'[s].at = 1
  BY DEF Begin, Inv, Quiet
<1>2. Still(s)'
  BY <1>1 DEF Still, Past
<1> QED BY <1>2, BeginMoves, QuietStep

\* A step before or after the decision.
LEMMA PassingStill ==
    ASSUME Inv, SerialInv, NEW s \in Sessions, Onward(s), sessions[s].phase = "running",
           sessions[s].at \in Nat \ {0},
           Program[sessions[s].req.kind][sessions[s].at] # "decide",
           sessions'[s].req = sessions[s].req, sessions'[s].at = sessions[s].at + 1,
           sessions'[s].row = sessions[s].row,
           sessions[s].req.kind = "invite" /\ sessions[s].at = 4 =>
              InviteGate(sessions[s].req.me, sessions[s].req.org, sessions[s].req.role)
    PROVE  SerialInv'
<1> DEFINE q == sessions[s]
           n == sessions'[s]
<1>1. Past(n) <=> Past(q)
  BY PastGrows
<1>2. n.at >= 5 => q.at >= 5 \/ q.at = 4
  OBVIOUS
<1>3. Still(s) /\ UNCHANGED vars
  BY DEF SerialInv, Onward
<1>4. /\ Allowed(q.req, TRUE) => Allowed(q.req, TRUE)'
      /\ InviteGate(q.req.me, q.req.org, q.req.role) => InviteGate(q.req.me, q.req.org, q.req.role)'
      /\ RowOf(q.req)' = RowOf(q.req)
  <2>1. \A req : /\ Allowed(req, TRUE) => Allowed(req, TRUE)'
                 /\ InviteGate(req.me, req.org, req.role) => InviteGate(req.me, req.org, req.role)'
                 /\ RowOf(req)' = RowOf(req)
    BY <1>3, SameAnswers
  <2> QED BY <2>1
<1>5. Still(s)'
  BY <1>1, <1>2, <1>3, <1>4 DEF Still, Past
<1> QED BY <1>5, QuietStep

LEMMA AsksStill ==
    ASSUME Inv, SerialInv, NEW s \in Sessions, Ask(s)
    PROVE  SerialInv'
<1> DEFINE q == sessions[s]
           n == sessions'[s]
<1>1. /\ sessions \in [Sessions -> Session] /\ q \in Session /\ Shape(q) /\ q.phase = "running"
      /\ q.at \in Nat \ {0} /\ Program[q.req.kind][q.at] = "ask"
  BY AtStep DEF Ask, Shape
<1>2. CASE ~AskAnswer(q.req)
  <2>1. sessions' = [sessions EXCEPT ![s] = Ended] /\ UNCHANGED vars
    BY <1>2 DEF Ask, Refused
  <2> QED BY <2>1, EndsStill
<1>3. CASE AskAnswer(q.req)
  <2>1. n = [q EXCEPT !.at = q.at + 1]
    BY <1>1, <1>3 DEF Ask, Advance
  <2>2. n.req = q.req /\ n.at = q.at + 1 /\ n.row = q.row
    BY <1>1, <2>1 DEF Session
  <2>3. q.req.kind = "invite" => InviteGate(q.req.me, q.req.org, q.req.role)
    BY <1>3 DEF AskAnswer
  <2> QED BY <1>1, <2>2, <2>3, AskMoves, PassingStill
<1> QED BY <1>2, <1>3

LEMMA AcquiresStill ==
    ASSUME Inv, SerialInv, NEW s \in Sessions, Acquire(s)
    PROVE  SerialInv'
<1> DEFINE q == sessions[s]
           n == sessions'[s]
<1>1. /\ sessions \in [Sessions -> Session] /\ q \in Session /\ Shape(q) /\ q.phase = "running"
      /\ q.at \in Nat \ {0} /\ Program[q.req.kind][q.at] \in LockSteps
  BY AtStep DEF Acquire, Shape
<1>2. "decide" \notin LockSteps /\ "ask" \notin LockSteps
  BY DEF LockSteps
<1>3. n = [q EXCEPT !.at = q.at + 1, !.locks = q.locks \cup {Wanted(s)}]
  BY <1>1 DEF Acquire, Advance
<1>4. n.req = q.req /\ n.at = q.at + 1 /\ n.row = q.row
  <2> DEFINE w == q.locks \cup {Wanted(s)}
             k == q.at + 1
  <2> HIDE DEF w, k
  <2>1. n = [q EXCEPT !.at = k, !.locks = w]
    BY <1>3 DEF w, k
  <2>2. n.req = q.req /\ n.at = k /\ n.row = q.row
    BY <1>1, <2>1 DEF Session
  <2> QED BY <2>2 DEF k
<1>5. ~(q.req.kind = "invite" /\ q.at = 4)
  BY <1>1, <1>2, StepsAre
<1> QED BY <1>1, <1>2, <1>4, <1>5, AcquireMoves, PassingStill

LEMMA AllowedWhileLive ==
    ASSUME NEW req, req.kind \in Kinds, NEW live \in BOOLEAN, Allowed(req, live)
    PROVE  Allowed(req, TRUE)
<1>1. CASE live = TRUE
  BY <1>1
<1>2. CASE live = FALSE
  <2>1. req.kind \notin {"accept", "decline", "revoke_invitation", "revoke_membership"}
    BY <1>2, Zenon DEF Allowed
  <2>2. req.kind \in {"invite", "grant_org_admin", "set_status", "grant_support"}
    BY <2>1 DEF Kinds
  <2> QED BY <2>2 DEF Allowed
<1> QED BY <1>1, <1>2

LEMMA DecidesStill ==
    ASSUME Inv, SerialInv, NEW s \in Sessions, Decide(s)
    PROVE  SerialInv'
<1> DEFINE q == sessions[s]
           n == sessions'[s]
<1>1. /\ sessions \in [Sessions -> Session] /\ q \in Session /\ Shape(q) /\ q.phase = "running"
      /\ q.at \in Nat \ {0} /\ Program[q.req.kind][q.at] = "decide" /\ UNCHANGED vars /\ Still(s)
  BY AtStep DEF Decide, Shape, SerialInv
<1>2. CASE ~Allowed(q.req, q.live)
  <2>1. sessions' = [sessions EXCEPT ![s] = Ended]
    BY <1>2 DEF Decide, Refused
  <2> QED BY <1>1, <2>1, EndsStill
<1>3. CASE Allowed(q.req, q.live)
  <2> DEFINE row == RowOf(q.req)
             k == q.at + 1
  <2>1. n = [q EXCEPT !.at = k, !.row = row]
    BY <1>1, <1>3 DEF Decide, Advance
  <2>2. n.req = q.req /\ n.at = k /\ n.row = row
    <3> HIDE DEF row, k
    <3> QED BY <1>1, <2>1 DEF Session
  <2>3. Allowed(q.req, TRUE)
    <3>1. q.req.kind \in Kinds /\ q.live \in BOOLEAN
      BY <1>1, RequestTyped DEF Shape, Session
    <3> QED BY <1>3, <3>1, AllowedWhileLive
  <2>4. ~(q.req.kind = "invite" /\ q.at = 4)
    BY <1>1, StepsAre
  <2>5. n.at >= 5 => q.at >= 5 \/ q.at = 4
    BY <1>1, <2>2
  <2>6. /\ Allowed(q.req, TRUE)'
        /\ InviteGate(q.req.me, q.req.org, q.req.role) => InviteGate(q.req.me, q.req.org, q.req.role)'
        /\ RowOf(q.req)' = RowOf(q.req)
    <3>1. \A req : /\ Allowed(req, TRUE) => Allowed(req, TRUE)'
                   /\ InviteGate(req.me, req.org, req.role) => InviteGate(req.me, req.org, req.role)'
                   /\ RowOf(req)' = RowOf(req)
      BY <1>1, SameAnswers
    <3>2. n.req = q.req
      BY <2>2
    <3> QED BY <2>3, <3>1, <3>2
  <2>7. Still(s)'
    BY <1>1, <2>2, <2>4, <2>5, <2>6 DEF Still
  <2> QED BY <2>7, DecideMoves, QuietStep
<1> QED BY <1>2, <1>3

\* What a program has gone through with its step d.
Through(kind, d, step) == \E i \in 1..d : Program[kind][i] = step

LEMMA ThroughWhole ==
    ASSUME NEW kind \in Kinds
    PROVE  LET Has(step) == Through(kind, Len(Program[kind]), step)
           IN  /\ Has("decide")
               /\ kind \in {"accept", "decline", "revoke_invitation", "invite"} => Has("row")
               /\ kind \in {"decline", "revoke_invitation"} => Has("org KS")
               /\ kind = "set_status" => Has("org NKU")
               /\ kind \notin {"decline", "revoke_invitation", "set_status"} => Has("org U")
<1> DEFINE P == Program[kind]
<1>1. ASSUME NEW n \in Nat, Len(P) = n, NEW i \in 1..n, NEW step, P[i] = step
      PROVE  Through(kind, Len(P), step)
  BY <1>1 DEF Through
<1>2. ASSUME kind \in {"decline", "revoke_invitation"}
      PROVE  Len(P) = 3 /\ P[1] = "row" /\ P[2] = "decide" /\ P[3] = "org KS"
  <2>1. P = <<"row", "decide", "org KS">>
    BY <1>2, ProgramIs
  <2> HIDE DEF P
  <2> QED BY <2>1
<1>3. 1 \in 1..2 /\ 2 \in 1..2 /\ {1, 2, 3} \subseteq 1..3 /\ {2, 3, 4} \subseteq 1..4 /\ {3, 5, 6} \subseteq 1..6
  OBVIOUS
<1>4. CASE kind \in {"decline", "revoke_invitation"}
  <2>1. Through(kind, Len(P), "row") /\ Through(kind, Len(P), "decide") /\ Through(kind, Len(P), "org KS")
    BY <1>1, <1>2, <1>3, <1>4
  <2> QED BY <1>4, <2>1
<1>5. CASE kind = "accept"
  <2>1. Len(P) = 4 /\ P[2] = "org U" /\ P[3] = "row" /\ P[4] = "decide"
    BY <1>5, Lengths, StepsAre
  <2>2. Through(kind, Len(P), "row") /\ Through(kind, Len(P), "decide") /\ Through(kind, Len(P), "org U")
    BY <1>1, <1>3, <2>1
  <2> QED BY <1>5, <2>2
<1>6. CASE kind = "invite"
  <2>1. Len(P) = 6 /\ P[3] = "org U" /\ P[5] = "row" /\ P[6] = "decide"
    BY <1>6, Lengths, StepsAre
  <2>2. Through(kind, Len(P), "row") /\ Through(kind, Len(P), "decide") /\ Through(kind, Len(P), "org U")
    BY <1>1, <1>3, <2>1
  <2> QED BY <1>6, <2>2
<1>7. CASE kind \in {"revoke_membership", "grant_support"}
  <2>1. Len(P) = 3 /\ P[2] = "org U" /\ P[3] = "decide"
    BY <1>7, Lengths, StepsAre
  <2>2. Through(kind, Len(P), "decide") /\ Through(kind, Len(P), "org U")
    BY <1>1, <1>3, <2>1
  <2> QED BY <1>7, <2>2
<1>8. CASE kind = "grant_org_admin"
  <2>1. Len(P) = 3 /\ P[2] = "decide" /\ P[3] = "org U"
    BY <1>8, Lengths, StepsAre
  <2>2. Through(kind, Len(P), "decide") /\ Through(kind, Len(P), "org U")
    BY <1>1, <1>3, <2>1
  <2> QED BY <1>8, <2>2
<1>9. CASE kind = "set_status"
  <2>1. Len(P) = 2 /\ P[1] = "org NKU" /\ P[2] = "decide"
    BY <1>9, Lengths, StepsAre
  <2>2. Through(kind, Len(P), "decide") /\ Through(kind, Len(P), "org NKU")
    BY <1>1, <1>3, <2>1
  <2> QED BY <1>9, <2>2
<1> QED BY <1>4, <1>5, <1>6, <1>7, <1>8, <1>9 DEF Kinds

LEMMA ThroughDecision ==
    ASSUME NEW kind \in Kinds, NEW d \in 1..Len(Program[kind]), Program[kind][d] = "decide"
    PROVE  /\ kind = "accept" => Through(kind, d, "org U") /\ Through(kind, d, "row")
           /\ kind = "decline" => Through(kind, d, "row")
           /\ kind = "invite" => Through(kind, d, "org U") /\ Through(kind, d, "row")
           /\ kind = "revoke_membership" => Through(kind, d, "org U")
           /\ kind = "grant_org_admin" => Through(kind, d, "org S")
           /\ kind = "set_status" => Through(kind, d, "org NKU")
           /\ kind = "grant_support" => Through(kind, d, "org U")
<1>1. d \in Nat \ {0} /\ 1 \in 1..d
  BY Lengths
<1>2. CASE kind = "accept"
  <2>1. d \in {1, 2, 3, 4}
    BY <1>2, Lengths
  <2>2. d = 4
    BY <1>2, <2>1, StepsAre
  <2>3. 2 \in 1..d /\ 3 \in 1..d
    BY <2>2
  <2> QED BY <1>2, <2>3, StepsAre DEF Through
<1>3. CASE kind = "invite"
  <2>1. d \in {1, 2, 3, 4, 5, 6}
    BY <1>3, Lengths
  <2>2. d = 6
    BY <1>3, <2>1, StepsAre
  <2>3. 3 \in 1..d /\ 5 \in 1..d
    BY <2>2
  <2> QED BY <1>3, <2>3, StepsAre DEF Through
<1>4. CASE kind \in {"revoke_membership", "grant_support"}
  <2>1. d \in {1, 2, 3}
    BY <1>4, Lengths
  <2>2. d = 3
    BY <1>4, <2>1, StepsAre
  <2>3. 2 \in 1..d
    BY <2>2
  <2> QED BY <1>4, <2>3, StepsAre DEF Through
<1>5. CASE kind = "decline"
  <2>1. Program[kind][1] = "row"
    <3> DEFINE P == Program[kind]
    <3>1. P = <<"row", "decide", "org KS">>
      BY <1>5, ProgramIs
    <3> HIDE DEF P
    <3>2. P[1] = "row"
      BY <3>1
    <3> QED BY <3>2 DEF P
  <2> QED BY <1>1, <1>5, <2>1 DEF Through
<1>6. CASE kind = "grant_org_admin"
  BY <1>1, <1>6, StepsAre DEF Through
<1>7. CASE kind = "set_status"
  BY <1>1, <1>7, StepsAre DEF Through
<1> QED BY <1>2, <1>3, <1>4, <1>5, <1>6, <1>7

\* Whoever has gone through a lock step has the lock.
LEMMA ThroughLocks ==
    ASSUME NEW s \in Sessions, Shape(sessions[s]), Running(s), NEW d \in Nat, d <= sessions[s].at - 1,
           NEW step \in LockSteps, Through(sessions[s].req.kind, d, step)
    PROVE  LockOf(sessions[s].req, step) \in sessions[s].locks
<1>1. PICK i \in 1..d : Program[sessions[s].req.kind][i] = step
  BY DEF Through
<1>2. i \in 1..(sessions[s].at - 1)
  BY DEF Shape, Session
<1> QED BY <1>1, <1>2, LockHeld

\* The mode in which each kind of request has its organization locked once it has
\* decided, and whose invitation.
LEMMA PastLocks ==
    ASSUME NEW s \in Sessions, Shape(sessions[s]), Running(s), Past(sessions[s])
    PROVE  LET q == sessions[s]
               Has(step) == LockOf(q.req, step) \in q.locks
           IN  /\ q.req.kind = "accept" => Has("org U") /\ Has("row")
               /\ q.req.kind = "decline" => Has("row")
               /\ q.req.kind = "invite" => Has("org U") /\ Has("row")
               /\ q.req.kind = "revoke_membership" => Has("org U")
               /\ q.req.kind = "grant_org_admin" => Has("org S")
               /\ q.req.kind = "set_status" => Has("org NKU")
               /\ q.req.kind = "grant_support" => Has("org U")
<1> DEFINE q == sessions[s]
           kind == q.req.kind
<1>1. q.at \in Nat /\ q.at <= Len(Program[kind]) + 1 /\ kind \in Kinds /\ Len(Program[kind]) \in Nat
  BY RequestTyped, Lengths DEF Shape, Session, Running
<1>2. PICK d \in 1..(q.at - 1) : Program[kind][d] = "decide"
  BY DEF Past
<1>3. d \in 1..Len(Program[kind]) /\ d \in Nat /\ d <= q.at - 1
  BY <1>1, <1>2
<1>4. {"org U", "org S", "org NKU", "row"} \subseteq LockSteps
  BY DEF LockSteps
<1>5. \A step \in {"org U", "org S", "org NKU", "row"} :
          Through(kind, d, step) => LockOf(q.req, step) \in q.locks
  BY <1>3, <1>4, ThroughLocks
<1>6. /\ kind = "accept" => Through(kind, d, "org U") /\ Through(kind, d, "row")
      /\ kind = "decline" => Through(kind, d, "row")
      /\ kind = "invite" => Through(kind, d, "org U") /\ Through(kind, d, "row")
      /\ kind = "revoke_membership" => Through(kind, d, "org U")
      /\ kind = "grant_org_admin" => Through(kind, d, "org S")
      /\ kind = "set_status" => Through(kind, d, "org NKU")
      /\ kind = "grant_support" => Through(kind, d, "org U")
  <2> HIDE DEF kind
  <2> QED BY <1>1, <1>2, <1>3, ThroughDecision
<1> QED BY <1>5, <1>6

\* Under the sender's lock and the organization's, invite asks again.
LEMMA InviterLocks ==
    ASSUME NEW s \in Sessions, Shape(sessions[s]), Running(s),
           sessions[s].req.kind = "invite", sessions[s].at >= 5
    PROVE  LockOf(sessions[s].req, "org U") \in sessions[s].locks
<1>1. sessions[s].at \in Nat
  BY DEF Shape, Session
<1>2. 3 \in 1..(sessions[s].at - 1) /\ "org U" \in LockSteps
  BY <1>1 DEF LockSteps
<1> QED BY <1>2, LockHeld, StepsAre

\* A request that commits has been allowed, and has its organization locked too:
\* FOR UPDATE, FOR NO KEY UPDATE to stop it, FOR KEY SHARE to close an invitation.
LEMMA Committing ==
    ASSUME Inv, NEW s \in Sessions, Commit(s)
    PROVE  LET q == sessions[s]
               Has(step) == LockOf(q.req, step) \in q.locks
           IN  /\ Shape(q) /\ Running(s) /\ q.phase = "running" /\ Past(q)
               /\ q.req \in Requests /\ q.req.kind \in Kinds /\ Write(q.req, q.row)
               /\ q.req.kind = "invite" => q.at >= 5
               /\ q.req.kind \in {"accept", "decline", "revoke_invitation", "invite"} => Has("row")
               /\ q.req.kind \in {"decline", "revoke_invitation"} => Has("org KS")
               /\ q.req.kind = "set_status" => Has("org NKU")
               /\ q.req.kind \notin {"decline", "revoke_invitation", "set_status"} => Has("org U")
<1> DEFINE q == sessions[s]
           kind == q.req.kind
           n == Len(Program[kind])
<1>1. /\ Shape(q) /\ Running(s) /\ q.phase = "running" /\ q.req \in Requests /\ kind \in Kinds
      /\ Write(q.req, q.row) /\ q.at = n + 1 /\ n \in Nat
  BY RequestTyped, Lengths DEF Commit, Inv, Shape, Running
<1>2. n <= q.at - 1 /\ 1..n = 1..(q.at - 1)
  <2> HIDE DEF n
  <2> QED BY <1>1
<1>3. {"org U", "org KS", "org NKU", "row"} \subseteq LockSteps
  BY DEF LockSteps
<1>4. \A step \in {"org U", "org KS", "org NKU", "row"} :
          Through(kind, n, step) => LockOf(q.req, step) \in q.locks
  BY <1>1, <1>2, <1>3, ThroughLocks
<1>5. /\ Through(kind, n, "decide")
      /\ kind \in {"accept", "decline", "revoke_invitation", "invite"} => Through(kind, n, "row")
      /\ kind \in {"decline", "revoke_invitation"} => Through(kind, n, "org KS")
      /\ kind = "set_status" => Through(kind, n, "org NKU")
      /\ kind \notin {"decline", "revoke_invitation", "set_status"} => Through(kind, n, "org U")
  <2>1. kind \in Kinds
    BY <1>1
  <2> HIDE DEF kind
  <2> QED BY <2>1, ThroughWhole
<1>6. Past(q)
  BY <1>2, <1>5 DEF Past, Through
<1>7. kind = "invite" => q.at >= 5
  <2>1. kind = "invite" => n = 6
    BY Lengths
  <2> HIDE DEF n
  <2> QED BY <1>1, <2>1
<1> QED BY <1>1, <1>4, <1>5, <1>6, <1>7

\* Nobody else commits while a request has its organization locked FOR UPDATE, and
\* while it has it locked to read or to stop it only invitations are closed.
LEMMA OthersWait ==
    ASSUME Inv, OneOrganization, NEW s \in Sessions, Commit(s), NEW t \in Sessions, s # t, Running(t)
    PROVE  LET q == sessions[t]
               Has(step) == LockOf(q.req, step) \in q.locks
           IN  /\ ~Has("org U")
               /\ Has("org S") \/ Has("org NKU") => sessions[s].req.kind \in {"decline", "revoke_invitation"}
<1> DEFINE p == sessions[s]
           q == sessions[t]
           o == p.req.org
           Has(r, step) == LockOf(r.req, step) \in r.locks
<1>1. q.req.org = o
  BY Committing DEF OneOrganization, Inv, Shape, Running
<1>2. /\ LockOf(p.req, "org KS") = OrgLock(o, "KS") /\ LockOf(p.req, "org NKU") = OrgLock(o, "NKU")
      /\ LockOf(p.req, "org U") = OrgLock(o, "U")
      /\ LockOf(q.req, "org S") = OrgLock(o, "S") /\ LockOf(q.req, "org NKU") = OrgLock(o, "NKU")
      /\ LockOf(q.req, "org U") = OrgLock(o, "U")
  BY <1>1 DEF LockOf, OrgLock
<1>3. \A a, b : OrgLock(o, a) \in p.locks /\ OrgLock(o, b) \in q.locks => {a, b} \notin Conflict
  <2>1. \A a, b : OrgLock(o, a).on = OrgLock(o, b).on /\ OrgLock(o, a).mode = a
    BY DEF OrgLock
  <2> QED BY <2>1 DEF Inv, Exclusive
<1>4. /\ {"KS", "U"} \in Conflict /\ {"NKU", "U"} \in Conflict /\ {"U", "U"} \in Conflict
      /\ {"NKU", "S"} \in Conflict /\ {"NKU", "NKU"} \in Conflict /\ {"U", "S"} \in Conflict
      /\ {"U", "NKU"} \in Conflict
  BY DEF Conflict
<1>5. /\ p.req.kind \in {"decline", "revoke_invitation"} => OrgLock(o, "KS") \in p.locks
      /\ p.req.kind = "set_status" => OrgLock(o, "NKU") \in p.locks
      /\ p.req.kind \notin {"decline", "revoke_invitation", "set_status"} => OrgLock(o, "U") \in p.locks
  BY <1>2, Committing
<1> HIDE DEF o, p, q
<1>6. ~(OrgLock(o, "U") \in q.locks)
  BY <1>3, <1>4, <1>5
<1>7. OrgLock(o, "S") \in q.locks \/ OrgLock(o, "NKU") \in q.locks
         => p.req.kind \in {"decline", "revoke_invitation"}
  BY <1>3, <1>4, <1>5
<1> QED BY <1>2, <1>6, <1>7 DEF p, q

\* Two requests about one invitation do not both commit before either has let go of it.
LEMMA OtherRow ==
    ASSUME Inv, NEW s \in Sessions, NEW t \in Sessions, s # t,
           LockOf(sessions[s].req, "row") \in sessions[s].locks,
           LockOf(sessions[t].req, "row") \in sessions[t].locks,
           sessions[s].req.kind # "revoke_membership", sessions[t].req.kind # "revoke_membership",
           NEW i, SameSlot(i, sessions[s].req.org, sessions[s].req.user, sessions[s].req.role)
    PROVE  ~SameSlot(i, sessions[t].req.org, sessions[t].req.user, sessions[t].req.role)
<1> SUFFICES ASSUME SameSlot(i, sessions[t].req.org, sessions[t].req.user, sessions[t].req.role)
             PROVE  FALSE
  OBVIOUS
<1> DEFINE l == [on |-> <<"invitation", i.org, i.user, i.role>>, mode |-> "U"]
<1>1. LockOf(sessions[s].req, "row") = l /\ LockOf(sessions[t].req, "row") = l
  BY DEF LockOf, SameSlot
<1>2. {"U", "U"} \in Conflict /\ l.mode = "U"
  BY DEF Conflict
<1> HIDE DEF l
<1> QED BY <1>1, <1>2 DEF Inv, Exclusive

-----------------------------------------------------------------------------
(* What a commit changes. *)

\* Of people: at most somebody unknown gets a row.  Of invitations: at most that of
\* the request's slot, one of its sender's comes and one goes.
LEMMA CommitChanges ==
    ASSUME Inv, SerialInv, NEW s \in Sessions, Commit(s)
    PROVE  LET q == sessions[s]
           IN  /\ users' \in [Users -> User]
               /\ \A u \in Users :
                     /\ users'[u].vendor = users[u].vendor /\ users'[u].disabled = users[u].disabled
                     /\ users[u].known => users'[u].known
               /\ q.req.kind \in {"decline", "revoke_invitation"} => UNCHANGED <<users, orgs, memberships>>
               /\ \A i : ~SameSlot(i, q.req.org, q.req.user, q.req.role) =>
                            (i \in invitations' <=> i \in invitations)
               /\ q.req.kind \notin {"accept", "decline", "revoke_invitation", "invite"} =>
                     invitations' = invitations
               /\ \/ invitations' \subseteq invitations
                  \/ /\ q.req.kind = "invite" /\ InviteGate(q.req.me, q.req.org, q.req.role)
                     /\ invitations' = (invitations \ RowOf(q.req))
                           \cup {NewInvitation(q.req.org, q.req.user, q.req.role, q.req.me)}
               /\ \/ grants' = grants
                  \/ \E g : grants' = grants \cup {g}
<1> DEFINE q == sessions[s]
           req == q.req
           row == q.row
<1>1. /\ Shape(q) /\ Past(q) /\ q.phase = "running" /\ req \in Requests /\ req.kind \in Kinds /\ Write(req, row)
      /\ req.kind = "invite" => q.at >= 5
      /\ Still(s) /\ Tables /\ Rows
      /\ \A x \in row : SameSlot(x, req.org, req.user, req.role)
  BY Committing DEF Inv, SerialInv, Shape
<1>2. req.org \in Orgs /\ req.me \in Users /\ req.user \in Users /\ req.role \in Roles
  BY <1>1, RequestTyped
<1>3. /\ req.kind = "grant_org_admin" => PlatformAdmin(req.me)
      /\ req.kind = "invite" => InviteGate(req.me, req.org, req.role) /\ row = RowOf(req)
  BY <1>1 DEF Still, RowKinds, Allowed
<1> HIDE DEF q, req, row
<1>4. users' = users =>
         /\ users' \in [Users -> User]
         /\ \A u \in Users :
               /\ users'[u].vendor = users[u].vendor /\ users'[u].disabled = users[u].disabled
               /\ users[u].known => users'[u].known
  BY <1>1 DEF Tables
<1>5. CASE req.kind = "accept"
  <2>1. PICK i \in row : AddMembership([org |-> i.org, user |-> i.user, role |-> i.role, by |-> i.by])
    BY <1>1, <1>5 DEF Write
  <2>2. /\ users' = users /\ grants' = grants /\ invitations' \subseteq invitations
        /\ \A j \in invitations \ invitations' : SameSlot(j, i.org, i.user, i.role)
    BY <2>1 DEF AddMembership, ClosedBy
  <2>3. i.org = req.org /\ i.user = req.user /\ i.role = req.role
    BY <1>1 DEF SameSlot
  <2> QED BY <1>4, <1>5, <2>2, <2>3 DEF q, req
<1>6. CASE req.kind \in {"decline", "revoke_invitation"}
  <2>1. PICK i \in row : CloseInvitation(i)
    BY <1>1, <1>6 DEF Write
  <2>2. /\ UNCHANGED <<users, orgs, memberships, grants>> /\ invitations' = invitations \ {i}
    BY <2>1 DEF CloseInvitation
  <2>3. SameSlot(i, req.org, req.user, req.role)
    BY <1>1
  <2> QED BY <1>4, <1>6, <2>2, <2>3 DEF q, req
<1>7. CASE req.kind = "invite"
  <2> DEFINE new == NewInvitation(req.org, req.user, req.role, req.me)
  <2>1. /\ users' = [users EXCEPT ![req.user].known = TRUE]
        /\ invitations' = (invitations \ row) \cup {new} /\ UNCHANGED <<orgs, memberships, grants>>
    BY <1>1, <1>7 DEF Write
  <2>2. SameSlot(new, req.org, req.user, req.role)
    BY DEF NewInvitation, SameSlot
  <2>3. /\ users' \in [Users -> User]
        /\ \A u \in Users :
              /\ users'[u].vendor = users[u].vendor /\ users'[u].disabled = users[u].disabled
              /\ users[u].known => users'[u].known
    BY <1>1, <1>2, <2>1 DEF Tables, User
  <2>4. \A i : ~SameSlot(i, req.org, req.user, req.role) => (i \in invitations' <=> i \in invitations)
    BY <1>1, <2>1, <2>2
  <2> QED BY <1>3, <1>7, <2>1, <2>3, <2>4 DEF q, req
<1>8. CASE req.kind = "grant_org_admin"
  <2> DEFINE m == [org |-> req.org, user |-> req.user, role |-> "org_admin", by |-> req.me]
  <2>1. AddMembership(m)
    BY <1>1, <1>8 DEF Write
  <2>2. ClosedBy(m) = {}
    <3>1. users[req.me].vendor
      BY <1>3, <1>8 DEF PlatformAdmin
    <3> QED BY <1>1, <3>1 DEF ClosedBy, Rows
  <2>3. users' = users /\ grants' = grants /\ invitations' = invitations
    BY <2>1, <2>2 DEF AddMembership
  <2> QED BY <1>4, <1>8, <2>3 DEF q, req
<1>9. CASE req.kind \in {"revoke_membership", "set_status"}
  <2>1. users' = users /\ grants' = grants /\ invitations' = invitations
    BY <1>1, <1>9 DEF Write
  <2> QED BY <1>4, <1>9, <2>1 DEF q, req
<1>10. CASE req.kind = "grant_support"
  <2>1. users' = users /\ invitations' = invitations /\ \E g : grants' = grants \cup {g}
    BY <1>1, <1>10 DEF Write
  <2> QED BY <1>4, <1>10, <2>1 DEF q, req
<1> QED BY <1>1, <1>5, <1>6, <1>7, <1>8, <1>9, <1>10 DEF Kinds

LEMMA CommitStill ==
    ASSUME Inv, SerialInv, OneOrganization, NEW s \in Sessions, Commit(s), NEW t \in Sessions, t # s
    PROVE  Still(t)'
<1> DEFINE p == sessions[s]
           q == sessions[t]
           n == sessions'[t]
<1>1. q \in Session /\ Shape(q) /\ Still(t) /\ Tables
  BY DEF Inv, SerialInv
<1>2. n.phase = q.phase /\ n.req = q.req /\ n.at = q.at /\ n.row = q.row
  <2>1. n = q \/ n = [q EXCEPT !.live = FALSE]
    BY DEF Commit
  <2> HIDE DEF n, q
  <2> QED BY <1>1, <2>1 DEF Session
<1>3. Past(n) <=> Past(q)
  BY <1>2 DEF Past
<1> SUFFICES ASSUME q.phase = "running" PROVE Still(t)'
  BY <1>2 DEF Still
<1>4. Running(t) /\ q.req \in Requests /\ q.req.kind \in Kinds
  BY <1>1, RequestTyped DEF Running, Shape
<1>5. ~(LockOf(q.req, "org U") \in q.locks)
  BY <1>4, OthersWait
<1>6. ~(q.req.kind = "invite" /\ q.at >= 5)
  BY <1>1, <1>4, <1>5, InviterLocks
<1>7. CASE ~Past(q)
  BY <1>2, <1>3, <1>6, <1>7 DEF Still
<1>8. CASE Past(q)
  <2>1. q.req.kind \in {"decline", "revoke_invitation", "grant_org_admin", "set_status"}
    BY <1>1, <1>4, <1>5, <1>8, PastLocks DEF Kinds
  <2>2. CASE q.req.kind = "revoke_invitation"
    BY <1>2, <2>2 DEF Still, RowKinds
  <2>3. CASE q.req.kind \in {"grant_org_admin", "set_status"}
    <3>1. p.req.kind \in {"decline", "revoke_invitation"}
      BY <1>1, <1>4, <1>8, <2>3, PastLocks, OthersWait
    <3>2. UNCHANGED <<users, orgs, memberships>>
      BY <3>1, CommitChanges
    <3>3. Allowed(q.req, TRUE)
      BY <1>1, <1>8, <2>3 DEF Still
    <3>4. \A req : req.kind \in {"grant_org_admin", "set_status"} /\ Allowed(req, TRUE) => Allowed(req, TRUE)'
      BY <3>2, SameWithoutInvitations
    <3>5. Allowed(q.req, TRUE)'
      BY <1>2, <2>3, <3>3, <3>4
    <3> QED BY <1>2, <2>3, <3>5 DEF Still, RowKinds
  <2>4. CASE q.req.kind = "decline"
    <3>1. LockOf(q.req, "row") \in q.locks
      BY <1>1, <1>4, <1>8, <2>4, PastLocks
    <3>2. \A i : SameSlot(i, q.req.org, q.req.user, q.req.role) => (i \in invitations' <=> i \in invitations)
      <4>1. CASE p.req.kind \in {"accept", "decline", "revoke_invitation", "invite"}
        <5>1. LockOf(p.req, "row") \in p.locks
          BY <4>1, Committing
        <5>2. \A i : SameSlot(i, q.req.org, q.req.user, q.req.role) =>
                  ~SameSlot(i, p.req.org, p.req.user, p.req.role)
          BY <2>4, <3>1, <4>1, <5>1, OtherRow
        <5> QED BY <5>2, CommitChanges
      <4>2. CASE p.req.kind \notin {"accept", "decline", "revoke_invitation", "invite"}
        BY <4>2, CommitChanges
      <4> QED BY <4>1, <4>2
    <3>3. RowOf(q.req)' = RowOf(q.req)
      <4>1. RowOf(q.req) = {i \in invitations : SameSlot(i, q.req.org, q.req.user, q.req.role)}
        BY <2>4 DEF RowOf, RowIn
      <4>2. RowOf(q.req)' = {i \in invitations' : SameSlot(i, q.req.org, q.req.user, q.req.role)}
        BY <1>2, <2>4 DEF RowOf, RowIn
      <4> QED BY <3>2, <4>1, <4>2
    <3>4. Allowed(q.req, TRUE) /\ q.row = RowOf(q.req)
      BY <1>1, <1>8, <2>4 DEF Still, RowKinds
    <3>5. q.req.me \in Users /\ Active(q.req.me) /\ \E i \in RowOf(q.req) : i.left > 0
      BY <1>4, <2>4, <3>4, RequestTyped DEF Allowed
    <3>6. Active(q.req.me)'
      BY <1>2, <3>5, CommitChanges DEF Active
    <3>7. Allowed(q.req, TRUE)'
      BY <1>2, <2>4, <3>3, <3>5, <3>6 DEF Allowed
    <3> QED BY <1>2, <2>4, <3>3, <3>4, <3>7 DEF Still
  <2> QED BY <2>1, <2>2, <2>3, <2>4
<1> QED BY <1>7, <1>8

LEMMA CommitRows ==
    ASSUME Inv, SerialInv, NEW s \in Sessions, Commit(s)
    PROVE  Rows'
<1> DEFINE req == sessions[s].req
           new == NewInvitation(req.org, req.user, req.role, req.me)
<1>1. Rows /\ Tables /\ req \in Requests
  BY Committing DEF SerialInv, Inv
<1>2. req.org \in Orgs /\ req.me \in Users /\ req.user \in Users /\ req.role \in Roles
  BY <1>1, RequestTyped
<1>3. /\ \A u \in Users : users'[u].vendor = users[u].vendor
      /\ \/ invitations' \subseteq invitations
         \/ /\ req.kind = "invite" /\ InviteGate(req.me, req.org, req.role)
            /\ invitations' = (invitations \ RowOf(req)) \cup {new}
      /\ grants' = grants \/ \E g : grants' = grants \cup {g}
  BY CommitChanges
<1> HIDE DEF req
<1>4. IsFiniteSet({g.id : g \in grants'})
  <2>1. CASE grants' = grants
    BY <1>1, <2>1 DEF Rows
  <2>2. ASSUME NEW g, grants' = grants \cup {g} PROVE IsFiniteSet({h.id : h \in grants'})
    <3>1. {h.id : h \in grants'} = {h.id : h \in grants} \cup {g.id}
      BY <2>2
    <3>2. IsFiniteSet({h.id : h \in grants})
      BY <1>1 DEF Rows
    <3> QED BY <3>1, <3>2, FS_AddElement
  <2> QED BY <1>3, <2>1, <2>2
<1>5. \A i \in invitations : i.by \in Users
  BY <1>1 DEF Tables, Invitation
<1>6. CASE invitations' \subseteq invitations
  BY <1>1, <1>3, <1>4, <1>5, <1>6 DEF Rows
<1>7. CASE /\ req.kind = "invite" /\ InviteGate(req.me, req.org, req.role)
           /\ invitations' = (invitations \ RowOf(req)) \cup {new}
  <2>1. new.org = req.org /\ new.user = req.user /\ new.role = req.role /\ new.by = req.me
    BY DEF NewInvitation
  <2>2. ~users[req.me].vendor
    BY <1>7 DEF InviteGate, CanInvite, Member
  <2>3. \A i \in invitations' : i # new => i \in invitations /\ ~SameSlot(i, new.org, new.user, new.role)
    BY <1>7, <2>1 DEF RowOf, RowIn
  <2>4. \A i, j \in invitations' : SameSlot(i, j.org, j.user, j.role) => i = j
    <3> HIDE DEF new
    <3> QED BY <1>1, <2>3 DEF Rows, SameSlot
  <2>5. \A i \in invitations' : ~users'[i.by].vendor
    <3> HIDE DEF new
    <3> QED BY <1>1, <1>2, <1>3, <1>5, <2>1, <2>2, <2>3 DEF Rows
  <2> QED BY <1>4, <2>4, <2>5 DEF Rows
<1> QED BY <1>3, <1>6, <1>7

LEMMA SerialStep == Inv /\ SerialInv /\ OneOrganization /\ [LNext]_lvars => SerialInv'
<1> SUFFICES ASSUME Inv, SerialInv, OneOrganization, [LNext]_lvars PROVE SerialInv'
  OBVIOUS
<1>1. ASSUME NEW s \in Sessions, Begin(s) PROVE SerialInv'
  BY <1>1, BeginsStill
<1>2. ASSUME NEW s \in Sessions, Ask(s) PROVE SerialInv'
  BY <1>2, AsksStill
<1>3. ASSUME NEW s \in Sessions, Acquire(s) PROVE SerialInv'
  BY <1>3, AcquiresStill
<1>4. ASSUME NEW s \in Sessions, Decide(s) PROVE SerialInv'
  BY <1>4, DecidesStill
<1>5. ASSUME NEW s \in Sessions, Commit(s) PROVE SerialInv'
  <2>1. sessions'[s].phase = "done"
    BY <1>5, EndedShaped DEF Commit
  <2>2. Still(s)'
    BY <2>1 DEF Still
  <2> QED BY <1>5, <2>2, CommitStill, CommitRows DEF SerialInv
<1>6. ASSUME NEW s \in Sessions, Abort(s) \/ BreakDeadlock(s) PROVE SerialInv'
  BY <1>6, EndsStill DEF Abort, BreakDeadlock
<1>7. CASE UNCHANGED lvars
  <2>1. UNCHANGED vars /\ UNCHANGED sessions
    BY <1>7 DEF lvars
  <2>2. ASSUME NEW t \in Sessions PROVE Still(t)'
    <3> DEFINE q == sessions[t]
    <3>1. Still(t) /\ sessions'[t] = q
      BY <2>1 DEF SerialInv
    <3>2. \A req : /\ Allowed(req, TRUE) => Allowed(req, TRUE)'
                   /\ InviteGate(req.me, req.org, req.role) => InviteGate(req.me, req.org, req.role)'
                   /\ RowOf(req)' = RowOf(req)
      BY <2>1, SameAnswers
    <3>3. /\ Allowed(q.req, TRUE) => Allowed(q.req, TRUE)'
          /\ InviteGate(q.req.me, q.req.org, q.req.role) => InviteGate(q.req.me, q.req.org, q.req.role)'
          /\ RowOf(q.req)' = RowOf(q.req)
      BY <3>1, <3>2
    <3> QED BY <3>1, <3>3 DEF Still, Past
  <2>3. Rows'
    BY <2>1 DEF SerialInv, Rows, vars
  <2> QED BY <2>2, <2>3 DEF SerialInv
<1> QED BY <1>1, <1>2, <1>3, <1>4, <1>5, <1>6, <1>7 DEF LNext, Proceed

\* Every commit is a step of Tenancy, the late revocation of an invitation excepted.
LEMMA CommitSerial ==
    ASSUME Inv, SerialInv, AmpleBounds, NEW s \in Sessions, Commit(s)
    PROVE  UNCHANGED vars \/ Next \/ LateRevocation
<1> DEFINE req == sessions[s].req
           row == sessions[s].row
<1>1. /\ Running(s) /\ req \in Requests /\ req.kind \in Kinds /\ Write(req, row) /\ Rows /\ Tables
      /\ req.kind # "revoke_invitation" => Allowed(req, TRUE)
      /\ req.kind \in RowKinds => row = RowOf(req)
      /\ req.kind = "invite" => InviteGate(req.me, req.org, req.role)
  BY Committing DEF Inv, SerialInv, Still
<1>2. req \in Request /\ req.org \in Orgs /\ req.me \in Users /\ req.user \in Users /\ req.role \in Roles
  BY <1>1, RequestTyped
<1>3. CASE req.kind = "revoke_invitation"
  <2>1. \E i \in row : CloseInvitation(i)
    BY <1>1, <1>3 DEF Write
  <2> QED BY <1>1, <1>3, <2>1 DEF LateRevocation
<1> HIDE DEF req, row
<1>4. req.kind \in {"accept", "decline", "invite", "revoke_invitation"} =>
          RowOf(req) = {i \in invitations : SameSlot(i, req.org, req.user, req.role)}
  BY DEF RowOf, RowIn
<1>5. \A i, j \in invitations : SameSlot(i, req.org, req.user, req.role) /\ SameSlot(j, req.org, req.user, req.role) => i = j
  BY <1>1 DEF Rows, SameSlot
<1>6. CASE req.kind = "accept"
  <2>1. PICK i \in row : AddMembership([org |-> i.org, user |-> i.user, role |-> i.role, by |-> i.by])
    BY <1>1, <1>6 DEF Write
  <2>2. i \in invitations /\ i.org = req.org /\ i.user = req.user /\ i.role = req.role
    BY <1>1, <1>4, <1>6 DEF RowKinds, SameSlot
  <2>3. /\ orgs[req.org] = "active" /\ Active(req.me) /\ ~users[req.me].vendor /\ ~Held(req.org, req.user, req.role)
        /\ \E j \in RowOf(req) : j.left > 0 /\ InviterStillMay(j)
    BY <1>1, <1>6 DEF Allowed
  <2>4. i.left > 0 /\ InviterStillMay(i)
    BY <1>1, <1>4, <1>5, <1>6, <2>1, <2>3 DEF RowKinds
  <2>5. req.me = req.user
    BY <1>1, <1>6, RequestsAssumption
  <2>6. AcceptInvitation(i)
    BY <2>1, <2>2, <2>3, <2>4, <2>5 DEF AcceptInvitation
  <2> QED BY <2>2, <2>6 DEF Next, InvitationStep
<1>7. CASE req.kind = "decline"
  <2>1. PICK i \in row : CloseInvitation(i)
    BY <1>1, <1>7 DEF Write
  <2>2. i \in invitations /\ i.user = req.user
    BY <1>1, <1>4, <1>7 DEF RowKinds, SameSlot
  <2>3. Active(req.me) /\ \E j \in RowOf(req) : j.left > 0
    BY <1>1, <1>7 DEF Allowed
  <2>4. i.left > 0
    BY <1>1, <1>4, <1>5, <1>7, <2>1, <2>3 DEF RowKinds
  <2>5. req.me = req.user
    BY <1>1, <1>7, RequestsAssumption
  <2>6. DeclineInvitation(i)
    BY <2>1, <2>2, <2>3, <2>4, <2>5 DEF DeclineInvitation
  <2> QED BY <2>2, <2>6 DEF Next, InvitationStep
<1>8. CASE req.kind = "invite"
  <2>1. row = OpenFor(req.org, req.user, req.role)
    BY <1>1, <1>4, <1>8 DEF RowKinds, OpenFor
  <2>2. req.user # req.me /\ \A i \in row : i.left = 0
    BY <1>1, <1>8 DEF Allowed, RowKinds
  <2>3. Cardinality(invitations \ row) < MaxOpen
    BY <1>1 DEF AmpleBounds, Tables
  <2>4. /\ users' = [users EXCEPT ![req.user].known = TRUE]
        /\ invitations' = (invitations \ row) \cup {NewInvitation(req.org, req.user, req.role, req.me)}
        /\ sent' = [sent EXCEPT ![req.org][req.me] = @ + 1]
        /\ UNCHANGED <<orgs, memberships, grants, granted, vendors>>
    BY <1>1, <1>8 DEF Write
  <2>5. InviteUser(req.me, req.org, req.user, req.role)
    BY <1>1, <1>8, <2>1, <2>2, <2>3, <2>4 DEF InviteUser
  <2> QED BY <1>2, <2>5 DEF Next, InvitationStep
<1>9. CASE req.kind = "revoke_membership"
  <2>1. memberships' = memberships \ row /\ UNCHANGED <<users, orgs, invitations, grants, sent, granted, vendors>>
    BY <1>1, <1>9 DEF Write
  <2>2. row = {m \in memberships : SameSlot(m, req.org, req.user, req.role)}
    BY <1>1, <1>9 DEF RowKinds, RowOf, RowIn
  <2>3. CASE row = {}
    BY <2>1, <2>3 DEF vars
  <2>4. ASSUME NEW m \in row PROVE RevokeMembership(req.me, m)
    <3>1. m \in memberships /\ m.org = req.org /\ m.user = req.user /\ m.role = req.role
      BY <2>2 DEF SameSlot
    <3>2. row = {m}
      BY <1>1, <2>2 DEF Tables, SameSlot
    <3>3. /\ Member(req.org, req.me, {"org_admin"}) \/ (req.user = req.me /\ Active(req.me))
          /\ \A x \in RowOf(req) : x.role = "org_admin" => OtherAdmins(x) # {}
      BY <1>1, <1>9 DEF Allowed
    <3>4. m.role = "org_admin" => OtherAdmins(m) # {}
      BY <1>1, <1>9, <3>3 DEF RowKinds
    <3> QED BY <2>1, <3>1, <3>2, <3>3, <3>4 DEF RevokeMembership
  <2>5. \A m \in row : m \in memberships
    BY <2>2
  <2> QED BY <1>2, <2>3, <2>4, <2>5 DEF Next, MemberStep
<1>10. CASE req.kind = "grant_org_admin"
  <2>1. GrantOrgAdmin(req.me, req.org, req.user)
    BY <1>1, <1>10 DEF Allowed, Write, GrantOrgAdmin
  <2> QED BY <1>2, <2>1 DEF Next, OperatorStep
<1>11. CASE req.kind = "set_status"
  <2>1. /\ orgs[req.org] \in Statuses \ {"closed", req.status} /\ orgs' = [orgs EXCEPT ![req.org] = req.status]
        /\ UNCHANGED <<users, memberships, invitations, grants, sent, granted, vendors>>
    BY <1>1, <1>11 DEF Allowed, Write
  <2>2. req.status \in Statuses /\ req.org \in Stoppable
    BY <1>1, <1>2, <1>11 DEF Request, AmpleBounds
  <2>3. SetOrgStatus(req.org, req.status)
    BY <2>1 DEF SetOrgStatus
  <2> QED BY <2>2, <2>3 DEF Next, OperatorStep
<1>12. CASE req.kind = "grant_support"
  <2>1. MayConsent(req.me, req.org) /\ req.user # req.me /\ PlatformAdmin(req.user)
    BY <1>1, <1>12 DEF Allowed
  <2>2. PICK left \in 1..TTL :
           /\ grants' = grants \cup
                 {[id |-> FreshId, org |-> req.org, support |-> req.user, by |-> req.me, left |-> left]}
           /\ UNCHANGED <<users, orgs, memberships, invitations, sent, granted, vendors>>
    BY <1>1, <1>12 DEF Write
  <2> DEFINE ids == {g.id : g \in grants}
  <2>3. \E id \in GrantIds : id \notin ids
    <3> SUFFICES ASSUME GrantIds \in SUBSET ids PROVE FALSE
      OBVIOUS
    <3>1. IsFiniteSet(ids)
      BY <1>1 DEF Rows
    <3> HIDE DEF ids
    <3>2. IsFiniteSet(GrantIds)
      BY <3>1, FS_Subset
    <3> QED BY <3>2 DEF AmpleBounds
  <2>4. FreshId \in GrantIds \ ids
    BY <2>3 DEF FreshId
  <2>5. GrantSupportAccess(req.me, req.org, req.user, left)
    BY <2>1, <2>2, <2>4 DEF GrantSupportAccess
  <2> QED BY <1>2, <2>5 DEF Next, MemberStep
<1> QED BY <1>1, <1>3, <1>6, <1>7, <1>8, <1>9, <1>10, <1>11, <1>12 DEF Kinds

LEMMA SerialStarts == LInit => SerialInv
<1> SUFFICES ASSUME LInit PROVE SerialInv
  OBVIOUS
<1>1. PICK t \in InitialTables : users = t.users /\ invitations = t.invitations /\ grants = t.grants
  BY DEF LInit
<1>2. IsFiniteSet({g.id : g \in grants})
  <2> DEFINE ids == {g.id : g \in grants}
             idOf == [g \in grants |-> g.id]
  <2>1. idOf \in Surjection(grants, ids)
    BY DEF Surjection
  <2>2. IsFiniteSet(grants)
    BY <1>1, TablesAssumption
  <2> HIDE DEF ids, idOf
  <2>3. IsFiniteSet(ids)
    BY <2>1, <2>2, FS_Surjection
  <2> QED BY <2>3 DEF ids
<1>3. Rows
  BY <1>1, <1>2, TablesAssumption DEF Rows
<1>4. \A s \in Sessions : Still(s)
  BY DEF LInit, Quiet, Still
<1> QED BY <1>3, <1>4 DEF SerialInv

\* However requests interleave, the tables change as if each had run alone, in the
\* order of the commits, but for the late revocation of an invitation: OrgLocking
\* implements Tenancy, for any people, sessions and requests about one organization.
THEOREM AlwaysSerializable ==
    ASSUME OneOrganization, AmpleBounds
    PROVE  LSpec => Serializable
<1>1. Inv /\ SerialInv /\ [LNext]_lvars => [UNCHANGED vars \/ Next \/ LateRevocation]_vars
  <2> SUFFICES ASSUME Inv, SerialInv, [LNext]_lvars PROVE UNCHANGED vars \/ Next \/ LateRevocation
    OBVIOUS
  <2>1. ASSUME NEW s \in Sessions, Commit(s) PROVE UNCHANGED vars \/ Next \/ LateRevocation
    BY <2>1, CommitSerial
  <2>2. CASE ~\E s \in Sessions : Commit(s)
    BY <2>2 DEF LNext, Proceed, Begin, Ask, Acquire, Decide, Abort, BreakDeadlock, lvars
  <2> QED BY <2>1, <2>2
<1>2. LInit => SerialInv
  BY SerialStarts
<1>3. Inv /\ SerialInv /\ [LNext]_lvars => SerialInv'
  BY SerialStep
<1> QED BY <1>1, <1>2, <1>3, AlwaysInv, PTL DEF LSpec, Serializable
-----------------------------------------------------------------------------
(* Requests go on: what EveryRequestEnds says without its fairness. *)

\* The requests whose commit writes the row they found.
RowWriters == {"accept", "decline", "revoke_invitation"}

\* The next statement of session s runs as soon as it is sent: a question, a
\* decision, a lock that nobody holds against it, or a commit that has what it writes.
CanGoOn(s) ==
    \/ HasStep(s, {"ask", "decide"})
    \/ HasStep(s, LockSteps) /\ \A t \in Sessions : ~WaitsFor(s, t)
    \/ /\ Running(s)
       /\ sessions[s].at = Len(Program[sessions[s].req.kind]) + 1
       /\ sessions[s].req.kind \in RowWriters => sessions[s].row # {}

SomebodyGoesOn ==
    (\E s \in Sessions : Running(s)) =>
        \/ \E s \in Sessions : CanGoOn(s)
        \/ \E S \in SUBSET Sessions : Deadlocked(S)

\* Session s starts, takes the next step of its program, or ends.
Forward(s) ==
    LET q == sessions[s]
        n == sessions'[s]
    IN  \/ q.phase = "idle" /\ n.phase = "running" /\ n.at = 1
        \/ /\ q.phase = "running" /\ n.phase = "running" /\ n.req = q.req
           /\ n.at = q.at + 1 /\ n.at <= Len(Program[q.req.kind]) + 1
        \/ q.phase = "running" /\ n.phase = "done"

\* Session s stays where it is; at most it learns that its row is gone.
StaysAt(s) ==
    LET q == sessions[s]
        n == sessions'[s]
    IN  n.phase = q.phase /\ n.req = q.req /\ n.at = q.at /\ n.locks = q.locks /\ n.row = q.row

EveryStepForward ==
    [][\E s \in Sessions : Forward(s) /\ \A t \in Sessions \ {s} : StaysAt(t)]_lvars

\* Who has decided to write a row has found one.
RowFound(s) ==
    LET q == sessions[s]
    IN  q.phase = "running" /\ Past(q) /\ q.req.kind \in RowWriters => q.row # {}

RowInv == \A s \in Sessions : RowFound(s)

\* What each step does to the session that takes it.
LEMMA EndsForward ==
    ASSUME Inv, RowInv, NEW s \in Sessions, Running(s),
           sessions' = [sessions EXCEPT ![s] = Ended]
    PROVE  RowInv' /\ Forward(s) /\ \A t \in Sessions \ {s} : StaysAt(t)
<1>1. /\ sessions'[s] = Ended /\ Ended.phase = "done" /\ sessions[s].phase = "running"
      /\ \A t \in Sessions \ {s} : sessions'[t] = sessions[t]
  BY EndedShaped DEF Inv, Running
<1>2. ASSUME NEW t \in Sessions PROVE RowFound(t)'
  BY <1>1 DEF RowInv, RowFound, Past
<1> QED BY <1>1, <1>2 DEF RowInv, Forward, StaysAt

LEMMA BeginsForward ==
    ASSUME Inv, RowInv, NEW s \in Sessions, Begin(s)
    PROVE  RowInv' /\ Forward(s) /\ \A t \in Sessions \ {s} : StaysAt(t)
<1>1. /\ sessions[s].phase = "idle" /\ sessions'[s].phase = "running" /\ sessions'[s].at = 1
      /\ \A t \in Sessions \ {s} : sessions'[t] = sessions[t]
  BY DEF Begin, Inv, Quiet
<1>2. ASSUME NEW t \in Sessions PROVE RowFound(t)'
  BY <1>1 DEF RowInv, RowFound, Past
<1> QED BY <1>1, <1>2 DEF RowInv, Forward, StaysAt

\* A step of a program that is no refusal.
LEMMA StepsForward ==
    ASSUME Inv, RowInv, NEW s \in Sessions, NEW steps, HasStep(s, steps),
           \A t \in Sessions \ {s} : sessions'[t] = sessions[t],
           sessions'[s].phase = "running", sessions'[s].req = sessions[s].req,
           sessions'[s].at = sessions[s].at + 1,
           \/ "decide" \notin steps /\ sessions'[s].row = sessions[s].row
           \/ sessions[s].req.kind \in RowWriters => sessions'[s].row # {}
    PROVE  RowInv' /\ Forward(s) /\ \A t \in Sessions \ {s} : StaysAt(t)
<1> DEFINE q == sessions[s]
           n == sessions'[s]
<1>1. /\ q.phase = "running" /\ q.req \in Requests /\ q.at \in Nat \ {0}
      /\ q.at <= Len(Program[q.req.kind]) /\ Program[q.req.kind][q.at] \in steps
  BY AtStep DEF Shape
<1>2. Len(Program[q.req.kind]) \in Nat
  BY <1>1, RequestTyped, Lengths
<1>3. Past(n) <=> Past(q) \/ Program[q.req.kind][q.at] = "decide"
  BY <1>1, PastGrows
<1>4. RowFound(s)'
  BY <1>1, <1>3 DEF RowInv, RowFound, Past
<1>5. ASSUME NEW t \in Sessions \ {s} PROVE RowFound(t)'
  BY <1>5 DEF RowInv, RowFound, Past
<1>6. n.at <= Len(Program[q.req.kind]) + 1
  BY <1>1, <1>2
<1> QED BY <1>1, <1>4, <1>5, <1>6 DEF RowInv, Forward, StaysAt

LEMMA AsksForward ==
    ASSUME Inv, RowInv, NEW s \in Sessions, Ask(s)
    PROVE  RowInv' /\ Forward(s) /\ \A t \in Sessions \ {s} : StaysAt(t)
<1> DEFINE q == sessions[s]
<1>1. /\ HasStep(s, {"ask"}) /\ sessions \in [Sessions -> Session] /\ q \in Session
      /\ q.phase = "running"
  BY AtStep DEF Ask
<1>2. CASE ~AskAnswer(q.req)
  <2>1. sessions' = [sessions EXCEPT ![s] = Ended]
    BY <1>2 DEF Ask, Refused
  <2> QED BY <1>1, <2>1, EndsForward DEF Running
<1>3. CASE AskAnswer(q.req)
  <2>1. sessions' = [sessions EXCEPT ![s] = [q EXCEPT !.at = q.at + 1]]
    BY <1>3 DEF Ask, Advance
  <2>2. /\ sessions'[s].phase = "running" /\ sessions'[s].req = q.req /\ sessions'[s].at = q.at + 1
        /\ sessions'[s].row = q.row /\ \A t \in Sessions \ {s} : sessions'[t] = sessions[t]
    BY <1>1, <2>1 DEF Session
  <2> QED BY <1>1, <2>2, StepsForward
<1> QED BY <1>2, <1>3

LEMMA AcquiresForward ==
    ASSUME Inv, RowInv, NEW s \in Sessions, Acquire(s)
    PROVE  RowInv' /\ Forward(s) /\ \A t \in Sessions \ {s} : StaysAt(t)
<1> DEFINE q == sessions[s]
           w == q.locks \cup {Wanted(s)}
           k == q.at + 1
<1>1. /\ HasStep(s, LockSteps) /\ sessions \in [Sessions -> Session] /\ q \in Session
      /\ q.phase = "running"
  BY AtStep DEF Acquire
<1>2. sessions' = [sessions EXCEPT ![s] = [q EXCEPT !.at = k, !.locks = w]]
  BY <1>1 DEF Acquire, Advance
<1> HIDE DEF w, k
<1>3. /\ sessions'[s].phase = "running" /\ sessions'[s].req = q.req /\ sessions'[s].at = k
      /\ sessions'[s].row = q.row /\ \A t \in Sessions \ {s} : sessions'[t] = sessions[t]
  BY <1>1, <1>2 DEF Session
<1>4. "decide" \notin LockSteps
  BY DEF LockSteps
<1> QED BY <1>1, <1>3, <1>4, StepsForward DEF k

LEMMA DecidesForward ==
    ASSUME Inv, RowInv, NEW s \in Sessions, Decide(s)
    PROVE  RowInv' /\ Forward(s) /\ \A t \in Sessions \ {s} : StaysAt(t)
<1> DEFINE q == sessions[s]
           row == RowOf(q.req)
           k == q.at + 1
<1>1. /\ HasStep(s, {"decide"}) /\ sessions \in [Sessions -> Session] /\ q \in Session
      /\ q.phase = "running"
  BY AtStep DEF Decide
<1>2. CASE ~Allowed(q.req, q.live)
  <2>1. sessions' = [sessions EXCEPT ![s] = Ended]
    BY <1>2 DEF Decide, Refused
  <2> QED BY <1>1, <2>1, EndsForward DEF Running
<1>3. CASE Allowed(q.req, q.live)
  <2>1. sessions' = [sessions EXCEPT ![s] = [q EXCEPT !.at = k, !.row = row]]
    BY <1>3 DEF Decide, Advance
  <2>2. q.req.kind \in RowWriters => row # {}
    <3>1. q.req.kind = "accept" => row # {}
      BY <1>3 DEF Allowed
    <3>2. q.req.kind = "decline" => row # {}
      BY <1>3 DEF Allowed
    <3>3. q.req.kind = "revoke_invitation" => row # {}
      BY <1>3 DEF Allowed
    <3> QED BY <3>1, <3>2, <3>3 DEF RowWriters
  <2> HIDE DEF row, k
  <2>3. /\ sessions'[s].phase = "running" /\ sessions'[s].req = q.req /\ sessions'[s].at = k
        /\ sessions'[s].row = row /\ \A t \in Sessions \ {s} : sessions'[t] = sessions[t]
    BY <1>1, <2>1 DEF Session
  <2> QED BY <1>1, <2>2, <2>3, StepsForward DEF k
<1> QED BY <1>2, <1>3

LEMMA CommitsForward ==
    ASSUME Inv, RowInv, NEW s \in Sessions, Commit(s)
    PROVE  RowInv' /\ Forward(s) /\ \A t \in Sessions \ {s} : StaysAt(t)
<1>1. /\ sessions'[s] = Ended /\ Ended.phase = "done" /\ sessions[s].phase = "running"
      /\ \A t \in Sessions \ {s} :
            sessions'[t] = sessions[t] \/ sessions'[t] = [sessions[t] EXCEPT !.live = FALSE]
  BY EndedShaped DEF Commit, Running
<1>2. ASSUME NEW t \in Sessions \ {s} PROVE StaysAt(t)
  <2>1. sessions[t] \in Session
    BY DEF Inv
  <2>2. CASE sessions'[t] = sessions[t]
    BY <2>2 DEF StaysAt
  <2>3. CASE sessions'[t] = [sessions[t] EXCEPT !.live = FALSE]
    BY <2>1, <2>3 DEF Session, StaysAt
  <2> QED BY <1>1, <2>2, <2>3
<1>3. ASSUME NEW t \in Sessions PROVE RowFound(t)'
  BY <1>1, <1>2 DEF RowInv, RowFound, Past, StaysAt
<1> QED BY <1>1, <1>2, <1>3 DEF RowInv, Forward

LEMMA StepForward ==
    ASSUME Inv, RowInv, LNext
    PROVE  RowInv' /\ \E s \in Sessions : Forward(s) /\ \A t \in Sessions \ {s} : StaysAt(t)
<1>1. PICK s \in Sessions : Begin(s) \/ Proceed(s) \/ Abort(s) \/ BreakDeadlock(s)
  BY DEF LNext
<1>2. CASE Begin(s)
  BY <1>2, BeginsForward
<1>3. CASE Proceed(s)
  BY <1>3, AsksForward, AcquiresForward, DecidesForward, CommitsForward DEF Proceed
<1>4. CASE Abort(s)
  BY <1>4, EndsForward DEF Abort
<1>5. CASE BreakDeadlock(s)
  <2>1. Running(s)
    BY <1>5 DEF BreakDeadlock, Deadlocked, WaitsFor, HasStep
  <2> QED BY <1>5, <2>1, EndsForward DEF BreakDeadlock
<1> QED BY <1>1, <1>2, <1>3, <1>4, <1>5

LEMMA RowStarts == LInit => RowInv
BY DEF LInit, RowInv, RowFound, Quiet

THEOREM AlwaysRowFound == LSpec => []RowInv
<1>1. Inv /\ RowInv /\ [LNext]_lvars => RowInv'
  <2> SUFFICES ASSUME Inv, RowInv, [LNext]_lvars PROVE RowInv'
    OBVIOUS
  <2>1. CASE LNext
    BY <2>1, StepForward
  <2>2. CASE UNCHANGED lvars
    BY <2>2 DEF lvars, RowInv, RowFound, Past
  <2> QED BY <2>1, <2>2
<1> QED BY <1>1, RowStarts, AlwaysInv, PTL DEF LSpec

\* A session at its commit has decided.
LEMMA PastAtCommit ==
    ASSUME NEW q, q.req.kind \in RowWriters, q.at = Len(Program[q.req.kind]) + 1
    PROVE  Past(q)
<1>1. /\ Program["accept"][4] = "decide" /\ Program["decline"][2] = "decide"
      /\ Program["revoke_invitation"][2] = "decide"
  BY DEF Program, AcceptSteps
<1>2. CASE q.req.kind = "accept"
  <2>1. q.at = 5 /\ 4 \in 1..(q.at - 1)
    BY <1>2, Lengths
  <2> QED BY <1>1, <1>2, <2>1 DEF Past
<1>3. CASE q.req.kind = "decline"
  <2>1. q.at = 4 /\ 2 \in 1..(q.at - 1)
    BY <1>3, Lengths
  <2> QED BY <1>1, <1>3, <2>1 DEF Past
<1>4. CASE q.req.kind = "revoke_invitation"
  <2>1. q.at = 4 /\ 2 \in 1..(q.at - 1)
    BY <1>4, Lengths
  <2> QED BY <1>1, <1>4, <2>1 DEF Past
<1> QED BY <1>2, <1>3, <1>4 DEF RowWriters

\* Sequences written out.
LEMMA Listed2 ==
    ASSUME NEW S, NEW a \in S, NEW b \in S
    PROVE  <<a, b>> \in Seq(S)
OBVIOUS

LEMMA Listed3 ==
    ASSUME NEW S, NEW a \in S, NEW b \in S, NEW c \in S
    PROVE  <<a, b, c>> \in Seq(S)
OBVIOUS

LEMMA Listed4 ==
    ASSUME NEW S, NEW a \in S, NEW b \in S, NEW c \in S, NEW d \in S
    PROVE  <<a, b, c, d>> \in Seq(S)
OBVIOUS

LEMMA Listed6 ==
    ASSUME NEW S, NEW a \in S, NEW b \in S, NEW c \in S, NEW d \in S, NEW e \in S, NEW f \in S
    PROVE  <<a, b, c, d, e, f>> \in Seq(S)
OBVIOUS

\* The programs have statements of these kinds only.
LEMMA ProgramsOf ==
    ASSUME NEW Statement, "ask" \in Statement, "decide" \in Statement, "row" \in Statement,
           "sender" \in Statement, "org U" \in Statement, "org KS" \in Statement,
           "org S" \in Statement, "org NKU" \in Statement
    PROVE  \A kind \in Kinds : Program[kind] \in Seq(Statement)
<1>1. Program["accept"] \in Seq(Statement) /\ Program["invite"] \in Seq(Statement)
  <2>1. <<"ask", "org U", "row", "decide">> \in Seq(Statement)
    BY Listed4, Zenon
  <2>2. <<"ask", "sender", "org U", "ask", "row", "decide">> \in Seq(Statement)
    BY Listed6, Zenon
  <2> QED BY <2>1, <2>2, ProgramIs
<1>2. Program["decline"] \in Seq(Statement) /\ Program["revoke_invitation"] \in Seq(Statement)
  <2>1. <<"row", "decide", "org KS">> \in Seq(Statement)
    BY Listed3, Zenon
  <2> QED BY <2>1, ProgramIs
<1>3. Program["revoke_membership"] \in Seq(Statement) /\ Program["grant_org_admin"] \in Seq(Statement)
  <2>1. <<"row", "org U", "decide">> \in Seq(Statement)
    BY Listed3, Zenon
  <2>2. <<"org S", "decide", "org U">> \in Seq(Statement)
    BY Listed3, Zenon
  <2> QED BY <2>1, <2>2, ProgramIs
<1>4. Program["set_status"] \in Seq(Statement) /\ Program["grant_support"] \in Seq(Statement)
  <2>1. <<"org NKU", "decide">> \in Seq(Statement)
    BY Listed2, Zenon
  <2>2. <<"ask", "org U", "decide">> \in Seq(Statement)
    BY Listed3, Zenon
  <2> QED BY <2>1, <2>2, ProgramIs
<1> QED BY <1>1, <1>2, <1>3, <1>4 DEF Kinds

LEMMA StepKinds ==
    \A kind \in Kinds : \A i \in 1..Len(Program[kind]) :
        Program[kind][i] \in {"ask", "decide"} \cup LockSteps
<1> DEFINE Statement == {"ask", "decide"} \cup LockSteps
<1>1. /\ "ask" \in Statement /\ "decide" \in Statement /\ "row" \in Statement
      /\ "sender" \in Statement /\ "org U" \in Statement /\ "org KS" \in Statement
      /\ "org S" \in Statement /\ "org NKU" \in Statement
  BY DEF LockSteps
<1> HIDE DEF Statement
<1>2. \A kind \in Kinds : Program[kind] \in Seq(Statement)
  BY <1>1, ProgramsOf
<1> QED BY <1>2 DEF Statement

\* While requests run, one of them can go on or a deadlock is there for the
\* database to break: nobody waits for a session that is over, and no commit
\* waits for a row that is not found.
THEOREM RequestsGoOn == LSpec => []SomebodyGoesOn
<1>1. ASSUME Inv, RowInv, NEW s0 \in Sessions, Running(s0), \A s \in Sessions : ~CanGoOn(s)
      PROVE  \E S \in SUBSET Sessions : Deadlocked(S)
  <2> DEFINE S == {s \in Sessions : Running(s)}
  <2>1. ASSUME NEW s \in S PROVE \E t \in S : WaitsFor(s, t)
    <3> DEFINE q == sessions[s]
    <3>1. /\ q.phase = "running" /\ q.req \in Requests /\ q.req.kind \in Kinds /\ q.at \in Nat
          /\ q.at \in 1..(Len(Program[q.req.kind]) + 1) /\ Len(Program[q.req.kind]) \in Nat
      BY <1>1, RequestTyped, Lengths DEF Inv, Shape, Session, Running
    <3>2. q.at # Len(Program[q.req.kind]) + 1
      <4> SUFFICES ASSUME q.at = Len(Program[q.req.kind]) + 1 PROVE FALSE
        OBVIOUS
      <4>1. q.req.kind \in RowWriters => Past(q)
        BY PastAtCommit
      <4>2. RowFound(s)
        BY <1>1 DEF RowInv
      <4> QED BY <1>1, <3>1, <4>1, <4>2 DEF RowFound, CanGoOn
    <3>3. q.at \in 1..Len(Program[q.req.kind])
      BY <3>1, <3>2
    <3>4. Step(s) \in {"ask", "decide"} \cup LockSteps
      BY <3>1, <3>3, StepKinds DEF Step
    <3>5. HasStep(s, LockSteps)
      BY <1>1, <3>3, <3>4 DEF HasStep, CanGoOn
    <3>6. PICK t \in Sessions : WaitsFor(s, t)
      BY <1>1, <3>5 DEF CanGoOn
    <3>7. Running(t)
      <4>1. sessions[t].locks # {}
        BY <3>6 DEF WaitsFor
      <4> QED BY <1>1, <4>1 DEF Inv, Shape, Running
    <3> QED BY <3>6, <3>7
  <2>2. Deadlocked(S)
    BY <1>1, <2>1 DEF Deadlocked
  <2> QED BY <2>2
<1>2. Inv /\ RowInv => SomebodyGoesOn
  BY <1>1 DEF SomebodyGoesOn
<1> QED BY <1>2, AlwaysInv, AlwaysRowFound, PTL

\* Every step starts a request, takes one further in its program, which has at
\* most six steps, or ends it, and takes no other back: the sessions run out of steps.
THEOREM RequestsRunOut == LSpec => EveryStepForward
<1>1. Inv /\ RowInv /\ [LNext]_lvars =>
         [\E s \in Sessions : Forward(s) /\ \A t \in Sessions \ {s} : StaysAt(t)]_lvars
  BY StepForward
<1> QED BY <1>1, AlwaysInv, AlwaysRowFound, PTL DEF LSpec, EveryStepForward
=============================================================================
