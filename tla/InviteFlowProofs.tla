-------------------------- MODULE InviteFlowProofs --------------------------
(***************************************************************************)
(* Proofs about InviteFlow for any requests, organizations, senders,       *)
(* people and caps: what a request has found stays true while it holds its *)
(* locks, so that nobody passes a cap between gate and commit.             *)
(***************************************************************************)
EXTENDS InviteFlow, FiniteSetTheorems, TLAPS

\* From the lock on the organization to the commit.
Working == {"finding", "creating", "refinding", "regating", "recording"}

LEMMA WorkingPhases ==
    /\ LockedFrom(1) = {"org"} \cup Working
    /\ LockedFrom(2) = Working
    /\ {Locked[i] : i \in 2..6} = Working
    /\ AtWork = {r \in Requests : requests[r].phase \in Working}
<1>1. 1..6 = {1, 2, 3, 4, 5, 6} /\ 2..6 = {2, 3, 4, 5, 6}
  OBVIOUS
<1>2. /\ Locked[1] = "org" /\ Locked[2] = "finding" /\ Locked[3] = "creating"
      /\ Locked[4] = "refinding" /\ Locked[5] = "regating" /\ Locked[6] = "recording"
  BY DEF Locked
<1>3. LockedFrom(1) = {"org"} \cup Working /\ LockedFrom(2) = Working
  BY <1>1, <1>2 DEF LockedFrom, Working
<1>4. {Locked[i] : i \in 2..6} = Working
  BY <1>3 DEF LockedFrom
<1> QED BY <1>3, <1>4 DEF AtWork

LEMMA PhasesAre ==
    Phases = {"idle", "sender", "mailing", "failed", "invited", "org"} \cup Working
<1>1. {Locked[i] : i \in 1..6} = {"org"} \cup Working
  BY WorkingPhases DEF LockedFrom
<1> QED BY <1>1 DEF Phases, Ends

-----------------------------------------------------------------------------
(* The invariant. *)

Named(q) == q.org \in Orgs /\ q.by \in Senders /\ q.to \in People

\* What a request knows and has done, by where it is.
RequestInv(r) ==
    LET q == requests[r]
    IN  /\ q \in Request
        /\ q.phase \notin {"idle", "failed"} => Named(q)
        /\ q.phase = "refinding" => q.tries \in {1, 2}
        /\ q.phase \in Working => <<q.org, q.by>> \in members
        /\ q.phase \in {"regating", "recording"} => accounts[q.to] # "none"
        /\ q.fresh => q.phase \in {"mailing", "invited"} /\ q.to \in people
        /\ q.phase = "mailing" => q.fresh

\* The account a request created is usable, and its person was invited by nobody
\* before, so that the commit records a new invitation.
CreatorInv(r) ==
    LET q == requests[r]
    IN  q.created =>
            \/ /\ q.phase \in {"refinding", "regating", "recording"}
               /\ accounts[q.to] \in {"unconfirmed", "confirmed"}
               /\ q.phase # "refinding" => q.account \in {"unconfirmed", "confirmed"}
               /\ <<q.org, q.to>> \notin open
            \/ q.phase \in {"mailing", "invited"} /\ q.fresh

\* Whoever has a row or an open invitation has an account.
TablesInv ==
    /\ accounts \in [People -> Accounts]
    /\ people \subseteq People /\ listed \subseteq People
    /\ open \subseteq Orgs \X people
    /\ \A p \in people \cup listed : accounts[p] # "none"
    /\ members \subseteq Orgs \X Senders /\ disabled \subseteq Senders
    /\ mails \in [People -> Nat]
    /\ \A p \in People : mails[p] > 0 =>
          \E r \in Requests : requests[r].to = p /\ requests[r].fresh /\ At(r, "invited")

\* The two locks have one holder each.
LocksInv ==
    \A r, q \in Requests :
        /\ HasSender(r) /\ HasSender(q) /\ requests[r].by = requests[q].by => r = q
        /\ HasOrg(r) /\ HasOrg(q) /\ requests[r].org = requests[q].org => r = q

\* Who is at work has room for one more invitation.
CapsInv ==
    /\ \A o \in Orgs : SentTo(o) <= OrgCap
    /\ \A s \in Senders : SentBy(s) <= CallerCap
    /\ \A r \in AtWork : SentTo(requests[r].org) < OrgCap /\ SentBy(requests[r].by) < CallerCap

RequestsInv ==
    /\ requests \in [Requests -> Request]
    /\ \A r \in Requests : RequestInv(r) /\ CreatorInv(r)

Inv == RequestsInv /\ TablesInv /\ LocksInv /\ CapsInv /\ OvershootIsSlight

-----------------------------------------------------------------------------
(* A request changes only its own record. *)

LEMMA QuietTyped ==
    /\ Quiet \in Request
    /\ Quiet.created = FALSE /\ Quiet.fresh = FALSE
    /\ [Quiet EXCEPT !.phase = "failed"] \in Request
<1>1. "idle" \in Phases /\ "failed" \in Phases
  BY PhasesAre
<1>2. "none" \in Accounts
  BY DEF Accounts
<1>3. /\ None \in Orgs \cup {None} /\ None \in Senders \cup {None} /\ None \in People \cup {None}
      /\ FALSE \in BOOLEAN /\ 0 \in 0..2
  OBVIOUS
<1>4. Quiet \in Request
  BY <1>1, <1>2, <1>3 DEF Quiet, Request
<1>5. [Quiet EXCEPT !.phase = "failed"] \in Request
  BY <1>1, <1>4 DEF Request
<1> QED BY <1>4, <1>5 DEF Quiet

LEMMA StepIsOwn ==
    ASSUME requests \in [Requests -> Request], NEW r \in Requests, Step(r)
    PROVE  requests' = [requests EXCEPT ![r] = requests'[r]]
<1>1. ASSUME NEW new, requests' = [requests EXCEPT ![r] = new]
      PROVE  requests' = [requests EXCEPT ![r] = requests'[r]]
  BY <1>1
<1>2. CASE Ask(r)
  BY <1>2 DEF Ask
<1>3. CASE LockSender(r) \/ LockOrg(r) \/ Regate(r) \/ Mail(r) \/ Fail(r)
  BY <1>3 DEF LockSender, LockOrg, Regate, Mail, Fail, Go
<1>4. CASE Find(r)
  BY <1>4 DEF Find, Go, Found
<1>5. CASE Create(r)
  BY <1>5 DEF Create
<1>6. CASE Refind(r)
  BY <1>6 DEF Refind, Go, Found
<1>7. CASE Commit(r)
  BY <1>1, <1>7 DEF Commit
<1> QED BY <1>2, <1>3, <1>4, <1>5, <1>6, <1>7 DEF Step

-----------------------------------------------------------------------------
(* One step of a request, seen from that request. *)

\* A request that fails remembers nothing.
LEMMA Failing ==
    ASSUME NEW r \in Requests, requests \in [Requests -> Request],
           requests' = [requests EXCEPT ![r] = Ended(requests[r], "failed")]
    PROVE  requests'[r] \in Request /\ RequestInv(r)' /\ CreatorInv(r)'
<1>1. requests'[r] = [Quiet EXCEPT !.phase = "failed"]
  BY DEF Ended
<1>2. /\ requests'[r] \in Request /\ requests'[r].phase = "failed"
      /\ requests'[r].created = FALSE /\ requests'[r].fresh = FALSE
  BY <1>1, QuietTyped DEF Quiet
<1> QED BY <1>2 DEF RequestInv, CreatorInv, Working

\* A request that goes on with what it has.
LEMMA GoingOn ==
    ASSUME NEW r \in Requests, requests \in [Requests -> Request], NEW phase \in Phases,
           requests' = [requests EXCEPT ![r] = [requests[r] EXCEPT !.phase = phase]]
    PROVE  /\ requests'[r] \in Request /\ requests'[r].phase = phase
           /\ requests'[r].org = requests[r].org /\ requests'[r].by = requests[r].by
           /\ requests'[r].to = requests[r].to /\ requests'[r].account = requests[r].account
           /\ requests'[r].created = requests[r].created /\ requests'[r].fresh = requests[r].fresh
           /\ requests'[r].tries = requests[r].tries
<1>1. requests[r] \in Request
  OBVIOUS
<1>2. requests'[r] = [requests[r] EXCEPT !.phase = phase]
  OBVIOUS
<1> QED BY <1>1, <1>2 DEF Request

LEMMA AskInv ==
    ASSUME Inv, NEW r \in Requests, Ask(r)
    PROVE  requests'[r] \in Request /\ RequestInv(r)' /\ CreatorInv(r)'
<1>1. requests \in [Requests -> Request]
  BY DEF Inv, RequestsInv
<1>2. PICK o \in Orgs, s \in Senders, p \in People :
          requests' = [requests EXCEPT ![r] =
             IF Gate(o, s) THEN [Quiet EXCEPT !.phase = "sender", !.org = o, !.by = s, !.to = p]
             ELSE Ended(Quiet, "failed")]
  BY DEF Ask
<1>3. CASE Gate(o, s)
  <2>1. requests'[r] = [phase |-> "sender", org |-> o, by |-> s, to |-> p, account |-> "none",
                        created |-> FALSE, tries |-> 0, fresh |-> FALSE]
    BY <1>1, <1>2, <1>3 DEF Quiet
  <2>2. requests'[r] \in Request
    BY <2>1, PhasesAre DEF Request, Accounts
  <2> QED BY <2>1, <2>2 DEF RequestInv, CreatorInv, Named, Working
<1>4. CASE ~Gate(o, s)
  <2>1. requests' = [requests EXCEPT ![r] = Ended(requests[r], "failed")]
    BY <1>2, <1>4 DEF Ended
  <2> QED BY <1>1, <2>1, Failing
<1> QED BY <1>3, <1>4

\* LockSender, LockOrg and Regate: on, or refused.
LEMMA LocksInvStep ==
    ASSUME Inv, NEW r \in Requests, LockSender(r) \/ LockOrg(r) \/ Regate(r)
    PROVE  requests'[r] \in Request /\ RequestInv(r)' /\ CreatorInv(r)'
<1>1. requests \in [Requests -> Request] /\ RequestInv(r) /\ CreatorInv(r)
  BY DEF Inv, RequestsInv
<1>2. UNCHANGED <<accounts, people, open, members>>
  BY DEF LockSender, LockOrg, Regate, Outside, Inside
<1>3. CASE LockSender(r)
  <2>1. requests' = [requests EXCEPT ![r] = [requests[r] EXCEPT !.phase = "org"]]
    BY <1>3 DEF LockSender, Go, Ends
  <2>2. requests[r].phase = "sender"
    BY <1>3 DEF LockSender, At
  <2>3. "org" \in Phases
    BY PhasesAre
  <2> QED BY <1>1, <2>1, <2>2, <2>3, GoingOn DEF RequestInv, CreatorInv, Named, Working
<1>4. CASE LockOrg(r)
  <2>1. requests[r].phase = "org"
    BY <1>4 DEF LockOrg, At
  <2>2. CASE ~GateAgain(requests[r].org, requests[r].by)
    <3>1. requests' = [requests EXCEPT ![r] = Ended(requests[r], "failed")]
      BY <1>4, <2>2 DEF LockOrg, Go, Ends
    <3> QED BY <1>1, <3>1, Failing
  <2>3. CASE GateAgain(requests[r].org, requests[r].by)
    <3>1. requests' = [requests EXCEPT ![r] = [requests[r] EXCEPT !.phase = "finding"]]
      BY <1>4, <2>3 DEF LockOrg, Go, Ends
    <3>2. "finding" \in Phases
      BY PhasesAre DEF Working
    <3>3. <<requests[r].org, requests[r].by>> \in members
      BY <2>3 DEF GateAgain, Gate
    <3> DEFINE n == requests'[r]
    <3>4. /\ n \in Request /\ n.phase = "finding" /\ n.org = requests[r].org /\ n.by = requests[r].by
          /\ n.to = requests[r].to /\ n.created = requests[r].created /\ n.fresh = requests[r].fresh
      BY <1>1, <3>1, <3>2, GoingOn
    <3>5. requests[r].created = FALSE /\ requests[r].fresh = FALSE /\ Named(requests[r])
      BY <1>1, <2>1 DEF RequestInv, CreatorInv, Request
    <3> HIDE DEF n
    <3>6. n.created = FALSE /\ n.fresh = FALSE /\ Named(n) /\ <<n.org, n.by>> \in members'
      BY <1>2, <3>3, <3>4, <3>5 DEF Named
    <3> QED BY <3>4, <3>6 DEF RequestInv, CreatorInv, n
  <2> QED BY <2>2, <2>3
<1>5. CASE Regate(r)
  <2>1. requests[r].phase = "regating"
    BY <1>5 DEF Regate, At
  <2>2. CASE ~GateAgain(requests[r].org, requests[r].by)
    <3>1. requests' = [requests EXCEPT ![r] = Ended(requests[r], "failed")]
      BY <1>5, <2>2 DEF Regate, Go, Ends
    <3> QED BY <1>1, <3>1, Failing
  <2>3. CASE /\ GateAgain(requests[r].org, requests[r].by)
             /\ requests[r].to \notin people /\ requests[r].account = "unusable"
    <3>1. requests' = [requests EXCEPT ![r] = [requests[r] EXCEPT !.phase = "invited", !.account = "none"]]
      BY <1>5, <2>3 DEF Regate, Go, Ends, Ended
    <3>2. requests[r].created = FALSE /\ requests[r].fresh = FALSE
      BY <1>1, <2>1, <2>3 DEF CreatorInv, RequestInv, Request
    <3>3. requests'[r] = [requests[r] EXCEPT !.phase = "invited", !.account = "none"]
      BY <1>1, <3>1
    <3>4. "invited" \in Phases /\ "none" \in Accounts /\ requests[r] \in Request
      BY <1>1, PhasesAre DEF Accounts
    <3>5. /\ requests'[r] \in Request /\ requests'[r].phase = "invited"
          /\ requests'[r].created = FALSE /\ requests'[r].fresh = FALSE
          /\ Named(requests'[r])
      BY <1>1, <2>1, <3>2, <3>3, <3>4 DEF Request, Named, RequestInv
    <3> QED BY <3>5 DEF RequestInv, CreatorInv, Working
  <2>4. CASE /\ GateAgain(requests[r].org, requests[r].by)
             /\ ~(requests[r].to \notin people /\ requests[r].account = "unusable")
    <3>1. requests' = [requests EXCEPT ![r] = [requests[r] EXCEPT !.phase = "recording"]]
      BY <1>5, <2>4 DEF Regate, Go, Ends
    <3>2. "recording" \in Phases
      BY PhasesAre DEF Working
    <3> DEFINE n == requests'[r]
    <3>3. /\ n \in Request /\ n.phase = "recording" /\ n.org = requests[r].org /\ n.by = requests[r].by
          /\ n.to = requests[r].to /\ n.created = requests[r].created /\ n.fresh = requests[r].fresh
          /\ n.account = requests[r].account
      BY <1>1, <3>1, <3>2, GoingOn
    <3>4. /\ requests[r].fresh = FALSE /\ Named(requests[r]) /\ accounts[requests[r].to] # "none"
          /\ <<requests[r].org, requests[r].by>> \in members
          /\ requests[r].created =>
                /\ accounts[requests[r].to] \in {"unconfirmed", "confirmed"}
                /\ requests[r].account \in {"unconfirmed", "confirmed"}
                /\ <<requests[r].org, requests[r].to>> \notin open
      BY <1>1, <2>1 DEF RequestInv, CreatorInv, Request, Working
    <3> HIDE DEF n
    <3>5. /\ n.fresh = FALSE /\ Named(n) /\ accounts'[n.to] # "none" /\ <<n.org, n.by>> \in members'
          /\ n.created =>
                /\ accounts'[n.to] \in {"unconfirmed", "confirmed"}
                /\ n.account \in {"unconfirmed", "confirmed"}
                /\ <<n.org, n.to>> \notin open'
      BY <1>2, <3>3, <3>4 DEF Named
    <3>6. RequestInv(r)'
      BY <3>3, <3>5 DEF RequestInv, n
    <3>7. CreatorInv(r)'
      BY <3>3, <3>5 DEF CreatorInv, n
    <3> QED BY <3>3, <3>6, <3>7 DEF n
  <2> QED BY <2>2, <2>3, <2>4
<1> QED BY <1>3, <1>4, <1>5

\* What Cognito answers about somebody it lists.
LEMMA FoundInv ==
    ASSUME Inv, NEW r \in Requests, requests[r].phase \in {"finding", "refinding"},
           requests[r].to \in listed, Found(r, accounts[requests[r].to]),
           UNCHANGED <<accounts, people, open, members>>
    PROVE  requests'[r] \in Request /\ RequestInv(r)' /\ CreatorInv(r)'
<1> DEFINE q == requests[r]
           n == requests'[r]
<1>1. requests \in [Requests -> Request] /\ q \in Request /\ RequestInv(r) /\ CreatorInv(r) /\ TablesInv
  BY DEF Inv, RequestsInv
<1>2. /\ q.fresh = FALSE /\ Named(q) /\ <<q.org, q.by>> \in members
      /\ q.created => accounts[q.to] \in {"unconfirmed", "confirmed"} /\ <<q.org, q.to>> \notin open
  BY <1>1 DEF RequestInv, CreatorInv, Request, Working
<1>3. accounts[q.to] \in Accounts /\ accounts[q.to] # "none"
  BY <1>1, <1>2 DEF TablesInv, Named
<1>4. n = [q EXCEPT !.phase = "regating", !.account = accounts[q.to], !.tries = 0]
  BY <1>1 DEF Found
<1>5. "regating" \in Phases /\ 0 \in 0..2
  BY PhasesAre DEF Working
<1>6. /\ n \in Request /\ n.phase = "regating" /\ n.org = q.org /\ n.by = q.by /\ n.to = q.to
      /\ n.created = q.created /\ n.fresh = FALSE /\ n.account = accounts[q.to]
  BY <1>1, <1>2, <1>3, <1>4, <1>5 DEF Request
<1> HIDE DEF n, q
<1>7. /\ Named(n) /\ accounts'[n.to] # "none" /\ <<n.org, n.by>> \in members'
      /\ n.created =>
            /\ accounts'[n.to] \in {"unconfirmed", "confirmed"}
            /\ n.account \in {"unconfirmed", "confirmed"}
            /\ <<n.org, n.to>> \notin open'
  BY <1>2, <1>3, <1>6 DEF Named
<1>8. RequestInv(r)'
  BY <1>6, <1>7 DEF RequestInv, n
<1>9. CreatorInv(r)'
  BY <1>6, <1>7 DEF CreatorInv, n
<1> QED BY <1>6, <1>8, <1>9 DEF n

LEMMA FindInv ==
    ASSUME Inv, NEW r \in Requests, Find(r)
    PROVE  requests'[r] \in Request /\ RequestInv(r)' /\ CreatorInv(r)'
<1>1. requests \in [Requests -> Request] /\ RequestInv(r) /\ CreatorInv(r)
  BY DEF Inv, RequestsInv
<1>2. UNCHANGED <<accounts, people, open, members>> /\ requests[r].phase = "finding"
  BY DEF Find, Outside, Inside, At
<1>3. CASE requests[r].to \in listed
  BY <1>2, <1>3, FoundInv DEF Find
<1>4. CASE requests[r].to \notin listed
  <2>1. requests' = [requests EXCEPT ![r] = [requests[r] EXCEPT !.phase = "creating"]]
    BY <1>4 DEF Find, Go, Ends
  <2>2. "creating" \in Phases
    BY PhasesAre DEF Working
  <2> DEFINE n == requests'[r]
  <2>3. /\ n \in Request /\ n.phase = "creating" /\ n.org = requests[r].org /\ n.by = requests[r].by
        /\ n.to = requests[r].to /\ n.created = requests[r].created /\ n.fresh = requests[r].fresh
    BY <1>1, <2>1, <2>2, GoingOn
  <2>4. /\ requests[r].created = FALSE /\ requests[r].fresh = FALSE /\ Named(requests[r])
        /\ <<requests[r].org, requests[r].by>> \in members
    BY <1>1, <1>2 DEF RequestInv, CreatorInv, Request, Working
  <2> HIDE DEF n
  <2>5. n.created = FALSE /\ n.fresh = FALSE /\ Named(n) /\ <<n.org, n.by>> \in members'
    BY <1>2, <2>3, <2>4 DEF Named
  <2> QED BY <2>3, <2>5 DEF RequestInv, CreatorInv, n
<1> QED BY <1>3, <1>4

LEMMA RefindInv ==
    ASSUME Inv, NEW r \in Requests, Refind(r)
    PROVE  requests'[r] \in Request /\ RequestInv(r)' /\ CreatorInv(r)'
<1> DEFINE q == requests[r]
           n == requests'[r]
<1>1. requests \in [Requests -> Request] /\ q \in Request /\ RequestInv(r) /\ CreatorInv(r)
  BY DEF Inv, RequestsInv
<1>2. UNCHANGED <<accounts, people, open, members>> /\ q.phase = "refinding"
  BY DEF Refind, Outside, Inside, At
<1>3. CASE q.to \in listed
  BY <1>2, <1>3, FoundInv DEF Refind
<1>4. CASE q.to \notin listed /\ LastLook(r)
  <2>1. requests' = [requests EXCEPT ![r] = Ended(requests[r], "failed")]
    BY <1>4 DEF Refind, Go, Ends
  <2> QED BY <1>1, <2>1, Failing
<1>5. CASE q.to \notin listed /\ ~LastLook(r)
  <2>1. q.tries = 2
    BY <1>1, <1>2, <1>5 DEF RequestInv, LastLook
  <2>2. n = [q EXCEPT !.tries = 1]
    BY <1>1, <1>5, <2>1 DEF Refind
  <2>3. /\ n \in Request /\ n.phase = "refinding" /\ n.tries = 1 /\ n.org = q.org /\ n.by = q.by
        /\ n.to = q.to /\ n.created = q.created /\ n.fresh = q.fresh
    BY <1>1, <1>2, <2>2 DEF Request
  <2>4. /\ q.fresh = FALSE /\ Named(q) /\ <<q.org, q.by>> \in members
        /\ q.created => accounts[q.to] \in {"unconfirmed", "confirmed"} /\ <<q.org, q.to>> \notin open
    BY <1>1, <1>2 DEF RequestInv, CreatorInv, Request, Working
  <2> HIDE DEF n, q
  <2>5. /\ Named(n) /\ n.fresh = FALSE /\ <<n.org, n.by>> \in members'
        /\ n.created => accounts'[n.to] \in {"unconfirmed", "confirmed"} /\ <<n.org, n.to>> \notin open'
    BY <1>2, <2>3, <2>4 DEF Named
  <2>6. RequestInv(r)'
    BY <2>3, <2>5 DEF RequestInv, n
  <2>7. CreatorInv(r)'
    BY <2>3, <2>5 DEF CreatorInv, n
  <2> QED BY <2>3, <2>6, <2>7 DEF n
<1> QED BY <1>3, <1>4, <1>5

\* Nobody is known, and so nobody invited, without an account: the person is new.
LEMMA CreateInv ==
    ASSUME Inv, NEW r \in Requests, Create(r)
    PROVE  requests'[r] \in Request /\ RequestInv(r)' /\ CreatorInv(r)'
<1> DEFINE q == requests[r]
           n == requests'[r]
<1>1. requests \in [Requests -> Request] /\ q \in Request /\ RequestInv(r) /\ CreatorInv(r) /\ TablesInv
  BY DEF Inv, RequestsInv
<1>2. UNCHANGED <<people, open, members>> /\ q.phase = "creating"
  BY DEF Create, Inside, At
<1>3. q.created = FALSE /\ q.fresh = FALSE /\ Named(q) /\ <<q.org, q.by>> \in members
  BY <1>1, <1>2 DEF RequestInv, CreatorInv, Request, Working
<1>4. "refinding" \in Phases /\ "regating" \in Phases /\ "unconfirmed" \in Accounts /\ 2 \in 0..2
  BY PhasesAre DEF Working, Accounts
<1>5. CASE accounts[q.to] # "none"
  <2>1. n = [q EXCEPT !.phase = "refinding", !.tries = 2]
    BY <1>1, <1>5 DEF Create
  <2>2. /\ n \in Request /\ n.phase = "refinding" /\ n.tries = 2 /\ n.org = q.org /\ n.by = q.by
        /\ n.to = q.to /\ n.created = FALSE /\ n.fresh = FALSE
    BY <1>1, <1>3, <1>4, <2>1 DEF Request
  <2> HIDE DEF n, q
  <2>3. Named(n) /\ <<n.org, n.by>> \in members'
    BY <1>2, <1>3, <2>2 DEF Named
  <2> QED BY <2>2, <2>3 DEF RequestInv, CreatorInv, n
<1>6. CASE accounts[q.to] = "none"
  <2>1. <<q.org, q.to>> \notin open
    BY <1>1, <1>6 DEF TablesInv
  <2>2. accounts' = [accounts EXCEPT ![q.to] = "unconfirmed"]
    BY <1>6 DEF Create
  <2>3. accounts'[q.to] = "unconfirmed"
    BY <1>1, <1>3, <2>2 DEF TablesInv, Named
  <2>4. \/ n = [[q EXCEPT !.phase = "regating", !.account = "unconfirmed"] EXCEPT !.created = TRUE]
        \/ n = [[q EXCEPT !.phase = "refinding", !.tries = 2] EXCEPT !.created = TRUE]
    BY <1>1, <1>6 DEF Create
  <2>5. /\ n \in Request /\ n.org = q.org /\ n.by = q.by /\ n.to = q.to
        /\ n.created = TRUE /\ n.fresh = FALSE
        /\ \/ n.phase = "regating" /\ n.account = "unconfirmed"
           \/ n.phase = "refinding" /\ n.tries = 2
    BY <1>1, <1>3, <1>4, <2>4 DEF Request
  <2> HIDE DEF n, q
  <2>6. /\ Named(n) /\ <<n.org, n.by>> \in members' /\ accounts'[n.to] = "unconfirmed"
        /\ <<n.org, n.to>> \notin open'
    BY <1>2, <1>3, <2>1, <2>3, <2>5 DEF Named
  <2>7. RequestInv(r)'
    BY <2>5, <2>6 DEF RequestInv, n
  <2>8. CreatorInv(r)'
    BY <2>5, <2>6 DEF CreatorInv, n
  <2> QED BY <2>5, <2>7, <2>8 DEF n
<1> QED BY <1>5, <1>6

LEMMA CommitInv ==
    ASSUME Inv, NEW r \in Requests, Commit(r)
    PROVE  /\ requests'[r] \in Request /\ RequestInv(r)' /\ CreatorInv(r)'
           /\ requests'[r].phase \in {"mailing", "invited"} /\ Named(requests'[r])
           /\ requests'[r].org = requests[r].org /\ requests'[r].by = requests[r].by
<1> DEFINE q == requests[r]
           n == requests'[r]
           fresh == <<q.org, q.to>> \notin open
<1>1. requests \in [Requests -> Request] /\ q \in Request /\ RequestInv(r) /\ CreatorInv(r)
  BY DEF Inv, RequestsInv
<1>2. UNCHANGED <<accounts, members>> /\ q.phase = "recording" /\ people' = people \cup {q.to}
  BY DEF Commit, Outside, At
<1>3. Named(q) /\ (q.created => fresh)
  BY <1>1, <1>2 DEF RequestInv, CreatorInv, Request
<1>4. "mailing" \in Phases /\ "invited" \in Phases /\ "none" \in Accounts
  BY PhasesAre DEF Accounts
<1>5. \/ /\ fresh
         /\ n = [q EXCEPT !.fresh = fresh, !.phase = "mailing"]
      \/ n = [[q EXCEPT !.fresh = fresh, !.phase = "invited"] EXCEPT !.phase = "invited", !.account = "none"]
  <2>1. CASE fresh /\ q.account = "unconfirmed"
    BY <1>1, <2>1 DEF Commit, Ends
  <2>2. CASE ~(fresh /\ q.account = "unconfirmed")
    BY <1>1, <2>2 DEF Commit, Ends, Ended
  <2> QED BY <2>1, <2>2
<1>6. fresh \in BOOLEAN
  OBVIOUS
<1>7. /\ n \in Request /\ n.org = q.org /\ n.by = q.by /\ n.to = q.to
      /\ n.created = q.created /\ n.fresh = fresh
      /\ (n.phase = "mailing" /\ fresh) \/ n.phase = "invited"
  BY <1>1, <1>4, <1>5, <1>6 DEF Request
<1> HIDE DEF n, q, fresh
<1>8. Named(n) /\ n.to \in people' /\ (n.created => n.fresh)
  BY <1>2, <1>3, <1>7 DEF Named
<1>9. RequestInv(r)'
  BY <1>7, <1>8 DEF RequestInv, Working, n
<1>10. CreatorInv(r)'
  BY <1>7, <1>8 DEF CreatorInv, n
<1> QED BY <1>7, <1>8, <1>9, <1>10 DEF n, q

\* After its commit a request keeps what it recorded, whatever becomes of its mail.
LEMMA MailedInv ==
    ASSUME Inv, NEW r \in Requests, At(r, "mailing"), Go(r, "invited"), people' = people
    PROVE  /\ requests'[r] \in Request /\ RequestInv(r)' /\ CreatorInv(r)'
           /\ requests'[r].org = requests[r].org /\ requests'[r].by = requests[r].by
           /\ requests'[r].to = requests[r].to /\ requests'[r].phase = "invited"
           /\ requests'[r].fresh = TRUE /\ requests[r].fresh = TRUE
<1> DEFINE q == requests[r]
           n == requests'[r]
<1>1. requests \in [Requests -> Request] /\ q \in Request /\ RequestInv(r) /\ CreatorInv(r)
  BY DEF Inv, RequestsInv
<1>2. Named(q) /\ q.fresh = TRUE /\ q.to \in people
  BY <1>1 DEF RequestInv, Request, At, Working
<1>3. "invited" \in Phases /\ "none" \in Accounts
  BY PhasesAre DEF Accounts
<1>4. n = [q EXCEPT !.phase = "invited", !.account = "none"]
  BY <1>1 DEF Go, Ends, Ended
<1>5. /\ n \in Request /\ n.org = q.org /\ n.by = q.by /\ n.to = q.to
      /\ n.created = q.created /\ n.fresh = TRUE /\ n.phase = "invited"
  <2>1. q \in Request /\ q.fresh = TRUE
    BY <1>1, <1>2
  <2> HIDE DEF q, n
  <2> QED BY <1>3, <1>4, <2>1 DEF Request
<1> HIDE DEF n, q
<1>6. Named(n) /\ n.to \in people'
  BY <1>2, <1>5 DEF Named
<1>7. RequestInv(r)'
  BY <1>5, <1>6 DEF RequestInv, Working, n
<1>8. CreatorInv(r)'
  BY <1>5, <1>6 DEF CreatorInv, n
<1> QED BY <1>2, <1>5, <1>7, <1>8 DEF n, q

LEMMA OwnStep ==
    ASSUME Inv, NEW r \in Requests, Step(r)
    PROVE  requests'[r] \in Request /\ RequestInv(r)' /\ CreatorInv(r)'
<1>1. CASE Mail(r)
  BY <1>1, MailedInv DEF Mail, Inside
<1>2. CASE Fail(r)
  <2>1. CASE At(r, "mailing")
    BY <1>2, <2>1, MailedInv DEF Fail, Inside
  <2>2. CASE ~At(r, "mailing")
    <3>1. requests' = [requests EXCEPT ![r] = Ended(requests[r], "failed")]
      BY <1>2, <2>2 DEF Fail, Go, Ends
    <3> QED BY <3>1, Failing DEF Inv, RequestsInv
  <2> QED BY <2>1, <2>2
<1> QED BY <1>1, <1>2, AskInv, LocksInvStep, FindInv, RefindInv, CreateInv, CommitInv DEF Step

-----------------------------------------------------------------------------
(* One step, seen from the other requests. *)

\* The tables and Cognito change in a way that a request q does not mind: what it
\* has seen stays as it was.
LEMMA Unminded ==
    ASSUME NEW q \in Requests, RequestInv(q), CreatorInv(q), requests'[q] = requests[q],
           people \subseteq people',
           Named(requests[q]) /\ accounts[requests[q].to] # "none" =>
               \/ accounts'[requests[q].to] = accounts[requests[q].to]
               \/ accounts[requests[q].to] = "unconfirmed" /\ accounts'[requests[q].to] = "confirmed",
           HasOrg(q) /\ <<requests[q].org, requests[q].to>> \in open'
               => <<requests[q].org, requests[q].to>> \in open,
           HasOrg(q) /\ <<requests[q].org, requests[q].by>> \in members
               => <<requests[q].org, requests[q].by>> \in members'
    PROVE  RequestInv(q)' /\ CreatorInv(q)'
<1>1. HasOrg(q) <=> requests[q].phase \in Working
  BY WorkingPhases DEF HasOrg
<1> DEFINE n == requests[q]
<1>2. RequestInv(q)'
  BY <1>1 DEF RequestInv, Working
<1>3. CreatorInv(q)'
  BY <1>1 DEF RequestInv, CreatorInv, Working
<1> QED BY <1>2, <1>3

LEMMA OthersStep ==
    ASSUME Inv, NEW r \in Requests, Step(r), NEW q \in Requests \ {r}
    PROVE  requests'[q] = requests[q] /\ RequestInv(q)' /\ CreatorInv(q)'
<1>1. requests \in [Requests -> Request] /\ RequestInv(q) /\ CreatorInv(q) /\ RequestInv(r) /\ TablesInv
  BY DEF Inv, RequestsInv
<1>2. requests'[q] = requests[q]
  BY <1>1, StepIsOwn
<1>3. members' = members
  BY DEF Step, Ask, LockSender, LockOrg, Find, Create, Refind, Regate, Commit, Mail, Fail, Inside
<1>4. CASE Commit(r)
  <2>1. HasOrg(r)
    BY <1>4, WorkingPhases DEF Commit, At, HasOrg, Working
  <2>2. HasOrg(q) => requests[q].org # requests[r].org
    BY <2>1 DEF Inv, LocksInv
  <2>3. people \subseteq people' /\ accounts' = accounts /\ open' = open \cup {<<requests[r].org, requests[r].to>>}
    BY <1>4 DEF Commit, Outside
  <2> QED BY <1>1, <1>2, <1>3, <2>2, <2>3, Unminded
<1>5. CASE Create(r)
  <2>1. people' = people /\ open' = open
    BY <1>5 DEF Create, Inside
  <2>2. \/ accounts' = accounts
        \/ /\ accounts[requests[r].to] = "none"
           /\ accounts' = [accounts EXCEPT ![requests[r].to] = "unconfirmed"]
    BY <1>5 DEF Create
  <2>3. accounts \in [People -> Accounts]
    BY <1>1 DEF TablesInv
  <2>4. ASSUME Named(requests[q]), accounts[requests[q].to] # "none"
        PROVE  accounts'[requests[q].to] = accounts[requests[q].to]
    BY <2>2, <2>3, <2>4 DEF Named
  <2> QED BY <1>1, <1>2, <1>3, <2>1, <2>4, Unminded
<1>6. CASE ~Commit(r) /\ ~Create(r)
  <2>1. UNCHANGED <<accounts, people, open>>
    BY <1>6 DEF Step, Ask, LockSender, LockOrg, Find, Refind, Regate, Mail, Fail, Inside, Outside
  <2> QED BY <1>1, <1>2, <1>3, <2>1, Unminded
<1> QED BY <1>4, <1>5, <1>6

LEMMA WorldStep ==
    ASSUME Inv, NEW q \in Requests,
           \/ \E p \in People : List(p) \/ SignIn(p)
           \/ \E o \in Orgs, p \in People : Close(o, p)
           \/ \E m \in Leaving : Leave(m[1], m[2])
           \/ \E s \in Disabling : Disable(s)
    PROVE  requests' = requests /\ RequestInv(q)' /\ CreatorInv(q)'
<1>1. RequestInv(q) /\ CreatorInv(q) /\ TablesInv
  BY DEF Inv, RequestsInv
<1>2. CASE \E p \in People : List(p)
  BY <1>1, <1>2, Unminded DEF List, Inside
<1>3. ASSUME NEW p \in People, SignIn(p) PROVE requests' = requests /\ RequestInv(q)' /\ CreatorInv(q)'
  <2>1. UNCHANGED <<requests, people, open, members>> /\ accounts[p] = "unconfirmed"
        /\ accounts' = [accounts EXCEPT ![p] = "confirmed"]
    BY <1>3 DEF SignIn, Inside
  <2>2. accounts \in [People -> Accounts]
    BY <1>1 DEF TablesInv
  <2>3. ASSUME Named(requests[q])
        PROVE  \/ accounts'[requests[q].to] = accounts[requests[q].to]
               \/ accounts[requests[q].to] = "unconfirmed" /\ accounts'[requests[q].to] = "confirmed"
    BY <2>1, <2>2, <2>3 DEF Named
  <2> QED BY <1>1, <2>1, <2>3, Unminded
<1>4. CASE \E o \in Orgs, p \in People : Close(o, p)
  BY <1>1, <1>4, Unminded DEF Close, Outside
<1>5. ASSUME NEW m \in Leaving, Leave(m[1], m[2]) PROVE requests' = requests /\ RequestInv(q)' /\ CreatorInv(q)'
  <2>1. UNCHANGED <<requests, accounts, people, open>> /\ members' = members \ {<<m[1], m[2]>>} /\ OrgFree(m[1])
    BY <1>5 DEF Leave, Undisturbed, Outside
  <2>2. HasOrg(q) => requests[q].org # m[1]
    BY <2>1 DEF OrgFree
  <2> QED BY <1>1, <2>1, <2>2, Unminded
<1>6. CASE \E s \in Disabling : Disable(s)
  BY <1>1, <1>6, Unminded DEF Disable, Outside
<1> QED BY <1>2, <1>3, <1>4, <1>5, <1>6

LEMMA RequestsStep ==
    ASSUME Inv, Next
    PROVE  RequestsInv'
<1>1. requests \in [Requests -> Request]
  BY DEF Inv, RequestsInv
<1>2. ASSUME NEW r \in Requests, Step(r) PROVE RequestsInv'
  <2>1. requests' = [requests EXCEPT ![r] = requests'[r]]
    BY <1>1, <1>2, StepIsOwn
  <2>2. requests'[r] \in Request /\ RequestInv(r)' /\ CreatorInv(r)'
    BY <1>2, OwnStep
  <2>3. requests' \in [Requests -> Request]
    BY <1>1, <2>1, <2>2
  <2>4. \A q \in Requests \ {r} : RequestInv(q)' /\ CreatorInv(q)'
    BY <1>2, OthersStep
  <2> QED BY <2>2, <2>3, <2>4 DEF RequestsInv
<1>3. CASE \/ \E p \in People : List(p) \/ SignIn(p)
           \/ \E o \in Orgs, p \in People : Close(o, p)
           \/ \E m \in Leaving : Leave(m[1], m[2])
           \/ \E s \in Disabling : Disable(s)
  <2>1. \A q \in Requests : requests' = requests /\ RequestInv(q)' /\ CreatorInv(q)'
    BY <1>3, WorldStep
  <2>2. requests' = requests
    BY <1>3 DEF List, SignIn, Close, Leave, Disable
  <2> QED BY <1>1, <2>1, <2>2 DEF RequestsInv
<1> QED BY <1>2, <1>3 DEF Next

-----------------------------------------------------------------------------
(* The tables and the mails. *)

\* Who was invited stays so.
LEMMA InvitedStay ==
    ASSUME Inv, Next, NEW q \in Requests, At(q, "invited")
    PROVE  requests'[q] = requests[q]
<1>1. ASSUME NEW r \in Requests, Step(r) PROVE requests'[q] = requests[q]
  <2>1. requests[r].phase # "invited"
    BY <1>1 DEF Step, Ask, LockSender, LockOrg, Find, Create, Refind, Regate, Commit, Mail, Fail, At, Ends
  <2>2. q # r
    BY <2>1 DEF At
  <2> QED BY <1>1, <2>2, OthersStep
<1>2. CASE \/ \E p \in People : List(p) \/ SignIn(p)
           \/ \E o \in Orgs, p \in People : Close(o, p)
           \/ \E m \in Leaving : Leave(m[1], m[2])
           \/ \E s \in Disabling : Disable(s)
  BY <1>2 DEF List, SignIn, Close, Leave, Disable
<1> QED BY <1>1, <1>2 DEF Next

LEMMA MailsKept ==
    ASSUME Inv, Next, mails' = mails, NEW p \in People, mails'[p] > 0
    PROVE  \E r \in Requests : requests'[r].to = p /\ requests'[r].fresh /\ At(r, "invited")'
<1>1. PICK r \in Requests : requests[r].to = p /\ requests[r].fresh /\ At(r, "invited")
  BY DEF Inv, TablesInv
<1>2. requests'[r] = requests[r]
  BY <1>1, InvitedStay
<1> QED BY <1>1, <1>2 DEF At

\* TablesInv but for its last clause.
Tables ==
    /\ accounts \in [People -> Accounts]
    /\ people \subseteq People /\ listed \subseteq People
    /\ open \subseteq Orgs \X people
    /\ \A p \in people \cup listed : accounts[p] # "none"
    /\ members \subseteq Orgs \X Senders /\ disabled \subseteq Senders
    /\ mails \in [People -> Nat]

LEMMA TablesStep ==
    ASSUME Inv, Next
    PROVE  TablesInv'
<1>1. Tables
  BY DEF Inv, TablesInv, Tables
<1>2. ASSUME Tables', mails' = mails PROVE TablesInv'
  BY <1>2, MailsKept DEF TablesInv, Tables
<1>3. ASSUME NEW r \in Requests, Step(r) PROVE TablesInv'
  <2>1. RequestInv(r) /\ requests \in [Requests -> Request]
    BY DEF Inv, RequestsInv
  <2>2. CASE Commit(r)
    <3>1. Named(requests[r]) /\ accounts[requests[r].to] # "none"
      BY <2>1, <2>2 DEF Commit, At, RequestInv
    <3>2. /\ people' = people \cup {requests[r].to}
          /\ open' = open \cup {<<requests[r].org, requests[r].to>>}
          /\ UNCHANGED <<accounts, listed, mails, members, disabled>>
      BY <2>2 DEF Commit, Outside
    <3>3. Tables'
      BY <1>1, <3>1, <3>2 DEF Tables, Named
    <3> QED BY <1>2, <3>2, <3>3
  <2>3. CASE Create(r)
    <3>1. Named(requests[r])
      BY <2>1, <2>3 DEF Create, At, RequestInv
    <3>2. /\ UNCHANGED <<listed, mails, people, open, members, disabled>>
          /\ \/ accounts' = accounts
             \/ accounts' = [accounts EXCEPT ![requests[r].to] = "unconfirmed"]
      BY <2>3 DEF Create, Inside, MailOfCreate
    <3>3. Tables'
      BY <1>1, <3>1, <3>2 DEF Tables, Named, Accounts
    <3> QED BY <1>2, <3>2, <3>3
  <2>4. CASE Mail(r)
    <3>1. Named(requests[r]) /\ At(r, "mailing")
      BY <2>1, <2>4 DEF Mail, At, RequestInv
    <3>2. /\ UNCHANGED <<accounts, listed, people, open, members, disabled>>
          /\ mails' = mails \/ mails' = [mails EXCEPT ![requests[r].to] = @ + 1]
      BY <2>4 DEF Mail, Inside
    <3>3. Tables'
      BY <1>1, <3>1, <3>2 DEF Tables, Named
    <3>4. CASE mails' = mails
      BY <1>2, <3>3, <3>4
    <3>5. CASE mails' = [mails EXCEPT ![requests[r].to] = @ + 1]
      <4>1. SUFFICES ASSUME NEW p \in People, mails'[p] > 0
                     PROVE  \E q \in Requests : requests'[q].to = p /\ requests'[q].fresh /\ At(q, "invited")'
        BY <3>3 DEF TablesInv, Tables
      <4>2. CASE p = requests[r].to
        <5>1. requests'[r].to = p /\ requests'[r].fresh = TRUE /\ requests'[r].phase = "invited"
          BY <2>4, <3>1, <3>2, <4>2, MailedInv DEF Mail
        <5> QED BY <5>1 DEF At
      <4>3. CASE p # requests[r].to
        <5>1. mails[p] > 0
          BY <1>1, <3>5, <4>1, <4>3 DEF Tables
        <5>2. PICK q \in Requests : requests[q].to = p /\ requests[q].fresh /\ At(q, "invited")
          BY <5>1 DEF Inv, TablesInv
        <5>3. requests'[q] = requests[q]
          BY <5>2, InvitedStay
        <5> QED BY <5>2, <5>3 DEF At
      <4> QED BY <4>2, <4>3
    <3> QED BY <3>2, <3>4, <3>5
  <2>5. CASE ~Commit(r) /\ ~Create(r) /\ ~Mail(r)
    <3>1. UNCHANGED <<accounts, listed, people, open, members, disabled, mails>>
      BY <1>3, <2>5 DEF Step, Ask, LockSender, LockOrg, Find, Refind, Regate, Fail, Outside, Inside
    <3> QED BY <1>1, <1>2, <3>1 DEF Tables
  <2> QED BY <2>2, <2>3, <2>4, <2>5
<1>4. ASSUME NEW p \in People, List(p) PROVE TablesInv'
  BY <1>1, <1>2, <1>4 DEF List, Inside, Tables
<1>5. ASSUME NEW p \in People, SignIn(p) PROVE TablesInv'
  BY <1>1, <1>2, <1>5 DEF SignIn, Inside, Tables, Accounts
<1>6. CASE \/ \E o \in Orgs, p \in People : Close(o, p)
           \/ \E m \in Leaving : Leave(m[1], m[2])
           \/ \E s \in Disabling : Disable(s)
  <2>1. /\ UNCHANGED <<accounts, listed, people, mails>>
        /\ open' \subseteq open /\ members' \subseteq members /\ disabled' \subseteq disabled \cup Disabling
    BY <1>6 DEF Close, Leave, Disable, Outside
  <2>2. Disabling \subseteq Senders
    BY BoundsAssumption
  <2> QED BY <1>1, <1>2, <2>1, <2>2 DEF Tables
<1> QED BY <1>3, <1>4, <1>5, <1>6 DEF Next
-----------------------------------------------------------------------------
(* Locks and counts. *)

Same(n, q) == n.org = q.org /\ n.by = q.by

\* Every way a request can take, as far as the locks and the counts can tell.
LEMMA Moves ==
    ASSUME Inv, NEW r \in Requests, Step(r)
    PROVE  LET q == requests[r]
               n == requests'[r]
           IN  \/ /\ q.phase = "sender" /\ n.phase = "org" /\ SenderFree(q.by)
                  /\ Same(n, q) /\ n.fresh = FALSE /\ q.fresh = FALSE
               \/ /\ q.phase = "org" /\ n.phase = "finding" /\ OrgFree(q.org) /\ Gate(q.org, q.by)
                  /\ Same(n, q) /\ n.fresh = FALSE /\ q.fresh = FALSE
               \/ /\ q.phase \in Working /\ n.phase \in Working
                  /\ Same(n, q) /\ n.fresh = FALSE /\ q.fresh = FALSE
               \/ /\ q.phase = "recording" /\ n.phase \in {"mailing", "invited"}
                  /\ Same(n, q) /\ q.fresh = FALSE
               \/ /\ n.phase \notin {"org"} \cup Working
                  /\ n.fresh = FALSE /\ q.fresh = FALSE
               \/ /\ q.phase = "mailing" /\ n.phase = "invited"
                  /\ Same(n, q) /\ n.fresh = TRUE /\ q.fresh = TRUE /\ n.created = q.created
<1> DEFINE q == requests[r]
           n == requests'[r]
<1>1. requests \in [Requests -> Request] /\ q \in Request /\ RequestInv(r)
  BY DEF Inv, RequestsInv
<1>2. n \in Request /\ RequestInv(r)'
  BY OwnStep
<1>3. q.phase \notin {"mailing", "invited"} => q.fresh = FALSE
  BY <1>1 DEF RequestInv, Request
<1>4. n.phase \notin {"mailing", "invited"} => n.fresh = FALSE
  BY <1>2 DEF RequestInv, Request
<1>5. ASSUME ~At(r, "mailing"), Go(r, "failed")
      PROVE  n.phase = "failed"
  BY <1>1, <1>5 DEF Go, Ends, Ended, Quiet
<1>6. CASE Ask(r)
  <2>1. PICK o \in Orgs, s \in Senders, p \in People :
            requests' = [requests EXCEPT ![r] =
               IF Gate(o, s) THEN [Quiet EXCEPT !.phase = "sender", !.org = o, !.by = s, !.to = p]
               ELSE Ended(Quiet, "failed")]
    BY <1>6 DEF Ask
  <2>2. n.phase \in {"sender", "failed"}
    BY <1>1, <2>1 DEF Quiet, Ended
  <2>3. q.phase = "idle"
    BY <1>6 DEF Ask, At
  <2> QED BY <1>3, <1>4, <2>2, <2>3 DEF Working
<1>7. CASE LockSender(r)
  <2>1. n = [q EXCEPT !.phase = "org"] /\ q.phase = "sender" /\ SenderFree(q.by)
    BY <1>1, <1>7 DEF LockSender, Go, Ends, At
  <2>2. n.phase = "org" /\ Same(n, q)
    BY <1>1, <2>1 DEF Request, Same
  <2> QED BY <1>3, <1>4, <2>1, <2>2
<1>8. CASE LockOrg(r)
  <2>1. q.phase = "org" /\ OrgFree(q.org)
    BY <1>8 DEF LockOrg, At
  <2>2. CASE ~GateAgain(q.org, q.by)
    <3>1. n.phase = "failed"
      BY <1>5, <1>8, <2>1, <2>2 DEF LockOrg, At
    <3> QED BY <1>3, <1>4, <2>1, <3>1 DEF Working
  <2>3. CASE GateAgain(q.org, q.by)
    <3>1. n = [q EXCEPT !.phase = "finding"]
      BY <1>1, <1>8, <2>3 DEF LockOrg, Go, Ends
    <3>2. n.phase = "finding" /\ Same(n, q)
      BY <1>1, <3>1 DEF Request, Same
    <3> QED BY <1>3, <1>4, <2>1, <2>3, <3>2 DEF GateAgain
  <2> QED BY <2>2, <2>3
<1>9. CASE Find(r) \/ Create(r) \/ Refind(r)
  <2>1. q.phase \in {"finding", "creating", "refinding"}
    BY <1>9 DEF Find, Create, Refind, At
  <2>2. \/ Go(r, "failed")
        \/ n.phase \in Working /\ Same(n, q)
    <3>1. CASE Find(r)
      <4>1. \/ n = [q EXCEPT !.phase = "regating", !.account = accounts[q.to], !.tries = 0]
            \/ n = [q EXCEPT !.phase = "creating"]
        BY <1>1, <3>1 DEF Find, Found, Go, Ends
      <4> QED BY <1>1, <4>1 DEF Request, Same, Working
    <3>2. CASE Create(r)
      <4>1. \/ n = [q EXCEPT !.phase = "refinding", !.tries = 2]
            \/ n = [[q EXCEPT !.phase = "regating", !.account = "unconfirmed"] EXCEPT !.created = TRUE]
            \/ n = [[q EXCEPT !.phase = "refinding", !.tries = 2] EXCEPT !.created = TRUE]
        BY <1>1, <3>2 DEF Create
      <4> QED BY <1>1, <4>1 DEF Request, Same, Working
    <3>3. CASE Refind(r)
      <4>1. \/ Go(r, "failed")
            \/ n = [q EXCEPT !.phase = "regating", !.account = accounts[q.to], !.tries = 0]
            \/ n = [q EXCEPT !.tries = q.tries - 1]
        BY <1>1, <3>3 DEF Refind, Found
      <4>2. n = [q EXCEPT !.tries = q.tries - 1] => n.phase = "refinding" /\ Same(n, q)
        BY <1>1, <3>3 DEF Request, Same, Refind, At
      <4>3. n = [q EXCEPT !.phase = "regating", !.account = accounts[q.to], !.tries = 0]
                => n.phase = "regating" /\ Same(n, q)
        BY <1>1 DEF Request, Same
      <4> QED BY <4>1, <4>2, <4>3 DEF Working
    <3> QED BY <1>9, <3>1, <3>2, <3>3
  <2>3. Go(r, "failed") => n.phase = "failed"
    BY <1>5, <2>1 DEF At
  <2> QED BY <1>3, <1>4, <2>1, <2>2, <2>3 DEF Working
<1>10. CASE Regate(r)
  <2>1. q.phase = "regating"
    BY <1>10 DEF Regate, At
  <2>2. \/ Go(r, "failed")
        \/ n = [q EXCEPT !.phase = "recording"]
        \/ n = [q EXCEPT !.phase = "invited", !.account = "none"]
    BY <1>1, <1>10 DEF Regate, Go, Ends, Ended
  <2>3. n = [q EXCEPT !.phase = "recording"] => n.phase = "recording" /\ Same(n, q)
    BY <1>1 DEF Request, Same
  <2>4. n = [q EXCEPT !.phase = "invited", !.account = "none"] => n.phase = "invited" /\ n.fresh = q.fresh
    BY <1>1 DEF Request
  <2>5. Go(r, "failed") => n.phase = "failed"
    BY <1>5, <2>1 DEF At
  <2> QED BY <1>3, <1>4, <2>1, <2>2, <2>3, <2>4, <2>5 DEF Working
<1>11. CASE Commit(r)
  <2>1. q.phase = "recording"
    BY <1>11 DEF Commit, At
  <2>2. n.phase \in {"mailing", "invited"} /\ Same(n, q)
    BY <1>11, CommitInv DEF Same
  <2> QED BY <1>3, <2>1, <2>2
<1>12. ASSUME At(r, "mailing"), Go(r, "invited")
       PROVE  /\ q.phase = "mailing" /\ n.phase = "invited"
              /\ Same(n, q) /\ n.fresh = TRUE /\ q.fresh = TRUE /\ n.created = q.created
  <2>1. n = [q EXCEPT !.phase = "invited", !.account = "none"]
    BY <1>1, <1>12 DEF Go, Ends, Ended
  <2>2. q.phase = "mailing" /\ q.fresh = TRUE
    BY <1>1, <1>12 DEF At, RequestInv, Request
  <2>3. /\ n.phase = "invited" /\ n.org = q.org /\ n.by = q.by
        /\ n.fresh = q.fresh /\ n.created = q.created
    BY <1>1, <2>1 DEF Request
  <2> QED BY <2>2, <2>3 DEF Same
<1>13. CASE Mail(r)
  BY <1>12, <1>13 DEF Mail
<1>14. CASE Fail(r)
  <2>1. CASE At(r, "mailing")
    BY <1>12, <1>14, <2>1 DEF Fail
  <2>2. CASE ~At(r, "mailing")
    <3>1. n.phase = "failed" /\ q.phase \notin {"mailing", "invited"}
      BY <1>5, <1>14, <2>2 DEF Fail, Ends, At
    <3> QED BY <1>3, <1>4, <3>1 DEF Working
  <2> QED BY <2>1, <2>2
<1> QED BY <1>6, <1>7, <1>8, <1>9, <1>10, <1>11, <1>13, <1>14 DEF Step

\* Nobody takes a lock that another request holds.
LEMMA LocksApart ==
    ASSUME Inv, NEW r \in Requests, Step(r), NEW q \in Requests \ {r}
    PROVE  /\ HasSender(r)' /\ HasSender(q)' => requests'[r].by # requests'[q].by
           /\ HasOrg(r)' /\ HasOrg(q)' => requests'[r].org # requests'[q].org
<1>1. requests'[q] = requests[q]
  BY OthersStep
<1>2. LocksInv
  BY DEF Inv
<1>3. \A x \in Requests :
        /\ HasSender(x) <=> requests[x].phase \in {"org"} \cup Working
        /\ HasOrg(x) <=> requests[x].phase \in Working
        /\ HasSender(x)' <=> requests'[x].phase \in {"org"} \cup Working
        /\ HasOrg(x)' <=> requests'[x].phase \in Working
  BY WorkingPhases DEF HasSender, HasOrg
<1>4. ASSUME HasSender(r)' PROVE \/ HasSender(r) /\ requests'[r].by = requests[r].by
                                 \/ SenderFree(requests[r].by) /\ requests'[r].by = requests[r].by
  BY <1>3, <1>4, Moves DEF Same, Working
<1>5. ASSUME HasOrg(r)' PROVE \/ HasOrg(r) /\ requests'[r].org = requests[r].org
                              \/ OrgFree(requests[r].org) /\ requests'[r].org = requests[r].org
  BY <1>3, <1>5, Moves DEF Same, Working
<1>6. (HasSender(q)' <=> HasSender(q)) /\ (HasOrg(q)' <=> HasOrg(q))
  BY <1>1, <1>3
<1> QED BY <1>1, <1>2, <1>4, <1>5, <1>6 DEF LocksInv, SenderFree, OrgFree

\* What happens besides leaves the requests as they are.
LEMMA Elsewhere ==
    ASSUME \/ \E p \in People : List(p) \/ SignIn(p)
           \/ \E o \in Orgs, p \in People : Close(o, p)
           \/ \E m \in Leaving : Leave(m[1], m[2])
           \/ \E s \in Disabling : Disable(s)
    PROVE  requests' = requests
BY DEF List, SignIn, Close, Leave, Disable

LEMMA LocksStep ==
    ASSUME Inv, Next
    PROVE  LocksInv'
<1>1. ASSUME NEW r \in Requests, Step(r) PROVE LocksInv'
  <2>1. \A q \in Requests \ {r} : requests'[q] = requests[q]
    BY <1>1, OthersStep
  <2>2. \A q \in Requests \ {r} : (HasSender(q)' <=> HasSender(q)) /\ (HasOrg(q)' <=> HasOrg(q))
    BY <2>1 DEF HasSender, HasOrg
  <2>3. \A q \in Requests \ {r} :
          /\ HasSender(r)' /\ HasSender(q)' => requests'[r].by # requests'[q].by
          /\ HasOrg(r)' /\ HasOrg(q)' => requests'[r].org # requests'[q].org
    BY <1>1, LocksApart
  <2> QED BY <2>1, <2>2, <2>3 DEF Inv, LocksInv
<1>2. CASE requests' = requests
  BY <1>2 DEF Inv, LocksInv, HasSender, HasOrg
<1> QED BY <1>1, <1>2, Elsewhere DEF Next

\* Only a commit adds to what is sent, the request that was at work.
LEMMA Counted ==
    ASSUME Inv, NEW r \in Requests, Step(r)
    PROVE  /\ \A x \in Sent : requests'[x].org = requests[x].org /\ requests'[x].by = requests[x].by
           /\ Sent' \subseteq Sent \cup {r}
           /\ r \in AtWork' => r \notin Sent'
           /\ r \in Sent' \ Sent =>
                 r \in AtWork \ AtWork' /\ Same(requests'[r], requests[r])
           /\ AtWork' \ {r} = AtWork \ {r}
           /\ r \in AtWork' \ AtWork => 
                 Gate(requests[r].org, requests[r].by) /\ Same(requests'[r], requests[r])
           /\ r \in AtWork' \cap AtWork => Same(requests'[r], requests[r])
<1>1. \A q \in Requests \ {r} : requests'[q] = requests[q]
  BY OthersStep
<1>2. /\ AtWork = {x \in Requests : requests[x].phase \in Working}
      /\ AtWork' = {x \in Requests : requests'[x].phase \in Working}
  BY WorkingPhases DEF AtWork
<1>3. /\ "recording" \in Working /\ "finding" \in Working
      /\ "org" \notin Working /\ "sender" \notin Working /\ "mailing" \notin Working /\ "invited" \notin Working
  BY DEF Working
<1>4. Sent' = {x \in Requests : requests'[x].fresh}
  BY DEF Sent
<1>5. r \in Sent => Same(requests'[r], requests[r])
  <2>1. r \in Sent => requests[r].fresh /\ requests[r].phase \in {"mailing", "invited"}
    BY DEF Sent, Inv, RequestsInv, RequestInv
  <2> QED BY <1>3, <2>1, Moves
<1>6. \A x \in Sent : requests'[x].org = requests[x].org /\ requests'[x].by = requests[x].by
  BY <1>1, <1>5 DEF Sent, Same
<1>7. Sent' \subseteq Sent \cup {r} /\ AtWork' \ {r} = AtWork \ {r}
  BY <1>1, <1>2, <1>4 DEF Sent
<1>8. r \in AtWork' => r \notin Sent'
  BY <1>2, <1>3, <1>4, Moves
<1>9. r \in Sent' \ Sent => r \in AtWork \ AtWork' /\ Same(requests'[r], requests[r])
  BY <1>2, <1>3, <1>4, Moves DEF Sent
<1>10. r \in AtWork' \ AtWork =>
          Gate(requests[r].org, requests[r].by) /\ Same(requests'[r], requests[r])
  BY <1>2, <1>3, Moves
<1>11. r \in AtWork' \cap AtWork => Same(requests'[r], requests[r])
  BY <1>2, <1>3, Moves
<1> QED BY <1>6, <1>7, <1>8, <1>9, <1>10, <1>11

LEMMA Finite ==
    /\ IsFiniteSet(Sent) /\ IsFiniteSet(AtWork)
    /\ \A o : IsFiniteSet({r \in Sent : requests[r].org = o})
    /\ \A s : IsFiniteSet({r \in Sent : requests[r].by = s})
<1>1. Sent \subseteq Requests /\ AtWork \subseteq Requests
  BY DEF Sent, AtWork
<1>2. \A W \in SUBSET Requests : IsFiniteSet(W)
  BY FiniteAssumption, FS_Subset
<1>3. /\ \A o : {r \in Sent : requests[r].org = o} \in SUBSET Requests
      /\ \A s : {r \in Sent : requests[r].by = s} \in SUBSET Requests
  BY <1>1
<1> QED BY <1>1, <1>2, <1>3

LEMMA CountsTyped ==
    /\ SentByAll \in Nat /\ Cardinality(AtWork) \in Nat
    /\ \A o : SentTo(o) \in Nat
    /\ \A s : SentBy(s) \in Nat
<1>1. SentByAll \in Nat /\ Cardinality(AtWork) \in Nat
  BY Finite, FS_CardinalityType DEF SentByAll
<1>2. ASSUME NEW o PROVE SentTo(o) \in Nat
  BY Finite, FS_CardinalityType DEF SentTo
<1>3. ASSUME NEW s PROVE SentBy(s) \in Nat
  BY Finite, FS_CardinalityType DEF SentBy
<1> QED BY <1>1, <1>2, <1>3

LEMMA CountsAfter ==
    /\ SentByAll' \in Nat /\ Cardinality(AtWork') \in Nat
    /\ \A o : SentTo(o)' \in Nat
    /\ \A s : SentBy(s)' \in Nat
<1> DEFINE Typed ==
        /\ SentByAll \in Nat /\ Cardinality(AtWork) \in Nat
        /\ \A o : SentTo(o) \in Nat
        /\ \A s : SentBy(s) \in Nat
<1>1. Typed
  BY CountsTyped
<1> HIDE DEF Typed
<1>2. Typed'
  BY <1>1, PTL
<1> QED BY <1>2 DEF Typed

\* A set that grows by one element at most.
LEMMA AtMostOneMore ==
    ASSUME NEW S, NEW T, NEW x, IsFiniteSet(S), T \subseteq S \cup {x}
    PROVE  /\ IsFiniteSet(T) /\ Cardinality(T) \in Nat
           /\ Cardinality(T) <= Cardinality(S) + 1
           /\ x \notin T \ S => Cardinality(T) <= Cardinality(S)
<1>1. /\ IsFiniteSet(S \cup {x}) /\ Cardinality(S) \in Nat
      /\ Cardinality(S \cup {x}) = IF x \in S THEN Cardinality(S) ELSE Cardinality(S) + 1
  BY FS_AddElement, FS_CardinalityType
<1>2. IsFiniteSet(T) /\ Cardinality(T) <= Cardinality(S \cup {x})
  BY <1>1, FS_Subset
<1>3. Cardinality(T) \in Nat
  BY <1>2, FS_CardinalityType
<1>4. x \notin T \ S => Cardinality(T) <= Cardinality(S)
  <2>1. x \notin T \ S => T \subseteq S
    OBVIOUS
  <2> QED BY <2>1, FS_Subset
<1> QED BY <1>1, <1>2, <1>3, <1>4

LEMMA SumsStep ==
    ASSUME Inv, NEW r \in Requests, Step(r)
    PROVE  /\ \A o : \/ SentTo(o)' <= SentTo(o)
                     \/ r \in AtWork \ AtWork' /\ requests[r].org = o /\ SentTo(o)' <= SentTo(o) + 1
           /\ \A s : \/ SentBy(s)' <= SentBy(s)
                     \/ r \in AtWork \ AtWork' /\ requests[r].by = s /\ SentBy(s)' <= SentBy(s) + 1
           /\ \/ SentByAll' <= SentByAll
              \/ r \in AtWork \ AtWork' /\ SentByAll' <= SentByAll + 1
           /\ r \in AtWork' => SentByAll' <= SentByAll
<1>1. ASSUME NEW o
      PROVE  \/ SentTo(o)' <= SentTo(o)
             \/ r \in AtWork \ AtWork' /\ requests[r].org = o /\ SentTo(o)' <= SentTo(o) + 1
  <2> DEFINE S == {x \in Sent : requests[x].org = o}
             T == {x \in Sent' : requests'[x].org = o}
  <2>1. IsFiniteSet(S)
    BY Finite
  <2>2. T \subseteq S \cup {r}
    BY Counted
  <2>3. r \in T \ S => r \in AtWork \ AtWork' /\ requests[r].org = o
    BY Counted DEF Same
  <2>4. SentTo(o) = Cardinality(S) /\ SentTo(o)' = Cardinality(T)
    BY DEF SentTo
  <2> HIDE DEF S, T
  <2> QED BY <2>1, <2>2, <2>3, <2>4, AtMostOneMore
<1>2. ASSUME NEW s
      PROVE  \/ SentBy(s)' <= SentBy(s)
             \/ r \in AtWork \ AtWork' /\ requests[r].by = s /\ SentBy(s)' <= SentBy(s) + 1
  <2> DEFINE S == {x \in Sent : requests[x].by = s}
             T == {x \in Sent' : requests'[x].by = s}
  <2>1. IsFiniteSet(S)
    BY Finite
  <2>2. T \subseteq S \cup {r}
    BY Counted
  <2>3. r \in T \ S => r \in AtWork \ AtWork' /\ requests[r].by = s
    BY Counted DEF Same
  <2>4. SentBy(s) = Cardinality(S) /\ SentBy(s)' = Cardinality(T)
    BY DEF SentBy
  <2> HIDE DEF S, T
  <2> QED BY <2>1, <2>2, <2>3, <2>4, AtMostOneMore
<1>3. /\ Sent' \subseteq Sent \cup {r}
      /\ r \in Sent' \ Sent => r \in AtWork \ AtWork'
      /\ r \in AtWork' => r \notin Sent'
  BY Counted
<1>4. SentByAll = Cardinality(Sent) /\ SentByAll' = Cardinality(Sent')
  BY DEF SentByAll
<1>5. /\ SentByAll' <= SentByAll + 1
      /\ r \notin Sent' \ Sent => SentByAll' <= SentByAll
  BY <1>3, <1>4, Finite, AtMostOneMore
<1> QED BY <1>1, <1>2, <1>3, <1>5

LEMMA CapsStep ==
    ASSUME Inv, Next
    PROVE  CapsInv'
<1>1. CapsInv /\ LocksInv /\ OrgCap \in Nat /\ CallerCap \in Nat
  BY CapsAssumption DEF Inv
<1>2. CASE requests' = requests
  <2>1. Sent' = Sent /\ AtWork' = AtWork
    BY <1>2 DEF Sent, AtWork
  <2>2. (\A o : SentTo(o)' = SentTo(o)) /\ (\A s : SentBy(s)' = SentBy(s))
    BY <1>2, <2>1 DEF SentTo, SentBy
  <2> QED BY <1>1, <1>2, <2>1, <2>2 DEF CapsInv
<1>3. ASSUME NEW r \in Requests, Step(r) PROVE CapsInv'
  <2> DEFINE q == requests[r]
             n == requests'[r]
  <2>1. \A x \in AtWork : SentTo(requests[x].org) < OrgCap /\ SentBy(requests[x].by) < CallerCap
    BY <1>1 DEF CapsInv
  <2>2. /\ \A o : SentTo(o) \in Nat /\ SentTo(o)' \in Nat
        /\ \A s : SentBy(s) \in Nat /\ SentBy(s)' \in Nat
    <3>1. (\A o : SentTo(o)' \in Nat) /\ (\A s : SentBy(s)' \in Nat)
      BY <1>3, CountsAfter
    <3> QED BY <3>1, CountsTyped
  <2>3. ASSUME NEW o \in Orgs PROVE SentTo(o)' <= OrgCap
    <3>1. SentTo(o) <= OrgCap
      BY <1>1 DEF CapsInv
    <3> QED BY <1>1, <1>3, <2>1, <2>2, <3>1, SumsStep
  <2>4. ASSUME NEW s \in Senders PROVE SentBy(s)' <= CallerCap
    <3>1. SentBy(s) <= CallerCap
      BY <1>1 DEF CapsInv
    <3> QED BY <1>1, <1>3, <2>1, <2>2, <3>1, SumsStep
  <2>5. ASSUME NEW x \in AtWork', NEW o, NEW s, o = requests'[x].org, s = requests'[x].by
        PROVE  SentTo(o)' < OrgCap /\ SentBy(s)' < CallerCap
    <3>1. CASE x = r
      <4>1. o = q.org /\ s = q.by
        BY <1>3, <2>5, <3>1, Counted DEF Same
      <4>2. SentTo(o) < OrgCap /\ SentBy(s) < CallerCap
        BY <1>3, <2>1, <2>5, <3>1, <4>1, Counted DEF Gate
      <4>3. SentTo(o)' <= SentTo(o) /\ SentBy(s)' <= SentBy(s)
        BY <1>3, <2>5, <3>1, SumsStep
      <4> QED BY <1>1, <2>2, <4>2, <4>3
    <3>2. CASE x # r
      <4>1. x \in AtWork /\ x \in Requests /\ requests'[x] = requests[x]
        BY <1>3, <2>5, <3>2, Counted, OthersStep DEF AtWork
      <4>2. SentTo(o) < OrgCap /\ SentBy(s) < CallerCap
        BY <2>1, <2>5, <4>1
      <4>3. r \in AtWork => requests[r].org # o /\ requests[r].by # s
        BY <1>1, <2>5, <3>2, <4>1, WorkingPhases DEF LocksInv, HasSender, HasOrg
      <4>4. SentTo(o)' <= SentTo(o) /\ SentBy(s)' <= SentBy(s)
        BY <1>3, <4>3, SumsStep
      <4> QED BY <1>1, <2>2, <4>2, <4>4
    <3> QED BY <3>1, <3>2
  <2>6. ASSUME NEW x \in AtWork'
        PROVE  (SentTo(requests[x].org) < OrgCap /\ SentBy(requests[x].by) < CallerCap)'
    BY <2>5 DEF SentTo, SentBy
  <2> QED BY <2>3, <2>4, <2>6 DEF CapsInv
<1> QED BY <1>2, <1>3, Elsewhere DEF Next

-----------------------------------------------------------------------------
(* The global cap. *)

\* The most requests that can be at work at once.
Workers == Min({Cardinality(Orgs), Cardinality(Senders)})

LEMMA WorkersIsMin ==
    /\ Workers \in Nat /\ Workers >= 1
    /\ Workers \in {Cardinality(Orgs), Cardinality(Senders)}
<1> DEFINE m == Cardinality(Orgs)
           n == Cardinality(Senders)
<1>1. m \in Nat /\ n \in Nat /\ m # 0 /\ n # 0
  BY FiniteAssumption, FS_CardinalityType, FS_EmptySet
<1> HIDE DEF m, n
<1>2. \E x \in {m, n} : \A y \in {m, n} : x <= y
  BY <1>1
<1>3. Min({m, n}) \in {m, n}
  BY <1>2 DEF Min
<1> QED BY <1>1, <1>3 DEF Workers, m, n

\* Each works for an organization and for a sender of its own.
LEMMA WorkersBound ==
    ASSUME NEW W \in SUBSET Requests, NEW f,
           \A r \in W : f[r].org \in Orgs /\ f[r].by \in Senders,
           \A r, q \in W : f[r].org = f[q].org \/ f[r].by = f[q].by => r = q
    PROVE  Cardinality(W) <= Workers
<1> DEFINE org == [r \in W |-> f[r].org]
           by == [r \in W |-> f[r].by]
<1>1. org \in Injection(W, Orgs) /\ by \in Injection(W, Senders)
  BY DEF Injection, IsInjective
<1>2. Cardinality(W) <= Cardinality(Orgs) /\ Cardinality(W) <= Cardinality(Senders)
  BY <1>1, FiniteAssumption, FS_Injection
<1> QED BY <1>2, WorkersIsMin

LEMMA OvershootStep ==
    ASSUME Inv, Next, RequestsInv', LocksInv'
    PROVE  OvershootIsSlight'
<1>1. SentByAll + Cardinality(AtWork) < GlobalCap + Workers
  BY DEF Inv, OvershootIsSlight, Workers
<1>2. GlobalCap \in Nat /\ Workers \in Nat
  BY CapsAssumption, WorkersIsMin
<1>3. SUFFICES SentByAll' + Cardinality(AtWork') < GlobalCap + Workers
  BY DEF OvershootIsSlight, Workers
<1>4. /\ SentByAll \in Nat /\ Cardinality(AtWork) \in Nat
      /\ SentByAll' \in Nat /\ Cardinality(AtWork') \in Nat
  BY CountsTyped, CountsAfter
<1>5. CASE requests' = requests
  <2>1. SentByAll' = SentByAll /\ AtWork' = AtWork
    BY <1>5 DEF SentByAll, Sent, AtWork
  <2> QED BY <1>1, <2>1
<1>6. ASSUME NEW r \in Requests, Step(r)
      PROVE  SentByAll' + Cardinality(AtWork') < GlobalCap + Workers
  <2>1. AtWork' \ {r} = AtWork \ {r}
    BY <1>6, Counted
  <2>2. CASE r \in AtWork' \ AtWork
    <3>1. SentByAll < GlobalCap /\ SentByAll' <= SentByAll
      BY <1>6, <2>2, Counted, SumsStep DEF Gate
    <3>2. /\ AtWork' \in SUBSET Requests
          /\ \A x \in AtWork' : requests'[x].org \in Orgs /\ requests'[x].by \in Senders
      BY WorkingPhases DEF RequestsInv, RequestInv, Named, Working, AtWork
    <3>3. \A x, y \in AtWork' : requests'[x].org = requests'[y].org \/ requests'[x].by = requests'[y].by => x = y
      BY WorkingPhases DEF LocksInv, HasSender, HasOrg, AtWork
    <3>4. Cardinality(AtWork') <= Workers
      BY <3>2, <3>3, WorkersBound
    <3> QED BY <1>2, <1>4, <3>1, <3>4
  <2>3. CASE r \in AtWork \ AtWork'
    <3>1. AtWork' = AtWork \ {r}
      BY <2>1, <2>3
    <3>2. Cardinality(AtWork') = Cardinality(AtWork) - 1
      BY <2>3, <3>1, Finite, FS_RemoveElement
    <3>3. SentByAll' <= SentByAll + 1
      BY <1>4, <1>6, SumsStep
    <3> QED BY <1>1, <1>2, <1>4, <3>2, <3>3
  <2>4. CASE (r \in AtWork) <=> (r \in AtWork')
    <3>1. AtWork' = AtWork
      BY <2>1, <2>4
    <3>2. SentByAll' <= SentByAll
      BY <1>6, <2>4, SumsStep
    <3> QED BY <1>1, <1>2, <1>4, <3>1, <3>2
  <2> QED BY <2>2, <2>3, <2>4
<1> QED BY <1>5, <1>6, Elsewhere DEF Next

-----------------------------------------------------------------------------
(* The invariant, and what follows from it. *)

LEMMA InitInv == Init => Inv
<1> SUFFICES ASSUME Init PROVE Inv
  OBVIOUS
<1>1. /\ requests = [r \in Requests |-> Quiet] /\ requests \in [Requests -> Request]
      /\ \A r \in Requests : requests[r] = Quiet
  BY QuietTyped DEF Init
<1>2. Quiet.phase = "idle" /\ Quiet.fresh = FALSE /\ Quiet.created = FALSE
  BY DEF Quiet
<1>3. RequestsInv
  <2> QED BY <1>1, <1>2, QuietTyped DEF RequestsInv, RequestInv, CreatorInv, Working
<1>4. TablesInv
  <2>1. accounts \in [People -> Accounts]
    BY BoundsAssumption DEF Init
  <2> QED BY <2>1 DEF Init, TablesInv
<1>5. \A r \in Requests : ~HasSender(r) /\ ~HasOrg(r)
  BY <1>1, <1>2, WorkingPhases DEF HasSender, HasOrg, Working
<1>6. LocksInv
  BY <1>5 DEF LocksInv
<1>7. Sent = {} /\ AtWork = {}
  BY <1>1, <1>2, WorkingPhases DEF Sent, Working
<1>8. /\ SentByAll = 0 /\ Cardinality(AtWork) = 0
      /\ \A o : SentTo(o) = 0
      /\ \A s : SentBy(s) = 0
  BY <1>7, FS_EmptySet DEF SentByAll, SentTo, SentBy
<1>9. CapsInv
  BY <1>7, <1>8, CapsAssumption DEF CapsInv
<1>10. OvershootIsSlight
  BY <1>8, CapsAssumption, WorkersIsMin DEF OvershootIsSlight, Workers
<1> QED BY <1>3, <1>4, <1>6, <1>9, <1>10 DEF Inv

LEMMA StepInv == Inv /\ [Next]_vars => Inv'
<1> SUFFICES ASSUME Inv, [Next]_vars PROVE Inv'
  OBVIOUS
<1>1. CASE Next
  <2>1. RequestsInv' /\ LocksInv'
    BY <1>1, RequestsStep, LocksStep
  <2> QED BY <1>1, <2>1, TablesStep, CapsStep, OvershootStep DEF Inv
<1>2. CASE UNCHANGED vars
  <2>1. RequestsInv'
    BY <1>2 DEF vars, Inv, RequestsInv, RequestInv, CreatorInv
  <2>2. TablesInv'
    BY <1>2 DEF vars, Inv, TablesInv, At
  <2>3. LocksInv'
    BY <1>2 DEF vars, Inv, LocksInv, HasSender, HasOrg
  <2>4. CapsInv' /\ OvershootIsSlight'
    BY <1>2 DEF vars, Inv, CapsInv, OvershootIsSlight, AtWork, SentTo, SentBy, SentByAll, Sent
  <2> QED BY <2>1, <2>2, <2>3, <2>4 DEF Inv
<1> QED BY <1>1, <1>2

THEOREM AlwaysInv == Spec => []Inv
BY InitInv, StepInv, PTL DEF Spec

\* Requests, accounts and rows are always of their types, and a look-up never
\* runs out of tries before it gives up.
THEOREM InvitesWellTyped == Spec => []TypeOK
<1>1. Inv => TypeOK
  BY DEF Inv, RequestsInv, TablesInv, TypeOK
<1> QED BY <1>1, AlwaysInv, PTL

\* Who is at work for an organization, and for a sender, is one request.
LEMMA OneAtWork ==
    ASSUME Inv
    PROVE  /\ \A o : \/ {r \in AtWork : requests[r].org = o} = {}
                     \/ \E r \in AtWork : requests[r].org = o /\ {q \in AtWork : requests[q].org = o} = {r}
           /\ \A s : \/ {r \in AtWork : requests[r].by = s} = {}
                     \/ \E r \in AtWork : requests[r].by = s /\ {q \in AtWork : requests[q].by = s} = {r}
BY WorkingPhases DEF Inv, LocksInv, HasSender, HasOrg

\* Of those one organization or sender counts, W at work and S sent are within the cap.
LEMMA Within ==
    ASSUME NEW S, NEW W, NEW C, NEW cap \in Nat, IsFiniteSet(S), C \subseteq S \cup W,
           Cardinality(S) <= cap,
           W = {} \/ (Cardinality(S) < cap /\ \E r : W = {r})
    PROVE  Cardinality(S) + Cardinality(W) <= cap /\ Cardinality(C) <= cap
<1>1. Cardinality(S) \in Nat
  BY FS_CardinalityType
<1>2. CASE W = {}
  <2>1. Cardinality(W) = 0
    BY <1>2, FS_EmptySet
  <2>2. Cardinality(C) <= Cardinality(S) /\ Cardinality(C) \in Nat
    BY <1>2, FS_Subset, FS_CardinalityType
  <2> QED BY <1>1, <2>1, <2>2
<1>3. ASSUME NEW r, W = {r}, Cardinality(S) < cap
      PROVE  Cardinality(S) + Cardinality(W) <= cap /\ Cardinality(C) <= cap
  <2>1. Cardinality(W) = 1
    BY <1>3, FS_Singleton
  <2>2. Cardinality(C) <= Cardinality(S) + 1 /\ Cardinality(C) \in Nat
    BY <1>3, AtMostOneMore
  <2> QED BY <1>1, <1>3, <2>1, <2>2
<1> QED BY <1>2, <1>3

LEMMA CapsFollow ==
    ASSUME Inv
    PROVE  CapsBind
<1>1. Created \subseteq Sent \cup AtWork
  BY WorkingPhases DEF Created, Inv, RequestsInv, CreatorInv, Sent, Working
<1>2. OrgCap \in Nat /\ CallerCap \in Nat
  BY CapsAssumption
<1>3. ASSUME NEW o \in Orgs
      PROVE  /\ SentTo(o) + Cardinality({r \in AtWork : requests[r].org = o}) <= OrgCap
             /\ Cardinality({r \in Created : requests[r].org = o}) <= OrgCap
  <2> DEFINE S == {r \in Sent : requests[r].org = o}
             W == {r \in AtWork : requests[r].org = o}
             C == {r \in Created : requests[r].org = o}
  <2>1. IsFiniteSet(S) /\ C \subseteq S \cup W
    BY <1>1, Finite
  <2>2. SentTo(o) = Cardinality(S) /\ SentTo(o) <= OrgCap
    BY DEF SentTo, Inv, CapsInv
  <2>3. W = {} \/ (SentTo(o) < OrgCap /\ \E r : W = {r})
    BY OneAtWork DEF Inv, CapsInv
  <2> HIDE DEF S, W, C
  <2>4. Cardinality(S) <= OrgCap /\ (W = {} \/ (Cardinality(S) < OrgCap /\ \E r : W = {r}))
    BY <2>2, <2>3
  <2>5. Cardinality(S) + Cardinality(W) <= OrgCap /\ Cardinality(C) <= OrgCap
    BY <1>2, <2>1, <2>4, Within
  <2> QED BY <2>2, <2>5 DEF W, C
<1>4. ASSUME NEW s \in Senders
      PROVE  /\ SentBy(s) + Cardinality({r \in AtWork : requests[r].by = s}) <= CallerCap
             /\ Cardinality({r \in Created : requests[r].by = s}) <= CallerCap
  <2> DEFINE S == {r \in Sent : requests[r].by = s}
             W == {r \in AtWork : requests[r].by = s}
             C == {r \in Created : requests[r].by = s}
  <2>1. IsFiniteSet(S) /\ C \subseteq S \cup W
    BY <1>1, Finite
  <2>2. SentBy(s) = Cardinality(S) /\ SentBy(s) <= CallerCap
    BY DEF SentBy, Inv, CapsInv
  <2>3. W = {} \/ (SentBy(s) < CallerCap /\ \E r : W = {r})
    BY OneAtWork DEF Inv, CapsInv
  <2> HIDE DEF S, W, C
  <2>4. Cardinality(S) <= CallerCap /\ (W = {} \/ (Cardinality(S) < CallerCap /\ \E r : W = {r}))
    BY <2>2, <2>3
  <2>5. Cardinality(S) + Cardinality(W) <= CallerCap /\ Cardinality(C) <= CallerCap
    BY <1>2, <2>1, <2>4, Within
  <2> QED BY <2>2, <2>5 DEF W, C
<1> QED BY <1>3, <1>4 DEF CapsBind, AccountsWithinCaps, CapsHold

\* No interleaving of requests passes the cap of an organization or of a sender, in
\* rows or in Cognito accounts.
THEOREM CapsAlwaysBind == Spec => []CapsBind
BY AlwaysInv, CapsFollow, PTL

\* The global cap is passed by less than the requests the locks let work at once.
THEOREM OvershootAlwaysSlight == Spec => []OvershootIsSlight
<1>1. Inv => OvershootIsSlight
  BY DEF Inv
<1> QED BY <1>1, AlwaysInv, PTL

\* A mail goes only to people whom a committed request has recorded.
THEOREM MailsFollowCommits == Spec => []MailsAfterCommit
<1>1. Inv => MailsAfterCommit
  BY DEF Inv, RequestsInv, RequestInv, TablesInv, MailsAfterCommit
<1> QED BY <1>1, AlwaysInv, PTL

\* Whatever happens between the gate and the call, no account is created for
\* somebody who has lost the organization.
THEOREM CreatorsHaveStanding == Spec => CreatedWithStanding
<1> DEFINE Standing == \A r \in Requests :
              requests'[r].created /\ ~requests[r].created
                  => <<requests[r].org, requests[r].by>> \in members
<1>1. Inv /\ [Next]_vars => [Standing]_vars
  <2> SUFFICES ASSUME Inv, Next, NEW r \in Requests, requests'[r].created, ~requests[r].created
               PROVE  <<requests[r].org, requests[r].by>> \in members
    OBVIOUS
  <2>1. requests' # requests
    OBVIOUS
  <2>2. PICK x \in Requests : Step(x)
    BY <2>1, Elsewhere DEF Next
  <2>3. Step(r)
    BY <2>2, OthersStep
  <2>4. requests[r].phase \in Working
    <3>1. CreatorInv(r)'
      BY <2>3, OwnStep
    <3> QED BY <2>3, <3>1, Moves DEF CreatorInv, Working
  <2> QED BY <2>4 DEF Inv, RequestsInv, RequestInv
<1>2. Spec => [][Standing]_vars
  BY <1>1, AlwaysInv, PTL DEF Spec
<1> QED BY <1>2 DEF CreatedWithStanding

=============================================================================
