----------------------------- MODULE InviteFlow -----------------------------
(***************************************************************************)
(* POST /orgs/{org}/invitations, several at a time: one open transaction   *)
(* around the calls to Cognito, and the mail after its commit.             *)
(*                                                                         *)
(* One role stands for all, an invitation does not expire, and no request  *)
(* lasts a day: the sends counted are those of the last 24 hours.          *)
(***************************************************************************)
EXTENDS Integers, FiniteSets, FiniteSetsExt

CONSTANTS
    Requests,   \* bound: requests in one behaviour
    Orgs,
    Senders,    \* the admins and point people of these organizations
    People,     \* the addresses invited
    OrgCap, CallerCap, GlobalCap,
    None,
    AtFirst,    \* bound: the Cognito accounts there are at first
    Leaving,    \* bound: <<o, s>>: the memberships that may be revoked
    Disabling   \* bound: the senders whose account may be disabled

ASSUME CapsAssumption == {OrgCap, CallerCap, GlobalCap} \subseteq Nat

\* unconfirmed: FORCE_CHANGE_PASSWORD.  unusable: not can_be_invited.
Accounts == {"none", "unconfirmed", "confirmed", "unusable"}

ASSUME BoundsAssumption == 
    AtFirst \subseteq Accounts /\ Leaving \subseteq Orgs \X Senders /\ Disabling \subseteq Senders
ASSUME NoneAssumption == None \notin Orgs \cup Senders \cup People
ASSUME FiniteAssumption ==
    /\ IsFiniteSet(Requests) /\ IsFiniteSet(Orgs) /\ IsFiniteSet(Senders)
    /\ Orgs # {} /\ Senders # {}

VARIABLES
    requests,   \* requests[r]: where it is, whom it is about, what it found
    accounts,   \* accounts[p]: the Cognito account
    listed,     \* the people whose account ListUsers finds by now
    people,     \* the people with a row in users
    open,       \* <<o, p>>: an open invitation
    members,    \* <<o, s>>: s may invite to o
    disabled,   \* the senders whose own account is disabled
    mails       \* mails[p]: invitation mails

vars == <<requests, accounts, listed, people, open, members, disabled, mails>>

Ends == {"failed", "invited"}

\* From the lock on the sender to the commit, in this order.
Locked == <<"org", "finding", "creating", "refinding", "regating", "recording">>

Phases == {"idle", "sender", "mailing"} \cup Ends \cup {Locked[i] : i \in 1..6}

\* account: what Cognito answered; created: this request created it; tries:
\* look-ups left; fresh: its invitation was new.
Request ==
    [phase: Phases, org: Orgs \cup {None}, by: Senders \cup {None}, to: People \cup {None},
     account: Accounts, created: BOOLEAN, tries: 0..2, fresh: BOOLEAN]

Quiet == [phase |-> "idle", org |-> None, by |-> None, to |-> None, account |-> "none",
          created |-> FALSE, tries |-> 0, fresh |-> FALSE]

Init ==
    /\ requests = [r \in Requests |-> Quiet]
    /\ accounts \in [People -> AtFirst]
    /\ listed = {p \in People : accounts[p] # "none"}
    /\ people \in SUBSET listed
    /\ open = {}
    /\ members = Orgs \X Senders
    /\ disabled = {}
    /\ mails = [p \in People |-> 0]

-----------------------------------------------------------------------------
\* The requests whose row is in org_invitations, closed or not: what the caps
\* count, since none of them is a day old.
Sent == {r \in Requests : requests[r].fresh}

SentTo(o) == Cardinality({r \in Sent : requests[r].org = o})
SentBy(s) == Cardinality({r \in Sent : requests[r].by = s})
SentByAll == Cardinality(Sent)

Gate(o, s) ==
    /\ s \notin disabled /\ <<o, s>> \in members
    /\ SentTo(o) < OrgCap /\ SentBy(s) < CallerCap /\ SentByAll < GlobalCap

At(r, phase) == requests[r].phase = phase

\* mutant: the transaction of invite_begin is committed before Cognito is called
LockedFrom_Short(n) == {Locked[i] : i \in n..1}

LockedFrom(n) == {Locked[i] : i \in n..6}

HasSender(r) == requests[r].phase \in LockedFrom(1)

HasOrg(r) == requests[r].phase \in LockedFrom(2)

\* mutant: no lock on the sender
SenderFree_Always(s) == TRUE

SenderFree(s) == \A r \in Requests : HasSender(r) => requests[r].by # s

OrgFree(o) == \A r \in Requests : HasOrg(r) => requests[r].org # o

\* The end of a request: only an answer of 202 leaves anything to remember.
Ended(q, phase) ==
    IF phase = "invited" THEN [q EXCEPT !.phase = phase, !.account = "none"]
    ELSE [Quiet EXCEPT !.phase = phase]

Go(r, phase) ==
    requests' = [requests EXCEPT ![r] =
                    IF phase \in Ends THEN Ended(@, phase) ELSE [@ EXCEPT !.phase = phase]]

Found(r, account) ==
    requests' = [requests EXCEPT ![r].phase = "regating", ![r].account = account, ![r].tries = 0]

Outside == <<accounts, listed, mails>>

Inside == <<people, open, members, disabled>>

-----------------------------------------------------------------------------
(* The request. *)

\* The gate before any lock.
Ask(r) ==
    /\ At(r, "idle")
    /\ \E o \in Orgs, s \in Senders, p \in People :
          requests' = [requests EXCEPT ![r] =
             IF Gate(o, s) THEN [Quiet EXCEPT !.phase = "sender", !.org = o, !.by = s, !.to = p]
             ELSE Ended(Quiet, "failed")]
    /\ UNCHANGED <<Outside, Inside>>

LockSender(r) ==
    /\ At(r, "sender") /\ SenderFree(requests[r].by)
    /\ Go(r, "org")
    /\ UNCHANGED <<Outside, Inside>>

\* mutant: what was true before the wait for the locks is not asked again
GateAgain_Trusted(o, s) == TRUE

GateAgain(o, s) == Gate(o, s)

\* The lock and the second gate.
LockOrg(r) ==
    /\ At(r, "org") /\ OrgFree(requests[r].org)
    /\ Go(r, IF GateAgain(requests[r].org, requests[r].by) THEN "finding" ELSE "failed")
    /\ UNCHANGED <<Outside, Inside>>

Find(r) ==
    /\ At(r, "finding")
    /\ IF requests[r].to \in listed THEN Found(r, accounts[requests[r].to]) ELSE Go(r, "creating")
    /\ UNCHANGED <<Outside, Inside>>

\* mutant: MessageAction is left out, so that Cognito sends its mail at once
MailOfCreate_Default(p) == mails' = [mails EXCEPT ![p] = @ + 1]

MailOfCreate(p) == mails' = mails

\* A reply that is lost is tried again by the client, then answered "exists".
Create(r) ==
    LET p == requests[r].to
    IN  /\ At(r, "creating")
        /\ IF accounts[p] = "none"
           THEN /\ accounts' = [accounts EXCEPT ![p] = "unconfirmed"]
                /\ MailOfCreate(p)
                /\ \E q \in {[requests[r] EXCEPT !.phase = "regating", !.account = "unconfirmed"],
                             [requests[r] EXCEPT !.phase = "refinding", !.tries = 2]} :
                      requests' = [requests EXCEPT ![r] = [q EXCEPT !.created = TRUE]]
           ELSE /\ requests' = [requests EXCEPT ![r].phase = "refinding", ![r].tries = 2]
                /\ UNCHANGED <<accounts, mails>>
        /\ UNCHANGED <<listed, Inside>>

LastLook(r) == requests[r].tries = 1

\* Two more look-ups, a second apart.
Refind(r) ==
    LET p == requests[r].to
    IN  /\ At(r, "refinding")
        /\ IF p \in listed THEN Found(r, accounts[p])
           ELSE IF LastLook(r) THEN Go(r, "failed")
           ELSE requests' = [requests EXCEPT ![r].tries = @ - 1]
        /\ UNCHANGED <<Outside, Inside>>

\* invite_user up to its first write.  Without a usable account an unknown
\* person is not recorded, and the answer is the same.
Regate(r) ==
    LET q == requests[r]
    IN  /\ At(r, "regating")
        /\ Go(r, IF ~GateAgain(q.org, q.by) THEN "failed"
                 ELSE IF q.to \notin people /\ q.account = "unusable" THEN "invited"
                 ELSE "recording")
        /\ UNCHANGED <<Outside, Inside>>

\* The rest of invite_user, and the commit.  The unique index on the address makes
\* a second request wait for this commit before it inserts the same person.
Commit(r) ==
    LET q == requests[r]
        fresh == <<q.org, q.to>> \notin open
        next == IF fresh /\ q.account = "unconfirmed" THEN "mailing" ELSE "invited"
    IN  /\ At(r, "recording")
        /\ people' = people \cup {q.to}
        /\ open' = open \cup {<<q.org, q.to>>}
        /\ requests' = [requests EXCEPT ![r] =
              LET recorded == [q EXCEPT !.fresh = fresh, !.phase = next]
              IN  IF next \in Ends THEN Ended(recorded, next) ELSE recorded]
        /\ UNCHANGED <<Outside, members, disabled>>

\* Cognito refuses to resend to somebody who has signed in since.
Mail(r) ==
    LET p == requests[r].to
    IN  /\ At(r, "mailing")
        /\ mails' = IF accounts[p] = "unconfirmed" THEN [mails EXCEPT ![p] = @ + 1] ELSE mails
        /\ Go(r, "invited")
        /\ UNCHANGED <<accounts, listed, Inside>>

\* A call to Cognito or a statement fails, a lock is not had in three seconds,
\* or the process ends: the transaction is rolled back, what Cognito did stays.
\* A mail that fails is only logged.
Fail(r) ==
    /\ requests[r].phase \notin Ends \cup {"idle"}
    /\ Go(r, IF At(r, "mailing") THEN "invited" ELSE "failed")
    /\ UNCHANGED <<Outside, Inside>>

Step(r) ==
    \/ Ask(r) \/ LockSender(r) \/ LockOrg(r) \/ Find(r) \/ Create(r) \/ Refind(r)
    \/ Regate(r) \/ Commit(r) \/ Mail(r) \/ Fail(r)

-----------------------------------------------------------------------------
(* What else happens meanwhile. *)

List(p) ==
    /\ accounts[p] # "none" /\ p \notin listed
    /\ listed' = listed \cup {p}
    /\ UNCHANGED <<requests, accounts, mails, Inside>>

SignIn(p) ==
    /\ accounts[p] = "unconfirmed" /\ mails[p] > 0
    /\ accounts' = [accounts EXCEPT ![p] = "confirmed"]
    /\ UNCHANGED <<requests, listed, mails, Inside>>

\* Accepting, declining and revoking an invitation all lock the organization.
Close(o, p) ==
    /\ <<o, p>> \in open /\ OrgFree(o)
    /\ open' = open \ {<<o, p>>}
    /\ UNCHANGED <<requests, Outside, people, members, disabled>>

\* mutant: the guard on memberships does not lock the organization
Undisturbed_Never(o) == TRUE

Undisturbed(o) == OrgFree(o)

\* A membership is revoked; the guard locks the organization.
Leave(o, s) ==
    /\ <<o, s>> \in members /\ Undisturbed(o)
    /\ members' = members \ {<<o, s>>}
    /\ UNCHANGED <<requests, Outside, people, open, disabled>>

\* An UPDATE of users, which locks no organization.
Disable(s) ==
    /\ s \notin disabled
    /\ disabled' = disabled \cup {s}
    /\ UNCHANGED <<requests, Outside, people, open, members>>

Next ==
    \/ \E r \in Requests : Step(r)
    \/ \E p \in People : List(p) \/ SignIn(p)
    \/ \E o \in Orgs, p \in People : Close(o, p)
    \/ \E m \in Leaving : Leave(m[1], m[2])
    \/ \E s \in Disabling : Disable(s)

Spec == Init /\ [][Next]_vars

-----------------------------------------------------------------------------
(* Properties. *)

\* Requests, accounts and rows are of their types; a look-up never runs out of tries.
TypeOK ==
    /\ requests \in [Requests -> Request]
    /\ accounts \in [People -> Accounts]
    /\ listed \subseteq People /\ people \subseteq People
    /\ open \subseteq Orgs \X People
    /\ members \subseteq Orgs \X Senders /\ disabled \subseteq Senders
    /\ mails \in [People -> Nat]

\* The accounts created for requests that did not fail later.
Created == {r \in Requests : requests[r].created /\ requests[r].phase # "failed"}

\* "concurrent requests can't all pass the caps and each create a Cognito
\* account" (invitations.py:11-15): no organization and no sender has more
\* accounts created for them than their cap, but for requests that failed.
AccountsWithinCaps ==
    /\ \A o \in Orgs : Cardinality({r \in Created : requests[r].org = o}) <= OrgCap
    /\ \A s \in Senders : Cardinality({r \in Created : requests[r].by = s}) <= CallerCap

\* The requests between their second gate and their commit.
AtWork == {r \in Requests : requests[r].phase \in {Locked[i] : i \in 2..6}}

\* The caps of an organization and of a sender are never passed (0006:177-182),
\* the requests at work counted as if they had been recorded.
CapsHold ==
    /\ \A o \in Orgs : SentTo(o) + Cardinality({r \in AtWork : requests[r].org = o}) <= OrgCap
    /\ \A s \in Senders : SentBy(s) + Cardinality({r \in AtWork : requests[r].by = s}) <= CallerCap

\* No interleaving of requests passes a cap, in accounts or in rows.
CapsBind == AccountsWithinCaps /\ CapsHold

\* "concurrent inviters can overshoot it slightly" (0006:184-186): the global
\* cap is passed by less than the inviters that the locks let work at once.
OvershootIsSlight ==
    SentByAll + Cardinality(AtWork) < GlobalCap + Min({Cardinality(Orgs), Cardinality(Senders)})

\* No account is created for somebody who has lost the organization since the
\* gate: the lock that the transaction keeps holds up the revocation.
CreatedWithStanding ==
    [][\A r \in Requests :
          requests'[r].created /\ ~requests[r].created
              => <<requests[r].org, requests[r].by>> \in members]_vars

\* "that must not go out before the database has accepted the invitation"
\* (cognito_admin.py:11-12): a mail goes only to people whom a committed
\* request has recorded.
MailsAfterCommit ==
    \A p \in People : mails[p] > 0 =>
        p \in people /\ \E r \in Requests : requests[r].to = p /\ requests[r].fresh /\ At(r, "invited")
=============================================================================
