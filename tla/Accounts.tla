------------------------------ MODULE Accounts ------------------------------
(***************************************************************************)
(* Who is let in, and who lets them in: requests that sign in with a       *)
(* Cognito token and act on one connection each (src/app/auth), and the    *)
(* operator's commands that make users and organizations (app.admin), at   *)
(* once.  A request in its route stands for one that creates an            *)
(* organization, the change that names its maker.                          *)
(*                                                                         *)
(* A user's id is its Cognito sub: both are unique, and never change.      *)
(***************************************************************************)
EXTENDS Naturals

CONSTANTS
    Requests, Commands,
    Subs, Emails, Names, Keys,
    None,
    Tokens,     \* bound: what requests present
    Calls,      \* bound: the commands that are run
    Beginnings, \* bound: the table of users at first
    Casts,      \* bound: the requests and commands that take part
    MaxWrites   \* bound: statements of one route

Processes == Requests \cup Commands

User == [sub: Subs, email: Emails, admin: BOOLEAN, disabled: BOOLEAN, by: Subs \cup {None}]

\* foreign: signed by Cognito, and not a current access token for this app.
\* forged: not signed by the key it names.
Token == [form: {"missing", "junk", "forged", "foreign", "good"}, kid: Keys, sub: Subs]

Call == [kind: {"create-user", "create-org"}, sub: Subs, email: Emails, admin: BOOLEAN,
         name: Names, as: Emails \cup {None}, apply: BOOLEAN]

Org == [name: Names, by: Subs, maker: Processes]

ASSUME NoneAssumption == None \notin Subs \cup Emails
ASSUME ProcessesAssumption == Requests \cap Commands = {}
ASSUME BoundsAssumption ==
    /\ Tokens \subseteq Token /\ Calls \subseteq Call
    /\ Beginnings \subseteq SUBSET User /\ Casts \subseteq SUBSET Processes
    /\ MaxWrites \in Nat

VARIABLES
    users, orgs,
    published,  \* Cognito's keys
    cached,     \* the key set this server holds; {}: none, or too old
    cooling,    \* a key set was fetched for an unknown key, under 30 seconds ago
    configured,
    cast,
    call,       \* a request's token, a command's arguments
    at,
    db,         \* the session each process has with the database
    caller,     \* the principal of a request, the operator of a command
    answer,
    writes,
    seen,       \* history: who had an active account since the process began,
    gap         \* and whether there was a moment without an active platform admin

cognito == <<published, cached, cooling, configured>>
vars == <<users, orgs, cognito, cast, call, at, db, caller, answer, writes, seen, gap>>

\* acting: app.user_id; kept: what a rollback returns it to; draft: rows of the
\* open transaction.
NoSession == [open |-> FALSE, acting |-> None, kept |-> None, draft |-> {}]

Active == {u \in users : ~u.disabled}
Admins == {u \in Active : u.admin}

Init ==
    /\ users \in Beginnings /\ orgs = {}
    /\ \E k \in Keys : published = {k}
    /\ cached = {} /\ cooling = FALSE /\ configured \in BOOLEAN
    /\ cast \in Casts
    /\ call = [p \in Processes |-> None] /\ at = [p \in Processes |-> "idle"]
    /\ db = [p \in Processes |-> NoSession] /\ caller = [p \in Processes |-> None]
    /\ answer = [p \in Processes |-> 0] /\ writes = [p \in Processes |-> 0]
    /\ seen = [p \in Processes |-> {}] /\ gap = [p \in Processes |-> FALSE]

In(p, phase) == p \in cast /\ at[p] = phase

At(p, from, to) == In(p, from) /\ at' = [at EXCEPT ![p] = to]

\* mutant: the connection is closed after an answer, not after an exception
Answer_Exception(r, from, code) ==
    /\ At(r, from, "ended")
    /\ answer' = [answer EXCEPT ![r] = code]
    /\ db' = IF code < 400 THEN [db EXCEPT ![r] = NoSession] ELSE db
    /\ UNCHANGED <<users, cast, call, caller, writes>>

\* Whatever the answer, the connection is closed (the finally of get_auth_context);
\* before that finally there is none, but for one that RegisterFails leaves.
Answer(r, from, code) ==
    /\ At(r, from, "ended")
    /\ answer' = [answer EXCEPT ![r] = code]
    /\ db' = [db EXCEPT ![r] = NoSession]
    /\ UNCHANGED <<users, cast, call, caller, writes>>

Goes(p, from, to) == At(p, from, to) /\ UNCHANGED <<users, cast, call, db, caller, answer, writes>>

-----------------------------------------------------------------------------
(* A request signs in. *)

\* Cognito signs with a key it has published.
Arrive(r) ==
    /\ At(r, "idle", "token")
    /\ \E t \in Tokens : /\ t.form \in {"foreign", "good"} => t.kid \in published
                         /\ call' = [call EXCEPT ![r] = t]
    /\ UNCHANGED <<users, orgs, cognito, cast, db, caller, answer, writes>>

ReadToken(r) ==
    /\ In(r, "token")
    /\ \/ /\ call[r].form = "missing" \/ (configured /\ call[r].form = "junk")
          /\ Answer(r, "token", 401)
       \/ /\ call[r].form # "missing" /\ ~configured
          /\ Answer(r, "token", 503)
       \/ /\ call[r].form \notin {"missing", "junk"} /\ configured
          /\ Goes(r, "token", "key")
    /\ UNCHANGED <<orgs, cognito>>

Known(r) == call[r].kid \in cached

FindKey(r) ==
    /\ In(r, "key") /\ Known(r)
    /\ Goes(r, "key", "claims")
    /\ UNCHANGED <<orgs, cognito>>

\* A key set that is missing is fetched; one without the key again, but not
\* twice within the cooldown.
MayFetch(r) == In(r, "key") /\ ~Known(r) /\ (cached = {} \/ ~cooling)

FetchKeys(r) ==
    /\ MayFetch(r)
    /\ cached' = published
    /\ IF cached = {} /\ call[r].kid \in published THEN cooling' \in BOOLEAN ELSE cooling' = TRUE
    /\ IF call[r].kid \in published
       THEN Goes(r, "key", "claims")
       ELSE Answer(r, "key", 401)
    /\ UNCHANGED <<orgs, published, configured>>

\* mutant: a failed fetch is taken for an unknown key
Unreachable_Unknown == 401

Unreachable == 503

FetchFails(r) ==
    /\ MayFetch(r)
    /\ cached' \in {cached, {}} /\ cooling' \in {cooling, TRUE}
    /\ Answer(r, "key", Unreachable)
    /\ UNCHANGED <<orgs, published, configured>>

UnknownKey(r) ==
    /\ In(r, "key") /\ ~Known(r) /\ ~MayFetch(r)
    /\ Answer(r, "key", 401)
    /\ UNCHANGED <<orgs, cognito>>

\* mutant: token_use and client_id are not looked at
Accepts_Foreign(token) == token.form \in {"good", "foreign"}

Accepts(token) == token.form = "good"

CheckClaims(r) ==
    /\ In(r, "claims")
    /\ IF Accepts(call[r]) THEN Goes(r, "claims", "connect") ELSE Answer(r, "claims", 401)
    /\ UNCHANGED <<orgs, cognito>>

\* get_connection opens the connection, and then asks the server for the vector
\* type on it.
Connect(r) ==
    /\ At(r, "connect", "register")
    /\ db' = [db EXCEPT ![r].open = TRUE]
    /\ UNCHANGED <<users, orgs, cognito, cast, call, caller, answer, writes>>

Register(r) ==
    /\ Goes(r, "register", "account")
    /\ UNCHANGED <<orgs, cognito>>

\* The finally of get_auth_context has not begun: nobody closes the connection.
RegisterFails(r) ==
    /\ At(r, "register", "ended")
    /\ answer' = [answer EXCEPT ![r] = 503]
    /\ UNCHANGED <<users, orgs, cognito, cast, call, db, caller, writes>>

\* The interpreter finds a connection that nobody holds any more, and it closes.
Collect(r) ==
    /\ At(r, "ended", "ended") /\ db[r].open
    /\ db' = [db EXCEPT ![r] = NoSession]
    /\ UNCHANGED <<users, orgs, cognito, cast, call, caller, answer, writes>>

\* mutant: disabled_at is not looked at
Account_Disabled(sub) == {u \in users : u.sub = sub}

Account(sub) == {u \in Active : u.sub = sub}

LoadPrincipal(r) ==
    /\ In(r, "account")
    /\ \/ /\ Account(call[r].sub) = {}
          /\ Answer(r, "account", 403)
       \/ /\ Account(call[r].sub) # {}
          /\ At(r, "account", "actor")
          /\ caller' = [caller EXCEPT ![r] = call[r].sub]
          /\ UNCHANGED <<users, cast, call, db, answer, writes>>
    /\ UNCHANGED <<orgs, cognito>>

\* mutant: the setting is left in the open transaction
ActingAs_Uncommitted(session, sub) == [session EXCEPT !.acting = sub]

\* set_acting_user, with its commit.
ActingAs(session, sub) == [session EXCEPT !.acting = sub, !.kept = sub]

SetActingUser(r) ==
    /\ At(r, "actor", "route")
    /\ db' = [db EXCEPT ![r] = ActingAs(@, caller[r])]
    /\ UNCHANGED <<users, orgs, cognito, cast, call, caller, answer, writes>>

DatabaseFails(r) ==
    /\ \E from \in {"connect", "account", "actor", "route"} : Answer(r, from, 503)
    /\ UNCHANGED <<orgs, cognito>>

-----------------------------------------------------------------------------
(* It acts, in transactions of its own. *)

CreateOrg(r) ==
    /\ At(r, "route", "route") /\ writes[r] < MaxWrites
    /\ \E u \in Admins, n \in Names :
          /\ u.sub = db[r].acting
          /\ db' = [db EXCEPT ![r].draft = {[name |-> n, by |-> u.sub, maker |-> r]}]
    /\ writes' = [writes EXCEPT ![r] = @ + 1]
    /\ UNCHANGED <<users, orgs, cognito, cast, call, caller, answer>>

\* trg_organizations_guard.
MayNotCreate(r) ==
    /\ In(r, "route")
    /\ \A u \in Admins : u.sub # db[r].acting
    /\ Answer(r, "route", 403)
    /\ UNCHANGED <<orgs, cognito>>

Rollback(r) ==
    /\ At(r, "route", "route")
    /\ db' = [db EXCEPT ![r].draft = {}, ![r].acting = db[r].kept]
    /\ UNCHANGED <<users, orgs, cognito, cast, call, caller, answer, writes>>

CommitRoute(r) ==
    /\ orgs' = orgs \cup db[r].draft
    /\ Answer(r, "route", 200)
    /\ UNCHANGED cognito

RequestFails(r) == DatabaseFails(r) \/ RegisterFails(r)

RequestStep(r) ==
    \/ ReadToken(r) \/ FindKey(r) \/ FetchKeys(r) \/ FetchFails(r) \/ UnknownKey(r) \/ CheckClaims(r)
    \/ Connect(r) \/ Register(r) \/ LoadPrincipal(r) \/ SetActingUser(r)
    \/ CreateOrg(r) \/ MayNotCreate(r) \/ Rollback(r) \/ CommitRoute(r)
-----------------------------------------------------------------------------
(* The operator's commands; each statement sees what is committed by then. *)

Stop(c, from) ==
    /\ At(c, from, "ended")
    /\ db' = [db EXCEPT ![c] = NoSession]
    /\ UNCHANGED <<users, cast, call, caller, answer, writes>>

Run(c) ==
    /\ At(c, "idle", "start")
    /\ \E command \in Calls : call' = [call EXCEPT ![c] = command]
    /\ db' = [db EXCEPT ![c].open = TRUE]
    /\ UNCHANGED <<users, orgs, cognito, cast, caller, answer, writes>>

Same(u, command) == u.sub = command.sub /\ u.email = command.email /\ u.admin = command.admin

\* A repeat of a command that was applied is nothing to do.
Begin(c) ==
    /\ In(c, "start")
    /\ LET command == call[c]
       IN  IF command.kind = "create-user"
           THEN IF \E u \in users : Same(u, command)
                THEN Stop(c, "start")
                ELSE Goes(c, "start", IF command.admin THEN "count" ELSE "look")
           ELSE Goes(c, "start", "operator")
    /\ UNCHANGED <<orgs, cognito>>

\* mutant: one admin is taken for none
HaveOne_Two == \E u, v \in Admins : u # v

HaveOne == Admins # {}

CountAdmins(c) ==
    /\ In(c, "count")
    /\ CASE call[c].as # None -> Goes(c, "count", "operator")
         [] HaveOne           -> Stop(c, "count")
         [] OTHER             -> Goes(c, "count", "look")
    /\ UNCHANGED <<orgs, cognito>>

\* mutant: a disabled operator may still be named
Operators_Disabled(email) == {u \in users : u.admin /\ u.email = email}

Operators(email) == {u \in Admins : u.email = email}

FindOperator(c) ==
    /\ In(c, "operator")
    /\ \/ /\ Operators(call[c].as) = {}
          /\ Stop(c, "operator")
       \/ /\ At(c, "operator", IF call[c].kind = "create-org" THEN "name" ELSE "look")
          /\ \E u \in Operators(call[c].as) :
                /\ caller' = [caller EXCEPT ![c] = u.sub]
                /\ db' = [db EXCEPT ![c].acting = u.sub]
          /\ UNCHANGED <<users, cast, call, answer, writes>>
    /\ UNCHANGED <<orgs, cognito>>

Clash(u, command) == u.sub = command.sub \/ u.email = command.email

\* Whoever has the email or the sub already: the same user, or another.
LookForUser(c) ==
    /\ In(c, "look")
    /\ IF \E u \in users : Clash(u, call[c]) THEN Stop(c, "look") ELSE Goes(c, "look", "insert")
    /\ UNCHANGED <<orgs, cognito>>

Saving(kind) == {c \in Commands \cap cast : at[c] = "save" /\ call[c].kind = kind}

\* The unique indexes make a second row wait for the end of the first one's
\* transaction.
InsertUser(c) ==
    LET command == call[c]
    IN  /\ In(c, "insert") /\ ~\E d \in Saving("create-user") : Clash(command, call[d])
        /\ IF \E u \in users : Clash(u, command)
           THEN Stop(c, "insert")
           ELSE /\ At(c, "insert", "save")
                /\ db' = [db EXCEPT ![c].draft =
                             {[sub |-> command.sub, email |-> command.email, admin |-> command.admin,
                               disabled |-> FALSE, by |-> db[c].acting]}]
                /\ UNCHANGED <<users, cast, call, caller, answer, writes>>
        /\ UNCHANGED <<orgs, cognito>>

\* mutant: the lock is the session's, and nobody closes the session
Holders_Session(name) ==
    {c \in Commands \cap cast : /\ at[c] \in {"check", "save", "ended"}
                                /\ call[c].kind = "create-org" /\ call[c].name = name}

\* mutant: nobody is waited for
Holders_Nobody(name) == {}

\* pg_advisory_xact_lock.
Holders(name) ==
    {c \in Commands \cap cast : /\ at[c] \in {"check", "save"}
                                /\ call[c].kind = "create-org" /\ call[c].name = name}

LockName(c) ==
    /\ In(c, "name") /\ Holders(call[c].name) = {}
    /\ Goes(c, "name", "check")
    /\ UNCHANGED <<orgs, cognito>>

\* One organization of the name or several: either way nothing is made.
CheckName(c) ==
    /\ In(c, "check")
    /\ IF \E o \in orgs : o.name = call[c].name
       THEN Stop(c, "check")
       ELSE /\ At(c, "check", "save")
            /\ db' = [db EXCEPT ![c].draft = {[name |-> call[c].name, by |-> db[c].acting, maker |-> c]}]
            /\ UNCHANGED <<users, cast, call, caller, answer, writes>>
    /\ UNCHANGED <<orgs, cognito>>

Saved(c, kind) == IF call[c].apply /\ call[c].kind = kind THEN db[c].draft ELSE {}

\* Without --apply, a rollback.
Save(c) ==
    /\ At(c, "save", "ended")
    /\ users' = users \cup Saved(c, "create-user")
    /\ orgs' = orgs \cup Saved(c, "create-org")
    /\ db' = [db EXCEPT ![c] = NoSession]
    /\ UNCHANGED <<cognito, cast, call, caller, answer, writes>>

CommandFails(c) ==
    /\ \E from \in {"start", "count", "operator", "look", "insert", "name", "check", "save"} : Stop(c, from)
    /\ UNCHANGED <<orgs, cognito>>

CommandStep(c) ==
    \/ Begin(c) \/ CountAdmins(c) \/ FindOperator(c)
    \/ LookForUser(c) \/ InsertUser(c)
    \/ LockName(c) \/ CheckName(c)
    \/ Save(c)

-----------------------------------------------------------------------------
(* Beside them. *)

\* By hand, with the database owner's login (0004).
SetDisabled(u) ==
    /\ users' = (users \ {u}) \cup {[u EXCEPT !.disabled = ~@]}
    /\ UNCHANGED <<orgs, cognito, cast, call, at, db, caller, answer, writes>>

RotateKeys ==
    /\ \E k \in Keys : published' = published \cup {k}
    /\ UNCHANGED <<users, orgs, cached, cooling, configured, cast, call, at, db, caller, answer, writes>>

\* An hour, or 30 seconds, have passed.
KeysExpire ==
    /\ cached' = {}
    /\ UNCHANGED <<users, orgs, published, cooling, configured, cast, call, at, db, caller, answer, writes>>

CooldownEnds ==
    /\ cooling' = FALSE
    /\ UNCHANGED <<users, orgs, published, cached, configured, cast, call, at, db, caller, answer, writes>>

\* The history of those who are at work.
Watch ==
    LET working(p) == at'[p] \notin {"idle", "ended"}
    IN  /\ seen' = [p \in Processes |->
                       IF working(p) THEN seen[p] \cup {<<u.sub, u.admin>> : u \in Active'} ELSE seen[p]]
        /\ gap' = [p \in Processes |-> IF working(p) THEN gap[p] \/ Admins' = {} ELSE gap[p]]

Next ==
    /\ \/ \E r \in Requests : Arrive(r) \/ RequestStep(r) \/ RequestFails(r) \/ Collect(r)
       \/ \E c \in Commands : Run(c) \/ CommandStep(c) \/ CommandFails(c)
       \/ \E u \in users : SetDisabled(u)
       \/ RotateKeys \/ KeysExpire \/ CooldownEnds
    /\ Watch

\* A request or a command that has begun goes on; nothing has to fail or be
\* disabled, rotated or forgotten.
Fairness ==
    /\ \A r \in Requests : WF_vars(RequestStep(r) /\ Watch)
    /\ \A c \in Commands : WF_vars(CommandStep(c) /\ Watch)

Spec == Init /\ [][Next]_vars /\ Fairness
-----------------------------------------------------------------------------
(* Properties. *)

TypeOK ==
    /\ users \subseteq User /\ orgs \subseteq Org
    /\ published \subseteq Keys /\ cached \subseteq Keys
    /\ cooling \in BOOLEAN /\ configured \in BOOLEAN
    /\ cast \in Casts
    /\ \A r \in Requests : (at[r] # "idle" => call[r] \in Token) /\ db[r].draft \subseteq Org
    /\ \A c \in Commands : at[c] # "idle" =>
          /\ call[c] \in Call
          /\ db[c].draft \subseteq (IF call[c].kind = "create-user" THEN User ELSE Org)
    /\ \A p \in Processes : /\ caller[p] \in Subs \cup {None}
                            /\ db[p].acting \in Subs \cup {None}
                            /\ db[p].kept \in Subs \cup {None}
                            /\ answer[p] \in {0, 200, 401, 403, 503}
                            /\ writes[p] \in 0..MaxWrites

\* Disabling a person keeps them out from the next request on, whatever their
\* token says (principal.py:15-18): who acts had an active account after the
\* request arrived.
KillSwitch ==
    \A r \in Requests : at[r] = "route" => caller[r] \in {s[1] : s \in seen[r]}

\* All through a route the database takes the request for the person its token
\* names, after a rollback too (context.py:11-14).
ActsAsCaller ==
    \A r \in Requests : at[r] = "route" => db[r].acting = call[r].sub

\* Whoever the database takes the caller for, all through a route, is who the
\* token names and had an active account since the request arrived.
OnlyActiveCallers == KillSwitch /\ ActsAsCaller

\* Only a genuine token opens a connection, and none outlives its request or its
\* command, but for one on which the vector type could not be registered: get_auth_context
\* reaches its finally only after that (context.py:58-64).  What is left then
\* carries nobody's identity and no rows, which is what a session-level identity
\* needs to be safe (context.py:17-19).
ConnectionsEarned ==
    [][\A p \in Processes : db'[p].open =>
          /\ p \in Requests => call'[p].form = "good"
          /\ at'[p] = "ended" =>
                /\ at[p] = "register" \/ (at[p] = "ended" /\ db[p].open)
                /\ db'[p].acting = None /\ db'[p].kept = None /\ db'[p].draft = {}]_vars

\* An outage of Cognito does not look like a bad token (tokens.py:20-22): a good
\* one is refused only while it is too early to ask for its new key.
BlamedOnlyInCooldown ==
    [][\A r \in Requests : at'[r] = "ended" /\ at[r] # "ended" /\ answer'[r] = 401 /\ call[r].form = "good"
           => cooling /\ cached # {} /\ call[r].kid \in published \ cached]_vars

\* A platform admin is made by another one, who was active while the command
\* ran, or when for a moment there was none (cli.py:25-29): a command that
\* begins and ends under an active admin needs them.
AdminsVouchedFor ==
    [][\A u \in users' : (u.admin /\ u.sub \notin {v.sub : v \in users}) =>
           \E c \in Commands :
              /\ at[c] = "save" /\ call[c].sub = u.sub
              /\ IF u.by = None THEN gap[c] ELSE <<u.by, TRUE>> \in seen[c]]_vars

\* Whoever an organization names as its maker was an active platform admin while
\* it was made.
MadeByAdmins ==
    [][\A o \in orgs' \ orgs : <<o.by, TRUE>> \in seen[o.maker]]_vars

\* Both: no platform admin and no organization comes from nowhere, whoever is
\* disabled or enabled while it is made.
MadeByOperators == AdminsVouchedFor /\ MadeByAdmins

\* Commands at once never make two organizations of one name.
OneOrgPerName ==
    \A o, p \in orgs : (o.name = p.name /\ {o.maker, p.maker} \subseteq Commands) => o = p

\* Every request is answered, and every command ends.
AllEnd == \A p \in Processes : at[p] # "idle" ~> at[p] = "ended"

=============================================================================
