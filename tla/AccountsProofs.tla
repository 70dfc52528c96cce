--------------------------- MODULE AccountsProofs ---------------------------
(***************************************************************************)
(* Theorems of module Accounts, for any requests, commands, people, names, *)
(* keys and tokens.  What a process relies on is its own and only grows:   *)
(* nobody else touches its session, and what was seen stays seen.          *)
(***************************************************************************)
EXTENDS Accounts, TLAPS

RequestPhases ==
    {"idle", "token", "key", "claims", "connect", "register", "account", "actor", "route", "ended"}

CommandPhases ==
    {"idle", "start", "count", "operator", "look", "insert", "name", "check", "save", "ended"}

Session == [open: BOOLEAN, acting: Subs \cup {None}, kept: Subs \cup {None}, draft: SUBSET (User \cup Org)]

Shape ==
    /\ at \in [Processes -> RequestPhases \cup CommandPhases]
    /\ db \in [Processes -> Session]
    /\ call \in [Processes -> Token \cup Call \cup {None}]
    /\ caller \in [Processes -> Subs \cup {None}]
    /\ seen \in [Processes -> SUBSET (Subs \X BOOLEAN)] /\ gap \in [Processes -> BOOLEAN]
    /\ users \subseteq User /\ orgs \subseteq Org /\ cast \subseteq Processes

\* A request has shown a good token before it has a connection, and acts as its
\* sender on one, who had an account when it was looked up.  Outside its route a
\* connection carries nobody's identity and no rows, whoever it is left to.
RequestInv(r) ==
    /\ at[r] \in RequestPhases
    /\ at[r] # "idle" => call[r] \in Token
    /\ db[r].open => at[r] \in {"register", "account", "actor", "route", "ended"} /\ call[r].form = "good"
    /\ at[r] \in {"connect", "register", "account", "actor", "route"} => call[r].form = "good"
    /\ at[r] \in {"actor", "route"} => /\ caller[r] = call[r].sub
                                       /\ \E admin \in BOOLEAN : <<call[r].sub, admin>> \in seen[r]
    /\ at[r] = "route" => db[r].acting = call[r].sub /\ db[r].kept = call[r].sub
    /\ at[r] # "route" => db[r].acting = None /\ db[r].kept = None /\ db[r].draft = {}
    /\ \A o \in db[r].draft : o \in Org /\ o.maker = r /\ <<o.by, TRUE>> \in seen[r]

\* A command that makes an organization, or was told to act as somebody, has
\* seen an active admin; one that makes an admin without, the lack of one.
CommandInv(c) ==
    /\ at[c] \in CommandPhases
    /\ at[c] # "idle" => call[c] \in Call
    /\ at[c] \in {"idle", "ended"} => ~db[c].open
    /\ at[c] # "save" => db[c].draft = {}
    /\ at[c] \in {"count", "look", "insert"} => call[c].kind = "create-user"
    /\ at[c] = "count" => call[c].admin
    /\ at[c] \in {"name", "check"} => call[c].kind = "create-org"
    /\ db[c].acting # None => <<db[c].acting, TRUE>> \in seen[c]
    /\ at[c] \in {"name", "check"} => db[c].acting # None
    /\ at[c] \in {"look", "insert"} /\ call[c].admin => db[c].acting # None \/ gap[c]
    /\ at[c] = "save" =>
          \/ /\ call[c].kind = "create-user"
             /\ db[c].draft = {[sub |-> call[c].sub, email |-> call[c].email, admin |-> call[c].admin,
                                disabled |-> FALSE, by |-> db[c].acting]}
             /\ call[c].admin => db[c].acting # None \/ gap[c]
          \/ /\ call[c].kind = "create-org" /\ db[c].acting # None
             /\ db[c].draft = {[name |-> call[c].name, by |-> db[c].acting, maker |-> c]}

ProcessInv(p) == (p \in Requests => RequestInv(p)) /\ (p \in Commands => CommandInv(p))

Inv == Shape /\ \A p \in Processes : ProcessInv(p)

\* Whoever works sees the accounts after each step.
Grown(p) ==
    /\ seen[p] \subseteq seen'[p] /\ (gap[p] => gap'[p])
    /\ at'[p] \notin {"idle", "ended"} => /\ \A u \in users' : ~u.disabled => <<u.sub, u.admin>> \in seen'[p]
                                          /\ Admins' = {} => gap'[p]

-----------------------------------------------------------------------------
LEMMA History ==
    ASSUME Shape, users' \subseteq User, Watch
    PROVE  /\ seen' \in [Processes -> SUBSET (Subs \X BOOLEAN)] /\ gap' \in [Processes -> BOOLEAN]
           /\ \A p \in Processes : Grown(p)
<1> DEFINE working(p) == at'[p] \notin {"idle", "ended"}
           now == {<<u.sub, u.admin>> : u \in Active'}
<1>1. now \subseteq Subs \X BOOLEAN
  BY DEF Active, User
<1>2. \A u \in users' : ~u.disabled => <<u.sub, u.admin>> \in now
  BY DEF Active
<1>3. /\ seen' = [p \in Processes |-> IF working(p) THEN seen[p] \cup now ELSE seen[p]]
      /\ gap' = [p \in Processes |-> IF working(p) THEN gap[p] \/ Admins' = {} ELSE gap[p]]
  BY DEF Watch
<1>4. seen \in [Processes -> SUBSET (Subs \X BOOLEAN)] /\ gap \in [Processes -> BOOLEAN]
  BY DEF Shape
<1> HIDE DEF now
<1>5. seen' \in [Processes -> SUBSET (Subs \X BOOLEAN)]
  BY <1>1, <1>3, <1>4
<1>6. (Admins' = {}) \in BOOLEAN
  OBVIOUS
<1>7. gap' \in [Processes -> BOOLEAN]
  BY <1>3, <1>4, <1>6
<1>8. ASSUME NEW p \in Processes PROVE Grown(p)
  BY <1>2, <1>3 DEF Grown
<1> QED BY <1>5, <1>7, <1>8

LEMMA Frame ==
    ASSUME NEW p \in Processes, ProcessInv(p), Grown(p),
           at'[p] = at[p], db'[p] = db[p], call'[p] = call[p], caller'[p] = caller[p]
    PROVE  ProcessInv(p)'
<1>1. ASSUME p \in Requests PROVE RequestInv(p)'
  BY <1>1 DEF ProcessInv, RequestInv, Grown
<1>2. ASSUME p \in Commands PROVE CommandInv(p)'
  BY <1>2 DEF ProcessInv, CommandInv, Grown
<1> QED BY <1>1, <1>2 DEF ProcessInv

LEMMA Alone ==
    ASSUME NEW p \in Processes, Inv, Watch, cast' = cast, users' \subseteq User, orgs' \subseteq Org,
           NEW phase \in RequestPhases \cup CommandPhases, at' = [at EXCEPT ![p] = phase],
           NEW session \in Session, db' = [db EXCEPT ![p] = session],
           NEW arguments \in Token \cup Call \cup {None}, call' = [call EXCEPT ![p] = arguments],
           NEW person \in Subs \cup {None}, caller' = [caller EXCEPT ![p] = person],
           Grown(p) => ProcessInv(p)'
    PROVE  Inv'
<1>1. Shape /\ \A q \in Processes : ProcessInv(q)
  BY DEF Inv
<1>2. /\ seen' \in [Processes -> SUBSET (Subs \X BOOLEAN)] /\ gap' \in [Processes -> BOOLEAN]
      /\ \A q \in Processes : Grown(q)
  BY <1>1, History
<1>3. at' \in [Processes -> RequestPhases \cup CommandPhases]
  BY <1>1 DEF Shape
<1>4. db' \in [Processes -> Session]
  BY <1>1 DEF Shape
<1>5. call' \in [Processes -> Token \cup Call \cup {None}]
  BY <1>1 DEF Shape
<1>6. caller' \in [Processes -> Subs \cup {None}]
  BY <1>1 DEF Shape
<1>7. Shape'
  BY <1>1, <1>2, <1>3, <1>4, <1>5, <1>6 DEF Shape
<1>8. ASSUME NEW q \in Processes, q # p PROVE ProcessInv(q)'
  <2>1. at'[q] = at[q] /\ db'[q] = db[q] /\ call'[q] = call[q] /\ caller'[q] = caller[q]
    BY <1>1, <1>8 DEF Shape
  <2> QED BY <1>1, <1>2, <2>1, Frame
<1> QED BY <1>2, <1>7, <1>8 DEF Inv

\* The same, for a step after which the process has all it had but its place.
LEMMA Moved ==
    ASSUME NEW p \in Processes, Inv, Watch, UNCHANGED <<users, orgs, cast, db, call, caller>>,
           NEW phase \in RequestPhases \cup CommandPhases, at' = [at EXCEPT ![p] = phase],
           Grown(p) => ProcessInv(p)'
    PROVE  Inv'
<1>1. Shape
  BY DEF Inv
<1>2. /\ db[p] \in Session /\ db' = [db EXCEPT ![p] = db[p]]
      /\ call[p] \in Token \cup Call \cup {None} /\ call' = [call EXCEPT ![p] = call[p]]
      /\ caller[p] \in Subs \cup {None} /\ caller' = [caller EXCEPT ![p] = caller[p]]
      /\ cast' = cast /\ users' \subseteq User /\ orgs' \subseteq Org
  BY <1>1 DEF Shape
<1> QED BY <1>2, Alone

LEMMA Sessions == NoSession \in Session /\ {} \in SUBSET (User \cup Org)
BY DEF NoSession, Session

LEMMA Answered ==
    ASSUME NEW r \in Requests, Inv, Watch, NEW from, from # "idle", NEW code, Answer(r, from, code),
           orgs' \subseteq Org
    PROVE  Inv'
<1>1. Shape /\ r \in Processes /\ RequestInv(r) /\ r \notin Commands
  BY ProcessesAssumption DEF Inv, ProcessInv, Processes
<1>2. /\ at' = [at EXCEPT ![r] = "ended"] /\ db' = [db EXCEPT ![r] = NoSession] /\ at[r] = from
      /\ UNCHANGED <<users, cast, call, caller>>
  BY DEF Answer, At, In
<1>3. /\ call[r] \in Token \cup Call \cup {None} /\ call' = [call EXCEPT ![r] = call[r]]
      /\ caller[r] \in Subs \cup {None} /\ caller' = [caller EXCEPT ![r] = caller[r]]
      /\ cast' = cast /\ users' \subseteq User /\ "ended" \in RequestPhases \cup CommandPhases
  BY <1>1, <1>2 DEF Shape, RequestPhases
<1>4. at'[r] = "ended" /\ db'[r] = NoSession /\ call'[r] = call[r]
  BY <1>1, <1>2 DEF Shape
<1>5. RequestInv(r)'
  <2>1. db'[r].open = FALSE /\ db'[r].acting = None /\ db'[r].kept = None /\ db'[r].draft = {}
    BY <1>4 DEF NoSession
  <2>2. call'[r] \in Token
    BY <1>1, <1>2, <1>4 DEF RequestInv
  <2> QED BY <1>4, <2>1, <2>2 DEF RequestInv, RequestPhases
<1>6. ProcessInv(r)'
  BY <1>1, <1>5 DEF ProcessInv
<1> QED BY <1>1, <1>2, <1>3, <1>6, Sessions, Alone

LEMMA Stopped ==
    ASSUME NEW c \in Commands, Inv, Watch, NEW from, from # "idle", Stop(c, from), UNCHANGED orgs
    PROVE  Inv'
<1>1. Shape /\ c \in Processes /\ CommandInv(c) /\ c \notin Requests
  BY ProcessesAssumption DEF Inv, ProcessInv, Processes
<1>2. /\ at' = [at EXCEPT ![c] = "ended"] /\ db' = [db EXCEPT ![c] = NoSession] /\ at[c] = from
      /\ UNCHANGED <<users, cast, call, caller>>
  BY DEF Stop, At, In
<1>3. /\ call[c] \in Token \cup Call \cup {None} /\ call' = [call EXCEPT ![c] = call[c]]
      /\ caller[c] \in Subs \cup {None} /\ caller' = [caller EXCEPT ![c] = caller[c]]
      /\ cast' = cast /\ users' \subseteq User /\ orgs' \subseteq Org /\ "ended" \in RequestPhases \cup CommandPhases
  BY <1>1, <1>2 DEF Shape, RequestPhases
<1>4. at'[c] = "ended" /\ db'[c] = NoSession /\ call'[c] = call[c]
  BY <1>1, <1>2 DEF Shape
<1>5. CommandInv(c)'
  BY <1>1, <1>2, <1>4 DEF CommandInv, NoSession, CommandPhases
<1>6. ProcessInv(c)'
  BY <1>1, <1>5 DEF ProcessInv
<1> QED BY <1>1, <1>2, <1>3, <1>6, Sessions, Alone

-----------------------------------------------------------------------------
LEMMA ArriveKeeps == ASSUME NEW r \in Requests, Inv, Watch, Arrive(r) PROVE Inv'
<1>1. Shape /\ r \in Processes /\ RequestInv(r) /\ r \notin Commands
  BY ProcessesAssumption DEF Inv, ProcessInv, Processes
<1>2. PICK t \in Tokens : call' = [call EXCEPT ![r] = t]
  BY DEF Arrive
<1>3. t \in Token
  BY BoundsAssumption
<1>4. /\ at' = [at EXCEPT ![r] = "token"] /\ at[r] = "idle" /\ "token" \in RequestPhases \cup CommandPhases
      /\ UNCHANGED <<users, orgs, cast, db, caller>>
  BY DEF Arrive, At, In, RequestPhases
<1>5. /\ t \in Token \cup Call \cup {None}
      /\ db[r] \in Session /\ db' = [db EXCEPT ![r] = db[r]]
      /\ caller[r] \in Subs \cup {None} /\ caller' = [caller EXCEPT ![r] = caller[r]]
      /\ cast' = cast /\ users' \subseteq User /\ orgs' \subseteq Org
  BY <1>1, <1>3, <1>4 DEF Shape
<1>6. at'[r] = "token" /\ call'[r] = t /\ db'[r] = db[r]
  BY <1>1, <1>2, <1>4 DEF Shape
<1>7. RequestInv(r)'
  BY <1>1, <1>3, <1>4, <1>6 DEF RequestInv, RequestPhases
<1>8. ProcessInv(r)'
  BY <1>1, <1>7 DEF ProcessInv
<1> QED BY <1>1, <1>2, <1>4, <1>5, <1>8, Alone

\* A request goes on to a phase that asks for no more than it has shown.
LEMMA WentOn ==
    ASSUME NEW r \in Requests, Inv, Watch, NEW from \in {"token", "key", "claims", "register"},
           NEW to \in {"key", "claims", "connect", "account"}, Goes(r, from, to), UNCHANGED orgs,
           to = "connect" => call[r].form = "good",
           from = "register" <=> to = "account"
    PROVE  Inv'
<1>1. Shape /\ r \in Processes /\ RequestInv(r) /\ r \notin Commands
  BY ProcessesAssumption DEF Inv, ProcessInv, Processes
<1>2. /\ at' = [at EXCEPT ![r] = to] /\ at[r] = from /\ to \in RequestPhases \cup CommandPhases
      /\ UNCHANGED <<users, orgs, cast, db, call, caller>>
  BY DEF Goes, At, In, RequestPhases
<1>3. at'[r] = to /\ call'[r] = call[r] /\ db'[r] = db[r]
  BY <1>1, <1>2 DEF Shape
<1>4. RequestInv(r)'
  BY <1>1, <1>2, <1>3 DEF RequestInv, RequestPhases
<1>5. ProcessInv(r)'
  BY <1>1, <1>4 DEF ProcessInv
<1> QED BY <1>1, <1>2, <1>5, Moved

LEMMA SignInKeeps ==
    ASSUME NEW r \in Requests, Inv, Watch,
           \/ ReadToken(r) \/ FindKey(r) \/ FetchKeys(r) \/ FetchFails(r) \/ UnknownKey(r)
           \/ CheckClaims(r) \/ Register(r) \/ DatabaseFails(r) \/ MayNotCreate(r)
    PROVE  Inv'
<1>1. orgs \subseteq Org
  BY DEF Inv, Shape
<1>2. CASE ReadToken(r)
  BY <1>1, <1>2, Answered, WentOn DEF ReadToken
<1>3. CASE FindKey(r)
  BY <1>1, <1>3, Answered, WentOn DEF FindKey
<1>4. CASE FetchKeys(r)
  BY <1>1, <1>4, Answered, WentOn DEF FetchKeys
<1>5. CASE FetchFails(r)
  BY <1>1, <1>5, Answered DEF FetchFails
<1>6. CASE UnknownKey(r)
  BY <1>1, <1>6, Answered DEF UnknownKey
<1>7. CASE CheckClaims(r)
  BY <1>1, <1>7, Answered, WentOn DEF CheckClaims, Accepts
<1>8. CASE DatabaseFails(r)
  <2>1. PICK from \in {"connect", "account", "actor", "route"} : Answer(r, from, 503)
    BY <1>8 DEF DatabaseFails
  <2>2. orgs' \subseteq Org /\ from # "idle"
    BY <1>1, <1>8 DEF DatabaseFails
  <2> QED BY <2>1, <2>2, Answered
<1>9. CASE MayNotCreate(r)
  <2>1. Answer(r, "route", 403) /\ orgs' \subseteq Org
    BY <1>1, <1>9 DEF MayNotCreate
  <2> QED BY <2>1, Answered
<1>10. CASE Register(r)
  BY <1>1, <1>10, WentOn DEF Register
<1> QED BY <1>2, <1>3, <1>4, <1>5, <1>6, <1>7, <1>8, <1>9, <1>10

LEMMA ConnectKeeps == ASSUME NEW r \in Requests, Inv, Watch, Connect(r) PROVE Inv'
<1>1. Shape /\ r \in Processes /\ RequestInv(r) /\ r \notin Commands
  BY ProcessesAssumption DEF Inv, ProcessInv, Processes
<1> DEFINE session == [db[r] EXCEPT !.open = TRUE]
<1>2. /\ at' = [at EXCEPT ![r] = "register"] /\ at[r] = "connect" /\ "register" \in RequestPhases \cup CommandPhases
      /\ db' = [db EXCEPT ![r] = session] /\ UNCHANGED <<users, orgs, cast, call, caller>>
  BY DEF Connect, At, In, RequestPhases
<1>3. /\ session \in Session /\ session.draft = db[r].draft
      /\ session.acting = db[r].acting /\ session.kept = db[r].kept
  BY <1>1 DEF Shape, Session
<1>4. /\ call[r] \in Token \cup Call \cup {None} /\ call' = [call EXCEPT ![r] = call[r]]
      /\ caller[r] \in Subs \cup {None} /\ caller' = [caller EXCEPT ![r] = caller[r]]
      /\ cast' = cast /\ users' \subseteq User /\ orgs' \subseteq Org
  BY <1>1, <1>2 DEF Shape
<1>5. at'[r] = "register" /\ call'[r] = call[r] /\ db'[r] = session
  BY <1>1, <1>2 DEF Shape
<1> HIDE DEF session
<1>6. RequestInv(r)'
  BY <1>1, <1>2, <1>3, <1>5 DEF RequestInv, RequestPhases
<1>7. ProcessInv(r)'
  BY <1>1, <1>6 DEF ProcessInv
<1> QED BY <1>1, <1>2, <1>3, <1>4, <1>7, Alone

\* The session that is left to nobody stays as it was: open, and nobody's.
LEMMA RegisterFailsKeeps == ASSUME NEW r \in Requests, Inv, Watch, RegisterFails(r) PROVE Inv'
<1>1. Shape /\ r \in Processes /\ RequestInv(r) /\ r \notin Commands
  BY ProcessesAssumption DEF Inv, ProcessInv, Processes
<1>2. /\ at' = [at EXCEPT ![r] = "ended"] /\ at[r] = "register" /\ "ended" \in RequestPhases \cup CommandPhases
      /\ UNCHANGED <<users, orgs, cast, db, call, caller>>
  BY DEF RegisterFails, At, In, RequestPhases
<1>3. at'[r] = "ended" /\ call'[r] = call[r] /\ db'[r] = db[r]
  BY <1>1, <1>2 DEF Shape
<1>4. RequestInv(r)'
  BY <1>1, <1>2, <1>3 DEF RequestInv, RequestPhases
<1>5. ProcessInv(r)'
  BY <1>1, <1>4 DEF ProcessInv
<1> QED BY <1>1, <1>2, <1>5, Moved

LEMMA CollectKeeps == ASSUME NEW r \in Requests, Inv, Watch, Collect(r) PROVE Inv'
<1>1. Shape /\ r \in Processes /\ RequestInv(r) /\ r \notin Commands
  BY ProcessesAssumption DEF Inv, ProcessInv, Processes
<1>2. /\ at' = [at EXCEPT ![r] = "ended"] /\ at[r] = "ended" /\ "ended" \in RequestPhases \cup CommandPhases
      /\ db' = [db EXCEPT ![r] = NoSession] /\ UNCHANGED <<users, orgs, cast, call, caller>>
  BY DEF Collect, At, In, RequestPhases
<1>3. /\ call[r] \in Token \cup Call \cup {None} /\ call' = [call EXCEPT ![r] = call[r]]
      /\ caller[r] \in Subs \cup {None} /\ caller' = [caller EXCEPT ![r] = caller[r]]
      /\ cast' = cast /\ users' \subseteq User /\ orgs' \subseteq Org
  BY <1>1, <1>2 DEF Shape
<1>4. at'[r] = "ended" /\ call'[r] = call[r] /\ db'[r] = NoSession
  BY <1>1, <1>2 DEF Shape
<1>5. RequestInv(r)'
  <2>1. db'[r].open = FALSE /\ db'[r].acting = None /\ db'[r].kept = None /\ db'[r].draft = {}
    BY <1>4 DEF NoSession
  <2>2. call'[r] \in Token
    BY <1>1, <1>2, <1>4 DEF RequestInv
  <2> QED BY <1>4, <2>1, <2>2 DEF RequestInv, RequestPhases
<1>6. ProcessInv(r)'
  BY <1>1, <1>5 DEF ProcessInv
<1> QED BY <1>1, <1>2, <1>3, <1>6, Sessions, Alone

LEMMA LoadPrincipalKeeps == ASSUME NEW r \in Requests, Inv, Watch, LoadPrincipal(r) PROVE Inv'
<1>1. Shape /\ r \in Processes /\ RequestInv(r) /\ r \notin Commands
  BY ProcessesAssumption DEF Inv, ProcessInv, Processes
<1>2. CASE Answer(r, "account", 403) /\ UNCHANGED orgs
  BY <1>1, <1>2, Answered DEF Shape
<1>3. CASE /\ Account(call[r].sub) # {} /\ At(r, "account", "actor")
           /\ caller' = [caller EXCEPT ![r] = call[r].sub]
           /\ UNCHANGED <<users, orgs, cast, call, db>>
  <2>1. /\ at' = [at EXCEPT ![r] = "actor"] /\ at[r] = "account" /\ "actor" \in RequestPhases \cup CommandPhases
    BY <1>3 DEF At, In, RequestPhases
  <2>2. call[r] \in Token /\ call[r].sub \in Subs \cup {None}
    BY <1>1, <2>1 DEF RequestInv, Token
  <2>3. /\ call[r] \in Token \cup Call \cup {None} /\ call' = [call EXCEPT ![r] = call[r]]
        /\ db[r] \in Session /\ db' = [db EXCEPT ![r] = db[r]]
        /\ cast' = cast /\ users' \subseteq User /\ orgs' \subseteq Org
    BY <1>1, <1>3 DEF Shape
  <2>4. /\ at'[r] = "actor" /\ call'[r] = call[r] /\ db'[r] = db[r] /\ caller'[r] = call[r].sub
    BY <1>1, <1>3, <2>1 DEF Shape
  <2>5. PICK u \in users' : ~u.disabled /\ u.sub = call[r].sub
    BY <1>3 DEF Account, Active
  <2>6. u.admin \in BOOLEAN
    BY <2>3, <2>5 DEF User
  <2>7. ASSUME Grown(r) PROVE RequestInv(r)'
    <3>1. <<call'[r].sub, u.admin>> \in seen'[r]
      BY <2>4, <2>5, <2>7 DEF Grown
    <3> QED BY <1>1, <2>1, <2>4, <2>6, <3>1 DEF RequestInv, RequestPhases
  <2>8. Grown(r) => ProcessInv(r)'
    BY <1>1, <2>7 DEF ProcessInv
  <2> QED BY <1>1, <1>3, <2>1, <2>2, <2>3, <2>8, Alone
<1> QED BY <1>2, <1>3 DEF LoadPrincipal

\* A request is or stays in its route, in another state of its session.
LEMMA Routed ==
    ASSUME NEW r \in Requests, Inv, Watch, at[r] \in {"actor", "route"}, at' = [at EXCEPT ![r] = "route"],
           NEW session \in Session, db' = [db EXCEPT ![r] = session],
           UNCHANGED <<users, orgs, cast, call, caller>>,
           session.acting = call[r].sub, session.kept = call[r].sub,
           Grown(r) => \A o \in session.draft : o \in Org /\ o.maker = r /\ <<o.by, TRUE>> \in seen'[r]
    PROVE  Inv'
<1>1. Shape /\ r \in Processes /\ RequestInv(r) /\ r \notin Commands
  BY ProcessesAssumption DEF Inv, ProcessInv, Processes
<1>2. "route" \in RequestPhases \cup CommandPhases
  BY DEF RequestPhases
<1>3. /\ call[r] \in Token \cup Call \cup {None} /\ call' = [call EXCEPT ![r] = call[r]]
      /\ caller[r] \in Subs \cup {None} /\ caller' = [caller EXCEPT ![r] = caller[r]]
      /\ cast' = cast /\ users' \subseteq User /\ orgs' \subseteq Org
  BY <1>1 DEF Shape
<1>4. at'[r] = "route" /\ call'[r] = call[r] /\ caller'[r] = caller[r] /\ db'[r] = session
  BY <1>1, <1>2 DEF Shape
<1>5. ASSUME Grown(r) PROVE RequestInv(r)'
  <2>1. \E admin \in BOOLEAN : <<call'[r].sub, admin>> \in seen'[r]
    BY <1>1, <1>4, <1>5 DEF RequestInv, Grown
  <2> QED BY <1>1, <1>4, <1>5, <2>1 DEF RequestInv, RequestPhases
<1>6. Grown(r) => ProcessInv(r)'
  BY <1>1, <1>5 DEF ProcessInv
<1> QED BY <1>1, <1>2, <1>3, <1>6, Alone

LEMMA SetActingUserKeeps == ASSUME NEW r \in Requests, Inv, Watch, SetActingUser(r) PROVE Inv'
<1>1. Shape /\ r \in Processes /\ RequestInv(r)
  BY DEF Inv, ProcessInv, Processes
<1> DEFINE session == ActingAs(db[r], caller[r])
<1>2. /\ at' = [at EXCEPT ![r] = "route"] /\ at[r] = "actor"
      /\ UNCHANGED <<users, orgs, cast, call, caller>>
  BY DEF SetActingUser, At, In
<1>3. db' = [db EXCEPT ![r] = session]
  BY <1>1 DEF SetActingUser, Shape
<1>4. /\ db[r] \in Session /\ caller[r] \in Subs \cup {None}
  BY <1>1 DEF Shape
<1>5. /\ session \in Session /\ session.acting = caller[r] /\ session.kept = caller[r]
      /\ session.draft = db[r].draft
  BY <1>4 DEF ActingAs, Session
<1> HIDE DEF session
<1>6. caller[r] = call[r].sub /\ db[r].draft = {}
  BY <1>1, <1>2 DEF RequestInv
<1> QED BY <1>2, <1>3, <1>5, <1>6, Routed

LEMMA CreateOrgKeeps == ASSUME NEW r \in Requests, Inv, Watch, CreateOrg(r) PROVE Inv'
<1>1. Shape /\ r \in Processes /\ RequestInv(r)
  BY DEF Inv, ProcessInv, Processes
<1>2. PICK u \in Admins, n \in Names :
         /\ u.sub = db[r].acting
         /\ db' = [db EXCEPT ![r].draft = {[name |-> n, by |-> u.sub, maker |-> r]}]
  BY DEF CreateOrg
<1> DEFINE org == [name |-> n, by |-> u.sub, maker |-> r]
           session == [db[r] EXCEPT !.draft = {org}]
<1>3. /\ at' = [at EXCEPT ![r] = "route"] /\ at[r] = "route"
      /\ UNCHANGED <<users, orgs, cast, call, caller>>
  BY DEF CreateOrg, At, In
<1>4. u \in users' /\ u \in User /\ u.admin = TRUE /\ ~u.disabled
  BY <1>1, <1>3 DEF Admins, Active, Shape, User
<1>5. org \in Org /\ org.maker = r /\ org.by = u.sub
  BY <1>1, <1>4 DEF Org, User
<1>6. db' = [db EXCEPT ![r] = session] /\ db[r] \in Session
  BY <1>1, <1>2 DEF Shape
<1> HIDE DEF org
<1>7. /\ session \in Session /\ session.draft = {org}
      /\ session.acting = db[r].acting /\ session.kept = db[r].kept
  BY <1>5, <1>6 DEF Session
<1> HIDE DEF session
<1>8. db[r].acting = call[r].sub /\ db[r].kept = call[r].sub
  BY <1>1, <1>3 DEF RequestInv
<1>9. at'[r] = "route"
  BY <1>1, <1>3 DEF Shape
<1>10. Grown(r) => <<org.by, TRUE>> \in seen'[r]
  BY <1>4, <1>5, <1>9 DEF Grown
<1> QED BY <1>3, <1>5, <1>6, <1>7, <1>8, <1>10, Routed

LEMMA RollbackKeeps == ASSUME NEW r \in Requests, Inv, Watch, Rollback(r) PROVE Inv'
<1>1. Shape /\ r \in Processes /\ RequestInv(r)
  BY DEF Inv, ProcessInv, Processes
<1> DEFINE session == [db[r] EXCEPT !.draft = {}, !.acting = db[r].kept]
<1>2. /\ at' = [at EXCEPT ![r] = "route"] /\ at[r] = "route"
      /\ UNCHANGED <<users, orgs, cast, call, caller>>
  BY DEF Rollback, At, In
<1>3. db' = [db EXCEPT ![r] = session] /\ db[r] \in Session
  BY <1>1 DEF Rollback, Shape
<1>4. /\ session \in Session /\ session.draft = {}
      /\ session.acting = db[r].kept /\ session.kept = db[r].kept
  BY <1>3 DEF Session
<1> HIDE DEF session
<1>5. db[r].kept = call[r].sub
  BY <1>1, <1>2 DEF RequestInv
<1> QED BY <1>2, <1>3, <1>4, <1>5, Routed

LEMMA RequestStepKeeps == ASSUME NEW r \in Requests, Inv, Watch, RequestStep(r) PROVE Inv'
<1>1. CASE CommitRoute(r)
  <2>1. orgs' \subseteq Org
    BY <1>1 DEF CommitRoute, Inv, Shape, ProcessInv, RequestInv, Processes
  <2> QED BY <1>1, <2>1, Answered DEF CommitRoute
<1> QED
  BY <1>1, SignInKeeps, ConnectKeeps, LoadPrincipalKeeps, SetActingUserKeeps, CreateOrgKeeps, RollbackKeeps
  DEF RequestStep

-----------------------------------------------------------------------------
LEMMA RunKeeps == ASSUME NEW c \in Commands, Inv, Watch, Run(c) PROVE Inv'
<1>1. Shape /\ c \in Processes /\ CommandInv(c) /\ c \notin Requests
  BY ProcessesAssumption DEF Inv, ProcessInv, Processes
<1>2. PICK command \in Calls : call' = [call EXCEPT ![c] = command]
  BY DEF Run
<1> DEFINE session == [db[c] EXCEPT !.open = TRUE]
<1>3. /\ at' = [at EXCEPT ![c] = "start"] /\ at[c] = "idle" /\ "start" \in RequestPhases \cup CommandPhases
      /\ db' = [db EXCEPT ![c] = session] /\ UNCHANGED <<users, orgs, cast, caller>>
  BY DEF Run, At, In, CommandPhases
<1>4. command \in Call /\ command \in Token \cup Call \cup {None}
  BY BoundsAssumption
<1>5. session \in Session /\ session.draft = db[c].draft /\ session.acting = db[c].acting
  BY <1>1 DEF Shape, Session
<1>6. /\ caller[c] \in Subs \cup {None} /\ caller' = [caller EXCEPT ![c] = caller[c]]
      /\ cast' = cast /\ users' \subseteq User /\ orgs' \subseteq Org
  BY <1>1, <1>3 DEF Shape
<1>7. at'[c] = "start" /\ call'[c] = command /\ db'[c] = session
  BY <1>1, <1>2, <1>3 DEF Shape
<1> HIDE DEF session
<1>8. ASSUME Grown(c) PROVE CommandInv(c)'
  BY <1>1, <1>3, <1>4, <1>5, <1>7, <1>8 DEF CommandInv, CommandPhases, Grown
<1>9. Grown(c) => ProcessInv(c)'
  BY <1>1, <1>8 DEF ProcessInv
<1> QED BY <1>1, <1>2, <1>3, <1>4, <1>5, <1>6, <1>9, Alone

\* A command goes on, and what it goes on to asks for no more than it has seen.
LEMMA Proceeded ==
    ASSUME NEW c \in Commands, Inv, Watch, NEW from \in CommandPhases \ {"idle", "save", "ended"},
           NEW to \in {"count", "operator", "look", "insert", "name", "check"}, Goes(c, from, to), UNCHANGED orgs,
           to \in {"count", "look", "insert"} => call[c].kind = "create-user",
           to = "count" => call[c].admin,
           to \in {"name", "check"} => call[c].kind = "create-org" /\ db[c].acting # None,
           Grown(c) => (to \in {"look", "insert"} /\ call[c].admin => db[c].acting # None \/ gap'[c])
    PROVE  Inv'
<1>1. Shape /\ c \in Processes /\ CommandInv(c) /\ c \notin Requests
  BY ProcessesAssumption DEF Inv, ProcessInv, Processes
<1>2. /\ at' = [at EXCEPT ![c] = to] /\ at[c] = from /\ to \in RequestPhases \cup CommandPhases
      /\ UNCHANGED <<users, orgs, cast, db, call, caller>>
  BY DEF Goes, At, In, CommandPhases
<1>3. at'[c] = to /\ call'[c] = call[c] /\ db'[c] = db[c]
  BY <1>1, <1>2 DEF Shape
<1>4. ASSUME Grown(c) PROVE CommandInv(c)'
  <2>1. /\ call'[c] \in Call /\ db'[c].draft = {} /\ at'[c] \notin {"idle", "save", "ended"}
    BY <1>1, <1>2, <1>3 DEF CommandInv
  <2>2. db'[c].acting # None => <<db'[c].acting, TRUE>> \in seen'[c]
    BY <1>1, <1>3, <1>4 DEF CommandInv, Grown
  <2> QED BY <1>3, <1>4, <2>1, <2>2 DEF CommandInv, CommandPhases
<1>5. Grown(c) => ProcessInv(c)'
  BY <1>1, <1>4 DEF ProcessInv
<1> QED BY <1>1, <1>2, <1>5, Moved

LEMMA BeginKeeps == ASSUME NEW c \in Commands, Inv, Watch, Begin(c) PROVE Inv'
<1>1. CommandInv(c) /\ at[c] = "start"
  BY DEF Begin, In, Inv, ProcessInv, Processes
<1>2. call[c] \in Call
  BY <1>1 DEF CommandInv
<1>3. call[c].kind \in {"create-user", "create-org"} /\ call[c].admin \in BOOLEAN
  BY <1>2 DEF Call
<1>4. CASE Stop(c, "start")
  BY <1>4, Stopped DEF Begin
<1>5. CASE call[c].kind = "create-org" /\ Goes(c, "start", "operator")
  BY <1>5, Proceeded DEF Begin, CommandPhases
<1>6. CASE call[c].kind = "create-user" /\ call[c].admin /\ Goes(c, "start", "count")
  BY <1>6, Proceeded DEF Begin, CommandPhases
<1>7. CASE call[c].kind = "create-user" /\ ~call[c].admin /\ Goes(c, "start", "look")
  BY <1>7, Proceeded DEF Begin, CommandPhases
<1> QED BY <1>3, <1>4, <1>5, <1>6, <1>7 DEF Begin

LEMMA CountAdminsKeeps == ASSUME NEW c \in Commands, Inv, Watch, CountAdmins(c) PROVE Inv'
<1>1. CommandInv(c) /\ at[c] = "count" /\ Shape /\ c \in Processes
  BY DEF CountAdmins, In, Inv, ProcessInv, Processes
<1>2. call[c].kind = "create-user" /\ UNCHANGED orgs
  BY <1>1 DEF CommandInv, CountAdmins
<1>3. CASE Goes(c, "count", "operator")
  BY <1>2, <1>3, Proceeded DEF CommandPhases
<1>4. CASE Stop(c, "count")
  BY <1>2, <1>4, Stopped
<1>5. CASE Admins = {} /\ Goes(c, "count", "look")
  <2>1. Admins' = {} /\ at'[c] = "look"
    BY <1>1, <1>5 DEF Goes, At, Admins, Active, Shape
  <2>2. Grown(c) => gap'[c]
    BY <2>1 DEF Grown
  <2> QED BY <1>2, <1>5, <2>2, Proceeded DEF CommandPhases
<1> QED BY <1>3, <1>4, <1>5 DEF CountAdmins, HaveOne

LEMMA LookForUserKeeps == ASSUME NEW c \in Commands, Inv, Watch, LookForUser(c) PROVE Inv'
<1>1. CommandInv(c) /\ at[c] = "look" /\ UNCHANGED orgs
  BY DEF LookForUser, In, Inv, ProcessInv, Processes
<1>2. CASE Stop(c, "look")
  BY <1>1, <1>2, Stopped
<1>3. CASE Goes(c, "look", "insert")
  <2>1. Grown(c) => (call[c].admin => db[c].acting # None \/ gap'[c])
    BY <1>1 DEF CommandInv, Grown
  <2>2. call[c].kind = "create-user"
    BY <1>1 DEF CommandInv
  <2> QED BY <1>1, <1>3, <2>1, <2>2, Proceeded DEF CommandPhases
<1> QED BY <1>2, <1>3 DEF LookForUser

LEMMA LockNameKeeps == ASSUME NEW c \in Commands, Inv, Watch, LockName(c) PROVE Inv'
<1>1. CommandInv(c) /\ at[c] = "name" /\ UNCHANGED orgs /\ Goes(c, "name", "check")
  BY DEF LockName, In, Inv, ProcessInv, Processes
<1> QED BY <1>1, Proceeded DEF CommandInv, CommandPhases

LEMMA FindOperatorKeeps == ASSUME NEW c \in Commands, Inv, Watch, FindOperator(c) PROVE Inv'
<1>1. CommandInv(c) /\ at[c] = "operator" /\ Shape /\ c \in Processes /\ c \notin Requests /\ UNCHANGED orgs
  BY ProcessesAssumption DEF FindOperator, In, Inv, ProcessInv, Processes
<1>2. CASE Stop(c, "operator")
  BY <1>1, <1>2, Stopped
<1>3. CASE ~Stop(c, "operator")
  <2> DEFINE phase == IF call[c].kind = "create-org" THEN "name" ELSE "look"
  <2>1. PICK u \in Operators(call[c].as) :
           /\ caller' = [caller EXCEPT ![c] = u.sub]
           /\ db' = [db EXCEPT ![c].acting = u.sub]
    BY <1>3 DEF FindOperator
  <2>2. /\ at' = [at EXCEPT ![c] = phase] /\ phase \in RequestPhases \cup CommandPhases
        /\ UNCHANGED <<users, orgs, cast, call>>
    BY <1>3 DEF FindOperator, At, CommandPhases
  <2> DEFINE session == [db[c] EXCEPT !.acting = u.sub]
  <2>3. u \in users' /\ u \in User /\ u.admin = TRUE /\ ~u.disabled
    BY <1>1, <2>1, <2>2 DEF Operators, Admins, Active, Shape, User
  <2>4. u.sub \in Subs /\ u.sub # None
    BY <2>3, NoneAssumption DEF User
  <2>5. db' = [db EXCEPT ![c] = session] /\ db[c] \in Session
    BY <1>1, <2>1 DEF Shape
  <2>6. session \in Session /\ session.draft = db[c].draft /\ session.acting = u.sub
    BY <2>4, <2>5 DEF Session
  <2> HIDE DEF session
  <2>7. /\ u.sub \in Subs \cup {None}
        /\ call[c] \in Token \cup Call \cup {None} /\ call' = [call EXCEPT ![c] = call[c]]
        /\ cast' = cast /\ users' \subseteq User /\ orgs' \subseteq Org
    BY <1>1, <2>2, <2>4 DEF Shape
  <2>8. at'[c] = phase /\ call'[c] = call[c] /\ db'[c] = session
    BY <1>1, <2>2, <2>5 DEF Shape
  <2>9. call[c] \in Call /\ call[c].kind \in {"create-user", "create-org"} /\ db[c].draft = {}
    BY <1>1 DEF CommandInv, Call
  <2>10. ASSUME Grown(c) PROVE CommandInv(c)'
    <3>1. <<db'[c].acting, TRUE>> \in seen'[c]
      BY <2>3, <2>6, <2>8, <2>10 DEF Grown
    <3> QED BY <2>4, <2>6, <2>8, <2>9, <3>1 DEF CommandInv, CommandPhases
  <2>11. Grown(c) => ProcessInv(c)'
    BY <1>1, <2>10 DEF ProcessInv
  <2> QED BY <1>1, <2>1, <2>2, <2>5, <2>6, <2>7, <2>11, Alone
<1> QED BY <1>2, <1>3

\* A command has a row in its open transaction.
LEMMA Drafted ==
    ASSUME NEW c \in Commands, Inv, Watch, at' = [at EXCEPT ![c] = "save"],
           NEW rows \in SUBSET (User \cup Org), db' = [db EXCEPT ![c].draft = rows],
           UNCHANGED <<users, orgs, cast, call, caller>>,
           Grown(c) => CommandInv(c)'
    PROVE  Inv'
<1>1. Shape /\ c \in Processes /\ c \notin Requests
  BY ProcessesAssumption DEF Inv, Processes
<1> DEFINE session == [db[c] EXCEPT !.draft = rows]
<1>2. db' = [db EXCEPT ![c] = session] /\ db[c] \in Session /\ "save" \in RequestPhases \cup CommandPhases
  BY <1>1 DEF Shape, CommandPhases
<1>3. session \in Session
  BY <1>2 DEF Session
<1> HIDE DEF session
<1>4. /\ call[c] \in Token \cup Call \cup {None} /\ call' = [call EXCEPT ![c] = call[c]]
      /\ caller[c] \in Subs \cup {None} /\ caller' = [caller EXCEPT ![c] = caller[c]]
      /\ cast' = cast /\ users' \subseteq User /\ orgs' \subseteq Org
  BY <1>1 DEF Shape
<1>5. Grown(c) => ProcessInv(c)'
  BY <1>1 DEF ProcessInv
<1> QED BY <1>1, <1>2, <1>3, <1>4, <1>5, Alone

LEMMA InsertUserKeeps == ASSUME NEW c \in Commands, Inv, Watch, InsertUser(c) PROVE Inv'
<1>1. CommandInv(c) /\ at[c] = "insert" /\ Shape /\ c \in Processes /\ UNCHANGED orgs
  BY DEF InsertUser, In, Inv, ProcessInv, Processes
<1>2. CASE Stop(c, "insert")
  BY <1>1, <1>2, Stopped
<1>3. CASE ~Stop(c, "insert")
  <2> DEFINE user == [sub |-> call[c].sub, email |-> call[c].email, admin |-> call[c].admin,
                      disabled |-> FALSE, by |-> db[c].acting]
  <2>1. /\ at' = [at EXCEPT ![c] = "save"] /\ db' = [db EXCEPT ![c].draft = {user}]
        /\ UNCHANGED <<users, orgs, cast, call, caller>>
    BY <1>3 DEF InsertUser, At
  <2>2. call[c] \in Call /\ call[c].kind = "create-user" /\ db[c] \in Session
    BY <1>1 DEF CommandInv, Shape
  <2>3. user \in User
    BY <2>2 DEF Call, User, Session
  <2>4. at'[c] = "save" /\ call'[c] = call[c] /\ db'[c] = [db[c] EXCEPT !.draft = {user}]
    BY <1>1, <2>1 DEF Shape
  <2>5. db'[c].draft = {user} /\ db'[c].acting = db[c].acting
    BY <2>2, <2>4 DEF Session
  <2>6. ASSUME Grown(c) PROVE CommandInv(c)'
    <3>1. /\ db[c].acting # None => <<db[c].acting, TRUE>> \in seen'[c]
          /\ call[c].admin => db[c].acting # None \/ gap'[c]
      BY <1>1, <2>6 DEF CommandInv, Grown
    <3> QED BY <2>2, <2>4, <2>5, <3>1 DEF CommandInv, CommandPhases
  <2> HIDE DEF user
  <2> QED BY <2>1, <2>3, <2>6, Drafted
<1> QED BY <1>2, <1>3

LEMMA CheckNameKeeps == ASSUME NEW c \in Commands, Inv, Watch, CheckName(c) PROVE Inv'
<1>1. CommandInv(c) /\ at[c] = "check" /\ Shape /\ c \in Processes /\ UNCHANGED orgs
  BY DEF CheckName, In, Inv, ProcessInv, Processes
<1>2. CASE Stop(c, "check")
  BY <1>1, <1>2, Stopped
<1>3. CASE ~Stop(c, "check")
  <2> DEFINE org == [name |-> call[c].name, by |-> db[c].acting, maker |-> c]
  <2>1. /\ at' = [at EXCEPT ![c] = "save"] /\ db' = [db EXCEPT ![c].draft = {org}]
        /\ UNCHANGED <<users, orgs, cast, call, caller>>
    BY <1>3 DEF CheckName, At
  <2>2. call[c] \in Call /\ call[c].kind = "create-org" /\ db[c] \in Session /\ db[c].acting # None
    BY <1>1 DEF CommandInv, Shape
  <2>3. org \in Org
    BY <1>1, <2>2 DEF Call, Org, Session
  <2>4. at'[c] = "save" /\ call'[c] = call[c] /\ db'[c] = [db[c] EXCEPT !.draft = {org}]
    BY <1>1, <2>1 DEF Shape
  <2>5. db'[c].draft = {org} /\ db'[c].acting = db[c].acting
    BY <2>2, <2>4 DEF Session
  <2>6. ASSUME Grown(c) PROVE CommandInv(c)'
    <3>1. <<db[c].acting, TRUE>> \in seen'[c]
      BY <1>1, <2>2, <2>6 DEF CommandInv, Grown
    <3> QED BY <2>2, <2>4, <2>5, <3>1 DEF CommandInv, CommandPhases
  <2> HIDE DEF org
  <2> QED BY <2>1, <2>3, <2>6, Drafted
<1> QED BY <1>2, <1>3

LEMMA SavedRows ==
    ASSUME NEW c \in Commands, Inv, at[c] = "save"
    PROVE  /\ Saved(c, "create-user") \subseteq User /\ Saved(c, "create-org") \subseteq Org
           /\ \A u \in Saved(c, "create-user") :
                 /\ u.sub = call[c].sub
                 /\ u.admin => IF u.by = None THEN gap[c] ELSE <<u.by, TRUE>> \in seen[c]
           /\ \A o \in Saved(c, "create-org") : o.maker = c /\ <<o.by, TRUE>> \in seen[c]
<1>1. CommandInv(c) /\ call[c] \in Call /\ db[c] \in Session
  BY DEF Inv, ProcessInv, Processes, CommandInv, Shape
<1>2. db[c].acting \in Subs \cup {None} /\ (db[c].acting # None => <<db[c].acting, TRUE>> \in seen[c])
  BY <1>1 DEF CommandInv, Session
<1>3. CASE call[c].kind = "create-user"
  <2> DEFINE user == [sub |-> call[c].sub, email |-> call[c].email, admin |-> call[c].admin,
                      disabled |-> FALSE, by |-> db[c].acting]
  <2>1. db[c].draft = {user} /\ (call[c].admin => db[c].acting # None \/ gap[c])
    BY <1>1, <1>3 DEF CommandInv
  <2>2. user \in User
    BY <1>1, <1>2 DEF Call, User
  <2>3. user.sub = call[c].sub /\ user.admin = call[c].admin /\ user.by = db[c].acting
    OBVIOUS
  <2> HIDE DEF user
  <2> QED BY <1>2, <1>3, <2>1, <2>2, <2>3 DEF Saved
<1>4. CASE call[c].kind = "create-org"
  <2> DEFINE org == [name |-> call[c].name, by |-> db[c].acting, maker |-> c]
  <2>1. db[c].draft = {org} /\ db[c].acting # None
    BY <1>1, <1>4 DEF CommandInv
  <2>2. org \in Org /\ org.maker = c /\ org.by = db[c].acting
    BY <1>1, <1>2, <2>1 DEF Call, Org, Processes
  <2> HIDE DEF org
  <2> QED BY <1>2, <1>4, <2>1, <2>2 DEF Saved
<1> QED BY <1>1, <1>3, <1>4 DEF Call

LEMMA SaveKeeps == ASSUME NEW c \in Commands, Inv, Watch, Save(c) PROVE Inv'
<1>1. Shape /\ c \in Processes /\ CommandInv(c) /\ c \notin Requests
  BY ProcessesAssumption DEF Inv, ProcessInv, Processes
<1>2. /\ at' = [at EXCEPT ![c] = "ended"] /\ db' = [db EXCEPT ![c] = NoSession] /\ at[c] = "save"
      /\ UNCHANGED <<cast, call, caller>>
  BY DEF Save, At, In
<1>3. users' \subseteq User /\ orgs' \subseteq Org
  BY <1>1, <1>2, SavedRows DEF Save, Shape
<1>4. /\ call[c] \in Token \cup Call \cup {None} /\ call' = [call EXCEPT ![c] = call[c]]
      /\ caller[c] \in Subs \cup {None} /\ caller' = [caller EXCEPT ![c] = caller[c]]
      /\ cast' = cast /\ "ended" \in RequestPhases \cup CommandPhases
  BY <1>1, <1>2 DEF Shape, RequestPhases
<1>5. at'[c] = "ended" /\ db'[c] = NoSession /\ call'[c] = call[c]
  BY <1>1, <1>2 DEF Shape
<1>6. CommandInv(c)'
  BY <1>1, <1>2, <1>5 DEF CommandInv, NoSession, CommandPhases
<1>7. ProcessInv(c)'
  BY <1>1, <1>6 DEF ProcessInv
<1> QED BY <1>1, <1>2, <1>3, <1>4, <1>7, Sessions, Alone

LEMMA CommandStepKeeps ==
    ASSUME NEW c \in Commands, Inv, Watch, CommandStep(c) \/ CommandFails(c) PROVE Inv'
<1>1. CASE CommandFails(c)
  <2>1. PICK from \in {"start", "count", "operator", "look", "insert", "name", "check", "save"} : Stop(c, from)
    BY <1>1 DEF CommandFails
  <2>2. from # "idle" /\ UNCHANGED orgs
    BY <1>1 DEF CommandFails
  <2> QED BY <2>1, <2>2, Stopped
<1> QED
  BY <1>1, BeginKeeps, CountAdminsKeeps, FindOperatorKeeps, LookForUserKeeps, InsertUserKeeps, LockNameKeeps,
     CheckNameKeeps, SaveKeeps
  DEF CommandStep

\* Steps of none of the processes.
LEMMA OutsideKeeps ==
    ASSUME Inv, Watch, users' \subseteq User, UNCHANGED <<orgs, cast, call, at, db, caller>>
    PROVE  Inv'
<1>1. Shape /\ \A p \in Processes : ProcessInv(p)
  BY DEF Inv
<1>2. /\ seen' \in [Processes -> SUBSET (Subs \X BOOLEAN)] /\ gap' \in [Processes -> BOOLEAN]
      /\ \A q \in Processes : Grown(q)
  BY <1>1, History
<1>3. Shape'
  BY <1>1, <1>2 DEF Shape
<1>4. ASSUME NEW p \in Processes PROVE ProcessInv(p)'
  BY <1>1, <1>2, Frame
<1> QED BY <1>3, <1>4 DEF Inv

LEMMA InitInv == Init => Inv
<1> SUFFICES ASSUME Init PROVE Inv
  OBVIOUS
<1>1. users \subseteq User /\ cast \subseteq Processes /\ orgs \subseteq Org
  BY BoundsAssumption DEF Init
<1>2. /\ at = [p \in Processes |-> "idle"] /\ db = [p \in Processes |-> NoSession]
      /\ call = [p \in Processes |-> None] /\ caller = [p \in Processes |-> None]
      /\ seen = [p \in Processes |-> {}] /\ gap = [p \in Processes |-> FALSE]
  BY DEF Init
<1>3. Shape
  BY <1>1, <1>2, Sessions DEF Shape, RequestPhases
<1>4. ASSUME NEW p \in Processes PROVE ProcessInv(p)
  BY <1>2 DEF ProcessInv, RequestInv, CommandInv, NoSession, RequestPhases, CommandPhases
<1> QED BY <1>3, <1>4 DEF Inv

LEMMA NextInv == Inv /\ [Next]_vars => Inv'
<1> SUFFICES ASSUME Inv, [Next]_vars PROVE Inv'
  OBVIOUS
<1>1. CASE UNCHANGED vars
  <2>1. Shape'
    BY <1>1 DEF vars, Inv, Shape
  <2>2. ASSUME NEW p \in Processes PROVE ProcessInv(p)'
    <3>1. ProcessInv(p)
      BY DEF Inv
    <3>2. p \in Requests => RequestInv(p)'
      BY <1>1, <3>1 DEF vars, ProcessInv, RequestInv
    <3>3. p \in Commands => CommandInv(p)'
      BY <1>1, <3>1 DEF vars, ProcessInv, CommandInv
    <3> QED BY <3>2, <3>3 DEF ProcessInv
  <2> QED BY <2>1, <2>2 DEF Inv
<1>2. CASE Next
  <2>1. Watch
    BY <1>2 DEF Next
  <2>2. ASSUME NEW r \in Requests, Arrive(r) \/ RequestStep(r) \/ RequestFails(r) \/ Collect(r) PROVE Inv'
    BY <2>1, <2>2, ArriveKeeps, RequestStepKeeps, SignInKeeps, RegisterFailsKeeps, CollectKeeps DEF RequestFails
  <2>3. ASSUME NEW c \in Commands, Run(c) \/ CommandStep(c) \/ CommandFails(c) PROVE Inv'
    BY <2>1, <2>3, RunKeeps, CommandStepKeeps
  <2>4. ASSUME NEW u \in users, SetDisabled(u) PROVE Inv'
    <3>1. u \in User
      BY DEF Inv, Shape
    <3>2. [u EXCEPT !.disabled = ~@] \in User
      BY <3>1 DEF User
    <3>3. users' \subseteq User
      BY <2>4, <3>2 DEF SetDisabled, Inv, Shape
    <3> QED BY <2>1, <2>4, <3>3, OutsideKeeps DEF SetDisabled
  <2>5. CASE RotateKeys \/ KeysExpire \/ CooldownEnds
    BY <2>1, <2>5, OutsideKeeps DEF RotateKeys, KeysExpire, CooldownEnds, Inv, Shape
  <2> QED BY <1>2, <2>2, <2>3, <2>4, <2>5 DEF Next
<1> QED BY <1>1, <1>2

-----------------------------------------------------------------------------
(* What the safety properties say follows from the invariant. *)

\* Who acts in a route had an active account after the request arrived
\* (load_active_principal on every request).
THEOREM DisabledAreOut == Spec => []KillSwitch
<1>1. Inv => KillSwitch
  <2> SUFFICES ASSUME Inv, NEW r \in Requests, at[r] = "route" PROVE caller[r] \in {s[1] : s \in seen[r]}
    BY DEF KillSwitch
  <2>1. PICK admin \in BOOLEAN : <<caller[r], admin>> \in seen[r]
    BY DEF Inv, ProcessInv, RequestInv, Processes
  <2> QED BY <2>1
<1> QED BY <1>1, InitInv, NextInv, PTL DEF Spec

\* The database takes a request for the person its token names, after a
\* rollback too (set_acting_user commits).
THEOREM ActsForItsCaller == Spec => []ActsAsCaller
<1>1. Inv => ActsAsCaller
  BY DEF Inv, ProcessInv, RequestInv, Processes, ActsAsCaller
<1> QED BY <1>1, InitInv, NextInv, PTL DEF Spec

\* Every step but one that ends a process closes its session, and none opens one
\* for a process that has ended.
LEMMA EndsClosed ==
    ASSUME Inv, Next, NEW p \in Processes, at'[p] = "ended", db'[p].open
    PROVE  at[p] = "register" \/ (at[p] = "ended" /\ db[p].open)
<1> DEFINE justified == at[p] = "register" \/ (at[p] = "ended" /\ db[p].open)
<1>1. Shape /\ p \in DOMAIN at /\ p \in DOMAIN db /\ at'[p] = "ended" /\ db'[p].open
  BY DEF Inv, Shape
<1>2. ~(db' = [db EXCEPT ![p] = NoSession])
  BY <1>1 DEF NoSession
<1>3. ASSUME NEW q, NEW from, NEW to, At(q, from, to), db' = db, from = "register" \/ to # "ended" PROVE justified
  BY <1>1, <1>3 DEF At, In, Shape
<1>4. ASSUME NEW q, NEW from, NEW to, At(q, from, to), to # "ended",
             NEW session, db' = [db EXCEPT ![q] = session] PROVE justified
  BY <1>1, <1>4 DEF At, Shape
<1>5. ASSUME NEW q, NEW from, At(q, from, "ended"), db' = [db EXCEPT ![q] = NoSession] PROVE justified
  BY <1>1, <1>2, <1>5 DEF At, Shape
<1>6. ASSUME NEW q, NEW from, NEW to, Goes(q, from, to), to # "ended" PROVE justified
  BY <1>3, <1>6 DEF Goes
<1>7. ASSUME NEW q, NEW from, NEW code, Answer(q, from, code) PROVE justified
  BY <1>5, <1>7 DEF Answer
<1>8. ASSUME NEW q, NEW from, Stop(q, from) PROVE justified
  BY <1>5, <1>8 DEF Stop
<1> SUFFICES justified
  OBVIOUS
<1> HIDE DEF justified
<1>9. ASSUME NEW r \in Requests, Arrive(r) \/ RequestStep(r) \/ RequestFails(r) \/ Collect(r) PROVE justified
  <2>1. CASE ReadToken(r) \/ FindKey(r) \/ UnknownKey(r) \/ CheckClaims(r)
    BY <1>6, <1>7, <2>1 DEF ReadToken, FindKey, UnknownKey, CheckClaims
  <2>2. CASE FetchKeys(r) \/ FetchFails(r)
    BY <1>6, <1>7, <2>2 DEF FetchKeys, FetchFails
  <2>3. CASE Arrive(r)
    BY <1>3, <2>3 DEF Arrive
  <2>4. CASE Connect(r)
    BY <1>4, <2>4 DEF Connect
  <2>5. CASE Register(r) \/ RegisterFails(r)
    BY <1>3, <1>6, <2>5 DEF Register, RegisterFails
  <2>6. CASE Collect(r)
    BY <1>5, <2>6 DEF Collect
  <2>7. CASE LoadPrincipal(r)
    BY <1>3, <1>7, <2>7 DEF LoadPrincipal
  <2>8. CASE SetActingUser(r)
    BY <1>4, <2>8 DEF SetActingUser
  <2>9. CASE DatabaseFails(r) \/ MayNotCreate(r) \/ CommitRoute(r)
    BY <1>7, <2>9 DEF DatabaseFails, MayNotCreate, CommitRoute
  <2>10. CASE CreateOrg(r) \/ Rollback(r)
    <3>1. At(r, "route", "route") /\ \E session : db' = [db EXCEPT ![r] = session]
      BY <2>10 DEF CreateOrg, Rollback
    <3> QED BY <1>4, <3>1
  <2> QED BY <1>9, <2>1, <2>2, <2>3, <2>4, <2>5, <2>6, <2>7, <2>8, <2>9, <2>10 DEF RequestStep, RequestFails
<1>10. ASSUME NEW c \in Commands, Run(c) \/ CommandStep(c) \/ CommandFails(c) PROVE justified
  <2>1. CASE Run(c)
    BY <1>4, <2>1 DEF Run
  <2>2. CASE Begin(c) \/ CountAdmins(c) \/ LookForUser(c) \/ LockName(c) \/ CommandFails(c)
    BY <1>6, <1>8, <2>2 DEF Begin, CountAdmins, LookForUser, LockName, CommandFails
  <2>3. CASE FindOperator(c)
    <3>1. CASE Stop(c, "operator")
      BY <1>8, <3>1
    <3>2. CASE ~Stop(c, "operator")
      <4>1. PICK u \in Operators(call[c].as) : db' = [db EXCEPT ![c].acting = u.sub]
        BY <2>3, <3>2 DEF FindOperator
      <4>2. \E to \in {"name", "look"} : At(c, "operator", to)
        BY <2>3, <3>2 DEF FindOperator
      <4> QED BY <1>4, <4>1, <4>2
    <3> QED BY <3>1, <3>2
  <2>4. CASE InsertUser(c)
    <3>1. CASE Stop(c, "insert")
      BY <1>8, <3>1
    <3>2. CASE ~Stop(c, "insert")
      BY <1>4, <2>4, <3>2 DEF InsertUser
    <3> QED BY <3>1, <3>2
  <2>5. CASE CheckName(c)
    <3>1. CASE Stop(c, "check")
      BY <1>8, <3>1
    <3>2. CASE ~Stop(c, "check")
      BY <1>4, <2>5, <3>2 DEF CheckName
    <3> QED BY <3>1, <3>2
  <2>6. CASE Save(c)
    BY <1>5, <2>6 DEF Save
  <2> QED BY <1>10, <2>1, <2>2, <2>3, <2>4, <2>5, <2>6 DEF CommandStep
<1>11. CASE (\E u \in users : SetDisabled(u)) \/ RotateKeys \/ KeysExpire \/ CooldownEnds
  BY <1>1, <1>11 DEF SetDisabled, RotateKeys, KeysExpire, CooldownEnds, justified
<1> QED BY <1>9, <1>10, <1>11 DEF Next

\* A connection is opened for a genuine token only.  None outlives its request or
\* command but one that get_auth_context never came to hold, and that one carries
\* nobody's identity and no rows (context.py:17-19, 58-64).
THEOREM EveryConnectionEarned == Spec => ConnectionsEarned
<1> DEFINE earned(p) == db'[p].open =>
              /\ p \in Requests => call'[p].form = "good"
              /\ at'[p] = "ended" =>
                    /\ at[p] = "register" \/ (at[p] = "ended" /\ db[p].open)
                    /\ db'[p].acting = None /\ db'[p].kept = None /\ db'[p].draft = {}
<1>1. ASSUME Inv, Inv', Next, NEW p \in Processes PROVE earned(p)
  <2>1. CASE p \in Requests
    <3>1. RequestInv(p)'
      BY <1>1, <2>1 DEF Inv, ProcessInv
    <3>2. db'[p].open /\ at'[p] = "ended" => db'[p].acting = None /\ db'[p].kept = None /\ db'[p].draft = {}
      BY <3>1 DEF RequestInv
    <3>3. db'[p].open => call'[p].form = "good"
      BY <3>1 DEF RequestInv
    <3> QED BY <1>1, <3>2, <3>3, EndsClosed
  <2>2. CASE p \in Commands
    BY <1>1, <2>2, ProcessesAssumption DEF Inv, ProcessInv, CommandInv
  <2> QED BY <2>1, <2>2 DEF Processes
<1>2. Inv /\ Inv' /\ [Next]_vars => [\A p \in Processes : earned(p)]_vars
  BY <1>1
<1> QED BY <1>2, InitInv, NextInv, PTL DEF Spec, ConnectionsEarned

\* Two steps add an organization, and one adds a user.
LEMMA OrgsGrow ==
    ASSUME Next, NEW o \in orgs' \ orgs
    PROVE  \/ \E r \in Requests : CommitRoute(r) /\ o \in db[r].draft
           \/ \E c \in Commands : Save(c) /\ o \in Saved(c, "create-org")
<1>1. CASE \E r \in Requests : Arrive(r) \/ RequestStep(r) \/ RequestFails(r) \/ Collect(r)
  <2>1. PICK r \in Requests : Arrive(r) \/ RequestStep(r) \/ RequestFails(r) \/ Collect(r)
    BY <1>1
  <2>2. CommitRoute(r)
    BY <2>1 DEF Arrive, RequestStep, ReadToken, FindKey, FetchKeys, FetchFails, UnknownKey,
                CheckClaims, Connect, Register,
                LoadPrincipal, SetActingUser, RequestFails, DatabaseFails, RegisterFails, Collect,
                CreateOrg, MayNotCreate, Rollback
  <2> QED BY <2>2 DEF CommitRoute
<1>2. CASE \E c \in Commands : Run(c) \/ CommandStep(c) \/ CommandFails(c)
  <2>1. PICK c \in Commands : Run(c) \/ CommandStep(c) \/ CommandFails(c)
    BY <1>2
  <2>2. Save(c)
    BY <2>1 DEF Run, CommandStep, Begin, CountAdmins, FindOperator, LookForUser, InsertUser, LockName, CheckName,
                CommandFails
  <2> QED BY <2>2 DEF Save
<1>3. CASE (\E u \in users : SetDisabled(u)) \/ RotateKeys \/ KeysExpire \/ CooldownEnds
  BY <1>3 DEF SetDisabled, RotateKeys, KeysExpire, CooldownEnds
<1> QED BY <1>1, <1>2, <1>3 DEF Next

LEMMA UsersGrow ==
    ASSUME Inv, Next, NEW u \in users', u.sub \notin {v.sub : v \in users}
    PROVE  \E c \in Commands : Save(c) /\ u \in Saved(c, "create-user")
<1>1. CASE \E r \in Requests : Arrive(r) \/ RequestStep(r) \/ RequestFails(r) \/ Collect(r)
  <2>1. PICK r \in Requests : Arrive(r) \/ RequestStep(r) \/ RequestFails(r) \/ Collect(r)
    BY <1>1
  <2>2. users' = users
    BY <2>1 DEF Arrive, RequestStep, ReadToken, FindKey, FetchKeys, FetchFails, UnknownKey,
                CheckClaims, Connect, Register,
                LoadPrincipal, SetActingUser, RequestFails, DatabaseFails, RegisterFails, Collect,
                CreateOrg, MayNotCreate, Rollback, CommitRoute,
                Answer, Goes
  <2> QED BY <2>2
<1>2. CASE \E c \in Commands : Run(c) \/ CommandStep(c) \/ CommandFails(c)
  <2>1. PICK c \in Commands : Run(c) \/ CommandStep(c) \/ CommandFails(c)
    BY <1>2
  <2>2. users' = users \/ Save(c)
    BY <2>1 DEF Run, CommandStep, Begin, CountAdmins, FindOperator, LookForUser, InsertUser, LockName, CheckName,
                CommandFails, Stop, Goes
  <2> QED BY <2>2 DEF Save
<1>3. CASE RotateKeys \/ KeysExpire \/ CooldownEnds
  BY <1>3 DEF RotateKeys, KeysExpire, CooldownEnds
<1>4. ASSUME NEW v \in users, SetDisabled(v) PROVE FALSE
  <2>1. v \in User /\ u \in (users \ {v}) \cup {[v EXCEPT !.disabled = ~@]}
    BY <1>4 DEF SetDisabled, Inv, Shape
  <2>2. [v EXCEPT !.disabled = ~@].sub = v.sub
    BY <2>1 DEF User
  <2> QED BY <2>1, <2>2
<1> QED BY <1>1, <1>2, <1>3, <1>4 DEF Next

\* The maker of an organization, in a route or in a command, was an active
\* platform admin while it was made.
THEOREM OrganizationsByAdmins == Spec => MadeByAdmins
<1>1. ASSUME Inv, Next, NEW o \in orgs' \ orgs PROVE <<o.by, TRUE>> \in seen[o.maker]
  <2>1. ASSUME NEW r \in Requests, CommitRoute(r), o \in db[r].draft PROVE <<o.by, TRUE>> \in seen[o.maker]
    <3>1. RequestInv(r)
      BY <1>1, <2>1 DEF Inv, ProcessInv, Processes
    <3>2. o.maker = r /\ <<o.by, TRUE>> \in seen[r]
      BY <2>1, <3>1 DEF RequestInv
    <3> QED BY <3>2
  <2>2. ASSUME NEW c \in Commands, Save(c), o \in Saved(c, "create-org") PROVE <<o.by, TRUE>> \in seen[o.maker]
    <3>1. at[c] = "save"
      BY <2>2 DEF Save, At, In
    <3>2. o.maker = c /\ <<o.by, TRUE>> \in seen[c]
      BY <1>1, <2>2, <3>1, SavedRows
    <3> QED BY <3>2
  <2> QED BY <1>1, <2>1, <2>2, OrgsGrow
<1>2. Inv /\ [Next]_vars => [\A o \in orgs' \ orgs : <<o.by, TRUE>> \in seen[o.maker]]_vars
  BY <1>1
<1> QED BY <1>2, InitInv, NextInv, PTL DEF Spec, MadeByAdmins

\* A platform admin is made in the name of one who was active during the
\* command, or in a command that saw a moment without any (create_user).
THEOREM AdminsAreVouchedFor == Spec => AdminsVouchedFor
<1> DEFINE vouched == \A u \in users' : (u.admin /\ u.sub \notin {v.sub : v \in users}) =>
                         \E c \in Commands :
                            /\ at[c] = "save" /\ call[c].sub = u.sub
                            /\ IF u.by = None THEN gap[c] ELSE <<u.by, TRUE>> \in seen[c]
<1>1. Inv /\ Next => vouched
  <2> SUFFICES ASSUME Inv, Next, NEW u \in users', u.admin, u.sub \notin {v.sub : v \in users}
               PROVE  \E c \in Commands :
                            /\ at[c] = "save" /\ call[c].sub = u.sub
                            /\ IF u.by = None THEN gap[c] ELSE <<u.by, TRUE>> \in seen[c]
    OBVIOUS
  <2>1. PICK c \in Commands : Save(c) /\ u \in Saved(c, "create-user")
    BY UsersGrow
  <2>2. at[c] = "save"
    BY <2>1 DEF Save, At, In
  <2>3. u.sub = call[c].sub /\ IF u.by = None THEN gap[c] ELSE <<u.by, TRUE>> \in seen[c]
    BY <2>1, <2>2, SavedRows
  <2> QED BY <2>2, <2>3
<1>2. Inv /\ [Next]_vars => [vouched]_vars
  BY <1>1
<1> QED BY <1>2, InitInv, NextInv, PTL DEF Spec, AdminsVouchedFor

-----------------------------------------------------------------------------
(* One organization of a name. *)

Making(c) == at[c] \in {"check", "save"} /\ call[c].kind = "create-org"

\* Of those who are past the lock, no two have one name, and who is past the
\* look at the table has found none.
NamesInv ==
    /\ \A c \in Commands : at[c] # "idle" => c \in cast
    /\ \A c, d \in Commands : (c # d /\ Making(c) /\ Making(d)) => call[c].name # call[d].name
    /\ \A c \in Commands : (Making(c) /\ at[c] = "save") =>
          \A o \in orgs : o.maker \in Commands => o.name # call[c].name
    /\ OneOrgPerName

LEMMA NamesFrame ==
    ASSUME NamesInv, cast' = cast,
           \A c \in Commands : at'[c] # "idle" => c \in cast,
           \A c \in Commands : Making(c)' => Making(c) /\ call'[c] = call[c] /\ (at'[c] = "save" => at[c] = "save"),
           \A o \in orgs' : o \in orgs \/ o.maker \notin Commands
    PROVE  NamesInv'
<1>1. \A c, d \in Commands : (c # d /\ Making(c)' /\ Making(d)') => call'[c].name # call'[d].name
  BY DEF NamesInv
<1>2. \A c \in Commands : (Making(c)' /\ at'[c] = "save") =>
          \A o \in orgs' : o.maker \in Commands => o.name # call'[c].name
  BY DEF NamesInv
<1>3. OneOrgPerName'
  BY DEF NamesInv, OneOrgPerName
<1> QED BY <1>1, <1>2, <1>3 DEF NamesInv

LEMMA RequestNames ==
    ASSUME Inv, NamesInv, NEW r \in Requests, Arrive(r) \/ RequestStep(r) \/ RequestFails(r) \/ Collect(r) PROVE NamesInv'
<1>1. /\ cast' = cast /\ \E phase \in RequestPhases : at' = [at EXCEPT ![r] = phase]
      /\ \E t \in Token \cup {call[r]} : call' = [call EXCEPT ![r] = t]
  <2>1. call = [call EXCEPT ![r] = call[r]]
    BY DEF Inv, Shape
  <2>2. CASE Arrive(r)
    BY <2>2, BoundsAssumption DEF Arrive, At, RequestPhases
  <2>3. CASE RequestStep(r) \/ RequestFails(r) \/ Collect(r)
    <3>1. cast' = cast /\ call' = call
      BY <2>3 DEF RequestStep, ReadToken, FindKey, FetchKeys, FetchFails, UnknownKey,
                  CheckClaims, Connect, Register,
                  LoadPrincipal, SetActingUser, RequestFails, DatabaseFails, RegisterFails, Collect,
                  CreateOrg, MayNotCreate, Rollback, CommitRoute,
                  Answer, Goes
    <3>2. \E phase \in RequestPhases : at' = [at EXCEPT ![r] = phase]
      BY <2>3 DEF RequestStep, ReadToken, FindKey, FetchKeys, FetchFails, UnknownKey,
                  CheckClaims, Connect, Register,
                  LoadPrincipal, SetActingUser, RequestFails, DatabaseFails, RegisterFails, Collect,
                  CreateOrg, MayNotCreate, Rollback, CommitRoute,
                  Answer, Goes, At, RequestPhases
    <3> QED BY <2>1, <3>1, <3>2
  <2> QED BY <2>2, <2>3
<1>2. \A c \in Commands : at'[c] = at[c] /\ call'[c] = call[c] /\ (Making(c)' <=> Making(c))
  BY <1>1, ProcessesAssumption DEF Inv, Shape, Processes, Making
<1>3. ASSUME NEW o \in orgs', o \notin orgs PROVE o.maker \notin Commands
  <2>1. o \in db[r].draft
    BY <1>3 DEF Arrive, RequestStep, ReadToken, FindKey, FetchKeys, FetchFails, UnknownKey,
                CheckClaims, Connect, Register,
                LoadPrincipal, SetActingUser, RequestFails, DatabaseFails, RegisterFails, Collect,
                CreateOrg, MayNotCreate, Rollback, CommitRoute
  <2>2. RequestInv(r)
    BY DEF Inv, ProcessInv, Processes
  <2> QED BY <2>1, <2>2, ProcessesAssumption DEF RequestInv
<1> QED BY <1>1, <1>2, <1>3, NamesFrame DEF NamesInv

\* A command that does not take the lock, look or save.
LEMMA OtherNames ==
    ASSUME Inv, NamesInv, NEW c \in Commands, cast' = cast, orgs' = orgs,
           NEW phase \in CommandPhases \ {"check"}, at' = [at EXCEPT ![c] = phase], c \in cast,
           phase = "save" => call[c].kind = "create-user",
           \A d \in Commands : d # c => call'[d] = call[d],
           phase = "save" => call'[c] = call[c]
    PROVE  NamesInv'
<1>1. \A d \in Commands : d # c => at'[d] = at[d] /\ call'[d] = call[d]
  BY DEF Inv, Shape
<1>2. at'[c] = phase
  BY DEF Inv, Shape, Processes
<1>3. ~Making(c)'
  BY <1>2 DEF Making, CommandPhases
<1>4. \A d \in Commands : Making(d)' => Making(d) /\ call'[d] = call[d] /\ (at'[d] = "save" => at[d] = "save")
  BY <1>1, <1>3 DEF Making
<1>5. \A d \in Commands : at'[d] # "idle" => d \in cast
  BY <1>1 DEF NamesInv
<1> QED BY <1>4, <1>5, NamesFrame

LEMMA LockNames == ASSUME Inv, NamesInv, NEW c \in Commands, LockName(c) PROVE NamesInv'
<1>1. /\ at' = [at EXCEPT ![c] = "check"] /\ at[c] = "name" /\ c \in cast
      /\ UNCHANGED <<users, orgs, cast, db, call>> /\ Holders(call[c].name) = {}
  BY DEF LockName, Goes, At, In
<1>2. at'[c] = "check" /\ \A d \in Commands : d # c => at'[d] = at[d] /\ (Making(d)' <=> Making(d))
  BY <1>1 DEF Inv, Shape, Processes, Making
<1>3. \A d \in Commands : Making(d) => call[d].name # call[c].name
  BY <1>1 DEF Holders, NamesInv, Making
<1>4. \A d \in Commands : at'[d] # "idle" => d \in cast
  BY <1>1, <1>2 DEF NamesInv
<1>5. \A d, e \in Commands : (d # e /\ Making(d)' /\ Making(e)') => call'[d].name # call'[e].name
  BY <1>1, <1>2, <1>3 DEF NamesInv
<1>6. \A d \in Commands : (Making(d)' /\ at'[d] = "save") =>
          \A o \in orgs' : o.maker \in Commands => o.name # call'[d].name
  BY <1>1, <1>2 DEF NamesInv
<1>7. OneOrgPerName'
  BY <1>1 DEF NamesInv, OneOrgPerName
<1> QED BY <1>1, <1>4, <1>5, <1>6, <1>7 DEF NamesInv

LEMMA CheckNames == ASSUME Inv, NamesInv, NEW c \in Commands, CheckName(c) PROVE NamesInv'
<1>1. at[c] = "check" /\ c \in cast /\ orgs' = orgs
  BY DEF CheckName, In
<1>2. CASE Stop(c, "check")
  BY <1>1, <1>2, OtherNames DEF Stop, At, CommandPhases
<1>3. CASE ~Stop(c, "check")
  <2>1. /\ ~\E o \in orgs : o.name = call[c].name
        /\ at' = [at EXCEPT ![c] = "save"] /\ UNCHANGED <<users, cast, call>>
    BY <1>3 DEF CheckName, At
  <2>2. at'[c] = "save" /\ \A d \in Commands : d # c => at'[d] = at[d]
    BY <2>1 DEF Inv, Shape, Processes
  <2>3. \A d \in Commands : Making(d)' => Making(d)
    BY <1>1, <2>1, <2>2 DEF Making
  <2>4. \A d \in Commands : at'[d] # "idle" => d \in cast
    BY <1>1, <2>2 DEF NamesInv
  <2>5. \A d, e \in Commands : (d # e /\ Making(d)' /\ Making(e)') => call'[d].name # call'[e].name
    BY <2>1, <2>3 DEF NamesInv
  <2>6. \A d \in Commands : (Making(d)' /\ at'[d] = "save") =>
          \A o \in orgs' : o.maker \in Commands => o.name # call'[d].name
    BY <1>1, <2>1, <2>2, <2>3 DEF NamesInv
  <2>7. OneOrgPerName'
    BY <1>1 DEF NamesInv, OneOrgPerName
  <2> QED BY <2>1, <2>4, <2>5, <2>6, <2>7 DEF NamesInv
<1> QED BY <1>2, <1>3

LEMMA SaveNames == ASSUME Inv, NamesInv, NEW c \in Commands, Save(c) PROVE NamesInv'
<1>1. /\ at' = [at EXCEPT ![c] = "ended"] /\ at[c] = "save" /\ c \in cast
      /\ UNCHANGED <<cast, call>> /\ orgs' = orgs \cup Saved(c, "create-org")
  BY DEF Save, At, In
<1>2. at'[c] = "ended" /\ \A d \in Commands : d # c => at'[d] = at[d]
  BY <1>1 DEF Inv, Shape, Processes
<1>3. \A d \in Commands : Making(d)' => d # c /\ Making(d)
  BY <1>1, <1>2 DEF Making
<1>4. CASE Saved(c, "create-org") = {}
  BY <1>1, <1>2, <1>3, <1>4, NamesFrame DEF NamesInv
<1>5. CASE Saved(c, "create-org") # {}
  <2> DEFINE org == [name |-> call[c].name, by |-> db[c].acting, maker |-> c]
  <2>1. call[c].kind = "create-org" /\ Saved(c, "create-org") = db[c].draft
    BY <1>5 DEF Saved
  <2>2. CommandInv(c)
    BY DEF Inv, ProcessInv, Processes
  <2>3. Saved(c, "create-org") = {org} /\ org.name = call[c].name /\ org.maker = c
    BY <1>1, <2>1, <2>2 DEF CommandInv
  <2> HIDE DEF org
  <2>4. Making(c)
    BY <1>1, <2>1 DEF Making
  <2>5. \A o \in orgs : o.maker \in Commands => o.name # org.name
    BY <1>1, <2>3, <2>4 DEF NamesInv
  <2>6. \A d \in Commands : at'[d] # "idle" => d \in cast
    BY <1>1, <1>2 DEF NamesInv
  <2>7. \A d, e \in Commands : (d # e /\ Making(d)' /\ Making(e)') => call'[d].name # call'[e].name
    BY <1>1, <1>3 DEF NamesInv
  <2>8. \A d \in Commands : Making(d)' => call'[d].name # org.name
    BY <1>1, <1>3, <2>3, <2>4 DEF NamesInv
  <2>9. \A d \in Commands : (Making(d)' /\ at'[d] = "save") =>
          \A o \in orgs' : o.maker \in Commands => o.name # call'[d].name
    BY <1>1, <1>2, <1>3, <2>3, <2>8 DEF NamesInv
  <2>10. OneOrgPerName'
    BY <1>1, <2>3, <2>5 DEF NamesInv, OneOrgPerName
  <2> QED BY <1>1, <2>6, <2>7, <2>9, <2>10 DEF NamesInv
<1> QED BY <1>4, <1>5

LEMMA CommandNames ==
    ASSUME Inv, NamesInv, NEW c \in Commands, Run(c) \/ CommandStep(c) \/ CommandFails(c) PROVE NamesInv'
<1>1. CommandInv(c)
  BY DEF Inv, ProcessInv, Processes
<1>2. CASE Run(c)
  <2>1. \A d \in Commands : d # c => call'[d] = call[d]
    BY <1>2 DEF Run, Inv, Shape
  <2> QED BY <1>2, <2>1, OtherNames DEF Run, At, In, CommandPhases
<1>3. ASSUME NEW from \in CommandPhases, Stop(c, from), UNCHANGED orgs PROVE NamesInv'
  BY <1>3, OtherNames DEF Stop, At, In, CommandPhases
<1>4. ASSUME NEW from \in CommandPhases, NEW to \in CommandPhases \ {"check", "save"}, Goes(c, from, to), UNCHANGED orgs
      PROVE  NamesInv'
  BY <1>4, OtherNames DEF Goes, At, In, CommandPhases
<1>5. CASE CommandFails(c)
  BY <1>3, <1>5 DEF CommandFails, CommandPhases
<1>6. CASE Begin(c) \/ CountAdmins(c) \/ LookForUser(c)
  BY <1>3, <1>4, <1>6 DEF Begin, CountAdmins, LookForUser, CommandPhases
<1>7. CASE FindOperator(c)
  <2>1. CASE Stop(c, "operator")
    BY <1>3, <1>7, <2>1 DEF FindOperator, CommandPhases
  <2>2. CASE ~Stop(c, "operator")
    BY <1>7, <2>2, OtherNames DEF FindOperator, At, In, CommandPhases
  <2> QED BY <2>1, <2>2
<1>8. CASE InsertUser(c)
  <2>1. CASE Stop(c, "insert")
    BY <1>3, <1>8, <2>1 DEF InsertUser, CommandPhases
  <2>2. CASE ~Stop(c, "insert")
    BY <1>1, <1>8, <2>2, OtherNames DEF InsertUser, CommandInv, At, In, CommandPhases
  <2> QED BY <2>1, <2>2
<1> QED BY <1>2, <1>5, <1>6, <1>7, <1>8, LockNames, CheckNames, SaveNames DEF CommandStep

\* The advisory lock is held until the commit, so two commands never make two
\* organizations of one name (create_org).
THEOREM OneOrganizationPerName == Spec => []OneOrgPerName
<1>1. Init => NamesInv
  BY DEF Init, NamesInv, OneOrgPerName, Making, Processes
<1>2. Inv /\ NamesInv /\ [Next]_vars => NamesInv'
  <2> SUFFICES ASSUME Inv, NamesInv, [Next]_vars PROVE NamesInv'
    OBVIOUS
  <2>1. CASE UNCHANGED vars
    BY <2>1, NamesFrame DEF vars, NamesInv, Making
  <2>2. CASE Next
    <3>1. CASE (\E u \in users : SetDisabled(u)) \/ RotateKeys \/ KeysExpire \/ CooldownEnds
      BY <3>1, NamesFrame DEF SetDisabled, RotateKeys, KeysExpire, CooldownEnds, NamesInv, Making
    <3> QED BY <2>2, <3>1, RequestNames, CommandNames DEF Next
  <2> QED BY <2>1, <2>2
<1>3. NamesInv => OneOrgPerName
  BY DEF NamesInv
<1> QED BY <1>1, <1>2, <1>3, InitInv, NextInv, PTL DEF Spec

-----------------------------------------------------------------------------
(* Types, and the blame for an unknown key. *)

Answers == {0, 200, 401, 403, 503}

\* A good token was signed with a key that stays published.
KeysInv ==
    /\ published \subseteq Keys /\ cached \subseteq Keys
    /\ cooling \in BOOLEAN /\ configured \in BOOLEAN /\ cast \in Casts
    /\ answer \in [Processes -> Answers] /\ writes \in [Processes -> 0..MaxWrites]
    /\ \A r \in Requests : (at[r] # "idle" /\ call[r].form = "good") => call[r].kid \in published

LEMMA KeysFrame ==
    ASSUME Inv, KeysInv, published \subseteq published', published' \subseteq Keys, cached' \subseteq Keys,
           cooling' \in BOOLEAN, configured' = configured, cast' = cast,
           answer' = answer \/ \E p \in Processes, code \in Answers : answer' = [answer EXCEPT ![p] = code],
           writes' = writes \/ \E p \in Processes : writes[p] < MaxWrites /\ writes' = [writes EXCEPT ![p] = @ + 1],
           \A r \in Requests : \/ call'[r] = call[r] /\ (at'[r] # "idle" => at[r] # "idle")
                               \/ call'[r].form = "good" => call'[r].kid \in published
    PROVE  KeysInv'
<1>1. answer' \in [Processes -> Answers]
  BY DEF KeysInv
<1>2. writes' \in [Processes -> 0..MaxWrites]
  <2>1. ASSUME NEW p \in Processes, writes[p] < MaxWrites PROVE writes[p] + 1 \in 0..MaxWrites
    BY <2>1, BoundsAssumption DEF KeysInv
  <2> QED BY <2>1 DEF KeysInv
<1>3. \A r \in Requests : (at'[r] # "idle" /\ call'[r].form = "good") => call'[r].kid \in published'
  BY DEF KeysInv
<1> QED BY <1>1, <1>2, <1>3 DEF KeysInv

LEMMA RequestKeys ==
    ASSUME Inv, KeysInv, NEW r \in Requests, Arrive(r) \/ RequestStep(r) \/ RequestFails(r) \/ Collect(r) PROVE KeysInv'
<1>1. r \in Processes /\ r \notin Commands
  BY ProcessesAssumption DEF Processes
<1>2. CASE Arrive(r)
  <2>1. PICK t \in Tokens : /\ t.form \in {"foreign", "good"} => t.kid \in published
                            /\ call' = [call EXCEPT ![r] = t]
    BY <1>2 DEF Arrive
  <2>2. at' = [at EXCEPT ![r] = "token"]
    BY <1>2 DEF Arrive, At
  <2>3. \A q \in Requests : \/ call'[q] = call[q] /\ at'[q] = at[q]
                            \/ call'[q].form = "good" => call'[q].kid \in published
    BY <1>1, <2>1, <2>2 DEF Inv, Shape
  <2> QED BY <1>2, <2>3, KeysFrame DEF Arrive, cognito, KeysInv
<1>3. CASE RequestStep(r) \/ RequestFails(r) \/ Collect(r)
  <2>1. at[r] # "idle"
    BY <1>3 DEF RequestStep, ReadToken, FindKey, FetchKeys, FetchFails, UnknownKey,
                CheckClaims, Connect, Register,
                LoadPrincipal, SetActingUser, RequestFails, DatabaseFails, RegisterFails, Collect,
                CreateOrg, MayNotCreate, Rollback, CommitRoute,
                MayFetch, Answer, Goes, At, In
  <2>2. cast' = cast /\ call' = call /\ published' = published /\ configured' = configured
    BY <1>3 DEF RequestStep, ReadToken, FindKey, FetchKeys, FetchFails, UnknownKey,
                CheckClaims, Connect, Register,
                LoadPrincipal, SetActingUser, RequestFails, DatabaseFails, RegisterFails, Collect,
                CreateOrg, MayNotCreate, Rollback, CommitRoute,
                Answer, Goes, cognito
  <2>3. cached' \subseteq Keys /\ cooling' \in BOOLEAN
    BY <1>3 DEF RequestStep, ReadToken, FindKey, FetchKeys, FetchFails, UnknownKey,
                CheckClaims, Connect, Register,
                LoadPrincipal, SetActingUser, RequestFails, DatabaseFails, RegisterFails, Collect,
                CreateOrg, MayNotCreate, Rollback, CommitRoute,
                cognito, KeysInv
  <2>4. answer' = answer \/ \E code \in Answers : answer' = [answer EXCEPT ![r] = code]
    <3> DEFINE given == \E code \in Answers : answer' = [answer EXCEPT ![r] = code]
    <3>1. ASSUME NEW from, NEW code \in Answers, Answer(r, from, code) PROVE given
      BY <3>1 DEF Answer
    <3>2. ASSUME NEW from, NEW to, Goes(r, from, to) PROVE answer' = answer
      BY <3>2 DEF Goes
    <3>3. {200, 401, 403, 503} \subseteq Answers
      BY DEF Answers
    <3> SUFFICES answer' = answer \/ given
      OBVIOUS
    <3> HIDE DEF given
    <3>4. CASE ReadToken(r)
      BY <3>1, <3>2, <3>3, <3>4 DEF ReadToken
    <3>5. CASE FetchKeys(r) \/ UnknownKey(r)
      BY <3>1, <3>2, <3>3, <3>5 DEF FetchKeys, UnknownKey
    <3>9. CASE FetchFails(r)
      <4>1. Answer(r, "key", Unreachable)
        BY <3>9 DEF FetchFails
      <4>2. Unreachable \in Answers
        BY DEF Unreachable, Answers
      <4> QED BY <3>1, <4>1, <4>2
    <3>6. CASE FindKey(r) \/ CheckClaims(r) \/ LoadPrincipal(r) \/ Register(r)
      BY <3>1, <3>2, <3>3, <3>6 DEF FindKey, CheckClaims, LoadPrincipal, Register
    <3>7. CASE DatabaseFails(r) \/ MayNotCreate(r) \/ CommitRoute(r)
      BY <3>1, <3>3, <3>7 DEF DatabaseFails, MayNotCreate, CommitRoute
    <3>8. CASE Connect(r) \/ SetActingUser(r) \/ CreateOrg(r) \/ Rollback(r) \/ Collect(r)
      BY <3>8 DEF Connect, SetActingUser, CreateOrg, Rollback, Collect
    <3>10. CASE RegisterFails(r)
      BY <3>3, <3>10 DEF RegisterFails, given
    <3> QED BY <1>3, <3>4, <3>5, <3>6, <3>7, <3>8, <3>9, <3>10 DEF RequestStep, RequestFails
  <2>5. writes' = writes \/ (writes[r] < MaxWrites /\ writes' = [writes EXCEPT ![r] = @ + 1])
    BY <1>3 DEF RequestStep, ReadToken, FindKey, FetchKeys, FetchFails, UnknownKey,
                CheckClaims, Connect, Register,
                LoadPrincipal, SetActingUser, RequestFails, DatabaseFails, RegisterFails, Collect,
                CreateOrg, MayNotCreate, Rollback, CommitRoute,
                Answer, Goes
  <2>6. \A q \in Requests : call'[q] = call[q] /\ (at'[q] # "idle" => at[q] # "idle")
    <3>1. \E phase \in RequestPhases : at' = [at EXCEPT ![r] = phase]
      BY <1>3 DEF RequestStep, ReadToken, FindKey, FetchKeys, FetchFails, UnknownKey,
                  CheckClaims, Connect, Register,
                  LoadPrincipal, SetActingUser, RequestFails, DatabaseFails, RegisterFails, Collect,
                  CreateOrg, MayNotCreate, Rollback, CommitRoute,
                  Answer, Goes, At, RequestPhases
    <3> QED BY <2>1, <2>2, <3>1 DEF Inv, Shape
  <2> QED BY <1>1, <2>2, <2>3, <2>4, <2>5, <2>6, KeysFrame DEF KeysInv
<1> QED BY <1>2, <1>3

LEMMA CommandKeys ==
    ASSUME Inv, KeysInv, NEW c \in Commands, Run(c) \/ CommandStep(c) \/ CommandFails(c) PROVE KeysInv'
<1>1. UNCHANGED <<cognito, cast, answer, writes>>
  BY DEF Run, CommandStep, Begin, CountAdmins, FindOperator, LookForUser, InsertUser, LockName, CheckName,
         CommandFails, Save, Stop, Goes
<1>2. \A r \in Requests : call'[r] = call[r] /\ at'[r] = at[r]
  <2>1. \E phase \in CommandPhases : at' = [at EXCEPT ![c] = phase]
    BY DEF Run, CommandStep, Begin, CountAdmins, FindOperator, LookForUser, InsertUser, LockName, CheckName,
           CommandFails, Save, Stop, Goes, At, CommandPhases
  <2>2. call' = call \/ \E command \in Calls : call' = [call EXCEPT ![c] = command]
    BY DEF Run, CommandStep, Begin, CountAdmins, FindOperator, LookForUser, InsertUser, LockName, CheckName,
           CommandFails, Save, Stop, Goes
  <2> QED BY <2>1, <2>2, ProcessesAssumption DEF Inv, Shape, Processes
<1> QED BY <1>1, <1>2, KeysFrame DEF cognito, KeysInv

LEMMA InitKeys == Init => KeysInv
<1> SUFFICES ASSUME Init PROVE KeysInv
  OBVIOUS
<1>1. published \subseteq Keys /\ cached \subseteq Keys
  BY DEF Init
<1>2. cooling \in BOOLEAN /\ configured \in BOOLEAN /\ cast \in Casts
  BY DEF Init
<1>3. 0 \in 0..MaxWrites /\ 0 \in Answers
  BY BoundsAssumption DEF Answers
<1>4. answer \in [Processes -> Answers] /\ writes \in [Processes -> 0..MaxWrites]
  BY <1>3 DEF Init
<1>5. \A r \in Requests : at[r] = "idle"
  BY DEF Init, Processes
<1> QED BY <1>1, <1>2, <1>4, <1>5 DEF KeysInv

LEMMA NextKeys == Inv /\ KeysInv /\ [Next]_vars => KeysInv'
<1> SUFFICES ASSUME Inv, KeysInv, [Next]_vars PROVE KeysInv'
  OBVIOUS
<1>1. CASE UNCHANGED vars
  BY <1>1, KeysFrame DEF vars, cognito, KeysInv
<1>2. CASE \E u \in users : SetDisabled(u)
  BY <1>2, KeysFrame DEF SetDisabled, cognito, KeysInv
<1>3. CASE RotateKeys \/ KeysExpire \/ CooldownEnds
  BY <1>3, KeysFrame DEF RotateKeys, KeysExpire, CooldownEnds, KeysInv
<1> QED BY <1>1, <1>2, <1>3, RequestKeys, CommandKeys DEF Next

\* Every table, session and answer keeps its type.
THEOREM TypeCorrect == Spec => []TypeOK
<1>1. Inv /\ KeysInv => TypeOK
  <2> SUFFICES ASSUME Inv, KeysInv PROVE TypeOK
    OBVIOUS
  <2>1. Shape
    BY DEF Inv
  <2>2. ASSUME NEW r \in Requests PROVE (at[r] # "idle" => call[r] \in Token) /\ db[r].draft \subseteq Org
    BY DEF Inv, ProcessInv, RequestInv, Processes
  <2>3. ASSUME NEW c \in Commands, at[c] # "idle"
        PROVE  /\ call[c] \in Call
               /\ db[c].draft \subseteq (IF call[c].kind = "create-user" THEN User ELSE Org)
    <3>1. CommandInv(c) /\ call[c] \in Call /\ db[c] \in Session
      BY <2>3 DEF Inv, ProcessInv, CommandInv, Shape, Processes
    <3>2. CASE at[c] # "save"
      BY <3>1, <3>2 DEF CommandInv
    <3>3. CASE at[c] = "save" /\ call[c].kind = "create-user"
      <4> DEFINE user == [sub |-> call[c].sub, email |-> call[c].email, admin |-> call[c].admin,
                          disabled |-> FALSE, by |-> db[c].acting]
      <4>1. db[c].draft = {user}
        BY <3>1, <3>3 DEF CommandInv
      <4>2. user \in User
        BY <3>1 DEF Call, User, Session
      <4> HIDE DEF user
      <4> QED BY <3>1, <3>3, <4>1, <4>2
    <3>4. CASE at[c] = "save" /\ call[c].kind = "create-org"
      <4> DEFINE org == [name |-> call[c].name, by |-> db[c].acting, maker |-> c]
      <4>1. db[c].draft = {org} /\ db[c].acting # None
        BY <3>1, <3>4 DEF CommandInv
      <4>2. org \in Org
        BY <3>1, <4>1 DEF Call, Org, Session, Processes
      <4> HIDE DEF org
      <4> QED BY <3>1, <3>4, <4>1, <4>2
    <3> QED BY <3>1, <3>2, <3>3, <3>4 DEF Call
  <2>4. ASSUME NEW p \in Processes
        PROVE  /\ caller[p] \in Subs \cup {None} /\ db[p].acting \in Subs \cup {None}
               /\ db[p].kept \in Subs \cup {None}
               /\ answer[p] \in {0, 200, 401, 403, 503} /\ writes[p] \in 0..MaxWrites
    <3>1. db[p] \in Session
      BY <2>1 DEF Shape
    <3> QED BY <2>1, <3>1 DEF Shape, Session, KeysInv, Answers
  <2> QED BY <2>1, <2>2, <2>3, <2>4 DEF TypeOK, Shape, KeysInv
<1> QED BY <1>1, InitInv, NextInv, InitKeys, NextKeys, PTL DEF Spec

\* A good token is refused as a bad one only while the key set must not be
\* fetched again; an outage is never taken for a bad token (verified_claims).
THEOREM OutageBlamesNobody == Spec => BlamedOnlyInCooldown
<1> DEFINE blamed == \A r \in Requests :
              at'[r] = "ended" /\ at[r] # "ended" /\ answer'[r] = 401 /\ call[r].form = "good"
                  => cooling /\ cached # {} /\ call[r].kid \in published \ cached
<1>1. ASSUME Inv, KeysInv, Next, NEW r \in Requests,
             at'[r] = "ended", at[r] # "ended", answer'[r] = 401, call[r].form = "good"
      PROVE  cooling /\ cached # {} /\ call[r].kid \in published \ cached
  <2>1. \A p \in Processes : (\E phase : at' = [at EXCEPT ![p] = phase]) => p = r
    BY <1>1 DEF Inv, Shape, Processes
  <2>2. Arrive(r) \/ RequestStep(r) \/ RequestFails(r) \/ Collect(r)
    <3>1. ASSUME NEW q \in Requests, Arrive(q) \/ RequestStep(q) \/ RequestFails(q) \/ Collect(q) PROVE q = r
      <4>1. \E phase : at' = [at EXCEPT ![q] = phase]
        BY <3>1 DEF Arrive, RequestStep, ReadToken, FindKey, FetchKeys, FetchFails, UnknownKey,
                    CheckClaims, Connect, Register,
                    LoadPrincipal, SetActingUser, RequestFails, DatabaseFails, RegisterFails, Collect,
                    CreateOrg, MayNotCreate, Rollback, CommitRoute,
                    Answer, Goes, At
      <4> QED BY <2>1, <4>1 DEF Processes
    <3>2. ASSUME NEW c \in Commands, Run(c) \/ CommandStep(c) \/ CommandFails(c) PROVE FALSE
      <4>1. \E phase : at' = [at EXCEPT ![c] = phase]
        BY <3>2 DEF Run, CommandStep, Begin, CountAdmins, FindOperator, LookForUser, InsertUser, LockName, CheckName,
                    CommandFails, Save, Stop, Goes, At
      <4> QED BY <2>1, <4>1, ProcessesAssumption DEF Processes
    <3>3. CASE (\E u \in users : SetDisabled(u)) \/ RotateKeys \/ KeysExpire \/ CooldownEnds
      BY <1>1, <3>3 DEF SetDisabled, RotateKeys, KeysExpire, CooldownEnds
    <3> QED BY <1>1, <3>1, <3>2, <3>3 DEF Next
  <2>3. ASSUME NEW from, NEW to, to # "ended", At(r, from, to) PROVE FALSE
    BY <1>1, <2>3 DEF At, Inv, Shape, Processes
  <2>4. ASSUME NEW from, NEW code, Answer(r, from, code) PROVE code = 401 /\ at[r] = from
    BY <1>1, <2>4 DEF Answer, At, In, KeysInv, Processes
  <2>5. at[r] # "idle" => call[r].kid \in published
    BY <1>1 DEF KeysInv
  <2>6. ~ReadToken(r)
    BY <1>1, <2>3, <2>4 DEF ReadToken, Goes
  <2>7. ~FetchKeys(r) /\ ~FetchFails(r) /\ ~FindKey(r)
    <3>1. ~FetchKeys(r)
      BY <2>3, <2>5 DEF FetchKeys, MayFetch, In, Goes
    <3>2. ASSUME FetchFails(r) PROVE FALSE
      <4>1. Answer(r, "key", Unreachable)
        BY <3>2 DEF FetchFails
      <4>2. Unreachable = 401
        BY <2>4, <4>1
      <4> QED BY <4>2 DEF Unreachable
    <3>3. ~FindKey(r)
      BY <2>3 DEF FindKey, Goes
    <3> QED BY <3>1, <3>2, <3>3
  <2>8. ~CheckClaims(r)
    BY <1>1, <2>3 DEF CheckClaims, Accepts, Goes
  <2>9. ~Arrive(r) /\ ~Connect(r) /\ ~Register(r) /\ ~SetActingUser(r) /\ ~CreateOrg(r) /\ ~Rollback(r)
    BY <2>3 DEF Arrive, Connect, Register, SetActingUser, CreateOrg, Rollback, Goes
  <2>13. ~RegisterFails(r) /\ ~Collect(r)
    BY <1>1 DEF RegisterFails, Collect, At, In, KeysInv, Processes
  <2>10. ~LoadPrincipal(r)
    BY <2>3, <2>4 DEF LoadPrincipal
  <2>11. ~DatabaseFails(r) /\ ~MayNotCreate(r) /\ ~CommitRoute(r)
    BY <2>4 DEF DatabaseFails, MayNotCreate, CommitRoute
  <2>12. UnknownKey(r)
    BY <2>2, <2>6, <2>7, <2>8, <2>9, <2>10, <2>11, <2>13 DEF RequestStep, RequestFails
  <2> QED BY <1>1, <2>5, <2>12 DEF UnknownKey, Known, MayFetch, In, KeysInv
<1>2. Inv /\ KeysInv /\ [Next]_vars => [blamed]_vars
  BY <1>1
<1> QED BY <1>2, InitInv, NextInv, InitKeys, NextKeys, PTL DEF Spec, BlamedOnlyInCooldown

\* A route acts for the person its token names, who had an active account since
\* the request arrived (principal.py:15-18, context.py:11-14).
THEOREM RoutesActForActiveCallers == Spec => []OnlyActiveCallers
<1> QED BY DisabledAreOut, ActsForItsCaller, PTL DEF OnlyActiveCallers

\* No platform admin and no organization comes from nowhere (cli.py:25-29, 0005:249-260).
THEOREM EverythingMadeByOperators == Spec => MadeByOperators
<1> QED BY AdminsAreVouchedFor, OrganizationsByAdmins, PTL DEF MadeByOperators

=============================================================================
