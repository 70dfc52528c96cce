----------------------------- MODULE Migrations -----------------------------
(***************************************************************************)
(* Changing the schema of one database: `migrate up` by several operators  *)
(* with several builds, and APIs that check the schema when they boot.     *)
(*                                                                         *)
(* A build is the migration files it ships.  A runner's step ends at the   *)
(* advisory lock or at a commit; the database tears nothing.               *)
(***************************************************************************)
EXTENDS Naturals, Sequences

CONSTANTS
    Versions,   \* NNNN_name stems
    Number,     \* Number[v]: the number in it
    Checksums,
    Builds,     \* functions from some of the versions to checksums
    Runners,    \* bound: runs of `migrate up`
    Apis,       \* API processes
    None

ASSUME NumberAssumption == Number \in [Versions -> Nat]
ASSUME BuildsAssumption == \A b \in Builds : DOMAIN b \subseteq Versions /\ \A v \in DOMAIN b : b[v] \in Checksums
ASSUME NoneAssumption == None \notin Checksums \cup Runners

VARIABLES
    schema,     \* the migrations whose statements are committed, in that order
    recorded,   \* schema_migrations: recorded[v] is a checksum or None
    role,       \* app_runtime exists
    holder,     \* the session with the advisory lock, or None
    runners,    \* runners[r]: where it is, its build, and the versions still to apply
    apis        \* apis[a]: phase and build

vars == <<schema, recorded, role, holder, runners, apis>>

\* Ends: done, failed (an exception, exit 1), conflict (it met another runner's work), lost (killed).
RunnerEnds == {"done", "failed", "conflict", "lost"}

RunnerPhases == {"idle", "waiting", "locked", "prepared", "applying"} \cup RunnerEnds

Runner == [phase: RunnerPhases, build: Builds, todo: SUBSET Versions]

Api == [phase: {"down", "refused", "serving"}, build: Builds]

Init ==
    /\ schema = <<>>
    /\ recorded = [v \in Versions |-> None]
    /\ role = FALSE
    /\ holder = None
    /\ runners \in [Runners -> {[phase |-> "idle", build |-> b, todo |-> {}] : b \in Builds}]
    /\ apis \in [Apis -> {[phase |-> "down", build |-> b] : b \in Builds}]

-----------------------------------------------------------------------------
(* Reading files and records. *)

Loads(b) == \A v, w \in DOMAIN b : Number[v] = Number[w] => v = w

Unchanged(b) == \A v \in Versions : recorded[v] # None => v \in DOMAIN b /\ b[v] = recorded[v]

Pending(b) == {v \in DOMAIN b : recorded[v] = None}

-----------------------------------------------------------------------------
(* migrate up. *)

Session(r) == holder = r

\* mutant: only the normal path unlocks
Leave_KeepsLock(r, phase) ==
    /\ runners' = [runners EXCEPT ![r].phase = phase, ![r].todo = {}]
    /\ holder' = IF Session(r) /\ phase = "done" THEN None ELSE holder

\* The exception path and the normal one both end in the unlock and the close.
Leave(r, phase) ==
    /\ runners' = [runners EXCEPT ![r].phase = phase, ![r].todo = {}]
    /\ holder' = IF Session(r) THEN None ELSE holder

Begin(r) ==
    /\ runners[r].phase = "idle"
    /\ runners' = [runners EXCEPT ![r].phase = IF Loads(runners[r].build) THEN "waiting" ELSE "failed"]
    /\ UNCHANGED <<schema, recorded, role, holder, apis>>

\* mutant: no lock
LockFree_Always == TRUE

LockFree == holder = None

Lock(r) ==
    /\ runners[r].phase = "waiting" /\ LockFree
    /\ holder' = r
    /\ runners' = [runners EXCEPT ![r].phase = "locked"]
    /\ UNCHANGED <<schema, recorded, role, apis>>

\* The table of records and the role, each if it is missing.
Prepare(r) ==
    /\ runners[r].phase = "locked"
    /\ role' = TRUE
    /\ runners' = [runners EXCEPT ![r].phase = "prepared"]
    /\ UNCHANGED <<schema, recorded, holder, apis>>

PrepareFails(r) ==
    /\ runners[r].phase \in {"locked", "prepared"}
    /\ Leave(r, "failed")
    /\ UNCHANGED <<schema, recorded, role, apis>>

FindPending(r) ==
    LET b == runners[r].build
    IN  /\ runners[r].phase = "prepared"
        /\ IF Unchanged(b)
           THEN runners' = [runners EXCEPT ![r].phase = "applying", ![r].todo = Pending(b)]
                /\ UNCHANGED holder
           ELSE Leave(r, "failed")
        /\ UNCHANGED <<schema, recorded, role, apis>>

\* mutant: the record is left to a statement after the commit
Record_Later(v, checksum) == recorded

Record(v, checksum) == [recorded EXCEPT ![v] = checksum]

\* The files run in the order of their numbers.
NextFile(r, v) ==
    /\ runners[r].phase = "applying"
    /\ v \in runners[r].todo
    /\ \A w \in runners[r].todo : Number[v] <= Number[w]

\* Another's work is in the way: the statements, or the primary key, would fail.
Taken(v) == recorded[v] # None

Apply(r) == \E v \in runners[r].todo :
    /\ NextFile(r, v) /\ ~Taken(v)
    /\ schema' = Append(schema, v)
    /\ recorded' = Record(v, runners[r].build[v])
    /\ runners' = [runners EXCEPT ![r].todo = @ \ {v}]
    /\ UNCHANGED <<role, holder, apis>>

\* mutant: a failed migration is skipped
AfterFailure_Skips(r, v) ==
    runners' = [runners EXCEPT ![r].todo = @ \ {v}] /\ UNCHANGED holder

AfterFailure(r, v) == Leave(r, IF Taken(v) THEN "conflict" ELSE "failed")

\* The statements fail, or do not get their table locks within five seconds.
ApplyFails(r) == \E v \in runners[r].todo :
    /\ NextFile(r, v)
    /\ AfterFailure(r, v)
    /\ UNCHANGED <<schema, recorded, role, apis>>

Finish(r) ==
    /\ runners[r].phase = "applying" /\ runners[r].todo = {}
    /\ Leave(r, "done")
    /\ UNCHANGED <<schema, recorded, role, apis>>

\* Killed or cut off, before a commit or after it; the server ends the session,
\* and with it the lock, only when it notices.
Lose(r) ==
    /\ runners[r].phase \notin RunnerEnds \cup {"idle"}
    /\ runners' = [runners EXCEPT ![r].phase = "lost", ![r].todo = {}]
    /\ UNCHANGED <<schema, recorded, role, holder, apis>>

ServerEndsSession(r) ==
    /\ runners[r].phase = "lost" /\ Session(r)
    /\ holder' = None
    /\ UNCHANGED <<schema, recorded, role, runners, apis>>

RunnerStep(r) ==
    \/ Lock(r) \/ Prepare(r) \/ PrepareFails(r) \/ FindPending(r) \/ Apply(r) \/ ApplyFails(r)
    \/ Finish(r) \/ ServerEndsSession(r)

-----------------------------------------------------------------------------
(* The API. *)

\* mutant: the API asks only that nothing it knows was edited
Current_Unchanged(b) == Unchanged(b)

Current(b) == Unchanged(b) /\ Pending(b) = {}

Boot(a) ==
    /\ apis[a].phase # "serving"
    /\ apis' = [apis EXCEPT ![a].phase =
                   IF Loads(apis[a].build) /\ Current(apis[a].build) THEN "serving" ELSE "refused"]
    /\ UNCHANGED <<schema, recorded, role, holder, runners>>

\* Stopped, or replaced by a deployment of any build.
Stop(a) ==
    /\ apis[a].phase # "down"
    /\ \E b \in Builds : apis' = [apis EXCEPT ![a] = [phase |-> "down", build |-> b]]
    /\ UNCHANGED <<schema, recorded, role, holder, runners>>

Next ==
    \/ \E r \in Runners : Begin(r) \/ RunnerStep(r) \/ Lose(r)
    \/ \E a \in Apis : Boot(a) \/ Stop(a)

\* A runner that lives goes on, PostgreSQL grants a free lock to one who waits
\* for it, and notices in time that a session is gone.
Fairness == \A r \in Runners : WF_vars(RunnerStep(r))

Spec == Init /\ [][Next]_vars /\ Fairness

-----------------------------------------------------------------------------
(* Properties. *)

\* The lock's holder is the one runner past the lock, or one the server has not missed yet.
TypeOK ==
    /\ schema \in Seq(Versions)
    /\ recorded \in [Versions -> Checksums \cup {None}]
    /\ role \in BOOLEAN
    /\ holder \in Runners \cup {None}
    /\ runners \in [Runners -> Runner]
    /\ \A r \in Runners : runners[r].phase \in {"locked", "prepared", "applying"} => Session(r)
    /\ holder # None => runners[holder].phase \in {"locked", "prepared", "applying", "lost"}
    /\ apis \in [Apis -> Api]

\* The statements that ran and the records of them are the same, each once,
\* whatever is killed or cut off in between (migrate.py:171-181).
RecordsAreTrue ==
    /\ \A v \in Versions : recorded[v] # None <=> \E i \in DOMAIN schema : schema[i] = v
    /\ \A i, j \in DOMAIN schema : schema[i] = schema[j] => i = j

\* "applied in order" (migrate.py:3-4), for builds that only ever add later numbers.
InOrder == \A i, j \in DOMAIN schema : i < j => Number[schema[i]] < Number[schema[j]]

\* "a second concurrent `up` waits its turn" (migrate.py:44-45, 158-160): no run
\* fails on the work of another.
WaitsItsTurn == \A r \in Runners : runners[r].phase # "conflict"

\* An API that serves has under it every migration of its build, as its build
\* has it, for as long as it serves (main.py:33-36).
ServesOnItsSchema ==
    \A a \in Apis : apis[a].phase = "serving" =>
        \A v \in DOMAIN apis[a].build : recorded[v] = apis[a].build[v]

\* The lock, the commits and the failures of many runs of `migrate up` amount to
\* one look and one act at a time: no build changes, or serves on, a database that it
\* does not know, although it looked before it acted (migrate.py:104-117).
Database == INSTANCE Deployments WITH
    serving <- [a \in Apis |-> IF apis[a].phase = "serving" THEN apis[a].build ELSE None]

ChangesAtOnce == Database!Spec

\* A run that began ends, also when the one before it was killed with the lock.
EveryRunEnds == \A r \in Runners : runners[r].phase = "waiting" ~> runners[r].phase \in RunnerEnds
=============================================================================
