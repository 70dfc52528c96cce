-------------------------- MODULE MigrationsProofs --------------------------
(***************************************************************************)
(* Theorems of module Migrations.  InOrder needs the assumption its        *)
(* comment states: builds only ever add later numbers.                     *)
(***************************************************************************)
EXTENDS Migrations, TLAPS

Recorded == {v \in Versions : recorded[v] # None}

\* What a run has read stays true for as long as it may write.
ReadingHolds ==
    \A r \in Runners :
        /\ runners[r].phase \in {"waiting", "locked", "prepared", "applying"} => Loads(runners[r].build)
        /\ runners[r].phase = "applying" =>
              Unchanged(runners[r].build) /\ runners[r].todo = Pending(runners[r].build)
        /\ runners[r].phase # "applying" => runners[r].todo = {}

\* The versions are those of a build up to some number.
Initial(versions, b) == \A v \in versions, w \in DOMAIN b : Number[w] < Number[v] => w \in versions

\* No build has a file numbered before one that another build, which it
\* otherwise agrees with so far, ends in.
Linear ==
    \A b, c \in Builds : \A versions \in SUBSET (DOMAIN b \cap DOMAIN c) :
        Initial(versions, b) => Initial(versions, c)

Grown == Recorded = {} \/ \E b \in Builds : Recorded \subseteq DOMAIN b /\ Initial(Recorded, b)

MigrationInv == TypeOK /\ RecordsAreTrue /\ ReadingHolds /\ WaitsItsTurn /\ ServesOnItsSchema

Step(r) == Begin(r) \/ RunnerStep(r) \/ Lose(r)

\* One file of r is committed.
Commits(r, v) ==
    /\ runners[r].phase = "applying" /\ v \in Pending(runners[r].build)
    /\ \A w \in Pending(runners[r].build) : Number[v] <= Number[w]
    /\ schema' = Append(schema, v)
    /\ recorded' = [recorded EXCEPT ![v] = runners[r].build[v]]

\* What the steps do to the schema: nothing, or one file of the holder's.
LEMMA SchemaStep ==
    ASSUME MigrationInv, NEW r \in Runners, Step(r)
    PROVE  \/ UNCHANGED <<schema, recorded>>
           \/ Apply(r) /\ \E v \in Versions : Commits(r, v)
  <1>1. CASE Apply(r)
    <2>1. PICK v \in runners[r].todo : /\ NextFile(r, v) /\ ~Taken(v)
                                      /\ schema' = Append(schema, v)
                                      /\ recorded' = Record(v, runners[r].build[v])
      BY <1>1 DEF Apply
    <2>2. runners[r].phase = "applying" /\ runners[r].todo = Pending(runners[r].build)
      BY <2>1 DEF NextFile, MigrationInv, ReadingHolds
    <2>3. v \in Versions
      BY <2>1 DEF MigrationInv, TypeOK, Runner
    <2>4. QED
      BY <1>1, <2>1, <2>2, <2>3 DEF Commits, NextFile, Record
  <1>2. CASE ~Apply(r)
    BY <1>2 DEF Step, RunnerStep, Begin, Lock, Prepare, PrepareFails, FindPending, ApplyFails, Finish,
       ServerEndsSession, Lose
  <1>3. QED
    BY <1>1, <1>2

Past == {"locked", "prepared", "applying"}

\* Where a step takes its runner, and what becomes of the lock.
LEMMA RunnerMoves ==
    ASSUME TypeOK, NEW r \in Runners, Step(r)
    PROVE  /\ runners' \in [Runners -> Runner] /\ holder' \in Runners \cup {None}
           /\ \A q \in Runners \ {r} : runners'[q] = runners[q]
           /\ runners'[r].build = runners[r].build
           /\ runners'[r].phase \in Past => holder' = r
           /\ holder' # holder =>
                 \/ holder = None /\ holder' = r /\ runners'[r].phase = "locked"
                 \/ holder = r /\ holder' = None /\ runners'[r].phase \notin Past
           /\ holder' = r => runners'[r].phase \in Past \cup {"lost"}
           /\ runners'[r].phase \in {"waiting", "locked", "prepared", "applying"} =>
                 \/ runners[r].phase \in {"waiting", "locked", "prepared", "applying"}
                 \/ Loads(runners[r].build)
           /\ runners'[r].phase # "applying" => runners'[r].todo = {} \/ runners'[r].todo = runners[r].todo
           /\ runners'[r].phase # "applying" /\ runners[r].phase = "applying" => runners'[r].todo = {}
           /\ runners'[r].phase = "applying" =>
                 \/ runners[r].phase = "applying" /\ Apply(r)
                 \/ runners[r].phase = "applying" /\ UNCHANGED <<runners, recorded>>
                 \/ Unchanged(runners[r].build) /\ UNCHANGED recorded
                    /\ runners'[r].todo = Pending(runners[r].build)
  <1>0. /\ runners \in [Runners -> Runner] /\ runners[r] \in Runner /\ holder \in Runners \cup {None}
        /\ runners[r].phase \in Past => holder = r
        /\ holder = r => runners[r].phase \in Past \cup {"lost"}
        /\ None \notin Runners
    BY NoneAssumption DEF TypeOK, Session, Past
  <1>1. CASE Begin(r)
    <2>1. PICK p \in {"waiting", "failed"} :
              /\ runners' = [runners EXCEPT ![r].phase = p] /\ (p = "waiting" => Loads(runners[r].build))
              /\ holder' = holder /\ runners[r].phase = "idle"
      BY <1>1 DEF Begin
    <2>2. [runners[r] EXCEPT !.phase = p] \in Runner
      BY <2>1, <1>0 DEF Runner, RunnerPhases, RunnerEnds
    <2>3. QED
      BY <2>1, <2>2, <1>0 DEF Past, Runner
  <1>2. CASE Lock(r)
    <2>1. /\ runners' = [runners EXCEPT ![r].phase = "locked"] /\ holder = None /\ holder' = r
          /\ runners[r].phase = "waiting"
      BY <1>2 DEF Lock, LockFree
    <2>2. [runners[r] EXCEPT !.phase = "locked"] \in Runner
      BY <1>0 DEF Runner, RunnerPhases
    <2>3. QED
      BY <2>1, <2>2, <1>0 DEF Past, Runner
  <1>3. CASE Prepare(r)
    <2>1. /\ runners' = [runners EXCEPT ![r].phase = "prepared"] /\ holder' = holder
          /\ runners[r].phase = "locked"
      BY <1>3 DEF Prepare
    <2>2. [runners[r] EXCEPT !.phase = "prepared"] \in Runner
      BY <1>0 DEF Runner, RunnerPhases
    <2>3. QED
      BY <2>1, <2>2, <1>0 DEF Past, Runner
  <1>4. CASE \E p \in {"failed", "conflict", "done"} : Leave(r, p)
    <2>1. PICK p \in {"failed", "conflict", "done"} :
              /\ runners' = [runners EXCEPT ![r].phase = p, ![r].todo = {}]
              /\ holder' = IF holder = r THEN None ELSE holder
      BY <1>4 DEF Leave, Session
    <2>2. [runners[r] EXCEPT !.phase = p, !.todo = {}] \in Runner
      BY <1>0 DEF Runner, RunnerPhases, RunnerEnds
    <2>3. QED
      BY <2>1, <2>2, <1>0 DEF Past, Runner
  <1>5. CASE FindPending(r) /\ Unchanged(runners[r].build)
    <2>1. /\ runners' = [runners EXCEPT ![r].phase = "applying", ![r].todo = Pending(runners[r].build)]
          /\ holder' = holder /\ runners[r].phase = "prepared" /\ recorded' = recorded
      BY <1>5 DEF FindPending
    <2>2. Pending(runners[r].build) \subseteq Versions
      BY <1>0, BuildsAssumption DEF Pending, Runner
    <2>3. [runners[r] EXCEPT !.phase = "applying", !.todo = Pending(runners[r].build)] \in Runner
      BY <2>2, <1>0 DEF Runner, RunnerPhases
    <2>4. QED
      BY <2>1, <2>3, <1>5, <1>0 DEF Past, Runner
  <1>6. CASE Apply(r)
    <2>1. PICK v : /\ runners' = [runners EXCEPT ![r].todo = runners[r].todo \ {v}] /\ holder' = holder
                   /\ runners[r].phase = "applying"
      BY <1>6 DEF Apply, NextFile
    <2>2. [runners[r] EXCEPT !.todo = runners[r].todo \ {v}] \in Runner
      BY <1>0 DEF Runner
    <2>3. QED
      BY <2>1, <2>2, <1>6, <1>0 DEF Past, Runner
  <1>7. CASE Lose(r)
    <2>1. runners' = [runners EXCEPT ![r].phase = "lost", ![r].todo = {}] /\ holder' = holder
      BY <1>7 DEF Lose
    <2>2. [runners[r] EXCEPT !.phase = "lost", !.todo = {}] \in Runner
      BY <1>0 DEF Runner, RunnerPhases, RunnerEnds
    <2>3. QED
      BY <2>1, <2>2, <1>0 DEF Past, Runner
  <1>8. CASE ServerEndsSession(r)
    <2>1. runners' = runners /\ holder = r /\ holder' = None /\ runners[r].phase = "lost"
      BY <1>8 DEF ServerEndsSession, Session
    <2>2. QED
      BY <2>1, <1>0 DEF Past
  <1>9. PrepareFails(r) \/ Finish(r) \/ ApplyFails(r) \/ (FindPending(r) /\ ~Unchanged(runners[r].build))
        => \E p \in {"failed", "conflict", "done"} : Leave(r, p)
    BY DEF PrepareFails, Finish, ApplyFails, AfterFailure, FindPending
  <1>10. QED
    BY <1>1, <1>2, <1>3, <1>4, <1>5, <1>6, <1>7, <1>8, <1>9 DEF Step, RunnerStep

LEMMA TypeStep ==
    ASSUME MigrationInv, NEW r \in Runners, Step(r)
    PROVE  TypeOK'
  <1>0. TypeOK
    BY DEF MigrationInv
  <1>1. schema' \in Seq(Versions) /\ recorded' \in [Versions -> Checksums \cup {None}]
    <2>1. CASE UNCHANGED <<schema, recorded>>
      BY <2>1, <1>0 DEF TypeOK
    <2>2. CASE \E v \in Versions : Commits(r, v)
      <3>1. PICK v \in Versions : Commits(r, v)
        BY <2>2
      <3>2. runners[r].build[v] \in Checksums
        BY <3>1, <1>0, BuildsAssumption DEF Commits, Pending, TypeOK, Runner
      <3>3. QED
        BY <3>1, <3>2, <1>0 DEF Commits, TypeOK
    <2>3. QED
      BY <2>1, <2>2, SchemaStep
  <1>2. role' \in BOOLEAN /\ apis' = apis
    BY <1>0 DEF TypeOK, Step, RunnerStep, Begin, Lock, Prepare, PrepareFails, FindPending, Apply, ApplyFails,
       Finish, ServerEndsSession, Lose
  <1>3. \A q \in Runners : runners'[q].phase \in Past => holder' = q
    BY <1>0, RunnerMoves, NoneAssumption DEF TypeOK, Session, Past
  <1>4. holder' # None => runners'[holder'].phase \in Past \cup {"lost"}
    <2>1. CASE holder' = r
      BY <2>1, <1>0, RunnerMoves
    <2>2. CASE holder' # r /\ holder' # None
      <3>1. holder' = holder /\ holder' \in Runners \ {r}
        BY <2>2, <1>0, RunnerMoves
      <3>2. QED
        BY <3>1, <1>0, <2>2, RunnerMoves DEF TypeOK, Past
    <2>3. QED
      BY <2>1, <2>2
  <1>5. QED
    BY <1>0, <1>1, <1>2, <1>3, <1>4, RunnerMoves DEF TypeOK, Session, Past

LEMMA RecordsStep ==
    ASSUME MigrationInv, NEW r \in Runners, Step(r)
    PROVE  RecordsAreTrue'
  <1>1. CASE UNCHANGED <<schema, recorded>>
    BY <1>1 DEF MigrationInv, RecordsAreTrue
  <1>2. CASE \E v \in Versions : Commits(r, v)
    <2>1. PICK v \in Versions : Commits(r, v)
      BY <1>2
    <2>2. /\ schema \in Seq(Versions) /\ recorded \in [Versions -> Checksums \cup {None}]
          /\ runners[r].build[v] # None /\ recorded[v] = None
      BY <2>1, BuildsAssumption, NoneAssumption DEF Commits, Pending, MigrationInv, TypeOK, Runner
    <2>3. \A w \in Versions : recorded'[w] # None <=> w = v \/ recorded[w] # None
      BY <2>1, <2>2 DEF Commits
    <2>4. /\ DOMAIN schema' = 1..(Len(schema) + 1) /\ DOMAIN schema = 1..Len(schema) /\ Len(schema) \in Nat
          /\ \A i \in DOMAIN schema' : schema'[i] = IF i = Len(schema) + 1 THEN v ELSE schema[i]
      BY <2>1, <2>2 DEF Commits
    <2>5. \A i \in DOMAIN schema : schema[i] # v
      BY <2>2 DEF MigrationInv, RecordsAreTrue
    <2>6. \A w \in Versions : recorded[w] # None <=> \E i \in DOMAIN schema : schema[i] = w
      BY DEF MigrationInv, RecordsAreTrue
    <2>7. \A w \in Versions : recorded'[w] # None <=> \E i \in DOMAIN schema' : schema'[i] = w
      <3>1. TAKE w \in Versions
      <3>2. CASE w = v
        <4>1. Len(schema) + 1 \in DOMAIN schema' /\ schema'[Len(schema) + 1] = v
          BY <2>4
        <4>2. QED
          BY <2>3, <3>2, <4>1
      <3>3. CASE w # v
        BY <2>3, <2>4, <2>6, <3>3
      <3>4. QED
        BY <3>2, <3>3
    <2>8. \A i, j \in DOMAIN schema : schema[i] = schema[j] => i = j
      BY DEF MigrationInv, RecordsAreTrue
    <2>9. \A i, j \in DOMAIN schema' : schema'[i] = schema'[j] => i = j
      BY <2>4, <2>5, <2>8
    <2>10. QED
      BY <2>7, <2>9 DEF RecordsAreTrue
  <1>3. QED
    BY <1>1, <1>2, SchemaStep

LEMMA ReadingStep ==
    ASSUME MigrationInv, NEW r \in Runners, Step(r)
    PROVE  ReadingHolds'
  <1>0. TypeOK /\ ReadingHolds
    BY DEF MigrationInv
  <1>1. ASSUME NEW q \in Runners, runners'[q].phase \in {"waiting", "locked", "prepared", "applying"}
        PROVE  Loads(runners[q].build)'
    BY <1>0, <1>1, RunnerMoves DEF ReadingHolds
  <1>2. ASSUME NEW q \in Runners, runners'[q].phase = "applying"
        PROVE  (Unchanged(runners[q].build) /\ runners[q].todo = Pending(runners[q].build))'
    <2>1. CASE q # r
      <3>1. runners'[q] = runners[q] /\ holder = q
        BY <2>1, <1>0, <1>2, RunnerMoves DEF TypeOK, Session
      <3>2. runners[r].phase # "applying"
        BY <3>1, <2>1, <1>0 DEF TypeOK, Session
      <3>3. UNCHANGED <<schema, recorded>>
        BY <3>2, SchemaStep DEF Commits
      <3>4. QED
        BY <3>1, <3>3, <1>0, <1>2 DEF ReadingHolds, Unchanged, Pending
    <2>2. CASE q = r /\ Apply(r)
      <3>1. PICK v \in runners[r].todo : /\ recorded' = [recorded EXCEPT ![v] = runners[r].build[v]]
                                        /\ runners' = [runners EXCEPT ![r].todo = runners[r].todo \ {v}]
                                        /\ runners[r].phase = "applying"
        BY <2>2 DEF Apply, Record, NextFile
      <3>2. /\ runners[r].todo = Pending(runners[r].build) /\ Unchanged(runners[r].build)
            /\ runners'[r].build = runners[r].build /\ runners'[r].todo = runners[r].todo \ {v}
        BY <3>1, <1>0 DEF ReadingHolds, TypeOK, Runner
      <3>3. v \in DOMAIN runners[r].build /\ v \in Versions /\ runners[r].build[v] # None
            /\ DOMAIN runners[r].build \subseteq Versions
        BY <3>1, <3>2, <1>0, BuildsAssumption, NoneAssumption DEF Pending, TypeOK, Runner
      <3>4. \A w \in Versions : recorded'[w] = IF w = v THEN runners[r].build[v] ELSE recorded[w]
        BY <3>1, <3>3, <1>0 DEF TypeOK
      <3>5. QED
        BY <2>2, <3>2, <3>3, <3>4 DEF Unchanged, Pending
    <2>3. CASE q = r /\ ~Apply(r)
      <3>1. UNCHANGED <<schema, recorded>>
        BY <2>3, SchemaStep
      <3>2. runners'[r].build = runners[r].build
        BY <1>0, RunnerMoves
      <3>3. \/ runners[r].phase = "applying" /\ UNCHANGED runners
            \/ Unchanged(runners[r].build) /\ runners'[r].todo = Pending(runners[r].build)
        BY <2>3, <1>0, <1>2, RunnerMoves
      <3>4. QED
        BY <2>3, <3>1, <3>2, <3>3, <1>0 DEF ReadingHolds, Unchanged, Pending
    <2>4. QED
      BY <2>1, <2>2, <2>3
  <1>3. ASSUME NEW q \in Runners, runners'[q].phase # "applying"
        PROVE  runners'[q].todo = {}
    BY <1>0, <1>3, RunnerMoves DEF ReadingHolds
  <1>4. QED
    BY <1>1, <1>2, <1>3 DEF ReadingHolds

\* Nobody's file is found taken: what a run has read is what is there.
LEMMA WaitsStep ==
    ASSUME MigrationInv, NEW r \in Runners, Step(r)
    PROVE  WaitsItsTurn'
  <1>0. TypeOK /\ \A q \in Runners : runners[q].phase # "conflict"
    BY DEF MigrationInv, WaitsItsTurn
  <1>1. runners'[r].phase # "conflict"
    <2>0. runners \in [Runners -> Runner] /\ runners[r] \in Runner
      BY <1>0 DEF TypeOK
    <2>1. CASE ApplyFails(r)
      <3>1. PICK v \in runners[r].todo : NextFile(r, v) /\ AfterFailure(r, v)
        BY <2>1 DEF ApplyFails
      <3>2. ~Taken(v)
        BY <3>1 DEF NextFile, Taken, MigrationInv, ReadingHolds, Pending
      <3>3. runners' = [runners EXCEPT ![r].phase = "failed", ![r].todo = {}]
        BY <3>1, <3>2 DEF AfterFailure, Leave
      <3>4. QED
        BY <3>3, <2>0 DEF Runner
    <2>2. CASE Begin(r)
      BY <2>2, <2>0 DEF Begin, Runner
    <2>3. CASE Lock(r)
      BY <2>3, <2>0 DEF Lock, Runner
    <2>4. CASE Prepare(r)
      BY <2>4, <2>0 DEF Prepare, Runner
    <2>5. CASE PrepareFails(r)
      BY <2>5, <2>0 DEF PrepareFails, Leave, Runner
    <2>6. CASE FindPending(r)
      BY <2>6, <2>0 DEF FindPending, Leave, Runner
    <2>7. CASE Apply(r)
      <3>1. PICK v : runners' = [runners EXCEPT ![r].todo = runners[r].todo \ {v}]
        BY <2>7 DEF Apply
      <3>2. QED
        BY <3>1, <2>0, <1>0 DEF Runner
    <2>8. CASE Finish(r)
      BY <2>8, <2>0 DEF Finish, Leave, Runner
    <2>9. CASE Lose(r)
      BY <2>9, <2>0 DEF Lose, Runner
    <2>10. CASE ServerEndsSession(r)
      BY <2>10, <1>0 DEF ServerEndsSession
    <2>11. QED
      BY <2>1, <2>2, <2>3, <2>4, <2>5, <2>6, <2>7, <2>8, <2>9, <2>10 DEF Step, RunnerStep
  <1>2. QED
    BY <1>0, <1>1, RunnerMoves DEF WaitsItsTurn

LEMMA ServesStep ==
    ASSUME MigrationInv, NEW r \in Runners, Step(r)
    PROVE  ServesOnItsSchema'
  <1>1. apis' = apis
    BY DEF Step, RunnerStep, Begin, Lock, Prepare, PrepareFails, FindPending, Apply, ApplyFails, Finish,
       ServerEndsSession, Lose
  <1>2. ASSUME NEW a \in Apis, apis[a].phase = "serving", NEW v \in DOMAIN apis[a].build
        PROVE  recorded'[v] = apis[a].build[v]
    <2>1. recorded[v] = apis[a].build[v] /\ recorded[v] # None /\ v \in Versions
      BY <1>2, BuildsAssumption, NoneAssumption DEF MigrationInv, ServesOnItsSchema, TypeOK, Api
    <2>2. recorded'[v] = recorded[v]
      BY <2>1, SchemaStep DEF Commits, Pending, MigrationInv, TypeOK
    <2>3. QED
      BY <2>1, <2>2
  <1>3. QED
    BY <1>1, <1>2 DEF ServesOnItsSchema

LEMMA ApiStep ==
    ASSUME MigrationInv, NEW a \in Apis, Boot(a) \/ Stop(a)
    PROVE  MigrationInv'
  <1>0. /\ UNCHANGED <<schema, recorded, role, holder, runners>>
        /\ apis \in [Apis -> Api] /\ recorded \in [Versions -> Checksums \cup {None}]
    BY DEF Boot, Stop, MigrationInv, TypeOK
  <1>1. PICK p \in {"down", "refused", "serving"}, b \in Builds :
            /\ apis' = [apis EXCEPT ![a] = [phase |-> p, build |-> b]]
            /\ p = "serving" => Current(b)
    <2>1. CASE Boot(a)
      <3>1. apis[a] = [phase |-> apis[a].phase, build |-> apis[a].build] /\ apis[a].build \in Builds
        BY <1>0 DEF Api
      <3>2. PICK p \in {"down", "refused", "serving"} :
                apis' = [apis EXCEPT ![a].phase = p] /\ (p = "serving" => Current(apis[a].build))
        BY <2>1 DEF Boot
      <3>3. [apis[a] EXCEPT !.phase = p] = [phase |-> p, build |-> apis[a].build]
        BY <3>1
      <3>4. apis' = [apis EXCEPT ![a] = [phase |-> p, build |-> apis[a].build]]
        BY <3>2, <3>3
      <3>5. QED
        BY <3>1, <3>2, <3>4
    <2>2. CASE Stop(a)
      BY <2>2 DEF Stop
    <2>3. QED
      BY <2>1, <2>2
  <1>2. apis' \in [Apis -> Api]
    BY <1>0, <1>1 DEF Api
  <1>3. ServesOnItsSchema'
    <2>1. ASSUME NEW c \in Apis, apis'[c].phase = "serving", NEW v \in DOMAIN apis'[c].build
          PROVE  recorded[v] = apis'[c].build[v]
      <3>1. CASE c # a
        BY <2>1, <3>1, <1>0, <1>1 DEF MigrationInv, ServesOnItsSchema
      <3>2. CASE c = a
        <4>1. apis'[c].build = b /\ Current(b)
          BY <2>1, <3>2, <1>0, <1>1
        <4>2. v \in Versions /\ recorded[v] # None
          BY <2>1, <4>1, BuildsAssumption DEF Current, Pending
        <4>3. QED
          BY <4>1, <4>2 DEF Current, Unchanged
      <3>3. QED
        BY <3>1, <3>2
    <2>2. QED
      BY <2>1, <1>0 DEF ServesOnItsSchema
  <1>4. QED
    BY <1>0, <1>2, <1>3 DEF MigrationInv, TypeOK, Session, RecordsAreTrue, ReadingHolds, Unchanged, Pending, WaitsItsTurn

-----------------------------------------------------------------------------
LEMMA MigrationInit ==
    ASSUME Init
    PROVE  MigrationInv
  <1>1. \A r \in Runners : runners[r].phase = "idle" /\ runners[r].todo = {} /\ runners[r] \in Runner
    <2>1. TAKE r \in Runners
    <2>2. PICK b \in Builds : runners[r] = [phase |-> "idle", build |-> b, todo |-> {}]
      BY DEF Init
    <2>3. QED
      BY <2>2 DEF Runner, RunnerPhases
  <1>2. \A a \in Apis : apis[a].phase = "down" /\ apis[a] \in Api
    <2>1. TAKE a \in Apis
    <2>2. PICK b \in Builds : apis[a] = [phase |-> "down", build |-> b]
      BY DEF Init
    <2>3. QED
      BY <2>2 DEF Api
  <1>3. runners \in [Runners -> Runner] /\ apis \in [Apis -> Api]
    BY <1>1, <1>2 DEF Init
  <1>4. TypeOK
    <2>0. <<>> \in Seq(Versions)
      OBVIOUS
    <2>1. schema = <<>> /\ role \in BOOLEAN /\ holder = None
      BY Zenon DEF Init
    <2>2. recorded \in [Versions -> Checksums \cup {None}]
      BY DEF Init
    <2>3. QED
      BY <1>1, <1>3, <2>0, <2>1, <2>2 DEF TypeOK
  <1>5. RecordsAreTrue
    BY DEF Init, RecordsAreTrue
  <1>6. ReadingHolds /\ WaitsItsTurn /\ ServesOnItsSchema
    BY <1>1, <1>2 DEF ReadingHolds, WaitsItsTurn, ServesOnItsSchema
  <1>7. QED
    BY <1>4, <1>5, <1>6 DEF MigrationInv

LEMMA MigrationStep ==
    ASSUME MigrationInv, [Next]_vars
    PROVE  MigrationInv'
  <1>1. CASE \E r \in Runners : Step(r)
    BY <1>1, TypeStep, RecordsStep, ReadingStep, WaitsStep, ServesStep DEF MigrationInv
  <1>2. CASE \E a \in Apis : Boot(a) \/ Stop(a)
    BY <1>2, ApiStep
  <1>3. CASE UNCHANGED vars
    BY <1>3 DEF vars, MigrationInv, TypeOK, Session, RecordsAreTrue, ReadingHolds, Unchanged, Pending, WaitsItsTurn,
       ServesOnItsSchema
  <1>4. QED
    BY <1>1, <1>2, <1>3 DEF Next, Step

LEMMA MigrationInvariant == Spec => []MigrationInv
  <1>1. Init => MigrationInv
    BY MigrationInit
  <1>2. MigrationInv /\ [Next]_vars => MigrationInv'
    BY MigrationStep
  <1>3. QED
    BY <1>1, <1>2, PTL DEF Spec

-----------------------------------------------------------------------------
\* Types, and the lock is held by the one runner past it or by a dead one, for
\* any builds and any number of runs (migrate.py:154-190).
THEOREM MigrationTypeCorrect == Spec => []TypeOK
  <1>1. MigrationInv => TypeOK
    BY DEF MigrationInv
  <1>2. QED
    BY <1>1, MigrationInvariant, PTL

\* What ran and what schema_migrations says ran are the same, each once
\* (migrate.py:171-181).
THEOREM RecordsAlwaysTrue == Spec => []RecordsAreTrue
  <1>1. MigrationInv => RecordsAreTrue
    BY DEF MigrationInv
  <1>2. QED
    BY <1>1, MigrationInvariant, PTL

\* No run of `migrate up` fails on the work of another (migrate.py:44-45).
THEOREM RunsWait == Spec => []WaitsItsTurn
  <1>1. MigrationInv => WaitsItsTurn
    BY DEF MigrationInv
  <1>2. QED
    BY <1>1, MigrationInvariant, PTL

\* Whose file is committed knows what is in the database.
KnowsWhatItChanges ==
    [][\A r \in Runners : Apply(r) => Unchanged(runners[r].build)]_vars

\* A build that does not know the database changes nothing (migrate.py:104-117).
THEOREM BuildsKnow == Spec => KnowsWhatItChanges
  <1>1. MigrationInv => [\A r \in Runners : Apply(r) => Unchanged(runners[r].build)]_vars
    <2>1. ASSUME MigrationInv, NEW r \in Runners, Apply(r)
          PROVE  Unchanged(runners[r].build)
      BY <2>1 DEF Apply, NextFile, MigrationInv, ReadingHolds
    <2>2. QED
      BY <2>1
  <1>2. QED
    BY <1>1, MigrationInvariant, PTL DEF KnowsWhatItChanges

\* An API that serves has its schema under it (main.py:33-36).
THEOREM ServersHaveTheirSchema == Spec => []ServesOnItsSchema
  <1>1. MigrationInv => ServesOnItsSchema
    BY DEF MigrationInv
  <1>2. QED
    BY <1>1, MigrationInvariant, PTL

-----------------------------------------------------------------------------
(* The refinement: module Migrations implements Deployments. *)

Serving == [a \in Apis |-> IF apis[a].phase = "serving" THEN apis[a].build ELSE None]

\* What Database knows of a build and what a run or an API finds out are the same.
LEMMA KnowsAsOne ==
    ASSUME MigrationInv, NEW b \in Builds
    PROVE  /\ Database!Knows(b) <=> Loads(b) /\ Unchanged(b)
           /\ Database!Missing(b) = Pending(b)
  <1>1. DOMAIN b \subseteq Versions
    BY BuildsAssumption
  <1>2. Database!Knows(b) => Unchanged(b)
    <2>1. SUFFICES ASSUME Database!Knows(b), NEW v \in Versions, recorded[v] # None
                   PROVE  v \in DOMAIN b /\ b[v] = recorded[v]
      BY DEF Unchanged
    <2>2. recorded[v] \in {b[w] : w \in DOMAIN b \cap {v}}
      BY <2>1 DEF Database!Knows
    <2>3. QED
      BY <2>2
  <1>3. Unchanged(b) => \A v \in Versions : recorded[v] \in {None} \cup {b[w] : w \in DOMAIN b \cap {v}}
    <2>1. SUFFICES ASSUME Unchanged(b), NEW v \in Versions, recorded[v] # None
                   PROVE  recorded[v] \in {b[w] : w \in DOMAIN b \cap {v}}
      OBVIOUS
    <2>2. v \in DOMAIN b \cap {v} /\ recorded[v] = b[v]
      BY <2>1 DEF Unchanged
    <2>3. QED
      BY <2>2
  <1>4. QED
    BY <1>2, <1>3 DEF Database!Knows, Database!Missing, Loads, Pending

LEMMA CommitMigrates ==
    ASSUME MigrationInv, NEW r \in Runners, NEW v \in Versions, Commits(r, v), UNCHANGED apis
    PROVE  Database!Migrate(runners[r].build)
  <1> DEFINE b == runners[r].build
  <1>1. b \in Builds
    BY DEF MigrationInv, TypeOK, Runner
  <1>2. Loads(b) /\ Unchanged(b)
    BY DEF Commits, MigrationInv, ReadingHolds
  <1>3. v \in Pending(b) /\ \A w \in Pending(b) : Number[v] <= Number[w]
    BY DEF Commits
  <1>4. \A w \in Pending(b) \ {v} : Number[v] < Number[w]
    <2>1. SUFFICES ASSUME NEW w \in Pending(b) \ {v}
                   PROVE  Number[v] < Number[w]
      OBVIOUS
    <2>2. v \in DOMAIN b /\ w \in DOMAIN b /\ v \in Versions /\ w \in Versions
      BY <1>1, <1>3, BuildsAssumption DEF Pending
    <2>3. Number[v] # Number[w]
      BY <2>2, <1>2 DEF Loads
    <2>4. Number[v] \in Nat /\ Number[w] \in Nat
      BY <2>2, NumberAssumption
    <2>5. QED
      BY <2>3, <2>4, <1>3
  <1>5. schema' = Append(schema, v) /\ recorded' = [recorded EXCEPT ![v] = b[v]]
    BY DEF Commits
  <1>6. QED
    BY <1>1, <1>2, <1>3, <1>4, <1>5, KnowsAsOne DEF Database!Migrate

LEMMA RunnerMigrates ==
    ASSUME MigrationInv, NEW r \in Runners, Step(r)
    PROVE  [Database!Next]_(Database!vars)
  <1>1. UNCHANGED apis
    BY DEF Step, RunnerStep, Begin, Lock, Prepare, PrepareFails, FindPending, Apply, ApplyFails, Finish,
       ServerEndsSession, Lose
  <1>2. CASE UNCHANGED <<schema, recorded>>
    BY <1>1, <1>2 DEF Database!vars
  <1>3. CASE \E v \in Versions : Commits(r, v)
    <2>1. runners[r].build \in Builds
      BY DEF MigrationInv, TypeOK, Runner
    <2>2. Database!Migrate(runners[r].build)
      BY <1>1, <1>3, CommitMigrates
    <2>3. QED
      BY <2>1, <2>2 DEF Database!Next
  <1>4. QED
    BY <1>2, <1>3, SchemaStep

LEMMA ApiServes ==
    ASSUME MigrationInv, NEW a \in Apis, Boot(a) \/ Stop(a)
    PROVE  [Database!Next]_(Database!vars)
  <1>1. UNCHANGED <<schema, recorded>> /\ apis \in [Apis -> Api]
    BY DEF Boot, Stop, MigrationInv, TypeOK
  <1>2. Serving' = [Serving EXCEPT ![a] = Serving'[a]]
    BY <1>1 DEF Boot, Stop, Serving
  <1>3. Serving'[a] = IF apis'[a].phase = "serving" THEN apis'[a].build ELSE None
    BY DEF Serving
  <1>4. CASE Serving'[a] = None
    <2>1. Database!Retire(a)
      BY <1>1, <1>2, <1>4 DEF Database!Retire, Serving
    <2>2. QED
      BY <2>1 DEF Database!Next
  <1>5. CASE Serving'[a] # None
    <2>1. Boot(a) /\ apis'[a].phase = "serving"
      <3>1. ASSUME Stop(a)
            PROVE  apis'[a].phase = "down"
        BY <3>1, <1>1 DEF Stop
      <3>2. QED
        BY <1>3, <1>5, <3>1
    <2>2. apis' = [apis EXCEPT ![a].phase = "serving"]
      BY <2>1, <1>1 DEF Boot
    <2>3. apis[a].build \in Builds /\ apis'[a].build = apis[a].build
      BY <2>2, <1>1 DEF Api
    <2>4. Loads(apis[a].build) /\ Current(apis[a].build)
      BY <2>1, <1>1 DEF Boot
    <2>5. Serving[a] = None
      BY <2>1 DEF Boot, Serving
    <2>6. PICK b \in Builds : b = apis[a].build
      BY <2>3
    <2>7. Database!Serve(a, b)
      BY <1>1, <1>2, <1>3, <2>1, <2>3, <2>4, <2>5, <2>6, KnowsAsOne DEF Database!Serve, Serving, Current
    <2>8. Database!Next
      BY <2>7 DEF Database!Next
    <2>9. QED
      BY <2>8
  <1>6. QED
    BY <1>4, <1>5

\* For any builds and any number of runs and APIs, whatever fails, is killed or
\* waits (up, assert_schema_current): the schema changes, and an API begins to
\* serve, as if each looked at the records and acted in one step.
THEOREM ImplementsDeployments == Spec => ChangesAtOnce
  <1>1. Init => Database!Init
    <2>1. Init => \A a \in Apis : apis[a].phase = "down"
      BY DEF Init
    <2>2. QED
      BY <2>1 DEF Init, Database!Init
  <1>2. MigrationInv /\ [Next]_vars => [Database!Next]_(Database!vars)
    <2>1. SUFFICES ASSUME MigrationInv, [Next]_vars
                   PROVE  [Database!Next]_(Database!vars)
      OBVIOUS
    <2>2. CASE UNCHANGED vars
      BY <2>2 DEF vars, Database!vars
    <2>3. CASE \E r \in Runners : Step(r)
      BY <2>1, <2>3, RunnerMigrates
    <2>4. CASE \E a \in Apis : Boot(a) \/ Stop(a)
      BY <2>1, <2>4, ApiServes
    <2>5. QED
      BY <2>1, <2>2, <2>3, <2>4 DEF Next, Step
  <1>3. QED
    BY <1>1, <1>2, MigrationInvariant, PTL DEF Spec, ChangesAtOnce, Database!Spec

-----------------------------------------------------------------------------
\* The next file of a build that knows the database comes after all that ran.
LEMMA NextIsLater ==
    ASSUME Linear, Grown, MigrationInv, NEW r \in Runners, NEW v \in Versions, Commits(r, v)
    PROVE  /\ \A w \in Recorded : Number[w] < Number[v]
           /\ Recorded \cup {v} \subseteq DOMAIN runners[r].build
           /\ Initial(Recorded \cup {v}, runners[r].build)
  <1> DEFINE b == runners[r].build
  <1>0. b \in Builds /\ Unchanged(b) /\ Loads(b) /\ DOMAIN b \subseteq Versions
    BY BuildsAssumption DEF Commits, MigrationInv, ReadingHolds, TypeOK, Runner
  <1>1. v \in DOMAIN b \ Recorded /\ \A w \in DOMAIN b \ Recorded : Number[v] <= Number[w]
    BY <1>0 DEF Commits, Pending, Recorded
  <1>2. Recorded \subseteq DOMAIN b
    BY <1>0 DEF Unchanged, Recorded
  <1>3. Initial(Recorded, b)
    <2>1. CASE Recorded = {}
      BY <2>1 DEF Initial
    <2>2. CASE Recorded # {}
      <3>1. PICK c \in Builds : Recorded \subseteq DOMAIN c /\ Initial(Recorded, c)
        BY <2>2 DEF Grown
      <3>2. Recorded \in SUBSET (DOMAIN c \cap DOMAIN b)
        BY <3>1, <1>2
      <3>3. QED
        BY <3>1, <3>2, <1>0 DEF Linear
    <2>3. QED
      BY <2>1, <2>2
  <1> HIDE DEF b
  <1>4. \A w \in DOMAIN b : Number[w] \in Nat
    BY <1>0, NumberAssumption
  <1>5. ASSUME NEW w \in Recorded
        PROVE  Number[w] < Number[v]
    <2>1. w \in DOMAIN b /\ w # v
      BY <1>1, <1>2
    <2>2. Number[w] # Number[v]
      BY <2>1, <1>0, <1>1 DEF Loads
    <2>3. ~(Number[v] < Number[w])
      BY <1>1, <1>3 DEF Initial
    <2>4. QED
      BY <2>1, <2>2, <2>3, <1>1, <1>4
  <1>6. Initial(Recorded \cup {v}, b)
    <2>1. SUFFICES ASSUME NEW x \in Recorded \cup {v}, NEW w \in DOMAIN b, Number[w] < Number[x]
                   PROVE  w \in Recorded \cup {v}
      BY DEF Initial
    <2>2. CASE x \in Recorded
      BY <2>1, <2>2, <1>3 DEF Initial
    <2>3. CASE x = v
      BY <2>1, <2>3, <1>1, <1>4
    <2>4. QED
      BY <2>2, <2>3
  <1>7. QED
    BY <1>1, <1>2, <1>5, <1>6 DEF b

LEMMA OrderStep ==
    ASSUME Linear, Grown, InOrder, MigrationInv, [Next]_vars
    PROVE  (Grown /\ InOrder)'
  <1>1. CASE UNCHANGED <<schema, recorded>>
    BY <1>1 DEF Grown, InOrder, Recorded
  <1>2. CASE \E r \in Runners, v \in Versions : Commits(r, v)
    <2>1. PICK r \in Runners, v \in Versions : Commits(r, v)
      BY <1>2
    <2>2. /\ schema \in Seq(Versions) /\ recorded \in [Versions -> Checksums \cup {None}]
          /\ runners[r].build[v] # None /\ runners[r].build \in Builds
      BY <2>1, BuildsAssumption, NoneAssumption DEF Commits, Pending, MigrationInv, TypeOK, Runner
    <2>3. Recorded' = Recorded \cup {v}
      BY <2>1, <2>2 DEF Commits, Recorded
    <2>4. Grown'
      BY <2>1, <2>2, <2>3, NextIsLater DEF Grown, Initial
    <2>5. \A i \in DOMAIN schema : Number[schema[i]] < Number[v]
      <3>1. \A i \in DOMAIN schema : schema[i] \in Recorded
        BY <2>2 DEF Recorded, MigrationInv, RecordsAreTrue
      <3>2. QED
        BY <3>1, <2>1, NextIsLater
    <2>6. /\ DOMAIN schema' = 1..(Len(schema) + 1) /\ DOMAIN schema = 1..Len(schema) /\ Len(schema) \in Nat
          /\ \A i \in DOMAIN schema' : schema'[i] = IF i = Len(schema) + 1 THEN v ELSE schema[i]
      BY <2>1, <2>2 DEF Commits
    <2>7. ASSUME NEW i \in DOMAIN schema', NEW j \in DOMAIN schema', i < j
          PROVE  Number[schema'[i]] < Number[schema'[j]]
      <3>1. i \in DOMAIN schema /\ schema'[i] = schema[i]
        BY <2>6, <2>7
      <3>2. CASE j = Len(schema) + 1
        BY <3>1, <3>2, <2>5, <2>6
      <3>3. CASE j # Len(schema) + 1
        BY <3>1, <3>3, <2>6, <2>7 DEF InOrder
      <3>4. QED
        BY <3>2, <3>3
    <2>8. QED
      BY <2>4, <2>7 DEF InOrder
  <1>3. UNCHANGED <<schema, recorded>> \/ \E r \in Runners, v \in Versions : Commits(r, v)
    <2>1. CASE \E r \in Runners : Step(r)
      BY <2>1, SchemaStep
    <2>2. CASE \E a \in Apis : Boot(a) \/ Stop(a)
      BY <2>2 DEF Boot, Stop
    <2>3. CASE UNCHANGED vars
      BY <2>3 DEF vars
    <2>4. QED
      BY <2>1, <2>2, <2>3 DEF Next, Step
  <1>4. QED
    BY <1>1, <1>2, <1>3

\* "applied in order" (migrate.py:3-4), whatever fails or is killed, as long as
\* builds only ever add later numbers.
THEOREM AppliedInOrder ==
    ASSUME Linear
    PROVE  Spec => []InOrder
  <1>1. Init => Grown /\ InOrder
    <2>1. DOMAIN <<>> = {}
      OBVIOUS
    <2>2. Init => schema = <<>> /\ Recorded = {}
      BY DEF Init, Recorded
    <2>3. QED
      BY <2>1, <2>2 DEF Grown, InOrder
  <1>2. MigrationInv /\ Grown /\ InOrder /\ [Next]_vars => (Grown /\ InOrder)'
    BY OrderStep
  <1>3. QED
    BY <1>1, <1>2, MigrationInvariant, PTL DEF Spec
=============================================================================
