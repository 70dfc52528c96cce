---------------------------- MODULE Deployments ----------------------------
(***************************************************************************)
(* What `migrate up` and the API's check at its start promise of a         *)
(* database, however many of them run at a time and wherever they are      *)
(* killed: the schema changes, and an API begins to serve, as if looking   *)
(* at the records and acting on them were one step.                        *)
(***************************************************************************)
EXTENDS Naturals, Sequences

CONSTANTS Versions, Number, Builds, Apis, None

VARIABLES
    schema,
    recorded,
    serving     \* serving[a]: the build that API a serves with, or None

vars == <<schema, recorded, serving>>

Init ==
    /\ schema = <<>>
    /\ recorded = [v \in Versions |-> None]
    /\ serving = [a \in Apis |-> None]

\* The build is in order, and has every file of the database as it was applied.
Knows(b) ==
    /\ \A v, w \in DOMAIN b : Number[v] = Number[w] => v = w
    /\ \A v \in Versions : recorded[v] \in {None} \cup {b[w] : w \in DOMAIN b \cap {v}}

Missing(b) == {v \in DOMAIN b : recorded[v] = None}

\* The lowest file of the build that is missing runs, and is recorded with it.
Migrate(b) ==
    /\ Knows(b)
    /\ \E v \in Missing(b) :
          /\ \A w \in Missing(b) \ {v} : Number[v] < Number[w]
          /\ schema' = Append(schema, v)
          /\ recorded' = [recorded EXCEPT ![v] = b[v]]
    /\ UNCHANGED serving

Serve(a, b) ==
    /\ serving[a] = None
    /\ Knows(b) /\ Missing(b) = {}
    /\ serving' = [serving EXCEPT ![a] = b]
    /\ UNCHANGED <<schema, recorded>>

Retire(a) ==
    /\ serving' = [serving EXCEPT ![a] = None]
    /\ UNCHANGED <<schema, recorded>>

Next ==
    \/ \E b \in Builds : Migrate(b)
    \/ \E a \in Apis : Retire(a) \/ \E b \in Builds : Serve(a, b)

Spec == Init /\ [][Next]_vars
=============================================================================
