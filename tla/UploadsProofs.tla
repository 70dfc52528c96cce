--------------------------- MODULE UploadsProofs ---------------------------
(***************************************************************************)
(* Theorems of module Uploads.  PaidOnce and WholeDocument need the        *)
(* assumption their comments state: the file parses as one kind only.      *)
(***************************************************************************)
EXTENDS Uploads, FiniteSetTheorems, WellFoundedInduction, TLAPS

SingleParse == \A j, k \in Kinds : Parse[j] # <<>> /\ Parse[k] # <<>> => Parse[j] = Parse[k]

Working(u) == uploads[u].phase \in {"chunking", "locked", "bought"}

OnChunk(u) == uploads[u].phase \in {"locked", "bought"}

\* An upload at work is on one of its file's chunks or just past the last one.
AtOK ==
    \A u \in Uploads :
        /\ Working(u) => uploads[u].at > 0 /\ Parse[uploads[u].kind] # <<>>
        /\ OnChunk(u) => uploads[u].at \in DOMAIN Parse[uploads[u].kind]

Shape == TypeOK /\ AtOK

\* The row waits for the upload that set it last, and that one has not ended well.
Waiting ==
    ledger.status = "processing" =>
        latest \in Uploads /\ (uploads[latest].phase \in {"scheduled", "failing", "dead"} \/ Working(latest))

\* What is stored is what the file says.
TextsOK ==
    \A i \in Positions : chunks[i] # None => \E k \in Kinds : i \in DOMAIN Parse[k] /\ chunks[i] = Parse[k][i]

\* An upload at work has a file that parses and has seen the chunks before its
\* own stored; one that embeds holds the lock of a chunk nobody has stored.
WorkOK ==
    /\ \A u \in Uploads : Working(u) =>
          /\ uploads[u].at > 0 /\ Parse[uploads[u].kind] # <<>>
          /\ ~uploads[u].failed =>
                \A i \in 1..(uploads[u].at - 1) : chunks[i] = Parse[uploads[u].kind][i]
    /\ \A u \in Uploads : OnChunk(u) =>
          /\ uploads[u].at \in DOMAIN Parse[uploads[u].kind]
          /\ uploads[u].at \in uploads[u].locks
          /\ chunks[uploads[u].at] = None

Exclusive == \A u, v \in Uploads : u # v => uploads[u].locks \cap uploads[v].locks = {}

Completed ==
    ledger.status = "completed" =>
        \E k \in Kinds : /\ Parse[k] # <<>> /\ ledger.count = Len(Parse[k])
                         /\ \A i \in DOMAIN Parse[k] : chunks[i] = Parse[k][i]

BoughtAt(i) == \E u \in Uploads : uploads[u].phase = "bought" /\ uploads[u].at = i

\* Every successful call is stored, lost, or in the hands of one task.
Accounts ==
    \A i \in Positions :
        paid[i] = lost[i] + (IF chunks[i] # None THEN 1 ELSE 0) + (IF BoughtAt(i) THEN 1 ELSE 0)

UploadInv == TypeOK /\ TextsOK /\ WorkOK /\ Exclusive /\ Completed /\ Accounts

-----------------------------------------------------------------------------
\* The chunks of a kind are numbered from 1, and an empty parse has none.
LEMMA ParseFacts ==
    ASSUME NEW k \in Kinds
    PROVE  /\ Len(Parse[k]) \in Nat /\ Len(Parse[k]) \in Counts
           /\ DOMAIN Parse[k] = 1..Len(Parse[k])
           /\ DOMAIN Parse[k] \subseteq Positions
           /\ \A i \in DOMAIN Parse[k] : Parse[k][i] \in Texts /\ Parse[k][i] # None
           /\ Parse[k] = <<>> <=> Len(Parse[k]) = 0
  <1>1. Parse[k] \in Seq(Texts)
    BY ParseAssumption
  <1>2. DOMAIN Parse[k] \subseteq Positions /\ Len(Parse[k]) \in Counts
    BY DEF Positions, Counts
  <1>3. \A i \in DOMAIN Parse[k] : Parse[k][i] \in Texts
    BY <1>1
  <1>4. QED
    BY <1>1, <1>2, <1>3, NoneAssumption

\* Positions are numbers, and each belongs to some kind's parse.
LEMMA PositionFacts ==
    ASSUME NEW i \in Positions
    PROVE  i \in Nat \ {0} /\ \E k \in Kinds : i \in DOMAIN Parse[k]
  <1>1. PICK k \in Kinds : i \in DOMAIN Parse[k]
    BY DEF Positions
  <1>2. QED
    BY <1>1, ParseFacts

\* A stored chunk says what any kind that has it says.
LEMMA StoredIsParsed ==
    ASSUME SingleParse, TextsOK, NEW k \in Kinds, NEW i \in DOMAIN Parse[k], chunks[i] # None
    PROVE  chunks[i] = Parse[k][i]
  <1>1. i \in Positions
    BY ParseFacts
  <1>2. PICK j \in Kinds : i \in DOMAIN Parse[j] /\ chunks[i] = Parse[j][i]
    BY <1>1 DEF TextsOK
  <1>3. Parse[j] # <<>> /\ Parse[k] # <<>>
    BY <1>2, ParseFacts
  <1>4. QED
    BY <1>2, <1>3 DEF SingleParse

Step(u) == Look(u) \/ Upsert(u) \/ TaskGoesOn(u) \/ TaskFails(u) \/ Die(u)

LEMMA TypeStep ==
    ASSUME Shape, NEW u \in Uploads, Step(u)
    PROVE  TypeOK'
  <1> DEFINE k == uploads[u].kind
  <1>0. /\ uploads[u] \in Upload /\ k \in Kinds /\ uploads[u].at \in Nat
        /\ uploads[u].at <= Len(Parse[k]) + 1
        /\ uploads \in [Uploads -> Upload]
        /\ paid \in [Positions -> Nat] /\ lost \in [Positions -> Nat]
        /\ TypeOK
    BY DEF Shape, TypeOK, Upload
  <1>1. /\ Len(Parse[k]) \in Nat /\ Len(Parse[k]) \in Counts /\ DOMAIN Parse[k] = 1..Len(Parse[k])
        /\ DOMAIN Parse[k] \subseteq Positions /\ \A i \in DOMAIN Parse[k] : Parse[k][i] \in Texts
        /\ Parse[k] = <<>> <=> Len(Parse[k]) = 0
    BY <1>0, ParseFacts
  <1>2. OnChunk(u) => uploads[u].at \in DOMAIN Parse[k] /\ uploads[u].at \in Positions
    BY <1>1 DEF Shape, AtOK
  <1>3. None \notin Counts
    BY NoneAssumption, ParseAssumption DEF Counts
  <1> HIDE DEF k
  <1>4. uploads' \in [Uploads -> Upload] /\ \A v \in Uploads : uploads'[v].at <= Len(Parse[uploads'[v].kind]) + 1
    <2>1. PICK new : new \in Upload /\ new.kind = k /\ new.at <= Len(Parse[k]) + 1
                     /\ uploads' = [uploads EXCEPT ![u] = new]
      <3>1. CASE Look(u)
        <4> DEFINE new == [uploads[u] EXCEPT !.phase = IF ledger.status = "completed" THEN "answered" ELSE "looked"]
        <4>1. new \in Upload /\ new.kind = k /\ new.at <= Len(Parse[k]) + 1
          BY <1>0 DEF Upload, Phases, k
        <4>2. uploads' = [uploads EXCEPT ![u] = new]
          BY <3>1, <1>0 DEF Look
        <4>3. QED
          BY <4>1, <4>2
      <3>2. CASE Upsert(u)
        BY <3>2, <1>0, <1>1 DEF Upsert, Move, Upload, Phases, k
      <3>3. CASE Start(u)
        <4>1. PICK phase \in Phases : phase = IF Parse[uploads[u].kind] = <<>> THEN "failing" ELSE "chunking"
          BY DEF Phases
        <4>2. PICK n \in Nat : n = 1 /\ n <= Len(Parse[k]) + 1
          BY <1>1
        <4> DEFINE new == [uploads[u] EXCEPT !.at = n, !.phase = phase]
        <4>3. new \in Upload /\ new.kind = k /\ new.at <= Len(Parse[k]) + 1
          BY <4>2, <1>0 DEF Upload, k
        <4>4. uploads' = [uploads EXCEPT ![u] = new]
          BY <3>3, <4>1, <4>2 DEF Start, Move
        <4>5. QED
          BY <4>3, <4>4
      <3>4. CASE Claim(u)
        <4>1. uploads[u].at <= Len(Parse[k])
          BY <3>4 DEF Claim, HasChunk, k
        <4>2. CASE chunks[uploads[u].at] = Text(u)
          <5>1. PICK n \in Nat : n = uploads[u].at + 1 /\ n <= Len(Parse[k]) + 1
            BY <4>1, <1>0, <1>1
          <5> DEFINE new == [uploads[u] EXCEPT !.at = n, !.locks = {}]
          <5>2. new \in Upload /\ new.kind = k /\ new.at <= Len(Parse[k]) + 1
            BY <5>1, <1>0 DEF Upload, k
          <5>3. uploads' = [uploads EXCEPT ![u] = new]
            BY <3>4, <4>2, <5>1 DEF Claim, Move
          <5>4. QED
            BY <5>2, <5>3
        <4>3. CASE chunks[uploads[u].at] # Text(u)
          <5>1. uploads[u].at \in Positions
            <6>1. uploads[u].at > 0
              BY <3>4, <1>0 DEF Claim, HasChunk, Shape, AtOK, Working
            <6>2. QED
              BY <6>1, <4>1, <1>0, <1>1
          <5>2. uploads[u].locks \cup {uploads[u].at} \in SUBSET Positions
            BY <5>1, <1>0 DEF Upload
          <5>3. QED
            BY <3>4, <4>3, <5>2, <1>0, <1>1 DEF Claim, Move, Upload, Phases, k
        <4>4. QED
          BY <4>2, <4>3
      <3>5. CASE Buy(u)
        BY <3>5, <1>0, <1>1 DEF Buy, Move, Upload, Phases, k
      <3>6. CASE BuyFails(u)
        <4>1. PICK n \in Nat : n = uploads[u].at + 1 /\ n <= Len(Parse[k]) + 1
          BY <3>6, <1>0, <1>1, <1>2 DEF BuyFails, OnChunk
        <4> DEFINE new == [uploads[u] EXCEPT !.phase = "chunking", !.at = n, !.failed = TRUE]
        <4>2. new \in Upload /\ new.kind = k /\ new.at <= Len(Parse[k]) + 1
          BY <4>1, <1>0 DEF Upload, Phases, k
        <4>3. uploads' = [uploads EXCEPT ![u] = new]
          BY <3>6, <4>1 DEF BuyFails, Move
        <4>4. QED
          BY <4>2, <4>3
      <3>7. CASE Store(u)
        <4>1. PICK n \in Nat : n = uploads[u].at + 1 /\ n <= Len(Parse[k]) + 1
          BY <3>7, <1>0, <1>1, <1>2 DEF Store, OnChunk
        <4> DEFINE new == [uploads[u] EXCEPT !.phase = "chunking", !.at = n, !.locks = {}]
        <4>2. new \in Upload /\ new.kind = k /\ new.at <= Len(Parse[k]) + 1
          BY <4>1, <1>0 DEF Upload, Phases, k
        <4>3. uploads' = [uploads EXCEPT ![u] = new]
          BY <3>7, <4>1 DEF Store, Move
        <4>4. QED
          BY <4>2, <4>3
      <3>8. CASE StoreFails(u)
        <4>1. PICK n \in Nat : n = uploads[u].at + 1 /\ n <= Len(Parse[k]) + 1
          BY <3>8, <1>0, <1>1, <1>2 DEF StoreFails, OnChunk
        <4> DEFINE new == [uploads[u] EXCEPT !.phase = "chunking", !.at = n, !.failed = TRUE, !.locks = {}]
        <4>2. new \in Upload /\ new.kind = k /\ new.at <= Len(Parse[k]) + 1
          BY <4>1, <1>0 DEF Upload, Phases, k
        <4>3. uploads' = [uploads EXCEPT ![u] = new]
          BY <3>8, <4>1 DEF StoreFails, Move
        <4>4. QED
          BY <4>2, <4>3
      <3>9. CASE BatchAborts(u) \/ FindFailures(u)
        BY <3>9, <1>0, <1>1 DEF BatchAborts, FindFailures, Move, Upload, Phases, k
      <3>10. CASE MarkCompleted(u) \/ MarkFailed(u) \/ Die(u)
        BY <3>10, <1>0, <1>1 DEF MarkCompleted, MarkFailed, Die, Ended, Move, Upload, Phases, k
      <3>11. QED
        BY <3>1, <3>2, <3>3, <3>4, <3>5, <3>6, <3>7, <3>8, <3>9, <3>10 DEF Step, TaskGoesOn, TaskFails
    <2>2. QED
      BY <2>1, <1>0 DEF TypeOK
  <1>5. /\ ledger' \in Row
        /\ ledger'.status \in {"absent", "processing"} => ~ledger'.reason /\ ledger'.count = None /\ ~ledger'.stamped
        /\ ledger'.status = "completed" => ledger'.stamped /\ ledger'.count # None
        /\ ledger'.status = "failed" => ledger'.reason
    <2>1. CASE Upsert(u)
      BY <2>1 DEF Upsert, ProcessingRow, Absent, Row
    <2>2. CASE MarkCompleted(u)
      <3>1. ledger' = [ledger EXCEPT !.status = "completed", !.stamped = TRUE, !.count = Len(Parse[k])]
        BY <2>2 DEF MarkCompleted, k
      <3>2. QED
        BY <3>1, <1>0, <1>1, <1>3 DEF TypeOK, Row
    <2>3. CASE MarkFailed(u)
      BY <2>3, <1>0 DEF MarkFailed, FailedRow, TypeOK, Row
    <2>4. CASE UNCHANGED ledger
      BY <2>4, <1>0 DEF TypeOK
    <2>5. QED
      BY <2>1, <2>2, <2>3, <2>4 DEF Step, TaskGoesOn, TaskFails, Look, Start, Claim, Buy, BuyFails, Store,
         StoreFails, BatchAborts, FindFailures, Die
  <1>6. chunks' \in [Positions -> Texts \cup {None}]
    <2>1. CASE Store(u)
      BY <2>1, <1>0, <1>1, <1>2 DEF Store, Text, OnChunk, TypeOK, k
    <2>2. CASE UNCHANGED chunks
      BY <2>2, <1>0 DEF TypeOK
    <2>3. QED
      BY <2>1, <2>2 DEF Step, TaskGoesOn, TaskFails, Look, Upsert, Start, Claim, Buy, BuyFails,
         StoreFails, BatchAborts, MarkCompleted, FindFailures, MarkFailed, Die
  <1>7. paid' \in [Positions -> Nat] /\ lost' \in [Positions -> Nat]
    <2>1. CASE Buy(u)
      BY <2>1, <1>0, <1>2 DEF Buy, OnChunk
    <2>2. CASE UNCHANGED paid /\ Losing(u)
      BY <2>2, <1>0, <1>2 DEF Losing, OnChunk
    <2>3. CASE UNCHANGED <<paid, lost>>
      BY <2>3, <1>0
    <2>4. QED
      BY <2>1, <2>2, <2>3 DEF Step, TaskGoesOn, TaskFails, Look, Upsert, Start, Claim, BuyFails, Store,
         StoreFails, BatchAborts, MarkCompleted, FindFailures, MarkFailed, Die
  <1>8. latest' \in Uploads \cup {None}
    BY <1>0 DEF TypeOK, Step, TaskGoesOn, TaskFails, Look, Upsert, Start, Claim, Buy, BuyFails, Store,
       StoreFails, BatchAborts, MarkCompleted, FindFailures, MarkFailed, Die
  <1>9. QED
    BY <1>4, <1>5, <1>6, <1>7, <1>8 DEF TypeOK

\* A step of u moves u only.
LEMMA OtherUploads ==
    ASSUME TypeOK, NEW u \in Uploads, Step(u)
    PROVE  /\ DOMAIN uploads' = Uploads
           /\ \A v \in Uploads \ {u} : uploads'[v] = uploads[v]
  <1>1. uploads \in [Uploads -> Upload]
    BY DEF TypeOK
  <1>2. QED
    BY <1>1 DEF Step, TaskGoesOn, TaskFails, Look, Upsert, Start, Claim, Buy, BuyFails, Store, StoreFails,
       BatchAborts, MarkCompleted, FindFailures, MarkFailed, Die, Ended, Move

\* Where each step takes its upload.
LEMMA Phase ==
    ASSUME TypeOK, NEW u \in Uploads, Step(u)
    PROVE  /\ Look(u) => uploads'[u].phase \in {"answered", "looked"}
           /\ Upsert(u) => uploads'[u].phase = "scheduled"
           /\ Start(u) => uploads'[u].at = 1 /\ uploads'[u].kind = uploads[u].kind
                          /\ uploads'[u].phase = IF Parse[uploads[u].kind] = <<>> THEN "failing" ELSE "chunking"
           /\ BatchAborts(u) \/ FindFailures(u) => uploads'[u].phase = "failing"
           /\ MarkCompleted(u) => uploads'[u].phase = "completed"
           /\ MarkFailed(u) => uploads'[u].phase = "failed"
           /\ Die(u) => uploads'[u].phase = "dead"
  <1>0. uploads \in [Uploads -> Upload]
    BY DEF TypeOK
  <1>1. Look(u) => uploads'[u].phase \in {"answered", "looked"}
    BY <1>0 DEF Look, Upload
  <1>2. Upsert(u) => uploads'[u].phase = "scheduled"
    BY <1>0 DEF Upsert, Move, Upload
  <1>3. Start(u) => uploads'[u].at = 1 /\ uploads'[u].kind = uploads[u].kind
                    /\ uploads'[u].phase = IF Parse[uploads[u].kind] = <<>> THEN "failing" ELSE "chunking"
    BY <1>0 DEF Start, Move, Upload
  <1>4. BatchAborts(u) => uploads'[u].phase = "failing"
    BY <1>0 DEF BatchAborts, Move, Upload
  <1>5. FindFailures(u) => uploads'[u].phase = "failing"
    BY <1>0 DEF FindFailures, Move, Upload
  <1>6. MarkCompleted(u) => uploads'[u].phase = "completed"
    BY <1>0 DEF MarkCompleted, Ended, Move, Upload
  <1>7. MarkFailed(u) => uploads'[u].phase = "failed"
    BY <1>0 DEF MarkFailed, Ended, Move, Upload
  <1>8. Die(u) => uploads'[u].phase = "dead"
    BY <1>0 DEF Die, Ended, Move, Upload
  <1>9. QED
    BY <1>1, <1>2, <1>3, <1>4, <1>5, <1>6, <1>7, <1>8

LEMMA AtStep ==
    ASSUME Shape, NEW u \in Uploads, Step(u)
    PROVE  AtOK'
  <1>0. /\ uploads \in [Uploads -> Upload] /\ uploads[u].at \in Nat /\ uploads[u].kind \in Kinds
        /\ uploads[u].at <= Len(Parse[uploads[u].kind]) + 1 /\ TypeOK
    BY DEF Shape, TypeOK, Upload
  <1>1. \A v \in Uploads : /\ Working(v) => uploads[v].at > 0 /\ Parse[uploads[v].kind] # <<>>
                           /\ OnChunk(v) => uploads[v].at \in DOMAIN Parse[uploads[v].kind]
                            BY DEF Shape, AtOK
  <1>2. ASSUME NEW v \in Uploads \ {u}
        PROVE  /\ Working(v)' => uploads'[v].at > 0 /\ Parse[uploads'[v].kind] # <<>>
               /\ OnChunk(v)' => uploads'[v].at \in DOMAIN Parse[uploads'[v].kind]
    BY <1>0, <1>1, OtherUploads DEF Working, OnChunk
  <1>3. /\ Working(u)' => uploads'[u].at > 0 /\ Parse[uploads'[u].kind] # <<>>
        /\ OnChunk(u)' => uploads'[u].at \in DOMAIN Parse[uploads'[u].kind]
    <2>1. CASE Start(u)
      BY <2>1, <1>0, Phase DEF Working, OnChunk
    <2>2. CASE Claim(u)
      <3>1. Working(u) /\ uploads[u].at \in DOMAIN Parse[uploads[u].kind]
        BY <2>2, <1>0, <1>1, ParseFacts DEF Claim, HasChunk, Working
      <3>2. uploads'[u].kind = uploads[u].kind
            /\ \/ uploads'[u].at = uploads[u].at
               \/ uploads'[u].at = uploads[u].at + 1 /\ uploads'[u].phase = "chunking"
        <4>1. CASE chunks[uploads[u].at] = Text(u)
          BY <2>2, <4>1, <1>0 DEF Claim, HasChunk, Move, Upload
        <4>2. CASE chunks[uploads[u].at] # Text(u)
          BY <2>2, <4>2, <1>0 DEF Claim, Move, Upload
        <4>3. QED
          BY <4>1, <4>2
      <3>3. QED
        BY <3>1, <3>2, <1>0, <1>1 DEF OnChunk
    <2>3. CASE Buy(u)
      <3>1. OnChunk(u) /\ Working(u) /\ uploads'[u].at = uploads[u].at /\ uploads'[u].kind = uploads[u].kind
        BY <2>3, <1>0 DEF Buy, Move, Upload, Working, OnChunk
      <3>2. QED
        BY <3>1, <1>1
    <2>4. CASE BuyFails(u) \/ Store(u) \/ StoreFails(u)
      <3>1. Working(u) /\ uploads'[u].at = uploads[u].at + 1 /\ uploads'[u].kind = uploads[u].kind
            /\ uploads'[u].phase = "chunking"
        <4>1. CASE BuyFails(u)
          BY <4>1, <1>0 DEF BuyFails, Move, Upload, Working
        <4>2. CASE Store(u)
          BY <4>2, <1>0 DEF Store, Move, Upload, Working
        <4>3. CASE StoreFails(u)
          BY <4>3, <1>0 DEF StoreFails, Move, Upload, Working
        <4>4. QED
          BY <2>4, <4>1, <4>2, <4>3
      <3>2. QED
        BY <3>1, <1>0, <1>1 DEF OnChunk
    <2>5. CASE Look(u) \/ Upsert(u) \/ BatchAborts(u) \/ FindFailures(u) \/ MarkCompleted(u) \/ MarkFailed(u) \/ Die(u)
      <3>1. uploads'[u].phase \in {"answered", "looked", "scheduled", "failing", "completed", "failed", "dead"}
        BY <2>5, <1>0, Phase
      <3>2. QED
        BY <3>1 DEF Working, OnChunk
    <2>6. QED
      BY <2>1, <2>2, <2>3, <2>4, <2>5 DEF Step, TaskGoesOn, TaskFails
  <1>4. QED
    BY <1>2, <1>3 DEF AtOK

LEMMA WaitingStep ==
    ASSUME TypeOK, Waiting, NEW u \in Uploads, Step(u)
    PROVE  Waiting'
  <1>0. ledger \in Row /\ uploads \in [Uploads -> Upload]
    BY DEF TypeOK
  <1>1. CASE Upsert(u)
    <2>1. latest' = u /\ uploads'[u].phase = "scheduled"
      BY <1>1, Phase DEF Upsert
    <2>2. QED
      BY <2>1 DEF Waiting
  <1>2. CASE MarkCompleted(u) \/ MarkFailed(u)
    <2>1. ledger'.status \in {"completed", "failed"}
      BY <1>2, <1>0 DEF MarkCompleted, MarkFailed, FailedRow, Row
    <2>2. QED
      BY <2>1 DEF Waiting
  <1>3. CASE ~(Upsert(u) \/ MarkCompleted(u) \/ MarkFailed(u))
    <2>1. ledger' = ledger /\ latest' = latest
      BY <1>3 DEF Step, TaskGoesOn, TaskFails, Look, Start, Claim, Buy, BuyFails, Store, StoreFails, BatchAborts, FindFailures, Die
    <2>2. CASE latest # u
      BY <2>1, <2>2, OtherUploads DEF Waiting, Working
    <2>3. CASE latest = u /\ ledger.status = "processing"
      <3>1. uploads[u].phase \in {"scheduled", "failing", "dead", "chunking", "locked", "bought"}
        BY <2>3 DEF Waiting, Working
      <3>2. ~Look(u)
        BY <3>1 DEF Look
      <3>3. uploads'[u].phase \in {"failing", "dead", "chunking", "locked", "bought"}
        <4>1. CASE Start(u) \/ BatchAborts(u) \/ FindFailures(u) \/ Die(u)
          BY <4>1, Phase
        <4>2. CASE Claim(u)
          BY <4>2, <1>0 DEF Claim, HasChunk, Move, Upload
        <4>3. CASE Buy(u)
          BY <4>3, <1>0 DEF Buy, Move, Upload
        <4>4. CASE BuyFails(u)
          BY <4>4, <1>0 DEF BuyFails, Move, Upload
        <4>5. CASE Store(u)
          BY <4>5, <1>0 DEF Store, Move, Upload
        <4>6. CASE StoreFails(u)
          BY <4>6, <1>0 DEF StoreFails, Move, Upload
        <4>7. QED
          BY <1>3, <3>2, <4>1, <4>2, <4>3, <4>4, <4>5, <4>6 DEF Step, TaskGoesOn, TaskFails
      <3>4. QED
        BY <2>1, <2>3, <3>3 DEF Waiting, Working
    <2>4. QED
      BY <2>1, <2>2, <2>3 DEF Waiting
  <1>4. QED
    BY <1>1, <1>2, <1>3

\* What a step of u leaves alone.
LEMMA Others ==
    ASSUME UploadInv, NEW u \in Uploads, Step(u)
    PROVE  /\ DOMAIN uploads' = Uploads
           /\ \A v \in Uploads \ {u} : uploads'[v] = uploads[v]
           /\ ~Store(u) => chunks' = chunks
  <1>1. uploads \in [Uploads -> Upload]
    BY DEF UploadInv, TypeOK
  <1>2. /\ DOMAIN uploads' = Uploads
        /\ \A v \in Uploads \ {u} : uploads'[v] = uploads[v]
    BY <1>1 DEF Step, TaskGoesOn, TaskFails, Look, Upsert, Start, Claim, Buy, BuyFails, Store, StoreFails,
       BatchAborts, MarkCompleted, FindFailures, MarkFailed, Die, Ended, Move
  <1>3. ~Store(u) => chunks' = chunks
    BY DEF Step, TaskGoesOn, TaskFails, Look, Upsert, Start, Claim, Buy, BuyFails, StoreFails,
       BatchAborts, MarkCompleted, FindFailures, MarkFailed, Die
  <1>4. QED
    BY <1>2, <1>3

\* Storing fills one empty chunk, with what the file says.
LEMMA StoreFacts ==
    ASSUME UploadInv, NEW u \in Uploads, Store(u)
    PROVE  LET i == uploads[u].at
           IN  /\ i \in Positions /\ i \in DOMAIN Parse[uploads[u].kind] /\ i \in uploads[u].locks
               /\ uploads[u].kind \in Kinds
               /\ chunks[i] = None /\ chunks'[i] = Parse[uploads[u].kind][i] /\ chunks'[i] # None
               /\ DOMAIN chunks' = Positions
               /\ \A j \in Positions \ {i} : chunks'[j] = chunks[j]
  <1>1. OnChunk(u) /\ chunks \in [Positions -> Texts \cup {None}] /\ uploads[u].kind \in Kinds
    BY DEF Store, OnChunk, UploadInv, TypeOK, Upload
  <1>2. /\ uploads[u].at \in DOMAIN Parse[uploads[u].kind] /\ uploads[u].at \in uploads[u].locks
        /\ chunks[uploads[u].at] = None
    BY <1>1 DEF UploadInv, WorkOK
  <1>3. uploads[u].at \in Positions /\ Parse[uploads[u].kind][uploads[u].at] # None
    BY <1>1, <1>2, ParseFacts
  <1>4. QED
    BY <1>1, <1>2, <1>3 DEF Store, Text

LEMMA TextsStep ==
    ASSUME UploadInv, NEW u \in Uploads, Step(u)
    PROVE  TextsOK'
  <1>1. CASE Store(u)
    BY <1>1, StoreFacts DEF TextsOK, UploadInv
  <1>2. CASE ~Store(u)
    BY <1>2, Others DEF TextsOK, UploadInv
  <1>3. QED
    BY <1>1, <1>2

LEMMA ExclusiveStep ==
    ASSUME UploadInv, NEW u \in Uploads, Step(u)
    PROVE  Exclusive'
  <1>1. uploads \in [Uploads -> Upload]
    BY DEF UploadInv, TypeOK
  <1>2. uploads'[u].locks \subseteq uploads[u].locks
        \/ /\ ChunkLockFree(u, uploads[u].at)
           /\ uploads'[u].locks = uploads[u].locks \cup {uploads[u].at}
    <2>1. CASE Claim(u)
      BY <2>1, <1>1 DEF Claim, Move, Upload
    <2>2. CASE Look(u) \/ Upsert(u) \/ Buy(u)
      BY <2>2, <1>1 DEF Look, Upsert, Buy, Move, Upload
    <2>6. CASE Start(u)
      BY <2>6, <1>1 DEF Start, Move, Upload
    <2>7. CASE BuyFails(u)
      BY <2>7, <1>1 DEF BuyFails, Move, Upload
    <2>3. CASE Store(u) \/ StoreFails(u) \/ BatchAborts(u) \/ FindFailures(u)
      BY <2>3, <1>1 DEF Store, StoreFails, BatchAborts, FindFailures, Move, Upload
    <2>4. CASE MarkCompleted(u) \/ MarkFailed(u) \/ Die(u)
      BY <2>4, <1>1 DEF MarkCompleted, MarkFailed, Die, Ended, Move, Upload
    <2>5. QED
      BY <2>1, <2>2, <2>3, <2>4, <2>6, <2>7 DEF Step, TaskGoesOn, TaskFails
  <1>3. QED
    BY <1>2, Others DEF Exclusive, UploadInv, ChunkLockFree

LEMMA WorkStep ==
    ASSUME SingleParse, UploadInv, NEW u \in Uploads, Step(u)
    PROVE  WorkOK'
  <1> DEFINE Seen(v) == Working(v) =>
                /\ uploads[v].at > 0 /\ Parse[uploads[v].kind] # <<>>
                /\ ~uploads[v].failed =>
                      \A i \in 1..(uploads[v].at - 1) : chunks[i] = Parse[uploads[v].kind][i]
             Holds(v) == OnChunk(v) =>
                /\ uploads[v].at \in DOMAIN Parse[uploads[v].kind]
                /\ uploads[v].at \in uploads[v].locks
                /\ chunks[uploads[v].at] = None
  <1>0. /\ uploads \in [Uploads -> Upload] /\ uploads[u].at \in Nat /\ uploads[u].kind \in Kinds
        /\ \A v \in Uploads : uploads[v].at \in Nat /\ uploads[v].kind \in Kinds
        /\ \A v \in Uploads : uploads[v].at <= Len(Parse[uploads[v].kind]) + 1
    BY DEF UploadInv, TypeOK, Upload
  <1>1. \A v \in Uploads : Seen(v) /\ Holds(v)
    BY DEF UploadInv, WorkOK
  <1>2. ASSUME NEW v \in Uploads, v # u
        PROVE  Seen(v)' /\ Holds(v)'
    <2>1. uploads'[v] = uploads[v]
      BY <1>2, Others
    <2>2. CASE ~Store(u)
      BY <2>1, <2>2, <1>1, Others DEF Working, OnChunk
    <2>3. CASE Store(u)
      <3>1. /\ chunks[uploads[u].at] = None /\ uploads[u].at \in uploads[u].locks
            /\ \A j \in Positions \ {uploads[u].at} : chunks'[j] = chunks[j]
        BY <2>3, StoreFacts
      <3>2. ASSUME Working(v), ~uploads[v].failed, NEW i \in 1..(uploads[v].at - 1)
            PROVE  chunks'[i] = Parse[uploads[v].kind][i]
        <4>1. chunks[i] = Parse[uploads[v].kind][i]
          BY <3>2, <1>1
        <4>2. i \in DOMAIN Parse[uploads[v].kind]
          BY <1>0, ParseFacts
        <4>3. i \in Positions /\ chunks[i] # None
          BY <4>1, <4>2, <1>0, ParseFacts
        <4>4. QED
          BY <3>1, <4>1, <4>3
      <3>3. ASSUME OnChunk(v)
            PROVE  chunks'[uploads[v].at] = None
        <4>1. uploads[v].at \in Positions /\ uploads[v].at \in uploads[v].locks
              /\ chunks[uploads[v].at] = None
          BY <3>3, <1>0, <1>1, ParseFacts
        <4>2. uploads[v].at # uploads[u].at
          BY <4>1, <3>1, <1>2 DEF UploadInv, Exclusive
        <4>3. QED
          BY <3>1, <4>1, <4>2
      <3>4. QED
        BY <2>1, <3>2, <3>3, <1>1 DEF Working, OnChunk
    <2>4. QED
      BY <2>2, <2>3
  <1>3. Seen(u)' /\ Holds(u)'
    <2>1. CASE Start(u)
      <3>1. uploads'[u].at = 1 /\ uploads'[u].kind = uploads[u].kind
            /\ uploads'[u].phase = IF Parse[uploads[u].kind] = <<>> THEN "failing" ELSE "chunking"
        BY <2>1, <1>0 DEF Start, Move, Upload
      <3>2. QED
        BY <3>1 DEF Working, OnChunk
    <2>2. CASE Claim(u)
      <3>1. /\ Working(u) /\ ~OnChunk(u) /\ uploads[u].at > 0 /\ uploads[u].at <= Len(Parse[uploads[u].kind])
            /\ Parse[uploads[u].kind] # <<>> /\ chunks' = chunks
        BY <2>2, <1>1 DEF Claim, HasChunk, Working, OnChunk
      <3>2. uploads[u].at \in DOMAIN Parse[uploads[u].kind]
        BY <3>1, <1>0, ParseFacts
      <3>3. CASE chunks[uploads[u].at] = Text(u)
        <4>1. uploads'[u] = [uploads[u] EXCEPT !.at = uploads[u].at + 1, !.locks = {}]
          BY <2>2, <3>3, <1>0 DEF Claim, Move
        <4>2. /\ uploads'[u].at = uploads[u].at + 1 /\ uploads'[u].kind = uploads[u].kind
              /\ uploads'[u].failed = uploads[u].failed /\ uploads'[u].phase = "chunking"
          BY <4>1, <2>2, <1>0 DEF Upload, Claim, HasChunk
        <4>3. \A i \in 1..uploads[u].at : i # uploads[u].at => i \in 1..(uploads[u].at - 1)
          BY <1>0
        <4>4. ~uploads[u].failed => \A i \in 1..uploads[u].at : chunks[i] = Parse[uploads[u].kind][i]
          BY <4>3, <3>1, <3>3, <1>1 DEF Text
        <4>5. uploads'[u].at > 0 /\ uploads'[u].at - 1 = uploads[u].at
          BY <4>2, <1>0
        <4>6. QED
          BY <4>2, <4>4, <4>5, <3>1 DEF OnChunk
      <3>4. CASE chunks[uploads[u].at] # Text(u)
        <4>1. uploads'[u] = [uploads[u] EXCEPT !.phase = "locked", !.locks = uploads[u].locks \cup {uploads[u].at}]
          BY <2>2, <3>4, <1>0 DEF Claim, Move
        <4>2. /\ uploads'[u].at = uploads[u].at /\ uploads'[u].kind = uploads[u].kind
              /\ uploads'[u].failed = uploads[u].failed /\ uploads[u].at \in uploads'[u].locks
          BY <4>1, <1>0 DEF Upload
        <4>3. chunks[uploads[u].at] = None
          BY <3>2, <3>4, <1>0, StoredIsParsed DEF Text, UploadInv
        <4>4. QED
          BY <4>2, <4>3, <3>1, <3>2, <1>1 DEF Working
      <3>5. QED
        BY <3>3, <3>4
    <2>3. CASE Buy(u)
      <3>1. /\ uploads'[u].at = uploads[u].at /\ uploads'[u].kind = uploads[u].kind /\ chunks' = chunks
            /\ uploads'[u].failed = uploads[u].failed /\ uploads'[u].locks = uploads[u].locks
            /\ Working(u) /\ OnChunk(u)
        BY <2>3, <1>0 DEF Buy, Move, Upload, Working, OnChunk
      <3>2. QED
        BY <3>1, <1>1
    <2>4. CASE BuyFails(u) \/ StoreFails(u)
      <3>1. /\ uploads'[u].at = uploads[u].at + 1 /\ uploads'[u].kind = uploads[u].kind
            /\ uploads'[u].failed = TRUE /\ uploads'[u].phase = "chunking" /\ Working(u)
        <4>1. CASE BuyFails(u)
          BY <4>1, <1>0 DEF BuyFails, Move, Upload, Working
        <4>2. CASE StoreFails(u)
          BY <4>2, <1>0 DEF StoreFails, Move, Upload, Working
        <4>3. QED
          BY <2>4, <4>1, <4>2
      <3>2. QED
        BY <3>1, <1>0, <1>1 DEF OnChunk
    <2>5. CASE Store(u)
      <3>1. /\ uploads'[u].at = uploads[u].at + 1 /\ uploads'[u].kind = uploads[u].kind
            /\ uploads'[u].failed = uploads[u].failed /\ uploads'[u].phase = "chunking"
            /\ Working(u) /\ OnChunk(u)
        BY <2>5, <1>0 DEF Store, Move, Upload, Working, OnChunk
      <3>2. /\ chunks'[uploads[u].at] = Parse[uploads[u].kind][uploads[u].at]
            /\ \A j \in Positions \ {uploads[u].at} : chunks'[j] = chunks[j]
        BY <2>5, StoreFacts
      <3>3. ASSUME ~uploads[u].failed, NEW i \in 1..uploads[u].at
            PROVE  chunks'[i] = Parse[uploads[u].kind][i]
        <4>1. CASE i = uploads[u].at
          BY <4>1, <3>2
        <4>2. CASE i # uploads[u].at
          <5>1. i \in 1..(uploads[u].at - 1) /\ i \in DOMAIN Parse[uploads[u].kind]
            BY <4>2, <1>0, <1>1, <3>1, ParseFacts
          <5>2. chunks[i] = Parse[uploads[u].kind][i] /\ i \in Positions
            BY <5>1, <3>1, <3>3, <1>0, <1>1, ParseFacts
          <5>3. QED
            BY <5>2, <4>2, <3>2
        <4>3. QED
          BY <4>1, <4>2
      <3>4. uploads'[u].at > 0 /\ uploads'[u].at - 1 = uploads[u].at
        BY <3>1, <1>0
      <3>5. QED
        BY <3>1, <3>3, <3>4, <1>1 DEF OnChunk
    <2>6. CASE Look(u) \/ Upsert(u)
      <3>1. uploads'[u].phase \in {"answered", "looked", "scheduled"}
        BY <2>6, <1>0 DEF Look, Upsert, Move, Upload
      <3>2. QED
        BY <3>1 DEF Working, OnChunk
    <2>7. CASE BatchAborts(u) \/ FindFailures(u) \/ MarkCompleted(u) \/ MarkFailed(u) \/ Die(u)
      <3>1. uploads'[u].phase \in {"failing", "completed", "failed", "dead"}
        <4>1. CASE BatchAborts(u) \/ FindFailures(u)
          BY <4>1, <1>0 DEF BatchAborts, FindFailures, Move, Upload
        <4>2. CASE MarkCompleted(u)
          BY <4>2, <1>0 DEF MarkCompleted, Ended, Move, Upload
        <4>3. CASE MarkFailed(u)
          BY <4>3, <1>0 DEF MarkFailed, Ended, Move, Upload
        <4>4. CASE Die(u)
          BY <4>4, <1>0 DEF Die, Ended, Move, Upload
        <4>5. QED
          BY <2>7, <4>1, <4>2, <4>3, <4>4
      <3>2. QED
        BY <3>1 DEF Working, OnChunk
    <2>8. QED
      BY <2>1, <2>2, <2>3, <2>4, <2>5, <2>6, <2>7 DEF Step, TaskGoesOn, TaskFails
  <1>4. \A v \in Uploads : Seen(v)' /\ Holds(v)'
    BY <1>2, <1>3
  <1>5. QED
    BY <1>4 DEF WorkOK

\* A verdict of completed is written over a whole file, and nothing unwrites a chunk.
LEMMA CompletedStep ==
    ASSUME UploadInv, NEW u \in Uploads, Step(u)
    PROVE  Completed'
  <1>0. /\ uploads[u].at \in Nat /\ uploads[u].kind \in Kinds /\ ledger \in Row
        /\ uploads[u].at <= Len(Parse[uploads[u].kind]) + 1
    BY DEF UploadInv, TypeOK, Upload
  <1>1. CASE MarkCompleted(u)
    <2> DEFINE k == uploads[u].kind
    <2>1. /\ uploads[u].phase = "chunking" /\ ~uploads[u].failed /\ ~(uploads[u].at <= Len(Parse[k]))
          /\ chunks' = chunks
      BY <1>1 DEF MarkCompleted, BatchEnds, HasChunk, Complete
    <2>2. Parse[k] # <<>> /\ \A i \in 1..(uploads[u].at - 1) : chunks[i] = Parse[k][i]
      BY <2>1 DEF UploadInv, WorkOK, Working
    <2>3. uploads[u].at - 1 = Len(Parse[k]) /\ DOMAIN Parse[k] = 1..Len(Parse[k])
      BY <2>1, <1>0, ParseFacts
    <2>4. ledger'.count = Len(Parse[k])
      BY <1>1, <1>0 DEF MarkCompleted, Row
    <2>5. QED
      BY <1>0, <2>1, <2>2, <2>3, <2>4 DEF Completed
  <1>2. CASE ~MarkCompleted(u)
    <2>1. ledger'.status = "completed" => ledger' = ledger
      BY <1>0, <1>2 DEF Step, TaskGoesOn, TaskFails, Look, Upsert, Start, Claim, Buy, BuyFails, Store, StoreFails,
         BatchAborts, FindFailures, MarkFailed, Die, ProcessingRow, Absent, FailedRow, Row
    <2>2. ASSUME ledger'.status = "completed"
          PROVE  \E k \in Kinds : /\ Parse[k] # <<>> /\ ledger'.count = Len(Parse[k])
                                  /\ \A i \in DOMAIN Parse[k] : chunks'[i] = Parse[k][i]
      <3>1. PICK k \in Kinds : /\ Parse[k] # <<>> /\ ledger.count = Len(Parse[k])
                               /\ \A i \in DOMAIN Parse[k] : chunks[i] = Parse[k][i]
        BY <2>1, <2>2 DEF UploadInv, Completed
      <3>2. \A i \in DOMAIN Parse[k] : chunks'[i] = chunks[i]
        <4>1. CASE Store(u)
          BY <4>1, <3>1, StoreFacts, ParseFacts
        <4>2. CASE ~Store(u)
          BY <4>2, Others
        <4>3. QED
          BY <4>1, <4>2
      <3>3. QED
        BY <2>1, <2>2, <3>1, <3>2
    <2>3. QED
      BY <2>2 DEF Completed
  <1>3. QED
    BY <1>1, <1>2

Buying(u, i) == uploads[u].phase = "bought" /\ uploads[u].at = i

\* A step of u changes who has bought a chunk only through u, and u was and is alone.
LEMMA BoughtStep ==
    ASSUME UploadInv, NEW u \in Uploads, Step(u), NEW i \in Positions
    PROVE  /\ ~Buying(u, i) /\ ~Buying(u, i)' => (BoughtAt(i)' <=> BoughtAt(i))
           /\ Buying(u, i) /\ ~Buying(u, i)' => BoughtAt(i) /\ ~BoughtAt(i)'
           /\ OnChunk(u) /\ uploads[u].at = i /\ ~Buying(u, i) /\ Buying(u, i)' => ~BoughtAt(i) /\ BoughtAt(i)'
  <1>1. \A v \in Uploads \ {u} : Buying(v, i)' <=> Buying(v, i)
    BY Others DEF Buying
  <1>2. BoughtAt(i) <=> \E v \in Uploads : Buying(v, i)
    BY DEF BoughtAt, Buying
  <1>3. BoughtAt(i)' <=> \E v \in Uploads : Buying(v, i)'
    BY DEF BoughtAt, Buying
  <1>4. OnChunk(u) /\ uploads[u].at = i => \A v \in Uploads \ {u} : ~Buying(v, i)
    BY DEF UploadInv, WorkOK, OnChunk, Buying, Exclusive
  <1>5. Buying(u, i) => OnChunk(u) /\ uploads[u].at = i
    BY DEF Buying, OnChunk
  <1>6. QED
    BY <1>1, <1>2, <1>3, <1>4, <1>5

\* Each successful call stays in one of its three places.
LEMMA AccountsStep ==
    ASSUME UploadInv, NEW u \in Uploads, Step(u)
    PROVE  Accounts'
  <1>0. /\ uploads \in [Uploads -> Upload] /\ uploads[u] \in Upload /\ uploads[u].at \in Nat
        /\ paid \in [Positions -> Nat] /\ lost \in [Positions -> Nat]
    BY DEF UploadInv, TypeOK, Upload
  <1>1. SUFFICES ASSUME NEW i \in Positions
                 PROVE  paid'[i] = lost'[i] + (IF chunks'[i] # None THEN 1 ELSE 0) + (IF BoughtAt(i)' THEN 1 ELSE 0)
    BY DEF Accounts
  <1>2. /\ paid[i] = lost[i] + (IF chunks[i] # None THEN 1 ELSE 0) + (IF BoughtAt(i) THEN 1 ELSE 0)
        /\ paid[i] \in Nat /\ lost[i] \in Nat
    BY <1>0 DEF UploadInv, Accounts
  <1>3. CASE Buy(u)
    <2>1. /\ uploads'[u].phase = "bought" /\ uploads'[u].at = uploads[u].at /\ uploads[u].phase = "locked"
          /\ chunks' = chunks /\ lost' = lost
          /\ paid'[i] = IF i = uploads[u].at THEN paid[i] + 1 ELSE paid[i]
      BY <1>3, <1>0 DEF Buy, Move, Upload
    <2>2. i = uploads[u].at => ~BoughtAt(i) /\ BoughtAt(i)'
      BY <2>1, BoughtStep DEF Buying, OnChunk
    <2>3. i # uploads[u].at => (BoughtAt(i)' <=> BoughtAt(i))
      BY <2>1, BoughtStep DEF Buying
    <2>4. QED
      BY <1>2, <2>1, <2>2, <2>3
  <1>4. CASE Store(u)
    <2>1. uploads'[u].phase = "chunking" /\ uploads[u].phase = "bought" /\ paid' = paid /\ lost' = lost
      BY <1>4, <1>0 DEF Store, Move, Upload
    <2>2. i = uploads[u].at => BoughtAt(i) /\ ~BoughtAt(i)' /\ chunks[i] = None /\ chunks'[i] # None
      BY <1>4, <2>1, BoughtStep, StoreFacts DEF Buying
    <2>3. i # uploads[u].at => (BoughtAt(i)' <=> BoughtAt(i)) /\ chunks'[i] = chunks[i]
      BY <1>4, <2>1, BoughtStep, StoreFacts DEF Buying
    <2>4. QED
      BY <1>2, <2>1, <2>2, <2>3
  <1>5. CASE StoreFails(u) \/ BatchAborts(u) \/ Die(u)
    <2>1. paid' = paid /\ chunks' = chunks /\ Losing(u)
      BY <1>5 DEF StoreFails, BatchAborts, Die
    <2>2. uploads'[u].phase \in {"chunking", "failing", "dead"}
      <3>1. CASE StoreFails(u)
        BY <3>1, <1>0 DEF StoreFails, Move, Upload
      <3>2. CASE BatchAborts(u)
        BY <3>2, <1>0 DEF BatchAborts, Move, Upload
      <3>3. CASE Die(u)
        BY <3>3, <1>0 DEF Die, Ended, Move, Upload
      <3>4. QED
        BY <1>5, <3>1, <3>2, <3>3
    <2>3. ~Buying(u, i)'
      BY <2>2 DEF Buying
    <2>4. CASE Buying(u, i)
      <3>1. BoughtAt(i) /\ ~BoughtAt(i)' /\ lost'[i] = lost[i] + 1
        BY <2>1, <2>3, <2>4, <1>0, BoughtStep DEF Losing, Buying
      <3>2. QED
        BY <3>1, <1>2, <2>1
    <2>5. CASE ~Buying(u, i)
      <3>1. (BoughtAt(i)' <=> BoughtAt(i)) /\ lost'[i] = lost[i]
        BY <2>1, <2>3, <2>5, <1>0, BoughtStep DEF Losing, Buying
      <3>2. QED
        BY <3>1, <1>2, <2>1
    <2>6. QED
      BY <2>4, <2>5
  <1>6. CASE Look(u) \/ Upsert(u) \/ Start(u) \/ Claim(u) \/ BuyFails(u) \/ MarkCompleted(u)
             \/ FindFailures(u) \/ MarkFailed(u)
    <2>1. paid' = paid /\ chunks' = chunks /\ lost' = lost /\ uploads[u].phase # "bought"
      BY <1>6 DEF Look, Upsert, Start, Claim, HasChunk, BuyFails, MarkCompleted, BatchEnds, FindFailures, MarkFailed
    <2>2. uploads'[u].phase # "bought"
      <3>1. CASE Look(u) \/ Upsert(u)
        BY <3>1, <1>0 DEF Look, Upsert, Move, Upload
      <3>2. CASE Start(u)
        BY <3>2, <1>0 DEF Start, Move, Upload
      <3>3. CASE Claim(u)
        BY <3>3, <1>0 DEF Claim, HasChunk, Move, Upload
      <3>4. CASE BuyFails(u)
        BY <3>4, <1>0 DEF BuyFails, Move, Upload
      <3>5. CASE MarkCompleted(u) \/ MarkFailed(u)
        <4>1. uploads'[u].phase = "completed" \/ uploads'[u].phase = "failed"
          <5>1. CASE MarkCompleted(u)
            BY <5>1, <1>0 DEF MarkCompleted, Ended, Move, Upload
          <5>2. CASE MarkFailed(u)
            BY <5>2, <1>0 DEF MarkFailed, Ended, Move, Upload
          <5>3. QED
            BY <3>5, <5>1, <5>2
        <4>2. QED
          BY <4>1
      <3>6. CASE FindFailures(u)
        BY <3>6, <1>0 DEF FindFailures, Move, Upload
      <3>7. QED
        BY <1>6, <3>1, <3>2, <3>3, <3>4, <3>5, <3>6
    <2>3. BoughtAt(i)' <=> BoughtAt(i)
      BY <2>1, <2>2, BoughtStep DEF Buying
    <2>4. QED
      BY <1>2, <2>1, <2>3
  <1>7. QED
    BY <1>3, <1>4, <1>5, <1>6 DEF Step, TaskGoesOn, TaskFails

-----------------------------------------------------------------------------
\* Types need no assumption on the parses.
LEMMA ShapeInit ==
    ASSUME Init
    PROVE  Shape /\ Waiting
  <1>1. \A u \in Uploads : /\ uploads[u].phase = "idle" /\ uploads[u].kind \in Kinds /\ uploads[u].at = 0
                           /\ uploads[u].locks = {} /\ uploads[u] \in Upload
                            <2>1. SUFFICES ASSUME NEW u \in Uploads
                   PROVE  /\ uploads[u].phase = "idle" /\ uploads[u].kind \in Kinds /\ uploads[u].at = 0
                          /\ uploads[u].locks = {} /\ uploads[u] \in Upload
      OBVIOUS
    <2>2. PICK k \in Kinds :
              uploads[u] = [phase |-> "idle", kind |-> k, at |-> 0, failed |-> FALSE, locks |-> {}]
      BY DEF Init
    <2>3. uploads[u] \in Upload
      BY <2>2 DEF Upload, Phases
    <2>4. QED
      BY <2>2, <2>3
  <1>2. TypeOK
    <2>1. uploads \in [Uploads -> Upload]
      BY <1>1 DEF Init
    <2>2. \A u \in Uploads : uploads[u].at <= Len(Parse[uploads[u].kind]) + 1
      BY <1>1, ParseFacts
    <2>3. QED
      BY <2>1, <2>2 DEF Init, TypeOK, Absent, Row
  <1>3. AtOK
    BY <1>1 DEF AtOK, Working, OnChunk
  <1>4. Waiting
    BY DEF Init, Absent, Waiting
  <1>5. QED
    BY <1>2, <1>3, <1>4 DEF Shape

LEMMA UploadInit ==
    ASSUME Init
    PROVE  UploadInv
  <1>1. TypeOK
    BY ShapeInit DEF Shape
  <1>2. \A u \in Uploads : uploads[u].phase = "idle" /\ uploads[u].locks = {}
    <2>1. SUFFICES ASSUME NEW u \in Uploads
                   PROVE  uploads[u].phase = "idle" /\ uploads[u].locks = {}
      OBVIOUS
    <2>2. PICK k \in Kinds :
              uploads[u] = [phase |-> "idle", kind |-> k, at |-> 0, failed |-> FALSE, locks |-> {}]
      BY DEF Init
    <2>3. QED
      BY <2>2
  <1>3. TextsOK
    BY DEF Init, TextsOK
  <1>4. WorkOK /\ Exclusive
    BY <1>2 DEF WorkOK, Working, OnChunk, Exclusive
  <1>5. Completed
    BY DEF Init, Completed, Absent
  <1>6. Accounts
    BY <1>2 DEF Init, Accounts, BoughtAt
  <1>7. QED
    BY <1>1, <1>3, <1>4, <1>5, <1>6 DEF UploadInv

LEMMA ShapeInvariant == Spec => [](Shape /\ Waiting)
  <1>1. Init => Shape /\ Waiting
    BY ShapeInit
  <1>2. Shape /\ Waiting /\ [Next]_vars => (Shape /\ Waiting)'
    <2>1. SUFFICES ASSUME Shape, Waiting, [Next]_vars
                   PROVE  (Shape /\ Waiting)'
      OBVIOUS
    <2>2. CASE \E u \in Uploads : Step(u)
      BY <2>1, <2>2, TypeStep, AtStep, WaitingStep DEF Shape
    <2>3. CASE UNCHANGED vars
      BY <2>1, <2>3 DEF vars, Shape, TypeOK, AtOK, Working, OnChunk, Waiting
    <2>4. QED
      BY <2>1, <2>2, <2>3 DEF Next, Step
  <1>3. QED
    BY <1>1, <1>2, PTL DEF Spec

LEMMA UploadStep ==
    ASSUME SingleParse, UploadInv, [Next]_vars
    PROVE  UploadInv'
  <1>0. Shape
    BY DEF UploadInv, WorkOK, Shape, AtOK
  <1>1. CASE \E u \in Uploads : Step(u)
    BY <1>1, <1>0, TypeStep, TextsStep, WorkStep, ExclusiveStep, CompletedStep, AccountsStep DEF UploadInv
  <1>2. CASE UNCHANGED vars
    BY <1>2 DEF vars, UploadInv, TypeOK, TextsOK, WorkOK, Working, OnChunk, Exclusive, Completed, Accounts, BoughtAt
  <1>3. QED
    BY <1>1, <1>2 DEF Next, Step

LEMMA UploadInvariant ==
    ASSUME SingleParse
    PROVE  Spec => []UploadInv
  <1>1. Init => UploadInv
    BY UploadInit
  <1>2. UploadInv /\ [Next]_vars => UploadInv'
    BY UploadStep
  <1>3. QED
    BY <1>1, <1>2, PTL DEF Spec

-----------------------------------------------------------------------------
\* Every row, chunk and task is of its type and the ledger's columns go with
\* its status (documents.py:138-159), for any file, uploads and kinds.
THEOREM UploadTypeCorrect == Spec => []TypeOK
  <1>1. Shape => TypeOK
    BY DEF Shape
  <1>2. QED
    BY <1>1, ShapeInvariant, PTL

\* The row stays at processing only for an upload that is still at work, or was
\* killed (documents.py:327-331), for any file.
THEOREM SomebodyCares == Spec => []NobodyForgotten
  <1>1. Waiting => NobodyForgotten
    BY DEF Waiting, NobodyForgotten, Working
  <1>2. QED
    BY <1>1, ShapeInvariant, PTL

\* A file that is answered as completed is in the corpus, every chunk of it and
\* nothing else (documents.py:342-351).
THEOREM DocumentWhole ==
    ASSUME SingleParse
    PROVE  Spec => []WholeDocument
  <1>1. ASSUME UploadInv
        PROVE  WholeDocument
    <2>1. SUFFICES ASSUME ledger.status = "completed"
                   PROVE  \E k \in Kinds : /\ ledger.count = Len(Parse[k])
                                           /\ \A i \in Positions :
                                                 chunks[i] = IF i \in DOMAIN Parse[k] THEN Parse[k][i] ELSE None
      BY DEF WholeDocument
    <2>2. PICK k \in Kinds : /\ Parse[k] # <<>> /\ ledger.count = Len(Parse[k])
                             /\ \A i \in DOMAIN Parse[k] : chunks[i] = Parse[k][i]
      BY <1>1, <2>1 DEF UploadInv, Completed
    <2>3. ASSUME NEW i \in Positions
          PROVE  i \in DOMAIN Parse[k]
      <3>1. PICK j \in Kinds : i \in DOMAIN Parse[j]
        BY PositionFacts
      <3>2. Parse[j] # <<>>
        BY <3>1, ParseFacts
      <3>3. QED
        BY <2>2, <3>1, <3>2 DEF SingleParse
    <2>4. QED
      BY <2>2, <2>3
  <1>2. QED
    BY <1>1, UploadInvariant, PTL

\* A chunk is paid for once, whatever is retried and whatever races, but for the
\* calls whose result was lost before it was stored (documents.py:29-33).
THEOREM ChunksPaidOnce ==
    ASSUME SingleParse
    PROVE  Spec => []PaidOnce
  <1>1. ASSUME UploadInv
        PROVE  PaidOnce
    <2>1. SUFFICES ASSUME NEW i \in Positions
                   PROVE  paid[i] <= lost[i] + 1
      BY DEF PaidOnce
    <2>2. paid[i] = lost[i] + (IF chunks[i] # None THEN 1 ELSE 0) + (IF BoughtAt(i) THEN 1 ELSE 0)
      BY <1>1 DEF UploadInv, Accounts
    <2>3. BoughtAt(i) => chunks[i] = None
      BY <1>1 DEF BoughtAt, OnChunk, UploadInv, WorkOK
    <2>4. lost[i] \in Nat
      BY <1>1 DEF UploadInv, TypeOK
    <2>5. QED
      BY <2>2, <2>3, <2>4
  <1>2. QED
    BY <1>1, UploadInvariant, PTL

-----------------------------------------------------------------------------
(* What EveryTaskEnds rests on beside fairness: nobody waits in a circle,  *)
(* and nobody turns back.                                                  *)

\* A task at work has locked the chunk it embeds, and at most those before it
\* whose calls failed; no other upload has locked any.
LocksBehind ==
    \A u \in Uploads :
        /\ ~Working(u) => uploads[u].locks = {}
        /\ \A i \in uploads[u].locks :
              i \in Nat /\ (i < uploads[u].at \/ (OnChunk(u) /\ i = uploads[u].at))

\* u is at a chunk whose lock v keeps.
WaitsFor(u, v) == u # v /\ HasChunk(u) /\ uploads[u].at \in uploads[v].locks

\* In every set of tasks there is one that waits for none of the others.
NobodyWaitsInACircle ==
    \A S \in SUBSET Uploads : IsFiniteSet(S) /\ S # {} => \E u \in S : \A v \in S : ~WaitsFor(u, v)

Stage == [idle |-> 0, looked |-> 1, scheduled |-> 2, chunking |-> 3, locked |-> 3, bought |-> 3,
          failing |-> 4, answered |-> 5, completed |-> 5, failed |-> 5, dead |-> 5]

Turn == [chunking |-> 0, locked |-> 1, bought |-> 2]

\* y is further on than x.
Further(x, y) ==
    \/ Stage[x.phase] < Stage[y.phase]
    \/ /\ Stage[x.phase] = 3 /\ Stage[y.phase] = 3
       /\ \/ x.at < y.at
          \/ x.at = y.at /\ Turn[x.phase] < Turn[y.phase]

\* Whatever fails, no upload repeats a step or a chunk.
NobodyTurnsBack ==
    [][\A u \in Uploads : uploads'[u] # uploads[u] => Further(uploads[u], uploads'[u])]_vars

\* A set of numbers has a least one.
LEMMA Least ==
    ASSUME NEW S \in SUBSET Nat, S # {}
    PROVE  \E i \in S : \A j \in S : i <= j
  <1>1. PICK i \in S : \A j \in S : ~(<<j, i>> \in OpToRel(<, Nat))
    BY NatLessThanWellFounded, WFMin
  <1>2. \A j \in S : ~(j < i)
    BY <1>1 DEF OpToRel
  <1>3. QED
    BY <1>2

\* In a finite set of uploads one is furthest, by the number each has.
LEMMA Furthest ==
    ASSUME NEW S, IsFiniteSet(S), S # {}, NEW f \in [S -> Nat]
    PROVE  \E u \in S : \A v \in S : f[v] <= f[u]
  <1> DEFINE Bad(T) == T # {} /\ \A u \in T : \E v \in T : f[u] < f[v]
             Sizes == {Cardinality(T) : T \in {X \in SUBSET S : Bad(X)}}
  <1>1. SUFFICES ASSUME Bad(S)
                 PROVE  FALSE
    OBVIOUS
  <1>2. \A T \in SUBSET S : IsFiniteSet(T) /\ Cardinality(T) \in Nat
    BY FS_Subset, FS_CardinalityType
  <1>3. Sizes \in SUBSET Nat /\ Sizes # {}
    BY <1>1, <1>2
  <1>4. PICK n \in Sizes : \A m \in Sizes : n <= m
    BY <1>3, Least
  <1>5. PICK T \in SUBSET S : Bad(T) /\ n = Cardinality(T)
    BY <1>4
  <1>6. PICK u \in T : TRUE
    BY <1>5
  <1>7. Cardinality(T \ {u}) = n - 1 /\ n \in Nat
    BY <1>2, <1>5, <1>6, FS_RemoveElement
  <1>8. Bad(T \ {u})
    <2>1. PICK v \in T : f[u] < f[v]
      BY <1>5, <1>6
    <2>2. v \in T \ {u} /\ f[u] \in Nat /\ f[v] \in Nat
      BY <2>1, <1>5
    <2>3. ASSUME NEW w \in T \ {u}
          PROVE  \E x \in T \ {u} : f[w] < f[x]
      <3>1. PICK x \in T : f[w] < f[x]
        BY <1>5
      <3>2. f[w] \in Nat /\ f[x] \in Nat
        BY <1>5, <3>1
      <3>3. CASE x = u
        BY <3>1, <3>2, <3>3, <2>1, <2>2
      <3>4. CASE x # u
        BY <3>1, <3>4
      <3>5. QED
        BY <3>3, <3>4
    <2>4. QED
      BY <2>2, <2>3
  <1>9. n - 1 \in Sizes
    BY <1>7, <1>8
  <1>10. QED
    BY <1>4, <1>7, <1>9

LEMMA LocksInit ==
    ASSUME Init
    PROVE  LocksBehind
  <1>1. \A u \in Uploads : uploads[u].locks = {}
    BY DEF Init
  <1>2. QED
    BY <1>1 DEF LocksBehind

\* What a step does to its own task: it comes to another stage, or goes on in the
\* loop over the chunks.
LEMMA OwnStep ==
    ASSUME Shape, NEW u \in Uploads, Step(u)
    PROVE  LET x == uploads[u]
               y == uploads'[u]
           IN  \/ /\ y.locks = {} \/ (y.locks = x.locks /\ ~Working(u))
                  /\ Stage[x.phase] < Stage[y.phase]
               \/ HasChunk(u) /\ y.locks = {} /\ y.phase = "chunking" /\ y.at = x.at + 1
               \/ HasChunk(u) /\ y.locks = x.locks \cup {x.at} /\ y.phase = "locked" /\ y.at = x.at
               \/ x.phase = "locked" /\ y.locks = x.locks /\ y.phase = "bought" /\ y.at = x.at
               \/ x.phase = "locked" /\ y.locks = x.locks /\ y.phase = "chunking" /\ y.at = x.at + 1
               \/ x.phase = "bought" /\ y.locks = {} /\ y.phase = "chunking" /\ y.at = x.at + 1
  <1> DEFINE x == uploads[u]
             y == uploads'[u]
  <1>0. uploads \in [Uploads -> Upload] /\ x \in Upload /\ x.at \in Nat /\ x.phase \in Phases
    BY DEF Shape, TypeOK, Upload
  <1>1. CASE Look(u) \/ Upsert(u) \/ Start(u)
    <2>1. y.locks = x.locks /\ ~Working(u)
      <3>1. CASE Look(u)
        BY <3>1, <1>0 DEF Look, Upload, Working
      <3>2. CASE Upsert(u)
        BY <3>2, <1>0 DEF Upsert, Move, Upload, Working
      <3>3. CASE Start(u)
        BY <3>3, <1>0 DEF Start, Move, Upload, Working
      <3>4. QED
        BY <1>1, <3>1, <3>2, <3>3
    <2>2. \/ x.phase = "idle" /\ y.phase \in {"answered", "looked"}
          \/ x.phase = "looked" /\ y.phase = "scheduled"
          \/ x.phase = "scheduled" /\ y.phase \in {"failing", "chunking"}
      BY <1>1, Phase DEF Look, Upsert, Start, Shape
    <2>3. Stage[x.phase] < Stage[y.phase]
      BY <2>2 DEF Stage
    <2>4. QED
      BY <2>1, <2>3
  <1>2. CASE BatchAborts(u) \/ MarkCompleted(u) \/ FindFailures(u) \/ MarkFailed(u) \/ Die(u)
    <2>1. y.locks = {}
      <3>1. CASE BatchAborts(u) \/ FindFailures(u)
        BY <3>1, <1>0 DEF BatchAborts, FindFailures, Move, Upload
      <3>2. CASE MarkCompleted(u) \/ MarkFailed(u) \/ Die(u)
        <4>1. Ended(u, "completed") \/ Ended(u, "failed") \/ Ended(u, "dead")
          BY <3>2 DEF MarkCompleted, MarkFailed, Die
        <4>2. QED
          BY <4>1, <1>0 DEF Ended, Move, Upload
      <3>3. QED
        BY <1>2, <3>1, <3>2
    <2>2. \/ x.phase \in {"chunking", "bought"} /\ y.phase \in {"failing", "completed"}
          \/ x.phase = "failing" /\ y.phase = "failed"
          \/ x.phase \in Phases \ (Ends \cup {"idle"}) /\ y.phase = "dead"
      BY <1>0, <1>2, Phase DEF BatchAborts, MarkCompleted, FindFailures, MarkFailed, Die, Live, BatchEnds, Shape
    <2>3. Stage[x.phase] < Stage[y.phase]
      BY <2>2 DEF Stage, Phases, Ends
    <2>4. QED
      BY <2>1, <2>3
  <1>3. CASE Claim(u)
    <2>1. HasChunk(u) /\ x.phase = "chunking"
      BY <1>3 DEF Claim, HasChunk
    <2>2. CASE chunks[x.at] = Text(u)
      <3>1. uploads' = [uploads EXCEPT ![u] = [x EXCEPT !.at = x.at + 1, !.locks = {}]]
        BY <1>3, <2>2 DEF Claim, Move
      <3>2. y = [x EXCEPT !.at = x.at + 1, !.locks = {}]
        BY <3>1, <1>0
      <3>3. QED
        BY <2>1, <3>2, <1>0 DEF Upload
    <2>3. CASE chunks[x.at] # Text(u)
      <3>1. uploads' = [uploads EXCEPT ![u] = [x EXCEPT !.phase = "locked", !.locks = x.locks \cup {x.at}]]
        BY <1>3, <2>3 DEF Claim, Move
      <3>2. y = [x EXCEPT !.phase = "locked", !.locks = x.locks \cup {x.at}]
        BY <3>1, <1>0
      <3>3. QED
        BY <2>1, <3>2, <1>0 DEF Upload
    <2>4. QED
      BY <2>2, <2>3
  <1>4. CASE Buy(u)
    BY <1>4, <1>0 DEF Buy, Move, Upload
  <1>5. CASE BuyFails(u)
    BY <1>5, <1>0 DEF BuyFails, Move, Upload
  <1>6. CASE Store(u)
    BY <1>6, <1>0 DEF Store, Move, Upload
  <1>7. CASE StoreFails(u)
    BY <1>7, <1>0 DEF StoreFails, Move, Upload
  <1>8. QED
    BY <1>1, <1>2, <1>3, <1>4, <1>5, <1>6, <1>7 DEF Step, TaskGoesOn, TaskFails

LEMMA OneMoves ==
    ASSUME Shape, NEW u \in Uploads, Step(u)
    PROVE  \A v \in Uploads \ {u} : uploads'[v] = uploads[v]
  <1>1. uploads \in [Uploads -> Upload]
    BY DEF Shape, TypeOK
  <1>2. QED
    BY <1>1 DEF Step, TaskGoesOn, TaskFails, Look, Upsert, Start, Claim, Buy, BuyFails, Store, StoreFails,
       BatchAborts, MarkCompleted, FindFailures, MarkFailed, Die, Ended, Move

LEMMA LocksStep ==
    ASSUME Shape, Shape', LocksBehind, NEW u \in Uploads, Step(u)
    PROVE  LocksBehind'
  <1> DEFINE x == uploads[u]
             y == uploads'[u]
             Behind(v) == /\ ~Working(v) => uploads[v].locks = {}
                          /\ \A i \in uploads[v].locks :
                                i \in Nat /\ (i < uploads[v].at \/ (OnChunk(v) /\ i = uploads[v].at))
  <1>0. x.at \in Nat /\ y.at \in Nat /\ x.phase \in Phases /\ Behind(u)
    BY DEF Shape, TypeOK, Upload, LocksBehind
  <1>1. \A v \in Uploads \ {u} : Behind(v)'
    BY OneMoves DEF LocksBehind, Working, OnChunk
  <1>2. CASE y.locks = {}
    BY <1>1, <1>2 DEF LocksBehind
  <1>3. CASE y.locks = x.locks /\ ~Working(u)
    BY <1>0, <1>1, <1>3 DEF LocksBehind
  <1>4. CASE HasChunk(u) /\ y.locks = x.locks \cup {x.at} /\ y.phase = "locked" /\ y.at = x.at
    <2>1. Working(u)' /\ OnChunk(u)' /\ ~OnChunk(u)
      BY <1>4 DEF Working, OnChunk, HasChunk
    <2>2. Behind(u)'
      BY <1>0, <1>4, <2>1
    <2>3. QED
      BY <1>1, <2>2 DEF LocksBehind
  <1>5. CASE x.phase = "locked" /\ y.locks = x.locks /\ y.phase = "bought" /\ y.at = x.at
    <2>1. Working(u)' /\ OnChunk(u)'
      BY <1>5 DEF Working, OnChunk
    <2>2. Behind(u)'
      BY <1>0, <1>5, <2>1
    <2>3. QED
      BY <1>1, <2>2 DEF LocksBehind
  <1>6. CASE x.phase = "locked" /\ y.locks = x.locks /\ y.phase = "chunking" /\ y.at = x.at + 1
    <2>1. Working(u)'
      BY <1>6 DEF Working
    <2>2. \A i \in x.locks : i \in Nat /\ i < y.at
      BY <1>0, <1>6
    <2>3. Behind(u)'
      BY <1>6, <2>1, <2>2
    <2>4. QED
      BY <1>1, <2>3 DEF LocksBehind
  <1>7. QED
    BY <1>2, <1>3, <1>4, <1>5, <1>6, OwnStep

LEMMA LocksInvariant == Spec => [](Shape /\ LocksBehind)
  <1>1. Init => LocksBehind
    BY LocksInit
  <1>2. Shape /\ Shape' /\ LocksBehind /\ [Next]_vars => LocksBehind'
    <2>1. SUFFICES ASSUME Shape, Shape', LocksBehind, [Next]_vars
                   PROVE  LocksBehind'
      OBVIOUS
    <2>2. CASE \E u \in Uploads : Step(u)
      BY <2>1, <2>2, LocksStep
    <2>3. CASE UNCHANGED vars
      BY <2>1, <2>3 DEF vars, LocksBehind, Working, OnChunk
    <2>4. QED
      BY <2>1, <2>2, <2>3 DEF Next, Step
  <1>3. QED
    BY <1>1, <1>2, ShapeInvariant, PTL DEF Spec

\* However many tasks keep the locks of chunks whose calls failed (pipeline.py:181),
\* tasks never wait for each other in a circle: whoever waits is behind the one
\* it waits for, and chunks are numbered.
THEOREM TasksNeverDeadlock == Spec => []NobodyWaitsInACircle
  <1>1. ASSUME Shape, LocksBehind
        PROVE  NobodyWaitsInACircle
    <2>1. SUFFICES ASSUME NEW S \in SUBSET Uploads, IsFiniteSet(S), S # {}
                   PROVE  \E u \in S : \A v \in S : ~WaitsFor(u, v)
      BY DEF NobodyWaitsInACircle
    <2> DEFINE f == [u \in S |-> 2 * uploads[u].at + (IF OnChunk(u) THEN 1 ELSE 0)]
    <2>1a. \A u \in Uploads : uploads[u].at \in Nat
      BY <1>1 DEF Shape, TypeOK, Upload
    <2>2. f \in [S -> Nat]
      BY <2>1a
    <2>3. PICK u \in S : \A v \in S : f[v] <= f[u]
      BY <2>1, <2>2, Furthest
    <2>4. ASSUME NEW v \in S, WaitsFor(u, v)
          PROVE  FALSE
      <3>1. uploads[u].at \in uploads[v].locks /\ ~OnChunk(u)
        BY <2>4 DEF WaitsFor, HasChunk, OnChunk
      <3>2. uploads[u].at < uploads[v].at \/ (OnChunk(v) /\ uploads[u].at = uploads[v].at)
        BY <1>1, <3>1 DEF LocksBehind
      <3>3. f[u] < f[v]
        BY <3>1, <3>2, <2>1a
      <3>4. QED
        BY <3>3, <2>2, <2>3
    <2>5. QED
      BY <2>3, <2>4
  <1>2. QED
    BY <1>1, LocksInvariant, PTL

\* Whatever fails, an upload goes from stage to stage and from chunk to chunk and
\* never back: it is at its end after three steps a chunk and three more, unless
\* it waits (_process_upload_background, embed_and_insert_chunks).
THEOREM UploadsGoOn == Spec => NobodyTurnsBack
  <1>1. ASSUME Shape, [Next]_vars
        PROVE  [\A u \in Uploads : uploads'[u] # uploads[u] => Further(uploads[u], uploads'[u])]_vars
    <2>1. CASE UNCHANGED vars
      BY <2>1
    <2>2. CASE \E u \in Uploads : Step(u)
      <3>1. PICK u \in Uploads : Step(u)
        BY <2>2
      <3>2. \A v \in Uploads \ {u} : uploads'[v] = uploads[v]
        BY <1>1, <3>1, OneMoves
      <3>3. Further(uploads[u], uploads'[u])
        <4> DEFINE x == uploads[u]
                   y == uploads'[u]
        <4>1. x.at \in Nat
          BY <1>1 DEF Shape, TypeOK, Upload
        <4>2. CASE Stage[x.phase] < Stage[y.phase]
          BY <4>2 DEF Further
        <4>3. CASE x.phase \in {"chunking", "locked", "bought"} /\ y.phase = "chunking" /\ y.at = x.at + 1
          BY <4>1, <4>3 DEF Further, Stage
        <4>4. CASE x.phase = "chunking" /\ y.phase = "locked" /\ y.at = x.at
          BY <4>4 DEF Further, Stage, Turn
        <4>5. CASE x.phase = "locked" /\ y.phase = "bought" /\ y.at = x.at
          BY <4>5 DEF Further, Stage, Turn
        <4>6. QED
          BY <1>1, <3>1, OwnStep, <4>2, <4>3, <4>4, <4>5 DEF HasChunk
      <3>4. QED
        BY <3>2, <3>3
    <2>3. QED
      BY <1>1, <2>1, <2>2 DEF Next, Step
  <1>2. QED
    BY <1>1, ShapeInvariant, PTL DEF Spec, NobodyTurnsBack
=============================================================================
