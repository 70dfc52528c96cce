------------------------------ MODULE Uploads ------------------------------
(***************************************************************************)
(* Uploading one file: POST /documents/upload, the background task it      *)
(* schedules, and the embedding of the file's chunks.  Files with other    *)
(* bytes have other rows, chunk ids and locks; they do not interact.       *)
(*                                                                         *)
(* An upload is a request and then a task, each on a connection of its     *)
(* own.  A step ends at a commit, at a lock, or around the paid call.      *)
(***************************************************************************)
EXTENDS Naturals, Sequences, FiniteSets

CONSTANTS
    Uploads,    \* bound: uploads of this file in one behaviour
    Kinds,      \* what the file's names may make of it: pdf, docx, txt
    Texts,      \* texts of chunks
    Parse,      \* Parse[k]: the chunk texts of the file read as kind k; <<>>: it does not parse
    None

ASSUME ParseAssumption == Parse \in [Kinds -> Seq(Texts)]
ASSUME NoneAssumption == None \notin Texts \cup Nat \cup Uploads

\* A chunk's id is its position in the file (under a heading, the heading too).
Positions == UNION {DOMAIN Parse[k] : k \in Kinds}

VARIABLES
    ledger,     \* the document_uploads row
    chunks,     \* chunks[i]: the embedded text of the row with that id, or None
    uploads,    \* uploads[u]: where the upload is
    paid,       \* paid[i]: successful calls of the embeddings API for the id
    lost,       \* lost[i]: those whose result no row ever held
    latest      \* the upload that last set the row to processing

vars == <<ledger, chunks, uploads, paid, lost, latest>>

Counts == {Len(Parse[k]) : k \in Kinds}

Row == [status: {"absent", "processing", "completed", "failed"},
        reason: BOOLEAN, count: Counts \cup {None}, stamped: BOOLEAN]

Absent == [status |-> "absent", reason |-> FALSE, count |-> None, stamped |-> FALSE]

\* looked: holds the file's lock; scheduled: answered 202; locked: holds the lock of the
\* present chunk, whose text is new; bought: has its embedding.  The others are ends:
\* answered 200, completed, failed, and dead, of a task that wrote no verdict.
Phases == {"idle", "looked", "scheduled", "chunking", "locked", "bought", "failing",
           "answered", "completed", "failed", "dead"}

Ends == {"answered", "completed", "failed", "dead"}

\* failed: some chunk failed; locks: of the chunks its open transaction has locked.
Upload == [phase: Phases, kind: Kinds, at: Nat, failed: BOOLEAN, locks: SUBSET Positions]

Live(u) == uploads[u].phase \notin Ends \cup {"idle"}

Text(u) == Parse[uploads[u].kind][uploads[u].at]

Move(u, record) == uploads' = [uploads EXCEPT ![u] = record]

\* mutant: the task's connection is left open, with its transaction
Ended_KeepsLocks(u, phase) == Move(u, [uploads[u] EXCEPT !.phase = phase])

Ended(u, phase) == Move(u, [uploads[u] EXCEPT !.phase = phase, !.locks = {}])

Init ==
    /\ ledger = Absent
    /\ chunks = [i \in Positions |-> None]
    /\ uploads \in [Uploads -> {[phase |-> "idle", kind |-> k, at |-> 0, failed |-> FALSE, locks |-> {}] :
                                   k \in Kinds}]
    /\ paid = [i \in Positions |-> 0]
    /\ lost = [i \in Positions |-> 0]
    /\ latest = None

-----------------------------------------------------------------------------
(* The request. *)

FileLockFree == \A u \in Uploads : uploads[u].phase # "looked"

\* The lock and the SELECT; a completed row is returned as it is.
Look(u) ==
    /\ uploads[u].phase = "idle"
    /\ FileLockFree
    /\ uploads' = [uploads EXCEPT ![u].phase = IF ledger.status = "completed" THEN "answered" ELSE "looked"]
    /\ UNCHANGED <<ledger, chunks, paid, lost, latest>>

ProcessingRow == [Absent EXCEPT !.status = "processing"]

Upsert(u) ==
    /\ uploads[u].phase = "looked"
    /\ ledger' = ProcessingRow
    /\ latest' = u
    /\ Move(u, [uploads[u] EXCEPT !.phase = "scheduled"])
    /\ UNCHANGED <<chunks, paid, lost>>

-----------------------------------------------------------------------------
(* The task. *)

Start(u) ==
    /\ uploads[u].phase = "scheduled"
    /\ Move(u, [uploads[u] EXCEPT !.at = 1,
                   !.phase = IF Parse[uploads[u].kind] = <<>> THEN "failing" ELSE "chunking"])
    /\ UNCHANGED <<ledger, chunks, paid, lost, latest>>

HasChunk(u) == uploads[u].phase = "chunking" /\ uploads[u].at <= Len(Parse[uploads[u].kind])

\* mutant: no lock on the chunk
ChunkLockFree_Always(u, i) == TRUE

ChunkLockFree(u, i) == \A v \in Uploads \ {u} : i \notin uploads[v].locks

\* Lock the chunk and compare what is stored.  Skipping commits, which
\* releases this lock and those that failed calls have left.
Claim(u) ==
    LET i == uploads[u].at
    IN  /\ HasChunk(u)
        /\ ChunkLockFree(u, i)
        /\ Move(u, IF chunks[i] = Text(u)
                   THEN [uploads[u] EXCEPT !.at = i + 1, !.locks = {}]
                   ELSE [uploads[u] EXCEPT !.phase = "locked", !.locks = @ \cup {i}])
        /\ UNCHANGED <<ledger, chunks, paid, lost, latest>>

Buy(u) ==
    /\ uploads[u].phase = "locked"
    /\ paid' = [paid EXCEPT ![uploads[u].at] = @ + 1]
    /\ Move(u, [uploads[u] EXCEPT !.phase = "bought"])
    /\ UNCHANGED <<ledger, chunks, lost, latest>>

\* The call fails for good; the transaction stays open and keeps its locks.
BuyFails(u) ==
    /\ uploads[u].phase = "locked"
    /\ Move(u, [uploads[u] EXCEPT !.phase = "chunking", !.at = @ + 1, !.failed = TRUE])
    /\ UNCHANGED <<ledger, chunks, paid, lost, latest>>

Store(u) ==
    /\ uploads[u].phase = "bought"
    /\ chunks' = [chunks EXCEPT ![uploads[u].at] = Text(u)]
    /\ Move(u, [uploads[u] EXCEPT !.phase = "chunking", !.at = @ + 1, !.locks = {}])
    /\ UNCHANGED <<ledger, paid, lost, latest>>

\* What is bought and not stored is lost.
Losing(u) ==
    lost' = IF uploads[u].phase = "bought" THEN [lost EXCEPT ![uploads[u].at] = @ + 1] ELSE lost

\* The statement fails and is rolled back; the batch goes on.
StoreFails(u) ==
    /\ uploads[u].phase = "bought"
    /\ Losing(u)
    /\ Move(u, [uploads[u] EXCEPT !.phase = "chunking", !.at = @ + 1, !.failed = TRUE, !.locks = {}])
    /\ UNCHANGED <<ledger, chunks, paid, latest>>

\* An OperationalError aborts the batch; the last UPDATE fails; or the lock or
\* the look-up fails otherwise, and with it, in the same failed transaction,
\* every chunk that is left.  In each case the transaction is rolled back.
BatchAborts(u) ==
    /\ uploads[u].phase \in {"chunking", "bought"}
    /\ Losing(u)
    /\ Move(u, [uploads[u] EXCEPT !.phase = "failing", !.locks = {}])
    /\ UNCHANGED <<ledger, chunks, paid, latest>>

\* mutant: the failures of single chunks are not looked at
Complete_Regardless(u) == TRUE

Complete(u) == ~uploads[u].failed

BatchEnds(u) == uploads[u].phase = "chunking" /\ ~HasChunk(u)

MarkCompleted(u) ==
    /\ BatchEnds(u) /\ Complete(u)
    /\ ledger' = [ledger EXCEPT !.status = "completed", !.stamped = TRUE,
                                !.count = Len(Parse[uploads[u].kind])]
    /\ Ended(u, "completed")
    /\ UNCHANGED <<chunks, paid, lost, latest>>

FindFailures(u) ==
    /\ BatchEnds(u) /\ ~Complete(u)
    /\ Move(u, [uploads[u] EXCEPT !.phase = "failing", !.locks = {}])
    /\ UNCHANGED <<ledger, chunks, paid, lost, latest>>

\* mutant: the failure is logged and not written
FailedRow_Unwritten == ledger

FailedRow == [ledger EXCEPT !.status = "failed", !.reason = TRUE]

MarkFailed(u) ==
    /\ uploads[u].phase = "failing"
    /\ ledger' = FailedRow
    /\ Ended(u, "failed")
    /\ UNCHANGED <<chunks, paid, lost, latest>>

\* The request fails, the process ends, the task gets no connection, or its
\* connection is gone when it wants to write its verdict.
Die(u) ==
    /\ Live(u)
    /\ Losing(u)
    /\ Ended(u, "dead")
    /\ UNCHANGED <<ledger, chunks, paid, latest>>

TaskGoesOn(u) ==
    Start(u) \/ Claim(u) \/ Buy(u) \/ Store(u) \/ MarkCompleted(u) \/ FindFailures(u) \/ MarkFailed(u)

TaskFails(u) == BuyFails(u) \/ StoreFails(u) \/ BatchAborts(u)

Next == \E u \in Uploads : Look(u) \/ Upsert(u) \/ TaskGoesOn(u) \/ TaskFails(u) \/ Die(u)

\* The thread pool runs a task on while its process lives, and the statement or call it
\* is at comes back.  Nothing has to fail, and a task that waits for a lock has
\* no step until the lock is free.  Nobody has to upload.
Fairness == \A u \in Uploads : WF_vars(Upsert(u) \/ TaskGoesOn(u))

Spec == Init /\ [][Next]_vars /\ Fairness

-----------------------------------------------------------------------------
(* Properties. *)

\* The row's columns go with its status, and every upload is somewhere in its file.
TypeOK ==
    /\ ledger \in Row
    /\ ledger.status \in {"absent", "processing"} =>
          ~ledger.reason /\ ledger.count = None /\ ~ledger.stamped
    /\ ledger.status = "completed" => ledger.stamped /\ ledger.count # None
    /\ ledger.status = "failed" => ledger.reason
    /\ chunks \in [Positions -> Texts \cup {None}]
    /\ uploads \in [Uploads -> Upload]
    /\ \A u \in Uploads : uploads[u].at <= Len(Parse[uploads[u].kind]) + 1
    /\ paid \in [Positions -> Nat] /\ lost \in [Positions -> Nat]
    /\ latest \in Uploads \cup {None}

\* A file that is answered as completed is in the corpus, every chunk of it and
\* nothing else, whichever of several racing tasks wrote the verdict
\* (documents.py:342-351).  For files that parse as one kind only.
WholeDocument ==
    ledger.status = "completed" =>
        \E k \in Kinds : ledger.count = Len(Parse[k])
                         /\ \A i \in Positions : chunks[i] = IF i \in DOMAIN Parse[k] THEN Parse[k][i] ELSE None

\* documents.py:29-33, "a retry reprocessing the same bytes produces the SAME
\* chunk_ids ... rather than duplicating rows or re-paying for chunks already
\* embedded": all calls for a chunk but one were lost before they were stored.
\* Holds for files that parse as one kind only.
PaidOnce == \A i \in Positions : paid[i] <= lost[i] + 1

\* The row is left at processing only while the task of the last upload to set
\* it lives, or because that one died: documents.py:327-331.
NobodyForgotten ==
    ledger.status = "processing" => uploads[latest].phase \notin {"answered", "completed", "failed"}

\* documents.py:133-136, "a 'completed' row short-circuits before reaching this
\* statement": the upsert never finds a completed row.
UpsertSparesCompleted == [][\A u \in Uploads : Upsert(u) => ledger.status # "completed"]_vars

\* Whoever uploads gets a verdict, a death included, without any failure that would
\* have to happen: no task waits for ever for the chunk locks that others keep
\* after failed calls (pipeline.py:325-328) or had when they died.
EveryTaskEnds == \A u \in Uploads : uploads[u].phase = "scheduled" ~> uploads[u].phase \in Ends
=============================================================================
