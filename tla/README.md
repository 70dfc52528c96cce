# A TLA+ verification of the Coalition Grant App

The program is a Python API (FastAPI, psycopg 3) on PostgreSQL, with Amazon
Cognito for accounts and OpenAI for embeddings and answers. Every request has a
database connection of its own, at READ COMMITTED, and the rules that decide who
may do what are triggers and functions in the database. Paths below are relative
to `src/`; `0005:178` is line 178 of `app/db/migrations/0005_tenancy_and_audit.sql`
and likewise for `0004` and `0006`.

## 1. The system and its parts

| Part | State | Operations | Speaks with |
|---|---|---|---|
| Tenancy rules: migrations `0004`-`0006`, `app/api/admin.py` | tables `users`, `organizations`, `org_memberships`, `org_invitations`, `support_access_grants`, `audit_log` | invite, accept, decline, revoke, leave, consent to support access and withdraw it; the guards and audit triggers behind them | every request of a signed-in person |
| Operator command line: `app/admin/cli.py` | the same tables, as the privileged role | create-user, create-org, grant-org-admin | the tables; races with the API |
| Concurrent tenancy requests | row locks, advisory locks, open transactions | the same operations, statement by statement | one another |
| Invitation flow: `app/api/invitations.py`, `app/auth/cognito_admin.py` | the user pool, the mails sent | one POST: gate and locks, look-up, account, row, commit, mail | Cognito; the tenancy functions |
| Sign-in: `app/auth/tokens.py`, `principal.py`, `context.py` | cached signing keys; one principal per request | verify a token, load the principal, set the acting user | Cognito's key set; `users` |
| Uploads: `app/api/documents.py` | `document_uploads`, one row per file; an advisory lock | look up, upsert, schedule; in the background chunk, embed, write a verdict | the embedding pipeline |
| Embedding pipeline: `app/embeddings/` | `chunks`; an advisory lock per chunk | claim a chunk, compare its hash, pay for an embedding, store | OpenAI |
| Chunking: `app/chunking/` | none | parse, group, split, number | uploads |
| Retrieval and generation: `app/rag/`, `app/api/query.py` | none between requests | search, drop near-duplicates, budget; ask, validate citations, ask again | `chunks`, OpenAI |
| Migrations: `app/db/migrate.py`, `app/api/main.py` | the schema, `schema_migrations`, a session lock | `migrate up`; the API's check when it boots | other runs, booting APIs |
| Health, sources, schemas, settings, static pages | none of their own | reads | |
| `infra/`: deployment scripts | none | AWS calls by hand | |

### What is hard, and what makes each part correct

* **Tenancy rules.** The rules look at the moment they run, while a role rests on
  several people's standing at several moments: the sender when inviting and
  again when accepting, a vendor who becomes a customer or the reverse, an
  organization suspended in between, an invitation renewed by somebody else.
  Correct means: no role without consent or an operator, no authority that did not
  come down a chain from an operator, no vendor access without a customer's
  consent, one row per role and person, an admin left in every organization.
* **Concurrent requests.** Decisions read what is committed when they run, so the
  order of locks and of the second look decides. Correct means: as if one after the
  other, and everybody answered.
* **Invitation flow.** A transaction is open around slow calls that can fail half
  done. Correct means: caps that bound accounts and not only rows, nothing created
  for people without standing, no mail before a commit.
* **Uploads and embedding.** Several uploads of one file run at once and die at
  any step; calls cost money. Correct means: a file called completed is stored
  whole, no call is paid twice whose result is stored, nobody waits for ever, and
  a row at `processing` has somebody at work on it or a death behind it.
* **Migrations.** Runs of different builds meet, fail and are killed with the lock
  in hand. Correct means: the records tell what ran, in order, a run never trips
  over another, a build changes nothing it does not know, an API that serves has
  its schema.
* **Retrieval and generation.** Two loops of attempts are nested around one paid
  call, near-duplication is not transitive, a budget may be smaller than the best
  chunk, and citations are looked up long after they were retrieved. Correct means: calls bounded
  by the product, nobody told of a limit before every try failed, nothing relevant
  kept from the model without a reason, no citation that was not retrieved, and three
  kinds of "no answer" that are told apart.
* **Sign-in.** A token outlives the account, cached keys are rotated, a fetch can fail
  or be too early, a route rolls back. Correct means: who acts had an active account
  after the request came and is whom the token names, an outage looks like no
  bad token, a connection is opened for a genuine token only and does not outlive its request
  with an identity on it.
* **Command line.** Its statements interleave with those of other commands and of
  requests. Correct means: no platform admin without another behind them or a moment
  without any, one organization per name.
* **Chunking.** Counters of three nested loops, some per section, some per group, one per
  document; sizes counted before a heading is added; ids that are the same on every
  retry. Correct means: the text arrives whole, once and in order, in pieces that can be
  embedded, under ids of their own, and whole sentences are cut only when nothing else
  is left.

`PROJECT.json` lists every hazard at its line, with the properties that would
catch it.

## 2. Plan

Done: `Tenancy`, then `OrgLocking` over it, `Uploads`, `Migrations` with `Deployments`, `InviteFlow`,
`Answering`, `Chunking` with its abstract specification `Passages`, `Accounts`.
Next, in this order:

1. **Embedding retries** under the paid call of `Uploads`: the tries of one call
   (modelled in `Answering`) implement its single success or failure there.
2. **Uploads over Chunking**: the tasks of `Uploads` with the chunks that `Chunking` makes,
   so that the 422 of a document that cannot be chunked and its retries are one model.

`OrgLocking` EXTENDS `Tenancy`, whose `Next` is the abstract specification of what
concurrent requests may do to the tables. `Uploads`, `Migrations`,
`InviteFlow`, `Answering`, `Chunking` and `Accounts` stand alone: they share no state
with the others that a property looks at, except that `InviteFlow` takes the locks whose
order `OrgLocking` checks. `Chunking` implements `Passages`, by the mapping of `Delivery`,
and `Migrations` implements `Deployments`.

## 3. Modules

### Tenancy (proofs: TenancyProofs)

One action is one committed transaction; what the database refuses is no step.
`users[u]` is a row of `users` (present, platform admin, disabled), `orgs[o]` a
status, `memberships`, `invitations`, `grants` the rows not yet closed, expired
ones included. `granted` and `vendors` are the lines of `audit_log` that the
properties read. Time is `Tick`, a bit more than 24 hours; rows carry the ticks they
have left. `Member`, `PlatformAdmin`, `CanInvite`, `SupportAccess` are the functions
`app_is_member`, `app_is_platform_admin`, `app_can_invite`,
`app_active_support_grant`; the actions are named for the routes, functions and
commands. `AddMembership` includes the trigger that closes an invitation after
the insert (`0006:473-491`).

### OrgLocking (proofs: OrgLockingProofs)

The same requests as sessions that run at once. `Program` gives for each kind the
order of its unlocked questions, row and advisory locks, decision and commit;
`Conflict` is PostgreSQL's table of row-lock modes. The foreign key of the
audit line is a lock too (`org KS`). A session's decision reads what is committed
then (a new row's id is `FreshId`, for `gen_random_uuid`); `Commit` writes and releases; `Refused`, `Abort` and `BreakDeadlock` are the
ways to end without a write. Account flags do not change in this module and no
request outlasts a `Tick`.

### InviteFlow (proofs: InviteFlowProofs)

One POST of an invitation, several at a time: gate, sender's lock, organization's
lock with the second gate, Cognito, `invite_user` with its commit, mail. (The gate
is asked when the lock is had, and a second request for a new person inserts
after the first one's commit: nothing else can come between.) Cognito's list of users lags,
a reply can be lost after the account was created, every step can fail. Beside
the requests people sign in, invitations are closed, members leave (which needs the
organization's lock) and senders are disabled (which does not). A failed request
leaves its account behind. What the caps count are the requests in `Sent`, whose rows are committed.

### Uploads (proofs: UploadsProofs)

One file, several uploads of it. A request looks (`Look`) and upserts (`Upsert`)
under the file's lock and schedules a task, which chunks, claims each chunk
under its lock, pays, stores, and writes its verdict without the file's lock.
`paid` and `lost` count calls per chunk and those whose result was never stored.
A task whose call fails keeps its transaction, and with it the chunk's lock, open
until its next commit, as `embeddings/pipeline.py:299-335` does. `TaskGoesOn` are the steps of a task
that are no failure, `TaskFails` the others; a task that waits for a lock has none of the first kind.
`Die` ends a process at any step. A chunk's id is its position, so the kinds a file is read as
share ids.

### Migrations and Deployments (proofs: MigrationsProofs)

A build is a function from version to checksum. Runners wait for the session lock,
prepare, compare and compute what is pending once, apply one file and its record
per commit, and leave by the same exit from success and failure. A killed runner
keeps the lock until the server notices. APIs boot, check and serve while runners
work. `Deployments` is the promise: one database that each looks at and changes in one
step, without runs, locks or failures; an API is in it by the build it serves with.

### Answering (proofs: AnsweringProofs)

One `POST /query`. `phase` is the line the request is at; each try of a call to
OpenAI is a step (`EmbedFails`, `Embed`, `AskFails`, `Accept`, ...), each turn of the two loops of
`retrieve` is a step (`Compare`, `Take`), and `attempt` and `grounding` are the counters of
the nested loops of `generate_answer`. A chunk has a size, the salient words of its
text, and chunks that say nearly the same; an embedding's arithmetic and the
wording of prompts and replies are left out. The index is approximate, so `Search`
finds any chunks in any order. `calls` and `failures` are history. Beside the request
an upload can rewrite a chunk or somebody can delete it (`Disturb`).

### Chunking, Passages, Contents and Delivery (proofs: ChunkingProofs)

`Chunking` is `chunk_uploaded_document` and what it calls, one step per turn of their
loops: a line is read (`ReadLine` for PDF and TXT, `ReadParagraph` for DOCX), a paragraph
joins a group or starts one (`TakeParagraph`), a group that is too long is taken apart
sentence by sentence (`TakeSentence`), what is still too long is cut (`CutPiece`), and the
pieces of a group become chunks together (`MakeChunks`). Text is a sequence of
characters of which white space and the ends of sentences are told apart. `Contents`
says, without loops, what sections and paragraphs a document has; `Passages` is the
promise: paragraphs leave the document in order, whole, under their heading, as chunks that can
be embedded, or the document is refused for a reason. `Delivery` maps the
counters of the loops to what is not yet delivered, with the lists by comprehension of
`Sublists`; `MCChunking` only gives the documents. Labels, attribution and the parsing
libraries are left out.

### Accounts (proofs: AccountsProofs)

Requests go from their token (`ReadToken`, `FindKey`, `FetchKeys`, `CheckClaims`) over
the connection (`Connect`, and `Register`, which asks the server for the vector type on it), the
look-up of the account (`LoadPrincipal`) and the acting user (`SetActingUser`) to a
route that can roll back, and to one answer, which closes the connection; but what
`RegisterFails` leaves open nobody closes until the interpreter collects it (`Collect`). The
key set with its age and its cooldown is one for all requests. `create-user` and
`create-org` run beside them statement by statement, each seeing what is committed
by then; `draft` is what an open transaction has inserted. The owner of the database
disables and enables accounts, Cognito rotates keys. `seen` and `gap` are history: who
was active since a process began, and whether there was ever no active admin.

## 4. Runs

| Run | Instance | Distinct states | What it asks |
|---|---|---|---|
| `promotion` | 3 people, 1 organization, flags of one person change, status changes | 841,458 | `JoinedByConsent`: a role appears only by a valid acceptance or an operator; `LastAdminKept` |
| `consent` | 2 open invitations, support grants, operator recovery | 153,771 | `OneRowPerSlot`: renewals and re-entries never make two rows; `SupportByConsent`; `AuthorityDescends`: authority comes from the organization's admins and they from an operator |
| `promoted_admin_counts` | as `promotion` | violated | `ActiveAdminKept`, the rule as its refusal words it |
| `requests` | 3 sessions, 8 kinds of request, 2 admins, an open or expired invitation; fairness | 95,531 | `AdminRemains`, `OnlyTheUnorderedDeadlock`, `Serializable`, `EveryRequestEnds` |
| `lock_order` | as `requests` | violated | `LockOrderEverywhere`, a comment of `0006` |
| `invites` | 3 requests, 3 organizations, 2 senders, 2 people; caps of 1 per organization, 2 per sender, 1 in all | 1,082,376 | `CapsBind`: accounts and rows keep to the caps; `OvershootIsSlight`, `CreatedWithStanding`, `MailsAfterCommit` |
| `one_kind` | 2 uploads, a file of 2 chunks under a name that parses and one that does not, fairness | 11,244 | `WholeDocument`, `PaidOnce`, `NobodyForgotten`, `EveryTaskEnds` |
| `upsert_race` | 2 uploads | violated | `UpsertSparesCompleted`, a comment of `documents.py` |
| `deploys` | 2 runs and 1 API over 6 builds: longer, edited, renamed, broken; fairness | 57,836 | `RecordsAreTrue`, `InOrder`, `WaitsItsTurn`, `ServesOnItsSchema`; `ChangesAtOnce`: all of it implements `Deployments`; `EveryRunEnds` |
| `questions` | 1 question, 4 chunks, a pool of 3, a budget of 3, 2 attempts, 2 replies of up to 2 citations; fairness | 248,326 | `ContextFits`, `NothingLostUnseen`, `TriesCounted`, `SilenceIsExplained`, `GroundedAnswers`, `EveryCitationShown`, `CorrectionsAreComplete`, `EveryQuestionEnds` |
| `documents` | every TXT and DOCX file of up to 4 lines out of 8 shapes, a target of 3 characters, a ceiling of 5 | 115,721 | `Delivers`: the loops implement `Passages`; `Storable`, `SplitsOnlyGiants` |
| `accounts` | 2 requests, or a request and a command, or 2 commands; 2 people, 2 keys, 1 name; fairness | 239,993 | `OnlyActiveCallers`, `ConnectionsEarned`, `OneOrgPerName`, `BlamedOnlyInCooldown`, `MadeByOperators`, `AllEnd` |

Properties are conjunctions of named parts where one question has several:
`AuthorityDescends` is `TrustChain` and `AdminCameFirst`, `CapsBind` is
`AccountsWithinCaps` and `CapsHold`, `TriesCounted` is `CallsBounded` and `Patience`,
`Storable` is `Embeddable` and `IdsDistinct`, `SplitsOnlyGiants` is `GroupsFit` and
`CutsOnlyGiants`, `OnlyActiveCallers` is `KillSwitch` and `ActsAsCaller`, `MadeByOperators`
is `AdminsVouchedFor` and `MadeByAdmins`; the parts have their own comments, mutants and, where
section 6 says so, theorems. Type invariants are proved (section 6) rather than run.

**Bounds and why they are enough.** A violation of a tenancy rule needs at most
an operator, an admin and a third person; `promotion` lets one of them change
sides. What crosses organizations is left to the theorems `NoEscalation` and
`OperatorsOpenOrganizations`, which hold for any number of them. One tick separates an
open invitation from an expired one; one role beside admin separates those who may
invite admins from those who may not, and the theorems of section 6 cover every set
of roles. `Changeable`, `Stoppable`, `Recovery`, `MaxOpen` and `GrantIds` bound what
happens beside the question of a run, never what a rule checks. Three sessions make
every deadlock of the program (its cycles have two or three members) and
leave one request over to disturb two that race; `InOrder` lets them begin in the order of their numbers,
which loses nothing, as they are interchangeable, and stands for a symmetry set, which a liveness
property would not allow. In `invites`, two senders are the smallest
number that passes the global cap, three organizations the smallest in which one
sender could pass the cap of 2, and three requests could pass every cap. Two uploads suffice for every race over a chunk or the row, and
`NobodyForgotten`, `WholeDocument` and `PaidOnce` are proved for any number. In `questions`, three chunks make
the shortest chain of near-duplicates whose ends differ, one is larger than the whole
budget, the fourth is like no other; two attempts and two replies are the least at
which one counter can leak into the other, and two citations the least of which one can be
right and the other not, or both the same; the chunk that others change, like no other, can be one
of two that are cited, or the only one. In `documents`, four lines are the
least with two sections of two paragraphs, or with two groups of which one is split, and the
shapes have a piece that fits, one that fits until its heading or a space is added, one
that must be cut, and white space as long as a piece. In `accounts`, `Casts` lets
either two processes of a kind meet or one of each, since keys are shared by requests and
rows by all; `Focus` rotates keys only where two requests meet and changes accounts only where
a command or a configured request runs. One statement of a route, with a rollback before or after it,
is the least at which the acting user can be lost. Two runs
and six builds give every pair of a build and a database it may not understand.

**Deadlock checking** is off in all runs: a behaviour stops when every request, task
or run has ended, or when tenancy has reached its bounds. What would be a real
deadlock is asked by `OnlyTheUnorderedDeadlock`, `EveryRequestEnds`,
`EveryTaskEnds`, `EveryRunEnds`, `EveryQuestionEnds` and `AllEnd` instead. The loops of
`Chunking` are over lists that are there when they begin and wait for nothing, so that their end is no question.

**Symmetry** is used in safety runs only, over sets no rule tells apart.

**Mutants.** Every property of a passing run has a mutant in `PROJECT.json`: an
operator marked `mutant` in its module, the bug that the property is there for
(a second look that is skipped, a lock that is not taken, a failure that is not
written).

## 5. Fairness

* `OrgLocking`: a statement of a running request is executed or waits, and
  PostgreSQL looks for cycles of waiting transactions (`deadlock_timeout`).
  Nobody has to send a request, and nothing has to be lost.
* `Uploads`: the server's thread pool runs a request and a scheduled task while the process
  lives, on the steps that are no failure only: a task that waits for a chunk's lock has no such
  step, and nothing but its holder frees it. `TaskFails` and `Die` are never forced and never
  excluded.
* `Migrations`: a live run goes on, a free session lock is given to one who waits,
  and the server notices in time that a connection is gone.
* `Answering`: every call to OpenAI comes back or times out (`generation.py:518` sets a
  timeout, the embedding call has the client library's own), and the thread that serves
  the request goes on.
* `Accounts`: a request or a command that has begun goes on, with the call it makes to
  Cognito coming back (`tokens.py:91` sets a timeout); in the database it waits for
  nothing but the lock of a name or a row, whose holder goes on.
  Failures, disabled accounts and rotated keys are neither forced nor excluded.

Each is weak fairness of one process's steps. No property relies on a failure to
happen or to stop happening. `InviteFlow` and `Tenancy` state no liveness: every wait
of an invitation is cut off after three seconds by `lock_timeout`.

## 6. Proofs

Checked by TLAPS for every value of the constants under their named assumptions.

**TenancyProofs.** `TypeCorrect`, and with it the lemmas on the counts of the caps.
`TrustInv` = `TypeOK`, `TrailComplete`, `TrustChain`, `AdminCameFirst` is inductive:
`TrailComplete` says that the audit trail has every current membership and every
current platform admin, which is why a question about the present (`CanInvite`)
yields a fact about the past (`Trusted`). From it `NoEscalation`
([]`TrustChain`), `OperatorsOpenOrganizations` ([]`AdminCameFirst`) and, with who was
admin when consenting, `VendorsNeedConsent` ([]`SupportByConsent`).
`RolesNeedConsent` (`JoinedByConsent`) goes over the two actions that add a
membership, `LastAdminStays` (`LastAdminKept`) assumes that no operator revokes
rows under a `system_job` reason, which the guards let through, and `SlotsAreUnique` ([]`OneRowPerSlot`) shows that the partial unique
indexes never refuse what the functions write.

**UploadsProofs.** Without assumptions: `UploadTypeCorrect` and `SomebodyCares`
([]`NobodyForgotten`), the latter from an invariant `Waiting` that ties the row to the
last upload that set it. `DocumentWhole` and `ChunksPaidOnce` assume `SingleParse`:
of the names of a file, at most one way to read it parses (section 7 says what happens otherwise).
Their invariant `UploadInv` adds what a task past a chunk has stored (`WorkOK`), that
no two tasks hold a chunk's lock (`Exclusive`), that a completed row means the text is
stored (`Completed`), and the accounts of calls paid, lost and stored (`Accounts`).

Two results are what `EveryTaskEnds` rests on beside fairness, for any number of uploads.
`TasksNeverDeadlock`: a task that keeps the locks of chunks whose calls failed waits for others
and has others wait for it, but of any set of tasks the one furthest on in its file waits for none
of them, since whatever is locked lies behind its holder (`LocksBehind`). `UploadsGoOn`
(`NobodyTurnsBack`): every step takes its upload to a later stage or a later turn of the
loop, with at most three steps a chunk.

**MigrationsProofs.** `MigrationInv` = `TypeOK`, `RecordsAreTrue`, `ReadingHolds`,
`WaitsItsTurn`, `ServesOnItsSchema`. `ReadingHolds` is the heart: what a run computed
before its first write is still what the database would answer, because only the
holder of the lock writes. It yields `RecordsAlwaysTrue`, `RunsWait`, `BuildsKnow`,
`ServersHaveTheirSchema`, and the refinement `ImplementsDeployments`: a commit is a step of
`Deployments` by a build that fits the database at that very moment, although it looked when
the run began, and an API that begins to serve is another. `AppliedInOrder` assumes `Linear`, that of any two builds
one extends the other with later numbers, and adds the invariant `Grown`: what is
recorded is an initial part of some build.

**AnsweringProofs.** `QuestionInv` relates the counters of the nested loops: while the
model is asked, `calls.chat <= MaxAttempts * (grounding - 1) + attempt`, every failure of
the present call is a try of it, and there is one correction per reply before this one. It
yields `AlwaysBounded`, `AlwaysPatient` and `SilenceAlwaysExplained`, the last with the
fact that the first candidate is always kept and taken. `ChoiceInv` follows the
retrieval: the kept chunks are candidates, once each and in their order (`BestFirst`),
every candidate compared is kept or has its reason, and the context is their front. It
yields `NothingEverLostUnseen`. `FitsInv` says that the running count of tokens is the
size of the context (`TotalSize`, a recursive function) and that no two kept chunks are nearly
the same; it yields `ContextAlwaysFits`. `GroundInv` says of a result on its way to the look-up that it
cites chunks of the context, once each; it yields `AnswersAlwaysGrounded`, `CitationsAlwaysShown` (what
was cited and is still there is shown, in its order: `PickedInOrder`) and
`CorrectionsAlwaysComplete`. Both rest on lemmas over any length of sequence (what `Picked` returns,
that one chunk more adds its size), whose inductions take the least counterexample of a
set of numbers (`Least`, from the library's `WFMin`). `QuestionsRunOut` is what `EveryQuestionEnds` rests
on beside fairness: every step of the request makes `ToDo` less, which is its stages, candidates, kept
chunks, replies and tries, compared in this order, and what others do to the chunks leaves it as it is.

**ChunkingProofs.** For every document, target and ceiling with 2 < target < ceiling. `Inv` =
`Shape` (the types, and no loop past its end), `GroupsFit`, `CutsOnlyGiants`, `FinalFits`,
`Embeddable`, `IdsInv`. `FinalFits` is what makes `Embeddable` inductive: what has passed
the last loop is under the ceiling, before it becomes a chunk. `IdsInv` says that every
id so far has an index below the present one. A piece over the ceiling is one sentence because a
sentence joins a piece only when both fit (`CutsOnlyGiants`). They yield
`AlwaysStorable` and `OnlyGiantsSplit`.

`ImplementsPassages` is the refinement: every step of the loops is one of `Passages` (`Open`,
`Deliver`, `Finish`, `Refuse`) or does not show. Its invariant `LoopInv` follows the text through all
of them. `ReadSoFar`: what is read is what the lines read so far have in the sections that
`Contents` gives at once, so that at the end it is `Content` (`ReadLineKeeps`, `ReadParagraphKeeps`,
`ContentRead`). `SectionsSolid`: then no paragraph is blank or has white space around it.
`Grouped`: groups take the paragraphs of a section in order, each once. `Split`: the characters that
are not white space in `final`, `pieces` and `rest` together are those of the group's whole text, in its
order, so that nothing is lost where a sentence joins, a window starts or the rest is taken. A blank
window is a part of that text, and since a group joins solid paragraphs with two
characters and the ceiling is longer, the white space it is cut from is inside the heading or one
paragraph: every refusal has the reason that `Passages` asks for. The lemmas below it say what
`FlattenSeq` and `Sublist` do to sequences of any length, from the definition as a fold.

`ChunkingGoesOn`: until a document is done there is a turn to take, so that no case of a loop is left
without a way on.

**AccountsProofs.** `Inv` = `Shape` and, for each process at each line it can be at, what its
session, principal and draft are (`RequestInv`, `CommandInv`): in a route the acting
user is the token's, would be after a rollback, and is in `seen`, whose entries are never taken
away; anywhere else a session has no acting user and no rows, so that one left open has none
(`EndsClosed` goes over the steps that could leave one). It yields `RoutesActForActiveCallers`, `EveryConnectionEarned` and
`EverythingMadeByOperators`. `NamesInv` adds that a name has one holder of its lock, and that a
draft under the lock has no organization of its name, for `OneOrganizationPerName`; `KeysInv` adds
what is known of the key set, for `TypeCorrect` and `OutageBlamesNobody`.

**OrgLockingProofs.** `Inv` = the shape of a session, which holds exactly the locks of the
steps it has gone through; `Exclusive`, that no two sessions hold locks in conflict;
`Decided`, that what a request decided about memberships under the organization's lock is
still so; `Tables`; `AdminRemains`. The last needs `Decided`: the other admin that a
revocation counted cannot leave while it holds the organization. `OnlyTheUnordered` climbs: the
other five kinds lock the sender or the membership, then the organization, then the invitation, so a
set of them in which each waits for another would have no one furthest up. Assumed: people accept
and decline their own invitations (`RequestsAssumption`), the first tables have their types, one
row per slot, finitely many grants, no invitation sent by vendor staff
(`TablesAssumption`) and an admin in each organization (`AdminsAssumption`).

`AlwaysSerializable` is the refinement: with `OneOrganization` and bounds that never stop a request
(`AmpleBounds`), every commit is a step of `Tenancy`, with all that step's conditions, or a
`LateRevocation`. Its invariant `SerialInv` says that what a session was allowed it is still allowed,
and that the row it found is still there (`Still`). Once it has decided, a request has its
organization locked so that nobody else commits (`OthersWait`), or only invitations are closed, of
which its decision does not speak; `decline` has only the invitation locked, which is all that
its decision is about (`OtherRow`). With several organizations the statement is false for some values
of the constants: two invitations under different locks may pass `GlobalCap` together, as `InviteFlow` shows.

`RequestsGoOn` and `RequestsRunOut` are what `EveryRequestEnds` rests on beside fairness. While requests
run, the next statement of one of them runs as soon as it is sent, or some of them are
`Deadlocked`, which the database breaks (`SomebodyGoesOn`): if all waited, they would wait for
running ones, since nobody else holds a lock, and a commit never lacks the row it writes (`RowInv`).
And every step starts a request, takes one further in its program or ends it, the others staying where
they are (`EveryStepForward`), so that sessions run out of steps.

**InviteFlowProofs.** `Inv` = `RequestsInv`, what a request has at each phase, of its
creation too; `TablesInv`; `LocksInv`; `CapsInv`; `OvershootIsSlight`. `CapsInv` is the heart: a
request that is past the second gate has room for one more under both caps, since nobody else
counts against that sender or that organization meanwhile. Those at work have different senders
and different organizations, which bounds what passes the global cap. They yield
`CapsAlwaysBind`, `OvershootAlwaysSlight`, `MailsFollowCommits` and `CreatorsHaveStanding`, for
any finite sets of requests, people, senders and organizations.

**Only model-checked.** Liveness and anything about ENABLED: they are out of this prover's reach, and so
are the library's induction theorems, which take an operator as a parameter, and RECURSIVE operators,
of which these modules have none. Of `EveryTaskEnds`,
`EveryQuestionEnds` and `EveryRequestEnds` the parts that need no fairness are proved
(no unbroken circle of waiting, no step back, every step less to do); `EveryRunEnds` and `AllEnd`
are only model-checked. What is proved by induction is over numbers and goes
through the least element of a set.

## 7. Where the code and its words differ

* `promoted_admin_counts`: the guard of the last admin (`0006:454`) counts admins who
  have become platform admins and can no longer act as members, so the last one who
  can act may leave; the refusal says "must keep at least one active admin".
* `lock_order`: "Lock order everywhere: organization first, then the invitation"
  (`0006:325`), while `decline_invitation` and `revoke_invitation` lock the invitation
  and then, through the audit line's foreign key, the organization. PostgreSQL
  breaks the deadlock and the API answers 409. grant-org-admin deadlocks with itself:
  it reads the organization FOR SHARE and its row's guard takes it FOR UPDATE.
  `OnlyTheUnorderedDeadlock` shows that these are all.
* `upsert_race`: "a 'completed' row short-circuits before reaching this statement"
  (`documents.py:133-136`), while a task completes the row without the file's lock
  between another request's SELECT and its upsert. The next task skips every
  chunk and completes the row again.

Also met, with no run of their own:

* The trigger of `0006:478` closes an invitation on a privileged insert too, when the
  operator sent it before being promoted; the comment at `0006:470-471` says otherwise.
* `migrate.py:124` applies a file numbered before the last one recorded, when two
  branches were merged; `InOrder` is for builds that only add later numbers.
* A late task that fails can turn a completed row into a failed one
  (`documents.py:158`); every chunk is stored, and the next upload completes it.
* `revoke_invitation` asks for the caller's standing before it locks the organization;
  `Serializable` names this one exception (`LateRevocation`).
* A request that fails after Cognito created the account leaves an account that
  no cap counts; `AccountsWithinCaps` says so.
* "a retry reprocessing the same bytes produces the SAME chunk_ids" and does not pay
  again (`documents.py:29-33`), while the kind comes from the file's name and is no part
  of the ids: under another name the same bytes can be other chunks with the
  same ids. The proofs of `Uploads` assume `SingleParse` for this, and `Disturb` of
  `Answering` is what a reader of such a chunk meets.
* A server error of OpenAI that outlasts its retries is answered 500 with a comment that
  calls it this app's own problem (`query.py:166-175`).
* The bound of `CallsBounded` is on calls the program makes. `dependencies.py:32` leaves
  the client library's own retries at their default, so the requests sent can be more
  than the "real chat-completion calls" of `generation.py:461-464`.
* The answer 400 for a question too long to embed cannot happen: a question has at
  most 2,000 characters (`schemas.py:29`) and the limit is 24,000.
* An answer can lose all its citations when the cited rows go away between retrieval
  and look-up (`query.py:210-221` logs and skips them); `EveryCitationShown` says that
  only those are missing.
* "guaranteeing every returned piece is embeddable regardless of input shape"
  (`uploaded_document.py:256`): a window of only white space inside a long sentence is a
  piece that `Chunk` refuses, and the whole document with it. `Passages` names this way out
  (`Refuse`).
* A heading is added to the first piece of a group only, and one that is itself over the
  ceiling is split like text, so that the comment at `uploaded_document.py:378-381` is not true of it.
* The lock of a chunk is a 32-bit hash of its id (`pipeline.py:216`), which the model takes to be its
  own: two chunks of one hash share a lock, which costs time, and in another order than that of the
  file could close a circle of waiting that PostgreSQL breaks like a failed batch (`BatchAborts`).
* "yields `AuthContext(principal, conn)` and closes the connection after" and "each request gets its
  own connection and closes it" (`context.py:15, 17-19`), while a failure of `register_vector`
  (`connection.py:73`) on the open connection comes before the `try` whose `finally` closes it: it stays
  open until the interpreter collects it. `ConnectionsEarned` says that it is the only one that does,
  and that no identity is on it.
* Two first platform admins can be made at once; `cli.py:25-29` says so itself, and
  `AdminsVouchedFor` allows it for a command that saw a moment without any.

## 8. Not modelled

The retries of an embedding call inside an upload are planned (section 2). Inside
PyJWT only its choices are modelled: a token is good or not in one of four ways, the key
set is there, too old or cooling down, and time is a step that may happen. That sign-in is
not configured is a choice made once. `get_principal` is `get_auth_context`
without the acting user. The static pages,
`health.py`, `sources.py`, response types, connection settings and `provenance.py` keep
no state. The deployment scripts, Dockerfile and AWS policies are outside the
program. PostgreSQL's locks, Cognito and OpenAI are modelled as far as the code uses
them, and marked external in the map.
