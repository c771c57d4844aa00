# Formal verification of Smart Customer Service AI

TLA+ models of the server in `server/`, of its OCR worker and of the parts of the
browser client that keep state, checked with TLC, and theorems about them checked
with TLAPS. The text is for somebody who has the repository at
hand. Paths are relative to the repository's root; a module `M` is `M.tla` here.

## 1. The system and its parts

The server is one Node process (Express, better-sqlite3, an optional Qdrant, an
LLM provider, an embedding provider, an optional OCR worker, optional order and
OIDC services). SQLite calls are synchronous; everything else is awaited. So the
code runs in atomic pieces between two awaits, and all its concurrency is the
interleaving of those pieces: of requests with each other, of requests with the
background work that `server/index.ts` starts, and of all of them with a crash
and the restart that follows. State lives in three places with different
lifetimes: SQLite (survives), Qdrant and other services (survive, change without
the process) and memory (`draining` flags, timers, caches: lost in a crash).

| Part | State | Operations | Meets | What makes it correct |
|---|---|---|---|---|
| Retrieval index jobs (`services/retrieval-index-job.service.ts`, two repos, `knowledge-fingerprint.ts`) | `retrieval_index_jobs`; Qdrant collections and alias; `draining` | createJob, getJob, drain/processNext, activate, rollback, reconcilePendingIntent, start | knowledge edits, Qdrant, quality runs, crash and restart | the alias names only verified collections; SQLite and the alias agree or an intent says how to make them; a ready collection is its snapshot; every job is decided |
| Idempotency (`middleware/idempotency.ts`, service, repo) | `idempotency_records` | begin, complete, expiry | every mutation route, client retries, crash | a keyed mutation is carried out at most once per retention period, its replay is its response |
| Document ingestion (`services/document.service.ts`, `document.repo.ts`, parsers, chunkers, cleaners) | `documents`, `document_chunks`, `document_versions`, index runs | upload, replace, publish, reindex, setActive, delete | vector store, OCR, retriever, idempotency | what is searchable is one complete published version; a failed step leaves the old one |
| OCR extraction and review (`document-ocr-scheduler.ts`, `document-review.repo.ts`, `ai/ocr-extractor.ts`, `ocr-worker/`) | extraction jobs, review drafts and pages | schedule, claim, extract, finalize, retry, publish draft | OCR worker, document ingestion, crash | one extraction at a time per version; a draft is published once, from what was reviewed |
| Quality runs and policies (`quality-run.service.ts`, `quality-lab.service.ts`, repos) | runs, cases, policies | create, drain, cancel, activate and roll back a policy | index jobs, config, chat | a gate only passes on a complete run of the current knowledge; one active policy |
| Order tools (`order-tool.service.ts`, `order-grant.service.ts`, `tools/order-*.ts`) | `order_access_grants`, `tool_executions` | verify, lookup, expire, interrupt | chat, sessions, the order API | no lookup without a grant of that session; one execution at a time |
| Conversations, sessions, escalation (`conversation.service.ts`, `escalation.service.ts`, `session.repo.ts`) | sessions, messages, packets, feedback | ask, persist, escalate, assign, resolve, reply | chat route, triage, agents | status moves along the lifecycle; one open escalation per session |
| Onboarding (`services/onboarding.service.ts`, repo) | installation row, checks | install, recover, restart | FAQ, documents | all of a pack or none of it, once, whatever a crash interrupts |
| FAQ and knowledge review (`faq.service.ts`, `knowledge-review.service.ts`, `ai/semantic-search.ts`, `ai/knowledge-adapters.ts`) | entries with their vectors, review items, the vectors of the process | create, edit, switch, import, refresh, convert, dismiss | retriever, index jobs, configuration | an entry is never found by the vector of a text it no longer has; an item makes one entry |
| Ingestion of a text (parsers, cleaner, chunker) | the file, its blocks, its chunks | parse, clean, group, merge, split | documents, OCR worker | nothing of the file is lost, a chunk fits its limit and cites its headings |
| OCR worker (`ocr-worker/`, `ai/ocr-extractor.ts`) | the extraction slot, temporary files | extract, map, time out, exit | extraction jobs | one extraction at a time; every word once, on its page |
| Retrieval (`ai/knowledge-retriever.ts`, `retrieval-ranking.ts`, `grounding-policy.ts`, `semantic-search.ts`, the stores) | in-memory vectors, alias | recall, fuse, rank, judge, upsert, delete | FAQ, documents, policy | an answer rests on active text that really matched; what has no evidence, or asks for an action, is refused |
| Model calls (`ai/llm-client.ts`) | the clients and what they were built from | call, retry, stream, rebuild | configuration, chat, FAQ | a reply is one attempt's, shown once |
| Quality data sets (`quality-lab.service.ts`, repo) | versions and their cases | draft, import, publish, derive, release | quality runs | what a run measures is what was published |
| Prompt and triage (`context-manager.ts`, `prompt-manager.ts`, `escalation-triage.ts`) | per request | cut to the budget, judge, enrich | chat | the model is asked the question; it overrules no rule |
| Chat (`routes/chat.ts`, `client/src/hooks/useChat.ts`) | the stream, messages, traces, review items | SSE, abort, handoff, rate | all of the above | what the customer saw as an answer is stored; a stream always ends |
| Limits (`middleware/concurrencyLimit.ts`, `rateLimit.ts`) | counters in memory | acquire, release | chat, uploads | a slot is released exactly once |
| Configuration, lifecycle (`config.service.ts`, `config.ts`, `services/model-env-file.ts`, `index.ts`, `db/index.ts`) | the model settings in the environment file and in memory, the schema | save, migrate, start, stop | everybody | start before listen; recovery before work; a change of the model invalidates old vectors |
| Console (`client/src/pages/admin`, hooks) | the state of its pages, dialogs and login | fetch, write, review, log in | the API | a page shows the answer to its last question; a review publishes what was on the screen |
| Evaluation scripts (`eval/`), tests | none | | | not part of the running system |
What is hard here: state read before an await and used after it; a request that
times out but happened; a crash between the two halves of an update that spans
SQLite and another store; background workers that must be woken exactly when
there is work; retries of what was already done. The `hazards` of `PROJECT.json`
list them line by line.

## 2. Plan

Done, in the order of what matters most:

1. Retrieval index jobs with the abstract specification `LiveIndex`, and their
   proofs (`RetrievalIndexProofs`).
2. Idempotency keys and their proofs (in `ConsoleProofs`).
3. Sessions, handoff, order grants and executions, and their proofs
   (`OrderToolProofs`).
4. OCR extraction, review drafts, publication and deletion of one document, and
   their proofs (`DocumentProofs`).
5. Quality runs and the gate before a policy, and their proofs
   (`QualityRunsProofs`).
6. FAQ entries, reviews and their vectors under a changing model, and their proofs
   (`FaqKnowledgeProofs`).
7. Parsing, chunking, recall, ranking, grounding, prompts, triage, policy metrics,
   the OCR worker, the calls of the model and the data sets of the quality lab, over
   samples and small bounds (`Algorithms`), and what their folds compute, for every
   input (`AlgorithmProofs`; of the ingestion of a file, `DocumentProofs`).
8. The chat from the browser to the tables, over the sessions of 3 (`ChatClient`),
   and its proofs with those of the refinement (`ChatProofs`).
9. The console: review dialog, guided start, login, lists and details, and the
   proofs of its parts, alone and together (`ConsoleProofs`).

Next:

1. The retriever over Qdrant: every call suspends, so that a publication and a
   search overlap; two documents, and the retry of a failed source. Abstract
   specification: a search sees, per document, one published version.
2. Start and stop of the process as one composition of the recovery steps that
   the modules now make separately.

Theorems: every safety property that a run checks is proved. What stays with TLC is
liveness (`BuildsResolve`, `ExecutionsEnd`, `PendingEnds`, `RunEnds`,
`StreamingEnds`), which TLAPS does not treat.

## 3. The modules

Operators whose comment begins with "Mutant" are wrong on purpose: each is a
plausible bug, put in place of the definition that follows it to see that the
property it is meant for notices. Modules that begin with `MC` give the
constants their values.

All next-state relations are interleavings: a step is what Node runs between two
awaits. Deadlock is checked by every run whose system goes on for ever within its
bounds. A task of `algorithms` ends, the two requests of `chat` and the numbered
requests of `console` are used up, a deleted document stays deleted, and a process
that has used up its crashes stays down, so their runs say `CHECK_DEADLOCK FALSE`.

Every module with a table has a type invariant. It is proved where the module has
proofs; elsewhere it documents the values and no run spends its time on it.

### Retrieval index jobs

Modules, from the bottom: `IndexKnowledge` (what a page of the active knowledge
is: `knowledge-fingerprint.ts` and `retrieval-index-knowledge.repo.ts`),
`IndexJobRepo` (the table and one operator per statement or transaction of
`retrieval-index-job.repo.ts`; `Can...` says when the transaction commits),
`IndexState` (the variables), `IndexBuild` and `IndexAlias` (the handlers of
`retrieval-index-job.service.ts`), `RetrievalIndex` (the whole with its
properties), `LiveIndex` (the abstract specification), `RetrievalIndexProofs`.
`KnowledgeScan` runs the page operators by themselves, as a task of `Algorithms`.

A step is what Node runs between two awaits. A handler that waits for Qdrant is
at a `pc` of its own. A request to Qdrant takes effect and is answered in one
step (`GotCreated`, `GotUpserted`, `UpdateAlias` then `GotApplied`), or fails,
with or without its effect (`Lands`, `OpFails` after `UpdateAlias`), or the
process dies meanwhile. `Free` is the microtask rule: when `drain()` has a turn
pending, nothing else of the process runs first. `draining` is `worker.pc # "off"`.

| Code | Model |
|---|---|
| `retrieval_index_jobs` | `jobs`; a job and its versioned collection share a number, the order of `created_at` |
| `batch_checkpoint`, `completed_count` | `checkpoint` (the code always writes both alike) |
| a knowledge fingerprint (a hash of ids, revisions, profiles) | the content itself: item -> revision |
| `drain`, `processNext` up to the first await | `Drain` (four outcomes) |
| `processNext` after each await | `GotInfo`, `GotCreated`, `GotUpserted`, `GotVerified`; its `catch` is `Abandon`, `BuildFails` |
| `activate`, `rollback`, `reconcilePendingIntent` | `StartActivate`, `StartRollback`, then `GotReconcile`, `GotCurrent`, `GotSwitch`, `GotApplied` of the operation's slot |
| `currentAliasCollection`, `switchAlias` of the Qdrant client | `ReadAlias`; `GotSwitch` (comparison) and `UpdateAlias` (unconditional update) |
| `start` | `Boot` |
| FAQ and document edits | `EditItem` (a new revision), `ToggleItem` (`DocumentRepo.setActive`: same revision) |

Assumed: the quality gate is one Boolean of the environment (`good`); an item
without an embedding is not yet part of the knowledge; one vector dimension and
one embedding profile; a replaced chunk is a new revision of the same item (in
the code it also gets a new id); an alias update that the client has given up is
not applied after its operation ended; nobody but this service moves the alias;
what `KnowledgeRetriever` writes to the live alias is not part of `points`. A
failed SQLite write ends an operation like a failed request (`OpFails`).

| Run | Question | Bounds |
|---|---|---|
| `index` | with one alias operation at a time: is what is served verified, can the alias ever be where a stored intent does not expect it, what is in a ready collection, does the checkpoint run ahead, is every build decided, and does the service implement `LiveIndex`? | 2 jobs (a switch and a build beside it, a rollback to nothing), 1 FAQ entry of 2 revisions and 1 document that is switched off and on, page size 1, 1 crash in any state, and Qdrant may lose collections |
| `index_switch_race`, `index_empty_knowledge` | counterexamples, see Findings | smallest that show them |

Fairness: `WF(Boot)` (docker-compose restarts the container) and
`WF(WorkerStep)` (Node runs a pending turn of `drain`, and every Qdrant request
is answered or times out: the client is created with `timeout`). Administrators
and knowledge editors owe nothing. `BuildsResolve` is checked under it, with a
bounded number of crashes, as an unbounded number could starve any build.

What the runs and theorems show. With overlapping operations the job table stays
consistent and customers are never served from an unverified collection (the
theorems `TableSafe` and `ServesVerified`, for any number of operations), but the
table and the alias may disagree (`index_switch_race`). Without overlap a stored
intent is never refused for where the alias is (`IntentReconcilable`), so that only a
target that Qdrant lost can keep it from being carried out, and the service
implements `LiveIndex`: one switch intended, done, recorded; in between, with
nothing intended, the record is what is served (`Intend` requires it), so
`RecordIsLive` holds there. `ReadyIsSnapshot` joins what a ready collection holds
(`ReadyMatches`), where a resumed build goes on (`CheckpointWritten`), and what is
left of both when rows come and go during a build (`ReadyIsFresh`). The first two
need `NothingReturns`: no row is off, on and off again but the last document, with
which every page scan ends. The run has such bounds. All speak of
collections that exist: one that Qdrant lost is noticed by `processNext`, and a
ready one is searched as empty until it is built again.

### Proofs about the index service

`RetrievalIndexProofs` proves for all values of the constants (any number of
items, jobs, crashes and overlapping operations) `TypeCorrect`, `Inductive`
(the invariant `IInv`), `TableSafe`, `ServesVerified`, `FreshTheorem`, `ExactTheorem`
and `SnapshotTheorem`, and for one operation at a time `ReconcileTheorem` and
`LiveTheorem`, from the assumptions named in the modules (`KnowledgeAssumption`,
`MaxJobsAssumption`, `RetrievalAssumption`).

`ServedIsVerified` is not inductive: the alias is moved by an operation that read
its target long before. `IInv` therefore also says of every operation in
progress that the collection it will switch to, and the one it saw, are verified
(`OpsOK`), and of the table that every `prev` is (`TableOK`). The lever is
`Keeps`: no statement of the repo takes `Verified` away from a collection,
because `markStale` spares jobs with an intent and `completeActivation` turns
active into rolled_back. Every operator of `IndexJobRepo` has a lemma that it
preserves `TableOK` and satisfies `Keeps`; every action of the service then is a
composition of them.

`ReadyIsFresh` looks at the end of a build, its reason at the whole of it: nothing
that was written is older than the snapshot or newer than the knowledge
(`FreshInv`), and when the build ends the fingerprint, read before and after, is
the same, so that old and new are one revision wherever both have the row.
Attempting `ReadyMatches` with the hypothesis that one item may be switched off and
on showed that this is not enough: TLC has the row that stands in for another (see
Deviations). `NothingReturns` is the hypothesis that is.

`SnapshotTheorem` proves `ReadyIsSnapshot` as the run checks it. Its exact part is
limited by `NothingReturns`: entries of at most three revisions (too few to be switched
off, on and off again), and no other row switched but the last document. Without that
limit `ReadyIsFresh` and `ExactTheorem` are what holds. What `ReadyMatches` and
`CheckpointWritten` say of the end of a build, `SnapInv` says of its middle. A row off in
an open snapshot is either still off or has its last revision, so that nothing read
beside the snapshot ever leaves the fingerprint (`Settled`, `ForGood`). While the
knowledge is the snapshot but for the last row (`Steady`, which no edit makes true
again), what a page scan has read up to its cursor is in the collection or in the
records about to be written (`Reads`), and what the checkpoint counts is in the
collection (`Saved`). A page, an upsert, a checkpoint and a resumption each have a lemma
(`PageReads`, `ReadsSaved`, `CountOfCursor`, `ResumeReads`), and a build that ends with
as many points as rows has exactly them (`SavedExact`): the last row only has to be
counted, as its revision follows from `FreshInv`. The hypothesis is used for the edits
alone (`SnapEdit`, `EditKept`).

`OneOperation` is what an administrator does who waits for the answer, and a
restart, which loses the operation of before. `OneInv` relates the table and the
alias (`Coherent`) and ties the operation to both (`Linked`): what it last read of
the alias is still so, since nobody else moves it, and what it carries out is the
stored intent. A crash or a failed request ends the operation and keeps `Coherent`;
the next reconciliation takes `Linked` up again from the stored intent. All but
three steps leave intents, record and alias alone (`Still`); those three are
`Intend`, `Switch` and `Record` of `LiveIndex` (`IntendStep`, `SwitchStep`,
`RecordStep`).

`ScanTheorem` is about the page scan of `KnowledgeScan` alone, for every page size,
number of rows and sequence of interruptions. The first n rows of a set in key
order are what lies up to one of them (`FirstRows`), so a page leaves no gap
(`PageRows`) and what was read is always what lies up to the cursor. `CursorAt`
finds by `OFFSET n - 1` the row with n rows up to it (`CursorOfCount`), which is the
row the interrupted scan had reached.

Only model-checked: `BuildsResolve`, as TLAPS does not treat fairness.

### Idempotency keys

`Idempotency` models `middleware/idempotency.ts` around every mutation route and
the row of `idempotency.repo.ts` behind it. `records` is the table, by key (scope
and client key); `log` is a history of the executions of handlers, which the code
does not keep: the properties are about it. `Start`, `Refuse` and `Replay` are the
three outcomes of the `begin` transaction, whose cleanup (`Purge`) is part of each;
`End`, `EndUnstored` and `Abandon` are the three ways in which a response ends
(stored; too large, or the `UPDATE` fails; the handler never ends it); `Crash`
leaves the table; `Tick` is the clock in units of `RETENTION_MS`.

| Run | Question | Bounds |
|---|---|---|
| `console`, part "keys" | is a keyed mutation carried out once per retention? | 2 keys, 2 payloads, 2 requests at once, 3 executions, 4 units of time with a retention of 1: rows expire, are claimed again, and expire again |

`TimeAssumption` says that no handler runs for longer than the retention of 24
hours. All calls that a handler awaits have timeouts of minutes.

`ConsoleProofs` proves `OnceTheorem`, `ReplayTheorem`, `OverlapTheorem` and
`FailsClosedTheorem` for any constants that satisfy it. `OncePerRetention` is not
inductive, as it does not say why the next request is refused. `IInv` adds: the
log is in order of time (`Ordered`); a running request is the only one of its
execution (`InFlight`); while the retention of an execution lasts its key has a
row at least as young (`Held`), and as long as no response was stored, that row is
its claim (`Claim`); a completed row names an execution of its key and payload
(`Origin`). Nothing of this component is only model-checked.

### Sessions, handoff and the order tool

`Conversation` has the sessions and the chat requests that answer into them;
`OrderTool` extends it with verification, grants, executions and restarts. A
statement or transaction of SQLite is one step.

| Code | Model |
|---|---|
| `sessions.status`, `close_reason`, `updated_at` against the cutoff | `sessions[s]`, with `idle` |
| a row of `escalation_log` | membership in `handoffs` |
| `resolveSessionForMessage`, the answer, `prepareEscalation`, `persistPreparedEscalation` | `StartTurn`, `Reply` or `Escalate` or `FailTurn`, `HandOff` |
| `closeSession`, `expireInactiveSessions` | `Close` (which also revokes), `Expire` |
| `verify` before and after its await | `StartVerify`, then `IssueGrant` or `RejectVerify` |
| `authorizeOrderLookup` with `executionRepo.start` | `StartLookup`, guarded by the unique indexes (`MayStart`) |
| the adapter's answer, its deadline, a result that is not trusted | `Succeed`, `FailLookup`, `Distrust` then `EscalateUnsafe` |
| `db/index.ts` at startup | `Boot` |

| Run | Question | Bounds |
|---|---|---|
| `order_tool` | is a handoff never lost, a close final, an unsafe result handed off, and does every execution end? | 1 session, 2 chat requests, 2 verify or lookup requests, 2 grants, 2 executions, 2 keys, 1 restart: every pair of requests overlaps. Sessions do not interact, so that one shows what several would |

Fairness: `WF(Answered(c))` for each request (`withTimeout` bounds the adapter,
and what follows needs no answer from outside) and `WF(Boot)`. `ExecutionsEnd` is
checked under it.

`OrderToolProofs` (which also has the proofs about `LlmCall` and `Triage`, see below)
proves for any number of sessions, requests, grants and
restarts `HandoffTheorem`, `GrantTheorem`, `RunningTheorem`, `UnsafeTheorem` and
`CloseTheorem`. `IInv` adds that a session keeps a reason only while it is closed
(`ClosedForReason`, without which a handed-off session could be resumed), that a
lookup in progress is the only one of its execution (`AskingOwns`), and that a
process that is down has a restart left. `GrantTheorem` (a session has one usable grant at
most) and `RunningTheorem` (the running rows are the lookups in progress) state what
no run repeats. Only model-checked: `ExecutionsEnd`.

### Documents, OCR and review

`DocumentState` is one document in SQLite: an operator per statement or
transaction of `document.repo.ts` and `document-review.repo.ts`.
`DocumentWorkflow` has the handlers of `document.service.ts`, the OCR scheduler,
the in-memory index of `knowledge-retriever.ts` and crashes. A handler waits only
while it embeds (`building`), and an extraction while the OCR worker works
(`extracting`); what it does before and after is one action each.

| Code | Model |
|---|---|
| the `documents` row with the stored chunk set | `doc`; `chunks` numbers the set, `builds` says which draft revision a set was made from |
| extraction jobs, each with the draft made from it | `jobs` |
| the points of the document and `failedSources` | `index` (which chunk set, with which `createdAt`) and `loaded` |
| the uploaded file and its `.deleting` name | `file` |
| `upload`, `retry`, `reprocess`, `publishReviewDraft` up to their await | `Upload`, `Retry`, `RetryWithoutFile`, `StartReprocess`, `StartPublish` |
| the rest of `process` | `Publish`, `BuildFails`, `PublishFails` with `compensatePublishFailure` (`Compensated`, `Reconcile`) |
| `DocumentOcrScheduler.tick`, `executeExtractionJob` | `Claim`, `ExtractionEnds` |
| `delete` and the branches of its recovery | `Delete`, `DeleteRefused`, `DeleteConverged`, `DeleteRevived` |

`setup` chooses at the start what document it is, whether OCR runs in the
background, and whether the embedding provider may fail during a refresh.

Assumed: the vector store is the in-memory one, whose calls return without
leaving the microtask queue; a refresh waits only to embed chunks of an old
profile, and that wait is contracted into the step that makes it, its failure
kept; an OCR worker is configured.

| Run | Question | Bounds |
|---|---|---|
| `documents` | does what is searchable stay one complete reviewed set, whatever fails, and does every queued scan leave "pending"? | 2 administrators, 2 extractions, 2 draft revisions, 3 chunk sets, 1 crash, four setups: a publication that races a publication, a retry or a deletion, and a third that repairs it |
| `documents_publish_race`, `documents_freshness` | counterexamples, see Findings | smallest that show them |

Fairness: the scheduler polls (`WF(Claim)`), a call to the OCR worker ends by its
timeout (`WF(ExtractionEnds("worker"))`), and the process is restarted
(`WF(Boot)`). `PendingEnds` is restricted to scans in the queue: a document whose
upload was interrupted by a crash stays pending (see Known deviations).
`CHECK_DEADLOCK FALSE`: nothing happens to a document that is deleted.

### Quality runs and the policy gate

`QualityRuns` models the drain loop of `quality-run.service.ts` and the versions
of the retrieval policy of `quality-lab.service.ts`. `runs` is the table;
`history` the policies by version, the last being active; `current` and
`draining` are the memory of the loop. A run searches one backend after the other
(`Search` meets the knowledge of the moment, as often as it changes), looks at its
cancellation flag when the searches of a backend have ended (`TargetEnds`), and
saves its results in the step in which it last looked. Metrics are the set
`passed` of candidates that are no worse than the policy the run started under.
`Read` and `List` mark completed runs stale; `Activate` is the gate and the change
in one step, as both are synchronous.

| Run | Question | Bounds |
|---|---|---|
| `quality` | is a policy only activated on measurements of the present knowledge, does a cancelled run never publish, and does every run end? | 2 runs, 2 policies, 2 policy versions, 2 backends, 2 revisions of knowledge that can be switched off and on, 2 edits, 1 crash: an edit, a cancellation, an activation and a crash fit between any two steps of a run |

`PromotionMeasured` allows the knowledge to have been off for a while: switching
it off and on brings back its fingerprint, which is all the gate compares.

Fairness: the loop goes on by itself, searches and embeddings end or fail by
their timeouts, and the process is restarted (`Start`, `Search`, `TargetEnds` or
`RunFails`, `Boot`).

### FAQ entries, reviews and vectors

`FaqKnowledge` models operations that read entries, wait for the embedding
provider and write: creating and editing (`persistCurrentFaqEmbedding` with its
three attempts), importing, refreshing the source, and converting a review item.
`jobs` are the waiting operations with what they had read. `clock` stamps
`updated_at`, on which the code compares and swaps. A vector is named by the
version of the text and the model it was computed from (`vec`); `label` is the
embedding profile the row or record claims. `SwitchModel` changes the model at any
time, and `Retry` is the retry of the client, which reads the model again.

Assumed: two writes of an entry have different `updated_at`; the in-memory store
answers within the step; ids are uuids, which are not used again while something
holds them (`Fresh`).

| Run | Question | Bounds |
|---|---|---|
| `faq` | is an entry never found by the vector of an old text, and do entries, reviews and vectors agree? | 2 entries, 1 review item, 2 operations at once, 3 writes, 2 models, 1 crash; entries and operations are interchangeable (symmetry, sound as all properties are invariants) |

`ServedTextIsCurrent` leaves out entries made from a review, for which the code
does not ensure it (see Known deviations), and every write has an `updated_at` of its
own: two edits within one millisecond are not told apart by the code either.

### Proofs

`QualityRunsProofs` proves
`TypeOK`, `CancelledHasNoResult` and `PromotionMeasured` of `QualityRuns` for every value of the constants. Neither is
inductive alone. A search in flight belongs to no run by itself, so `IInv` adds
that the loop works only while the process is up and only on a run that is
running: what the loop later saves or drops is then never the result of another
run, and a cancellation that finds the run running is seen at the one place left
where a result is stored. For the gate it adds that a completed run has searched,
and that every state of the knowledge it searched lies between the revision of
its fingerprint and the present one; the gate compares the two ends, so all that
lies between is the present one. `RunEnds` is a liveness property and stays with
TLC.

`DocumentProofs` proves `TypeOK`, `SearchableIsIndexed`, `PublishedIsReviewed` and
`RunningIsWorked` of `DocumentWorkflow` for any number of administrators,
extractions, revisions, chunk sets and crashes. None is inductive alone, as a
handler puts back a row it read before it embedded. `IInv` therefore says of every
row that may come back, the one in the table and the one a waiting handler took
along, that it is `Sound`: ready exactly if it has chunks, and its chunks are those
of an `Approved` revision. `Approved` is kept by every statement: a draft that is
published is neither edited nor published again, and its row leaves only with the
document. That is why a compensation cannot bring back chunks nobody reviewed, even
where it takes the wrong document down (`documents_publish_race`). For the index,
`IndexOK` adds that it is loaded only while the process is up, and each statement
has a lemma that the row it leaves is searched by the points that are there, or is
not searched. `RunningIsWorked` needs that in the background mode no administrator
extracts. The proof rests on `StateAssumption`;
`PendingEnds` is a liveness property and stays with TLC.

`FaqKnowledgeProofs` proves `TypeOK` and the three invariants of `FaqKnowledge` for
any sets of entries, reviews and operations and any bounds. The argument is that a
revision is written once: `IInv` says of every waiting operation that what it read
of an entry is still true of it, or carries a revision the entry will not have
again (`SeenSound`). The compare-and-swap then finds either the text that was
embedded or nothing to write, which is why the vector of a row is that of its text
(`RowSound`), and why a record of the index with the row's revision is too
(`EntrySound`). The compare-and-swap alone would not do for an entry that is
switched off: `SeenSound` adds that an edit which still finds its revision finds the
entry on, as it was when it asked. For reviews `IInv` adds that a conversion waits for
an entry made for its own item, or for one that is gone; the id of a removed entry
comes back only when no operation holds it (`Fresh`), so that a late conversion cannot
meet another entry. The proof rests on `FaqAssumption`, and on the assumptions above:
two writes with one `updated_at` would break it at `SeenKept`.

`SearchableIsIndexed` includes that a document is ready exactly when it has
chunks, and `DismissLeavesNothing` that no vector is served whose entry is gone.

### Algorithms over one input

The parts that work on their own input have no `.cfg` of their own. `Algorithms`
extends all of them and runs them together: `task` says which part a behaviour carries
out, and the variables of the others keep an initial value meanwhile. `MCAlgorithms`
gives the constants their values, with `SampleFiles` and `SampleQuestions` for the inputs.
Texts are sequences of tokens whose size and nature are tables (`Sentences`,
`Clean`, `Breaks`), patterns are sets of features, scores are hundredths, and every
limit of the code is a constant, scaled down so that the samples lie on both sides
of it.

| Module | Code | Samples and bounds |
|---|---|---|
| `KnowledgeScan` (with `IndexKnowledge`) | the page query of `retrieval-index-knowledge.repo.ts` as the build repeats it | 2 FAQ entries, 3 chunks, any subset active, pages of 1 to 4: pages end inside either type and exactly between them |
| `DocumentBlocks`, `DocumentChunks` | `document-parser-adapter.ts`, `document-ir.ts`, `document-cleaner.ts`, `document-chunker.ts` | every Markdown text of up to three lines of eight kinds, chosen longer ones, text files, up to four PDF pages with repeated tops and ends, DOCX paragraphs, lists and merged tables, and the defects the parsers refuse; every distance from 0 to 2 between neighbouring units; a chunk holds 6 characters, overlaps by 1 and is merged below 4 |
| `Retrieval` | `knowledge-retriever.ts`, `retrieval-ranking.ts`, `grounding-policy.ts` | 2 FAQ entries and 1 chunk whose vectors are current, old or of another profile; vector scores 0 and 60, keyword scores 0, 65 and 90, between which the thresholds of the policies lie; five questions, with the attempts of the classifier behind them; one edit or switch between any two steps of a search |
| `QualityEval` | `eval/quality-evaluator.ts` | every pair of cases that differ in what was retrieved and what is expected; four policies |
| `Prompt` | `context-manager.ts`, `prompt-manager.ts` | every conversation of up to five messages in any order of roles, before a short or a long question that may repeat an earlier one; summaries and knowledge that fit, nearly fit and do not |
| `Triage` | `escalation-triage.ts` | up to 3 of the patterns in any two messages, one of them older than what the model is shown; the three formats, a time budget of two units, and a model that may name one missing thing of its own |
| `OcrWorker` | `ocr-worker/`, `ocr-contract.ts`, `ai/ocr-extractor.ts` | three calls, of which one is refused, one has four pages of every kind of item and one has a table that reaches too far; the timeout, the forced exit one second later and the restart at any moment |
| `LlmCall` | `ai/llm-client.ts` | three attempts of up to three tokens with a buffer of two, so that a stream fails before, between and after its tokens, and by its buffer; two changes of the configuration and any number of other calls between any two steps |
| `QualityData` | `quality-lab.service.ts`, `quality-lab.repo.ts`, `createRun` and `processNext` | the built-in version of two releases and two more, of at most two cases each, two texts, two writes, two runs of any published versions, restarts with either release |

Run `algorithms`. No fairness and no deadlock check: a behaviour ends with its task.
`IngestKeepsText` is the composition of five claims, one per stage of the pipeline:
no line of the file is lost by its parser, cleaning excludes only what repeats, a
unit cites the headings it stands under, the chunks hold everything that is left,
and each chunk is within the limit. It speaks of units: that the pieces into which
`splitLongUnit` cuts a long one keep each sentence of it is not part of the claim.
`PromptAsksTheQuestion` states the order, the question last and the budget; that what
is kept are the latest rounds follows from `Window` alone. `AnswerIsSound` joins the staleness of what is
cited (edits while the search awaits) to the ranking's own postcondition and to
what may be answered at all; `QualityIsMeasured` the choice among the policies to
what they were measured on.
`OcrIsFaithful` joins the life of the slot and the temporary file to the postcondition
of the mapper: every word of the scan once, in order, on its page, under its title.

What is known of the inputs is in the assumptions of the modules, each of which the
code that calls the part sees to: a conversation has its messages in the order of
their ids and the question last (`PromptAssumption`); scores are natural numbers and the limits of a
ranking keep more than one candidate (`RetrievalAssumption`); the candidates of a case
are a finite set of different entries (`QualityAssumption`); the engine hands over the
pages of a scan in strictly increasing order, and a table row by row
(`OcrAssumption`); a token has sentences of a positive length, cleaning leaves a token
or nothing of it, a file has the shape that the library of its format hands over
(`SourceFile`) and a chunk holds one character at least (`IngestAssumption`).

The theorems about the parts hold for every value of their constants:

- `ScanTheorem` (`RetrievalIndexProofs`), for any tables and page sizes.
- `ReplyTheorem` (`OrderToolProofs`), for any number of attempts and any buffer. The
  invariant says that no client is of a configuration still to come (`NoneAhead`),
  that what was shown is the buffer of the attempt under way and that a call which
  waits to be tried again has shown nothing (`ShownIsBuffer`), and that nothing is
  asked before the first attempt (`AskedOnce`).
- `TriageTheorem` (`OrderToolProofs`), for any messages, patterns and answers: a packet
  is the deterministic one, or that with the summary, the facts and the missing
  information of one usable answer (`OfTheRules`), and its reason, priority and queue
  follow from one another by the rules (`RulesAgree`: the first rule that matches gives
  the reason, `ReasonIsFirst`, and the reason tells the other two, `ReasonTells`).
- `PromptTheorem` (`AlgorithmProofs`), for any conversation and limits: the window is a
  suffix of the rounds, in their order, whose last message is the question, and the
  messages that are sent fit the budget whichever parts had to be given up.
- `AnswerTheorem` (`AlgorithmProofs`), for any entries, stores, scores and questions and
  any edit between two steps of a search. The invariant carries what was active while
  it was sought (`AnswerIsCurrent`), and ranking is shown to lose no source that is good
  enough although it cuts its list twice.
- `QualityTheorem` (`AlgorithmProofs`), for any cases, policies, data sets, writes,
  releases and restarts. A version that is published has the cases its hash was taken
  of (`VersionsOK`), and a run names published versions, the number of their cases,
  and, once it read them, these cases (`JobsOK`); a release that starts again with the
  hash of the built-in version has its cases, and one with another hash gets a version
  of its own. The policy that is recommended is the least in the order of the
  comparison, as the fold over the policies keeps the best one so far.
- `OcrTheorem` (`AlgorithmProofs`), for any requests and scans. `OcrInv` says that slot
  and thread have one holder, and that a request has no file, not even one left behind
  by a forced exit, before it has the slot: that is why a new extraction never mistakes
  an old file for its own. The mapper's half follows the fold over the items of a scan:
  what was said so far is in the blocks so far, under the title that was last.
- `IngestTheorem` (`DocumentProofs`), for any file, any distances and any limits.
  `IngestInv` says what each stage hands over. A parser holds back what it gathers, and
  what its blocks say followed by what it holds back is what it has read (`Heard`,
  `InHand`), line by line or child by child, so that after the last flush the blocks say
  what the file says (`ParsedWhole`). Its blocks are numbered by their place and carry
  the path of the headings before them (`Raw`); cleaning keeps that and the declared
  metrics, so that validation cannot refuse it (`DocumentCleaned`), and leaves no block
  that shows nothing without hiding it (`Tidy`). Along such blocks the headings in force
  stand in the path, level by level (`HeadsFit`). Cutting a unit keeps its block, path
  and citations and bounds its size (`CutFrom`), and the groups, flattened, are the
  units in order before and after every merge (`GroupWell`), a list or table by itself.

These say what folds over sequences and sets compute. The library's induction theorems
take an operator as a parameter, which the installed provers cannot instantiate; so
`AlgorithmProofs`, and likewise `DocumentProofs`, has its own, over a set of numbers
(`Induct`, from the well-founded order of the naturals), and one that a function
defined over the subsets of `1 .. n` by recursion on their greatest member exists
(`Recursion`), from which a `FoldLeft` is unfolded (`Unfold`): a fold over a list of
length n has a trace `g` with `g[0]` the base and `g[k]` the step taken from `g[k - 1]`
(`CellsTrace` and its like, one for each fold of the model). An invariant of the fold
is then proved by `Induct` along its trace. `FlattenSeq` is treated the same way.

### The chat, from the browser to the tables

`ChatServer` is the handler of `routes/chat.ts` with the rows it writes (messages,
`retrieval_traces`, `knowledge_review_items`, sessions, `escalation_log`);
`ChatClient` extends it with one browser (`useChat.ts`, `api/chat.ts`,
`ChatPage.tsx`). `wire` holds the events of each request that the browser has not
read yet: writing an event and reading it are separate steps, so that the customer
may open another conversation, start a new one, rate, or lose the connection
between them.

| Code | Model |
|---|---|
| `resolveSessionForMessage` and saving the question | `Refuse`, `Receive` |
| an order lookup, a refused action, a direct answer, a generated one | `ReplyToOrder`, `RefuseAction`, `Classified`, then `Stream`, `StreamFails`, `StreamEnds` |
| the handoff, and the `catch` of the handler | `HandOff`, `Throw` |
| the stream of the model, its failure after tokens, `ESCALATE` in it | events `token` on `wire`, text `part`, `whole` or `marked` |
| `finalizeTrace`, `captureKnowledgeGapSafely`, `recordRating` | part of the step that calls them; the insert of a trace may fail |
| the parser of the stream and the callbacks of `useChat` | `Deliver(t)` |
| the card of an order reply, `authorizeOrderLookup` and `OrderToolService.lookup` | `AskLookup`, `StartLookup`, then `SaveLookup`, `UnsafeLookup` or `FailLookup`, and `ShowLookup` in the browser; `CrashAll` ends those under way |
| `findPreviousUserMessage` | `Answers`: the question a reply names, or the last one before it in its session |
| a new conversation, the history, a rating | `NewChat` and `Closed`, `Open` and `Opened`, `Rate` |

`LifeImplemented` is the refinement: whatever a turn does to the sessions and the
handoff queue is an action of `Conversation` (with which `OrderToolProofs` works), a
close of the customer, what the end of an order lookup does (`LookupStep`), a crash or
a start.

The result of a lookup is stored as a reply to no message, and its card can be rated
like an answer. `recordRating` then finds the last question before it in the session:
its own, or one that came later and has an answer of its own. Two ratings share a
review item then. `RatingReachesReview` says what holds in every case: a rated reply
has a question, whose review shows the rating of a reply to it (with one reply, its
own), is there whenever one of them was rated low, and is without a rating only when
the gap was captured after the result was rated high. What does not hold is that a low
rating stays visible: see Known deviations.

Run `chat`: 2 sessions, 2 requests, 1 stored result of a lookup, 2 rare events (a crash, a lost connection, a
failed trace, half an hour of silence, a rating, a new conversation, a visit to the
history). Two requests suffice for all the races of two turns in one session and for
a view that leaves one stream for another; two rare events for one that follows the
other, as a crash after a lost connection. One result suffices for two replies to one
question, as the other is an answer. Fairness: `WF(Serve(t))` (every await of
the handler has a timeout and ends in an answer or an exception),
`WF(Deliver(t))` (the browser reads what arrived, and a lost connection is reported
as the end of the stream) and `WF(Restart)`. `StreamingEnds` is checked under it.
`CHECK_DEADLOCK FALSE`: the two requests are used up. `bubbles` is a set: what a
message shows and updates does not depend on its place on the screen.

`ChatProofs` proves type correctness, the three invariants of the run and the
refinement for any number of sessions, requests, lookups and rare events
(`ChatAssumption`: requests are finitely many and numbered). `IInv` follows an answer from the handler to the screen. Of the tables it
says that each question has one reply that names it at most, that the question of a handler at work
has neither a reply nor a trace (`Asked`), and that two handlers never work on one
question: a trace is then written once, and by the handler that knows the outcome.
Of a connection (`Flows`) it says that a whole text is followed by no part, and that
`done` names a stored reply whose whole text is already on the screen or ahead of it
on the wire; a handler that has not streamed the whole has written none of it
(`Early`), one that only waits for the escalation packet has written all (`Late`).
`ShownAnswersAreStored` follows, wherever the connection is cut. That the messages
table has room for every reply is part of `IInv`: a request writes two rows at most, a
lookup one, and there are `MaxLookups` of those.

For the ratings `IInv` says of every review (`ReviewsOK`) that it is settled by a rated
reply to its question. Rows are only added, at the end, so that the question a result
falls to never changes (`RecordRating` needs one, as the code does: a reply without a
question is refused). `LookupsOK` says that the message a card is about to take is in
the table.

`LifeTheorem` is the refinement step by step: `Seen` maps a handler to the turn of
`Conversation`, and each way a handler ends is one of `Reply`, `FailTurn`,
`Escalate`, `HandOff`. `HandoffTheorem` and `CloseTheorem` use it: what `Conversation`
promises of sessions (`HandoffIsVisible`, `UserCloseIsFinal`, checked in the run
`order_tool`) holds of the chat, from `LifeStep` alone. `StreamingEnds` is a liveness
property and stays with TLC.

### The console

`ReviewDialog`, `Onboarding`, `AdminSession`, `AdminPages` and `Idempotency` share no
state; `Console` runs them in one state space, each behaviour being one `part`.

| Module | Code | Model |
|---|---|---|
| `ReviewDialog` | `useDocumentReviewDraft.ts`, `DocumentReviewDialog.tsx`; `getReviewDraft`, `saveReviewDraft`, `publishReviewDraft` of `document.service.ts`; `document-review.repo.ts` | `drafts` per document (which extraction, which revision, which corrections), `dialogs` per reviewer, `calls` under way: served and answered in any order, failing before or after they took effect |
| `Onboarding` | `onboarding.service.ts`, `onboarding.repo.ts`, `GettingStartedPage.tsx` | `state` and `pack` are the two rows, `installer` where the installation waits, `pages` what each tab saw last; entries may be edited and the document deleted meanwhile, and the process may die at each wait |
| `AdminSession` | `useAuth.ts`, `api/client.ts`, `LoginPage.tsx`, `middleware/auth.ts`, `routes/auth.ts` | the tokens issued and expired, `localStorage`, the state of each tab, the calls under way with each token |
| `AdminPages` | the list of six pages and the details of `DocumentManagementPage.tsx` | the query typed and applied, the numbered requests, the writes that fetch again |
| `Idempotency` | see above | |

Bounds of `console`: two reviewers, two extractions of the document, three revisions,
two calls under way and one failure (a late save against a publication, a retry
after a failed publication); two tabs, two guided questions, two uploads and a crash;
two tabs and three logins (a 401 of the first login can come after the second);
four requests of a list with two under way; the keys as above. Reviewers are
interchangeable (symmetry; the run has no liveness property).
`SavedEditsKept` and `PublishedAsShown` speak of a document that was extracted once,
as the code does not ensure them beyond (see Known deviations); the model has the
second extraction. `LoginKept` is about calls that fail with 401: the tabs of one
browser.

`ConsoleProofs` has the proofs about the console, part by part, and `ConsoleTheorem`
composes them: the parts share no variable, so that a step of one keeps the
invariants of the others, and a behaviour of `Console` keeps all of them.
`ProvenTheorem` and `InstallTheorem` hold for any number of tabs, questions, uploads and crashes. `IInv` adds
that a page shows a completed state only if the row is complete or was, that the
answer the row names is sufficient and cites the pack's document as long as the run
lasts, and that `installing` means an installer. `RowsTheorem` and `ListTheorem` hold
for any number of documents, filters and requests. Their invariants say of every answer under way what it will show: one with the latest
number carries the selected document, or the present query (`Browses`), or, in a
list that writes, rows no older than the last write (`Follows`).
`SessionTypeTheorem` and `LoginKeptTheorem` hold for any number of tabs and logins.

`SavedTheorem` and `PublishedTheorem` hold for any number of reviewers, documents,
extractions, revisions and calls under way. `RInv` says what a dialog, or a call on
its way to the server or back, knows of a draft that was extracted once: a revision
that is not ahead of the draft's, and if it is the draft's, its very text (`Exact`),
or that text with more corrections (`Covers`) in a dialog with unsaved edits and in
the save that carries them. A draft only goes on (`GoesOn`), so that what was known
stays true, and a save of the present revision covers what it replaces. Both
theorems have the hypothesis `[]AnswersStay`, which the attempt to prove them
without it turned up: a late answer is put into the dialog whatever document it
shows by then, so that with two documents the text of one may be saved or published
as the other's (see Known deviations). `OneDocumentTheorem` shows that the
hypothesis holds when there is one document, as in the run `console`.

## 4. Findings

Where the runs marked "violation" show the code to differ from what the
repository says of it; each is quoted in `PROJECT.json`.

- `index_switch_race`: `switchAlias` reads and compares the alias in one request
  and updates it in another. Of two overlapping activations the loser can move
  the alias last; SQLite then names another collection as active and no intent is
  left to reconcile.
- `index_empty_knowledge`: `processNext` reads the snapshot outside its `try`; a
  queued job whose knowledge has all been switched off ends the process, again
  at every start.
- `documents_publish_race`: of two administrators who publish one draft, the
  second, whose commit is refused, marks the row failed and deletes the chunks
  that the first published: its compensation acts on the row it read before it
  waited. An extraction that was retried and ends after an older draft was
  published does the same.
- `documents_freshness`: the points of a publication and its chunks take
  `createdAt` from two readings of the clock, and retrieval compares them; unless
  both fall into one millisecond, the vectors are dropped as stale until the next
  refresh.

## 5. Known deviations

What the code leaves open, met while modelling. Where a property would say
otherwise it has been restricted, and its comment says so.

Index service: a row that is active only while the build reads it (a document that
is switched on and off, an entry that is switched on and off by two edits) is
counted in place of another, which was off meanwhile: the fingerprint is the old one
again and the count is right, so that the collection becomes ready without that
other row. `ExactTheorem` proves that nothing else can be wrong with it. The
gate of an activation is evaluated before a request to Qdrant and not after it, so
that knowledge edited meanwhile is activated stale. Rollback demands that the
previous collection has the current fingerprint, which after an edit it has not.

Order tool: a grant is issued after the adapter's answer without another look at
the session, which may have been closed meanwhile; `Authorized` looks at the
session too, so that the grant cannot be used.

Documents: a deletion refreshes the index before it removes the row, so that the
points stay until the next refresh (retrieval rejects them, as their row is gone).
A deletion that could not be completed brings back a pending scan without its job.
A crash after the file was renamed and before the row is removed leaves the
renamed file, and the document without one. A crash during an upload that
extracts or embeds inside the request leaves its row pending, and nothing at the
start picks it up.

FAQ: a converted entry is indexed with the `updated_at` it had before its
conversion changed it, so that the vector is rejected until the next refresh. The
last update of `convert` does not compare `updated_at`: an edit of the entry that
comes during the embedding keeps its text and gets the vector of the text it
replaced. The embedding profile is read after the call it describes, so that a
model switched meanwhile labels a vector of the old model as one of the new. The
failure of an older edit's embedding takes away the vector that a newer one
stored.

Parsing: `updateHeadingPath` nests under a skipped heading level what
`activeHeadingIds` does not; a heading of which cleaning leaves nothing closes no other
one, although the paths below it, made before cleaning, name it: units under it cite
headings their path no longer has, which `CitesItsPath` allows; a Markdown heading of more than 500 characters makes
the whole representation invalid; `splitLongUnit` drops runs of punctuation in units
of more than 1200 characters.

OCR worker: it allows 10000 blocks and 8 MB where the contract of its client allows
2000 and 4 MB; its page count is the number of different page numbers, while the
contract wants every page number within the count; it collapses line ends before it
splits at them; the forced exit leaves the temporary file of the extraction, and ends
a request that was accepted in the second before it.

Model calls: a retry keeps the client of the first attempt (an embedding call its own,
a chat the shared one) but reads the name of the model again, so that after a change
of the configuration it may ask the old endpoint for the new model; `ReplyIsOneAnswer`
says what holds, that the first attempt is consistent and no later one asks a newer
endpoint for an older model.

Quality lab: `listCases` orders by a time and a random id, and `hashCases` only by
query, so that an unchanged derived version with two cases of one query may have
another hash than its source; nothing compares them, and `HashOf` leaves the order out.

Prompt: `buildSystemPrompt` gives up all knowledge when it is too long by any amount;
`getWindow` keeps the last answer of a round only. Grounding: of several groups of
contradicting entries only the first is cited.

Chat: the marker of an escalation is shown while it streams; conversations of the
history can be opened during a stream, so that a late end of it brings back the
session it belonged to; an exception after the headers breaks the connection instead
of sending an event. A card used while its answer still streams, which the browser
allows, is left out. The result of an order
lookup is stored without the question it answers (`order-tool.service.ts:143`), so that
`recordRating` takes the last one before it in the session
(`knowledge-review.service.ts:128`). If the customer asked something else before using
the card, that is the question of another answer, whose rating in the review item the
rating of the result replaces, a low one by a high one too, although `README.md:410`
speaks of the item "for that exact answer". `RatingReachesReview` says what holds then.

Onboarding: the review of its evidence completes an onboarding that was dismissed; a
demo document that a crash left pending, or one that was deleted after a failed
installation, makes every later attempt fail until it is deleted, or for good; an
edited demo entry makes every attempt a conflict.

Review dialog: the calls name the document and a revision, and the first revision of
every extraction is 1. After another extraction a stale save can overwrite
corrections of the new draft with the text of the old, and the second click of a
failed publication publishes a text that was never shown. An answer that comes after
another document was opened is applied to it. What is typed while a save or reload is
under way is dropped, and a publication closes whichever dialog is open when it ends.

Console: a list fetches again after a write with the filter of the render in which
the write began; deleting the document or opening its review
leaves the number of the requests alone, so that a late answer opens the details
again; a failed request for chunks leaves the rows there were. Deletions of different
entries can overlap (`FaqManagementPage.tsx:267`); `Write` has one at a time. `RetrievalOpsPage`,
`QualityLabPage`, `OperationsPage`, `ModelConfigPage` and the details of escalations
and conversations do not number their requests; the first of them confirms an action
on the collection that the last poll put there; the model configuration loses unsaved
edits when it is loaded again.

Login: with two tabs, a 401 to the old token removes the newer token that the other
tab stored, and a tab whose token differs from the stored one ignores its own 401s.
`LoginKept` leaves these out, as there the token of the tab had expired.

## 6. What is not modelled

`PROJECT.json` lists every part with the reason. In short: the publication of
documents into Qdrant is planned (the store is the one in memory); rate limits,
traces and statistics keep no state that something else depends on; the LLM, the
embedding provider, the order service and OIDC are the environment, which may be
slow, fail or be wrong; of the client, pages that only fetch and show; the
evaluation scripts and tests are not part of the running system. Limits of the code on the number of units and chunks of a document
(`MAX_UNITS`, `MAX_CHUNKS`) and the latencies of the quality metrics are left out.
