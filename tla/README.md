# Recruiter Copilot: TLA+ verification project

This directory holds TLA+ models of Recruiter Copilot (the Fastify server in TypeScript under `src/src`, over
PostgreSQL through Prisma and over files, and the React client under `src/web`), the TLC configurations that
check them on small instances, and the TLAPS proofs of the properties that matter most. Paths below are relative
to the repository.

## The system

One Node process serves the HTTP API. A handler runs alone between two `await`s, so the unit of
interleaving is the repository call. No handler uses a transaction; every repository saves whole rows
(an upsert by id), so a handler writes back whatever it read, however stale. Only a few handlers are
protected by the database: `Submission` and `CandidateJobRelationship` have a unique index on
`(candidateId, jobId)`. Other stores (audit log, notifications, action results, ingestion jobs, telemetry) are
files under `STORAGE_PATH`, loaded lazily, kept in memory and written synchronously. The process may be restarted at
any time. The client keeps what it has read in the cache of React Query, and the assistant's conversations in
localStorage, where several tabs share them.

| Component | State | Operations | What makes it correct |
|---|---|---|---|
| **RecruitmentService** (pipeline) | submissions, interviews, offers, activities; placement counter and status of a job | update status, reject, withdraw, schedule/complete interview, create/update offer, mark placed; the page of a submission, lists, counts | copies agree; counts never run ahead; every status has its cause, also where it is shown; the timeline tells every change |
| **JobService** | jobs, soft deletion, submission counter | create (text, file, manual), update, review field, mark ready, delete, submit candidate; ranked matches | a deleted job is frozen; counters match the tables |
| **RelationshipService** | candidate-job relationships: stage, append-only history, assignee | create, assign, move stage; lists, board | the stage is the one the history ends at; one relationship per pair |
| **AutomationService** | action results | stage move, assign, send outreach | each outcome audited once; a draft is sent once per relationship, but for requests cut short |
| **NotificationService** | notifications and notes, JSONL files | fan-out, mark read, notes with mentions | a read mark stays; nothing on file is lost but by a fault; nobody is told of what did not happen |
| **AuditService** | audit records, a JSONL file | record, query | an answered outcome costs a failing call to lose |
| **IngestionEngine** | ingestion jobs, staged files, fingerprints, counters | upload, confirm, run | every accepted file is processed once; a confirmed job ends; counters add up |
| **CandidateImportService**, **CandidateEditService** | candidate records, imports in flight | import, edit, review knowledge, mark ready | no duplicate import in flight; readiness follows the reviews |
| **VerifiedKnowledge**, **KnowledgeEvolutionService** | review state; knowledge objects with revisions, signals, confidence | review, revise, signal | history kept, confidence in bounds, record and object agree |
| **Review sessions, telemetry, dashboard** | open sessions; the telemetry file | open, abandon, complete; the dashboard's figures | the figures agree with each other |
| **IntegrationService** | registry file; the jobs it creates; audit log | create, update, import, export | an import is all or nothing; a disabled integration stays off |
| **AuthorizationService** and gate | role table, route table | authorize, before each handler | a viewer changes nothing but its own things |
| **Rate limiter, shutdown** | a window per client; the server's phase | check; close on a signal | bounded, drained, ends |
| **Integrity check, audit replay** | none (read all tables) | check, replay | a standing defect is reported; what is reported can be explained |
| **Analytics, matching, search, copilot, insights** | none (read the tables) | snapshot, score, search, draft | figures add up; a better candidate is never hidden behind a worse one |
| **Assistant** (client) | conversations in localStorage and on the screen | prompt, upload, confirm, reload, switch | an answer that was shown is kept; a job is made once |
| **Screens** (client) | the query cache | show, click, tell the cache, navigate | one's own writes are shown |

Interactions: `JobService` announces a new job and a new submission to `RecruitmentService` by callbacks
awaited after its own saves; `RecruitmentService` saves job rows itself when it places a candidate and
sends signals to `KnowledgeEvolutionService`; `AutomationService` calls `RelationshipService` with the
audit suppressed and records once itself; `RelationshipService` awaits `NotificationService` and
`AuditService` after its save; `IngestionEngine` calls `CandidateImportService` per file; `CandidateEditService`
calls `KnowledgeEvolutionService` and the review sessions; `IntegrationService` calls `JobService` and rolls back by soft
deletion; analytics, search and copilot call `MatchingService`.

Hard behaviours: stale whole-row saves of concurrent handlers; check-then-act over awaits; a handler cut
short between two saves; restarts with files half way; retries of what was already done; reports and pages put
together from several reads while others write; tabs that share localStorage; a shutdown with requests in flight.
`PROJECT.json` lists each hazard at its line with the property that covers it.

## Modules

| Module | Models |
|---|---|
| `RecruitmentPipeline` | `JobService` and `RecruitmentService` over the PostgreSQL repositories |
| `FounderReadiness` | `DataIntegrityChecker` and `AuditReplayService`, reading the tables of the pipeline while it runs |
| `PipelineViews` | the page of a submission, the list, the counts of a job, the insights on candidate, submission and job |
| `RelationshipWorkflow` | `RelationshipService`, `AutomationService` and what they write to notifications, action results and audit log |
| `StageLog` | the abstract log of stages that a relationship promises |
| `Matching` | the matching engine's scores, as operators |
| `Search` | `SearchService`: filters, order, pages; the ranked matches of a job; the insight engine |
| `Analytics` | the snapshot of `AnalyticsService` and the lists of relationships, over the workflow |
| `Copilot` | `CopilotService`, over the same |
| `Ingestion` | `IngestionEngine`, its files and staged uploads, and the imports of `CandidateImportService` its runs await |
| `CandidateKnowledge` | `CandidateEditService` with `VerifiedKnowledge`, `KnowledgeEvolutionService` with `KnowledgeObject`, and the saves of an import |
| `ReviewView` | what a recruiter is shown of a record: priorities, queue, differences, rates, timeline, insights, duplicates |
| `ReviewMetrics` | review sessions, the telemetry of reviews, the dashboard's figures, over the two before |
| `JsonlFile` | a JSON Lines file: appended lines, cut lines, what a reload finds |
| `Integration` | `IntegrationService`, `FileIntegrationRepository`, the jobs of imports, `FileAuditRepository` |
| `Inbox` | `NotificationService` over `FileNotificationRepository` |
| `Routes` | every route of the server with what it reads and writes, and the rules of the gate |
| `RequestGate` | rate limiter, authorization gate, handlers in flight, graceful shutdown |
| `Client` | every function of the client's `api`, with the route it asks for |
| `Screens` | the screens' queries and buttons over the cache of React Query |
| `Assistant` | the assistant's handlers over localStorage |
| `..._proofs` | the theorems of `RecruitmentPipeline` (with `FounderReadiness`, `PipelineViews`), `RelationshipWorkflow`, `Ingestion`, `CandidateKnowledge` (with `ReviewView`, `ReviewMetrics`), `Integration`, `Inbox`, `Assistant`, and in `Requests_proofs` of `RequestGate` and `Screens`, which stand on the same routes |
| `MC...` | the instances: symmetry, and the constants a configuration cannot write down |

Composition: `FounderReadiness` and `PipelineViews` extend `RecruitmentPipeline`; `Copilot` extends `Analytics`, which
extends `RelationshipWorkflow` and `Search`; `ReviewMetrics` extends `ReviewView`, which extends `CandidateKnowledge`;
`RelationshipWorkflow`, `Integration` and `Inbox` extend `JsonlFile`; `RequestGate` and `Client` extend `Routes`, `Screens` extends `Client`.

### RecruitmentPipeline

State: the four tables as functions from ids to a row or `None`; `activities`, how many activities of a
type a job or a submission has; `request`, one slot per request in flight. A slot holds the awaited call
(`at`), the parameters, and **the rows the handler read and will write back**. That is the whole point:
`SaveSubmission` and `SaveJob` write `request[r].submissionRow` and `request[r].jobRow`, not the current
row with a change. `placements` is a history variable: how many times `markPlaced` has written a Placed row.

Actions: a handler arrives (one action per operation, its first read and guard, e.g. `SubmitCandidate`,
`MarkPlaced`), then each awaited call is one action of `Continue`:

| code | actions in order |
|---|---|
| `submitCandidate` | `SubmitCandidate`, `FindDuplicate`, `InsertSubmission` or `RefuseInsert` (unique index), `SaveJob`, `AppendActivity` |
| `createFromParsed`, `createManual` | `CreateJob`, `AppendActivity` |
| `update`, `reviewField`, `markReady`, `softDelete` | `UpdateJob`, `ReviewField`, `MarkReady`, `SoftDelete`, then `SaveJob` |
| `updateStatus`, `reject`, `withdraw` | `UpdateStatus`, `Reject`, `Withdraw`, then `SaveSubmission`, `AppendActivity` (twice for the last two) |
| `scheduleInterview` | `ScheduleInterview`, `CountInterviews`, `InsertInterview`, `SaveSubmission`, `AppendActivity` |
| `completeInterview` | `CompleteInterview`, `Reread`, `SaveSubmission` (not when cancelled), `AppendActivity` |
| `createOffer` | `CreateOffer`, `InsertOffer`, `SaveSubmission`, `AppendActivity` |
| `updateOfferStatus` | `UpdateOfferStatus`, `Reread`, `SaveSubmission`, `AppendActivity` |
| `markPlaced` | `MarkPlaced`, `ReadJob`, `SaveSubmission`, `SaveJob`, `AppendActivity` |

`Abort` ends a request anywhere: the awaited call rejects, or the process dies. A row read and saved in
one step (`CompleteInterview`, `UpdateOfferStatus`) is one whose other fields never change.

Left out: texts, dates, notes, actors, review fields, `job.ready` (no guard reads it), telemetry,
and the knowledge signals, which write another component. Candidates are Ready ones.

### FounderReadiness and PipelineViews

Readers of the tables of `RecruitmentPipeline`, one at a time beside a request. Nothing they read is changed by them;
every read is an action of its own, because requests write between the reads.

| code | actions in order |
|---|---|
| `DataIntegrityChecker.check` | `StartCheck`, `LoadTable` for each table in any order (`Promise.all`), `Report` |
| `AuditReplayService.replay` | `StartReplay`, then per submission `ReplaySubmission`, `ReplayOffers`, `ReplayActivities`; `ReplayEnds` |
| `getSubmissionDetail`, `searchSubmissions`, the insight providers | `Open`, then `Read` for each of `Reads`, in the order of the code |

`standing` and `before` are history variables: the defects there were during the whole check, and the interviews and offers
there were when it began. `view.next` is the position in `Reads` of the next read. `jobPipelineStats`, the phases of a job, is an operator.

Left out: the rules of the check on candidates, resumes and knowledge sets, which no request of the pipeline removes;
codes no state of the tables can raise; names, titles and dates; the filters of lists; the insights made from salaries,
and those of an interview (`interview-insight-provider.ts`), which compare several interviews of one candidate.

### RelationshipWorkflow

State: `relationships`, the table; `items`, `loaded` and `resultsFile`, the action results in memory and in their file;
`notices`, `results`, `audits`, `emails`, how many notifications, answered appends of action results, audit records and mails there
are of a subject (a relationship with the stage, assignee or draft asked for);
`request` as above, with the row the handler will save (`row`), and the row `stageMove` compares the
outcome with (`before`). `written` is a history variable: how many changes were saved for a subject.

| code | actions in order |
|---|---|
| `RelationshipService.create` | `Create`, `Insert` or `RefuseInsert` (unique index) |
| `moveStage`, `assign` (API) | `MoveStage` or `Assign`, `Save`, `Notify`, `Audit` |
| `AutomationService.stageMove` | `AutomateMove`, `ReadAgain` (in `moveStage`), `Save`, `Notify`, `Record`, `Complete`, `Audit`; from `ReadAgain` to `Record` for the stage it is in |
| `AutomationService.assign` | `AutomateAssign`, `Save`, `Notify`, `Record`, `Complete`, `Audit`; straight to `Record` for the assignee it has |
| `sendOutreach` | `SendOutreach`, `FindSuccessfulSend`, `Send` or `SendFails`, `Record`, `Complete`, `Audit` |
| an argument that is refused, a missing row | `RejectArgument`, or the arrival itself, `Record`, `Audit` |

`Complete` is there after a success only. `Abort` ends a request at any call that may reject, `Restart` all of them with
the process. Notifications and audit records are counted, not kept: nothing in these handlers reads one back. Action results are
read back by `findSuccessfulSend`, so they are kept as `FileActionResultRepository` keeps them. The file is read at the first
access (`Items`), and lines that do not parse are passed over. A read that fails leaves a repository that counts as loaded and is
empty (`LoadFails`). An append pushes to memory first, and may leave a part of its line (`RecordFails`): the next result is then
appended to that part, and a restart finds neither (`AddLine`, `CutLine` of `JsonlFile`).

Left out: texts, times, mail addresses, permission and confirmation (their refusal writes nothing to the table), who
acts.

Granularity: every `await` is a point where another request may come in. The table is PostgreSQL, where that is
so; the JSONL files are written synchronously and their `await`s only yield a microtask, so the model has more
interleavings there than the server, which only makes the properties that hold stronger.

A draft is sent once, and at most twice more for each request cut short (`OutreachOnce`, AC-9b of EPIC-008). One mail more when the
record of a mail is lost: the process ends in between, or the append leaves half a line. And one more when that
half line takes the next record with it, of this draft or of another. The bound is reached: with `2 * aborts` for `1 + 2 * aborts` TLC
finds a third mail after one cut line and a restart. This is checked for one handler after the other: two sends that overlap inside
the mail adapter both go out. The adapter in the repository is a mock that answers at once; with a real provider, which its
comment announces, the window is open.

`StageLog` says what EPIC-004 promises: a log per relationship that only grows, one stage for each move, and an
owner that moves do not touch. `ImplementsLog` is the refinement: `log` is the sequence of new stages in the
history, `owner` the assignee.

### Analytics, Matching, Search and Copilot

`Matching` has the tables and thresholds of `matching-engine.ts` as operators from a candidate's and a job's input to
a fraction; the code computes in binary fractions, so at an exact half both whole numbers are possible (`ScoresOf`).
`Search` has the filters, `sortHits`, the pages, and two other lists that are ranked and cut: `rankReadyCandidates` with the
insight that counts its head, and `getInsights`, what is left of the insights of several providers.

`Analytics` adds to the workflow a snapshot: `ReadRelationships` reads the rows once, `MatchNext` or `SkipNext` (the job
is deleted) takes one pair after the other, `Return` answers. The funnel is computed from the rows by the operators
`StageIds`, `TransitionIds`, `ReachedIds`, `Stays`, which the properties apply to every state the workflow can reach.

`Copilot` adds a call: `explainMatch`, `summarizeCandidate`, `summarizeJob`, `draftOutreach` and
`suggestInterviewQuestions` read their evidence, the last one reads the job a second time (`FindJob`, `LoseJob`), the
provider answers (`Respond`) or does not (`FailReasoning`), while requests go on.

Left out: saved searches (a map by id with a file like the registry's), the index by skills (a query now), durations in
days, labels, the texts of prompts and suggestions. A query asks for one word; a word is in a text or not.

### Ingestion

State: `jobs` and `known`, the job rows and fingerprints in memory; `jobFile` and `knownFile`, what is on disk of them;
`staged` and `buffers`, the jobs whose bytes are in the staging directory and in memory; `task`, the handler of
each job (upload, then run) with the positions of the documents it has left and its counts; `imports`, the imports in flight by
content and file name; `candidates` and `resumes`, how many rows were saved of a content.

Unlike the components before, this one works on synchronous stores: a handler keeps the event loop until it awaits an
import, which reads from and writes to PostgreSQL and AI providers. `turn` holds the handlers the current turn
still has to run; uploads, confirmations and settling imports wait until it is empty. The steps of a
turn are separate actions all the same, because the process may end, or a write may throw, between them.

| code | actions in order |
|---|---|
| `createJobFromUpload` | `Upload`, `Stage`, `EndUpload` (awaits confirmation, or is confirmed and run); or `UploadAgain` for a package that was completed before |
| `confirmJob` | `Confirm`; the run starts in the same turn |
| `runJob` | `StartRun`, then per selected document `CountDuplicate`, `CountSkipped`, `CountFailed` (no bytes), or `Import`; after the import `SetFingerprint` and `CountImported`, or `CountFailed`; at last `Finish` |
| the `catch` of the run | `MarkFailed` |
| `importResume`, `executeImport` | `Import` joins or starts, `SaveCandidate`, `SaveResume` or `ImportFails`, which resume every run that waits |
| a crash and a restart | `Restart`: intact files, or one of them torn and taken for empty |

`Persist` is `persistJob`: memory first, then the file; when the file cannot be written the handler rejects, and
memory is ahead of the disk. `SetFingerprint` behaves the same way, inside the `try` of its document.

Left out: adapters and classification (a package is given with its classes), paths, percentages, times, candidate ids,
telemetry, what an import extracts. The files of a package are staged together or not at all. A prior job is any
job with that fingerprint (the code takes the first). Imports made directly by the API are
not in this model.

### CandidateKnowledge

A candidate's fields are kept twice: in the record (`records`), where a recruiter reviews them, and as knowledge
objects in a set (`sets`), which also take evidence and the signals of the pipeline. `request` has one slot per
handler, with the rows it read (`record`, `set`) and the fields whose objects it still has to bring up to date
(`todo`). `disturbed` is a history variable: the candidates with overlapping or failing handlers, or with an
object that was patched directly.

| code | actions in order |
|---|---|
| `executeImport` | `Import`, `SaveCandidate`, `Seed` |
| `reviewKnowledge` (also `editKnowledge`, `verifyKnowledge`) | `ReadRecord`, `SaveRecord`, then `ReadSet`, `SaveSet` of `recordReviewEvolution` |
| `markCandidateReady` | `ReadRecord`, `SaveRecord`, then `ReadSet`, `SaveSet` for every field not verified before |
| `updateWorkspace` | `ReadRecord`, `SaveRecord` |
| `patchKnowledge`, `addEvidence`, `recordCandidateSignal` | `FindSet`, `SaveSet` |

`EvolutionFails` is the `try` around the evolution of a review: the handler goes on. `Abort` ends a request
anywhere. A handler that finds nothing, or a candidate that is ready already, changes nothing and is not an action.

Left out: actors, times, reasons, provenance, evidence texts, the histories of confidences, name and identity
(edited with the workspace). Confidences are in percent. Signals are counted: those of the
candidate in the set, and those of a field (its revisions and the candidate's) in its object. The save of
the resume between the candidate and its set is a point where the import may be cut short.

### ReviewView and ReviewMetrics

`ReviewView` computes from a record what `toCandidateReviewView` shows (`View`), the queue of fields to review
(`Priority`, `Queued`), the list of ready candidates (`Listed`), from a set its timeline and what the insight
provider says of it (`Timeline`, `Insight`), and from two identities the warning of a duplicate (`scoreDuplicate`).

`ReviewMetrics` composes the handlers with what measures them: `Proceed` is a handler's step together with the telemetry
and the session it updates when its last call returns; `getReview` opens a session, `abandon` is the beacon of a screen
that is left, `Restart` ends the process, which forgets sessions and requests but not the telemetry. `told` counts the
events of the file; `SessionKpis`, `FieldReviewStats`, `QualifiedCreated` are the dashboard's figures.

Left out: durations, days, labels, review modes, the dashboard's figures on imports, uploads, models and latencies, which
are sums over events that nothing here records twice; the order in which one step appends several events.

### Integration

State: `registry` in memory and `registryFile`; `imports`, each at a step of `executeImport` with its rows and the
length of `createdIds`; `jobs`, the jobs of each import, live or deleted; `audit` in memory and `auditFile`, a
`JsonlFile`. `off` is a history variable: the integrations a recruiter may count on to be off. `editing` is one
`JobService.update` of an imported job between its read and its save.

| code | actions in order |
|---|---|
| `create`, `update` | `CreateIntegration`, `UpdateIntegration`, both over `Save`: memory, then the whole file, which may fail half-way |
| `executeImport` | `StartImport`; per row `SaveJob` (or `SaveJobFails`, `RefuseRow`), `Announce` (or `AnnounceFails`); `RecordSuccess` |
| its `catch` | per job, last first, `DeleteJob` or `DeleteFails`; `RecordFailure` |
| `executeExport` | `ExecuteExport` |
| lazy loads that throw | `RegistryReadFails`, `AuditReadFails`: `loaded` is set before the file is read, memory stays empty |
| a restart | `Restart`: memory is empty and not loaded; imports in progress are lost |

A failing call (`Fault`) is a rejected database call, which may have been carried out, or a file system call that
throws. A write cut short by the end of the process is one that throws, then `Restart`.

Left out: names, configurations, the order of the registry's lines (a cut rewrite leaves any of them), rows
that parsing drops (a payload is what it leaves), previews and connection tests, which change nothing,
refusals for a missing permission or confirmation, deletions of imported jobs by recruiters. `softDelete` reads
and saves in one step: the job it reads is changed by nobody but an edit, whose later save covers that case.

### Inbox

State: `items` in memory and whether they were `loaded`; `itemsFile` and `notesFile`; `mentioning`, a note whose mentions
are being told. History: `told` (which notifications were sent), `seen` (read marks that were answered), `unwritten`
(read marks whose write failed), `blind` (a load that threw: memory is empty and counts as loaded).

| code | actions |
|---|---|
| `recordOutcome`, `create` | `Tell`: append to memory, then to the file, which may throw |
| `createNote` | `SaveNote`, `Mention` for each actor mentioned, `NoteTold` |
| `markRead`, `markAllRead` | `MarkRead`, `MarkAllRead`: memory, then the whole file is rewritten, which may throw half way |
| the lazy load | `Items`; `ReadFails` when it throws; `Restart` |

### Routes and RequestGate

`Routes` lists the routes the modules register, as sets of records, with what a handler reads and writes; the gate's
table `AUTHORIZED_ROUTES` is a sequence that is searched in order, as the code does. A request goes
through `OnRequest` (the limiter's `Check`, or refusal by `Check` and by a server that is closing), `PreHandler` (the
actor of header, body or query, the permission of the route, the role), and `Handle`. `Signal` starts the shutdown:
`CloseHttp` (waits for requests in flight), `DisconnectPrisma`, `FlushLogs`; `ShutdownFails` and `ExitFailed` when a step
rejects; the other signal is ignored while it runs, the same signal again finds no handler left and ends the process at
once. `recent` is a history variable: by client and age, the requests let through since that many ticks ago.

Left out: what handlers do, bodies, the limits of body size and headers. Permissions that services ask for again are left
to the gate.

### Client and Screens

`Client` maps each function of `api` to its route. `Screens` has, by screen, the queries it shows and, by button, the calls
it makes, the queries it then declares out of date (`Invalidates`, `Refetches`, one after the other, some awaited) and
where it goes. `Click`, `ServerWrites`, `ClickFails`, `Tell`, `Respond`, `RespondFails`, `Move`, `Filter`, `Focus` are the steps; an
answer is as old as the number of writes the server had done when it was asked for. `owing`, fixed at the start, says by
button which of the followed queries must show its write. A query that is loading is not
asked again but by a cancelling refetch, as React Query does. `Untold` lists the pairs of a button and a query of which
the code does not tell; the property speaks of all others.

`filter` is the stage the relationships of a job are filtered by. Each stage is an entry of the cache of its own
(`StageFilters`: that of all stages and that of one), of which the tab has one mounted (`Mounted`). `AutomateRow` and
`RelateJob` invalidate them all; `RelateCandidate` refetches the one its component has chosen, or had when it was left
(`Telling`, by the `filter` noted in the click), and passes the other over (`PassedOver`): chosen again within ten seconds,
that one shows the list without the recruiter's own new row. No document promises otherwise, so the property does not
speak of the entry passed over; without the exception TLC finds the case at once.

A button has the flag its mutation sets and, as `guarded`, whether that flag disables it. The buttons of a submission share
`run`, but those of an interview and of an offer are not disabled by it, nor is the list of stages of a candidate by
its mutation: their clicks overlap, and since `isPending` is of the latest one (`latest`), a guarded button may be free
again while an earlier click has no answer. Each click's `onSuccess` runs all the same.

Tabs of a job or a candidate are one component: what two of them show stays mounted and is not asked for again
(`SameScreen`, `New`), and whoever is sent to the job they are on stays on the tab. A load that fails takes the screen's
inside away until it is answered (`Up`).

One row of each kind, and each behaviour follows one query with those it depends on (`DependsOn`; of the entries of a job's
relationships one at a time, together with the relationships of a candidate). Left out: insights beside a screen,
which no write ever declares out of date, and drafts in forms.

### Assistant

State: `stored`, the list of conversations in localStorage; by tab `conv`, `busy`, `confirming`; `calls`, each a handler
with the conversation it was called in; `acts`, confirmations in flight; `jobs`, how many jobs were made from a preview.
History: `interrupts`, `dropped` (conversations once cut from the list), and in a confirmation `left`, the interrupt that took its screen away.

| code | actions |
|---|---|
| `submitPrompt`, `onUploadCv`, `onConfirmIngest` | `submitPrompt` (or `submitPromptAtOnce`), `onUploadCv`, `confirmIngest`: add a message and its placeholder; `Progress`, `Finish`, `FinishThrows` patch it |
| `onConfirmAct` | `ConfirmAct`, `JobCreated` or `JobFails` |
| opening, leaving and reloading | `Open`, `Return`, `Reload` |

A handler whose screen is gone writes localStorage only. `detectIntentName` decides by its tests in order which intent
a prompt has, and so what its answer can be. Left out: texts, contexts, what an answer says.

## Runs

| Run | Instance | Shows |
|---|---|---|
| `PipelineConcurrent` | 1 job, 2 candidates, 2 submissions, 2 interviews, 1 offer, 2 slots, 5 requests, 1 abort | what survives every interleaving: `CountsSound`, `ReferencesAgree`, `StatusHasCause`, `ActivityTrail` |
| `Readiness` | 2 jobs, 2 candidates, 2 submissions, 1 interview, 1 offer, 1 slot, 5 requests, 1 report or view | one request after the other, a reader beside them: `CountsExactAtRest`, `DeletedJobFrozen`; `ReportSound`, `ReadersShowCause` |
| `WorkflowConcurrent` | 1 pair, 2 stages, 1 assignee, 1 draft, 2 slots, 4 requests, 1 abort | every interleaving: `HistoryChained`, `ToldAfterDone`, `AuditedOnce`, `FunnelAddsUp` |
| `Funnel` | 1 relationship, 2 stages, 1 assignee, 1 draft, 1 slot, 4 requests, 1 abort, restarts at any moment, 1 snapshot or copilot call beside 3 of the requests (`ReadsEarlier`); 2 skills, 2 years, 2 salaries | one handler after the other, a reader beside them: `ImplementsLog`, `ReadersSound`; sends repeated over cut lines, failing reads and restarts: `OutreachOnce` |
| `WorkflowHistory` | 1 relationship, 2 stages, 2 slots, 3 requests | **violated**: `HistoryAppendOnly`, "Stage history is append-only" (EPIC-004); a save of a stale row drops an entry |
| `IngestRuns` | 2 jobs, 3 packages that share a resume (alone; with an unsupported file; under another name with a JD), all scopes, 1 failing import, 1 failing write, 1 restart | `ReportAddsUp`, `ImportedOnce`, `KnownIsComplete`, `StagedUntilEnded`, `ConfirmedEnds` |
| `Knowledge` | 1 candidate, 2 fields, 2 values of which one says nothing, evidence from resume and client, 2 slots, 3 requests, 1 failure or restart, 2 reviews opened or beacons | `KnowledgeSound`, `Agreement`, `HistoryKept`, `MeasuredOnce`, `ShownTruly` |
| `ImportRollback` | 1 integration, 2 imports of nothing, two jobs, or two jobs and a refused row, 1 export, 2 failing calls, 1 edit, 1 restart | `ImportWhole`, `LeftoversCostFaults`, `AuditLossBounded`, `DisabledStaysOff` |
| `InboxRestarts` | 3 notifications, 2 notes, 2 actors, 2 failing calls, 1 restart | `ReadStays`, `OrphansCostFaults`, `KeptOnFile` |
| `Gate` | 2 slots, 2 clients, a recruiter, a viewer and a stranger, 4 routes, windows of 2 over 3 ticks, limit 1, 1 bucket kept, 2 requests | `WindowBound`, `ViewerReadOnly`, `DrainedBeforeDisconnect`, `ShutdownEnds` |
| `AssistantTabs` | 2 tabs, 2 handlers, 3 conversations of which 1 is kept, 2 interruptions, 3 jobs | `ShownIsKept`, `JobsCostInterrupts`, `AnswersKept` |
| `ScreensShown` | every screen, every button, each query with those it depends on; 2 clicks, 2 moves or changes of filter | `OwnWritesShown` |

Type invariants (`TypeOK`, in `Screens` `ScreensTyped`) are proved for each component that has theorems, and were checked with the runs while the modules were written; `MeasuredOnce` still states that of the measures. Every property has a mutant of the code
that breaks it, listed in `PROJECT.json`.

What the composed properties say. `CountsSound`: a job counts at most the submissions and the placements there are.
`ReportSound`: the check reports every defect that stood all the while, and an orphan it reports is a row that came between its
reads. `ReadersShowCause`: what a replay, a page, a list or an insight shows has its cause in what it shows with it,
in the tables, or in the request that just wrote it; the phases of a job add up to its count between requests. `FunnelAddsUp`: whatever lost updates did to the histories, stages,
transitions, rates, stays and boards of a snapshot agree. `ReadersSound`: each score has its place in the distribution;
being better never costs a candidate points, its place in a search or in the matches of a job; no hit is lost between
two pages, and no severe insight is cut for a lesser one; a draft names a stage there was. `KnowledgeSound`: record and set each agree with their own histories.
`Agreement`: record and set agree with each other unless handlers overlapped or failed. `MeasuredOnce`: sessions report
no review that was not told, a candidate is qualified once, revisions and signals are told. `ShownTruly`: a
review shows the last edit as the human's value, ready candidates have nothing left to review, the timeline follows the
record, duplicates are warned of both ways.

Bounds of the pipeline. Two slots give two submits of one pair, a job row written back over another request's count, and
a status written over a later one; a third request adds another stale writer of the same kind. Two
candidates let two different submissions be counted in one job. Five requests are the shortest history in which
a job and a submission exist and three handlers of the second and third phase overlap. Beside a reader, two jobs give a
submission elsewhere, a job that was filled before and a list with a deleted job; five serial requests write between any two
of its at most five reads. Deadlock is not checked: a history ends when the bound on requests is reached.

Bounds of the workflow. One pair gives the race of two creates, the second of which the index refuses whatever its id; two slots give two stale saves of one row,
and a move between the two reads of an automated one. Four requests are a create, two overlapping changes and a
third that sees what they left. Serially, a create and
three calls reach a stage entered a second time, and three sends of a draft: the line of the first is cut in the middle, the second writes
behind the half line, which a restart then passes over with it, and the third goes out, so that the bound of `OutreachOnce`
is met; a reader would multiply the last request by all it may answer, and is beside the others only. Serial handlers of two relationships meet in nothing but the table and that file, and a snapshot of several
is matched in as many steps; the theorems hold for any number of both. The operators of matching and search see all
inputs over the small sets of the configuration, plus unknown values.

Bounds of ingestion. Two jobs are two runs that share a resume, or a package and its re-upload; a third job meets the
same rows again. The packages cover a class that is imported, skipped, or left out by the scope, and a package
that does and one that does not ask for confirmation. One failing import, one failing write and one restart combine
with each other in every order. Deadlock is not checked: when all job ids are used and their runs have
ended nothing is left to do.

Bounds of candidate knowledge. Candidates do not interact. Two fields let a handler that marks the candidate ready be
between two objects, and a review change one field over a stale copy of the other; two values tell an
edit from its undoing. An import and two handlers give two stale writers, or a first review that overtakes the seed; with four
requests and the sessions the run takes longer than a developer waits, and the theorems hold `KnowledgeSound` and `HistoryKept` for any number.
Two beacons are a session opened twice, or opened and abandoned under a handler. Evidence below and above a recruiter's
confidence covers both outcomes of raising it. `HistoryKept` names the one way to lose a version, a save over a row that
changed since it was read; that way is open to any two handlers of a candidate that overlap, against "Knowledge
always keeps historical versions" (`memory-bank/04-business-rules.md:297`).

Bounds of data exchange. Two imports interleave with each other's rollback; two jobs make a rollback longer than one
step, and a third row that is refused makes an import fail without a failing call. Two failing calls are a failure
and a failure of the rollback, two cut lines, or a cut line and a failing read. One edit is one stale save. One
integration suffices, since they meet only in the file that is rewritten with all of them; the theorems hold for any
number. Deadlock is not checked: requests are used up.

Bounds of the inbox. Two recipients tell a mark of one from the other's; three notifications are one marked, one not, and one that
arrives later; two failing calls are a cut line and the append that goes to its end, or two rewrites.

Bounds of the gate. Windows of two ticks within three let requests fall on both sides of a boundary; one bucket kept
makes every request of another client prune; limit 1 is passed by the second request. The four routes are a read, a
guarded write, a write a viewer may do, and a route without a rule. Two slots let one request be in flight while another is
refused or the server closes. The two tables are checked over all routes and roles.

Bounds of the client. Two tabs and two handlers overlap in one conversation or in two; one conversation kept of three cuts one
that has a call in flight; two interruptions are a second job and its explanation. On the screens two clicks overlap, those of
one mutation among them, and two moves leave a view and come back, leave twice while an answer is out, or choose another
stage and the first again.

Fairness. Two specifications have it. `Ingestion` assumes weak fairness of each
run (the event loop runs what is ready, and nothing else may run in between) and of each import in flight (an awaited
call of a store or a provider resolves or rejects; that it hangs for ever is excluded). No fairness of uploads,
confirmations or restarts is assumed. `ConfirmedEnds` promises an end only when the process lives and can
write its file: the code does leave jobs Running otherwise. `RequestGate` assumes that a request in flight is answered
(Node ends one whose body does not come, and the handlers' calls return) and that each step of the shutdown is
resolved or rejected; nothing is assumed of clients, time or signals. `ShutdownEnds` then says that a signal ends the process.
The other components state no liveness: their handlers wait for nobody, and an abort or a restart is always
possible, so there is nothing that must happen.

## What the code does against its documents

`WorkflowHistory` is a run because a history entry is lost without any failure. The others below were met on the way and
are built into the models (the properties above hold with them):

- "Placement is permanent" (`memory-bank/04-business-rules.md`): creating an offer reopens a Placed submission.
- A Placed submission has an accepted offer (`consistency-verifier.ts`): `markPlaced` asks for none; only the check tells.
- The check reports every submission of a deleted job as an orphan, since `findAll` leaves deleted jobs out.
- "report counts match" (EPIC-015): re-uploading a package whose import failed drops the failure from the counts.
- "failed Execute leaves no partial import" (EPIC-011): an edit read before the rollback and saved after it revives a job.
- An automated move reports a no-op, or a change, by a row it read before another handler changed it; two overlapping
  `scheduleInterview` give two interviews of one round.
- Verifying an already verified field again adds an entry to the timeline of the set and none to the record. Every
  recruiter's revision, also an accept, is shown there as an edit.
- A search takes English for a word, so a search for b1 leaves a b2 candidate out whom matching prefers; a job with one
  end of a salary range is a job of exactly that salary in a search and open-ended in matching; a match that fails drops its
  candidate from a search by score without a word.
- In the assistant, confirming one preview of a job marks all previews of the conversation that lead to that job, and an import
  may be confirmed twice.

## Proofs

`RecruitmentPipeline_proofs` proves, for any sets of ids, slots and any bounds,
`TypeOK`, `OneSubmissionPerPair`, `CountsSound`, `ReferencesAgree` and
`StatusHasCause` as invariants of `Spec`. Assumptions (`PipelineAssumption`): submissions and
interviews are finite sets, jobs and submissions have different ids, `None` is no row and no value.

None of the properties is inductive, because what a handler writes later is decided by what it read
earlier. `IInv` adds `CallsOK`: for each request in flight

- `WellFormed`: the fields its step will use are there;
- `Refers`: the submission it holds exists, and the row it will save has the job and candidate of the row
  in the table, which no step changes;
- `CountsBehind`: the counts in the job row it will save are at most the table's, counting the submission
  or placement it has written (or is about to write before the save of the job);
- `HasCause`: the status it will save already has its cause.

Two facts carry these over the steps of other requests: rows are never removed and keep their job and
candidate (`RowsStay`), so causes stay (`CauseStays`) and counts of the tables only grow
(`SubmissionsGrow`). One lemma per operation shows `IInv'`; `NextIInv` puts them together.
TLC confirmed `IInv` and `RowsStay` on the instance of `PipelineConcurrent` before they were proved.

Two more invariants rest on it. `TraceInv`, for `ActivityTrail`, counts by row and handler the activities written and the
requests that still owe one: a step either leaves both counts alone or moves one entry from the second to the
first. `SerialInv`, for `CountsExactAtRest` and the action property `DeletedJobFrozen`, is about one slot (`Requests = {r}`):
the job row that a request holds is the table's but for its own change, and the counts differ from the tables by what
that request has written and not yet counted. With two slots both are false, as the stale saves show.

The readers come after that, over the specification in which they run beside the requests (`ViewsSpec`); to the pipeline their
steps are stutters, so `IInv` and `RowsStay`, of every step, are at hand.

- `CheckInv`, for `ReportSound`: every defect that has stood since the check began is in what each table answered, and every
  interview or offer a table answered is still there with the same submission. So an orphan in the report is a row
  that was not there when the check began, and whose submission is there by now.
- `ReplayInv`, for the replay's part of `ReadersShowCause`: a status that was read still has its cause in the tables when the
  cause is read, since causes stay (`ReadinessAssumption`: `None` is no replay).
- `ViewsInv`, for pages, insights and warnings: what a view has read and what the tables still say of it, by kind of view and how far it
  has come (`InOrder`: it has made the reads before `next`). A warning needs the rejected row explained, so `RejectInv` says
  that a Rejected submission has its activity, or a request that will append it, or an abort; `FilledInv` that a job is
  Filled by a placement, or by a recruiter.
- `ListsInv`, for one slot: a job a list does not name is deleted, and stays so; with two slots a stale save
  may bring it back. `StatsAgree` follows from `SerialInv`: the seven phases part
  the submissions of a job (`PhasesAddUp`).

Replays, pages, insights and warnings are proved for any number of requests, the whole of `ReadersShowCause` for one slot, which is
also what the run checks.

`RelationshipWorkflow_proofs` proves, for any sets and bounds, `TypeOK`, `OneRelationshipPerPair` and
`HistoryChained` (assumption `WorkflowAssumption`: stages, assignees and drafts are told apart, `None` is no row and no
value). `HistoryChained` is not inductive: what is saved was built from an earlier read. `IInv` adds that every
row a request holds is chained itself (`MovedChained`: one more entry keeps it so) and has the pair of
the row it will replace, which no step changes (`RowsStay`). The unique index makes `InsertStep` go through.

`ToldAfterDone` and `AuditedOnce` follow from `CInv`, an invariant of sums (`Balanced`): what is recorded of a
subject and what requests in flight owe it (`Owed`, a cardinality) add up to what was done to it. `OwedMoves` says what a step
of one request does to such a count, `QuietStep` that a step which appends nothing keeps the sums; one lemma per appending
action does the rest. `TidyCalls` says which caller can be at which call, so that one record is not taken for another.

For one slot (`Requests = {r}`), `WorkflowImplementsLog` proves the refinement. `SerialRow`: the row a request will save
is the table's with one move or one assignment (`UpToDate`). So an insert opens a log (`InsertOpens`), a save moves it on or gives
it another owner (`SaveMovesOrAssigns`), and every other step is a stutter (`LogStill`). `OneMailPerDraft` proves
`OutreachOnce` by a potential: `Due` is how many mails of a draft can still go out before another request is cut short, between
0 and 2, read off the file (a line with the record, an open last line, a record on that line) and what the repository has in memory. A
mail lowers it by one, since what `findSuccessfulSend` did not find cannot have come in between (`SendsMail`); a record and a
restart at rest never raise it (`SendsRecord`, `SendsRestart`); whatever is cut short pays for two (`SendsCut`). So mails sent and mails due
stay within `1 + 2 * aborts`.

The readers come after that, over the specification in which snapshots and copilot calls run beside the requests
(`ReadersSpec`); to the workflow their steps are stutters (`ReadersStep`).

- `FunnelsAddUp`, for any number of requests. It compares cardinalities, which needs finite sets: a step adds at most one row
  and one entry (`OneRowChanges`, `FinitelyMany`). Every row has one card (`OneCardEach`). Histories are chained, so every
  transition but the last of a row is followed by one out of the stage it led to (`StaysEnd`, by the bijection of an entry and
  the next one of its row).
- `DraftsStayTrue`, for one slot: the stage a draft named is in the log, to which entries are only added.
- Scores, searches and salaries are pure, and are proved for every record, job and query. `ScoresArePlaced`: scores are
  percentages (`OverallFraction`, `RoundedBounded`), so each has one bucket. `BetterScoresNoLess`: one skill, year or grade more
  costs nothing in any part, so nothing in the sum (`SumGrows`) or in the rounded score (`RoundedMonotone`).
  `SearchFindsTheBetter` and `SalariesAsMatched` go through the filters one by one. (`MatchingAssumption`: `Null` is no number.)
- Lists that are sorted: `InOrder` is the sort, an element in the place after all that come before it. `InOrderSorts` shows of
  any finite set and strict order that this is a list of each element once (the places are an injection between sets of one size).
  `PagesAreWhole`: a place of that list is one place of one page. `MatchesInOrder`: those who score at least `min` are the first
  ones, as many as are counted. `LimitKeepsSevere`: what a limit keeps has the worst. `ReadersAreSound` puts all of it together.

`CandidateKnowledge_proofs` proves, for any sets and bounds, `TypeOK`, `KnowledgeSound` (which is `RecordsSound` and `SetsSound`) and the action
property `HistoryKept` (assumption `KnowledgeAssumption`: claims are percentages, sources of evidence are on the ladder,
`None` is no row, request or value). Since a handler saves what it built from an earlier read, `IInv` adds

- `RequestsOK`: the rows that requests hold are sound, and a request that still has objects to bring up to
  date holds a record in which their fields are verified (so there is a revision to take the value from);
- `ImportAlone`: until an import has saved its candidate there is no record, and no other request for it;
- `Recorded`: a set, or any later request, belongs to a candidate that has a record.

The lemmas on fields and objects (`ReviewReviewed`, `RevisionSound`, `RaisedSound`) say that every operation keeps
its object sound and its history a prefix of the new one; `UpdatedGrows`, `EvolvedGrows` and `SaveGrows` lift that to
rows. `Continuing` and `Arriving` say once for all actions what a step of a request needs for the invariant and for
`Keeps`, the body of `HistoryKept`; the lemma of each action supplies it. TLC checked the added
conjuncts on an instance with three requests before the proof.

The composed specification with sessions, beacons and restarts keeps all this: each of its steps is a step of a handler,
leaves the rows alone, or is a `Restart`, which only takes requests away (`RestartStep`), so the same invariants are
inductive there. The theorems whose names begin with `Measured` say so.

A second invariant, `Truth`, proves `Agreement` and `ShownTruly` (`ViewAssumption`: finitely many fields, the AI's confidences
are percentages or missing). What is shown is derived from revisions, so `FieldTold` and `ObjectTold` say what those tell: the last edit
of a field gave it its value, an object corrected once says something else than the AI. Every row, saved or held by
a request, is so, however handlers raced. For a candidate that is not disturbed there is one request at most, it holds the rows that
are saved (`Steady`), and the set is behind the record by the fields in `todo` and by nothing else (`Agrees`, of each field
`Follows`: same value, as many corrections as changes, no fewer revisions). A review moves one field from agreed to `todo`, the save of the
set moves it back (`Advances`). TLC confirmed `Truth` on the instance of `Knowledge` before it was proved.

A third, `Measured`, proves `MeasuredOnce` (`MetricsAssumption`: `None` is no session). The telemetry counts events; to add up what
they report, a log is taken as the set of its entries `<<e, n>>`, the n-th event of a kind, so that telling is adding an entry, and a sum
over entries is the size of a set of pairs (`Reported`). Each figure is then an induction over steps, never over the log.

- `Adding`: for reviews and for corrections, what the open sessions have counted (`Open`) and what the ended ones report is no
  more than what was told. A session counts a review in the step that tells it, and reports it in the step that closes it, so a handler moves
  weight from one side to the other; a restart only drops weight. `EndedWell`: each session that ended ready was told with a qualification.
- `QualifiedWell`: of a candidate that is not disturbed, a request that is going to qualify it found it not ready, so nothing was
  told yet, and once it has saved the record, that is ready; `Truth` says that it is alone.
- `TrailWell`: the set in the row, and one that a request is about to save together with what its save tells, hold no more than was told, and exactly that
  for a candidate that is not disturbed. `HeldIn` counts revisions as pairs of a field and a place in its history, so that a field revised is one pair more.

`Integration_proofs` proves, for any sets, payloads and bounds, `TypeOK`, `ImportWhole`, `LeftoversCostFaults`,
`AuditLossBounded` and the action property `DisabledStaysOff` (assumption `IntegrationAssumption`: payloads are
sequences of rows, imports and exports are told apart, `None` is no integration and no job). Four arguments:

- `SInv`, for the first two: by the step an import is at, how many jobs it has and how many of them are in
  `createdIds`; all of them live until it rolls back; an edit is of a job that exists.
- `OffStays`, for `DisabledStaysOff`: an integration that is off is enabled neither in memory nor on file, also
  after a write that left only some lines or a read that left none.
- `AbandonedBounded`, for `LeftoversCostFaults`: not the leftovers but all live jobs that no rollback will reach
  are counted, and an edit not saved yet (`Pending`), against failed calls and edits begun.
- `LossBounded`, for `AuditLossBounded`: an open last line is owed one record (`Owed`), and `TailUnanswered` says
  that a whole record on an open line is of a request that was not answered, so that losing it costs nothing.

`StillBounded` is the counting lemma of the last two. TLC checked all of these invariants on the instance
of `ImportRollback` before they were proved.

`Ingestion_proofs` proves `TypeOK`, `ReportAddsUp`, `KnownIsComplete`, `ImportedOnce` and the property `StagedUntilEnded`
(assumption `IngestionAssumption`; for `ImportedOnce` also that the names are finite, since a restart is granted one candidate
for each). Four invariants:

- `Reports`: what a run has counted and what it has left (`todo`, positions of its documents) are the documents of its
  job. A report copied to a re-upload fits because packages with equal fingerprints are equally long (`SameLength`, by a bijection).
- `StagedRows`: whatever awaits a confirmation, on file too, is staged; a handler gives staged files up only with the
  end of the job on file (`Handled`, which every handler of a job satisfies).
- `Kept`, for `KnownIsComplete`: a run that is about to set a fingerprint does so in the turn in which its import saved the
  resume, and every import that is saving a resume has a candidate of its own (`Accounted`, a count by content).
- `OnceEach`, for `ImportedOnce`: until an import of a content is completed (`Done`), only imports that are saving a resume have
  made candidates of it; from then on no run starts another, because runs that set the fingerprint of a new content are alone in
  their turn (`AloneInTurn`). Every import in flight is awaited by a run (`Awaited`), so its name is one that some job holds.

TLC confirmed `Reports`, `StagedRows` and `OnceEach` on the instance of `IngestRuns` before they were proved.

`Inbox_proofs` proves `TypeOK`, `ReadStays`, `OrphansCostFaults` and the action property `KeptOnFile` (assumption
`InboxAssumption`). `ReadStays` speaks of the file, which is written from memory, so `Belongs` says how the two agree: a
notification has one line, marks that were answered are read in memory and, unless their write failed, on file. For
`OrphansCostFaults`, `LostCostFaults` counts the notes anybody was told of that no line holds, and the line left open, against the
failures.

`Requests_proofs` proves `DrainedBeforeDisconnect`, which is inductive as it stands, and `ViewerReadOnly`, which is about the
tables too. A request has no role before the gate gave it one with the permission for its route (`Gated`). That the rules open no
route to a viewer that writes more than its own (`ViewerWritesOwn`) is proved rule by rule and route by route: a rule whose permission a viewer has is for a GET, or its
path begins like those of the copilot, the inbox, saved searches or a preview (`AllRules`); GETs write at most the review session (`LooksOnly`), and what is on such paths writes a
viewer's own (`SharedWrites`); a path that matches a pattern has its fixed segments (`SharedMatches`). `WindowBound` follows from
`Limited`. A window of time and a bucket of the limiter begin at different moments, so `Counted` splits the span that ends now
where the client's bucket was begun (`Begun`): since then the bucket has counted every request, and before that at most `Limit`
were let through, because the bucket before had begun a window earlier. When no bucket counts any more, all of the span fell
into one. A bucket pruned by another client's request is one that had expired (`GateAssumption`: window and limit are positive).

`Assistant_proofs` proves `TypeOK`, `ShownIsKept`, `JobsCostInterrupts` and the action property `AnswersKept` for any number of tabs,
conversations, calls and interrupts (assumption `AssistantAssumption`: at least one conversation is kept, `None` is no message and no call).
Handlers write whole conversations, so `Sound` is about every copy of one, in localStorage, on a screen, in a call, in a confirmation: it
holds messages of calls made in that conversation (`Proper`), and none of them is further than the stored one unless the list once
dropped the conversation (`Behind`); the list has it once (`Unique`). Messages only go forward, so to write a newer copy with one more message takes nothing
back. `Counted` is for the jobs: those made from a preview and the confirmations of it under way are at most one more than
the interrupts, and when they are that many, the preview is gone or the screen that could confirm it is busy.

`Requests_proofs` also proves `OwnWritesShown` of `Screens`, whatever queries are followed (assumption `ScreensAssumption`: the views are those of the
application, `Absent` is no number and no answer). It has two halves.

- Tables. `AllAreTold`: a query that shows a table a button's calls write is one the button's `onSuccess` invalidates or refetches, or one in `Untold`.
  `ButtonTells`: only a first telling is a refetch, so what is passed over is passed over before anything is owed for the click.
  What a call reads and writes comes from the route that serves it (`Read`, `Written`); there are some hundred routes, so they are told apart by
  how their paths begin (`RoutesBegin`). `Readers` says which queries show a table.
- The cache. `ScreensInv`: a followed query that nothing is going to tell any more (`Due`) is loading since the write it owes, or its answer shows that write, or the answer
  is marked, and then off the screen or in error (`Kept`). `Told` and `Marked` do what `Kept` asks for each query a telling names (`ToldLoads`); what a
  button owes and its first telling does not name stays `Due` until a later one. A view or an entry that comes up loads what is marked (`ShowsLoads`); a step changes
  what is mounted only with the view and the filter (`MountedNext`), and a filter brings up its own entry only; a failed load
  leaves its answer marked. A first load that is left running is where the write may be missing: the model lowers what is owed to what that load shows.

  `AtRest` leaves only answers, and of those on the screen only the marked ones in error, which the property excepts. TLC checked `ScreensInv` on the
  instance of `ScreensShown` before it was proved.

Model-checked only: liveness (`ConfirmedEnds`, `ShutdownEnds`), which is out of the prover's reach. Every safety property of the passing runs is
proved. `ReadersShowCause` and `ReadersSound` as a whole, like the properties their runs check beside them, for one slot: requests one after the other.

## Not modelled

- Text extraction from resumes and JDs, name heuristics, language models and their providers: conversions and network I/O. What they return is
  an input.
- Saved searches (`saved-search-repository.ts`): a map by id whose file is rewritten like the registry of
  `Integration`; insights of an interview; the dashboard's figures on imports, uploads, models and latencies.
- `ReportService`: the analytics put into text and tables.
- Wiring of the server, configuration, logging, the Docker and backup scripts, and the validation scripts under `src/scripts`,
  which drive the operations modelled here one after the other.
- The in-memory repositories of the tests: the same calls without interleavings.

## What is left

1. Direct imports joined with the bulk runs of `Ingestion`, and the knowledge signals of the pipeline joined with
   `CandidateKnowledge`.
