# Nexus Scheduler in TLA+

Nexus Scheduler runs LibreChat agents on behalf of users, on demand and on
schedules.  This directory holds TLA+ modules of the parts in which several
processes share state, TLC configurations that check them on small instances,
and TLAPS proofs of what matters most.  Paths below are relative to
`packages/` unless they start with `src/`.

## 1. Inventory

| Component | State it keeps | Operations | Hard behaviour |
|---|---|---|---|
| Run lifecycle (`worker/src/processor.ts`, `librechatClient.ts`) | `Run` row, the in-memory abort controller | `processRun`: load, cancel check, slot, RUNNING, extraction, agent call, result, side effects | redelivery by BullMQ, retries, throttling, cancels at any await, crashes |
| Per-user slots (`worker/src/concurrency.ts`) | Redis sorted set per user | acquire (prune, count, add in one script), release | expiry, a crash leaving a slot behind |
| Cancellation (`shared/src/runCancellation.ts`, `worker/src/cancellation.ts`, `api/src/routes/runs.ts`) | Redis set of requested ids, pub/sub | SADD then PUBLISH; check and clear in the worker | the request arrives between any two steps of the run |
| Orphan reaper (`worker/src/orphanReaper.ts`) | none of its own | two queries per sweep, then a transaction and side effects per run | acts on a snapshot |
| Evidence staging (`processor.ts`, `RunArtifact`, `Run.extractedText`) | rows of three kinds | stage, swap, roll back, drop, clean up | a crash or a lost answer between any two |
| Scheduler loop (`worker/src/scheduler.ts`, `shared/src/scheduling.ts`) | `Schedule.nextFireAt` | query, decide, claim, record | several replicas, outages, edits in between |
| Schedule API (`api/src/routes/schedules.ts`) | `Schedule` row | create, patch, approve, reject, pause, resume, delete | read-then-write handlers that take no lock |
| Access (`api/src/access.ts`, `routes/teams.ts`, `routes/projects.ts`) | teams, memberships, grants, visibility | grants, revocation, re-parenting, membership | last owner, cycles, visibility kept beside the grants it depends on |
| Prompts and jobs (`routes/prompts.ts`, `jobs.ts`) | versions, pins, the job's prompt | numbered insert with retry, moving a job, deletions | write conflicts; pins that outlive what they name |
| Classification labels (`routes/classificationLabels.ts`) | the default label, the marking of projects | swap of the default at SERIALIZABLE, retire | aborted transactions, counts that are stale |
| Attachments (`routes/attachments.ts`) | rows and their bytes | insert under an advisory lock, delete, download | the quota of concurrent uploads |
| Accounts (`routes/auth.ts`, `users.ts`, `passwordReset.ts`, `bootstrapAdmin.ts`, `auth/`) | users, sessions in Redis, password links | SSO and local sign-in, reset, administration, startup sync | a session or a link checked before an await and used after |
| API keys (`routes/apiKeys.ts`, `jobs.ts`, `users.ts`, `teams.ts`) | keys and who owns them | add, revoke, use in a job, deletion of an owner | counts made before a cascade |
| Cost rates (`worker/src/costCalculator.ts`, `routes/costRates.ts`) | rates with a date, the cost stored with a run | put, move, delete, look up | the order in which a database returns equals |
| Delivery (`worker/src/webhookDelivery.ts`, `notifications.ts`, `email.ts`; `routes/webhookDestinations.ts`, `mailingLists.ts`) | destinations, links to jobs, lists | bounded retries, audit, mail; settings and secrets | lost answers; an audit write that fails; settings that change meanwhile |
| Usage reports (`worker/src/usageReportScheduler.ts`) | `usageReportLastSentAt` | read, mail, mark | ticks of several replicas without a claim |
| Audit trail (`api/src/audit.ts`, `worker/src/audit.ts`, `shared/src/syslog.ts`) | rows, the forwarding settings | insert, mirror | the mirror fails, settings change |
| Component status (`worker/src/componentStatusPublisher.ts`, `api/src/systemStatus.ts`, `shared/src/componentStatus.ts`) | a Redis key that expires | probe, publish, read | slow passes that write last |
| PDF (`packages/pdf`, `pdf-service`, `shared/src/pdfServiceClient.ts`) | slot counter, queue, browsers | queue, launch, render, hand over | launch fails, callers give up, restarts |
| Text of a run (`promptTemplate.ts`, `attachmentPrompt.ts`, `repetitionDetector.ts`, `librechatClient.ts`, `webhookPayloadTemplate.ts`, `webhookDeliveryHeaders.ts`, `librechatDiscovery.ts`) | none | pure functions | boundaries |
| OCR service (`src/docker/ocr/service.py`, `docling_worker.py`, `worker/src/ocrClient.ts`) | in-flight table, docling child, file store | process, cancel, pre-cancel, store, fetch, delete | a cancel before its request, a hung child, a full store |
| Frontend (`frontend/src`) | forms, cached queries | notification, webhook, schedule and prompt dialogs; pages | a form seeded from an answer that is old or still to come; calls that end in any order |
| Encryption, metrics, health, deployment | none shared | | |

How they interact: the API and the scheduler loop insert a `Run` and enqueue a
BullMQ job of the same id.  A worker replica picks the job up and executes
`processRun`; it reads and writes Postgres (the run, its artifacts), Redis (the
cancel set, the slots) and calls the OCR service and LibreChat.  The API records
cancels in Redis.  The reaper, in every replica, ends runs nobody works on.  The
schedule API decides when `nextFireAt` is set; the loop only looks at that, the
approval and the pause flag.  A run that ended is costed, posted to the
destinations linked to its job, and mailed.  Nearly every route ends with an
audit event.

What makes each part correct:

* run lifecycle - legal status changes only; no agent call after the end; one
  announcement of the end; BullMQ and Postgres agree; a cancel recorded while
  nobody has the run stops it; every run ends;
* slots - never more than the limit executing; every exit gives the slot back;
* evidence - what users read afterwards is what the agent was given;
* schedules - a time fires once, only while approved, the approved content is
  the reviewed one, each claimed fire leaves a run;
* access - a team keeps an owner, the tree stays acyclic, approvers can edit,
  visibility follows the grants;
* prompts, labels, attachments - unique numbers, pins honoured, one default, no overrun;
* accounts and keys - an active admin remains, a used link is dead, a session that
  ended stays so, a job keeps its key;
* cost, delivery, reports, audit, status - one rate at a date; the trail tells what
  was delivered; no period left out; the mirror decides nothing; what is shown was
  true lately;
* OCR - a cancel reaches the request it names, every request ends with its own
  answer, an id that was given out is served;
* PDF - slots neither lost nor doubled;
* dialogs - a save sends only what its user saw or chose.

## 2. Modules

| Module | What it is |
|---|---|
| `RunContract` | abstract: the status machine and the agent calls of one run |
| `RunLifecycle` | creators, BullMQ, worker lanes, cancel clients, reapers, mishaps |
| `RunInvariants` | its inductive invariant |
| `EvidenceStaging` | artifact rows and `extractedText` of one run over its attempts |
| `ScheduleFiring`, `ScheduleInvariants` | one schedule between API handlers and the ticks of all replicas; its inductive invariant |
| `ProjectSharing` | teams, owners, grants and visibility of a project |
| `PromptLibrary` | prompts, versions, a job and the pins of its schedules |
| `ClassificationLabels` | the default label and the projects marked |
| `AttachmentQuota` | the attachments of a job and their quota |
| `OcrService`, `OcrFiles` | requests, cancels and the docling child; the store of uploads |
| `Accounts`, `ApiKeys` | users, sessions and links; keys and the jobs that run under them |
| `CostRates` | what a run costs |
| `RunDelivery`, `WebhookDestinations` | who is told of a run, and how |
| `NotificationSettings`, `ScheduleForm`, `PromptDialog` | the dialogs that keep a copy of what they edit |
| `UsageReports`, `AuditTrail`, `ComponentStatus`, `PdfRenderer`, `RunText` | one each for the components of these names |
| `MCRunLifecycle`, `MCRunScenes`, `MCScheduleFiring`, `MCOcrService`, `MCProjects`, `MCServices`, `MCAccounts` | what TLC needs: owners, budgets, edits, symmetry, and the parts that share a run |
| `FiniteTheorems`, seven `...Proofs` | the proofs, section 5 |

The state of a module is the rows and keys of the code, a program counter or a
record for what each handler, tick or dialog holds across its awaits, and a few
histories, said to be so where they are declared.  A step is the code between two
points that another process can observe.  A request that is refused changes
nothing and is no step.

**RunLifecycle.** `status` is the row; `job`, `made`, `stalls`, `lock` are
BullMQ's view of the job (external: modelled from how the worker uses it);
`cancelSet` and `slots` are the Redis structures; `pc`, `cur`, `err`, `final`,
`aborted` are the locals of `processRun` in one lane; `todo`, `reaping` those of
a sweep.  A lane is a concurrent job slot of a replica.

| Actions | Code |
|---|---|
| `Load`, `CheckCancel`, `HonourQueuedCancel` | processor.ts 148-214 |
| `AcquireSlot`, `Throttle` | processor.ts 216-240, concurrency.ts |
| `Start`, `ExtractionDone`, `ExtractionFails`, `SeeCancel`, `Precheck` | processor.ts 278-494 |
| `AbortBeforeDispatch`, `Dispatch`, `AgentReturns`, `ClearCancel` | librechatClient.ts, processor.ts 495-569 |
| `Succeed`, `CatchCancelled`, `CatchFailed`, `CatchRetry`, `Tell`, `ReleaseSlot` | processor.ts 571-731 |
| `RequestCancel`, `RecordCancel`, `PublishCancel` | runs.ts 130-163, cancellation.ts |
| `Sweep`, `PassOver`, `Reap`, `FinishReap`, `AbandonSweep` | orphanReaper.ts |
| `Pickup`, `Promote`, `StallCheck`, `LoseLock`, `Ack` | BullMQ |

Mishaps are a worker's death (`Crash`, `LoseEnqueue`), a call that is rejected without
effect (`Fault`) or after it (`RowAnswerLost` for Postgres, `RedisAnswerLost` for the
cancel set and the slots), and a lost lock (`LoseLock`), with a budget for deaths, calls and
locks.  `AfterFault` says where processRun goes then: the write of RUNNING is outside the
try whose catch ends a run, so that its rejection leaves the row as it was, announces
nothing, gives the slot back and throws.  Time is abstract: `Age` makes
a row older than the reaper's threshold and `ExpireSlot` drops a slot, neither
while the deadline of the code (five minutes shorter) rules it out.  A run that
was reaped, lost its lock under a live worker, or had its audit write rejected
after SUCCESS or that write's answer lost, is `tainted`: the contract promises nothing
about it, and the properties say so.

**EvidenceStaging** is one run, one worker at a time.  `rows` holds the artifacts
by kind as pairs of attempt and attachment, `text` the attempt `extractedText`
comes from; `prepared` and `invoked` are the closure's flags.  `Settle` is where
the queue, RunLifecycle's subject, shows.  A call may be rejected without effect or
with it: `SwapAnswerLost` and `RollbackAnswerLost` are the two transactions whose flag then
says the wrong thing, `Committed` (in `Fault`) every other write.  The reaper is two
steps: `Sweep` puts the run into its snapshot while no attempt has a fresh `startedAt`,
`Reap` ends it later, whatever the row says and whoever executes by then.  Two histories
say where the code promises nothing: `cut`, a worker was stopped (or an answer lost)
between a swap and its resolution and no request left since; `overtaken`, the reaper ended
the run under an attempt that had staged and not asked.

**ScheduleFiring.** `row` is the schedule.  A handler is a `ReadFor...` step, which
keeps what its reads returned in `request`, and a `Write...` step.  A tick is
`ReadDue`, `Decide`, `Claim` or `ClaimLost`, `RecordFire`.  Calendar arithmetic is
an interval counted from the last fire (`EVERY`) or the next multiple by the
clock (`ALIGNED`).  A request whose write met a change it had not read sets
`raced`; the two approval properties exclude such histories, since the handlers
take no lock and nothing in the repository promises more.

**ProjectSharing.** `life`, `parent` and `role` are the teams and memberships,
`acls` the `ProjectAcl` rows in the order of creation (a deleted one leaves
`None`, so that positions serve as ids), `owner` and `visibility` the project.
An `Ask...` step is the reads a route makes before it writes, authorisation
included; what they found stays in `request` as `seen`, for the properties only.
Then every write is a step: `Reparent`, `Delete` (with what the schema cascades
or nulls), `ChangeMembership`; `CreateAcl` and `MarkShared` in either order, as
`Promise.all` allows; `DeleteAcl`, `CountAcls`, `MarkPrivate`.  `Create` is the one
transaction.  `Add`, `Relevel` and `TransferOwnership` write once and decide nothing
on what they read, so they are one step.  The walks of `access.ts` (`Below`,
`AncestorChain`) are fixpoints and end on a cycle, as the visited sets there make them.
Users are constant here; their deletion is in `Accounts` and, with what it would
take along, in `ApiKeys`.

**PromptLibrary.** A version is a pair of prompt and number.  A creator reads the
greatest number, inserts, and on a unique conflict reads anew, `MaxTries` times.
`ChosenVersion` is what `processRun` makes of a schedule's pin at pickup; `asked` and
`buried` are histories of what was pinned and which prompts were deleted.

**ClassificationLabels.** A request for a default takes a `Snapshot`, then commits or
aborts; `stale` is PostgreSQL's verdict that another commit or write touched what it
read or writes (external).  An abort goes back to the snapshot, `MaxAborts` times.

**AttachmentQuota.** An upload takes the advisory lock, sums, inserts and commits, or
dies anywhere and gives the lock back.

**OcrService.** One thread for each request, of the worker (`Named`, which may cancel)
or of LibreChat (`Chat`, whose connection is polled).  `_INFLIGHT`, the pre-cancels,
the registered commands and the docling child with its line protocol are shared.
**OcrFiles** is the store: each handler holds its lock throughout.

**Accounts.** `users` the rows, `sess` the sessions in Redis, `req` what a request
loaded and checked before its awaits (Keycloak, bcrypt).  `SyncBootstrapAdmin` is a
start of the API: it sets a password and leaves a pending link where it is, which
`void`, the links that should be dead, records all the same.  **ApiKeys**: a handler checks,
then writes; foreign keys are checked again by the write, so a deletion that would take a
used key fails whole.

**CostRates**: a lookup is two queries, among rates that are put, moved and deleted.
**RunDelivery**: the links read once, a task per destination, then the mail, while
clerks change the rows.  **WebhookDestinations**: the settings, the secret and what a
delivery or a test makes of them.  **UsageReports**: ticks that read, mail, mark.
**AuditTrail**: insert (which may be refused, or commit and lose its answer), then the
mirror; a message is counted in bytes.
**ComponentStatus**: passes that probe and publish, the key's expiry.
**PdfRenderer**: the counter, the queue and the browsers.

**NotificationSettings**, **ScheduleForm**: a dialog's fields, what its queries brought
and when, and the save under way.  **PromptDialog** has the prompt as stored, what the query
fetched, the fetch and the calls under way, and the fields of the two editors in the dialog;
when a query fetches is TanStack Query's part (external).  `drifted` is a history: a change
that no fetch was asked after, as another editor's; so are `seen` and `became` in the form:
the row it was opened on, and how often the effective version has changed since.
**RunText** has no history: each step calls one function with any bounded input, and its
property compares it with a reference.

## 3. Runs

| Run | Shows | Bounds |
|---|---|---|
| `mishaps` | the ceiling and the return of slots, one announcement, agreement of queue and row, quiet cancels, the contract (refinement) | two scenes: 2 runs of 1 user, limit 1, 2 lanes, 1 crash; or 1 run, 2 lanes, reaper, 1 crash, 1 lost lock; 2 attempts, 1 cancel |
| `settle` | every run ends | 1 run, 1 lane, reaper, 2 crashes, 1 rejected call or lost answer, 1 cancel |
| `schedules` | fires go forward, only approved, all accounted for | 2 replicas, 2 requests at once, 3 in all, 3 points in time, 2 versions, 1 lost tick |
| `ocr` | own answers, cancels, files; every request ends | 1 request of each kind, 1 image, 1 death of the child, 3 files of two sizes and room for 2 |
| `projects` | sharing, prompts and pins, the default label, the quota, evidence | 3 teams, 2 users, 2 requests; 2 prompts, 3 versions, 4 calls; 2 labels, 4 requests; 4 files in 3 uploads; 2 attachments, 3 attempts, 1 crash, 1 rejected call or lost answer, a sweep at any time |
| `services` | accounts, keys, costs, delivery, dialogs, destinations, reports, audit, status, PDF, text | given part by part in `services.cfg` |
| `v_PinNeverMoves` | violated | 2 prompts, 1 job and schedule, 5 calls |
| `v_PendingRunsSettle`, `v_ReaperSparesExecuting` | violated | as `settle` |
| `v_SyncRestoresAccess` | violated | 1 user, who came by SSO |
| `v_ForeignListsStay` | violated | an editor, an administrator, 2 lists |
| `v_TemplateThere` | violated | 1 destination, 2 requests |

**Parts in one run.** `MCProjects` and `MCServices` hold modules that share no
state: a variable `part` says whose behaviour this is, and the others rest.  The
states explored are the sum, not the product.  `MCRunScenes` bounds RunLifecycle with
an action constraint to two scenes: one run with every mishap, and two runs that
compete, with a crash but no lost lock, cancel or sweep.

**Why the bounds are enough.** Two lanes is the least at which the queue can put two
workers on one run and two runs of a user compete; two attempts give a retry and
a last attempt; two crashes exceed BullMQ's stall limit of one, the only way to a
failed job without an attempt used up.  Three attempts let evidence of a first
request survive a failed second one and be read by a third, and one crash and one rejected
call there leave an attempt before, between or after them (section 5 has any number).  With two replicas
and two requests every pair of read and write may be interleaved, and a schedule
goes through create, edit and approval within three requests; an interval of one
and one of two separate a fire that is late by one interval from one that is not.
Every race of the sharing part is between two requests, hence two in all, begun in
every forest over three teams, each owned by one user or by both: three teams give a
chain, siblings, and a cycle longer than the two teams that close it; two owners
are the least that can both step down.  The same holds of labels, keys, accounts,
destinations and rates: each race needs two requests and a third to make it matter.
Two tries lose one race and are turned away by the second.  Three reports on two
slots make one wait; three ticks of which two overlap let one move another's mark
back.  A prompt has two versions at first and three at most, its dialog two calls at a time and
three doings: a fetch may read between two writes, and a draft outlive the version it began
from.  The text functions are checked over every input of up to six lines or nine
characters, room enough for each boundary (the header, the notice, two phrases).

Deadlock is not checked in any run: a system whose runs have all ended, whose
requests are used up or whose bounded clock stopped, has nothing left to do.
Symmetry is used over runs, lanes, replicas, handlers and teams, never with liveness.
`MCServices` has none, as permuting the variables of every part costs more than it saves;
`InOrder` there leaves out first states that differ by names of sessions, or in which
a destination would be added by somebody who is no administrator.

**Fairness.** Only `RunLifecycle` (in `settle` and `v_PendingRunsSettle`) and `OcrService`
state it.  In the first a worker's steps end, as every network call has a timeout;
BullMQ hands out jobs in arrival order, which is strong fairness of `Pickup`; the
reaper's interval fires and each sweep runs both its queries; time passes.  In the
second a handler's thread goes on when it can, and a deadline passes; the docling
child need not ever answer, which is what the deadline is for.  Nobody has to submit,
cancel or fail.

## 4. Where documents and code disagree

With a run:

1. `orphanReaper.ts:44` fails a row it selected earlier without looking again;
   the comment at line 84 says an executing run is never near this.
   A run waiting for a retry keeps an old `startedAt` (`ReaperSparesExecuting`).
2. `orphanReaper.ts:139` passes over PENDING runs whose BullMQ job failed; the
   comment at line 121 counts them in (`PendingRunsSettle`).
3. `bootstrapAdmin.ts:31` sets password, role and activity of a row that came by SSO
   but not its `authSource`, so the password cannot be used; line 10 calls it the way an
   operator recovers access (`SyncRestoresAccess`).
4. `processor.ts:283`: the deletion of a pinned prompt that the job no longer uses clears
   the pin, and the run takes the newest version of another prompt; `src/README.md:30`
   says a pinned schedule never changes underneath (`PinNeverMoves`).
5. `JobNotificationsDialog.tsx:256`: Save waits for the attached lists neither to arrive
   nor to fail, and then detaches them all; line 101 says another user's list stays
   selected unless unchecked (`ForeignListsStay`).
6. `webhookDestinations.ts:150`: two PATCHes, each valid for the row it read, leave a
   custom payload without a template; `webhookDelivery.ts:128` says the API's checks rule
   that out (`TemplateThere`; the delivery falls back to the plain payload).

Stated in a module, without a run of its own:

7. `RemovedOnceHonoured` (RunLifecycle): `processor.ts:568` clears a cancel request although
   the run will be retried; `runCancellation.ts:9` says it goes once honoured.
8. `DiscardsOnlyUnsent` (EvidenceStaging): `processor.ts:323` deletes the previous rows, which
   after a crash between swap and request are those of the last request sent; the comment
   above says they never are.
9. `NotOwnChange` (ScheduleFiring): `schedules.ts:316` keeps the creator from approving, not
   the author of the change as `src/REQUIREMENTS.md:206` asks.
10. `VisibilityDerived` (ProjectSharing): `projects.ts:349` marks the project PRIVATE on a
    count taken before, and a grant in between stays; the comment at line 270 says visibility
    is derived from the grants.
11. `CostDetermined` (CostRates): a global rate may be moved to the date of another, which
    `schema.prisma:573-578` takes for impossible in practice.
12. `DescribesWithinDeadline` (OcrService): descriptions are begun after the deadline of their
    request passed (`service.py:1020`).

Noticed while modelling, and only told here:

* Evidence: the rollback of a swap is not idempotent.  When its transaction commits and the
  answer is lost, the flag stays set, the catch block rolls back again, and the rows just
  restored are deleted (`processor.ts:258-277`).  After a lost answer of the swap nothing is
  rolled back: the rows of the last request sent are deleted and those of one never sent stay.
  A reap under an attempt that has
  staged (`orphanReaper.ts:44`) deletes its rows: it may go on, send, and end in SUCCESS with
  part of its evidence.  `EvidenceMatchesRequest` and `StagingRemoved` except these.
* Runs: a SUCCESS whose write commits with its answer lost goes to the catch block, which
  writes FAILED over it on the last attempt, or rethrows, and nobody is told, as the retry finds
  the run ended.  A cancel taken out of the set with its answer lost is forgotten.
  `src/REQUIREMENTS.md:71-75` has a refused key pause its schedules, `processor.ts:464`
  only fails the run.  Reapers of two replicas may both announce a run (`orphanReaper.ts:69`).
  OpenAI-style token counts of zero hide Anthropic-style ones given beside them.
* Schedules: a rejected schedule can never be reviewed again (`schedules.ts:311`); resuming
  a one-time schedule that fired arms its past time (`schedules.ts:275`); a PATCH of the pin
  to null on a PINNED schedule, or deleting a schedule whose run waits, makes the run take the
  newest version.
* Schedule dialog: `ScheduleManagerDialog.tsx:78-82` calls opening and resaving a no-op; the
  second of two equal hours is saved as the first, and the minute of an hourly schedule as 0.
  The ref that spares saved values stays armed when opening does not change the effective
  version, so that the next choice of a version leaves the old values
  (`ScheduleManagerDialog.tsx:135-144`); `EditStartsFromSaved` allows them that one change and
  catches a ref that is never disarmed.  A save's success closes
  whatever form is open by then; Edit while creating leaves the create form behind; another
  editor's change is overwritten.
* Webhooks: a template with a bare `error_message` passes the sample, which has no error, and
  is not JSON for a failed run (`webhookPayloadTemplate.ts:75-78`).  When the audit event of
  rotate-secret fails the new secret is in force and was shown to nobody; deliveries under way
  sign with the old one.  Two concurrent PUTs of a job's destinations can leave the union of both
  (`jobs.ts:149`).  A post that was accepted counts as failed when discarding the answer's body
  fails.  A destination that was deactivated cannot be unchecked in JobWebhooksDialog by a
  non-admin, so that saves are refused; a PUT of notifications that names an attached list of
  another editor is refused too.
* Accounts: a reset that found its link before an administrator set a password writes its own
  over that one when bcrypt is done (`auth.ts:327` against `users.ts:251`).  The startup sync
  sets a password and leaves a pending link usable (`bootstrapAdmin.ts:31`).  The session that
  GET /login saves (`auth.ts:73`) may have ended meanwhile and is there again.
  `VoidLinkStays` and `LoggedOutStaysOut` except these and hold for the rest.
* Audit: when the insert commits and its answer is lost, the caller answers with an error
  though the event is recorded; it is not forwarded, and a repeated request records a
  second one (`api/src/audit.ts:133`).
* Scheduler: a tick that dies between its claim and the creation of the Run loses the fire
  (`scheduler.ts:77-98`); `FiresAccounted` excepts such ticks.
* A mail whose SUCCESS event cannot be written is recorded as a FAILURE though it was sent.
* Usage reports: successive periods share their boundary instant; with reports enabled the
  first period reaches back one period from the first tick; the audit event in the catch may
  reject, unhandled.
* Labels: deleting a label clears the marking of a project that got it after the count.
* Syslog: a truncated message may exceed its bound by two bytes, and a header longer than the
  bound is not cut.
* PDF: pdf-service answers 503 after 35 s while the report goes on.
* Templates: a placeholder named like an inherited property of an object is given that.

## 5. Proofs

Every safety invariant and every action property that a passing run checks is also a
theorem, for every value of the constants that the assumptions of its module allow.
The assumptions say no more than what the code has: finite sets of rows and processes,
positive limits, and marks (`None`, `NotFetched`, ...) that are not values.
None of the properties is inductive by itself; what follows names what each needed.

| Module | Proves |
|---|---|
| `FiniteTheorems` | sums, maxima, walks and recursive functions over finite data |
| `RunLifecycleProofs` | `RunLifecycle`: types, five properties, the refinement of `RunContract` |
| `ScheduleFiringProofs` | `ScheduleFiring` |
| `ProjectSharingProofs` | `ProjectSharing` |
| `ProjectPartsProofs` | `EvidenceStaging`, `ClassificationLabels`, `AttachmentQuota`, `PromptLibrary`, and their composition with the former in `MCProjects` |
| `AccountsProofs` | `ApiKeys`, `Accounts` |
| `OcrServiceProofs` | `OcrService`, `OcrFiles` |
| `ServicesProofs` | the other parts of `MCServices`, and the composition |

**Induction.** The library's induction theorems take an operator as parameter, which the
provers here cannot instantiate.  `FiniteTheorems` goes around that with sets: of a set of
counterexamples among the subsets of a finite set there is a least one (`LeastSet`), and a
set of numbers that has 0 and with each its successor has all (`EveryNumber`).  From these
it shows that the recursive functions behind the folds of the community modules exist
(`FiniteSummable`, `Recursion`, `Iterable`), that a sum does not depend on the order
(`SumOverUnfold`, `SumOverWithout`, `SumOverSubset`), that a finite set of numbers has a
largest, and that what grows in rounds within a finite set has stopped after as many rounds
as the set has elements (`Saturated`, `Gathered`).  They carry the quota, the file store,
the walks of the team tree and the loops of the text functions.

**RunLifecycle.** `Invariance` proves `Spec => [](TypeOK /\ Inv)` for any finite set of runs
and any users, lanes, reapers, limits and budgets (`ConstantsAssumption`).  `Inv` is built
around `LockInv`: an undisturbed run has at most one lane, the owner of its BullMQ lock.
`PhaseInv` and `OutcomeInv` say what the place of that lane implies for the row and the error
it carries, `ExecutingHoldsSlot` and `SlotsWithinLimit` give the ceiling (a cardinality
argument over a user's slots), `ToldOnce` and `SomebodyTells` the announcement, `QuietKept`
and `QuietStopsLanes` the cancel.  The proof has one step per action.  From it follow
`PerUserCeiling`, `NoSlotLeak`, `AnnouncedOnce`, `QueueAgreesWithStatus`, `QuietCancelHonoured`,
and the refinement `KeepsContract`, which maps every action to a step of `RunContract` or
a stutter.  Rejected calls and lost answers are steps of the proof like the others, and the
statements say what they cost: an announcement that may be missing, a failed job whose row
did not end, a cancel that may be lost.  The runs check the first five properties without
rejected calls, and `settle` liveness with one; the proofs have any number of them.

**ScheduleFiring.** `FiringInv` says that a tick carries a fire that was due when it decided,
that an armed row's next fire is later than the last decision (`ForwardInv`, which rests on
a lemma about rounding up to the next multiple), and that an unapproved row is unarmed and
no handler is about to arm it (`UnapprovedUnarmed`), as long as no handler overwrote another.
From it follow `FiresMoveForward`, `FiresOnlyApproved` and `ApprovedAsReviewed`.
`FiresAccounted` has an invariant of its own: the claims are the runs made, the ticks that
are about to make one and those lost, counted; it needs the number of a finite set of
ticks when one joins or leaves.

**ProjectSharing.** `VisibilityFollows` rests on `SharingInv`: as long as no grant and no
revocation were in progress together, a grant half written still has the flag to write or
finds it SHARED (`HalfGranted`), a flag that disagrees with the grants has a request that
will set it (`GrantWillShow`, `EmptyWillShow`), and a revocation that counted nothing is
right until it writes.  `LastOwnerKept` and `DeletionChecked` rest on `InformedInv`, what the
check of a request had seen.  `ApproversEdit` shows that climbing from the grants and
descending from the user agree on any tree, with cycles too: both walks are least closed
sets (`BelowIsLeast`, `ChainIsLeast`), and a team is below another exactly if the other is
on its chain.  `CyclesAreRaces` rests on `TreeInv`: a re-parenting saw its new parent outside
of a closed set that holds the team, and where the tree is still the one it saw, that set
keeps any cycle from closing.

**The other parts of a project.** `EvidenceInv` says that between requests the visible rows
and the text are those of the last one (`Kept`) and that while a swap is open they can be
put back (`Restorable`); what each place of the worker has staged (`Staged`), what its flags
mean (`FlagsFollow`), and that without a rejected call hidden rows are gone by the outcome
(`Cleared`).  All of it is conditional on `cut` and `overtaken` where the code is; the reaper
needs only that `overtaken` holds of every attempt it can disturb.  `LabelInv`: a transaction
nobody spoiled has seen every default there is, as only another commit adds one, and that
spoils it.  `QuotaInv`: the lock is with who checks and
inserts, and what was found to fit still does (`StillFits`).  `LibraryInv`: only the deletion of
its prompt parts a pin from what was asked for, and each try of a writer cost it a version
that somebody added (`CallInv`).

**Accounts and keys.** `AccountInv`: no link is of two rows, a void one is a row's only beside the
startup's password (`KeepsLink` says which writes leave a link), and a link that a handler
found before its await is of no other row than the one it holds (`RequestInv`).  `AdminRemains`
uses of it that an admin's request spares that admin.  `KeyInv` adds to `JobsKeepTheirKeys` that
a key's owner is there; what the handlers counted appears nowhere: the foreign keys at the
write make it hold.

**OCR.** `PipeInv`: the lock is with the request that uses docling, and the pipe has what that
request's place says (`LineInv`), a killed child's pipe being new; so whoever reads gets the
line written for it.  `CancelInv`: a cancelled request has no command listed, and who was
cancelled before it queued is still on its way there with its mark or has ended.
`UrlsInv`: what was uploaded is in the store or outlived its time, and the sum of sizes is
within its bound.

**The services.** Each has an invariant that says what a step in progress holds of the shared
state: that a costed run's rate was the latest of its party in what its query saw
(`RateInv`); what a task posted, lost and recorded (`DeliveryInv`); that the reports cover
everything up to each tick's start (`ReportInv`, for ticks shorter than a period); that a
row is there from its insert on, whoever waits was told nothing, and what was forwarded
was told no error (`AuditInv`); when what a
pass found was last true and when the key will be gone (`StatusInv`); that a request for a
destination carries what its check accepted (`DestinationInv`); that what is in the PDF
service was asked for and what has a browser is past its launch (`RendererInv`).
For the dialogs: what is shown but not selected was unchecked (`SettingsInv`); the form holds
what was typed, what the list showed while the effective version has changed at most once,
or the last version's defaults, and the ref is armed only before the first such change
(`FormInv`); a change
that a prompt's dialog does not show yet has a fetch to come, and a draft has what nobody
typed from one version (`WillShow`, `DraftOfBase`).  `TextsAreAsSpecified` needs no state: each
function is shown to give what its reference says, for texts and budgets of any size.

**The compositions.** `PartsBehave`, in both proof modules, shows that a behaviour of `MCProjects`
or `MCServices` is one of each part; `PartsAreSafe` concludes that all the properties hold of
it together, and `PartsKeepTypes` that every variable keeps its type.

**What failing proofs showed.** A proof that `TokenUsage` (RunText) keeps to one convention
failed because its CASE had two arms that overlap; TLC had taken the first.  It and the
like one in `ScheduleForm` are now IFs in the order of the code.

**Only model-checked.** `RunsSettle` and `RequestsEnd`: liveness under fairness is out of the
prover's reach.  The six violated statements have counterexamples instead of proofs.

## 6. Not modelled

Left out of the modules above: prompt text, tokens, output, wording; the time zones of
`computeNextFireTime`; the metadata fields of a PATCH; several schedules in one tick
(they show as time passing); regular expressions; what a report looks like; the members of a
mailing list; rate limits; the bytes of documents; a restart of the OCR service.
`ScheduleFiring` takes the approvers as a constant set and flips the visibility freely,
`ProjectSharing` has the grants they come from: the two are not composed.
A dialog of `NotificationSettings` has one save in flight.

Not modelled at all: encryption (`crypto.ts`), a pure function whose correctness is
cryptographic; metrics and health checks, output only; dashboards, lists and reports,
which only read; the pages of the frontend beyond the four dialogs, which show what a
query brought and send single requests; help texts; containers and proxies.

What would come next: the composition of `ProjectSharing` and `ScheduleFiring` (who may
review while grants change); liveness of firing (a due, approved, unpaused schedule is
claimed in the end); `computeNextFireTime` against a reference over bounded calendars;
abstract specifications of firing and of OCR requests, and proofs that the modules implement them.
