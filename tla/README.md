# The Outlook CRM backend in TLA+

This directory holds a model of the backend under `src/`, the TLC configurations that check it on
small instances, and TLAPS proofs of what matters most. It covers the parts of the program in which
steps of several actors meet: **the workbook run**, which turns a sheet of enquiries into leads and
introduces the company to each new one; **the morning scheduler**, which feeds it; **campaigns**, which
write to lists of contacts; **the contacts** themselves, imported from files and kept in step with
Outlook; **the offline client**, its change feed and its replayed mutations; and **the mailboxes**: the
sync of a folder, the replies that come in, and the registry of who sends from where.

| File | What it is |
| --- | --- |
| `WorkbookRun.tla` | the queue, the worker, the run, the requests around it, the processes; its properties |
| `RunContract.tla` | the abstract specification of one job collection: status and resume point only |
| `MorningScheduler.tla` | the scheduler's setting, claim, discovery, handover and record |
| `CampaignDrain.tla` | campaigns, recipients, batches, the sending limit, control requests, follow-ups |
| `OfflineSync.tla` | the change feed, tombstones, receipts of mutations, version checks, and a client |
| `ContactImport.tla` | the import of a file of contacts: run, break off, run again, roll back |
| `ContactSync.tla` | contacts and Outlook: edits sent, changes taken, conflicts, removals |
| `FolderSync.tla` | one folder of a mailbox: lock, pages, delta token, expiry, failure |
| `ReplySync.tla` | a customer's reply: run, match, thread, lead, notice, links by hand |
| `MailboxRegistry.tla` | mailboxes, their credentials, their defaults and who is assigned to them |
| `MC*.tla`, `*.cfg` | instances for TLC, one configuration per question |
| `*_proofs.tla` | per module its types, the invariants behind its properties, and the theorems; `MailSync_proofs` is for `FolderSync` and `ReplySync` |
| `PROJECT.json` | components, runs, mutants, source map, findings, hazards, theorems |

## 1. The system

One Node process serves the HTTP API and hosts four pollers (workbook queue, morning scheduler,
reply sync, tasks). All shared state is in MongoDB, where one document update is atomic and nothing
larger is; there are no transactions. Everything hard in this code comes from that: a handler or a
worker reads a document, awaits something slow (a mail provider, a spreadsheet, another document),
and writes a decision that may be stale by then, in a process that may be killed in between.

### Components

**Workbook queue and worker** (`jobs/workbookQueue.service.js`, `models/importJob.model.js`).
*State:* `ImportJob` documents (status, `cursor`, `lockedAt`, `background.cancelRequested`,
`background.storedFile`), the workbook files on disk, the module flags `isRunning` and `isStopping`.
*Operations:* enqueue (create the job, then write the file, then record the path), `claimNextJob`
(one `findOneAndUpdate`), `runJob`, progress reports, `completeJob`, release of the lock, deletion of
the file, `recordFailure`, `recoverInterruptedJobs` at boot, start and stop.
*Hard:* crash between any two writes; a lock that goes stale under a live run; a boot that requeues
the job of a process still alive; cancel and recovery racing completion.
*Correct when:* the resume point never passes unsettled rows, a job has one worker, a finished job
stays finished, a job that can still run has its file, every accepted job ends.

**Workbook run** (`workbookSync`, `workbookCompare`, `autoMail`, `leadValidation`,
`companyResolver`). *State:* `Lead` documents, keyed by owner and reference, and the local state of
one run (categories, chunk, cursor, created leads, counters). *Operations:* compare the sheet with
the leads; create, update or skip each row; save the cursor per chunk; list the leads still owed an
introduction; screen, send and mark each. *Hard:* the send and its mark are two calls; a row that
throws is passed over; categories are computed once and used much later; the mail ceiling.
*Correct when:* nobody is introduced twice, nobody is forgotten, and a finished sheet is what the
leads say.

**Workbook job API** (`workbookJob.controller`, `workbookSync.controller`). Upload, status, list,
cancel, forced resend of introductions, and a synchronous sync endpoint. *Hard:* cancel reads,
decides, and saves without a condition. *Correct when:* a cancel never revives a job, and what the
caller is told is true.

**Process lifecycle** (`server.js`). Boot: recovery, then the worker, then the other pollers.
Shutdown: stop flags, drain up to a timeout, close. *Hard:* two processes overlapping during a
deployment, a recovery query that fails, a drain that runs out of time.

**Morning scheduler** (`modules/scheduler`). *State:* `SchedulerSetting` per owner (`lastRun`:
day, status, attempts, claim time), `SchedulerRun` records, the inbox directory. *Operations:* tick: find due
settings, claim the day in one update, discover a workbook, compare its hash with earlier runs,
enqueue, record the outcome, retry later; elect the primary workspace at boot; run by hand.
*Hard:* crash between enqueue and record; a claim that goes stale under a live run; the off-by-one
between the claim's and the failure's bound on attempts. *Correct when:* a workbook is enqueued
once, a due day is eventually run or given up, attempts are bounded.

**Campaign queue and throttle** (`modules/campaigns`). *State:* `Campaign` (status, `lockedAt`,
step, parent), `CampaignRecipient` (status, attempts, next attempt), `Mail`, the SENT events of the
sending limit. *Operations:* send (drain: batches, claim of recipients, send, retry, completion,
follow-up), launch, pause, resume, cancel, archive, update and rebuild. *Hard:* recipients left in
`sending`; a record that fails after the provider accepted; control requests against a drain; two
drains spending one allowance. *Correct when:* nobody gets a campaign twice, a stop takes effect at
the next batch, the limit is kept, a completed campaign owes nobody anything.

**Change feed** (`modules/sync`) and **idempotent mutations** (`middlewares/idempotency.js`,
`utils/optimisticConcurrency.js`). *State:* `updatedAt` of every synced document, tombstones, the
cursor a client holds, receipts by owner and key. *Operations:* a page of changes and one of
deletions after a cursor; look up a receipt, check a version, run the handler, store the receipt.
*Hard:* pages over a moving set, stamps older than their commit, tombstones without a cursor,
concurrent duplicates, a crash between the handler's commit and the receipt. *Correct when:* a client
that keeps pulling ends up with the server's state, a mutation takes effect once and on the content
it was made against, and what the client is told is true.

**Provider mailbox sync** (`modules/provider/services/syncEngine.js`, `syncState.repository.js`).
*State:* `SyncState` per folder (lock, delta token, full-resync flag), messages. *Operations:*
acquire the folder, pull pages, persist, apply deletions, store the token, release; expired token.
*Hard:* a lock outlived by its holder, an end in the middle of the pages, an expired token recorded
in two writes. *Correct when:* the stored token has passed nothing that is missing from the store.

**Reply ingestion** (`modules/conversations`, the reply poller). *State:* threads, their messages,
the lead's stage and reply count, notices, the poller's claim. *Operations:* fetch a page, skip
duplicates, match, resolve the thread, attach a lead, store, apply to the lead, notify; link by hand.
*Hard:* overlapping runs, the several writes per letter, links in between. *Correct when:* a stored
letter reaches its lead and its reader, and the count is what is stored.

**Mailbox registry** (`mailbox.repository`, `mailboxConnect`, `tokenManager`, `mailboxAssignment`).
*State:* `Mailbox` (status, default flag, assigned and default users), `ProviderToken`, the cached
credential of `OutlookAccount`. *Operations:* connect, disconnect, choose a default, repair the
default, refresh, probe, assign, unassign, prefer. *Hard:* every one is a chain of separate writes
and none takes a lock. *Correct when:* the mailbox a user sends from works, a disconnect ends access
(which only one of its routes does, section 9), refreshes are bounded.

**Contact import wizard** (`modules/import`). *State:* `ImportJob` (status, cursor, lock, rows, created
ids), the address book. *Operations:* analyse, lock, insert a chunk and record it, finish, fail, roll
back. *Hard:* a chunk and its record are two writes; the rollback takes no lock; a run that analysed
early runs late; part of a chunk is refused. *Correct when:* a rollback leaves nothing of the import, an
address comes once however often an import is run, and no row is passed over.

**Contacts** (`modules/contacts`). *State:* `Contact` (fields, `syncStatus`, `syncMeta`, removed
remotely, deleted), `SyncState` of the address book, the contacts at Outlook. *Operations:* create, edit,
delete, restore; a sync sends what is pending, takes a page, marks removals, stores the token. *Hard:*
edits on both sides during a sync, syncs that overlap (nothing is locked), conflicts told from two
times. *Correct when:* the token passes nothing that was not taken, and no edit vanishes unmarked.

**Leads, references, follow-ups, purge** (`modules/leads`), **companies**, **tasks and goals**, **notifications**, **sessions and
sign-in**, **administration and audit**, **search, dashboards, profile, templates, middleware**,
**maintenance scripts**: `PROJECT.json` says of each what is modelled of it, or why nothing is.

### How they interact

- The scheduler and the API *produce* jobs (`enqueueWorkbookSync`), the queue *consumes* them; they
  share only `ImportJob` documents and files.
- A run creates the leads that the reply worker, the follow-ups, the campaigns and the change feed
  read; `lead.autoMail.status` and `doNotContact` are written by people and runs alike.
- Every mail goes out through the provider module, whose tokens and failure counts are shared by
  runs, campaigns, replies and syncs. A sync starts by looking at its mailbox and its token.
- Offline clients and people online write to the same leads; only the former carry versions.
- `server.js` starts and stops the pollers; a process that dies takes all of them at once.

## 2. The plan, and where it stands

The order was by how much depends on the component and how much can go wrong unseen. Written and
checked: `WorkbookRun` with `RunContract`, `MorningScheduler`, `CampaignDrain`, `OfflineSync` (the
feed and the receipts of the plan in one module, since one client uses both), `FolderSync`,
`ReplySync`, `MailboxRegistry`, `ContactImport`, `ContactSync`. Proved: every safety property
of every module and, for one process, the refinement of `RunContract` by `WorkbookRun`.

Left, in the order of worth: an instance of the scheduler with two
processes and a number of retries changed between attempts, and its composition with `RunContract`; the text of references in the leads module; liveness of the folder
sync (a folder is never stuck) on an instance of its own.

## 3. `WorkbookRun` and the code

### State

| Model | Code |
| --- | --- |
| `job[j].status` | `ImportJob.status`; `absent` before the upload |
| `job[j].cursor` | `ImportJob.cursor`, rows settled so far |
| `job[j].lock` | `lockedAt`: `none` is null, `held` is younger than `IMPORT_LOCK_TTL_MS`, `stale` is older |
| `job[j].file`, `disk` | `background.storedFile` is set; the file exists |
| `job[j].cancelReq` | `background.cancelRequested` |
| `job[j].queuedAt` | `background.queuedAt`, the order of the claims |
| `lead[r]` | the live `Lead` of a reference: its compared fields (`val`), `autoMail.status`, `doNotContact`, `firstImportJob` |
| `up[p]` | the process: not running, running, or between `stopWorkbookWorker` and its exit |
| `run[p]` | the locals of `tick`, `runJob`, `syncWorkbook` and `mailNewLeads` in process `p`; `pc` names the next database or provider call |
| `store[j]`, `cancel[j]`, `resend[r]` | a handler that has made its first call and not its last, and the process it lives in |

The remaining variables count towards the bounds or are history read only by properties (`auto`,
`torn`, `stolen`, `held`, `wrote`, `told`, `rowFails`, `late`, `edited`); no guard of an operation reads the
history.

### Actions

Each action is the code from the end of one awaited call to the end of the next. Where two calls
follow each other and nobody can see or disturb what lies between, they are one action.

| Actions | Code |
| --- | --- |
| `Upload`, `StoreFile`, `StoreFails` | `enqueueWorkbookSync`: create the job; write the file and record its path; or fail and mark the job failed |
| `CancelRead`, `CancelWrite` | `cancel`: read, early return for a finished job; then the unconditional save |
| `Claim` | `claimNextJob`: oldest queued or running job with no lock or a stale one |
| `Prepare` | `runJob` up to `syncWorkbook`: file, owner, mailbox, first look at the flag |
| `Compare` | `compareWorkbook` and the resume point |
| `SkipRow`, `CreateLead`, `UpdateLead`, `RowThrows` | one row of the loop, and its `catch` |
| `SaveCursor`, `RowProgress` | end of a chunk: the cursor; then the progress report, which refreshes the lock and looks at the flag |
| `ListOwed` | created leads, plus those an earlier attempt of the job left pending |
| `SkipMail`, `HoldBack`, `Send`, `SendRefused`, `SaveSent`, `SaveThrows`, `MailProgress` | one lead of `mailNewLeads`: screened, held by the ceiling, accepted by the provider, refused, marked, mark failed, progress report |
| `Complete`, `Release`, `Discard` | `completeJob`; the lock; the file |
| `Throws`, `RecordFailure`, `RecordCancelled`, `RecordThrows` | the `catch` of `tick`, and its own failure |
| `Boot`, `BlindBoot`, `Stop`, `Die` | recovery and start; recovery that failed; the stop flag; exit or crash, which takes the worker and the handlers |
| `LockExpires` | ten minutes without a refresh |
| `OptOut`, `Edit`, `ResendLoad`, `ResendSave` | people (`lead.controller.js` 772-777, 938-964) and the forced resend, changing leads under a run |

### What is abstracted

- **Rows.** A row is a reference and what it says in each of a few `Fields`, standing for
  `COMPARED_FIELDS`; a cell may be blank, and then neither the comparison (`Agrees`) nor the write
  (`Written`) heeds it. A row that fails validation, or shares its reference with another row, is
  invalid, as `compareWorkbook` has it. Blank rows are left out.
- **Edits.** `Edit` saves one field of a lead, or clears it, at any time; several fields are several
  edits. It is one step, and so is `UpdateLead`, although both read the document and save it later:
  Mongoose writes only the fields that changed, so of two overlapping saves each field has the value
  of the later one, as if the two had come one after the other. The version check of
  `PATCH /leads/:id`, by which an edit may be refused, is left out: it only removes edits.
- **The order of the mailing** is arbitrary: a run that satisfies the properties in every order does
  so in the order of the array.
- **The comparison is one step.** It is a fixed number of queries over leads; `CreateLead` still
  meets a lead made since, and the unique index then makes the row throw.
- **Time** is the expiry of the lock. Pacing and durations are gone.
- **Progress counters, phases, attempts, `seenCount`, `lastSeenAt`, field history, mail records**
  are written and never read by the control of a run.
- **Left out:** the synchronous sync endpoint (the same loop with no job), leads deleted or purged
  under a run, `options.forceResend` of a run, companies and contacts resolved along the way, more
  than one owner (every query of the component is by owner or by job).

## 4. `MorningScheduler` and the code

A tick, once a minute, looks for settings that are due, takes the claim in one conditional update, and
carries out one run; a request to run now does the same without asking for the time or the day. A
process has one tick at a time (`isTicking`) and, in the model, one request at a time, so the actors
are `Procs \X {"tick", "now"}`.

| Model | Code |
| --- | --- |
| `lastRun` | `SchedulerSetting.lastRun`: `day` is `dayKey`; `stale` says that `startedAt` is older than `SCHEDULER_CLAIM_TTL_MS`; `retryDue` that `nextAttemptAt` has passed; `copying`, history, is the workbook a run skipped as unfinished |
| `ledger` | the workbooks of the `SchedulerRun` records with status `queued`, which `alreadyProcessed` asks |
| `jobs[b]` | how many jobs that can run were made of workbook `b` |
| `inbox`, `settled` | the newest file of the inbox, and whether it has been still long enough |
| `act[a]` | the locals of `runClaimed`; `pc` names the next call |
| `day`, `due`, `enabled` | what the clock and the setting say |

| Actions | Code |
| --- | --- |
| `TickClaims` | `tick`, `isDue`, `claimScheduledRun`: a new day, a retry come due, or an abandoned claim |
| `PressRunNow` | `runNow`, `claimManualRun` |
| `Look`, `Check`, `Enqueue` | `executeRun`: `findLatestWorkbook`; `alreadyProcessed` and the sheet; `enqueueWorkbookSync` |
| `RunThrows` | a throw of any of these, and `planRetry` |
| `Record`, `Close`, `CannotRecord` | `finishRun`: the history entry, the release of the claim, the failure of either |
| `Boot`, `Stop`, `Die` | start, `stopScheduler`, exit or crash |
| `TimeComes`, `NewDay`, `RetryComes`, `ClaimExpires` | the clock |
| `ChangeSettings`, `Arrives`, `Settles` | people and whoever copies the workbook |

*Abstracted.* Reading the due settings and taking the claim are one step: the claim repeats every
condition that can have changed but the time of day and the switch, and a change of those a moment
earlier is the same as a change a moment later. Only the primary workspace is modelled, since no other
passes the filter of the claim. `maxRetries` does not change. The life of a job after the handover is
`WorkbookRun`'s. Notifications and the times shown to people are left out.
So is a job of the history that is gone (`scheduler.service.js:430-435`): nothing in the application
deletes one, only the reset script, which a person runs once on a stopped system.

## 5. `CampaignDrain` and the code

A request drains a campaign in batches while others launch, pause, resume, cancel, archive or rebuild
it. Several requests may be at work at once, on one campaign or on two of the same owner, and share
the limit on what the owner may send.

| Model | Code |
| --- | --- |
| `camp[c]` | `Campaign`: `status`, `lockedAt` (`stale` is older than `CAMPAIGN_LOCK_TTL_MS`), `sequence.step`, `parentCampaign`; `list` counts how often its recipients were replaced |
| `rcpt[<<c, k>>]` | `CampaignRecipient`: `status`, `attempts`, and `wait` while `nextAttemptAt` is ahead |
| `optOut` | contacts marked do-not-contact |
| `window` | the window of the throttle: what went out, the SENT events the limit counts, and what has none |
| `req[a]` | the locals of a request; `pc` names its next call. A recipient in memory is a contact and the `list` its document belongs to: one saved after a rebuild is no longer there |

| Actions | Code |
| --- | --- |
| `Send`, `SendLoads`, `Lock` | the send endpoint: load, then the conditional lock; a campaign loaded `completed` goes on to its follow-up |
| `NextBatch`, `Claim`, `ClaimsEnd` | status and allowance; `claimBatch`, one `findOneAndUpdate` per recipient |
| `SkipOne`, `Accepted`, `Refused`, `TimedOut` | `sendToRecipient` up to the provider's answer |
| `Record`, `RecordFails` | `Mail.create`, the recipient's save, the event; or the `catch`, for which such an error is unknown and final |
| `Refresh`, `FinishReads`, `FinishWrites` | lock refresh; the end of the drain in its two calls |
| `FollowCreates`, `FollowInserts` | `createSequenceStep`: the campaign, then its recipients |
| `Throws` | the outer `catch`: the lock is dropped |
| `ControlLoads`, `Launch`, `CancelSkips`, `ControlSaves`, `RebuildDeletes`, `RebuildInserts` | `launchCampaign`, `controlCampaign`, `update`, `rebuildAudience`: load and check, then the writes |
| `OptOut`, `RetryComes`, `WindowPasses`, `LockExpires`, `Crash` | people, time, and the death of the process with all its requests |

A save writes the fields that changed, so a control request may drop or keep a lock it did not read;
`locked` carries what it read. *Abstracted:* which of the windows binds, which mailbox sends, the
message. *Left out:* clone and delete of drafts, statistics; `processInboundMessages` and
`stopSequenceFor`, which nothing calls.

What the module shows of the code besides its properties: only an answer lost after the provider
accepted (`TIMEOUT`, `NETWORK_FAILURE`) sends a message twice; an error of the database after the
send gives the recipient up as failed although the message went out; a send of a campaign that is
already completed makes another follow-up; a cancel races the retry of a message in flight, which is
queued again afterwards.

**`ContactSync`.** The same people's contacts and the address book at Outlook. What a contact says is a
number, standing for one of its fields; every edit, on either side, says something new or empties the
field (`Blank`).

| Model | Code |
| --- | --- |
| `here[p]` | the `Contact`: `syncStatus`, `source`, `linked` (it has a `providerContactId`), `says` (the provider's fields), `key` (`changeKey`), `removed` (`deletedRemotelyAt`), `deleted`; `touched` is `updatedAt > localModifiedAt` |
| `there[p]`, `clock` | the contact at Outlook, and when it was last written |
| `bookmark` | `SyncState.lastDeltaToken` |
| `walk[s]`, `edit[x]` | the locals of a sync request; of an edit between its load and its save |

| Actions | Code |
| --- | --- |
| `WalkStarts`, `LoadsPending`, `Pushes`, `MarksPushed`, `MarksFailed` | `runContactSync` up to the first page; `pushPendingChanges` |
| `Fetches`, `TokenExpired`, `Loads`, `Saves`, `MarksRemoved`, `SavesToken`, `WalkThrows` | the page; `persistContact` in its load and its save, with `resolveContactConflict`; `applyRemoteDeletions`; the token; the `catch` |
| `EditLoads`, `EditSaves`, `Touches` | `repository.update`; favourites, tags, deletion, restoration |
| `WritesThere`, `RemovesThere`, `ContactCrash` | people at Outlook; the death of the process |

Saves write the fields that changed (`Kept`). Three places look at an empty field: a difference with one is
no conflict (`Clashes`), a contact that is linked to another takes what it has not got (`Taken`), and
a push leaves most empty fields out of what it sends, so that Outlook keeps them (`Leaves`). *Abstracted:* a page holds the whole answer; each contact
has an address of its own, so it can be linked to one contact only. *Left out:* notes, which are joined,
photos, groups, merges by a person.

`MCCampaignDrain` holds the two, and lets one of them work per behaviour (`side`).

## 6. `OfflineSync` and the code

A client with a copy of the leads pulls changes and sends the mutations made offline, while other
users write to the same leads online.

| Model | Code |
| --- | --- |
| `row[i]` | a `Lead`: there, soft-deleted or gone, `updatedAt`, and which content it has (`ver`) |
| `tombs` | `SyncTombstone`s: lead, `deletedAt`, order |
| `receipts`, `storing` | `MutationReceipt`s, and those on their way (`res.json` does not wait for them) |
| `req[x]` | a request: the stamp its next write will carry is taken before the write commits |
| `copy`, `cursor`, `pull`, `mut` | the client: its records, its cursor, the page under way, its queue |

| Actions | Code |
| --- | --- |
| `ReadRows`, `ReadTombs`, `Apply`, `PullLost` | `readEntityChanges` and `readTombstones`, which run side by side; the client |
| `Queue`, `Send`, `GiveUp` | the client's mutations: kept, sent with key and version, sent again |
| `Lookup`, `LookupFails`, `Answer`, `Store`, `StoreFails` | `idempotencyGuard`; a failed look-up runs the handler all the same |
| `Load`, `Claim`, `Write`, `Record`, `Delete`, `Insert`, `Throws` | the handlers of `lead.controller`: load, `claimVersion`, save; tombstone, then deletion; creation |
| `Online` | the same handlers without a key or a version, soft deletion included |
| `Tick`, `Crash` | the millisecond clock; the death of the process |

*Abstracted:* a lead's content is a number that each write raises. *Left out:* several entities in one
answer (each has its own query and the same cursor rule), `since`, `hasMore`, purge tombstones (nothing
in `src/` says what a client does with them).

Beyond the properties: a write that commits after a read of the feed with a stamp no later than it is
never sent (`late`); a deletion whose second write fails leaves the client without a record the feed
will not send again; with more deletions at a stamp than a page holds the rest are not seen (`cut`).

**`ContactImport`.** A file is a row of addresses, some missing, and for each whether its document fits
the schema. Three requests run it or roll it back.

| Model | Code |
| --- | --- |
| `job` | `ImportJob`: status, `cursor`, `lockedAt`, whether rows failed, whether the rows are still stored, `createdContactIds`, `duplicateAction`, `rolledBackAt` |
| `book[k]` | contacts: one a person makes per address, one per row and call that inserts it |
| `call[a]` | the locals of `runImport` and `rollbackImport`; `pc` names the next call |

| Actions | Code |
| --- | --- |
| `RunLoads`, `Analyse`, `LockImport` | `run`: the job; `analyseJob`; the lock |
| `InsertChunk`, `RowsRefused`, `AllFailed`, `AnswerLost` | `processChunk`: `insertMany`, whole, in part, or not at all, and its `catch` |
| `SaveChunk`, `WriteFails`, `FinishImport`, `Catch` | the cursor and the ids; its failure; the end; the `catch`, which stores the cursor without the ids |
| `RollbackLoads`, `RollbackRemoves`, `RollbackRecords` | `rollbackImport` |
| `PersonCreates`, `PersonDeletes`, `PersonRestores` | the contacts' own requests |
| `ImportLockExpires`, `ImportCrash` | the TTL; the death of the process |

`astray`, `missed`, `restored` and `mixed` are history, for the properties only. *Left out:* parsing,
the mapping of columns, a `duplicateAction` changed between runs, duplicates by phone.

`MCExchange` holds the two, and lets one of them work per behaviour.

## 7. `FolderSync`, `ReplySync`, `MailboxRegistry` and the code

**`FolderSync`.** One folder. The provider is external: a token names the changes a walk covers and the
messages it has yet to list; a walk without a token lists what is there and reports no removal
(`messageMapper.js:226-231`); tokens may expire.

| Model | Code |
| --- | --- |
| `token`, `full`, `lock` | `SyncState.lastDeltaToken`, `fullResyncRequired`, `lockedAt` |
| `mail[m]` | the stored message: version, deleted or not |
| `sync[s]` | the locals of `syncFolder`: token it started from, page, next token, pages so far |

| Actions | Code |
| --- | --- |
| `Begin`, `Acquire` | `ensureState` (the token is read before the lock), `acquireLock` |
| `Fetch`, `Expired`, `Persist`, `EndPage` | a page; `persistMessage` with `resolveConflict`; `applyDeletions`; on or not, up to `MAX_PAGES_PER_RUN` |
| `Release`, `ReleaseExpired`, `RequireResync`, `Fails`, `ReleaseFailed` | `releaseLock` and what is stored with it; when the count of messages cannot be stored after a release, the `catch` releases a second time, be it another sync's lock |
| `LockAges`, `Disconnect`, `SyncCrash` | the TTL, `releaseAllLocks`, the death of the process |

The conflict rule compares two clocks of one save (`updatedAt`, written by every save, and
`lastSyncedAt`, set just before), so a message may count as edited locally although only syncs wrote to
it: `LocalWins` is nondeterministic. That is why `TokenSound` excuses `kept`.

**`ReplySync`.** The letters of one thread. `Shapes` says what a letter may look like: the lead it
names, whether it answers a mail of ours, how sure the match is, whether a person wrote it.

| Model | Code |
| --- | --- |
| `conv`, `stored[m]` | the `Conversation` and its lead; each `ConversationMessage` and its lead |
| `lead[l]`, `notices`, `claim` | stage and `replyCount`; notices; the claim of the reply poller |
| `run[r]` | the locals of a run; `linking` a link made by hand, between its two writes |

`StartClaimed` and `StartByHand` are the poller and `POST /conversations/sync`, which takes no claim.
`FetchInbox`, `Pick`, `Match`, `Find`, `Upsert`, `Attach`, `RelabelByRun`, `Create`, `Load`, `Count`,
`Save`, `Notify`, `Throws` are `runReplySync`, `ingestBatch`, `ingestMessage`, `resolveConversation`,
`attachLead`, `applyReplyToLead`, `raiseReplyNotification`, a call each. `Link`, `LinkRelabels`,
`LinkFails`, `SetStage`, `ClaimAges`, `RunCrash` go on around them. A letter stored by a run that dies
is a duplicate to the next one and is never applied; a run reads the first page of the inbox only.
*Left out:* leads that are deleted, so the early returns for a lead that is gone
(`leadWorkflow.service.js:74-76`, `conversationSync.service.js:389-390`) are not taken.

**`MailboxRegistry`.** Each request or sync is a call that moves through the calls of the code: connect
(`Grant`, `UpsertBox`, `LoadToken`, `Record`, `Exists`), adoption of an earlier consent, disconnect
(`Revoke`, `Purge` or not, by route, caller and luck, `MarkGone`, `Unflag`), `ensureDefaultMailbox` and `setDefaultMailbox` (`Current`,
`Replace`, `DropDefault`, `Target`, `Clear`, `SetFlag`, the last refused by the unique index), refresh
and probe (`Valid`, `Evaluate`, `Renews`, `RenewUnsaved`, `RenewFails`, `Probe`, `MarkStatus`), assignment
(`Edit`, `SaveLists`, `Pull`, `Add`; `setUserMailboxes` makes such calls one after another). `credential` is
the `ProviderToken`, a record of what happened; `grant` says which accounts hold the credential itself. A save writes the fields that changed (`Saved`); lists are saved whole.
`alone` and `sole` in a call say whether another cut across it, for the properties only, and `unpurged`
says which mailboxes were given a credential since they were disconnected, or were left with one. The
status `error` is `expired` here, and a mailbox is never `degraded`: no guard tells them apart.

`MCMailbox` holds the three side by side and lets one of them work per behaviour (`side`): they share
no document, so interleaving their steps would show nothing that each alone does not.

## 8. What is checked

Deadlock checking is off in every run: each system stops when what it was given is done and nobody
asks for more.

| Run | Instance | Question |
| --- | --- | --- |
| `restart` | one process, two workbooks (`TwoDays`), a shutdown or crash, a cancel, an opt-out | do rows, introductions, files and statuses survive a restart at any point? |
| `rolling` | two processes, one workbook, overlap of boots, locks going stale under a live run | what survives two workers on one job? |
| `edits` | one process, two workbooks (`TwoDays` with three fields, one of them empty in the second sheet), a shutdown or crash, two edits of any field by people | is a finished sheet what its leads say, when people save the same fields meanwhile? |
| `live` | one process, two deaths, failed recoveries, an unrecorded failure | does every accepted job end? |
| `resume_mails`, `cancel_queued` | one process, one workbook | two statements of the repository the code does not keep |
| `morning` | one process, a lead register and a workbook that is none, two days; a death, a throw, an outcome that cannot be recorded, a press of Run now, a change of settings, runs that outlive their claim | is a workbook handed over once, by one run at a time, and is a due day settled? |
| `morning_copying` | one process, two workbooks, nothing fails | a third statement |
| `campaign` | one of two sides: two requests, two campaigns of one owner, two contacts, two upsets; a contact, two walks, an edit, one upset | who is written to, how often, within which allowance, and what does a completed campaign owe? does the sync of contacts pass anything over, or an edit vanish? |
| `contacts_blank` | one contact, one walk, an edit on each side, nothing fails | a fourth statement |
| `exchange` | one of two sides: a client, two leads, one mutation, two requests, two upsets; a file of three rows, three calls, one break | what does the cursor pass, which deletions arrive, how often does a mutation take effect? what does a rollback leave, are there twins, is a row passed over? |
| `mailbox` | one of three sides: a folder and two syncs; two letters and two runs; two mailboxes and two calls | is the stored token sound, does a reply reach its lead, does the default sender work, and what does a disconnect leave? |

### Properties of `WorkbookRun`

- `TypeOK`: every variable in range.
- `CursorSound`: every row behind a job's cursor is invalid, has its lead, or threw. Violating it
  takes a crash, a resume and a row skipped in between.
- `OneRunner`: two workers on one job only if it was taken from a live worker (`stolen`).
- `IntroducedOnce`: two introductions to one enquiry only if a mark was lost after its send, or the
  job was taken from a live worker. These are the only two ways, over every restart and retry.
- `NothingOwed`: a run that had mail to send and finished leaves none of its leads waiting but those
  the ceiling held back. An interrupted attempt's leads are included.
- `CancelStops`: at most one chunk of rows is walked after a cancel, restarts included.
- `FileKept`: a job that may still run has its file.
- `TerminalIsFinal`: no claim, recovery or cancel puts a finished job back (checked with two processes;
  with one it follows from `ContractSpec`).
- `FinishReflectsSheet`: on the step that reports a job finished, each lead says what its row says,
  field by field. The comparison decides early what each row is, people edit leads until the write
  comes, and the write must then say all that the row says, not only what differed before. What
  people save before the write gives way to the row (`EditedSince`). Excused: a row that threw, an
  empty cell, a field saved after the write, or after a comparison that found nothing to write.
- `ContractSpec`: `WorkbookRun` implements `RunContract`. The mapping forgets workers, locks, files
  and mail, and keeps status and cursor: the resume point never goes back, finished means settled to
  the last row, and only running jobs are interrupted.
- `EveryRunEnds`: every queued or running job reaches an end.

### Properties of `MorningScheduler`

- `TypeOK`: every variable in range, and a run that goes on to queue a workbook has one.
- `OneRunAtATime`: tick and request, of one process or of two, never run together unless a run
  outlived its claim (`stolen`).
- `QueuedOnce`: the same bytes are handed over once, except by a run that died, or lost its outcome,
  between the job and its history entry (`lost`), or that outlived its claim. The exception is real:
  the hash guard of `scheduler.service.js:27-35` knows only what was recorded.
- `RetryIsReal`: a retry that is announced is one the claim will take. `planRetry` and
  `claimScheduledRun` state the bound in two places, one as `>` and one as `<=`.
- `DecidedOnce`: ticks settle a day once, one more time per press of Run now.
- `DueDayIsSettled`: a due day ends queued, skipped or failed, whatever dies, throws or is lost, as
  long as the day lasts and the schedule stays on.

### Properties of `CampaignDrain`

- `PeopleTypes`: the two type invariants of the run; no more attempts than allowed.
- `MailedOnce`: a contact gets a campaign twice only if the provider accepted a message without saying
  so, or the list was rebuilt under a campaign already launched. Overlapping drains, crashes and
  errors of the database never do it.
- `SettledStays`: no claim, retry, cancellation or late save of another request touches a recipient
  that was sent, skipped, bounced or given up; only a rebuild replaces it.
- `StopsWithinBatch`: after a pause or a cancellation a drain that is alone claims no more than the rest
  of its batch.
- `AllowanceKept`: what goes out in a window is within the owner's limit, unless two drains read it at
  once or the event of a message was lost.
- `CompletedIsSettled`: a completed campaign owes nobody anything, but for recipients whose drain died
  and those a second drain or a change of the list brought in.
- `ChasedWereWrittenTo`: a follow-up lists only people the step before was sent to, unless a drain died
  with them, a second one was still at work, or the list of that step was changed under it. The last
  takes three requests: a rebuild that outlasts the campaign it rebuilds, with a pause and a resume
  after the launch. TLC found it in a larger instance; it lies past the bounds of `campaign`.

### Properties of `ContactSync`

- `ContactSound`: `InStep` (a contact marked synced says what Outlook says, or Outlook has changed past
  the token) and `Taking` (what the token has passed was taken: whoever is at Outlook has a contact,
  whoever was removed is marked). Both are about a token stored last and failures and crashes before it.
  Excused are contacts `adrift` and removals that a walk from the beginning never listed.
- `EditSeen`: what was said here and never reached Outlook gives way only with the conflict marked, or
  where one of the two has the field empty, unless the edit fell between the load and the save of a
  walk. Excused are contacts `adrift`. `contacts_blank` checks the comment, which makes no exception of
  empty fields (section 9).

`adrift` is the list of what the code lets drift without noticing, each way found by TLC: an edit of a
contact that did not come from Outlook, or that was in conflict or failed, which owes Outlook nothing;
an edit while its predecessor was being sent, marked synced with it; a field emptied here and left out of
the push; an edit or another walk between a
load and a save; and a contact made by hand that was linked to one that says something else. A contact
is adrift no longer once a walk that no other met has sent what it says and marked it unmoved. With
another walk beside it that is not enough, which the proof brought out: of three walks, one may save,
with the status it loaded, what another is about to mark as sent.

### Properties of `OfflineSync`

- `ExchangeTypes`: the two type invariants of the run; a page no longer than its limit.
- `FeedComplete`: `NothingSkipped` and `DeletionsArrive`.
- `NothingSkipped`: a lead the cursor has passed is in the copy as it is in the database, unless its
  write landed after a read of the feed with a stamp no later than that read, or a tombstone took it.
- `DeletionsArrive`: the tombstone of a deleted lead the copy still has is ahead of the cursor, unless
  it was never recorded, did not fit in a page, or a pull and the deletion overlapped.
- `MutationsSound`: `AppliedOnce` and `AnswersTrue`.
- `AppliedOnce`: a creation takes effect twice only when its receipt was lost or not yet there; an edit
  or a deletion only when two versions of the lead have one millisecond.
- `BaseKept`: a change made offline lands on the content it was made against, unless another user
  wrote between its claim and its save.
- `AnswersTrue`: what was reported done was done, and what was refused was not, unless the mutation was
  sent again without the protection of a receipt.

### Properties of `ContactImport`

- `RollbackExact`: after a rollback nothing of the import is left, unless its id was lost in a failure or
  a crash, a run recorded it after the rollback had read the list, or a person took it back.
- `ImportSound`: `NoTwins` (two contacts have one address only if one came while a run was on its way, or
  the import was to make them anyway) and `RowsSettled` (a row behind the cursor is in the book, or the
  job says that rows failed; rows that do not fit the schema excepted).

### Properties of `FolderSync`, `ReplySync`, `MailboxRegistry`

- `MailTypes`: the three type invariants.
- `FolderSound`: `TokenSound` and `RemovalsArrive`.
- `TokenSound`: a change the stored token has passed is in the store, unless the conflict rule kept the
  local version or the message was last written by a sync that shared the folder with another.
- `RemovalsArrive`: the same of removals, and except for those from before a walk from the beginning,
  which lists none.
- `ReplyReaches`: a stored letter has reached its lead and its reader, and moved the lead on if it may,
  unless its run failed or died on the way or the thread got its lead by a later link.
- `CountSound`: the reply count of a lead is the number of letters on it once nobody is at work on it,
  unless it drifted; the next undisturbed letter sets it right.
- `LinkedTogether`: a letter is with the lead its thread is with, unless a link met a letter or another
  link at work, or broke off halfway.
- `SenderKept`: `DefaultKept` (a user never has two default mailboxes; the one there is works, and there
  is one if any mailbox works) and `OneDefaultEach` (an assigned user's default is one they may use, and
  only one). Both but for calls that cut across each other, broke off, or marked a mailbox.
- `CredentialsEnd`: a mailbox disconnected by a request no other call cut across has a revoked record; if
  that request was its connector's `DELETE` and the purge went through, and nobody has consented since,
  its account holds no credential either. Refreshes are tried at most `MAX_REFRESH_FAILURES` times plus
  the failures a slower call wrote over. A disconnect by any other way leaves the credential
  (section 9).

### Bounds, and why they are enough

`Refs = {r1, r2}`, `ChunkSize` 1 or 2, `MailCap` 1 or 2, `ProgressEvery` 1 or 2. `TwoDays` has a
first sheet of three rows (one invalid) in two chunks and a second that changes one lead. That is the
least in which a chunk is half applied, a cursor lies inside a sheet, a resumed run finds leads it
made and leads it did not, the ceiling cuts a mailing in two, and a progress report falls between two
messages. `MaxDeaths`, `MaxCancels`, `MaxResends`, `MaxFaults` count deaths (shutdown or crash),
cancel calls, forced resends and failures of `recordFailure`. One death at every step of a run is the
case that matters, since a second attempt starts from the same documents as the first;
`live` allows two. `rolling` has one job because the claims of two jobs do not interact except by
order. The two processes of `rolling` are symmetric. `edits` sends no mail, which does not touch these
fields, and leaves out cancels; a field that the second sheet changes, one it repeats and one it leaves
empty, with two edits, are the least in which an edit falls between comparison and write and another
after it. About 1.2 million states.

`MaxFaults` is 0 in `restart` and `edits`: after an unrecorded failure a job is left running and locked, a newer
workbook may overtake it, and `FinishReflectsSheet` then compares the newer sheet with what the older
one, resumed later, wrote. The code does not say which should win.

`morning` has one process, which is two actors: the claim does not know processes, and with `SlowRuns`
a claim expires under a live run and is taken by the other actor, as another process would. The run
follows a behaviour up to such a step (`UntilStolen`), since every property but `TypeOK` excuses what
comes after, and `TypeOK` is proved. A second process
would add only a boot during a run, and a boot of the scheduler touches no record. `MaxRetries` is 1:
the first attempt, the retry and the one that must not be are told apart. Each fault may happen once,
at every step; all of them may happen in one behaviour. Two days are the least in which a day ends
with a run in flight and the next begins with its claim. `morning_copying` has no faults: its
counterexample needs none.

`campaign`: a campaign and the follow-up it may get, two contacts, two requests, batches of two, a
limit of two, at most two attempts, and two upsets of any kind (a crash, an error of the database, a
refusal, a lost answer, an opt-out, a control request on a started campaign). Two requests are a drain
and whoever disturbs it; two contacts are a member of a batch before and one after; two upsets let one
fault follow the recovery from another. One batch meets the limit and two pass it. `SlowBatches` is
off: a lock goes stale only after a crash. About 3.6 million states. On its other side: one contact,
since contacts meet in the token only and a page of two differs from two pages of one by nothing the
code looks at; two walks and one edit; two edits to say, one here and one there, each of which may empty the field, which is the least in
which they compete; one upset (a failure, a crash, an expired token, a deletion, or a walk that starts
beside another), at every step. About 0.4 million states more; with two upsets, 3.1 million, the properties
held as well.

`exchange`: two leads, one of them there from the start, one mutation, two requests, pages of one, three
milliseconds and two upsets (an online write, a crash, an error of the database, an answer not waited
for). Pages of one give every row a page of its own; three milliseconds give stamps that are equal,
earlier and later. On its other side: two files of three rows in chunks of two (an address that comes
again in the next chunk; a document that does not fit, a row without an address), three requests to run
or roll back, and one break (a failure, a crash, a lock that expires, an act of a person): a run, the run
after it and a rollback are the least in which a broken import is resumed and undone. The properties held
with two breaks as well. About 3.9 million states in all.

`mailbox`: a folder of three messages in pages of one, of which a sync reads two; three changes and one
mishap, with two syncs. Two letters, two leads and three shapes (a person's answer that names no lead,
one to a mail of ours, an automatic one that quotes another lead) with two runs and two upsets. Two
mailboxes, two users and two calls, one failed refresh, one break: the registry starts in any
consistent state between calls, so what two calls in a row or at once can do is covered, and a third
would start from a state the second left. About 3.4 million states in all.

### Fairness

`LiveSpec` assumes: a live worker keeps making calls (the poll is a `setInterval`, and every awaited
call returns or throws); a process told to stop ends (drain timeout, then the forced exit); a process
that is down is started again, with or without a working recovery query (the deployment restarts it);
a handler that has started the upload finishes it; and time passes, so an unrefreshed lock goes
stale. Nothing is assumed of uploads, cancels, crashes, failures or provider answers. `BlindBoot` and
`RecordThrows` show why the last assumption is needed: with both, only the expiry of the lock brings
a job back.

`MorningScheduler`'s `LiveSpec` assumes that the interval of a live process fires, a claimed run makes
its next call or fails in it, a process told to stop ends, one that is down is started again, and the
times for a retry and for the expiry of a claim are reached. Days, presses, settings, files and faults
are free. `WF` of `RunStep` is of the disjunction: that a run proceeds, not how.

The modules of the campaign, the contacts, the client and the mailboxes are checked for safety only: their
specifications state no fairness, and their instances are too large for a liveness check.

## 9. What disagrees with the code's own words

- **An introduction can go out twice** (`resume_mails`). The send and the mark are two calls;
  `workbookQueue.service.js:33-37` says that the mark "is what actually guarantees" no duplicates. It
  does so only against a crash outside that window.
- **"Nothing had been imported" may be untrue** (`cancel_queued`). `cancel` saves a decision on a
  status read earlier, and a requeued job is `queued` with leads behind it.
- **A workbook still being copied may miss its day** (`morning_copying`). The run that meets it is a
  skip, and a skip closes the day; `workbookDiscovery.service.js:158-159` says that the run "is not
  lost", the next tick being a minute away.
- **An edit may vanish unseen** (`contacts_blank`). A difference counts as a conflict only when neither side
  is empty (`contactSync.service.js:140`); an edit that fills a field which Outlook has emptied, or one
  that empties a field, is overwritten, and the contact marked synced. Lines 144-146 record conflicts
  "rather than wondering why an edit vanished".

Seen while modelling, and not given a run of their own:

- A completed job may lack leads. The count of failed rows lives as long as one attempt, and the cursor
  has passed them: after a restart the job is `completed`, where `importConstants.js:31-33` calls for
  `partial`. `CursorSound` excuses such rows.
- Leads past the ceiling do not go out on the next run: the next upload is another job, and `stillOwed`
  looks for its own leads only, against `workbookSync.service.js:485-487`. `NothingOwed` is about one job.
- A contact marked synced may not be. An emptied phone, address, website or email is left out of the
  PATCH (`contactMapper.js:106-135`), Outlook keeps it, and the contact is marked `synced`, "in step with
  the provider" (`contactConstants.js:61`). `ContactSound` sets such contacts apart (`adrift`).
- A disconnect may leave the credential. `POST /provider/disconnect` marks the `ProviderToken` record, which
  `tokenManager.js:6-12` calls metadata, and the mailbox; the cache of the account stays, and a later
  `POST /provider/connect` takes it up without a consent. `provider.service.js:333` says that it "revokes
  stored credentials". `DELETE /mailboxes/:id` purges the cache, unless that fails, which is logged only.
  `CredentialsEnd` promises an empty account of a purge that went through only.
- `importEngine.service.js:19-23` says that a rollback "removes exactly what was created". Contacts whose
  ids were lost with the write after their chunk stay; so do those of a run the rollback met. A run that
  analysed before another one finished runs again on a complete job, and so do its rows when the import
  creates duplicates anyway. Lines 332-333 say that "the rest are counted as failures"; a document that
  does not fit the schema is dropped by an unordered `insertMany` without a word.
- `contactSync.service.js:51-58` says that the state of the folders is reused for its "locking and the
  stale-lock TTL". Nothing is locked: of two syncs at once, the slower one writes the older content, and
  the token does not bring the newer one back. `restoreRemotelyDeleted` (21) is called by nothing. The
  reserved name that "cannot collide with a canonical mail folder" is `custom`, which is one
  (`folderTypes.js:27`); it is not among the folders synced by default.
- `contact.repository.js:196-202` says that a local edit is marked `pending`, without which "the CRM would
  quietly diverge from Outlook". Contacts made or imported here and linked later are not marked, nor are
  those in conflict; one that failed to be sent is not tried again.
- A conflict is recorded when `updatedAt` is later than `localModifiedAt` (`contactSync.service.js:133`),
  which every save makes so, those of the sync included: conflicts are marked that nobody caused.

- `mailboxAssignment.service.js:28-32` prefers "no default" to two. Two assignments that both clear
  the others before they add leave two.
- `ensureDefaultMailbox` names two moments at which a default breaks. A failed probe or a failed sync
  breaks it too, and a disconnection by an assignee repairs the assignee's default, not the owner's.
  Nor does it purge anything, since the account is looked up by the caller (`mailbox.controller.js:312-315`).
- `mailbox.model.js:197-199` says that `setDefaultMailbox` orders its two updates so that a failure leaves
  the previous default. It clears before it sets (`mailbox.repository.js:209-216`): a failure in between
  leaves none.
- `throttle.service.js:12-15` says that the allowance "works if a second worker is ever added, and cannot
  drift". Two drains of one owner that read it at once both spend it, and the event of a message that went
  out may be lost: `AllowanceKept` excuses both.
- `tokenManager.js:176-177` speaks of refusals by the provider; any error of a refresh, a
  timeout included, marks the mailbox.
- `replyDetection.service.js:327-331` has a follow-up go to those who were written to; the query also
  takes those in `sending`.
- `idempotency.js:4-6` says "exactly once"; the receipt is not awaited (138-141 concede it), so a
  mutation may take effect twice, and "Your change has not been applied" may be untrue.
- `leadWorkflow.service.js:158-176` says that the count "cannot drift"; two runs that count and save
  in turns leave the older number.
- `referenceGenerator.service.js:96-105` relies on records that are never removed; purges remove them.

## 10. What is proved

The theorems on `WorkbookRun` hold for every finite set of jobs, any processes, references and sheets,
every chunk size and ceiling, every setting of the switches and every value of the bounds, under
`WorkbookAssumption`; those on `MorningScheduler` for any processes and workbooks, any retry limit and
every value of the bounds, under `MorningAssumption`. TLC evaluates both assumptions in its runs.

- **`TypeCorrect`, `TypeSafe`** (`WorkbookRun_proofs`, as are the next nine): `Spec => []TypeOK`. `TypeOK` alone is not
  inductive: that a worker past its claim has a job, that `cur` is a lead when a mark is due, and
  that a process that is down has an idle worker are carried along as `WorkerOK`. There is one lemma
  per action, and the worker's record is typed once per step.
- **`OneRunnerHolds`**: `Spec => []OneRunner`. The invariant `LockInv` adds
  that a job on which a worker runs, and which was not stolen, has a lock. A claim needs a job with
  no lock or a stale one; under a live run the first is excluded by `LockInv`, and the second is what
  `Claim` records as a theft. A lock is dropped only by the run's own last steps, or by `Boot`, which
  records the theft of a live run too.
- **`CursorHolds`**: `Spec => []CursorSound`. The invariant `RowInv` says of
  every worker in its rows that what lies behind its position is settled, that the categories it
  computed leave only rows whose lead exists (leads are never removed under a run), and that its
  position is within the sheet. It needs no lock: the theorem holds with two workers on one job.
- **`TerminalIsFinalHolds`, `FileKeptHolds`**. Which steps may change a job, and how,
  is one lemma, `JobMoves`; that a finished job stays finished follows from it and the types. A file is
  discarded after the job is closed: `FileInv` says of a worker in its last two calls that its job is
  finished, and `TerminalIsFinal` keeps it so until the file is gone.
- **`CancelStopsHolds`**. `LateInv` counts: a worker in its rows has walked as many
  late rows as lie between the start of its chunk and its place at most, and one that has walked any
  has no way on but the save of its cursor and the end of the run. `LockInv` is what keeps a second
  worker from adding a chunk of its own.
- **`IntroducedOnceHolds`**. `MailInv`: a lead that was written to exists; unless
  its mark was lost or its job stolen it was written to once, and if it is still pending, a worker is
  about to save its mark; what a worker has in hand its own job created and nobody wrote to yet. A
  second send needs two workers on one job, which `LockInv` excludes, or a lead listed twice, which the
  saved mark does.
- **`NothingOwedHolds`**. `OwedInv`: a run that has listed what it owes still has
  each of those leads on its list, or held it back, until it completes with an empty list. Leads become
  owed only when their own job creates them, before that list is made.
- **`ContractKept`**: `WorkbookRun` implements `RunContract`, if all processes are
  one. The invariant adds `CursorInv`, which places the stored cursor against the worker's position at
  each call, and `Present`, by which nobody works on, or is about to cancel, a job that was never
  uploaded. The assumption is needed: with two processes a job can be taken from a live worker, and the
  slower one then writes an older cursor over a newer. With one, nothing is ever stolen (`NoneStolen`).
- **`FinishHolds`**: `Spec => FinishReflectsSheet`, if all processes are one, the recovery query of a
  boot goes through (`~BlindBoots`) and a failed run is recorded as failed (`MaxFaults = 0`): what
  the run that checks it assumes as well. `QueueInv`: jobs that wait hold no lock, `queuedAt` orders
  the uploads, and a running job is in a worker's hands unless the process is down. `TurnInv`: a job on
  which something was done comes before all that wait, so that between two attempts at it no other job
  writes. `SheetInv`: the rows behind the cursor, those the worker walked over and those it will skip
  are what the sheet says, but for what people saved since (`edited`); an update by another job would
  break it, and `TurnInv` excludes that. `EditEffect`, `UpdateEffect` and `WhoEdits` say what an edit
  and a write do to a lead and to that set.
  Without the two conditions an interrupted job stays running and locked while later ones run, and
  what it then writes is older than what it finds.
- The second section of `WorkbookRun_proofs` holds the lemmas all of these rest on: which rows, leads and locks each step
  can touch. With them, each step of the invariants is a short case.
- **`MorningTypes`, `OneRunHolds`, `QueuedOnceHolds`, `RetryIsRealHolds`, `DecidedOnceHolds`**
  (`MorningScheduler_proofs`): the five safety properties, each `Spec => []P`. Mutual exclusion rests on `ClaimInv`: while any run
  is active and none was stolen, the setting says `running` and that actor is the only one. `QueuedOnce`
  adds `JobsInv`: a workbook with a job is in the ledger, or lost, or in the hands of the run about to
  record it, and a run about to hand over holds a workbook the ledger does not know. Both halves are
  needed, since the check and the handover are two steps. `RetryIsReal` adds `RetryInv`: the active run
  carries the attempts of the setting, and one that means to announce a retry has attempts left.
  `DecidedOnce` adds `DayInv`: while a claim is held or a retry is to come, the ticks have settled the day
  no more often than Run now was pressed.

- **`FolderTypeCorrect`, `LockKeepsApart`, `TokenIsSound`, `RemovalsDoArrive`, `FolderIsSound`** (`MailSync_proofs`),
  for any finite set of messages, any syncs, page sizes and bounds. `FolderInv` has three parts:
  `Record` (types, and what a sync holds at each call), `Apart` (two syncs are on the folder only if
  a lock was lost) and `Tracking`: the property itself, stated of every token that is stored or held by
  a sync, less what the sync has yet to list or to persist; a page in memory may be outdated, but then
  no token has passed the newer change. A stored token is one that a sync held with nothing left.
- **`ReplyTypeCorrect`, `ReplyDoesReach`, `CountIsSound`** (`MailSync_proofs`), for any letters, leads and
  runs. `Typed` carries what a run holds at each call. `Reaching` follows one letter: stored, then in
  the hands of the run that stored it, then applied and noticed, or dropped. `Counting` says of a lead
  that has not drifted that its count is its letters, or that a run is about to make it so, and of a run
  nobody disturbed that the number it read is still the right one.

- **`CampaignTypes`, `HandsAreApart`, `SettledStaysHolds`, `MailedOnceHolds`, `StopsHolds`,
  `CompletedHolds`, `ChasedHolds`, `AllowanceHolds`** (`CampaignDrain_proofs`): every property of `CampaignDrain`, for any
  campaigns, any finite sets of contacts and requests, every limit, size of a batch and number of
  attempts, under `CampaignAssumption`. `Typed` carries what a request holds at each of its calls, and
  that whoever waits has an attempt left. On it stands `Linked`: a recipient in the hands of a drain
  is marked as being sent, and two drains never hold one recipient, though nothing but the conditional
  write of each claim keeps them apart. The others add to it, in this order. `WrittenOnce`: whoever is
  neither sent nor recorded was not written to. `TwoSeen` and `LateBounded`: two drains on a campaign
  are in `overlap`, and one alone holds what its batch has left. `CompletedInv`: whoever is marked as being
  sent is in hand or stranded; a drain that found no batch found nobody waiting; so a campaign
  that is over owes nobody. `SentMailed`, `FollowListed`, `Listed`: a list of people to chase, from its query to its
  insertion, names whom the step before was sent to. `WithinLimit`: what was spent and what the one drain may
  still send is within the limit; it counts a batch, whence the finite sets.

- **`OfflineTypesHold`, `FeedIsComplete`, `MutationsAreSound`, `BaseIsKept`** (`OfflineSync_proofs`), for any
  set of leads with an order, any page size, clients' mutations and requests, under `OfflineAssumption`.
  `FeedInv` adds to the two halves of the property what they are while a page is half read or in hand: which
  positions its rows and its tombstones have passed, and that the tombstone of a deletion under way lies
  ahead of every position. `VersionInv`: a version somebody saw of a lead cannot come back with other
  content (`Seen`), and a mutation that took effect left the version it expects behind, so it is never
  claimed again; `ReceiptInv` does the same for creations by their receipt, and ties what the client was
  told to what was applied.
- **`ImportTypesHold`, `RollbackIsExact`, `ImportIsSound`** (`ContactImport_proofs`), for any file, size of a
  chunk, requests and bounds. `Accounted`: what was inserted is on the job, or about to be put there by the
  run that inserted it, or among those a break kept off the list; with `Removed` (a rollback about to be
  recorded has removed what it read) nothing else can stay. `NewsKept`: what a run has still to insert was
  not in the book when it looked, or came since and is on record, so twins come only that way.
  `RunsSettled`: the rows a run has behind it are in the book or known to have failed.
- **`LinkedTogetherHolds`** (`MailSync_proofs`). `Together` is four things. `Threaded`: a letter is on the
  lead of its thread, or has none while a link that will label it is at work. `Aimed`: a run about to store a letter
  knows the lead the thread has. `Spared`: once a link is overtaken by another, no letter is without a
  lead, so it has none left to put wrong. `Rooted`: a thread that got a lead may get another, never none.
- **`RegistryTypeCorrect`, `CredentialsDoEnd`, `DefaultIsKept`, `SenderIsKept`** (`MailboxRegistry_proofs`), for any
  finite set of mailboxes, any users, owners, calls and bounds, under `RegistryAssumption`. `Typed` carries
  what a call knows at each place, and that a call cut across by another only learns of it through its own
  marks. `Credentials`: a call nobody cut across still holds the credential it read, so what it saves is
  what it means to save; the failures counted and those counted from an old count cover the tries.
  `Closed`: a request past its purge that nobody cut across has left its account empty, and only a consent
  fills it, which is on record.
  `Lists` says the same of administrators' calls and the lists. `Settlement` is for the default: whenever a
  user's default is not as it should be, he was shaken, or some call at work answers for him, because it will
  settle his default whatever it meets or was itself cut across; and a call nobody cut across still knows, at each
  place of the repair, that the mailbox it drops is the only default, that the one it puts in works, and
  that none is set when it sets one.

- **`ContactTypesHold`, `ContactIsSound`, `EditIsSeen`** (`ContactSync_proofs`), for any people, walks, edits
  and bounds, under `ContactAssumption`. `Sound` has, besides the types: `Covering`, which says of the
  token, of the token a walk read and of the time its page was fetched that all Outlook wrote up to it
  was taken or is on the page still to be taken; `KeysTrue`, by which a contact in step that carries the
  `changeKey` of Outlook says what Outlook says, so that a save which leaves such a contact alone loses
  nothing; `WalksSane`, by which a walk that calls itself alone is, and its page and what it sent are true
  of whoever has not changed since; and `Heard`, by which an edit that Outlook was not told of has
  `updatedAt > localModifiedAt`, which is what `resolveContactConflict` goes by. The last gives
  `EditSeen`, an action property, at the one step that can break it, `Saves`. Since a field may be emptied
  twice, that an edit is new does not tell it from what is being sent; `Covering` says instead that what a
  walk sent is what Outlook says as long as nothing was written there since.
- **`PeopleTypesHold`, `ExchangeTypesHold`, `MailTypesHold`**: the runs with several modules at work in turn.
  `PeopleStepEither`, `ExchangeStepEither` and `MailStepEither` show that each composition implies the
  specifications of its parts, so every theorem above holds in it as well.

Every invariant and every action property that a passing run checks is so stated by a theorem. Checked
by TLC only are `DueDayIsSettled` and `EveryRunEnds`, liveness being out of the prover's reach.

## 11. Not modelled

`PROJECT.json` gives the reason for each component. In short:

- *Reads and formatting*: search, dashboards, statistics, templates, profile pages, lists, exports, the
  parsing of workbooks, letters and files of contacts, detection of columns. They keep no state; what they decide enters
  the models as a choice among the outcomes.
- *One document at a time*: companies, groups, photos, tasks, goals, settings and most of administration and audit,
  where one request makes one write and nothing is read before an await and used after it.
- *Identity providers*: sign-in and sessions are calls to Google and Microsoft and one record each.
- *Scripts* that a person runs once, on a stopped system.

## 12. Running it

In this directory, `tlc -config WorkbookRestart.cfg MCWorkbookRun` checks a run and
`tlapm WorkbookRun_proofs.tla` checks a proof module. The runs of section 9 end with a
counterexample, which is what they are for; the others with no error.
