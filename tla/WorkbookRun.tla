------------------------------ MODULE WorkbookRun ------------------------------
(****************************************************************************)
(* The morning workbook run: an uploaded sheet becomes an ImportJob, a       *)
(* worker claims it, walks its rows into leads chunk by chunk, writes an     *)
(* introduction to every lead it created, and closes the job.                *)
(*                                                                          *)
(*   src/src/jobs/workbookQueue.service.js            queue, claim, worker   *)
(*   src/src/modules/leads/services/workbookSync.service.js      the run     *)
(*   src/src/modules/leads/services/workbookCompare.service.js   categories  *)
(*   src/src/modules/leads/services/autoMail.service.js     introductions    *)
(*   src/src/modules/leads/controllers/workbookJob.controller.js   cancel    *)
(*   src/src/server.js                           boot, recovery, shutdown    *)
(*                                                                          *)
(* One owner's workspace.  Every database call is atomic; between two of     *)
(* them anything else may happen, and a process may die.                     *)
(****************************************************************************)
EXTENDS Naturals, FiniteSets, Sequences

CONSTANTS
  Jobs,          \* the workbooks that may be uploaded
  Procs,         \* server processes: each polls the queue with one worker
  Refs,          \* enquiry references, the business key of a lead
  Fields,        \* COMPARED_FIELDS: what a row says about its enquiry
  Editable,      \* those of them that a person may save on a lead
  Vals,          \* what a field may say
  Blank,         \* an empty cell, or a field with nothing in it
  None,          \* no job, no process, no value
  NoRef,         \* the reference of a row that fails validation
  Sheet,         \* Sheet[j]: the non-blank rows of workbook j, in sheet order
  MailOn,        \* the workbooks uploaded with options.sendMail
  Unmailable,    \* the references whose rows carry no email address
  MayOptOut,     \* the references that may be marked do-not-contact meanwhile
  ChunkSize,     \* SYNC_CHUNK_SIZE
  ProgressEvery, \* the 10 of "index % 10 === 0" in mailNewLeads
  MailCap,       \* MAX_AUTO_MAILS_PER_RUN
  Rolling,       \* may a process boot while another is still alive?
  BlindBoots,    \* may the recovery query of a boot fail?
  SlowRuns,      \* may a live run outlast IMPORT_LOCK_TTL_MS without a refresh?
  MaxDeaths,     \* bound on shutdowns and crashes
  MaxCancels,    \* bound on calls of the cancel endpoint
  MaxResends,    \* bound on forced resends
  MaxEdits,      \* bound on edits of a compared field
  MaxFaults      \* bound on failures to record that a run failed

ASSUME WorkbookAssumption ==
  /\ IsFiniteSet(Jobs)
  /\ None \notin Jobs \cup Procs \cup Refs
  /\ NoRef \notin Refs
  /\ Editable \subseteq Fields
  /\ Sheet \in [Jobs -> Seq([ref : Refs \cup {NoRef}, val : [Fields -> Vals \cup {Blank}]])]
  /\ MailOn \subseteq Jobs
  /\ Unmailable \cup MayOptOut \subseteq Refs
  /\ ChunkSize \in Nat \ {0}
  /\ ProgressEvery \in Nat \ {0}
  /\ MailCap \in Nat
  /\ {Rolling, BlindBoots, SlowRuns} \subseteq BOOLEAN
  /\ {MaxDeaths, MaxCancels, MaxResends, MaxEdits, MaxFaults} \subseteq Nat

VARIABLES
  job,       \* the ImportJob documents
  disk,      \* the jobs whose workbook file is in WORKBOOK_STORAGE_ROOT
  lead,      \* the live Lead document of each reference
  up,        \* each process: down, up, or stopping
  run,       \* each process's worker: the local state of tick and runJob
  store,     \* the process whose upload request is still writing j's file
  cancel,    \* a cancel request between its read of job j and its write
  resend,    \* the process holding lead r for a forced resend, until it is saved
  deaths, cancels, resends, edits, faults,   \* how much of each bound is used
  \* History, read by properties only:
  auto,      \* how many introductions the runs handed to the provider for r
  torn,      \* leads sent to whose "sent" mark could not be saved
  stolen,    \* jobs taken from a live run, by a boot or by a stale lock
  held,      \* <<j, r>>: job j's run left r out because of MailCap
  wrote,     \* jobs whose latest mailing step had mail to send and a mailbox
  told,      \* jobs whose canceller was told that nothing had been imported
  rowFails,  \* <<j, i>>: applying row i of workbook j threw
  late,      \* rows of j walked after its cancel request was saved
  edited     \* <<j, r, f>>: a person saved field f of lead r after job j's comparison or
             \* write settled what its row makes of it

documents == <<job, disk, lead>>
requests  == <<store, cancel, resend>>
used      == <<deaths, cancels, resends, edits, faults>>
history   == <<auto, torn, stolen, held, wrote, told, rowFails, late, edited>>
vars      == <<documents, up, run, requests, used, history>>

InFlight == {"queued", "running"}
Terminal == {"completed", "partial", "failed", "cancelled"}

Rows(j) == DOMAIN Sheet[j]
RefOf(j, i) == Sheet[j][i].ref

\* A row that fails validation, or shares its reference with another row.
IsInvalid(j, i) ==
  \/ RefOf(j, i) = NoRef
  \/ \E k \in Rows(j) \ {i} : RefOf(j, k) = RefOf(j, i)

IdleRun ==
  [pc |-> "idle", job |-> None, file |-> FALSE, mail |-> FALSE,
   fresh |-> {}, changed |-> {}, start |-> 0, at |-> 0, failed |-> FALSE,
   made |-> {}, todo |-> {}, refused |-> {}, cur |-> None, idx |-> 0, sent |-> 0]

Init ==
  /\ job = [j \in Jobs |-> [status |-> "absent", file |-> FALSE, cancelReq |-> FALSE,
                            cursor |-> 0, lock |-> "none", queuedAt |-> 0]]
  /\ disk = {}
  /\ lead = [r \in Refs |-> [exists |-> FALSE, val |-> [f \in Fields |-> Blank],
                             status |-> "pending", optOut |-> FALSE, first |-> None]]
  /\ up = [p \in Procs |-> "down"]
  /\ run = [p \in Procs |-> IdleRun]
  /\ store = [j \in Jobs |-> None]
  /\ cancel = [j \in Jobs |-> [by |-> None, saw |-> "queued"]]
  /\ resend = [r \in Refs |-> None]
  /\ deaths = 0 /\ cancels = 0 /\ resends = 0 /\ edits = 0 /\ faults = 0
  /\ auto = [r \in Refs |-> 0]
  /\ torn = {} /\ stolen = {} /\ held = {} /\ wrote = {} /\ told = {} /\ rowFails = {}
  /\ late = [j \in Jobs |-> 0] /\ edited = {}

Working == {"load", "compare", "rows", "progress", "list", "mail", "save", "beat",
            "complete", "release", "cancelled", "failed"}

\* p's worker is running job j: it has claimed it and not yet let go of it.
Runs(p, j) == run[p].job = j /\ run[p].pc \in Working

At(p, pc) == up[p] # "down" /\ run[p].pc = pc

Goto(p, pc) == run' = [run EXCEPT ![p].pc = pc]

\* The run is left, by its end or by an exception: only the job is still in hand.
Unwind(p, pc) ==
  run' = [run EXCEPT ![p] = [IdleRun EXCEPT !.pc = pc, !.job = run[p].job, !.file = run[p].file]]

-------------------------------------------------------------------------------
(* Uploading and cancelling: request handlers of a live process.             *)

\* enqueueWorkbookSync, to its first await: the job is visible, its file is not.
Upload(p, j) ==
  /\ up[p] # "down"
  /\ job[j].status = "absent"
  /\ job' = [job EXCEPT ![j].status = "queued",
                        ![j].queuedAt = 1 + Cardinality({k \in Jobs : job[k].status # "absent"})]
  /\ store' = [store EXCEPT ![j] = p]
  /\ UNCHANGED <<disk, lead, up, run, cancel, resend, used, history>>

\* The rest of it: write the bytes, record where they are...
StoreFile(j) ==
  /\ store[j] # None
  /\ disk' = disk \cup {j}
  /\ job' = [job EXCEPT ![j].file = TRUE]
  /\ store' = [store EXCEPT ![j] = None]
  /\ UNCHANGED <<lead, up, run, cancel, resend, used, history>>

\* ...or fail to, before or after the bytes are written.
StoreFails(j) ==
  /\ store[j] # None
  /\ disk' \in {disk, disk \cup {j}}
  /\ job' = [job EXCEPT ![j].status = "failed"]
  /\ store' = [store EXCEPT ![j] = None]
  /\ UNCHANGED <<lead, up, run, cancel, resend, used, history>>

\* Mutant: the early return for a finished run is lost.
CancelReadAnyStatus(p, j) ==
  /\ up[p] # "down"
  /\ cancels < MaxCancels
  /\ cancel[j].by = None
  /\ job[j].status # "absent"
  /\ cancel' = [cancel EXCEPT ![j] = [by |-> p, saw |-> job[j].status]]
  /\ cancels' = cancels + 1
  /\ UNCHANGED <<documents, up, run, store, resend, deaths, resends, edits, faults, history>>

\* cancel: findOne, and the early return for a finished run.
CancelRead(p, j) ==
  /\ up[p] # "down"
  /\ cancels < MaxCancels
  /\ cancel[j].by = None
  /\ job[j].status \in InFlight
  /\ cancel' = [cancel EXCEPT ![j] = [by |-> p, saw |-> job[j].status]]
  /\ cancels' = cancels + 1
  /\ UNCHANGED <<documents, up, run, store, resend, deaths, resends, edits, faults, history>>

\* cancel: the save, decided by the status that was read.
CancelWrite(j) ==
  /\ cancel[j].by # None
  /\ IF cancel[j].saw = "queued"
     THEN /\ job' = [job EXCEPT ![j].status = "cancelled", ![j].cancelReq = TRUE]
          /\ told' = told \cup {j}
     ELSE /\ job' = [job EXCEPT ![j].cancelReq = TRUE]
          /\ UNCHANGED told
  /\ cancel' = [cancel EXCEPT ![j].by = None]
  /\ UNCHANGED <<disk, lead, up, run, store, resend, used,
                 auto, torn, stolen, held, wrote, rowFails, late, edited>>

-------------------------------------------------------------------------------
(* What people do to leads while a run is on.                                *)

\* A salesperson marks the lead do-not-contact.
OptOut(r) ==
  /\ r \in MayOptOut /\ lead[r].exists /\ ~lead[r].optOut
  /\ lead' = [lead EXCEPT ![r].optOut = TRUE]
  /\ UNCHANGED <<job, disk, up, run, requests, used, history>>

\* A salesperson saves a field of the lead, or clears it.  A save writes the fields that
\* changed, so one that overlaps the worker's comes out as one before it or after it.
Edit(r) ==
  /\ lead[r].exists
  /\ edits < MaxEdits /\ edits' = edits + 1
  /\ \E f \in Editable : \E v \in (Vals \cup {Blank}) \ {lead[r].val[f]} :
       /\ lead' = [lead EXCEPT ![r].val[f] = v]
       /\ edited' = edited \cup {<<j, r, f>> : j \in Jobs}
  /\ UNCHANGED <<job, disk, up, run, requests, deaths, cancels, resends, faults,
                 auto, torn, stolen, held, wrote, told, rowFails, late>>

\* resendIntroductions, one lead of it: loaded and screened...
ResendLoad(p, r) ==
  /\ up[p] # "down"
  /\ resends < MaxResends
  /\ resend[r] = None
  /\ lead[r].exists /\ r \notin Unmailable /\ ~lead[r].optOut
  /\ resends' = resends + 1
  /\ resend' = [resend EXCEPT ![r] = p]
  /\ UNCHANGED <<documents, up, run, store, cancel, deaths, cancels, edits, faults, history>>

\* ...and, any time later, sent and saved: an error of either one marks it failed.
ResendSave(r) ==
  /\ resend[r] # None
  /\ \E s \in {"sent", "failed"} : lead' = [lead EXCEPT ![r].status = s]
  /\ resend' = [resend EXCEPT ![r] = None]
  /\ UNCHANGED <<job, disk, up, run, store, cancel, used, history>>

-------------------------------------------------------------------------------
(* The worker.                                                               *)

\* Mutant: the claim does not look at the lock.
LockIgnored(j) == TRUE

\* No lock, or one older than the TTL.
LockFree(j) == job[j].lock \in {"none", "stale"}

\* Mutants: the status filter is lost, or forgets running jobs.
ClaimableAnyStatus(j) == job[j].status # "absent" /\ LockFree(j)
ClaimableQueued(j) == job[j].status = "queued" /\ LockFree(j)

Claimable(j) == job[j].status \in InFlight /\ LockFree(j)

\* claimNextJob, inside tick: the oldest claimable job.
Claim(p, j) ==
  /\ up[p] = "up" /\ run[p].pc = "idle"
  /\ Claimable(j)
  /\ \A k \in Jobs : Claimable(k) => job[j].queuedAt <= job[k].queuedAt
  /\ job' = [job EXCEPT ![j].status = "running", ![j].lock = "held"]
  /\ run' = [run EXCEPT ![p] = [IdleRun EXCEPT !.pc = "load", !.job = j, !.file = job[j].file]]
  /\ stolen' = IF job[j].lock = "stale" /\ (\E q \in Procs : Runs(q, j))
               THEN stolen \cup {j} ELSE stolen
  /\ UNCHANGED <<disk, lead, up, requests, used,
                 auto, torn, held, wrote, told, rowFails, late, edited>>

\* Mutant: the flag is never seen.
NeverCancelled(j) == FALSE

IsCancelled(j) == job[j].cancelReq

\* runJob up to syncWorkbook: the file, the owner, the template, the mailbox, the
\* first look at the cancel flag.
Prepare(p) ==
  /\ At(p, "load")
  /\ run[p].file /\ run[p].job \in disk
  /\ IF IsCancelled(run[p].job)
     THEN Unwind(p, "cancelled")
     ELSE \E m \in BOOLEAN :
            /\ m => run[p].job \in MailOn
            /\ run' = [run EXCEPT ![p].pc = "compare", ![p].mail = m]
  /\ UNCHANGED <<documents, up, requests, used, history>>

NewRows(j) == {i \in Rows(j) : ~IsInvalid(j, i) /\ ~lead[RefOf(j, i)].exists}

\* Mutant: the comparison misses every difference.
UpdatedRowsNone(j) == {}

\* An empty cell says nothing, whatever the lead says.
Agrees(j, i, f) == Sheet[j][i].val[f] \in {Blank, lead[RefOf(j, i)].val[f]}

\* diffLead.
UpdatedRows(j) ==
  {i \in Rows(j) : /\ ~IsInvalid(j, i)
                   /\ lead[RefOf(j, i)].exists
                   /\ \E f \in Fields : ~Agrees(j, i, f)}

\* Mutant: the run resumes one row past its cursor.
ResumeFromNext(j) == job[j].cursor + 1

ResumeFrom(j) == job[j].cursor

\* What people have saved since, once job j has settled what becomes of these leads.
EditedSince(j, refs) == {e \in edited : ~(e[1] = j /\ e[2] \in refs)}

\* syncWorkbook: compareWorkbook over the whole sheet, then the resume point.
Compare(p) ==
  /\ At(p, "compare")
  /\ LET j == run[p].job IN
     run' = [run EXCEPT ![p].pc = IF ResumeFrom(j) < Len(Sheet[j]) THEN "rows" ELSE "list",
                        ![p].fresh = NewRows(j), ![p].changed = UpdatedRows(j),
                        ![p].start = ResumeFrom(j), ![p].at = ResumeFrom(j),
                        ![p].failed = \E i \in Rows(j) : IsInvalid(j, i)]
  /\ LET j == run[p].job IN
     edited' = EditedSince(j, {RefOf(j, i) : i \in {k \in Rows(j) : k > ResumeFrom(j)}})
  /\ UNCHANGED <<documents, up, requests, used,
                 auto, torn, stolen, held, wrote, told, rowFails, late>>

ChunkEnd(p) ==
  IF run[p].start + ChunkSize < Len(Sheet[run[p].job])
  THEN run[p].start + ChunkSize
  ELSE Len(Sheet[run[p].job])

\* The row was handled: move on, and note a walk that outlived a cancel request.
WalkPast(p) ==
  late' = IF job[run[p].job].cancelReq THEN [late EXCEPT ![run[p].job] = @ + 1] ELSE late

\* An unchanged or an invalid row: nothing to write.
SkipRow(p) ==
  /\ At(p, "rows") /\ run[p].at < ChunkEnd(p)
  /\ run[p].at + 1 \notin run[p].fresh \cup run[p].changed
  /\ run' = [run EXCEPT ![p].at = @ + 1]
  /\ WalkPast(p)
  /\ UNCHANGED <<documents, up, requests, used,
                 auto, torn, stolen, held, wrote, told, rowFails, edited>>

\* A new row: Lead.create, refused by the unique index if the reference is taken.
CreateLead(p) ==
  /\ At(p, "rows") /\ run[p].at < ChunkEnd(p)
  /\ run[p].at + 1 \in run[p].fresh
  /\ LET j == run[p].job
         i == run[p].at + 1
         r == RefOf(j, i)
     IN /\ ~lead[r].exists
        /\ lead' = [lead EXCEPT ![r].exists = TRUE, ![r].val = Sheet[j][i].val,
                                ![r].first = j]
        /\ run' = [run EXCEPT ![p].at = i, ![p].made = @ \cup {r}]
  /\ WalkPast(p)
  /\ UNCHANGED <<job, disk, up, requests, used,
                 auto, torn, stolen, held, wrote, told, rowFails, edited>>

\* Mutant: what people saved since the comparison is spared.
WrittenSparing(j, i) ==
  [f \in Fields |-> IF <<j, RefOf(j, i), f>> \in edited \/ Sheet[j][i].val[f] = Blank
                    THEN lead[RefOf(j, i)].val[f] ELSE Sheet[j][i].val[f]]

\* What a lead says once its row is written to it: an empty cell erases nothing.
Written(j, i) ==
  [f \in Fields |-> IF Sheet[j][i].val[f] = Blank THEN lead[RefOf(j, i)].val[f]
                                                  ELSE Sheet[j][i].val[f]]

\* An updated row: the lead is read again, and saved with all that the row says, what the
\* comparison found equal included.
UpdateLead(p) ==
  /\ At(p, "rows") /\ run[p].at < ChunkEnd(p)
  /\ run[p].at + 1 \in run[p].changed
  /\ LET j == run[p].job
         i == run[p].at + 1
         r == RefOf(j, i)
     IN /\ lead' = [lead EXCEPT ![r].val = Written(j, i)]
        /\ run' = [run EXCEPT ![p].at = i]
        /\ edited' = EditedSince(j, {r})
  /\ WalkPast(p)
  /\ UNCHANGED <<job, disk, up, requests, used,
                 auto, torn, stolen, held, wrote, told, rowFails>>

\* The catch of the row loop: the row is counted as failed and passed over.
RowThrows(p) ==
  /\ At(p, "rows") /\ run[p].at < ChunkEnd(p)
  /\ run[p].at + 1 \in run[p].fresh \cup run[p].changed
  /\ run' = [run EXCEPT ![p].at = @ + 1, ![p].failed = TRUE]
  /\ rowFails' = rowFails \cup {<<run[p].job, run[p].at + 1>>}
  /\ WalkPast(p)
  /\ UNCHANGED <<documents, up, requests, used,
                 auto, torn, stolen, held, wrote, told, edited>>

\* The chunk is applied: the cursor moves to its end.
SaveCursor(p) ==
  /\ At(p, "rows") /\ run[p].at = ChunkEnd(p)
  /\ job' = [job EXCEPT ![run[p].job].cursor = run[p].at]
  /\ Goto(p, "progress")
  /\ UNCHANGED <<disk, lead, up, requests, used, history>>

\* onProgress after a chunk: refresh the lock, look at the cancel flag.
RowProgress(p) ==
  /\ At(p, "progress")
  /\ LET j == run[p].job IN
     /\ job' = [job EXCEPT ![j].lock = "held"]
     /\ IF IsCancelled(j)
        THEN Unwind(p, "cancelled")
        ELSE run' = [run EXCEPT ![p].pc = IF run[p].at < Len(Sheet[j]) THEN "rows" ELSE "list",
                                ![p].start = run[p].at]
  /\ UNCHANGED <<disk, lead, up, requests, used, history>>

-------------------------------------------------------------------------------
(* Introductions.                                                            *)

\* Mutant: only the leads of this attempt are owed anything.
StillOwedNone(j) == {}

\* Leads this job created that still have their introduction to come.
StillOwed(j) ==
  {r \in Refs : lead[r].exists /\ lead[r].first = j /\ lead[r].status = "pending"}

\* syncWorkbook and mailNewLeads up to its loop: the leads created by this attempt,
\* as they were created, and those an earlier attempt left, as they are now.  With
\* no mail to send every lead is skipped for a reason of the run: nothing is saved.
ListOwed(p) ==
  /\ At(p, "list")
  /\ LET j == run[p].job
         owed == run[p].made \cup StillOwed(j)
     IN IF run[p].mail
        THEN /\ run' = [run EXCEPT
                          ![p].pc = IF owed = {} THEN "complete" ELSE "mail",
                          ![p].todo = owed, ![p].made = {},
                          ![p].refused = {r \in owed \ run[p].made :
                                            lead[r].optOut \/ lead[r].status = "sent"}]
             /\ wrote' = wrote \cup {j}
        ELSE /\ run' = [run EXCEPT ![p].pc = "complete", ![p].made = {}]
             /\ wrote' = wrote \ {j}
  /\ UNCHANGED <<documents, up, requests, used,
                 auto, torn, stolen, held, told, rowFails, late, edited>>

\* screenForAutoMail: no address, do-not-contact or already sent, on the copy of the
\* lead the run holds.
Screened(p, r) == r \in Unmailable \/ r \in run[p].refused

\* Where the loop goes when it is done with r, its index-th lead.
PastLead(p, r) ==
  [run[p] EXCEPT !.todo = @ \ {r}, !.idx = @ + 1, !.cur = None,
                 !.pc = IF run[p].todo \ {r} = {} THEN "complete" ELSE "mail"]

\* The same after an attempt to send, when a progress report is due first.
PastSend(p, r) ==
  IF run[p].idx % ProgressEvery = 0
  THEN [PastLead(p, r) EXCEPT !.pc = "beat"]
  ELSE PastLead(p, r)

\* Not to be written to: markSkipped.
SkipMail(p, r) ==
  /\ At(p, "mail") /\ r \in run[p].todo
  /\ Screened(p, r)
  /\ lead' = [lead EXCEPT ![r].status = "skipped"]
  /\ run' = [run EXCEPT ![p] = PastLead(p, r)]
  /\ UNCHANGED <<job, disk, up, requests, used, history>>

\* The ceiling is reached: the lead stays pending.
HoldBack(p, r) ==
  /\ At(p, "mail") /\ r \in run[p].todo
  /\ ~Screened(p, r) /\ run[p].sent >= MailCap
  /\ held' = held \cup {<<run[p].job, r>>}
  /\ run' = [run EXCEPT ![p] = PastLead(p, r)]
  /\ UNCHANGED <<documents, up, requests, used,
                 auto, torn, stolen, wrote, told, rowFails, late, edited>>

\* sendIntroduction: the provider accepts the message...
Send(p, r) ==
  /\ At(p, "mail") /\ r \in run[p].todo
  /\ ~Screened(p, r) /\ run[p].sent < MailCap
  /\ auto' = [auto EXCEPT ![r] = @ + 1]
  /\ run' = [run EXCEPT ![p].pc = "save", ![p].cur = r]
  /\ UNCHANGED <<documents, up, requests, used,
                 torn, stolen, held, wrote, told, rowFails, late, edited>>

\* ...or refuses it, and the lead is saved as failed.
SendRefused(p, r) ==
  /\ At(p, "mail") /\ r \in run[p].todo
  /\ ~Screened(p, r) /\ run[p].sent < MailCap
  /\ lead' = [lead EXCEPT ![r].status = "failed"]
  /\ run' = [run EXCEPT ![p] = PastSend(p, r)]
  /\ UNCHANGED <<job, disk, up, requests, used, history>>

\* Mutant: the mark is set on the copy and never saved.
SaveSentUnsaved(p) ==
  /\ At(p, "save")
  /\ run' = [run EXCEPT ![p] = [PastSend(p, run[p].cur) EXCEPT !.sent = @ + 1]]
  /\ UNCHANGED <<documents, up, requests, used, history>>

\* The message is out: lead.save marks the lead sent.
SaveSent(p) ==
  /\ At(p, "save")
  /\ lead' = [lead EXCEPT ![run[p].cur].status = "sent"]
  /\ run' = [run EXCEPT ![p] = [PastSend(p, run[p].cur) EXCEPT !.sent = @ + 1]]
  /\ UNCHANGED <<job, disk, up, requests, used, history>>

\* That save throws, into the same catch as a refused send: the lead is saved as
\* failed, or the second save throws too and ends the run.
SaveThrows(p) ==
  /\ At(p, "save")
  /\ torn' = torn \cup {run[p].cur}
  /\ \/ /\ lead' = [lead EXCEPT ![run[p].cur].status = "failed"]
        /\ run' = [run EXCEPT ![p] = PastSend(p, run[p].cur)]
     \/ /\ Unwind(p, "failed")
        /\ UNCHANGED lead
  /\ UNCHANGED <<job, disk, up, requests, used,
                 auto, stolen, held, wrote, told, rowFails, late, edited>>

\* onProgress during the mailing: refresh the lock, look at the cancel flag.
MailProgress(p) ==
  /\ At(p, "beat")
  /\ LET j == run[p].job IN
     /\ job' = [job EXCEPT ![j].lock = "held"]
     /\ IF IsCancelled(j)
        THEN Unwind(p, "cancelled")
        ELSE Goto(p, IF run[p].todo = {} THEN "complete" ELSE "mail")
  /\ UNCHANGED <<disk, lead, up, requests, used, history>>

-------------------------------------------------------------------------------
(* Closing a job.                                                            *)

\* completeJob: the status follows from what this attempt saw.
Complete(p) ==
  /\ At(p, "complete")
  /\ job' = [job EXCEPT ![run[p].job].status = IF run[p].failed THEN "partial" ELSE "completed"]
  /\ Unwind(p, "release")
  /\ UNCHANGED <<disk, lead, up, requests, used, history>>

\* The lock is given back.
Release(p) ==
  /\ At(p, "release")
  /\ job' = [job EXCEPT ![run[p].job].lock = "none"]
  /\ Goto(p, "discard")
  /\ UNCHANGED <<disk, lead, up, requests, used, history>>

\* discardFile, then back to the claim at the head of tick's loop.
Discard(p) ==
  /\ At(p, "discard")
  /\ disk' = IF run[p].file THEN disk \ {run[p].job} ELSE disk
  /\ run' = [run EXCEPT ![p] = IdleRun]
  /\ UNCHANGED <<job, lead, up, requests, used, history>>

\* A call of the run throws, outside the row loop's own try: reading the workbook, the
\* comparison, the cursor, a progress report, the leads still owed, a lead's save, the
\* job's end, the release.
Throws(p) ==
  /\ up[p] # "down"
  /\ \/ run[p].pc \in {"load", "compare", "progress", "list", "mail", "beat", "complete",
                       "release"}
     \/ run[p].pc = "rows" /\ run[p].at = ChunkEnd(p)
  /\ Unwind(p, "failed")
  /\ UNCHANGED <<documents, up, requests, used, history>>

\* recordFailure: a failed run keeps its file, a cancelled one does not.
RecordFailure(p) ==
  /\ At(p, "failed")
  /\ job' = [job EXCEPT ![run[p].job].status = "failed", ![run[p].job].lock = "none"]
  /\ run' = [run EXCEPT ![p] = IdleRun]
  /\ UNCHANGED <<disk, lead, up, requests, used, history>>

RecordCancelled(p) ==
  /\ At(p, "cancelled")
  /\ job' = [job EXCEPT ![run[p].job].status = "cancelled", ![run[p].job].lock = "none"]
  /\ Goto(p, "discard")
  /\ UNCHANGED <<disk, lead, up, requests, used, history>>

\* recordFailure throws as well: tick gives up, and the job stays running and locked.
RecordThrows(p) ==
  /\ up[p] # "down" /\ run[p].pc \in {"failed", "cancelled"}
  /\ faults < MaxFaults
  /\ faults' = faults + 1
  /\ run' = [run EXCEPT ![p] = IdleRun]
  /\ UNCHANGED <<documents, up, requests, deaths, cancels, resends, edits, history>>

-------------------------------------------------------------------------------
(* Processes.                                                                *)

\* Mutant: the recovery query takes finished jobs too.
InterruptedAny == {j \in Jobs : job[j].status # "absent"}

Interrupted == {j \in Jobs : job[j].status = "running"}

\* Mutant: recovery also resets the resume point.
RequeuedFromStart ==
  [j \in Jobs |-> IF j \in Interrupted
                  THEN [job[j] EXCEPT !.status = "queued", !.lock = "none", !.cursor = 0]
                  ELSE job[j]]

\* recoverInterruptedJobs: every running job goes back to the queue.
Requeued ==
  [j \in Jobs |-> IF j \in Interrupted
                  THEN [job[j] EXCEPT !.status = "queued", !.lock = "none"]
                  ELSE job[j]]

MayBoot(p) == up[p] = "down" /\ (Rolling \/ \A q \in Procs : up[q] = "down")

Boot(p) ==
  /\ MayBoot(p)
  /\ up' = [up EXCEPT ![p] = "up"]
  /\ job' = Requeued
  /\ stolen' = stolen \cup {j \in Interrupted : \E q \in Procs : Runs(q, j)}
  /\ UNCHANGED <<disk, lead, run, requests, used,
                 auto, torn, held, wrote, told, rowFails, late, edited>>

\* The recovery query fails, is logged, and the worker starts all the same.
BlindBoot(p) ==
  /\ BlindBoots /\ MayBoot(p)
  /\ up' = [up EXCEPT ![p] = "up"]
  /\ UNCHANGED <<documents, run, requests, used, history>>

\* shutdown: stopWorkbookWorker, no claim from here on.
Stop(p) ==
  /\ up[p] = "up" /\ deaths < MaxDeaths
  /\ up' = [up EXCEPT ![p] = "stopping"]
  /\ deaths' = deaths + 1
  /\ UNCHANGED <<documents, run, requests, cancels, resends, edits, faults, history>>

\* The process ends, taking its worker and its requests with it: after the drain,
\* when the drain runs out of time, or in a crash.
Die(p) ==
  /\ up[p] # "down"
  /\ \/ up[p] = "stopping" /\ UNCHANGED deaths
     \/ up[p] = "up" /\ deaths < MaxDeaths /\ deaths' = deaths + 1
  /\ up' = [up EXCEPT ![p] = "down"]
  /\ run' = [run EXCEPT ![p] = IdleRun]
  /\ store' = [j \in Jobs |-> IF store[j] = p THEN None ELSE store[j]]
  /\ cancel' = [j \in Jobs |-> IF cancel[j].by = p THEN [cancel[j] EXCEPT !.by = None]
                                                  ELSE cancel[j]]
  /\ resend' = [r \in Refs |-> IF resend[r] = p THEN None ELSE resend[r]]
  /\ torn' = IF run[p].pc = "save" THEN torn \cup {run[p].cur} ELSE torn
  /\ UNCHANGED <<documents, cancels, resends, edits, faults,
                 auto, stolen, held, wrote, told, rowFails, late, edited>>

\* IMPORT_LOCK_TTL_MS passes without a refresh of the lock.
LockExpires(j) ==
  /\ job[j].lock = "held"
  /\ SlowRuns \/ \A p \in Procs : ~Runs(p, j)
  /\ job' = [job EXCEPT ![j].lock = "stale"]
  /\ UNCHANGED <<disk, lead, up, run, requests, used, history>>

-------------------------------------------------------------------------------
RowStep(p) ==
  \/ Compare(p) \/ SkipRow(p) \/ CreateLead(p) \/ UpdateLead(p) \/ RowThrows(p)
  \/ SaveCursor(p) \/ RowProgress(p)

MailStep(p) ==
  \/ ListOwed(p) \/ SaveSent(p) \/ SaveThrows(p) \/ MailProgress(p)
  \/ \E r \in Refs : SkipMail(p, r) \/ HoldBack(p, r) \/ Send(p, r) \/ SendRefused(p, r)

CloseStep(p) ==
  \/ Complete(p) \/ Release(p) \/ Discard(p)
  \/ Throws(p) \/ RecordFailure(p) \/ RecordCancelled(p) \/ RecordThrows(p)

WorkerStep(p) ==
  (\E j \in Jobs : Claim(p, j)) \/ Prepare(p) \/ RowStep(p) \/ MailStep(p) \/ CloseStep(p)

ProcessStep(p) == Boot(p) \/ BlindBoot(p) \/ Stop(p) \/ Die(p)

RequestStep ==
  \/ \E p \in Procs : (\E j \in Jobs : Upload(p, j) \/ CancelRead(p, j))
                      \/ \E r \in Refs : ResendLoad(p, r)
  \/ \E j \in Jobs : StoreFile(j) \/ StoreFails(j) \/ CancelWrite(j)
  \/ \E r \in Refs : OptOut(r) \/ Edit(r) \/ ResendSave(r)

Next ==
  \/ RequestStep
  \/ \E p \in Procs : WorkerStep(p) \/ ProcessStep(p)
  \/ \E j \in Jobs : LockExpires(j)

Spec == Init /\ [][Next]_vars

\* A live worker's loop keeps going, a handler that has read finishes, a stopped
\* process ends and is started again (PM2, nodemon), and time passes.
Fairness ==
  /\ \A p \in Procs : /\ WF_vars(WorkerStep(p))
                      /\ WF_vars(up[p] = "stopping" /\ Die(p))
                      /\ WF_vars(Boot(p) \/ BlindBoot(p))
  /\ \A j \in Jobs : WF_vars(StoreFile(j) \/ StoreFails(j)) /\ WF_vars(LockExpires(j))

LiveSpec == Spec /\ Fairness
-------------------------------------------------------------------------------
(* Properties.                                                               *)

JobDoc ==
  [status : {"absent"} \cup InFlight \cup Terminal, file : BOOLEAN, cancelReq : BOOLEAN,
   cursor : Nat, lock : {"none", "held", "stale"}, queuedAt : Nat]

LeadDoc ==
  [exists : BOOLEAN, val : [Fields -> Vals \cup {Blank}],
   status : {"pending", "sent", "failed", "skipped"}, optOut : BOOLEAN,
   first : Jobs \cup {None}]

Worker ==
  [pc : Working \cup {"idle", "discard"}, job : Jobs \cup {None}, file : BOOLEAN,
   mail : BOOLEAN, fresh : SUBSET Nat, changed : SUBSET Nat, start : Nat, at : Nat,
   failed : BOOLEAN, made : SUBSET Refs, todo : SUBSET Refs, refused : SUBSET Refs,
   cur : Refs \cup {None}, idx : Nat, sent : Nat]

\* Every variable holds what the code may put there.
TypeOK ==
  /\ job \in [Jobs -> JobDoc]
  /\ disk \subseteq Jobs
  /\ lead \in [Refs -> LeadDoc]
  /\ up \in [Procs -> {"down", "up", "stopping"}]
  /\ run \in [Procs -> Worker]
  /\ store \in [Jobs -> Procs \cup {None}]
  /\ cancel \in [Jobs -> [by : Procs \cup {None}, saw : InFlight]]
  /\ resend \in [Refs -> Procs \cup {None}]
  /\ deaths \in Nat /\ cancels \in Nat /\ resends \in Nat /\ edits \in Nat /\ faults \in Nat
  /\ auto \in [Refs -> Nat]
  /\ torn \subseteq Refs /\ stolen \subseteq Jobs /\ wrote \subseteq Jobs /\ told \subseteq Jobs
  /\ held \subseteq Jobs \X Refs /\ rowFails \subseteq Jobs \X Nat
  /\ late \in [Jobs -> Nat] /\ edited \subseteq Jobs \X Refs \X Fields

\* The resume point never runs ahead of the work: every row behind a job's cursor is
\* invalid, or its lead exists, or applying it threw.  Whatever crashed, resumed or
\* ran twice, no enquiry is passed over in silence (workbookSync, the row loop).
CursorSound ==
  \A j \in Jobs :
    /\ job[j].cursor <= Len(Sheet[j])
    /\ \A i \in 1..job[j].cursor :
         IsInvalid(j, i) \/ lead[RefOf(j, i)].exists \/ <<j, i>> \in rowFails

\* Two workers are never on one job, unless a boot or a stale lock took it from a live
\* one: claimNextJob's filter and update are a lock.
OneRunner ==
  \A p, q \in Procs : \A j \in Jobs :
    p # q /\ Runs(p, j) /\ Runs(q, j) => j \in stolen

\* The runs introduce the company to an enquiry at most once, unless the message went
\* out and the mark on the lead did not, or its job was taken from a live worker.
IntroducedOnce ==
  \A r \in Refs : auto[r] > 1 => r \in torn \/ lead[r].first \in stolen

\* A run that had mail to send and a mailbox, and finished, leaves none of the leads
\* its job created waiting, those of an interrupted attempt included, except the ones
\* the ceiling held back (syncWorkbook's stillOwed).
NothingOwed ==
  \A j \in wrote \ stolen :
    job[j].status \in {"completed", "partial"} =>
      \A r \in Refs : lead[r].exists /\ lead[r].first = j /\ lead[r].status = "pending"
                     => <<j, r>> \in held

\* A cancelled run stops at the end of the current batch, restarts included.
CancelStops == \A j \in Jobs \ stolen : late[j] <= ChunkSize

\* A job the worker may still pick up has its workbook on disk, if it ever had.
FileKept == \A j \in Jobs : job[j].file /\ job[j].status \in InFlight => j \in disk

\* A finished job is never put back in the queue, by a claim, a recovery or a cancel.
TerminalIsFinal ==
  [][\A j \in Jobs : job[j].status \in Terminal => job'[j].status \in Terminal]_vars

\* When a run reports its job finished, each lead says what its row says, field by field:
\* people edit leads between the comparison, which decides what each row is, and the write,
\* and what they change before the write gives way to the row.  Excused are a row that threw,
\* an empty cell, and a field saved after the write, or after a comparison that found nothing
\* to write.  (One process, and no job resumed after a later one.)
FinishReflectsSheet ==
  [][\A j \in Jobs :
       job[j].status \notin Terminal /\ job'[j].status \in {"completed", "partial"} =>
         \A i \in Rows(j) :
           \/ IsInvalid(j, i) \/ <<j, i>> \in rowFails
           \/ /\ lead[RefOf(j, i)].exists
              /\ \A f \in Fields : Agrees(j, i, f) \/ <<j, RefOf(j, i), f>> \in edited]_vars

\* Every queued or running job reaches an end, through restarts and failed recoveries.
EveryRunEnds ==
  \A j \in Jobs : job[j].status \in InFlight ~> job[j].status \in Terminal

\* What the job collection promises its readers, whatever the workers do.
Contract == INSTANCE RunContract WITH
  Length <- [j \in Jobs |-> Len(Sheet[j])],
  status <- [j \in Jobs |-> job[j].status],
  settled <- [j \in Jobs |-> job[j].cursor]

ContractSpec == Contract!Spec

\* workbookQueue.service.js:33-37, what actually guarantees no duplicate emails:
\* an introduction is never sent twice.
NeverTwice == \A r \in Refs : auto[r] <= 1

\* workbookJob.controller.js:162, the answer to a cancelled queued run: nothing had
\* been imported.
NothingImported ==
  \A j \in told : \A r \in Refs : lead[r].first # j
=============================================================================
