---------------------------- MODULE MorningScheduler ----------------------------
(****************************************************************************)
(* The morning scheduler: once a day, at the configured time, the newest     *)
(* workbook of the inbox is handed to the queue, unless these bytes were     *)
(* handed over before.                                                       *)
(*                                                                          *)
(*   src/src/modules/scheduler/services/scheduler.service.js                 *)
(*   src/src/modules/scheduler/services/schedulerClock.js       due, day key *)
(*   src/src/modules/scheduler/services/workbookDiscovery.service.js  inbox  *)
(*                                                                          *)
(* The primary workspace only: the others never pass the claim's filter.     *)
(****************************************************************************)
EXTENDS Naturals, FiniteSets

CONSTANTS
  Procs,        \* server processes
  Books,        \* workbooks, told apart by the hash of their bytes
  LeadBooks,    \* those with a worksheet that looks like a lead register
  None,         \* no workbook
  MaxRetries,   \* setting.retry.maxRetries
  SlowRuns,     \* may a live run outlast SCHEDULER_CLAIM_TTL_MS?
  MaxDay,       \* bound on the days that pass
  MaxDeaths,    \* bound on shutdowns and crashes
  MaxThrows,    \* bound on runs that throw
  MaxLost,      \* bound on outcomes that cannot be recorded
  MaxPresses,   \* bound on presses of Run now
  MaxChanges    \* bound on changes of the settings

ASSUME MorningAssumption ==
  /\ None \notin Books
  /\ LeadBooks \subseteq Books
  /\ SlowRuns \in BOOLEAN
  /\ MaxDay \in Nat \ {0}
  /\ {MaxRetries, MaxDeaths, MaxThrows, MaxLost, MaxPresses, MaxChanges} \subseteq Nat

\* What may run the scheduler in a process: its own tick, one at a time (isTicking),
\* and a request to run it now.
Actors == Procs \X {"tick", "now"}

Proc(a) == a[1]

VARIABLES
  day,       \* today, in the workspace's time zone
  due,       \* the configured time has passed today
  enabled,   \* the schedule is switched on
  inbox,     \* the newest workbook in the inbox
  settled,   \* it has been still for WORKBOOK_SETTLE_MS
  lastRun,   \* SchedulerSetting.lastRun
  ledger,    \* the workbooks of the SchedulerRuns that were queued
  jobs,      \* how many jobs were queued for each workbook
  up,        \* each process: down, up, or stopping
  act,       \* each actor: the local state of runClaimed
  deaths, throws, losses, presses, changes,   \* how much of each bound is used
  \* History, read by properties only:
  lost,      \* workbooks queued by a run that did not live to record it
  stolen,    \* a claim was taken from a live run
  decided    \* how often the ticks have settled today

clock   == <<day, due, enabled>>
files   == <<inbox, settled>>
records == <<lastRun, ledger, jobs>>
used    == <<deaths, throws, losses, presses, changes>>
history == <<lost, stolen, decided>>
vars    == <<clock, files, records, up, act, used, history>>

Final == {"queued", "skipped", "failed"}

Idle == [pc |-> "idle", attempts |-> 0, book |-> None,
         outcome |-> "skipped", copying |-> None]

Init ==
  /\ day = 1 /\ due = FALSE /\ enabled = TRUE
  /\ inbox = None /\ settled = FALSE
  /\ lastRun = [day |-> 0, status |-> "idle", stale |-> FALSE, attempts |-> 0,
                retryDue |-> FALSE, copying |-> None]
  /\ ledger = {}
  /\ jobs = [b \in Books |-> 0]
  /\ up = [p \in Procs |-> "down"]
  /\ act = [a \in Actors |-> Idle]
  /\ deaths = 0 /\ throws = 0 /\ losses = 0 /\ presses = 0
  /\ changes = 0
  /\ lost = {} /\ stolen = FALSE /\ decided = 0

Active(a) == act[a].pc # "idle"

At(a, pc) == up[Proc(a)] # "down" /\ act[a].pc = pc

-------------------------------------------------------------------------------
(* The world around it.                                                      *)

\* The configured time comes.
TimeComes ==
  /\ ~due /\ due' = TRUE
  /\ UNCHANGED <<day, enabled, files, records, up, act, used, history>>

NewDay ==
  /\ day < MaxDay
  /\ day' = day + 1 /\ due' = FALSE
  /\ decided' = 0
  /\ UNCHANGED <<enabled, files, records, up, act, used, lost, stolen>>

\* update: the schedule is switched off or on, or its time moved to later today.
ChangeSettings ==
  /\ changes < MaxChanges
  /\ \/ enabled' = ~enabled /\ UNCHANGED due
     \/ due /\ due' = FALSE /\ UNCHANGED enabled
  /\ changes' = changes + 1
  /\ UNCHANGED <<day, files, records, up, act, deaths, throws, losses, presses, history>>

\* A workbook arrives, and some time later its last byte.
Arrives(b) ==
  /\ inbox' = b /\ settled' = FALSE
  /\ UNCHANGED <<clock, records, up, act, used, history>>

Settles ==
  /\ inbox # None /\ ~settled
  /\ settled' = TRUE
  /\ UNCHANGED <<clock, inbox, records, up, act, used, history>>

\* lastRun.nextAttemptAt is reached.
RetryComes ==
  /\ lastRun.status = "retrying" /\ ~lastRun.retryDue
  /\ lastRun' = [lastRun EXCEPT !.retryDue = TRUE]
  /\ UNCHANGED <<clock, files, ledger, jobs, up, act, used, history>>

\* SCHEDULER_CLAIM_TTL_MS passes since lastRun.startedAt.
ClaimExpires ==
  /\ lastRun.status = "running" /\ ~lastRun.stale
  /\ SlowRuns \/ \A a \in Actors : ~Active(a)
  /\ lastRun' = [lastRun EXCEPT !.stale = TRUE]
  /\ UNCHANGED <<clock, files, ledger, jobs, up, act, used, history>>

-------------------------------------------------------------------------------
(* The claim.                                                                *)

\* Mutant: the claim of another run is not looked at.
NobodyLooks == TRUE

\* Is nobody already running this?
NobodyRuns == lastRun.status # "running" \/ lastRun.stale

\* Mutant: the day key is not compared.
OutstandingAlways == TRUE

\* Mutant: an abandoned claim is left alone.
OutstandingUnclaimed ==
  \/ lastRun.day # day
  \/ lastRun.status = "retrying" /\ lastRun.retryDue /\ lastRun.attempts <= MaxRetries

\* Is there anything to do?  A day nobody has claimed, a retry that has come due, or
\* a claim that was abandoned.
Outstanding ==
  \/ lastRun.day # day
  \/ lastRun.status = "retrying" /\ lastRun.retryDue /\ lastRun.attempts <= MaxRetries
  \/ lastRun.status = "running"

TakeClaim(a, attempts) ==
  /\ lastRun' = [day |-> day, status |-> "running", stale |-> FALSE,
                 attempts |-> attempts, retryDue |-> FALSE, copying |-> None]
  /\ act' = [act EXCEPT ![a] = [Idle EXCEPT !.pc = "look", !.attempts = attempts]]
  /\ stolen' = (stolen \/ (lastRun.stale /\ \E b \in Actors : Active(b)))

\* tick: what is due, and claimScheduledRun.
TickClaims(p) ==
  /\ up[p] = "up" /\ ~Active(<<p, "tick">>)
  /\ enabled /\ due /\ NobodyRuns /\ Outstanding
  /\ TakeClaim(<<p, "tick">>, IF lastRun.day = day THEN lastRun.attempts + 1 ELSE 1)
  /\ UNCHANGED <<clock, files, ledger, jobs, up, used, lost, decided>>

\* runNow: claimManualRun asks neither for the time, nor the day, nor the switch.
PressRunNow(p) ==
  /\ up[p] # "down" /\ ~Active(<<p, "now">>)
  /\ presses < MaxPresses
  /\ NobodyRuns
  /\ TakeClaim(<<p, "now">>, 1)
  /\ presses' = presses + 1
  /\ UNCHANGED <<clock, files, ledger, jobs, up, deaths, throws, losses, changes,
                 lost, decided>>

-------------------------------------------------------------------------------
(* A claimed run.                                                            *)

Outcome(a, s) == act' = [act EXCEPT ![a].pc = "record", ![a].outcome = s]

\* Mutant: an empty inbox is not noticed.
LookBlindly(a) ==
  /\ At(a, "look")
  /\ act' = [act EXCEPT ![a].pc = "check", ![a].book = inbox]
  /\ UNCHANGED <<clock, files, records, up, used, history>>

\* findLatestWorkbook: an empty inbox, or a file still being written, is a skip, and so is an
\* inbox that cannot be read or a file of no bytes.
Look(a) ==
  /\ At(a, "look")
  /\ \/ /\ inbox # None /\ settled
        /\ act' = [act EXCEPT ![a].pc = "check", ![a].book = inbox]
     \/ /\ inbox = None \/ ~settled
        /\ act' = [act EXCEPT ![a].pc = "record", ![a].outcome = "skipped", ![a].copying = inbox]
     \/ Outcome(a, "skipped")
  /\ UNCHANGED <<clock, files, records, up, used, history>>

\* Mutant: the ledger is not asked.
NeverProcessed(b) == FALSE

\* The job of a queued run is there: nothing in the repository deletes an ImportJob.
AlreadyProcessed(b) == b \in ledger

\* alreadyProcessed and resolveSheet.
Check(a) ==
  /\ At(a, "check")
  /\ IF AlreadyProcessed(act[a].book) \/ act[a].book \notin LeadBooks
     THEN Outcome(a, "skipped")
     ELSE act' = [act EXCEPT ![a].pc = "enqueue"]
  /\ UNCHANGED <<clock, files, records, up, used, history>>

\* The handover: enqueueWorkbookSync.
Enqueue(a) ==
  /\ At(a, "enqueue")
  /\ jobs' = [jobs EXCEPT ![act[a].book] = @ + 1]
  /\ Outcome(a, "queued")
  /\ UNCHANGED <<clock, files, lastRun, ledger, up, used, history>>

\* Mutant: one retry too many is promised.
PlanRetryOneMore(a) == IF act[a].attempts > MaxRetries + 1 THEN "failed" ELSE "retrying"

PlanRetry(a) == IF act[a].attempts > MaxRetries THEN "failed" ELSE "retrying"

\* executeRun throws, the job not created or failed: planRetry.
RunThrows(a) ==
  /\ \E pc \in {"look", "check", "enqueue"} : At(a, pc)
  /\ throws < MaxThrows
  /\ throws' = throws + 1
  /\ Outcome(a, PlanRetry(a))
  /\ UNCHANGED <<clock, files, records, up, deaths, losses, presses, changes, history>>

\* finishRun: the history entry...
Record(a) ==
  /\ At(a, "record")
  /\ ledger' = IF act[a].outcome = "queued" THEN ledger \cup {act[a].book} ELSE ledger
  /\ act' = [act EXCEPT ![a].pc = "close"]
  /\ UNCHANGED <<clock, files, lastRun, jobs, up, used, history>>

\* ...and the release of the claim, whoever holds it by now.
Close(a) ==
  /\ At(a, "close")
  /\ lastRun' = [lastRun EXCEPT !.status = act[a].outcome, !.retryDue = FALSE,
                                !.copying = act[a].copying]
  /\ act' = [act EXCEPT ![a] = Idle]
  /\ decided' = IF a[2] = "tick" /\ act[a].outcome \in Final /\ lastRun.day = day
                THEN decided + 1 ELSE decided
  /\ UNCHANGED <<clock, files, ledger, jobs, up, used, lost, stolen>>

\* What is forgotten when actor a goes no further: a job without a history entry.
Unrecorded(a) ==
  IF act[a].pc = "record" /\ act[a].outcome = "queued" THEN {act[a].book} ELSE {}

\* Neither write of finishRun is retried: the claim is left as it is.
CannotRecord(a) ==
  /\ At(a, "record") \/ At(a, "close")
  /\ losses < MaxLost
  /\ losses' = losses + 1
  /\ lost' = lost \cup Unrecorded(a)
  /\ act' = [act EXCEPT ![a] = Idle]
  /\ UNCHANGED <<clock, files, records, up, deaths, throws, presses, changes,
                 stolen, decided>>

-------------------------------------------------------------------------------
(* Processes.                                                                *)

Boot(p) ==
  /\ up[p] = "down"
  /\ up' = [up EXCEPT ![p] = "up"]
  /\ UNCHANGED <<clock, files, records, act, used, history>>

\* stopScheduler: no claim by a tick from here on.
Stop(p) ==
  /\ up[p] = "up" /\ deaths < MaxDeaths
  /\ up' = [up EXCEPT ![p] = "stopping"]
  /\ deaths' = deaths + 1
  /\ UNCHANGED <<clock, files, records, act, throws, losses, presses, changes, history>>

Die(p) ==
  /\ up[p] # "down"
  /\ \/ up[p] = "stopping" /\ UNCHANGED deaths
     \/ up[p] = "up" /\ deaths < MaxDeaths /\ deaths' = deaths + 1
  /\ up' = [up EXCEPT ![p] = "down"]
  /\ act' = [a \in Actors |-> IF Proc(a) = p THEN Idle ELSE act[a]]
  /\ lost' = lost \cup UNION {Unrecorded(a) : a \in {p} \X {"tick", "now"}}
  /\ UNCHANGED <<clock, files, records, throws, losses, presses, changes,
                 stolen, decided>>

-------------------------------------------------------------------------------
RunStep(a) ==
  Look(a) \/ Check(a) \/ Enqueue(a) \/ RunThrows(a) \/ Record(a) \/ Close(a) \/ CannotRecord(a)

WorldStep ==
  \/ TimeComes \/ NewDay \/ ChangeSettings \/ Settles \/ RetryComes \/ ClaimExpires
  \/ \E b \in Books : Arrives(b)

Next ==
  \/ WorldStep
  \/ \E p \in Procs : TickClaims(p) \/ PressRunNow(p) \/ Boot(p) \/ Stop(p) \/ Die(p)
  \/ \E a \in Actors : RunStep(a)

Spec == Init /\ [][Next]_vars

\* The interval of a live process fires, a claimed run goes on, a stopped process ends
\* and is started again, and time passes.
Fairness ==
  /\ \A p \in Procs : /\ WF_vars(TickClaims(p))
                      /\ WF_vars(Boot(p))
                      /\ WF_vars(up[p] = "stopping" /\ Die(p))
  /\ \A a \in Actors : WF_vars(RunStep(a))
  /\ WF_vars(RetryComes) /\ WF_vars(ClaimExpires)

LiveSpec == Spec /\ Fairness
-------------------------------------------------------------------------------
(* Properties.                                                               *)

Setting ==
  [day : 0..MaxDay, status : {"idle", "running", "retrying"} \cup Final,
   stale : BOOLEAN, attempts : Nat, retryDue : BOOLEAN, copying : Books \cup {None}]

Actor ==
  [pc : {"idle", "look", "check", "enqueue", "record", "close"}, attempts : Nat,
   book : Books \cup {None}, outcome : {"retrying"} \cup Final, copying : Books \cup {None}]

\* From discovery on, a run that goes on to queue a workbook has one.
HasBook(w) == w.pc \in {"check", "enqueue"} \/ w.outcome = "queued" => w.book # None

\* Every variable holds what the code may put there.
TypeOK ==
  /\ day \in 1..MaxDay /\ due \in BOOLEAN /\ enabled \in BOOLEAN
  /\ inbox \in Books \cup {None} /\ settled \in BOOLEAN
  /\ lastRun \in Setting
  /\ ledger \subseteq Books /\ jobs \in [Books -> Nat]
  /\ up \in [Procs -> {"down", "up", "stopping"}]
  /\ act \in [Actors -> Actor]
  /\ \A a \in Actors : HasBook(act[a])
  /\ deaths \in Nat /\ throws \in Nat /\ losses \in Nat /\ presses \in Nat
  /\ changes \in Nat
  /\ lost \subseteq Books /\ stolen \in BOOLEAN /\ decided \in Nat

\* Two runs never overlap, of one process or of two, by the clock or by hand, unless
\* one outlived its claim: the conditional write of a claim is a lock.
OneRunAtATime ==
  \A a, b \in Actors : a # b /\ Active(a) /\ Active(b) => stolen

\* The same bytes are queued once, however often the scheduler runs, is restarted or is
\* pressed, unless a run died between the job and its record or outlived its claim.
QueuedOnce ==
  \A b \in Books : jobs[b] > 1 => b \in lost \/ stolen

\* A retry that is announced is one the next claim will take: the bounds of planRetry
\* and of claimScheduledRun meet.
RetryIsReal ==
  lastRun.status = "retrying" => lastRun.attempts <= MaxRetries \/ stolen

\* The ticks settle a day once, by whatever process and after whatever restart; each
\* press of Run now may hand them one more retry to settle.
DecidedOnce == decided <= 1 + presses \/ stolen

\* A day that has come due is settled before it ends, through crashes, retries and lost
\* outcomes, unless the schedule is switched off or moved, or a run outlived its claim.
DueDayIsSettled ==
  \A d \in 1..MaxDay :
    day = d /\ due /\ enabled ~>
      \/ lastRun.day = d /\ lastRun.status \in Final
      \/ day # d \/ ~due \/ ~enabled \/ stolen

\* workbookDiscovery.service.js:155-160, of a workbook still being written: the run is
\* not lost, the next tick is a minute away and chooses the same file.  (As long as the
\* day lasts, the schedule is on and nothing newer arrives.)
PickedUpOnceCopied ==
  \A b \in LeadBooks :
    lastRun.copying = b /\ inbox = b /\ settled ~>
      b \in ledger \/ lastRun.day # day \/ ~due \/ ~enabled \/ ~settled \/ inbox # b
=============================================================================
