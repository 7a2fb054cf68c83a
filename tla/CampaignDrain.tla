----------------------------- MODULE CampaignDrain -----------------------------
(****************************************************************************)
(* Campaigns: a list of recipients, drained in batches by requests to send, *)
(* under a limit on what one owner may send, while other requests launch,   *)
(* pause, resume, cancel, archive or rebuild the campaign.  A campaign that *)
(* completes creates its follow-up.                                         *)
(*                                                                          *)
(*   src/src/modules/campaigns/services/queue.service.js          the drain  *)
(*   src/src/modules/campaigns/services/campaign.service.js       control    *)
(*   src/src/modules/campaigns/services/replyDetection.service.js follow-up  *)
(*   src/src/modules/campaigns/controllers/campaign.controller.js requests   *)
(****************************************************************************)
EXTENDS Naturals, FiniteSets

CONSTANTS
  Campaigns,   \* campaigns of one owner, those that follow-ups will take included
  First,       \* the campaign there is to begin with
  Contacts,    \* the audience
  Requests,    \* requests that may be under way at the same time
  None,        \* no campaign, no contact
  BatchSize,   \* throttle.batchSize
  Limit,       \* throttle.perMinute, or whichever window is the tightest
  MaxAttempts, \* MAX_SEND_ATTEMPTS
  LastStep,    \* the number of steps of the sequence
  SlowBatches, \* may a batch outlast CAMPAIGN_LOCK_TTL_MS?
  MaxUpsets    \* bound on crashes, failures of the database and the provider, opt-outs and
               \* requests that control a started campaign, all told

ASSUME CampaignAssumption ==
  /\ First \in Campaigns
  /\ None \notin Campaigns \cup Contacts \cup (Contacts \X Nat)
  /\ IsFiniteSet(Contacts) /\ IsFiniteSet(Requests)
  /\ SlowBatches \in BOOLEAN
  /\ {BatchSize, Limit, MaxAttempts} \subseteq Nat \ {0}
  /\ {LastStep, MaxUpsets} \subseteq Nat

VARIABLES
  camp,      \* each Campaign document
  rcpt,      \* each CampaignRecipient document, by campaign and contact
  optOut,    \* contacts marked do-not-contact
  req,       \* each request under way
  window,    \* the window of the limit: messages out, SENT events, and (history) those
             \* that will have no event
  upsets,    \* how much of the bound is used
  \* History, read by properties only:
  mails,     \* messages that went out, by campaign and contact
  unsure,    \* recipients the provider accepted and did not acknowledge
  reshaped,  \* campaigns whose list changed after they were started
  stranded,  \* recipients whose request died with them
  overlap,   \* which campaigns were drained at the same time
  late       \* recipients claimed since a campaign was stopped

history == <<mails, unsure, reshaped, stranded, overlap, late>>
vars    == <<camp, rcpt, optOut, req, window, upsets, history>>

Recipients == Campaigns \X Contacts

Active == {"scheduled", "running", "paused"}
Stopped == {"paused", "cancelled"}
Settled == {"sent", "bounced", "failed", "skipped"}

NoCampaign == [status |-> "absent", lock |-> "none", step |-> 0, parent |-> None, list |-> 0]
NoRecipient == [status |-> "absent", attempts |-> 0, wait |-> FALSE]
Queued == [status |-> "queued", attempts |-> 0, wait |-> FALSE]

Idle == [pc |-> "idle", c |-> None, action |-> "send", ended |-> FALSE, locked |-> FALSE,
         left |-> 0, batch |-> {}, cur |-> None, done |-> FALSE, next |-> None]

Init ==
  /\ camp = [c \in Campaigns |->
               IF c = First THEN [NoCampaign EXCEPT !.status = "draft"] ELSE NoCampaign]
  /\ rcpt = [r \in Recipients |-> IF r[1] = First THEN Queued ELSE NoRecipient]
  /\ optOut = {}
  /\ req = [a \in Requests |-> Idle]
  /\ window = [out |-> 0, events |-> 0, lost |-> 0]
  /\ upsets = 0
  /\ mails = [r \in Recipients |-> 0]
  /\ unsure = {} /\ reshaped = {} /\ stranded = {} /\ overlap = {}
  /\ late = [c \in Campaigns |-> 0]

\* The bound on what disturbs a campaign.
Upset == upsets < MaxUpsets /\ upsets' = upsets + 1

At(a, pc) == req[a].pc = pc

\* The steps of the drain that its try block surrounds.
Draining == {"batch", "claim", "send", "record", "refresh", "finish", "write"}

Goto(a, pc) == req' = [req EXCEPT ![a].pc = pc]

\* A recipient in a request's memory: the contact, and the list its document was on.
Doc(c, k) == <<k, camp[c].list>>

\* The recipients request a has claimed and not settled.
Held(a) == {<<req[a].c, d[1]>> : d \in req[a].batch \cup ({req[a].cur} \ {None})}

-------------------------------------------------------------------------------
(* POST /campaigns/:id/send                                                  *)

\* May a drain take this campaign?
Runnable(c) ==
  /\ camp[c].status \in {"scheduled", "running"}
  /\ camp[c].lock # "held"

\* drainCampaign takes the lock.
TakeLock(a, c) ==
  /\ Runnable(c)
  /\ camp' = [camp EXCEPT ![c].status = "running", ![c].lock = "held"]
  /\ req' = [req EXCEPT ![a].pc = "batch", ![a].c = c, ![a].ended = FALSE]
  /\ overlap' = overlap \cup {{c, req[b].c} : b \in {b \in Requests : req[b].pc \in Draining}}

\* send: the campaign is loaded.  All that is kept of it is whether it was completed, so one
\* that is loaded in another status might as well be loaded just before the lock; without the
\* lock the request does nothing.
Send(a, c) ==
  /\ At(a, "idle") /\ TakeLock(a, c)
  /\ UNCHANGED <<rcpt, optOut, window, upsets, mails, unsure, reshaped, stranded, late>>

SendLoads(a, c) ==
  /\ At(a, "idle")
  /\ camp[c].status = "completed"
  /\ req' = [req EXCEPT ![a] = [Idle EXCEPT !.pc = "lock", !.c = c, !.ended = TRUE]]
  /\ UNCHANGED <<camp, rcpt, optOut, window, upsets, history>>

\* A campaign that was loaded completed goes on to its follow-up although nothing was drained.
Lock(a) ==
  /\ At(a, "lock")
  /\ \/ TakeLock(a, req[a].c)
     \/ ~Runnable(req[a].c) /\ Goto(a, "follow") /\ UNCHANGED <<camp, overlap>>
  /\ UNCHANGED <<rcpt, optOut, window, upsets, mails, unsure, reshaped, stranded, late>>

\* Mutant: the status is not looked at between batches.
NeverStopped(c) == FALSE

\* Is the campaign one that was told to stop?
IsStopped(c) == camp[c].status \in Stopped

\* Mutant: what was sent is not counted.
AllowedUncounted == Limit

\* availableAllowance: what is left of the window.
Allowed == IF window.events < Limit THEN Limit - window.events ELSE 0

Least(m, n) == IF m < n THEN m ELSE n

\* The head of the loop: the status, then the allowance.
NextBatch(a) ==
  /\ At(a, "batch")
  /\ IF IsStopped(req[a].c) \/ Allowed = 0
     THEN Goto(a, "finish")
     ELSE req' = [req EXCEPT ![a].pc = "claim", ![a].left = Least(BatchSize, Allowed)]
  /\ UNCHANGED <<camp, rcpt, optOut, window, upsets, history>>

\* A recipient a batch may claim.
Claimable(c, k) == rcpt[<<c, k>>].status = "queued" /\ ~rcpt[<<c, k>>].wait

\* claimBatch, one recipient.
Claim(a) ==
  /\ At(a, "claim")
  /\ \E k \in Contacts :
       LET c == req[a].c IN
       /\ Claimable(c, k)
       /\ rcpt' = [rcpt EXCEPT ![<<c, k>>].status = "sending",
                               ![<<c, k>>].attempts = @ + 1]
       /\ req' = [req EXCEPT ![a].batch = @ \cup {Doc(c, k)}, ![a].left = @ - 1,
                             ![a].pc = IF req[a].left = 1 THEN "send" ELSE "claim"]
       /\ late' = [late EXCEPT ![c] = IF camp[c].status \in Stopped THEN @ + 1 ELSE @]
  /\ UNCHANGED <<camp, optOut, window, upsets, mails, unsure, reshaped, stranded, overlap>>

ClaimsEnd(a) ==
  /\ At(a, "claim")
  /\ \A k \in Contacts : ~Claimable(req[a].c, k)
  /\ req' = [req EXCEPT ![a].pc = IF req[a].batch = {} THEN "finish" ELSE "send", ![a].left = 0]
  /\ UNCHANGED <<camp, rcpt, optOut, window, upsets, history>>

-------------------------------------------------------------------------------
(* sendToRecipient                                                           *)

\* The document is still there to be saved.
Present(a, d) == d[2] = camp[req[a].c].list

Of(a, d) == <<req[a].c, d[1]>>

\* The batch without d, which is settled.
Without(a, d) == [req EXCEPT ![a].batch = @ \ {d}, ![a].cur = None, ![a].pc = "send"]

\* The contact was marked do-not-contact since the list was built.
SkipOne(a, d) ==
  /\ At(a, "send") /\ Present(a, d)
  /\ d[1] \in optOut
  /\ rcpt' = [rcpt EXCEPT ![Of(a, d)].status = "skipped"]
  /\ req' = Without(a, d)
  /\ UNCHANGED <<camp, optOut, window, upsets, history>>

\* provider.send returns.
Accepted(a, d) ==
  /\ At(a, "send")
  /\ d[1] \notin optOut
  /\ mails' = [mails EXCEPT ![Of(a, d)] = @ + 1]
  /\ window' = [window EXCEPT !.out = @ + 1]
  /\ req' = [req EXCEPT ![a].pc = "record", ![a].cur = d, ![a].batch = @ \ {d}]
  /\ UNCHANGED <<camp, rcpt, optOut, upsets, unsure, reshaped, stranded, overlap, late>>

\* Mutant: one attempt too many.
CanRetryOnceMore(r) == rcpt[r].attempts <= MaxAttempts

\* May the attempt be repeated?
CanRetry(r) == rcpt[r].attempts < MaxAttempts

\* The catch of sendToRecipient, for a failure that may pass: another attempt, later,
\* while there are attempts left.
Retry(r) ==
  rcpt' = [rcpt EXCEPT ![r].status = IF CanRetry(r) THEN "queued" ELSE "failed",
                       ![r].wait = CanRetry(r)]

\* The provider refuses, for good or for now.
Refused(a, d) ==
  /\ At(a, "send") /\ Present(a, d)
  /\ d[1] \notin optOut
  /\ \/ rcpt' = [rcpt EXCEPT ![Of(a, d)].status = "bounced"]
     \/ Retry(Of(a, d))
  /\ req' = Without(a, d)
  /\ Upset
  /\ UNCHANGED <<camp, optOut, window, history>>

\* The message is accepted and the answer is lost: TIMEOUT and NETWORK_FAILURE are
\* temporary.
TimedOut(a, d) ==
  /\ At(a, "send") /\ Present(a, d)
  /\ d[1] \notin optOut
  /\ mails' = [mails EXCEPT ![Of(a, d)] = @ + 1]
  /\ window' = [window EXCEPT !.out = @ + 1, !.lost = @ + 1]
  /\ Retry(Of(a, d))
  /\ req' = Without(a, d)
  /\ Upset
  /\ unsure' = unsure \cup {Of(a, d)}
  /\ UNCHANGED <<camp, optOut, reshaped, stranded, overlap, late>>

\* Mail.create and the save.  The SENT event may be lost: recordEvent does not throw.
Record(a) ==
  /\ At(a, "record") /\ Present(a, req[a].cur)
  /\ rcpt' = [rcpt EXCEPT ![Of(a, req[a].cur)].status = "sent"]
  /\ req' = Without(a, req[a].cur)
  /\ \/ window' = [window EXCEPT !.events = @ + 1] /\ UNCHANGED upsets
     \/ /\ Upset
        /\ window' = [window EXCEPT !.lost = @ + 1]
  /\ UNCHANGED <<camp, optOut, history>>

\* Mutant: a message that could not be recorded is sent again.
CatchRetries(r) == Retry(r)

\* The catch, for a failure that is no provider's: UNKNOWN, which is not retried.
CatchUnknown(r) == rcpt' = [rcpt EXCEPT ![r].status = "failed"]

\* Mail.create or the save throws.
RecordFails(a) ==
  /\ At(a, "record") /\ Present(a, req[a].cur)
  /\ CatchUnknown(Of(a, req[a].cur))
  /\ req' = Without(a, req[a].cur)
  /\ window' = [window EXCEPT !.lost = @ + 1]
  /\ Upset
  /\ UNCHANGED <<camp, optOut, history>>

\* The lock is refreshed, whoever's it is; the loop ends after maxBatches.
Refresh(a) ==
  /\ At(a, "send") /\ req[a].batch = {}
  /\ camp' = [camp EXCEPT ![req[a].c].lock = "held"]
  /\ \E pc \in {"batch", "finish"} : Goto(a, pc)
  /\ UNCHANGED <<rcpt, optOut, window, upsets, history>>

-------------------------------------------------------------------------------
(* The end of a drain.                                                       *)

\* Mutant: the retries still to come are not counted.
NobodyDue(c) == \A k \in Contacts : ~Claimable(c, k)

\* countDocuments of the queued.
NobodyQueued(c) == \A k \in Contacts : rcpt[<<c, k>>].status # "queued"

\* The campaign is read again, and what remains is counted.
FinishReads(a) ==
  /\ At(a, "finish")
  /\ LET c == req[a].c IN
     req' = [req EXCEPT ![a].pc = "write", ![a].ended = camp[c].status = "completed",
                        ![a].locked = camp[c].lock # "none",
                        ![a].done = camp[c].status = "running" /\ NobodyQueued(c)]
  /\ UNCHANGED <<camp, rcpt, optOut, window, upsets, history>>

\* A save writes the fields that were changed: lockedAt only if it was set when read.
Unlock(a, lock) == IF req[a].locked THEN "none" ELSE lock

FinishWrites(a) ==
  /\ At(a, "write")
  /\ LET c == req[a].c IN
     camp' = [camp EXCEPT ![c].status = IF req[a].done THEN "completed" ELSE @,
                          ![c].lock = Unlock(a, @)]
  /\ req' = [req EXCEPT ![a] = IF @.done \/ @.ended
                               THEN [@ EXCEPT !.pc = "follow"] ELSE Idle]
  /\ UNCHANGED <<rcpt, optOut, window, upsets, history>>

\* Mutant: those who were not written to are chased as well.
EligibleEverybody(c) == {k \in Contacts : rcpt[<<c, k>>].status \notin {"absent", "skipped"}}

\* Not replied, bounced, skipped, queued or failed.
Eligible(c) == {k \in Contacts : rcpt[<<c, k>>].status \in {"sending", "sent"}}

\* createSequenceStep: the campaign of the next step...
FollowCreates(a) ==
  /\ At(a, "follow")
  /\ LET c == req[a].c IN
     \/ /\ camp[c].step < LastStep /\ Eligible(c) # {}
        /\ \E f \in Campaigns :
             /\ camp[f].status = "absent"
             /\ camp' = [camp EXCEPT ![f] = [NoCampaign EXCEPT !.status = "scheduled",
                                               !.step = camp[c].step + 1, !.parent = c]]
             /\ req' = [req EXCEPT ![a].pc = "insert", ![a].next = f, ![a].batch = Eligible(c) \X {0}]
     \/ /\ camp[c].step >= LastStep \/ Eligible(c) = {}
        /\ req' = [req EXCEPT ![a] = Idle]
        /\ UNCHANGED camp
  /\ UNCHANGED <<rcpt, optOut, window, upsets, history>>

\* ...and its recipients.
FollowInserts(a) ==
  /\ At(a, "insert")
  /\ rcpt' = [r \in Recipients |->
                IF r[1] = req[a].next /\ <<r[2], 0>> \in req[a].batch THEN Queued ELSE rcpt[r]]
  /\ reshaped' = IF camp[req[a].next].status # "scheduled" THEN reshaped \cup {req[a].next}
                 ELSE reshaped
  /\ req' = [req EXCEPT ![a] = Idle]
  /\ UNCHANGED <<camp, optOut, window, upsets, mails, unsure, stranded, overlap, late>>

\* The document about to be saved is gone.
Gone(a) ==
  \/ At(a, "send") /\ \E d \in req[a].batch : ~Present(a, d)
  \/ At(a, "record") /\ ~Present(a, req[a].cur)

\* The drain throws: the lock is dropped.
Throws(a) ==
  /\ req[a].pc \in Draining
  /\ \/ Gone(a) /\ UNCHANGED upsets
     \/ Upset
  /\ camp' = [camp EXCEPT ![req[a].c].lock = "none"]
  /\ req' = [req EXCEPT ![a] = Idle]
  /\ stranded' = stranded \cup Held(a)
  /\ window' = [window EXCEPT !.lost = IF At(a, "record") THEN @ + 1 ELSE @]
  /\ UNCHANGED <<rcpt, optOut, mails, unsure, reshaped, overlap, late>>

-------------------------------------------------------------------------------
(* Requests that control a campaign: read, decide, save.                     *)

\* From which statuses an action is allowed, and where it leads.
From == [launch |-> {"draft"}, pause |-> {"running"}, resume |-> {"paused"},
         cancel |-> Active, archive |-> {"draft", "completed", "cancelled", "archived"},
         rebuild |-> {"draft"}]

Target == [pause |-> "paused", resume |-> "running", cancel |-> "cancelled",
           archive |-> "archived"]

Step(action) ==
  CASE action = "cancel" -> "skip" [] action = "rebuild" -> "delete"
    [] action = "launch" -> "launch" [] OTHER -> "save"

\* loadCampaign, and the check of its status.
ControlLoads(a, c, action) ==
  /\ At(a, "idle")
  /\ camp[c].status \in From[action]
  /\ action = "launch" => \E k \in Contacts : rcpt[<<c, k>>].status # "absent"
  /\ IF action = "launch" THEN UNCHANGED upsets ELSE Upset
  /\ req' = [req EXCEPT ![a] = [Idle EXCEPT !.pc = Step(action), !.c = c, !.action = action,
                                             !.locked = camp[c].lock # "none"]]
  /\ UNCHANGED <<camp, rcpt, optOut, window, history>>

\* launchCampaign: now, or at a later time.
Launch(a) ==
  /\ At(a, "launch")
  /\ \E status \in {"running", "scheduled"} :
       camp' = [camp EXCEPT ![req[a].c].status = status]
  /\ req' = [req EXCEPT ![a] = Idle]
  /\ UNCHANGED <<rcpt, optOut, window, upsets, history>>

\* Mutant: everybody is skipped.
OutstandingAnyStatus(r) == rcpt[r].status # "absent"

\* Whom a cancellation skips.
Outstanding(r) == rcpt[r].status = "queued"

\* controlCampaign, cancel: the outstanding ones are skipped, then the status is saved.
CancelSkips(a) ==
  /\ At(a, "skip")
  /\ rcpt' = [r \in Recipients |->
                IF r[1] = req[a].c /\ Outstanding(r)
                THEN [rcpt[r] EXCEPT !.status = "skipped"] ELSE rcpt[r]]
  /\ Goto(a, "save")
  /\ UNCHANGED <<camp, optOut, window, upsets, history>>

ControlSaves(a) ==
  /\ At(a, "save")
  /\ LET c == req[a].c IN
     /\ camp' = [camp EXCEPT ![c].status = Target[req[a].action], ![c].lock = Unlock(a, @)]
     /\ late' = [late EXCEPT ![c] = 0]
  /\ req' = [req EXCEPT ![a] = Idle]
  /\ UNCHANGED <<rcpt, optOut, window, upsets, mails, unsure, reshaped, stranded, overlap>>

\* update and rebuildAudience: every recipient is deleted...
RebuildDeletes(a) ==
  /\ At(a, "delete")
  /\ LET c == req[a].c IN
     /\ rcpt' = [r \in Recipients |-> IF r[1] = c THEN NoRecipient ELSE rcpt[r]]
     /\ camp' = [camp EXCEPT ![c].list = @ + 1]
     /\ reshaped' = IF camp[c].status # "draft" THEN reshaped \cup {c} ELSE reshaped
  /\ Goto(a, "build")
  /\ UNCHANGED <<optOut, window, upsets, mails, unsure, stranded, overlap, late>>

\* ...and the list is built again: buildRecipients.
RebuildInserts(a) ==
  /\ At(a, "build")
  /\ rcpt' = [r \in Recipients |->
                IF r[1] = req[a].c /\ rcpt[r].status = "absent" /\ r[2] \notin optOut
                THEN Queued ELSE rcpt[r]]
  /\ reshaped' = IF camp[req[a].c].status # "draft" THEN reshaped \cup {req[a].c} ELSE reshaped
  /\ req' = [req EXCEPT ![a] = Idle]
  /\ UNCHANGED <<camp, optOut, window, upsets, mails, unsure, stranded, overlap, late>>

-------------------------------------------------------------------------------
(* The world around it.                                                      *)

OptOut(k) ==
  /\ k \notin optOut /\ Upset
  /\ optOut' = optOut \cup {k}
  /\ UNCHANGED <<camp, rcpt, req, window, history>>

\* recipient.nextAttemptAt is reached.
RetryComes(r) ==
  /\ rcpt[r].status = "queued" /\ rcpt[r].wait
  /\ rcpt' = [rcpt EXCEPT ![r].wait = FALSE]
  /\ UNCHANGED <<camp, optOut, req, window, upsets, history>>

\* What was sent leaves the window of the limit.
WindowPasses ==
  /\ window.out > 0
  /\ window' = [out |-> 0, events |-> 0, lost |-> 0]
  /\ UNCHANGED <<camp, rcpt, optOut, req, upsets, history>>

\* CAMPAIGN_LOCK_TTL_MS passes since the lock was refreshed.
LockExpires(c) ==
  /\ camp[c].lock = "held"
  /\ SlowBatches \/ \A a \in Requests : req[a].pc \in Draining => req[a].c # c
  /\ camp' = [camp EXCEPT ![c].lock = "stale"]
  /\ UNCHANGED <<rcpt, optOut, req, window, upsets, history>>

\* The process dies, with every request under way.
Crash ==
  /\ \E a \in Requests : req[a].pc # "idle"
  /\ Upset
  /\ req' = [a \in Requests |-> Idle]
  /\ stranded' = stranded \cup UNION {Held(a) : a \in {b \in Requests : req[b].pc \in Draining}}
  /\ window' = [window EXCEPT !.lost = @ + Cardinality({a \in Requests : At(a, "record")})]
  /\ UNCHANGED <<camp, rcpt, optOut, mails, unsure, reshaped, overlap, late>>

-------------------------------------------------------------------------------
SendStep(a) ==
  \/ \E d \in req[a].batch : SkipOne(a, d) \/ Accepted(a, d) \/ Refused(a, d) \/ TimedOut(a, d)
  \/ Record(a) \/ RecordFails(a)

DrainStep(a) ==
  \/ Lock(a) \/ NextBatch(a) \/ Claim(a) \/ ClaimsEnd(a)
  \/ SendStep(a) \/ Refresh(a)
  \/ FinishReads(a) \/ FinishWrites(a) \/ FollowCreates(a) \/ FollowInserts(a)
  \/ Throws(a)

ControlStep(a) ==
  \/ Launch(a) \/ CancelSkips(a) \/ ControlSaves(a)
  \/ RebuildDeletes(a) \/ RebuildInserts(a)

WorldStep ==
  \/ \E k \in Contacts : OptOut(k)
  \/ \E r \in Recipients : RetryComes(r)
  \/ WindowPasses
  \/ \E c \in Campaigns : LockExpires(c)
  \/ Crash

Next ==
  \/ \E a \in Requests :
       \/ \E c \in Campaigns : Send(a, c) \/ SendLoads(a, c)
       \/ \E c \in Campaigns, action \in DOMAIN From : ControlLoads(a, c, action)
       \/ DrainStep(a) \/ ControlStep(a)
  \/ WorldStep

Spec == Init /\ [][Next]_vars
-------------------------------------------------------------------------------
(* Properties.                                                               *)

Campaign ==
  [status : {"absent", "draft", "completed", "cancelled", "archived"} \cup Active,
   lock : {"none", "held", "stale"}, step : Nat, parent : Campaigns \cup {None}, list : Nat]

Recipient ==
  [status : {"absent", "queued", "sending"} \cup Settled, attempts : Nat, wait : BOOLEAN]

Docs == Contacts \X Nat

Request ==
  [pc : Draining \cup {"idle", "lock", "follow", "insert", "launch", "skip", "save",
                       "delete", "build"},
   c : Campaigns \cup {None}, action : {"send"} \cup DOMAIN From,
   ended : BOOLEAN, locked : BOOLEAN, left : Nat, batch : SUBSET Docs, cur : Docs \cup {None},
   done : BOOLEAN, next : Campaigns \cup {None}]

\* Every variable holds what the code may put there, and nobody has more attempts than
\* MAX_SEND_ATTEMPTS.
TypeOK ==
  /\ camp \in [Campaigns -> Campaign]
  /\ rcpt \in [Recipients -> Recipient]
  /\ \A r \in Recipients : rcpt[r].attempts <= MaxAttempts
  /\ optOut \subseteq Contacts
  /\ req \in [Requests -> Request]
  /\ window \in [out : Nat, events : Nat, lost : Nat]
  /\ upsets \in Nat
  /\ mails \in [Recipients -> Nat]
  /\ unsure \subseteq Recipients /\ reshaped \subseteq Campaigns
  /\ stranded \subseteq Recipients /\ overlap \subseteq SUBSET Campaigns
  /\ late \in [Campaigns -> Nat]

\* Nobody gets a campaign twice, however many drains share it and whatever dies or
\* throws, unless the provider accepted a message without saying so, or the list was
\* rebuilt under a campaign already launched.
MailedOnce ==
  \A r \in Recipients : mails[r] > 1 => r \in unsure \/ r[1] \in reshaped

\* What is settled stays settled: no claim, retry, cancellation or late save of another
\* request touches a recipient that was written to, skipped or given up.
SettledStays ==
  [][\A r \in Recipients :
       rcpt[r].status \in Settled =>
         \/ rcpt'[r] = rcpt[r]
         \/ camp'[r[1]].list # camp[r[1]].list]_rcpt

\* A pause or a cancellation takes effect at the next batch: a drain that is alone claims
\* no more after it than the batch it had begun.
StopsWithinBatch == \A c \in Campaigns : late[c] > BatchSize => {c} \in overlap

\* The limit is the owner's, not the campaign's: with one drain at a time, what goes out
\* in a window is within it, but for messages whose event was lost.
AllowanceKept == window.out > Limit + window.lost => overlap # {}

\* A completed campaign owes nobody anything, but for recipients whose drain died, or
\* whom a second drain of the campaign or a change of the list brought in.
CompletedIsSettled ==
  \A c \in Campaigns : camp[c].status = "completed" =>
    \/ c \in reshaped \/ {c} \in overlap
    \/ \A k \in Contacts :
         \/ rcpt[<<c, k>>].status \in Settled \cup {"absent"}
         \/ <<c, k>> \in stranded

\* Only those who were written to are chased: a follow-up lists nobody who was skipped,
\* refused or still waiting in the step before, unless a drain died with them, a second
\* one was still at work, or the list of that step was changed under it.
ChasedWereWrittenTo ==
  \A c, f \in Campaigns : camp[f].parent = c =>
    \/ c \in reshaped \/ {c} \in overlap
    \/ \A k \in Contacts :
         rcpt[<<f, k>>].status # "absent" => mails[<<c, k>>] > 0 \/ <<c, k>> \in stranded
=============================================================================
