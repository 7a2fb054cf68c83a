-------------------------------- MODULE ReplySync --------------------------------
(****************************************************************************)
(* What becomes of a customer's reply.  A run of the reply sync reads a     *)
(* page of the inbox; each letter on it that is not stored yet is matched   *)
(* to a thread or a lead, stored, applied to the lead of its thread, and    *)
(* announced.  Runs overlap: the worker's are kept apart by a claim, those  *)
(* a user starts from the conversations page are not; and a user may link   *)
(* the thread to a lead by hand while they are at it.                       *)
(*                                                                          *)
(*   src/src/modules/scheduler/services/replySyncScheduler.service.js       *)
(*   src/src/modules/conversations/services/replySync.service.js            *)
(*   src/src/modules/conversations/services/conversationSync.service.js     *)
(*   src/src/modules/conversations/services/replyMatching.service.js        *)
(*   src/src/modules/conversations/services/leadWorkflow.service.js         *)
(****************************************************************************)
EXTENDS Naturals, FiniteSets

CONSTANTS
  Letters,    \* messages of one thread of the provider's inbox
  Leads,      \* the leads they may be about
  Runs,       \* runs of the reply sync that may be under way
  None,       \* no letter or lead
  Shapes,     \* what a letter may look like
  BatchSize,  \* SYNC_BATCH_SIZE
  MaxUpsets  \* bound on failures, crashes, claims outlived, unclaimed runs, links and
              \* stages set by hand, all told

\* What the code reads off a letter: the lead its subject or sender points to, whether it
\* answers a mail of ours that no thread holds yet, whether that lead is sure enough to move
\* a stage, and whether a person wrote it.
Shape == [hint : Leads \cup {None}, direct : BOOLEAN, sure : BOOLEAN, human : BOOLEAN]

ASSUME ReplyAssumption ==
  /\ IsFiniteSet(Letters)
  /\ Shapes \subseteq Shape
  /\ None \notin Letters \cup Leads \cup Runs
  /\ BatchSize \in Nat \ {0}
  /\ MaxUpsets \in Nat

VARIABLES
  shape,    \* each letter
  inbox,    \* the letters that have arrived
  conv,     \* the Conversation of the thread: there or not, and its lead
  stored,   \* the ConversationMessage of each letter: there or not, and its lead
  lead,     \* each Lead: stage, replyCount
  notices,  \* letters with a Notification
  claim,    \* the claim on the workspace: free, held, or older than its TTL
  run,      \* each run
  linking,  \* the lead a user is linking the thread to
  upsets,   \* how much of the bound is used
  \* History, read by properties only:
  applied,  \* letters applied to a lead
  dropped,  \* letters stored by a run that failed or died before it was done with them
  late,     \* letters given their lead after they were stored
  torn,     \* letters at work, or stored under another lead, when the thread was linked
  drifted,  \* leads whose replyCount was disturbed since it was last counted undisturbed
  manual    \* leads whose stage a user set

store   == <<conv, stored>>
replyHistory == <<applied, dropped, late, torn, drifted, manual>>
replyVars == <<shape, inbox, store, lead, notices, claim, run, linking, upsets, replyHistory>>

Rest == [pc |-> "idle", claimed |-> FALSE, page |-> {}, m |-> None, lead |-> None,
         sure |-> FALSE, seen |-> None, stage |-> "inactive", count |-> 0, counted |-> 0,
         alone |-> FALSE]

ReplyInit ==
  /\ shape \in [Letters -> Shapes]
  /\ inbox = {}
  /\ conv = [there |-> FALSE, lead |-> None]
  /\ stored = [m \in Letters |-> [there |-> FALSE, lead |-> None]]
  /\ lead = [l \in Leads |-> [stage |-> "inactive", count |-> 0]]
  /\ notices = {} /\ claim = "free"
  /\ run = [r \in Runs |-> Rest]
  /\ linking = None
  /\ upsets = 0
  /\ applied = {} /\ dropped = {} /\ late = {} /\ torn = {} /\ drifted = {} /\ manual = {}

\* The bound on what disturbs the runs.
Upset == upsets < MaxUpsets /\ upsets' = upsets + 1

Arrive(m) ==
  /\ m \notin inbox
  /\ inbox' = inbox \cup {m}
  /\ UNCHANGED <<shape, store, lead, notices, claim, run, linking, upsets, replyHistory>>

-------------------------------------------------------------------------------
(* A run.                                                                    *)

\* tick or syncNow: claim, then runClaimed.
StartClaimed(r) ==
  /\ run[r].pc = "idle"
  /\ claim \in {"free", "stale"}
  /\ claim' = "held"
  /\ run' = [run EXCEPT ![r] = [Rest EXCEPT !.pc = "fetch", !.claimed = TRUE]]
  /\ UNCHANGED <<shape, inbox, store, lead, notices, linking, upsets, replyHistory>>

\* POST /conversations/sync: runReplySync without a claim.
StartByHand(r) ==
  /\ run[r].pc = "idle"
  /\ Upset
  /\ run' = [run EXCEPT ![r] = [Rest EXCEPT !.pc = "fetch"]]
  /\ UNCHANGED <<shape, inbox, store, lead, notices, claim, linking, replyHistory>>

\* runReplySync: the first page of the inbox.  No token is sent, and no second page is read.
FetchInbox(r) ==
  /\ run[r].pc = "fetch"
  /\ \E page \in SUBSET inbox :
       /\ Cardinality(page) = IF Cardinality(inbox) < BatchSize THEN Cardinality(inbox) ELSE BatchSize
       /\ run' = [run EXCEPT ![r].pc = "pick", ![r].page = page]
  /\ UNCHANGED <<shape, inbox, store, lead, notices, claim, linking, upsets, replyHistory>>

\* The run is done, or its mailbox could not be read; the claim ends, whosever it is.
EndRun(r) ==
  /\ run[r].pc \in {"fetch", "pick"} /\ run[r].page = {}
  /\ claim' = IF run[r].claimed THEN "free" ELSE claim
  /\ run' = [run EXCEPT ![r] = Rest]
  /\ UNCHANGED <<shape, inbox, store, lead, notices, linking, upsets, replyHistory>>

\* Back to the batch.
Again(r) == [Rest EXCEPT !.pc = "pick", !.claimed = run[r].claimed, !.page = run[r].page]

\* ingestMessage: a letter that is stored is a duplicate.
Pick(r) ==
  /\ run[r].pc = "pick"
  /\ \E m \in run[r].page :
       \/ /\ stored[m].there
          /\ run' = [run EXCEPT ![r].page = @ \ {m}]
       \/ /\ ~stored[m].there
          /\ run' = [run EXCEPT ![r].page = @ \ {m}, ![r].m = m, ![r].pc = "match"]
  /\ UNCHANGED <<shape, inbox, store, lead, notices, claim, linking, upsets, replyHistory>>

\* matchInboundMessage: by a mail it answers, by its thread, or by what it says.
Match(r) ==
  LET s == shape[run[r].m] IN
  /\ run[r].pc = "match"
  /\ run' = [run EXCEPT ![r] =
       IF conv.there /\ ~s.direct
       THEN [@ EXCEPT !.pc = "create", !.lead = conv.lead, !.seen = conv.lead, !.sure = TRUE]
       ELSE [@ EXCEPT !.pc = "find", !.lead = s.hint, !.sure = s.sure]]
  /\ UNCHANGED <<shape, inbox, store, lead, notices, claim, linking, upsets, replyHistory>>

\* resolveConversation: the thread may be there by now...
Find(r) ==
  /\ run[r].pc = "find"
  /\ run' = [run EXCEPT ![r] =
       IF conv.there
       THEN [@ EXCEPT !.seen = conv.lead,
                      !.pc = IF conv.lead = None /\ run[r].lead # None THEN "attach" ELSE "create"]
       ELSE [@ EXCEPT !.pc = "upsert"]]
  /\ UNCHANGED <<shape, inbox, store, lead, notices, claim, linking, upsets, replyHistory>>

\* ...or is made; what comes back is the one thread, though another run made it.
Upsert(r) ==
  /\ run[r].pc = "upsert"
  /\ conv' = [conv EXCEPT !.there = TRUE]
  /\ run' = [run EXCEPT ![r].seen = conv.lead,
                        ![r].pc = IF run[r].lead # None THEN "attach" ELSE "create"]
  /\ UNCHANGED <<shape, inbox, stored, lead, notices, claim, linking, upsets, replyHistory>>

\* Mutant: nothing is relabelled.
UnlabelledNone == {m \in Letters : FALSE}

\* The messages of the thread that have no lead.
Unlabelled == {m \in Letters : stored[m].there /\ stored[m].lead = None}

\* Another link is halfway.
LinkedAside(r) == linking # None \/ \E q \in Runs \ {r} : run[q].pc = "relabel"

\* Letters a link of the thread to lead l by r, or by a user, passes over.
Torn(r, l) ==
  {run[q].m : q \in {p \in Runs \ {r} : run[p].pc \in {"find", "upsert", "attach", "relabel", "create"}
                                          /\ run[p].seen # l}}
    \cup {m \in Letters : stored[m].there /\ stored[m].lead \notin {None, l}}
    \cup {m \in Unlabelled : LinkedAside(r)}

\* attachLead: the thread, if that changes it...
Attach(r) ==
  LET l == run[r].lead IN
  /\ run[r].pc = "attach"
  /\ conv' = IF run[r].seen = l THEN conv ELSE [conv EXCEPT !.lead = l]
  /\ torn' = IF run[r].seen = l THEN torn ELSE torn \cup Torn(r, l)
  /\ run' = [run EXCEPT ![r].seen = l, ![r].pc = "relabel"]
  /\ UNCHANGED <<shape, inbox, stored, lead, notices, claim, linking, upsets,
                 applied, dropped, late, drifted, manual>>

\* The replyCount of lead l, or what it counts, changes under the runs at work on it.
Disturb(f, r, l) ==
  [q \in Runs |-> IF q # r /\ f[q].pc \in {"count", "save"} /\ f[q].seen = l
                  THEN [f[q] EXCEPT !.alone = FALSE] ELSE f[q]]

\* ...then its messages.
Relabel(l) ==
  /\ stored' = [m \in Letters |-> IF m \in Unlabelled THEN [stored[m] EXCEPT !.lead = l] ELSE stored[m]]
  /\ late' = late \cup Unlabelled
  /\ drifted' = IF Unlabelled = {} THEN drifted ELSE drifted \cup {l}

RelabelByRun(r) ==
  /\ run[r].pc = "relabel"
  /\ Relabel(run[r].lead)
  /\ run' = IF Unlabelled = {} THEN [run EXCEPT ![r].pc = "create"]
            ELSE Disturb([run EXCEPT ![r].pc = "create"], r, run[r].lead)
  /\ UNCHANGED <<shape, inbox, conv, lead, notices, claim, linking, upsets, applied, dropped, torn, manual>>

\* Mutant: the lead of the match.
AppliesIfMatched(r) == run[r].lead # None

\* Is there a lead to apply the letter to?
Applies(r) == run[r].seen # None

\* ConversationMessage.create, with the lead the thread had when it was read; the index
\* refuses a second one.
Create(r) ==
  LET m == run[r].m IN
  /\ run[r].pc = "create"
  /\ \/ /\ ~stored[m].there
        /\ stored' = [stored EXCEPT ![m] = [there |-> TRUE, lead |-> run[r].seen]]
        /\ run' = Disturb([run EXCEPT ![r].pc = IF Applies(r) THEN "load" ELSE "notify"], r, run[r].seen)
     \/ /\ stored[m].there
        /\ run' = [run EXCEPT ![r] = Again(r)]
        /\ UNCHANGED stored
  /\ UNCHANGED <<shape, inbox, conv, lead, notices, claim, linking, upsets, replyHistory>>

\* applyReplyToLead: the lead is read...
Load(r) ==
  LET l == lead[run[r].seen] IN
  /\ run[r].pc = "load"
  /\ run' = [run EXCEPT ![r] = [@ EXCEPT !.pc = "count", !.stage = l.stage, !.count = l.count, !.alone = TRUE]]
  /\ UNCHANGED <<shape, inbox, store, lead, notices, claim, linking, upsets, replyHistory>>

Incoming(l) == Cardinality({m \in Letters : stored[m].there /\ stored[m].lead = l})

\* Mutant: $inc.
ReplyCountAdded(r) == run[r].count + 1

\* Counted, not incremented.
ReplyCount(r) == Incoming(run[r].seen)

\* ...its replies are counted...
Count(r) ==
  /\ run[r].pc = "count"
  /\ run' = [run EXCEPT ![r].counted = ReplyCount(r), ![r].pc = "save"]
  /\ UNCHANGED <<shape, inbox, store, lead, notices, claim, linking, upsets, replyHistory>>

\* REPLY_STAGE_TRANSITIONS, for a person's answer and a match that is sure enough.
Moves(r) == shape[run[r].m].human /\ run[r].sure /\ run[r].stage = "inactive"

\* ...and what changed is saved.
Save(r) ==
  LET l == run[r].seen IN
  /\ run[r].pc = "save"
  /\ lead' = [lead EXCEPT ![l] =
       [stage |-> IF Moves(r) THEN "active" ELSE @.stage,
        count |-> IF run[r].counted # run[r].count THEN run[r].counted ELSE @.count]]
  /\ run' = Disturb([run EXCEPT ![r].pc = "notify"], r, l)
  /\ applied' = applied \cup {run[r].m}
  /\ drifted' = IF run[r].alone THEN drifted \ {l} ELSE drifted \cup {l}
  /\ UNCHANGED <<shape, inbox, store, notices, claim, linking, upsets, dropped, late, torn, manual>>

\* raiseReplyNotification: of what a person wrote; a failure is swallowed.
Notify(r) ==
  /\ run[r].pc = "notify"
  /\ \/ /\ notices' = IF shape[run[r].m].human THEN notices \cup {run[r].m} ELSE notices
        /\ UNCHANGED <<upsets, dropped>>
     \/ /\ Upset
        /\ dropped' = dropped \cup {run[r].m}
        /\ UNCHANGED notices
  /\ run' = [run EXCEPT ![r] = Again(r)]
  /\ UNCHANGED <<shape, inbox, store, lead, claim, linking, applied, late, torn, drifted, manual>>

\* Runs that stored their letter and are not done with it.
Halfway == {r \in Runs : run[r].pc \in {"load", "count", "save", "notify"}}

\* The letters of the runs S are dropped where they are.
Drop(S) ==
  /\ dropped' = dropped \cup {run[r].m : r \in S \cap Halfway}
  /\ drifted' = drifted \cup ({run[r].seen : r \in S \cap Halfway} \ {None})

\* A step of ingestMessage throws: ingestBatch goes on with the next letter.
Throws(r) ==
  /\ run[r].pc \in {"match", "find", "upsert", "attach", "relabel", "create", "load", "count", "save"}
  /\ Upset
  /\ Drop({r})
  /\ torn' = IF run[r].pc = "relabel" THEN torn \cup Unlabelled ELSE torn
  /\ run' = [run EXCEPT ![r] = Again(r)]
  /\ UNCHANGED <<shape, inbox, store, lead, notices, claim, linking, applied, late, manual>>

-------------------------------------------------------------------------------
(* What goes on around the runs.                                             *)

\* A user links the thread: loadConversation and attachLead.
Link(l) ==
  /\ linking = None /\ conv.there
  /\ Upset
  /\ conv' = [conv EXCEPT !.lead = l]
  /\ torn' = IF conv.lead = l THEN torn ELSE torn \cup Torn(None, l)
  /\ linking' = l
  /\ UNCHANGED <<shape, inbox, stored, lead, notices, claim, run, applied, dropped, late, drifted, manual>>

LinkRelabels ==
  /\ linking # None
  /\ Relabel(linking)
  /\ run' = IF Unlabelled = {} THEN run ELSE Disturb(run, None, linking)
  /\ linking' = None
  /\ UNCHANGED <<shape, inbox, conv, lead, notices, claim, upsets, applied, dropped, torn, manual>>

\* The second write fails.
LinkFails ==
  /\ linking # None
  /\ Upset
  /\ torn' = torn \cup Unlabelled
  /\ linking' = None
  /\ UNCHANGED <<shape, inbox, store, lead, notices, claim, run, applied, dropped, late, drifted, manual>>

\* A user sets a stage: moveLeadStage.
SetStage(l, stage) ==
  /\ lead[l].stage # stage
  /\ Upset
  /\ lead' = [lead EXCEPT ![l].stage = stage]
  /\ manual' = manual \cup {l}
  /\ UNCHANGED <<shape, inbox, store, notices, claim, run, linking, applied, dropped, late, torn, drifted>>

\* REPLY_SYNC_CLAIM_TTL_MS have passed, since a run that died or under one that lives.
ClaimAges ==
  /\ claim = "held"
  /\ IF \E r \in Runs : run[r].claimed THEN Upset ELSE UNCHANGED upsets
  /\ claim' = "stale"
  /\ UNCHANGED <<shape, inbox, store, lead, notices, run, linking, replyHistory>>

\* The process dies.
RunCrash ==
  /\ linking # None \/ \E r \in Runs : run[r].pc # "idle"
  /\ Upset
  /\ Drop(Runs)
  /\ run' = [r \in Runs |-> Rest]
  /\ torn' = IF linking = None /\ \A r \in Runs : run[r].pc # "relabel" THEN torn ELSE torn \cup Unlabelled
  /\ linking' = None
  /\ UNCHANGED <<shape, inbox, store, lead, notices, claim, applied, late, manual>>

RunStep(r) ==
  \/ StartClaimed(r) \/ StartByHand(r) \/ FetchInbox(r) \/ EndRun(r)
  \/ Pick(r) \/ Match(r) \/ Find(r) \/ Upsert(r) \/ Attach(r) \/ RelabelByRun(r)
  \/ Create(r) \/ Load(r) \/ Count(r) \/ Save(r) \/ Notify(r) \/ Throws(r)

ReplyNext ==
  \/ \E m \in Letters : Arrive(m)
  \/ \E r \in Runs : RunStep(r)
  \/ \E l \in Leads : Link(l) \/ \E stage \in {"inactive", "active", "closed"} : SetStage(l, stage)
  \/ LinkRelabels \/ LinkFails \/ ClaimAges \/ RunCrash

ReplySpec == ReplyInit /\ [][ReplyNext]_replyVars
-------------------------------------------------------------------------------
(* Properties.                                                               *)

Stages == {"inactive", "active", "closed"}

RunProgress ==
  [pc : {"idle", "fetch", "pick", "match", "find", "upsert", "attach", "relabel", "create",
   "load", "count", "save", "notify"},
   claimed : BOOLEAN, page : SUBSET Letters, m : Letters \cup {None},
   lead : Leads \cup {None}, sure : BOOLEAN, seen : Leads \cup {None}, stage : Stages,
   count : Nat, counted : Nat, alone : BOOLEAN]

\* Every variable holds what the code may put there.
ReplyTypes ==
  /\ shape \in [Letters -> Shape] /\ inbox \subseteq Letters
  /\ conv \in [there : BOOLEAN, lead : Leads \cup {None}]
  /\ stored \in [Letters -> [there : BOOLEAN, lead : Leads \cup {None}]]
  /\ lead \in [Leads -> [stage : Stages, count : Nat]]
  /\ notices \subseteq Letters
  /\ claim \in {"free", "held", "stale"}
  /\ run \in [Runs -> RunProgress]
  /\ linking \in Leads \cup {None} /\ upsets \in Nat
  /\ applied \subseteq Letters /\ dropped \subseteq Letters /\ late \subseteq Letters
  /\ torn \subseteq Letters /\ drifted \subseteq Leads /\ manual \subseteq Leads

\* Letters a run has stored and is still at work on.
AtWork == {run[r].m : r \in Halfway}

\* A stored letter has reached its lead and the user, and moved the lead on if it may,
\* whichever run stored it and whoever else saw it, unless its run failed or died on the
\* way, after which every run takes it for a duplicate, or the thread got its lead later, by
\* a link that applies no letter.
ReplyReaches ==
  \A m \in Letters : stored[m].there /\ m \notin AtWork \cup dropped =>
    /\ stored[m].lead # None /\ m \notin late => m \in applied
    /\ shape[m].human => m \in notices
    /\ m \in applied /\ shape[m].human /\ shape[m].sure /\ stored[m].lead \notin manual =>
         lead[stored[m].lead].stage # "inactive"

\* replyCount is the number of letters on the lead, once nobody is at work on it: a lost
\* update, a failure or a link throws it off no longer than to the next undisturbed letter.
CountSound ==
  \A l \in Leads \ drifted :
    (\A r \in Halfway : run[r].seen # l) => lead[l].count = Incoming(l)

\* A letter is with the lead its thread is with, unless the thread was linked while the
\* letter was at work or another link was, was taken away from another lead, or the link
\* broke off halfway.
LinkedTogether ==
  linking = None /\ (\A r \in Runs : run[r].pc # "relabel") =>
    \A m \in Letters \ torn : stored[m].there => stored[m].lead = conv.lead
=============================================================================
