-------------------------- MODULE CampaignDrain_proofs -------------------------
(****************************************************************************)
(* Campaigns: types, and who is written to, how often and within which limit. *)
(****************************************************************************)
EXTENDS CampaignDrain, FiniteSetTheorems, TLAPS

(* What a request knows at each of its calls. *)
ReqOK(w) ==
  /\ w.pc # "idle" => w.c \in Campaigns
  /\ w.pc \in {"idle", "lock", "batch"} => w.batch = {}
  /\ w.pc = "record" => w.cur \in Docs
  /\ w.pc = "claim" => w.left # 0
  /\ w.pc = "insert" => w.next \in Campaigns
  /\ w.pc \in {"skip", "save"} => w.action \in {"pause", "resume", "cancel", "archive"}

(* A recipient who waits has an attempt left. *)
AttemptLeft == \A r \in Recipients : rcpt[r].status = "queued" => rcpt[r].attempts < MaxAttempts

RequestsOK == req \in [Requests -> Request] /\ \A a \in Requests : ReqOK(req[a])

Typed == TypeOK /\ RequestsOK /\ AttemptLeft

(* Request a becomes w, and no other request changes. *)
Becomes(a, w) == req' = [req EXCEPT ![a] = w]

LEMMA RequestPut ==
  ASSUME Typed, NEW a \in Requests, NEW w \in Request, ReqOK(w), Becomes(a, w)
  PROVE  RequestsOK'
BY DEF Typed, RequestsOK, Becomes

LEMMA IdleOK == Idle \in Request /\ ReqOK(Idle)
BY DEF Idle, Request, Draining, ReqOK

LEMMA Positive ==
  /\ BatchSize \in Nat /\ BatchSize # 0 /\ Limit \in Nat /\ Limit # 0
  /\ MaxAttempts \in Nat /\ MaxAttempts # 0 /\ LastStep \in Nat /\ MaxUpsets \in Nat
BY CampaignAssumption DEF CampaignAssumption

(* A campaign or a recipient becomes w, and no other changes. *)
LEMMA CampaignPut ==
  ASSUME Typed, NEW c \in Campaigns, NEW w \in Campaign, camp' = [camp EXCEPT ![c] = w]
  PROVE  /\ camp' \in [Campaigns -> Campaign] /\ camp'[c] = w
         /\ \A f \in Campaigns : f # c => camp'[f] = camp[f]
BY DEF Typed, TypeOK

LEMMA RecipientPut ==
  ASSUME Typed, NEW r \in Recipients, NEW w \in Recipient, rcpt' = [rcpt EXCEPT ![r] = w]
  PROVE  /\ rcpt' \in [Recipients -> Recipient] /\ rcpt'[r] = w
         /\ \A q \in Recipients : q # r => rcpt'[q] = rcpt[q]
BY DEF Typed, TypeOK

(* A request about to be let go. *)
LEMMA Ends ==
  ASSUME Typed, NEW a \in Requests, req' = [req EXCEPT ![a] = Idle]
  PROVE  RequestsOK'
BY IdleOK, RequestPut DEF Becomes

(* The next call, where nothing else in the request's memory changes. *)
LEMMA Going ==
  ASSUME Typed, NEW a \in Requests, NEW pc, Goto(a, pc),
         \/ pc = "follow" /\ req[a].pc = "lock"
         \/ pc = "finish" /\ req[a].pc \in {"batch", "send"}
         \/ pc = "batch" /\ req[a].pc = "send" /\ req[a].batch = {}
         \/ pc = "save" /\ req[a].pc = "skip"
         \/ pc = "build" /\ req[a].pc = "delete"
  PROVE  RequestsOK'
<1> DEFINE w == [req[a] EXCEPT !.pc = pc]
<1>0. req[a] \in Request /\ ReqOK(req[a])
  BY DEF Typed, RequestsOK
<1>1. w \in Request
  BY <1>0 DEF Request, Draining
<1>2. ReqOK(w)
  BY <1>0 DEF Request, ReqOK
<1>3. Becomes(a, w)
  BY DEF Goto, Becomes, Typed, RequestsOK
<1> HIDE DEF w
<1> QED BY <1>1, <1>2, <1>3, RequestPut

LEMMA TakeLockType ==
  ASSUME Typed, NEW a \in Requests, NEW c \in Campaigns, req[a].pc \in {"idle", "lock"},
         TakeLock(a, c)
  PROVE  RequestsOK' /\ camp' \in [Campaigns -> Campaign] /\ overlap' \subseteq SUBSET Campaigns
<1> DEFINE w == [req[a] EXCEPT !.pc = "batch", !.c = c, !.ended = FALSE]
<1>0. req[a] \in Request /\ ReqOK(req[a])
  BY DEF Typed, RequestsOK
<1>1. w \in Request
  BY <1>0 DEF Request, Draining
<1>2. ReqOK(w)
  BY <1>0 DEF Request, ReqOK
<1>3. Becomes(a, w)
  BY DEF TakeLock, Becomes, Typed, RequestsOK
<1>4. RequestsOK'
  <2> HIDE DEF w
  <2> QED BY <1>1, <1>2, <1>3, RequestPut
<1>5. camp' \in [Campaigns -> Campaign]
  <2> DEFINE v == [camp[c] EXCEPT !.status = "running", !.lock = "held"]
  <2>0. camp[c] \in Campaign
    BY DEF Typed, TypeOK
  <2>1. v \in Campaign
    BY <2>0 DEF Campaign, Active
  <2>2. camp' = [camp EXCEPT ![c] = v]
    <3>1. camp \in [Campaigns -> Campaign]
      BY DEF Typed, TypeOK
    <3>2. camp' = [camp EXCEPT ![c].status = "running", ![c].lock = "held"]
      BY DEF TakeLock
    <3> QED BY <3>1, <3>2 DEF Campaign
  <2> HIDE DEF v
  <2> QED BY <2>1, <2>2, CampaignPut
<1>6. \A b \in Requests : req[b].pc \in Draining => req[b].c \in Campaigns
  BY DEF Draining, Typed, RequestsOK, ReqOK
<1>7. overlap' \subseteq SUBSET Campaigns
  BY <1>6 DEF TakeLock, Typed, TypeOK
<1> QED BY <1>4, <1>5, <1>7

(* The document of a contact on the list of a campaign. *)
LEMMA DocType ==
  ASSUME Typed, NEW c \in Campaigns, NEW k \in Contacts
  PROVE  Doc(c, k) \in Docs
BY DEF Doc, Docs, Typed, TypeOK, Campaign

LEMMA OfType ==
  ASSUME Typed, NEW a \in Requests, req[a].pc # "idle", NEW d \in Docs
  PROVE  Of(a, d) \in Recipients
BY DEF Of, Docs, Recipients, Typed, RequestsOK, ReqOK

(* A recipient is settled, or put back: the request goes on without it. *)
LEMMA WithoutType ==
  ASSUME Typed, NEW a \in Requests, NEW d, req[a].pc \in {"send", "record"}, req' = Without(a, d)
  PROVE  RequestsOK'
<1> DEFINE w == [req[a] EXCEPT !.batch = @ \ {d}, !.cur = None, !.pc = "send"]
<1>0. req[a] \in Request /\ ReqOK(req[a])
  BY DEF Typed, RequestsOK
<1>1. w \in Request
  BY <1>0 DEF Request, Draining
<1>2. ReqOK(w)
  BY <1>0 DEF Request, ReqOK
<1>3. Becomes(a, w)
  BY DEF Without, Becomes, Typed, RequestsOK
<1> HIDE DEF w
<1> QED BY <1>1, <1>2, <1>3, RequestPut

LEMMA RetryType ==
  ASSUME Typed, NEW r \in Recipients, Retry(r)
  PROVE  /\ rcpt' \in [Recipients -> Recipient]
         /\ \A q \in Recipients : rcpt'[q].attempts = rcpt[q].attempts
         /\ \A q \in Recipients : q # r => rcpt'[q] = rcpt[q]
         /\ rcpt'[r].status \in {"queued", "failed"}
         /\ rcpt'[r].status = "queued" => rcpt'[r].attempts < MaxAttempts
<1> DEFINE w == [rcpt[r] EXCEPT !.status = IF CanRetry(r) THEN "queued" ELSE "failed",
                                !.wait = CanRetry(r)]
<1>0. rcpt[r] \in Recipient /\ CanRetry(r) \in BOOLEAN
  BY DEF CanRetry, Typed, TypeOK
<1>1. w \in Recipient
  BY <1>0 DEF Recipient, Settled
<1>2. rcpt' = [rcpt EXCEPT ![r] = w]
  BY DEF Retry, Typed, TypeOK
<1>3. /\ w.attempts = rcpt[r].attempts
      /\ w.status \in {"queued", "failed"}
      /\ w.status = "queued" => rcpt[r].attempts < MaxAttempts
  BY <1>0 DEF CanRetry, Recipient
<1> HIDE DEF w
<1> QED BY <1>1, <1>2, <1>3, RecipientPut

(* What a step leaves alone stays in range. *)
LEMMA Rest ==
  ASSUME Typed, RequestsOK', AttemptLeft',
         camp' \in [Campaigns -> Campaign], rcpt' \in [Recipients -> Recipient],
         \A r \in Recipients : rcpt'[r].attempts <= MaxAttempts,
         optOut' \subseteq Contacts, window' \in [out : Nat, events : Nat, lost : Nat],
         upsets' \in Nat, mails' \in [Recipients -> Nat], unsure' \subseteq Recipients,
         reshaped' \subseteq Campaigns, stranded' \subseteq Recipients,
         overlap' \subseteq SUBSET Campaigns, late' \in [Campaigns -> Nat]
  PROVE  Typed'
BY DEF Typed, TypeOK, RequestsOK

(* No recipient changes. *)
LEMMA SameRecipients ==
  ASSUME Typed, rcpt' = rcpt
  PROVE  /\ AttemptLeft' /\ rcpt' \in [Recipients -> Recipient]
         /\ \A r \in Recipients : rcpt'[r].attempts <= MaxAttempts
BY DEF Typed, TypeOK, AttemptLeft

LEMMA SendType ==
  ASSUME Typed, NEW a \in Requests, NEW c \in Campaigns,
         Send(a, c) \/ (Lock(a) /\ c = req[a].c)
  PROVE  Typed'
<1>1. CASE TakeLock(a, c)
  <2>1. req[a].pc \in {"idle", "lock"}
    <3> QED BY DEF Send, Lock, At
  <2>2. RequestsOK' /\ camp' \in [Campaigns -> Campaign] /\ overlap' \subseteq SUBSET Campaigns
    BY <1>1, <2>1, TakeLockType
  <2>3. UNCHANGED <<rcpt, optOut, window, upsets, mails, unsure, reshaped, stranded, late>>
    BY DEF Send, Lock
  <2> QED BY <2>2, <2>3, SameRecipients, Rest DEF Typed, TypeOK
<1>2. CASE ~TakeLock(a, c)
  <2>1. Goto(a, "follow") /\ req[a].pc = "lock"
    BY <1>2 DEF Send, Lock, At
  <2>2. RequestsOK'
    BY <2>1, Going
  <2>3. UNCHANGED <<camp, overlap, rcpt, optOut, window, upsets, mails, unsure, reshaped,
                    stranded, late>>
    BY <1>2 DEF Send, Lock
  <2> QED BY <2>2, <2>3, SameRecipients, Rest DEF Typed, TypeOK
<1> QED BY <1>1, <1>2

(* A step that changes a request only. *)
LEMMA RequestOnly ==
  ASSUME Typed, RequestsOK', UNCHANGED <<camp, rcpt, optOut, window, history>>, upsets' \in Nat
  PROVE  Typed'
BY SameRecipients, Rest DEF Typed, TypeOK, history

LEMMA UpsetType == ASSUME Typed, Upset \/ UNCHANGED upsets PROVE upsets' \in Nat
BY DEF Typed, TypeOK, Upset

LEMMA LoadsType ==
  ASSUME Typed, NEW a \in Requests, NEW c \in Campaigns,
         SendLoads(a, c) \/ \E action \in DOMAIN From : ControlLoads(a, c, action)
  PROVE  Typed'
<1>1. CASE SendLoads(a, c)
  <2> DEFINE w == [Idle EXCEPT !.pc = "lock", !.c = c, !.ended = TRUE]
  <2>1. w \in Request /\ ReqOK(w)
    BY IdleOK DEF Request, ReqOK, Idle
  <2>2. Becomes(a, w)
    BY <1>1 DEF SendLoads, Becomes
  <2> HIDE DEF w
  <2> QED BY <1>1, <2>1, <2>2, RequestPut, RequestOnly, UpsetType DEF SendLoads
<1>2. ASSUME NEW action \in DOMAIN From, ControlLoads(a, c, action) PROVE Typed'
  <2>1. action \in {"launch", "pause", "resume", "cancel", "archive", "rebuild"}
    BY DEF From
  <2> DEFINE w == [Idle EXCEPT !.pc = Step(action), !.c = c, !.action = action,
                               !.locked = camp[c].lock # "none"]
  <2>2. w \in Request /\ ReqOK(w)
    <3>1. /\ Step(action) \in {"skip", "delete", "launch", "save"}
          /\ Step(action) \in {"skip", "save"} => action \in {"pause", "resume", "cancel", "archive"}
      BY <2>1 DEF Step
    <3> DEFINE pc == Step(action)
               locked == camp[c].lock # "none"
    <3>2. locked \in BOOLEAN
      OBVIOUS
    <3> HIDE DEF pc, locked
    <3>3. /\ pc \in {"skip", "delete", "launch", "save"}
          /\ pc \in {"skip", "save"} => action \in {"pause", "resume", "cancel", "archive"}
      BY <3>1 DEF pc
    <3>4. [Idle EXCEPT !.pc = pc, !.c = c, !.action = action, !.locked = locked] \in Request
      BY <3>2, <3>3, IdleOK DEF Request
    <3>5. ReqOK([Idle EXCEPT !.pc = pc, !.c = c, !.action = action, !.locked = locked])
      BY <3>2, <3>3, IdleOK DEF Request, ReqOK
    <3> QED BY <3>4, <3>5 DEF pc, locked
  <2>3. Becomes(a, w)
    BY <1>2 DEF ControlLoads, Becomes
  <2>4. upsets' \in Nat
    BY <1>2, UpsetType DEF ControlLoads
  <2> HIDE DEF w
  <2> QED BY <1>2, <2>2, <2>3, <2>4, RequestPut, RequestOnly DEF ControlLoads
<1> QED BY <1>1, <1>2

LEMMA NextBatchType ==
  ASSUME Typed, NEW a \in Requests, NextBatch(a)
  PROVE  /\ Typed'
         /\ Allowed \in Nat
         /\ \/ Goto(a, "finish")
            \/ /\ ~IsStopped(req[a].c) /\ Allowed # 0
               /\ req' = [req EXCEPT ![a].pc = "claim", ![a].left = Least(BatchSize, Allowed)]
<1>1. Allowed \in Nat
  BY Positive DEF Allowed, Typed, TypeOK
<1>2. UNCHANGED <<camp, rcpt, optOut, window, history>> /\ upsets' \in Nat
  BY UpsetType DEF NextBatch
<1>3. CASE Goto(a, "finish")
  <2>1. RequestsOK'
    BY <1>3, Going DEF NextBatch, At
  <2> QED BY <1>1, <1>2, <1>3, <2>1, RequestOnly
<1>4. CASE ~Goto(a, "finish")
  <2> DEFINE n == Least(BatchSize, Allowed)
             w == [req[a] EXCEPT !.pc = "claim", !.left = n]
  <2>0. req[a] \in Request /\ ReqOK(req[a])
    BY DEF Typed, RequestsOK
  <2>1. n \in Nat /\ n # 0
    BY <1>1, <1>4, Positive DEF NextBatch, Least
  <2>2. w \in Request /\ ReqOK(w)
    <3> HIDE DEF n
    <3>1. w \in Request
      BY <2>0, <2>1 DEF Request, Draining
    <3>2. ReqOK(w)
      BY <2>0, <2>1 DEF Request, ReqOK, NextBatch, At
    <3> QED BY <3>1, <3>2
  <2>3. req' = [req EXCEPT ![a].pc = "claim", ![a].left = n]
    BY <1>4 DEF NextBatch
  <2>4. Becomes(a, w)
    <3> HIDE DEF n
    <3> QED BY <2>3 DEF Becomes, Typed, RequestsOK
  <2>5. RequestsOK'
    <3> HIDE DEF w
    <3> QED BY <2>2, <2>4, RequestPut
  <2> QED BY <1>1, <1>2, <1>4, <2>3, <2>5, RequestOnly DEF NextBatch
<1> QED BY <1>3, <1>4

(* What a claim does, and to whom. *)
LEMMA ClaimEffect ==
  ASSUME Typed, NEW a \in Requests, Claim(a)
  PROVE  \E k \in Contacts :
           LET c == req[a].c IN
           /\ c \in Campaigns /\ Claimable(c, k)
           /\ rcpt' \in [Recipients -> Recipient]
           /\ rcpt'[<<c, k>>].status = "sending"
           /\ rcpt'[<<c, k>>].attempts = rcpt[<<c, k>>].attempts + 1
           /\ \A r \in Recipients : r # <<c, k>> => rcpt'[r] = rcpt[r]
           /\ req' = [req EXCEPT ![a].batch = @ \cup {Doc(c, k)}, ![a].left = @ - 1,
                                 ![a].pc = IF req[a].left = 1 THEN "send" ELSE "claim"]
           /\ late' = [late EXCEPT ![c] = IF camp[c].status \in Stopped THEN @ + 1 ELSE @]
<1>1. req[a] \in Request /\ ReqOK(req[a]) /\ req[a].pc = "claim"
  BY DEF Typed, RequestsOK, Claim, At
<1>2. req[a].c \in Campaigns
  BY <1>1 DEF ReqOK
<1> DEFINE c == req[a].c
<1>3. PICK k \in Contacts :
           /\ Claimable(c, k)
           /\ rcpt' = [rcpt EXCEPT ![<<c, k>>].status = "sending",
                                   ![<<c, k>>].attempts = @ + 1]
           /\ req' = [req EXCEPT ![a].batch = @ \cup {Doc(c, k)}, ![a].left = @ - 1,
                                 ![a].pc = IF req[a].left = 1 THEN "send" ELSE "claim"]
           /\ late' = [late EXCEPT ![c] = IF camp[c].status \in Stopped THEN @ + 1 ELSE @]
  BY DEF Claim
<1> DEFINE r == <<c, k>>
           w == [rcpt[r] EXCEPT !.status = "sending", !.attempts = @ + 1]
<1>4. r \in Recipients
  BY <1>2 DEF Recipients
<1>5. rcpt[r] \in Recipient
  BY <1>4 DEF Typed, TypeOK
<1> HIDE DEF c, r
<1>6. w \in Recipient /\ w.status = "sending" /\ w.attempts = rcpt[r].attempts + 1
  <2>1. rcpt[r].attempts + 1 \in Nat
    BY <1>5 DEF Recipient
  <2>2. w \in Recipient
    BY <1>5, <2>1 DEF Recipient, Settled
  <2> QED BY <1>5, <2>2 DEF Recipient
<1>7. rcpt' = [rcpt EXCEPT ![r] = w]
  <2>1. rcpt \in [Recipients -> Recipient]
    BY DEF Typed, TypeOK
  <2>2. rcpt' = [rcpt EXCEPT ![r].status = "sending", ![r].attempts = @ + 1]
    BY <1>3 DEF r
  <2> QED BY <1>4, <2>1, <2>2
<1>8. /\ rcpt' \in [Recipients -> Recipient] /\ rcpt'[r] = w
      /\ \A q \in Recipients : q # r => rcpt'[q] = rcpt[q]
  <2> HIDE DEF w
  <2> QED BY <1>4, <1>6, <1>7, RecipientPut
<1> QED BY <1>2, <1>3, <1>6, <1>8 DEF c, r

LEMMA ClaimType ==
  ASSUME Typed, NEW a \in Requests, Claim(a)
  PROVE  Typed'
<1> DEFINE c == req[a].c
<1>0. c \in Campaigns
  BY ClaimEffect
<1> HIDE DEF c
<1>1. PICK k \in Contacts :
           /\ Claimable(c, k)
           /\ rcpt' \in [Recipients -> Recipient]
           /\ rcpt'[<<c, k>>].status = "sending"
           /\ rcpt'[<<c, k>>].attempts = rcpt[<<c, k>>].attempts + 1
           /\ \A r \in Recipients : r # <<c, k>> => rcpt'[r] = rcpt[r]
           /\ req' = [req EXCEPT ![a].batch = @ \cup {Doc(c, k)}, ![a].left = @ - 1,
                                 ![a].pc = IF req[a].left = 1 THEN "send" ELSE "claim"]
           /\ late' = [late EXCEPT ![c] = IF camp[c].status \in Stopped THEN @ + 1 ELSE @]
  BY ClaimEffect DEF c
<1>2. req[a] \in Request /\ ReqOK(req[a]) /\ req[a].pc = "claim"
  BY DEF Typed, RequestsOK, Claim, At
<1>3. RequestsOK'
  <2> DEFINE n == req[a].left - 1
             pc == IF req[a].left = 1 THEN "send" ELSE "claim"
             d == Doc(c, k)
             w == [req[a] EXCEPT !.batch = @ \cup {d}, !.left = n, !.pc = pc]
  <2>1. n \in Nat /\ pc \in {"send", "claim"} /\ (pc = "claim" => n # 0)
    BY <1>2 DEF Request, ReqOK
  <2>2. d \in Docs
    BY <1>0, DocType
  <2>3. req' = [req EXCEPT ![a].batch = @ \cup {d}, ![a].left = n, ![a].pc = pc]
    BY <1>1
  <2> HIDE DEF n, pc, d
  <2>4. w \in Request
    BY <1>2, <2>1, <2>2 DEF Request, Draining
  <2>5. ReqOK(w)
    BY <1>2, <2>1, <2>2 DEF Request, ReqOK
  <2>6. Becomes(a, w)
    BY <2>3 DEF Becomes, Typed, RequestsOK
  <2> HIDE DEF w
  <2> QED BY <2>4, <2>5, <2>6, RequestPut
<1>4. /\ AttemptLeft'
      /\ \A r \in Recipients : rcpt'[r].attempts <= MaxAttempts
  <2>1. <<c, k>> \in Recipients
    BY <1>0 DEF Recipients
  <2>2. rcpt[<<c, k>>].attempts < MaxAttempts /\ rcpt[<<c, k>>].attempts \in Nat
    BY <1>1, <2>1 DEF Claimable, Typed, AttemptLeft, TypeOK, Recipient
  <2>3. AttemptLeft'
    BY <1>1, <2>1 DEF Typed, AttemptLeft
  <2>4. \A r \in Recipients : rcpt'[r].attempts <= MaxAttempts
    BY <1>1, <2>1, <2>2, Positive DEF Typed, TypeOK
  <2> QED BY <2>3, <2>4
<1>5. late' \in [Campaigns -> Nat]
  BY <1>0, <1>1 DEF Typed, TypeOK
<1>6. UNCHANGED <<camp, optOut, window, upsets, mails, unsure, reshaped, stranded, overlap>>
  BY DEF Claim
<1> QED BY <1>1, <1>3, <1>4, <1>5, <1>6, Rest DEF Typed, TypeOK

LEMMA ClaimsEndType ==
  ASSUME Typed, NEW a \in Requests, ClaimsEnd(a)
  PROVE  Typed'
<1> DEFINE pc == IF req[a].batch = {} THEN "finish" ELSE "send"
           w == [req[a] EXCEPT !.pc = pc, !.left = 0]
<1>0. req[a] \in Request /\ ReqOK(req[a]) /\ req[a].pc = "claim"
  BY DEF Typed, RequestsOK, ClaimsEnd, At
<1>1. pc \in {"finish", "send"}
  OBVIOUS
<1>2. req' = [req EXCEPT ![a].pc = pc, ![a].left = 0]
  BY DEF ClaimsEnd
<1> HIDE DEF pc
<1>3. w \in Request /\ ReqOK(w)
  <2>1. w \in Request
    BY <1>0, <1>1 DEF Request, Draining
  <2>2. ReqOK(w)
    BY <1>0, <1>1 DEF Request, ReqOK
  <2> QED BY <2>1, <2>2
<1>4. Becomes(a, w)
  BY <1>2 DEF Becomes, Typed, RequestsOK
<1> HIDE DEF w
<1> QED BY <1>3, <1>4, RequestPut, RequestOnly, UpsetType DEF ClaimsEnd

(* The status of one recipient is saved, and no waiting one. *)
LEMMA StatusPut ==
  ASSUME Typed, NEW r \in Recipients, NEW s \in Settled, rcpt' = [rcpt EXCEPT ![r].status = s]
  PROVE  /\ rcpt' \in [Recipients -> Recipient] /\ rcpt'[r].status = s
         /\ \A q \in Recipients : q # r => rcpt'[q] = rcpt[q]
         /\ AttemptLeft' /\ \A q \in Recipients : rcpt'[q].attempts <= MaxAttempts
<1> DEFINE w == [rcpt[r] EXCEPT !.status = s]
<1>0. rcpt[r] \in Recipient
  BY DEF Typed, TypeOK
<1>1. w \in Recipient
  BY <1>0 DEF Recipient
<1>2. w.status = s /\ w.attempts = rcpt[r].attempts
  BY <1>0 DEF Recipient
<1>3. rcpt' = [rcpt EXCEPT ![r] = w]
  OBVIOUS
<1> HIDE DEF w
<1>4. /\ rcpt' \in [Recipients -> Recipient] /\ rcpt'[r] = w
      /\ \A q \in Recipients : q # r => rcpt'[q] = rcpt[q]
  BY <1>1, <1>3, RecipientPut
<1>5. s # "queued"
  BY DEF Settled
<1> QED BY <1>2, <1>4, <1>5 DEF Typed, TypeOK, AttemptLeft

LEMMA RetryKeeps ==
  ASSUME Typed, NEW r \in Recipients, Retry(r)
  PROVE  AttemptLeft' /\ \A q \in Recipients : rcpt'[q].attempts <= MaxAttempts
BY RetryType DEF Typed, TypeOK, AttemptLeft

(* A document in the hands of a request is that of a recipient of its campaign. *)
LEMMA InHand ==
  ASSUME Typed, NEW a \in Requests, req[a].pc # "idle", NEW d,
         d \in req[a].batch \/ (req[a].pc = "record" /\ d = req[a].cur)
  PROVE  d \in Docs /\ Of(a, d) \in Recipients /\ req[a].c \in Campaigns
<1>1. req[a] \in Request /\ ReqOK(req[a])
  BY DEF Typed, RequestsOK
<1>2. d \in Docs
  BY <1>1 DEF Request, ReqOK
<1> QED BY <1>1, <1>2, OfType DEF ReqOK

LEMMA SkipOneType ==
  ASSUME Typed, NEW a \in Requests, NEW d \in req[a].batch, SkipOne(a, d)
  PROVE  Typed'
<1>1. Of(a, d) \in Recipients /\ req[a].pc = "send"
  BY InHand DEF SkipOne, At
<1>2. RequestsOK'
  BY <1>1, WithoutType DEF SkipOne
<1>3. "skipped" \in Settled
  BY DEF Settled
<1> QED BY <1>1, <1>2, <1>3, StatusPut, Rest DEF SkipOne, Typed, TypeOK, history

LEMMA RefusedType ==
  ASSUME Typed, NEW a \in Requests, NEW d \in req[a].batch, Refused(a, d)
  PROVE  Typed'
<1>1. Of(a, d) \in Recipients /\ req[a].pc = "send"
  BY InHand DEF Refused, At
<1>2. RequestsOK' /\ upsets' \in Nat
  BY <1>1, WithoutType, UpsetType DEF Refused
<1>3. "bounced" \in Settled
  BY DEF Settled
<1>4. /\ rcpt' \in [Recipients -> Recipient] /\ AttemptLeft'
      /\ \A q \in Recipients : rcpt'[q].attempts <= MaxAttempts
  BY <1>1, <1>3, StatusPut, RetryType, RetryKeeps DEF Refused
<1> QED BY <1>2, <1>4, Rest DEF Refused, Typed, TypeOK, history

LEMMA TimedOutType ==
  ASSUME Typed, NEW a \in Requests, NEW d \in req[a].batch, TimedOut(a, d)
  PROVE  Typed'
<1>1. Of(a, d) \in Recipients /\ req[a].pc = "send"
  BY InHand DEF TimedOut, At
<1>2. RequestsOK' /\ upsets' \in Nat
  BY <1>1, WithoutType, UpsetType DEF TimedOut
<1>4. /\ rcpt' \in [Recipients -> Recipient] /\ AttemptLeft'
      /\ \A q \in Recipients : rcpt'[q].attempts <= MaxAttempts
  BY <1>1, RetryType, RetryKeeps DEF TimedOut
<1>5. mails' \in [Recipients -> Nat] /\ unsure' \subseteq Recipients
  BY <1>1 DEF TimedOut, Typed, TypeOK
<1>6. window' \in [out : Nat, events : Nat, lost : Nat]
  <2>1. window \in [out : Nat, events : Nat, lost : Nat]
    BY DEF Typed, TypeOK
  <2> DEFINE m == window.out + 1
             n == window.lost + 1
  <2>2. window' = [window EXCEPT !.out = m, !.lost = n]
    BY DEF TimedOut
  <2>3. m \in Nat /\ n \in Nat
    BY <2>1
  <2> HIDE DEF m, n
  <2> QED BY <2>1, <2>2, <2>3
<1> QED BY <1>2, <1>4, <1>5, <1>6, Rest DEF TimedOut, Typed, TypeOK

LEMMA AcceptedType ==
  ASSUME Typed, NEW a \in Requests, NEW d \in req[a].batch, Accepted(a, d)
  PROVE  Typed'
<1>1. Of(a, d) \in Recipients /\ req[a].pc = "send" /\ d \in Docs
  BY InHand DEF Accepted, At
<1>2. RequestsOK'
  <2> DEFINE w == [req[a] EXCEPT !.pc = "record", !.cur = d, !.batch = @ \ {d}]
  <2>0. req[a] \in Request /\ ReqOK(req[a])
    BY DEF Typed, RequestsOK
  <2>1. w \in Request
    BY <1>1, <2>0 DEF Request, Draining
  <2>2. ReqOK(w)
    BY <1>1, <2>0 DEF Request, ReqOK
  <2>3. Becomes(a, w)
    BY DEF Accepted, Becomes, Typed, RequestsOK
  <2> HIDE DEF w
  <2> QED BY <2>1, <2>2, <2>3, RequestPut
<1>3. mails' \in [Recipients -> Nat]
  BY <1>1 DEF Accepted, Typed, TypeOK
<1>4. window' \in [out : Nat, events : Nat, lost : Nat]
  BY DEF Accepted, Typed, TypeOK
<1> QED BY <1>2, <1>3, <1>4, SameRecipients, Rest DEF Accepted, Typed, TypeOK

LEMMA RecordType ==
  ASSUME Typed, NEW a \in Requests, Record(a) \/ RecordFails(a)
  PROVE  Typed'
<1>1. Of(a, req[a].cur) \in Recipients /\ req[a].pc = "record"
  BY InHand DEF Record, RecordFails, At
<1>2. RequestsOK'
  BY <1>1, WithoutType DEF Record, RecordFails
<1>3. "sent" \in Settled /\ "failed" \in Settled
  BY DEF Settled
<1>4. /\ rcpt' \in [Recipients -> Recipient] /\ AttemptLeft'
      /\ \A q \in Recipients : rcpt'[q].attempts <= MaxAttempts
  BY <1>1, <1>3, StatusPut DEF Record, RecordFails, CatchUnknown
<1>5. window' \in [out : Nat, events : Nat, lost : Nat]
  <2>1. window \in [out : Nat, events : Nat, lost : Nat]
    BY DEF Typed, TypeOK
  <2>2. \/ window' = [window EXCEPT !.events = @ + 1]
        \/ window' = [window EXCEPT !.lost = @ + 1]
    BY DEF Record, RecordFails
  <2> QED BY <2>1, <2>2
<1>6. upsets' \in Nat
  BY UpsetType DEF Record, RecordFails
<1> QED BY <1>2, <1>4, <1>5, <1>6, Rest DEF Record, RecordFails, Typed, TypeOK, history

LEMMA RefreshType ==
  ASSUME Typed, NEW a \in Requests, Refresh(a)
  PROVE  Typed'
<1>1. PICK pc \in {"batch", "finish"} : Goto(a, pc)
  BY DEF Refresh
<1>2. req[a].pc = "send" /\ req[a].batch = {}
  BY DEF Refresh, At
<1>3. RequestsOK'
  BY <1>1, <1>2, Going
<1>4. camp' \in [Campaigns -> Campaign]
  <2>0. camp \in [Campaigns -> Campaign] /\ req[a].c \in Campaigns
    BY <1>2 DEF Typed, TypeOK, RequestsOK, ReqOK
  <2> QED BY <2>0 DEF Refresh, Campaign
<1> QED BY <1>3, <1>4, SameRecipients, Rest DEF Refresh, Typed, TypeOK, history

LEMMA FinishReadsType ==
  ASSUME Typed, NEW a \in Requests, FinishReads(a)
  PROVE  Typed'
<1> DEFINE c == req[a].c
           ended == camp[c].status = "completed"
           locked == camp[c].lock # "none"
           done == camp[c].status = "running" /\ NobodyQueued(c)
           w == [req[a] EXCEPT !.pc = "write", !.ended = ended, !.locked = locked, !.done = done]
<1>0. req[a] \in Request /\ ReqOK(req[a]) /\ req[a].pc = "finish"
  BY DEF Typed, RequestsOK, FinishReads, At
<1>1. ended \in BOOLEAN /\ locked \in BOOLEAN /\ done \in BOOLEAN
  BY DEF NobodyQueued
<1>2. req' = [req EXCEPT ![a].pc = "write", ![a].ended = ended, ![a].locked = locked,
                         ![a].done = done]
  BY DEF FinishReads
<1> HIDE DEF ended, locked, done
<1>3. w \in Request
  BY <1>0, <1>1 DEF Request, Draining
<1>4. ReqOK(w)
  BY <1>0, <1>1 DEF Request, ReqOK
<1>5. Becomes(a, w)
  BY <1>2 DEF Becomes, Typed, RequestsOK
<1>6. UNCHANGED <<camp, rcpt, optOut, window, history>> /\ upsets' \in Nat
  BY UpsetType DEF FinishReads
<1> HIDE DEF w
<1> QED BY <1>3, <1>4, <1>5, <1>6, RequestPut, RequestOnly

LEMMA FinishWritesType ==
  ASSUME Typed, NEW a \in Requests, FinishWrites(a)
  PROVE  Typed'
<1>0. req[a] \in Request /\ ReqOK(req[a]) /\ req[a].pc = "write"
  BY DEF Typed, RequestsOK, FinishWrites, At
<1> DEFINE c == req[a].c
<1>1. c \in Campaigns
  BY <1>0 DEF ReqOK
<1>2. camp' \in [Campaigns -> Campaign]
  <2>1. camp[c] \in Campaign
    BY <1>1 DEF Typed, TypeOK
  <2> DEFINE st == IF req[a].done THEN "completed" ELSE camp[c].status
             l == Unlock(a, camp[c].lock)
             v == [camp[c] EXCEPT !.status = st, !.lock = l]
  <2>2. camp' = [camp EXCEPT ![c].status = st, ![c].lock = l]
    BY DEF FinishWrites
  <2>3. st \in {"completed", camp[c].status} /\ l \in {"none", camp[c].lock}
    BY DEF Unlock
  <2> HIDE DEF c, st, l
  <2>4. v \in Campaign
    BY <2>1, <2>3 DEF Campaign
  <2>5. camp' = [camp EXCEPT ![c] = v]
    BY <2>2 DEF Typed, TypeOK
  <2> HIDE DEF v
  <2> QED BY <1>1, <2>4, <2>5, CampaignPut
<1>3. RequestsOK'
  <2>1. CASE req' = [req EXCEPT ![a] = Idle]
    BY <2>1, Ends
  <2>2. CASE req' = [req EXCEPT ![a] = [req[a] EXCEPT !.pc = "follow"]]
    <3> DEFINE w == [req[a] EXCEPT !.pc = "follow"]
    <3>1. w \in Request
      BY <1>0 DEF Request, Draining
    <3>2. ReqOK(w)
      BY <1>0 DEF Request, ReqOK
    <3> HIDE DEF w
    <3> QED BY <2>2, <3>1, <3>2, RequestPut DEF Becomes, w
  <2> QED BY <2>1, <2>2 DEF FinishWrites
<1> QED BY <1>2, <1>3, SameRecipients, Rest DEF FinishWrites, Typed, TypeOK, history

LEMMA FollowCreatesType ==
  ASSUME Typed, NEW a \in Requests, FollowCreates(a)
  PROVE  Typed'
<1>0. req[a] \in Request /\ ReqOK(req[a]) /\ req[a].pc = "follow"
  BY DEF Typed, RequestsOK, FollowCreates, At
<1> DEFINE c == req[a].c
<1>1. c \in Campaigns
  BY <1>0 DEF ReqOK
<1>2. CASE req' = [req EXCEPT ![a] = Idle] /\ UNCHANGED camp
  BY <1>2, Ends, RequestOnly, UpsetType DEF FollowCreates
<1>3. ASSUME NEW f \in Campaigns,
             camp' = [camp EXCEPT ![f] = [NoCampaign EXCEPT !.status = "scheduled",
                                            !.step = camp[c].step + 1, !.parent = c]],
             req' = [req EXCEPT ![a].pc = "insert", ![a].next = f, ![a].batch = Eligible(c) \X {0}]
      PROVE  Typed'
  <2> DEFINE n == camp[c].step + 1
             v == [NoCampaign EXCEPT !.status = "scheduled", !.step = n, !.parent = c]
             B == Eligible(c) \X {0}
             w == [req[a] EXCEPT !.pc = "insert", !.next = f, !.batch = B]
  <2>1. n \in Nat
    BY <1>1 DEF Typed, TypeOK, Campaign
  <2>2. B \in SUBSET Docs
    BY DEF Eligible, Docs
  <2>3. /\ camp' = [camp EXCEPT ![f] = v]
        /\ req' = [req EXCEPT ![a].pc = "insert", ![a].next = f, ![a].batch = B]
    BY <1>3
  <2> HIDE DEF n, B, c
  <2>4. v \in Campaign
    BY <1>1, <2>1 DEF Campaign, NoCampaign, Active
  <2>5. camp' \in [Campaigns -> Campaign]
    <3> HIDE DEF v
    <3> QED BY <2>3, <2>4, CampaignPut
  <2>6. w \in Request
    BY <1>0, <2>2 DEF Request, Draining
  <2>7. ReqOK(w)
    BY <1>0 DEF Request, ReqOK
  <2>8. Becomes(a, w)
    BY <2>3 DEF Becomes, Typed, RequestsOK
  <2>9. RequestsOK'
    <3> HIDE DEF w
    <3> QED BY <2>6, <2>7, <2>8, RequestPut
  <2> QED BY <2>5, <2>9, SameRecipients, Rest DEF FollowCreates, Typed, TypeOK, history
<1> QED BY <1>2, <1>3 DEF FollowCreates

(* Recipients are put on a list anew. *)
LEMMA QueuedType == Queued \in Recipient /\ NoRecipient \in Recipient
BY DEF Queued, NoRecipient, Recipient

LEMMA Relisted ==
  ASSUME Typed, NEW S, rcpt' = [r \in Recipients |-> IF r \in S THEN Queued ELSE rcpt[r]]
  PROVE  /\ rcpt' \in [Recipients -> Recipient] /\ AttemptLeft'
         /\ \A r \in Recipients : rcpt'[r].attempts <= MaxAttempts
<1>1. rcpt' \in [Recipients -> Recipient]
  BY QueuedType DEF Typed, TypeOK
<1>2. \A r \in Recipients : rcpt'[r].attempts = 0 \/ rcpt'[r] = rcpt[r]
  BY DEF Queued
<1> QED BY <1>1, <1>2, Positive DEF Typed, TypeOK, AttemptLeft

LEMMA FollowInsertsType ==
  ASSUME Typed, NEW a \in Requests, FollowInserts(a)
  PROVE  Typed'
<1> DEFINE S == {r \in Recipients : r[1] = req[a].next /\ <<r[2], 0>> \in req[a].batch}
<1>1. rcpt' = [r \in Recipients |-> IF r \in S THEN Queued ELSE rcpt[r]]
  BY DEF FollowInserts
<1>2. RequestsOK'
  BY Ends DEF FollowInserts
<1>3. reshaped' \subseteq Campaigns
  <2>1. req[a].next \in Campaigns
    BY DEF Typed, RequestsOK, ReqOK, FollowInserts, At
  <2> QED BY <2>1 DEF FollowInserts, Typed, TypeOK
<1> HIDE DEF S
<1> QED BY <1>1, <1>2, <1>3, Relisted, Rest DEF FollowInserts, Typed, TypeOK

LEMMA HeldType ==
  ASSUME Typed, NEW a \in Requests, req[a].pc \in Draining
  PROVE  Held(a) \subseteq Recipients
<1>1. req[a] \in Request /\ req[a].c \in Campaigns
  BY DEF Typed, RequestsOK, ReqOK, Draining
<1> QED BY <1>1 DEF Held, Recipients, Request, Docs

LEMMA ThrowsType ==
  ASSUME Typed, NEW a \in Requests, Throws(a)
  PROVE  Typed'
<1>1. RequestsOK'
  BY Ends DEF Throws
<1>2. stranded' \subseteq Recipients
  BY HeldType DEF Throws, Typed, TypeOK
<1>3. camp' \in [Campaigns -> Campaign]
  <2>1. camp \in [Campaigns -> Campaign]
    BY DEF Typed, TypeOK
  <2>2. camp' = [camp EXCEPT ![req[a].c].lock = "none"]
    BY DEF Throws
  <2>3. req[a].c \in Campaigns
    BY DEF Typed, RequestsOK, ReqOK, Throws, Draining
  <2> QED BY <2>1, <2>2, <2>3 DEF Campaign
<1>4. window' \in [out : Nat, events : Nat, lost : Nat]
  <2>1. window \in [out : Nat, events : Nat, lost : Nat]
    BY DEF Typed, TypeOK
  <2>2. window' = [window EXCEPT !.lost = IF At(a, "record") THEN @ + 1 ELSE @]
    BY DEF Throws
  <2> QED BY <2>1, <2>2
<1>5. upsets' \in Nat
  BY UpsetType DEF Throws
<1> QED BY <1>1, <1>2, <1>3, <1>4, <1>5, SameRecipients, Rest DEF Throws, Typed, TypeOK

LEMMA LaunchType ==
  ASSUME Typed, NEW a \in Requests, Launch(a)
  PROVE  Typed'
<1>1. RequestsOK'
  BY Ends DEF Launch
<1>2. camp' \in [Campaigns -> Campaign]
  <2>0. PICK s \in {"running", "scheduled"} : camp' = [camp EXCEPT ![req[a].c].status = s]
    BY DEF Launch
  <2>1. camp \in [Campaigns -> Campaign] /\ req[a].c \in Campaigns
    BY DEF Typed, TypeOK, RequestsOK, ReqOK, Launch, At
  <2>2. s \in {"absent", "draft", "completed", "cancelled", "archived"} \cup Active
    BY DEF Active
  <2> QED BY <2>0, <2>1, <2>2 DEF Campaign
<1> QED BY <1>1, <1>2, SameRecipients, Rest DEF Launch, Typed, TypeOK, history

LEMMA CancelSkipsType ==
  ASSUME Typed, NEW a \in Requests, CancelSkips(a)
  PROVE  Typed'
<1>1. RequestsOK'
  BY Going DEF CancelSkips, At
<1>2. \A r \in Recipients :
        \/ rcpt'[r] = rcpt[r]
        \/ rcpt'[r] = [rcpt[r] EXCEPT !.status = "skipped"]
  BY DEF CancelSkips
<1>3. \A r \in Recipients :
        /\ rcpt'[r] \in Recipient
        /\ rcpt'[r].attempts = rcpt[r].attempts
        /\ rcpt'[r].status \in {rcpt[r].status, "skipped"}
  <2> TAKE r \in Recipients
  <2>1. rcpt[r] \in Recipient
    BY DEF Typed, TypeOK
  <2>2. [rcpt[r] EXCEPT !.status = "skipped"] \in Recipient
    BY <2>1 DEF Recipient, Settled
  <2> QED BY <1>2, <2>1, <2>2 DEF Recipient
<1>4. rcpt' \in [Recipients -> Recipient]
  BY <1>3 DEF CancelSkips
<1>5. AttemptLeft' /\ \A r \in Recipients : rcpt'[r].attempts <= MaxAttempts
  BY <1>3 DEF Typed, TypeOK, AttemptLeft
<1> QED BY <1>1, <1>4, <1>5, Rest DEF CancelSkips, Typed, TypeOK, history

(* What a control request saves. *)
LEMMA SavedStatus ==
  ASSUME Typed, NEW a \in Requests, ControlSaves(a)
  PROVE  Target[req[a].action] \in {"paused", "running", "cancelled", "archived"}
<1>1. req[a].action \in {"pause", "resume", "cancel", "archive"}
  BY DEF Typed, RequestsOK, ReqOK, ControlSaves, At
<1> QED BY <1>1 DEF Target

LEMMA ControlSavesType ==
  ASSUME Typed, NEW a \in Requests, ControlSaves(a)
  PROVE  Typed'
<1>1. RequestsOK'
  BY Ends DEF ControlSaves
<1> DEFINE c == req[a].c
<1>2. c \in Campaigns
  BY DEF Typed, RequestsOK, ReqOK, ControlSaves, At
<1>3. camp' \in [Campaigns -> Campaign]
  <2>1. camp[c] \in Campaign
    BY <1>2 DEF Typed, TypeOK
  <2> DEFINE st == Target[req[a].action]
             l == Unlock(a, camp[c].lock)
             v == [camp[c] EXCEPT !.status = st, !.lock = l]
  <2>2. camp' = [camp EXCEPT ![c].status = st, ![c].lock = l]
    BY DEF ControlSaves
  <2>3. st \in {"paused", "running", "cancelled", "archived"} /\ l \in {"none", camp[c].lock}
    BY SavedStatus DEF Unlock
  <2> HIDE DEF c, st, l
  <2>4. v \in Campaign
    BY <2>1, <2>3 DEF Campaign, Active
  <2>5. camp' = [camp EXCEPT ![c] = v]
    BY <2>2 DEF Typed, TypeOK
  <2> HIDE DEF v
  <2> QED BY <1>2, <2>4, <2>5, CampaignPut
<1>4. late' \in [Campaigns -> Nat]
  BY <1>2 DEF ControlSaves, Typed, TypeOK
<1> QED BY <1>1, <1>3, <1>4, SameRecipients, Rest DEF ControlSaves, Typed, TypeOK

LEMMA RebuildType ==
  ASSUME Typed, NEW a \in Requests, RebuildDeletes(a) \/ RebuildInserts(a)
  PROVE  Typed'
<1> DEFINE c == req[a].c
<1>1. c \in Campaigns
  BY DEF Typed, RequestsOK, ReqOK, RebuildDeletes, RebuildInserts, At
<1>2. reshaped' \subseteq Campaigns
  BY <1>1 DEF RebuildDeletes, RebuildInserts, Typed, TypeOK
<1>3. CASE RebuildDeletes(a)
  <2>1. RequestsOK'
    BY <1>3, Going DEF RebuildDeletes, At
  <2>2. rcpt' \in [Recipients -> Recipient]
    BY <1>3, QueuedType DEF RebuildDeletes, Typed, TypeOK
  <2>3. \A r \in Recipients : rcpt'[r] = rcpt[r] \/ rcpt'[r] = NoRecipient
    BY <1>3 DEF RebuildDeletes
  <2>4. AttemptLeft' /\ \A r \in Recipients : rcpt'[r].attempts <= MaxAttempts
    BY <2>3, Positive DEF Typed, TypeOK, AttemptLeft, NoRecipient
  <2>5. camp' \in [Campaigns -> Campaign]
    <3>1. camp \in [Campaigns -> Campaign]
      BY DEF Typed, TypeOK
    <3>2. camp' = [camp EXCEPT ![c].list = @ + 1]
      BY <1>3 DEF RebuildDeletes
    <3> QED BY <1>1, <3>1, <3>2 DEF Campaign
  <2> QED BY <1>2, <1>3, <2>1, <2>2, <2>4, <2>5, Rest DEF RebuildDeletes, Typed, TypeOK
<1>4. CASE RebuildInserts(a)
  <2> DEFINE S == {r \in Recipients : r[1] = c /\ rcpt[r].status = "absent" /\ r[2] \notin optOut}
  <2>1. rcpt' = [r \in Recipients |-> IF r \in S THEN Queued ELSE rcpt[r]]
    BY <1>4 DEF RebuildInserts
  <2>2. RequestsOK'
    BY <1>4, Ends DEF RebuildInserts
  <2> HIDE DEF S
  <2> QED BY <1>2, <1>4, <2>1, <2>2, Relisted, Rest DEF RebuildInserts, Typed, TypeOK
<1> QED BY <1>3, <1>4

LEMMA WorldType ==
  ASSUME Typed, WorldStep
  PROVE  Typed'
<1>same. req' = req => RequestsOK'
  BY DEF Typed, RequestsOK
<1>1. ASSUME NEW k \in Contacts, OptOut(k) PROVE Typed'
  <2>1. upsets' \in Nat /\ optOut' \subseteq Contacts
    BY <1>1, UpsetType DEF OptOut, Typed, TypeOK
  <2> QED BY <1>1, <1>same, <2>1, SameRecipients, Rest DEF OptOut, Typed, TypeOK, history
<1>2. ASSUME NEW r \in Recipients, RetryComes(r) PROVE Typed'
  <2> DEFINE w == [rcpt[r] EXCEPT !.wait = FALSE]
  <2>0. rcpt[r] \in Recipient
    BY DEF Typed, TypeOK
  <2>1. w \in Recipient
    BY <2>0 DEF Recipient
  <2>2. w.status = rcpt[r].status /\ w.attempts = rcpt[r].attempts
    BY <2>0 DEF Recipient
  <2>3. rcpt' = [rcpt EXCEPT ![r] = w]
    BY <1>2 DEF RetryComes
  <2> HIDE DEF w
  <2>4. /\ rcpt' \in [Recipients -> Recipient] /\ rcpt'[r] = w
        /\ \A q \in Recipients : q # r => rcpt'[q] = rcpt[q]
    BY <2>1, <2>3, RecipientPut
  <2>5. AttemptLeft' /\ \A q \in Recipients : rcpt'[q].attempts <= MaxAttempts
    BY <2>2, <2>4 DEF Typed, TypeOK, AttemptLeft
  <2> QED BY <1>2, <1>same, <2>4, <2>5, Rest DEF RetryComes, Typed, TypeOK, history
<1>3. CASE WindowPasses
  BY <1>3, <1>same, SameRecipients, Rest DEF WindowPasses, Typed, TypeOK, history
<1>4. ASSUME NEW c \in Campaigns, LockExpires(c) PROVE Typed'
  <2>1. camp' \in [Campaigns -> Campaign]
    <3>1. camp \in [Campaigns -> Campaign]
      BY DEF Typed, TypeOK
    <3>2. camp' = [camp EXCEPT ![c].lock = "stale"]
      BY <1>4 DEF LockExpires
    <3> QED BY <3>1, <3>2 DEF Campaign
  <2> QED BY <1>4, <1>same, <2>1, SameRecipients, Rest DEF LockExpires, Typed, TypeOK, history
<1>5. CASE Crash
  <2>1. RequestsOK'
    BY <1>5, IdleOK DEF Crash, RequestsOK
  <2>2. stranded' \subseteq Recipients
    BY <1>5, HeldType DEF Crash, Typed, TypeOK
  <2> DEFINE n == window.lost + Cardinality({a \in Requests : At(a, "record")})
  <2>3. n \in Nat
    <3>1. IsFiniteSet({a \in Requests : At(a, "record")})
      BY CampaignAssumption, FS_Subset DEF CampaignAssumption
    <3> QED BY <3>1, FS_CardinalityType DEF Typed, TypeOK
  <2>4. window' = [window EXCEPT !.lost = n]
    BY <1>5 DEF Crash
  <2>5. window' \in [out : Nat, events : Nat, lost : Nat]
    <3>1. window \in [out : Nat, events : Nat, lost : Nat]
      BY DEF Typed, TypeOK
    <3> HIDE DEF n
    <3> QED BY <2>3, <2>4, <3>1
  <2>6. upsets' \in Nat
    BY <1>5, UpsetType DEF Crash
  <2> QED BY <1>5, <2>1, <2>2, <2>5, <2>6, SameRecipients, Rest DEF Crash, Typed, TypeOK
<1> QED BY <1>1, <1>2, <1>3, <1>4, <1>5 DEF WorldStep

LEMMA TypeStep == ASSUME Typed, [Next]_vars PROVE Typed'
<1>1. ASSUME NEW a \in Requests, NEW c \in Campaigns,
             \/ Send(a, c) \/ SendLoads(a, c)
             \/ \E action \in DOMAIN From : ControlLoads(a, c, action)
      PROVE  Typed'
  BY <1>1, SendType, LoadsType
<1>2. ASSUME NEW a \in Requests, DrainStep(a) PROVE Typed'
  <2>1. CASE Lock(a)
    <3>1. req[a].c \in Campaigns
      BY <2>1 DEF Lock, At, Typed, RequestsOK, ReqOK
    <3> QED BY <2>1, <3>1, SendType
  <2>2. CASE SendStep(a)
    BY <2>2, SkipOneType, AcceptedType, RefusedType, TimedOutType, RecordType DEF SendStep
  <2> QED BY <1>2, <2>1, <2>2, NextBatchType, ClaimType, ClaimsEndType, RefreshType, FinishReadsType,
             FinishWritesType, FollowCreatesType, FollowInsertsType, ThrowsType DEF DrainStep
<1>3. ASSUME NEW a \in Requests, ControlStep(a) PROVE Typed'
  BY <1>3, LaunchType, CancelSkipsType, ControlSavesType, RebuildType DEF ControlStep
<1>4. CASE UNCHANGED vars
  BY <1>4 DEF Typed, TypeOK, RequestsOK, AttemptLeft, vars, history
<1> QED BY <1>1, <1>2, <1>3, <1>4, WorldType DEF Next

(* Every variable stays in range, a request has what its next call needs, and nobody is
   tried more than MAX_SEND_ATTEMPTS times. *)
THEOREM CampaignTypes == Spec => []Typed
<1>1. Init => Typed
  <2> SUFFICES ASSUME Init PROVE Typed
    OBVIOUS
  <2>1. RequestsOK
    BY IdleOK DEF Init, RequestsOK
  <2>2. AttemptLeft /\ \A r \in Recipients : rcpt[r].attempts <= MaxAttempts
    BY Positive DEF Init, AttemptLeft, Queued, NoRecipient
  <2>3. rcpt \in [Recipients -> Recipient]
    BY QueuedType DEF Init
  <2>4. camp \in [Campaigns -> Campaign]
    <3>1. NoCampaign \in Campaign /\ [NoCampaign EXCEPT !.status = "draft"] \in Campaign
      BY DEF NoCampaign, Campaign
    <3> QED BY <3>1 DEF Init
  <2> QED BY <2>1, <2>2, <2>3, <2>4 DEF Init, Typed, TypeOK, RequestsOK
<1> QED BY <1>1, TypeStep, PTL DEF Spec

-------------------------------------------------------------------------------
(* What each step does to the recipients in the hands of a request.          *)

(* The documents a request has claimed and not settled. *)
Hands(a) ==
  IF req[a].pc \in {"claim", "send"} THEN req[a].batch
  ELSE IF req[a].pc = "record" THEN req[a].batch \cup {req[a].cur} ELSE {}

Acts(a) ==
  \/ \E c \in Campaigns : Send(a, c) \/ SendLoads(a, c)
  \/ \E c \in Campaigns, action \in DOMAIN From : ControlLoads(a, c, action)
  \/ DrainStep(a) \/ ControlStep(a)

(* A step of one request changes no other. *)
LEMMA OneActs ==
  ASSUME Typed, NEW a \in Requests, Acts(a), NEW b \in Requests, b # a
  PROVE  req'[b] = req[b]
<1>0. req \in [Requests -> Request]
  BY DEF Typed, TypeOK
<1> USE DEF Goto, Without
<1>1. CASE \E c \in Campaigns : Send(a, c) \/ SendLoads(a, c) \/ \E action \in DOMAIN From : ControlLoads(a, c, action)
  BY <1>0, <1>1 DEF Send, SendLoads, ControlLoads, TakeLock
<1>2. CASE Lock(a) \/ NextBatch(a) \/ Claim(a) \/ ClaimsEnd(a) \/ Refresh(a)
  BY <1>0, <1>2 DEF Lock, NextBatch, Claim, ClaimsEnd, Refresh, TakeLock
<1>3. CASE SendStep(a)
  BY <1>0, <1>3 DEF SendStep, SkipOne, Accepted, Refused, TimedOut, Record, RecordFails
<1>4. CASE FinishReads(a) \/ FinishWrites(a) \/ FollowCreates(a) \/ FollowInserts(a) \/ Throws(a)
  BY <1>0, <1>4 DEF FinishReads, FinishWrites, FollowCreates, FollowInserts, Throws
<1>5. CASE ControlStep(a)
  BY <1>0, <1>5 DEF ControlStep, Launch, CancelSkips, ControlSaves, RebuildDeletes, RebuildInserts
<1> QED BY <1>1, <1>2, <1>3, <1>4, <1>5 DEF Acts, DrainStep

(* A claim: one more in hand. *)
LEMMA ClaimHands ==
  ASSUME Typed, NEW a \in Requests, Claim(a), NEW k,
         req' = [req EXCEPT ![a].batch = @ \cup {Doc(req[a].c, k)}, ![a].left = @ - 1,
                            ![a].pc = IF req[a].left = 1 THEN "send" ELSE "claim"]
  PROVE  Hands(a)' = Hands(a) \cup {Doc(req[a].c, k)} /\ req'[a].c = req[a].c
<1>0. req \in [Requests -> Request] /\ req[a].pc = "claim"
  BY DEF Typed, TypeOK, Claim, At
<1> DEFINE d == Doc(req[a].c, k)
           n == req[a].left - 1
           pc == IF req[a].left = 1 THEN "send" ELSE "claim"
<1>1. req' = [req EXCEPT ![a].batch = @ \cup {d}, ![a].left = n, ![a].pc = pc] /\ pc \in {"send", "claim"}
  OBVIOUS
<1> HIDE DEF d, n, pc
<1>2. req'[a].batch = req[a].batch \cup {d} /\ req'[a].pc \in {"send", "claim"} /\ req'[a].c = req[a].c
  BY <1>0, <1>1 DEF Request
<1> QED BY <1>0, <1>2 DEF Hands, d

(* A recipient is settled or put back: one less in hand. *)
LEMMA WithoutHands ==
  ASSUME Typed, NEW a \in Requests, NEW d, req' = Without(a, d),
         \/ req[a].pc = "send"
         \/ req[a].pc = "record" /\ d = req[a].cur /\ d \notin req[a].batch
  PROVE  Hands(a)' = Hands(a) \ {d} /\ req'[a].c = req[a].c
<1>0. req \in [Requests -> Request]
  BY DEF Typed, TypeOK
<1>1. req'[a].batch = req[a].batch \ {d} /\ req'[a].pc = "send" /\ req'[a].c = req[a].c
  BY <1>0 DEF Without, Request
<1> QED BY <1>0, <1>1 DEF Hands

(* The message went out: still in hand. *)
LEMMA AcceptedHands ==
  ASSUME Typed, NEW a \in Requests, NEW d \in req[a].batch, Accepted(a, d)
  PROVE  /\ Hands(a)' = Hands(a) /\ req'[a].c = req[a].c
         /\ req'[a].batch = req[a].batch \ {d} /\ req'[a].cur = d /\ req'[a].pc = "record"
         /\ req[a].pc = "send"
<1>0. req \in [Requests -> Request] /\ req[a].pc = "send"
  BY DEF Typed, TypeOK, Accepted, At
<1>1. req'[a].batch = req[a].batch \ {d} /\ req'[a].pc = "record" /\ req'[a].c = req[a].c /\ req'[a].cur = d
  BY <1>0 DEF Accepted, Request
<1> QED BY <1>0, <1>1 DEF Hands

(* Every other step of a request leaves its hands as they are, or empty. *)
Plain(a) ==
  \/ \E c \in Campaigns : Send(a, c) \/ SendLoads(a, c)
  \/ \E c \in Campaigns, action \in DOMAIN From : ControlLoads(a, c, action)
  \/ Lock(a) \/ NextBatch(a) \/ ClaimsEnd(a) \/ Refresh(a)
  \/ FinishReads(a) \/ FinishWrites(a) \/ FollowCreates(a) \/ FollowInserts(a) \/ Throws(a)
  \/ ControlStep(a)

LEMMA PlainHands ==
  ASSUME Typed, NEW a \in Requests, Plain(a)
  PROVE  \/ Hands(a)' = {}
         \/ ClaimsEnd(a) /\ Hands(a)' = Hands(a) /\ req'[a].c = req[a].c
<1>0. req \in [Requests -> Request] /\ ReqOK(req[a])
  BY DEF Typed, TypeOK, RequestsOK
<1>idle. req'[a] = Idle => Hands(a)' = {}
  BY DEF Idle, Hands
<1>1. ASSUME NEW c \in Campaigns, Send(a, c) \/ Lock(a) PROVE Hands(a)' = {}
  <2>1. req'[a].pc \in {"batch", "follow"}
    BY <1>0, <1>1 DEF Send, Lock, TakeLock, Goto, Request
  <2> QED BY <2>1 DEF Hands
<1>2. ASSUME NEW c \in Campaigns, SendLoads(a, c) PROVE Hands(a)' = {}
  <2>1. req'[a].pc = "lock"
    BY <1>0, <1>2 DEF SendLoads, Idle
  <2> QED BY <2>1 DEF Hands
<1>3. ASSUME NEW c \in Campaigns, NEW action \in DOMAIN From, ControlLoads(a, c, action)
      PROVE  Hands(a)' = {}
  <2>1. req'[a].pc = Step(action)
    BY <1>0, <1>3 DEF ControlLoads, Idle
  <2>2. action \in {"launch", "pause", "resume", "cancel", "archive", "rebuild"}
    BY DEF From
  <2>3. Step(action) \in {"skip", "delete", "launch", "save"}
    BY <2>2 DEF Step
  <2> QED BY <2>1, <2>3 DEF Hands
<1>4. CASE NextBatch(a)
  <2> DEFINE n == Least(BatchSize, Allowed)
  <2>1. \/ req'[a].pc = "finish"
        \/ req'[a].pc = "claim" /\ req'[a].batch = req[a].batch
    <3>1. \/ req' = [req EXCEPT ![a].pc = "finish"]
          \/ req' = [req EXCEPT ![a].pc = "claim", ![a].left = n]
      BY <1>4 DEF NextBatch, Goto
    <3> HIDE DEF n
    <3> QED BY <1>0, <3>1 DEF Request
  <2>2. req[a].batch = {}
    BY <1>0, <1>4 DEF NextBatch, At, ReqOK
  <2> HIDE DEF n
  <2> QED BY <2>1, <2>2 DEF Hands
<1>5. CASE ClaimsEnd(a)
  <2> DEFINE pc == IF req[a].batch = {} THEN "finish" ELSE "send"
  <2>1. req' = [req EXCEPT ![a].pc = pc, ![a].left = 0] /\ pc \in {"finish", "send"}
    BY <1>5 DEF ClaimsEnd
  <2> HIDE DEF pc
  <2>2. req'[a].pc \in {"finish", "send"} /\ req'[a].batch = req[a].batch /\ req'[a].c = req[a].c
    BY <1>0, <2>1 DEF Request
  <2>3. req[a].pc = "claim"
    BY <1>5 DEF ClaimsEnd, At
  <2> QED BY <1>5, <2>2, <2>3 DEF Hands
<1>6. CASE Refresh(a)
  <2>1. req'[a].pc \in {"batch", "finish"}
    BY <1>0, <1>6 DEF Refresh, Goto, Request
  <2> QED BY <2>1 DEF Hands
<1>7. CASE FinishReads(a) \/ FinishWrites(a)
  <2>1. req'[a] = Idle \/ req'[a].pc \in {"write", "follow"}
    <3>1. CASE FinishReads(a)
      <4> DEFINE c == req[a].c
                 ended == camp[c].status = "completed"
                 locked == camp[c].lock # "none"
                 done == camp[c].status = "running" /\ NobodyQueued(c)
      <4>1. req' = [req EXCEPT ![a].pc = "write", ![a].ended = ended, ![a].locked = locked,
                               ![a].done = done]
        BY <3>1 DEF FinishReads
      <4> HIDE DEF ended, locked, done
      <4> QED BY <1>0, <4>1 DEF Request
    <3>2. CASE FinishWrites(a)
      BY <1>0, <3>2 DEF FinishWrites, Request
    <3> QED BY <1>7, <3>1, <3>2
  <2> QED BY <1>idle, <2>1 DEF Hands
<1>8. CASE FollowCreates(a)
  <2> DEFINE B == Eligible(req[a].c) \X {0}
  <2>1. \/ req' = [req EXCEPT ![a] = Idle]
        \/ \E f \in Campaigns :
             req' = [req EXCEPT ![a].pc = "insert", ![a].next = f, ![a].batch = B]
    BY <1>8 DEF FollowCreates
  <2> HIDE DEF B
  <2>2. req'[a] = Idle \/ req'[a].pc = "insert"
    BY <1>0, <2>1 DEF Request
  <2> QED BY <1>idle, <2>2 DEF Hands
<1>9. CASE FollowInserts(a) \/ Throws(a)
  BY <1>0, <1>9, <1>idle DEF FollowInserts, Throws
<1>10. CASE ControlStep(a)
  <2>1. \/ req' = [req EXCEPT ![a] = Idle]
        \/ Goto(a, "save") \/ Goto(a, "build")
    BY <1>10 DEF ControlStep, Launch, CancelSkips, ControlSaves, RebuildDeletes, RebuildInserts
  <2>2. req'[a] = Idle \/ req'[a].pc \in {"save", "build"}
    BY <1>0, <2>1 DEF Goto, Request
  <2> QED BY <1>idle, <2>2 DEF Hands
<1>11. First \in Campaigns
  BY CampaignAssumption DEF CampaignAssumption
<1> QED BY <1>1, <1>2, <1>3, <1>4, <1>5, <1>6, <1>7, <1>8, <1>9, <1>10, <1>11 DEF Plain

(* Nothing goes on around the requests, but that all of them may end. *)
LEMMA WorldHands ==
  ASSUME Typed, WorldStep \/ UNCHANGED vars
  PROVE  req' = req \/ \A a \in Requests : req'[a] = Idle
BY DEF WorldStep, OptOut, RetryComes, WindowPasses, LockExpires, Crash, vars

(* A request changes in its own steps, or ends with its process. *)
LEMMA WhoMoves ==
  ASSUME Typed, [Next]_vars, NEW a \in Requests
  PROVE  req'[a] = req[a] \/ req'[a] = Idle \/ Acts(a)
<1>1. CASE WorldStep \/ UNCHANGED vars
  BY <1>1, WorldHands
<1>2. CASE \E b \in Requests : Acts(b)
  BY <1>2, OneActs
<1> QED BY <1>1, <1>2 DEF Next, Acts

(* Where a request may go from where it is. *)
LEMMA Enters ==
  ASSUME Typed, NEW a \in Requests, Acts(a)
  PROVE  /\ req'[a].pc \in Draining =>
              \/ req[a].pc \in Draining /\ req'[a].c = req[a].c
              \/ TakeLock(a, req'[a].c) /\ req'[a].c \in Campaigns
                   /\ req'[a].pc = "batch" /\ req[a].pc \in {"idle", "lock"}
         /\ req'[a].pc \in {"launch", "delete", "build"} =>
              \/ req[a].pc \in {"launch", "delete", "build"} /\ req'[a].c = req[a].c
              \/ req'[a].c \in Campaigns /\ camp[req'[a].c].status = "draft"
         /\ req'[a].pc = "insert" => FollowCreates(a)
         /\ req'[a].pc = "record" => SendStep(a)
         /\ req'[a].pc = "claim" => NextBatch(a) \/ Claim(a)
         /\ req'[a].pc = "send" => Claim(a) \/ ClaimsEnd(a) \/ SendStep(a)
         /\ req'[a].pc = "write" => FinishReads(a)
         /\ req'[a].pc = "lock" => SendLoads(a, req'[a].c) /\ req'[a].c \in Campaigns
         /\ req'[a].pc = "follow" => (Lock(a) \/ FinishWrites(a)) /\ req'[a].c = req[a].c
<1>0. req \in [Requests -> Request] /\ ReqOK(req[a]) /\ req[a] \in Request
  BY DEF Typed, TypeOK, RequestsOK
<1>idle. Idle.pc = "idle"
  BY DEF Idle
<1> USE DEF Draining
<1>1. ASSUME NEW c \in Campaigns, TakeLock(a, c), req[a].pc \in {"idle", "lock"}
      PROVE  req'[a].pc = "batch" /\ req'[a].c = c
  BY <1>0, <1>1 DEF TakeLock, Request
<1>2. CASE \E c \in Campaigns : Send(a, c)
  BY <1>1, <1>2 DEF Send, At
<1>3. CASE \E c \in Campaigns : SendLoads(a, c)
  <2>1. PICK c \in Campaigns : SendLoads(a, c)
    BY <1>3
  <2>2. req'[a].pc = "lock" /\ req'[a].c = c
    BY <1>0, <2>1 DEF SendLoads, Idle
  <2> QED BY <2>1, <2>2
<1>4. ASSUME NEW c \in Campaigns, NEW action \in DOMAIN From, ControlLoads(a, c, action)
      PROVE  /\ req'[a].pc \in {"skip", "delete", "launch", "save"} /\ req'[a].c = c
             /\ req'[a].pc \in {"launch", "delete"} => camp[c].status = "draft"
  <2>1. req'[a].pc = Step(action) /\ req'[a].c = c
    BY <1>0, <1>4 DEF ControlLoads, Idle
  <2>2. action \in {"launch", "pause", "resume", "cancel", "archive", "rebuild"}
    BY DEF From
  <2>3. /\ Step(action) \in {"skip", "delete", "launch", "save"}
        /\ Step(action) \in {"launch", "delete"} => action \in {"launch", "rebuild"}
    BY <2>2 DEF Step
  <2>4. action \in {"launch", "rebuild"} => camp[c].status = "draft"
    <3>1. camp[c].status \in From[action]
      BY <1>4 DEF ControlLoads
    <3>2. From["launch"] = {"draft"} /\ From["rebuild"] = {"draft"}
      BY DEF From
    <3> QED BY <3>1, <3>2
  <2> QED BY <2>1, <2>3, <2>4
<1>5. CASE Lock(a)
  <2>1. req[a].c \in Campaigns /\ req[a].pc = "lock"
    BY <1>0, <1>5 DEF Lock, At, ReqOK
  <2>2. CASE TakeLock(a, req[a].c)
    BY <1>1, <2>1, <2>2
  <2>3. CASE Goto(a, "follow")
    <3>1. req'[a].pc = "follow" /\ req'[a].c = req[a].c
      BY <1>0, <2>3 DEF Goto, Request
    <3> QED BY <1>5, <3>1
  <2> QED BY <1>5, <2>2, <2>3 DEF Lock
<1>6. CASE NextBatch(a) \/ ClaimsEnd(a)
  <2>1. PICK pc \in {"finish", "claim", "send"} :
             /\ pc = "claim" => NextBatch(a)
             /\ pc = "send" => ClaimsEnd(a)
             /\ \/ req' = [req EXCEPT ![a].pc = pc]
                \/ \E n : req' = [req EXCEPT ![a].pc = pc, ![a].left = n]
    <3>1. CASE NextBatch(a)
      BY <3>1 DEF NextBatch, Goto
    <3>2. CASE ClaimsEnd(a)
      <4> DEFINE pc == IF req[a].batch = {} THEN "finish" ELSE "send"
      <4>1. req' = [req EXCEPT ![a].pc = pc, ![a].left = 0] /\ pc \in {"finish", "send"}
        BY <3>2 DEF ClaimsEnd
      <4> HIDE DEF pc
      <4> QED BY <3>2, <4>1
    <3> QED BY <1>6, <3>1, <3>2
  <2>2. req'[a].pc = pc /\ req'[a].c = req[a].c
    BY <1>0, <2>1 DEF Request
  <2>3. req[a].pc \in {"batch", "claim"}
    BY <1>6 DEF NextBatch, ClaimsEnd, At
  <2> QED BY <1>6, <2>1, <2>2, <2>3
<1>7. CASE Claim(a)
  <2>1. PICK k \in Contacts :
         req' = [req EXCEPT ![a].batch = @ \cup {Doc(req[a].c, k)}, ![a].left = @ - 1,
                            ![a].pc = IF req[a].left = 1 THEN "send" ELSE "claim"]
    BY <1>7 DEF Claim
  <2> DEFINE d == Doc(req[a].c, k)
             n == req[a].left - 1
             pc == IF req[a].left = 1 THEN "send" ELSE "claim"
  <2>2. req' = [req EXCEPT ![a].batch = @ \cup {d}, ![a].left = n, ![a].pc = pc] /\ pc \in {"send", "claim"}
    BY <2>1
  <2> HIDE DEF d, n, pc
  <2>3. req'[a].pc \in {"send", "claim"} /\ req'[a].c = req[a].c
    BY <1>0, <2>2 DEF Request
  <2>4. req[a].pc = "claim"
    BY <1>7 DEF Claim, At
  <2> QED BY <1>7, <2>3, <2>4
<1>8. CASE SendStep(a)
  <2>1. req[a].pc \in {"send", "record"}
    BY <1>8 DEF SendStep, SkipOne, Accepted, Refused, TimedOut, Record, RecordFails, At
  <2>2. req'[a].pc \in {"send", "record"} /\ req'[a].c = req[a].c
    <3>1. ASSUME NEW d, req' = Without(a, d) PROVE req'[a].pc = "send" /\ req'[a].c = req[a].c
      BY <1>0, <3>1 DEF Without, Request
    <3> QED BY <1>8, <3>1, AcceptedHands
            DEF SendStep, SkipOne, Refused, TimedOut, Record, RecordFails
  <2> QED BY <1>8, <2>1, <2>2
<1>9. CASE Refresh(a)
  <2>1. PICK pc \in {"batch", "finish"} : req' = [req EXCEPT ![a].pc = pc]
    BY <1>9 DEF Refresh, Goto
  <2>2. req'[a].pc = pc /\ req'[a].c = req[a].c
    BY <1>0, <2>1 DEF Request
  <2>3. req[a].pc = "send"
    BY <1>9 DEF Refresh, At
  <2> QED BY <2>1, <2>2, <2>3
<1>10. CASE FinishReads(a)
  <2> DEFINE c == req[a].c
             ended == camp[c].status = "completed"
             locked == camp[c].lock # "none"
             done == camp[c].status = "running" /\ NobodyQueued(c)
  <2>1. req' = [req EXCEPT ![a].pc = "write", ![a].ended = ended, ![a].locked = locked,
                           ![a].done = done]
    BY <1>10 DEF FinishReads
  <2> HIDE DEF ended, locked, done
  <2>2. req'[a].pc = "write" /\ req'[a].c = c
    BY <1>0, <2>1 DEF Request
  <2>3. req[a].pc = "finish"
    BY <1>10 DEF FinishReads, At
  <2> QED BY <1>10, <2>2, <2>3
<1>11. CASE FinishWrites(a)
  <2>1. req'[a] = Idle \/ (req'[a].pc = "follow" /\ req'[a].c = req[a].c)
    BY <1>0, <1>11 DEF FinishWrites, Request
  <2> QED BY <1>11, <1>idle, <2>1
<1>12. CASE FollowCreates(a)
  <2> DEFINE B == Eligible(req[a].c) \X {0}
  <2>1. \/ req' = [req EXCEPT ![a] = Idle]
        \/ \E f \in Campaigns :
             req' = [req EXCEPT ![a].pc = "insert", ![a].next = f, ![a].batch = B]
    BY <1>12 DEF FollowCreates
  <2> HIDE DEF B
  <2>2. req'[a] = Idle \/ req'[a].pc = "insert"
    <3>1. CASE req' = [req EXCEPT ![a] = Idle]
      BY <1>0, <3>1
    <3>2. ASSUME NEW f, req' = [req EXCEPT ![a].pc = "insert", ![a].next = f, ![a].batch = B]
          PROVE  req'[a].pc = "insert"
      BY <1>0, <3>2 DEF Request
    <3> QED BY <2>1, <3>1, <3>2
  <2> QED BY <1>12, <1>idle, <2>2
<1>13. CASE FollowInserts(a) \/ Throws(a) \/ Launch(a) \/ ControlSaves(a) \/ RebuildInserts(a)
  <2>1. req'[a] = Idle
    BY <1>0, <1>13 DEF FollowInserts, Throws, Launch, ControlSaves, RebuildInserts
  <2> QED BY <1>idle, <2>1
<1>14. CASE CancelSkips(a)
  <2>1. req'[a].pc = "save"
    BY <1>0, <1>14 DEF CancelSkips, Goto, Request
  <2> QED BY <2>1
<1>15. CASE RebuildDeletes(a)
  <2>1. req'[a].pc = "build" /\ req'[a].c = req[a].c /\ req[a].pc = "delete"
    BY <1>0, <1>15 DEF RebuildDeletes, Goto, Request, At
  <2> QED BY <2>1
<1>16. CASE \E c \in Campaigns, action \in DOMAIN From : ControlLoads(a, c, action)
  BY <1>4, <1>16
<1> QED BY <1>2, <1>3, <1>5, <1>6, <1>7, <1>8, <1>9, <1>10, <1>11, <1>12, <1>13, <1>14, <1>15, <1>16
        DEF Acts, DrainStep, ControlStep

(* What a step does to a campaign. *)
Ways(c) ==
  \/ camp'[c].status = camp[c].status
  \/ camp'[c].status = "running" /\ \E a \in Requests : TakeLock(a, c)
  \/ camp'[c].status = "completed" /\ \E a \in Requests : FinishWrites(a) /\ req[a].c = c /\ req[a].done
  \/ camp'[c].status = "scheduled" /\ camp[c].status = "absent"
  \/ camp'[c].status \in {"running", "scheduled"} /\ \E a \in Requests : Launch(a) /\ req[a].c = c
  \/ /\ camp'[c].status \in {"paused", "running", "cancelled", "archived"}
     /\ \E a \in Requests : ControlSaves(a) /\ req[a].c = c

Stays(c) ==
  /\ \/ camp'[c].list = camp[c].list
     \/ camp'[c].list = camp[c].list + 1 /\ \E a \in Requests : RebuildDeletes(a) /\ req[a].c = c
     \/ camp[c].status = "absent"
  /\ \/ camp'[c].parent = camp[c].parent
     \/ /\ camp[c].status = "absent" /\ camp'[c].parent \in Campaigns
        /\ \E a \in Requests : FollowCreates(a) /\ req'[a].pc = "insert" /\ req'[a].next = c
                                 /\ camp'[c].parent = req[a].c

(* A save of one campaign, field by field. *)
LEMMA FieldsPut ==
  ASSUME Typed, NEW f \in Campaigns, NEW c \in Campaigns, NEW s, NEW l,
         \/ camp' = [camp EXCEPT ![f].status = s, ![f].lock = l]
         \/ camp' = [camp EXCEPT ![f].status = s]
  PROVE  /\ c # f => camp'[c] = camp[c]
         /\ camp'[f].status = s
         /\ camp'[f].list = camp[f].list /\ camp'[f].parent = camp[f].parent
<1>0. camp \in [Campaigns -> Campaign] /\ camp[f] \in Campaign
  BY DEF Typed, TypeOK
<1> DEFINE v == [camp[f] EXCEPT !.status = s]
           w == [v EXCEPT !.lock = l]
<1>1. v.status = s /\ v.list = camp[f].list /\ v.parent = camp[f].parent
  BY <1>0 DEF Campaign
<1>2. w.status = s /\ w.list = camp[f].list /\ w.parent = camp[f].parent
  BY <1>0 DEF Campaign
<1>3. camp' = [camp EXCEPT ![f] = w] \/ camp' = [camp EXCEPT ![f] = v]
  <2>1. CASE camp' = [camp EXCEPT ![f].status = s]
    BY <2>1
  <2>2. CASE camp' = [camp EXCEPT ![f].status = s, ![f].lock = l]
    <3>1. camp' = [camp EXCEPT ![f] = w]
      BY <1>0, <2>2 DEF Campaign
    <3> QED BY <3>1
  <2> QED BY <2>1, <2>2
<1> HIDE DEF v, w
<1> QED BY <1>0, <1>1, <1>2, <1>3

(* One campaign is saved: the others stay. *)
LEMMA SavedOne ==
  ASSUME Typed, NEW f \in Campaigns, NEW c \in Campaigns, c # f,
         \E w : camp' = [camp EXCEPT ![f] = w]
  PROVE  Ways(c) /\ Stays(c)
BY DEF Typed, TypeOK, Ways, Stays

LEMMA CampaignMoves ==
  ASSUME Typed, [Next]_vars, NEW c \in Campaigns
  PROVE  Ways(c) /\ Stays(c)
<1>type. camp \in [Campaigns -> Campaign] /\ req \in [Requests -> Request]
         /\ \A a \in Requests : ReqOK(req[a])
  BY DEF Typed, TypeOK, RequestsOK
<1>same. camp' = camp => Ways(c) /\ Stays(c)
  BY DEF Ways, Stays
<1>1. ASSUME NEW a \in Requests, NEW f \in Campaigns, TakeLock(a, f)
      PROVE  Ways(c) /\ Stays(c)
  <2>1. camp' = [camp EXCEPT ![f].status = "running", ![f].lock = "held"]
    BY <1>1 DEF TakeLock
  <2>2. /\ c # f => camp'[c] = camp[c]
        /\ camp'[f].status = "running"
        /\ camp'[f].list = camp[f].list /\ camp'[f].parent = camp[f].parent
    BY <2>1, FieldsPut
  <2> QED BY <1>1, <2>2 DEF Ways, Stays
<1>2. ASSUME NEW a \in Requests, FinishWrites(a)
      PROVE  Ways(c) /\ Stays(c)
  <2> DEFINE f == req[a].c
             st == IF req[a].done THEN "completed" ELSE camp[f].status
             l == Unlock(a, camp[f].lock)
  <2>1. camp' = [camp EXCEPT ![f].status = st, ![f].lock = l]
    BY <1>2 DEF FinishWrites
  <2>2. (req[a].done /\ st = "completed") \/ st = camp[f].status
    OBVIOUS
  <2> HIDE DEF st, l, f
  <2>0. req[a].c \in Campaigns
    BY <1>2, <1>type DEF FinishWrites, At, ReqOK
  <2>3. /\ c # f => camp'[c] = camp[c]
        /\ camp'[f].status = st
        /\ camp'[f].list = camp[f].list /\ camp'[f].parent = camp[f].parent
    BY <2>0, <2>1, FieldsPut DEF f
  <2> QED BY <1>2, <2>2, <2>3 DEF Ways, Stays, f
<1>3. ASSUME NEW a \in Requests, FollowCreates(a)
      PROVE  Ways(c) /\ Stays(c)
  <2> DEFINE p == req[a].c
             B == Eligible(p) \X {0}
             n == camp[p].step + 1
  <2>1. CASE UNCHANGED camp
    BY <1>same, <2>1
  <2>2. ASSUME NEW f \in Campaigns, camp[f].status = "absent",
               camp' = [camp EXCEPT ![f] = [NoCampaign EXCEPT !.status = "scheduled",
                                              !.step = n, !.parent = p]],
               req' = [req EXCEPT ![a].pc = "insert", ![a].next = f, ![a].batch = B]
        PROVE  Ways(c) /\ Stays(c)
    <3>1. p \in Campaigns
      BY <1>3, <1>type DEF FollowCreates, At, ReqOK
    <3> HIDE DEF B, n, p
    <3>2. req'[a].pc = "insert" /\ req'[a].next = f
      BY <1>type, <2>2 DEF Request
    <3>3. CASE c = f
      <4>1. camp'[c].status = "scheduled" /\ camp'[c].parent = p
        BY <1>type, <2>2, <3>3 DEF NoCampaign
      <4> QED BY <1>3, <2>2, <3>1, <3>2, <3>3, <4>1 DEF Ways, Stays, p
    <3>4. CASE c # f
      BY <2>2, <3>4, SavedOne
    <3> QED BY <3>3, <3>4
  <2> QED BY <1>3, <2>1, <2>2 DEF FollowCreates
<1>4. ASSUME NEW a \in Requests, Launch(a)
      PROVE  Ways(c) /\ Stays(c)
  <2>1. PICK st \in {"running", "scheduled"} : camp' = [camp EXCEPT ![req[a].c].status = st]
    BY <1>4 DEF Launch
  <2> DEFINE f == req[a].c
  <2>2. f \in Campaigns
    BY <1>4, <1>type DEF Launch, At, ReqOK
  <2> HIDE DEF f
  <2>3. /\ c # f => camp'[c] = camp[c]
        /\ camp'[f].status = st
        /\ camp'[f].list = camp[f].list /\ camp'[f].parent = camp[f].parent
    BY <2>1, <2>2, FieldsPut DEF f
  <2> QED BY <1>4, <2>1, <2>3 DEF Ways, Stays, f
<1>5. ASSUME NEW a \in Requests, ControlSaves(a)
      PROVE  Ways(c) /\ Stays(c)
  <2> DEFINE f == req[a].c
             st == Target[req[a].action]
             l == Unlock(a, camp[f].lock)
  <2>1. camp' = [camp EXCEPT ![f].status = st, ![f].lock = l]
    BY <1>5 DEF ControlSaves
  <2>2. st \in {"paused", "running", "cancelled", "archived"}
    BY <1>5, SavedStatus
  <2> HIDE DEF st, l, f
  <2>0. req[a].c \in Campaigns
    BY <1>5, <1>type DEF ControlSaves, At, ReqOK
  <2>3. /\ c # f => camp'[c] = camp[c]
        /\ camp'[f].status = st
        /\ camp'[f].list = camp[f].list /\ camp'[f].parent = camp[f].parent
    BY <2>0, <2>1, FieldsPut DEF f
  <2> QED BY <1>5, <2>2, <2>3 DEF Ways, Stays, f
<1>6. ASSUME NEW a \in Requests, RebuildDeletes(a)
      PROVE  Ways(c) /\ Stays(c)
  <2>1. camp' = [camp EXCEPT ![req[a].c].list = @ + 1]
    BY <1>6 DEF RebuildDeletes
  <2>2. \/ camp'[c] = camp[c]
        \/ c = req[a].c /\ camp'[c] = [camp[c] EXCEPT !.list = camp[c].list + 1]
    BY <1>type, <2>1
  <2>3. [camp[c] EXCEPT !.list = camp[c].list + 1].status = camp[c].status
        /\ [camp[c] EXCEPT !.list = camp[c].list + 1].list = camp[c].list + 1
        /\ [camp[c] EXCEPT !.list = camp[c].list + 1].parent = camp[c].parent
    BY <1>type DEF Campaign
  <2> QED BY <1>6, <2>2, <2>3 DEF Ways, Stays
<1>7. ASSUME NEW f \in Campaigns, NEW l, camp' = [camp EXCEPT ![f].lock = l]
      PROVE  Ways(c) /\ Stays(c)
  <2>1. camp'[c] = camp[c] \/ camp'[c] = [camp[c] EXCEPT !.lock = l]
    BY <1>type, <1>7
  <2>2. /\ [camp[c] EXCEPT !.lock = l].status = camp[c].status
        /\ [camp[c] EXCEPT !.lock = l].list = camp[c].list
        /\ [camp[c] EXCEPT !.lock = l].parent = camp[c].parent
    BY <1>type DEF Campaign
  <2> QED BY <2>1, <2>2 DEF Ways, Stays
<1>8. ASSUME NEW a \in Requests, Refresh(a) \/ Throws(a)
      PROVE  Ways(c) /\ Stays(c)
  <2>1. req[a].c \in Campaigns
    BY <1>type, <1>8 DEF Refresh, Throws, Draining, At, ReqOK
  <2>2. \E l : camp' = [camp EXCEPT ![req[a].c].lock = l]
    BY <1>8 DEF Refresh, Throws
  <2> QED BY <1>7, <2>1, <2>2
<1>9. ASSUME NEW a \in Requests, Acts(a)
      PROVE  Ways(c) /\ Stays(c)
  <2>1. CASE \E f \in Campaigns : Send(a, f)
    BY <1>1, <2>1 DEF Send
  <2>2. CASE Lock(a)
    <3>1. req[a].c \in Campaigns
      BY <1>type, <2>2 DEF Lock, At, ReqOK
    <3> QED BY <1>1, <1>same, <2>2, <3>1 DEF Lock
  <2>3. CASE \/ \E f \in Campaigns : SendLoads(a, f)
             \/ \E f \in Campaigns, action \in DOMAIN From : ControlLoads(a, f, action)
    BY <1>same, <2>3 DEF SendLoads, ControlLoads
  <2>4. CASE NextBatch(a) \/ Claim(a) \/ ClaimsEnd(a) \/ SendStep(a) \/ FinishReads(a) \/ FollowInserts(a)
    BY <1>same, <2>4 DEF NextBatch, Claim, ClaimsEnd, SendStep, SkipOne, Accepted, Refused, TimedOut,
                         Record, RecordFails, FinishReads, FollowInserts
  <2>5. CASE CancelSkips(a) \/ RebuildInserts(a)
    BY <1>same, <2>5 DEF CancelSkips, RebuildInserts
  <2> QED BY <1>9, <1>2, <1>3, <1>4, <1>5, <1>6, <1>8, <2>1, <2>2, <2>3, <2>4, <2>5
          DEF Acts, DrainStep, ControlStep
<1>10. CASE WorldStep
  <2>1. camp' = camp \/ \E f \in Campaigns : LockExpires(f)
    BY <1>10 DEF WorldStep, OptOut, RetryComes, WindowPasses, Crash
  <2> QED BY <1>same, <1>7, <2>1 DEF LockExpires
<1>11. CASE UNCHANGED vars
  BY <1>same, <1>11 DEF vars
<1> QED BY <1>9, <1>10, <1>11 DEF Next, Acts

(* A request lets a recipient go: settled, or put back for another attempt. *)
Releases(a, d) ==
  \/ /\ req[a].pc = "send" /\ d \in req[a].batch
     /\ SkipOne(a, d) \/ Refused(a, d) \/ TimedOut(a, d)
  \/ /\ req[a].pc = "record" /\ d = req[a].cur
     /\ Record(a) \/ RecordFails(a)

(* What a step does to a recipient. *)
RecipientWays(r) ==
  \/ rcpt'[r] = rcpt[r]
  \/ rcpt[r].status = "queued" /\ rcpt'[r].status = "queued"
  \/ rcpt[r].status = "queued" /\ rcpt'[r].status = "skipped"
  \/ \E a \in Requests : \E k \in Contacts :
       /\ Claim(a) /\ r = <<req[a].c, k>>
       /\ rcpt[r].status = "queued" /\ rcpt'[r].status = "sending"
  \/ \E a \in Requests : \E d \in Hands(a) :
       /\ Releases(a, d) /\ Present(a, d) /\ r = Of(a, d)
       /\ rcpt'[r].status \in Settled \cup {"queued"}
  \/ \E a \in Requests : FollowInserts(a) /\ r[1] = req[a].next /\ rcpt'[r] = Queued
  \/ \E a \in Requests : RebuildDeletes(a) /\ r[1] = req[a].c /\ rcpt'[r] = NoRecipient
  \/ \E a \in Requests : /\ RebuildInserts(a) /\ r[1] = req[a].c
                         /\ rcpt[r].status = "absent" /\ rcpt'[r] = Queued

LEMMA RecipientMoves ==
  ASSUME Typed, [Next]_vars, NEW r \in Recipients
  PROVE  RecipientWays(r)
<1>same. rcpt' = rcpt => RecipientWays(r)
  BY DEF RecipientWays
<1>1. ASSUME NEW a \in Requests, Claim(a) PROVE RecipientWays(r)
  <2>1. PICK k \in Contacts :
          /\ Claimable(req[a].c, k)
          /\ rcpt'[<<req[a].c, k>>].status = "sending"
          /\ \A q \in Recipients : q # <<req[a].c, k>> => rcpt'[q] = rcpt[q]
    BY <1>1, ClaimEffect
  <2>2. rcpt[<<req[a].c, k>>].status = "queued"
    BY <2>1 DEF Claimable
  <2> QED BY <1>1, <2>1, <2>2 DEF RecipientWays
<1>2. ASSUME NEW a \in Requests, NEW d \in req[a].batch,
             SkipOne(a, d) \/ Refused(a, d) \/ TimedOut(a, d)
      PROVE  RecipientWays(r)
  <2>1. req[a].pc = "send" /\ Of(a, d) \in Recipients /\ Present(a, d) /\ d \in Hands(a)
    BY <1>2, InHand DEF SkipOne, Refused, TimedOut, At, Hands
  <2>2. Releases(a, d)
    BY <1>2, <2>1 DEF Releases
  <2>3. "skipped" \in Settled /\ "bounced" \in Settled /\ "failed" \in Settled
    BY DEF Settled
  <2>4. /\ rcpt'[Of(a, d)].status \in Settled \cup {"queued"}
        /\ \A q \in Recipients : q # Of(a, d) => rcpt'[q] = rcpt[q]
    BY <1>2, <2>1, <2>3, StatusPut, RetryType DEF SkipOne, Refused, TimedOut
  <2> QED BY <2>1, <2>2, <2>4 DEF RecipientWays
<1>3. ASSUME NEW a \in Requests, Record(a) \/ RecordFails(a) PROVE RecipientWays(r)
  <2> DEFINE d == req[a].cur
  <2>1. req[a].pc = "record" /\ Of(a, d) \in Recipients /\ Present(a, d) /\ d \in Hands(a)
    BY <1>3, InHand DEF Record, RecordFails, At, Hands
  <2>2. Releases(a, d)
    BY <1>3, <2>1 DEF Releases
  <2>3. "sent" \in Settled /\ "failed" \in Settled
    BY DEF Settled
  <2>4. /\ rcpt'[Of(a, d)].status \in Settled \cup {"queued"}
        /\ \A q \in Recipients : q # Of(a, d) => rcpt'[q] = rcpt[q]
    BY <1>3, <2>1, <2>3, StatusPut DEF Record, RecordFails, CatchUnknown
  <2> QED BY <2>1, <2>2, <2>4 DEF RecipientWays
<1>4. ASSUME NEW a \in Requests, FollowInserts(a) \/ RebuildDeletes(a) \/ RebuildInserts(a)
      PROVE  RecipientWays(r)
  BY <1>4 DEF FollowInserts, RebuildDeletes, RebuildInserts, RecipientWays
<1>5. ASSUME NEW a \in Requests, CancelSkips(a) PROVE RecipientWays(r)
  <2>1. \/ rcpt'[r] = rcpt[r]
        \/ rcpt[r].status = "queued" /\ rcpt'[r] = [rcpt[r] EXCEPT !.status = "skipped"]
    BY <1>5 DEF CancelSkips, Outstanding
  <2>2. rcpt[r] \in Recipient
    BY DEF Typed, TypeOK
  <2> QED BY <2>1, <2>2 DEF RecipientWays, Recipient
<1>6. ASSUME NEW a \in Requests, Acts(a) PROVE RecipientWays(r)
  <2>1. CASE \/ \E c \in Campaigns : Send(a, c) \/ SendLoads(a, c)
             \/ \E c \in Campaigns, action \in DOMAIN From : ControlLoads(a, c, action)
    BY <1>same, <2>1 DEF Send, SendLoads, ControlLoads
  <2>2. CASE DrainStep(a)
    <3>1. CASE Lock(a) \/ NextBatch(a) \/ ClaimsEnd(a) \/ Refresh(a)
      BY <1>same, <3>1 DEF Lock, NextBatch, ClaimsEnd, Refresh
    <3>2. CASE FinishReads(a) \/ FinishWrites(a) \/ FollowCreates(a) \/ Throws(a)
      BY <1>same, <3>2 DEF FinishReads, FinishWrites, FollowCreates, Throws
    <3>3. CASE SendStep(a)
      BY <1>2, <1>3, <1>same, <3>3 DEF SendStep, Accepted
    <3> QED BY <1>1, <1>4, <2>2, <3>1, <3>2, <3>3 DEF DrainStep
  <2>3. CASE ControlStep(a)
    BY <1>4, <1>5, <1>same, <2>3 DEF ControlStep, Launch, ControlSaves
  <2> QED BY <1>6, <2>1, <2>2, <2>3 DEF Acts
<1>7. CASE WorldStep
  <2>1. rcpt' = rcpt \/ \E q \in Recipients : RetryComes(q)
    BY <1>7 DEF WorldStep, OptOut, WindowPasses, LockExpires, Crash
  <2>2. ASSUME NEW q \in Recipients, RetryComes(q) PROVE RecipientWays(r)
    <3> DEFINE w == [rcpt[q] EXCEPT !.wait = FALSE]
    <3>1. rcpt \in [Recipients -> Recipient] /\ rcpt[q] \in Recipient
      BY DEF Typed, TypeOK
    <3>2. w.status = rcpt[q].status
      BY <3>1 DEF Recipient
    <3>3. rcpt' = [rcpt EXCEPT ![q] = w] /\ rcpt[q].status = "queued"
      BY <2>2 DEF RetryComes
    <3> HIDE DEF w
    <3>4. r # q => rcpt'[r] = rcpt[r]
      BY <3>1, <3>3
    <3>5. rcpt'[q] = w
      BY <3>1, <3>3
    <3>6. \/ rcpt'[r] = rcpt[r]
          \/ rcpt[r].status = "queued" /\ rcpt'[r].status = "queued"
      BY <3>2, <3>3, <3>4, <3>5
    <3> QED BY <3>6 DEF RecipientWays
  <2> QED BY <1>same, <2>1, <2>2
<1>8. CASE UNCHANGED vars
  BY <1>same, <1>8 DEF vars
<1> QED BY <1>6, <1>7, <1>8 DEF Next, Acts

-------------------------------------------------------------------------------
(* Who has which recipient in hand.                                          *)

(* A message that is out is no longer in the batch. *)
CurApart == \A a \in Requests : req[a].pc = "record" => req[a].cur \notin req[a].batch

(* What a step does to the hands of a request. *)
HandWays(a) ==
  \/ Hands(a)' = {}
  \/ Hands(a)' = Hands(a) /\ req'[a].c = req[a].c
  \/ /\ Claim(a) /\ req'[a].c = req[a].c
     /\ \E k \in Contacts : /\ Claimable(req[a].c, k) /\ rcpt'[<<req[a].c, k>>].status = "sending"
                           /\ Hands(a)' = Hands(a) \cup {Doc(req[a].c, k)}
  \/ \E d \in Hands(a) : Releases(a, d) /\ Hands(a)' = Hands(a) \ {d} /\ req'[a].c = req[a].c

LEMMA HandMoves ==
  ASSUME Typed, CurApart, [Next]_vars, NEW a \in Requests
  PROVE  /\ HandWays(a)
         /\ \A b \in Requests : \A d : b # a /\ Releases(b, d) => req'[a] = req[a]
         /\ \A b \in Requests : b # a /\ Claim(b) => req'[a] = req[a]
         /\ \A d \in Hands(a) : Releases(a, d) => d \notin Hands(a)'
<1>1. ASSUME NEW d \in Hands(a), Releases(a, d)
      PROVE  Hands(a)' = Hands(a) \ {d} /\ req'[a].c = req[a].c
  <2>1. req' = Without(a, d)
    BY <1>1 DEF Releases, SkipOne, Refused, TimedOut, Record, RecordFails
  <2>2. \/ req[a].pc = "send"
        \/ req[a].pc = "record" /\ d = req[a].cur /\ d \notin req[a].batch
    BY <1>1 DEF Releases, CurApart
  <2> QED BY <2>1, <2>2, WithoutHands
<1>2. ASSUME NEW b \in Requests, b # a, NEW d, Releases(b, d) PROVE req'[a] = req[a]
  <2>1. SendStep(b)
    BY <1>2 DEF Releases, SendStep
  <2> QED BY <1>2, <2>1, OneActs DEF Acts, DrainStep
<1>3. ASSUME NEW b \in Requests, b # a, Claim(b) PROVE req'[a] = req[a]
  BY <1>3, OneActs DEF Acts, DrainStep
<1>idle. req'[a] = Idle => Hands(a)' = {}
  BY DEF Idle, Hands
<1>same. req'[a] = req[a] => Hands(a)' = Hands(a)
  BY DEF Hands
<1>4. ASSUME Acts(a) PROVE HandWays(a)
  <2>1. CASE Plain(a)
    BY <2>1, PlainHands DEF HandWays
  <2>2. CASE Claim(a)
    <3>1. PICK k \in Contacts :
            /\ Claimable(req[a].c, k)
            /\ rcpt'[<<req[a].c, k>>].status = "sending"
            /\ req' = [req EXCEPT ![a].batch = @ \cup {Doc(req[a].c, k)}, ![a].left = @ - 1,
                                  ![a].pc = IF req[a].left = 1 THEN "send" ELSE "claim"]
      BY <2>2, ClaimEffect
    <3>2. Hands(a)' = Hands(a) \cup {Doc(req[a].c, k)} /\ req'[a].c = req[a].c
      BY <2>2, <3>1, ClaimHands
    <3> QED BY <2>2, <3>1, <3>2 DEF HandWays
  <2>3. ASSUME NEW d \in req[a].batch, Accepted(a, d) PROVE HandWays(a)
    BY <2>3, AcceptedHands DEF HandWays
  <2>4. ASSUME NEW d \in req[a].batch, SkipOne(a, d) \/ Refused(a, d) \/ TimedOut(a, d)
        PROVE  HandWays(a)
    <3>1. req[a].pc = "send"
      BY <2>4 DEF SkipOne, Refused, TimedOut, At
    <3>2. Releases(a, d) /\ d \in Hands(a)
      BY <2>4, <3>1 DEF Releases, Hands
    <3> QED BY <1>1, <3>2 DEF HandWays
  <2>5. CASE Record(a) \/ RecordFails(a)
    <3>1. req[a].pc = "record"
      BY <2>5 DEF Record, RecordFails, At
    <3>2. Releases(a, req[a].cur) /\ req[a].cur \in Hands(a)
      BY <2>5, <3>1 DEF Releases, Hands
    <3> QED BY <1>1, <3>2 DEF HandWays
  <2> QED BY <1>4, <2>1, <2>2, <2>3, <2>4, <2>5 DEF Acts, DrainStep, SendStep, Plain
<1>5. HandWays(a)
  BY <1>4, <1>idle, <1>same, WhoMoves DEF HandWays
<1> QED BY <1>1, <1>2, <1>3, <1>5

LEMMA CurApartStep == ASSUME Typed, CurApart, [Next]_vars PROVE CurApart'
<1> SUFFICES ASSUME NEW a \in Requests, req'[a].pc = "record"
             PROVE  req'[a].cur \notin req'[a].batch
  BY DEF CurApart
<1>0. req \in [Requests -> Request]
  BY DEF Typed, TypeOK
<1>1. CASE req'[a] = req[a]
  BY <1>1 DEF CurApart
<1>2. CASE req'[a] = Idle
  BY <1>2 DEF Idle
<1>3. CASE Acts(a)
  <2>1. ASSUME NEW d \in req[a].batch, Accepted(a, d) PROVE req'[a].cur \notin req'[a].batch
    BY <2>1, AcceptedHands
  <2>2. ASSUME NEW d, req' = Without(a, d) PROVE FALSE
    <3>1. req'[a].pc = "send"
      BY <1>0, <2>2 DEF Without, Request
    <3> QED BY <3>1
  <2>3. CASE SendStep(a)
    BY <2>1, <2>2, <2>3 DEF SendStep, SkipOne, Refused, TimedOut, Record, RecordFails
  <2>4. CASE ~SendStep(a)
    <3>1. req'[a].pc # "record"
      BY <1>3, <2>4, Enters
    <3> QED BY <3>1
  <2> QED BY <2>3, <2>4
<1> QED BY <1>1, <1>2, <1>3, WhoMoves

-------------------------------------------------------------------------------
(* The invariant that ties campaigns, lists and hands together.              *)

(* Only the first campaign is ever a draft, to be launched or rebuilt. *)
FirstOnly ==
  /\ camp[First].status # "absent"
  /\ \A c \in Campaigns : camp[c].status = "draft" => c = First
  /\ \A a \in Requests : req[a].pc \in {"launch", "delete", "build"} => req[a].c = First

(* A drain's campaign was started, and stays so. *)
DrainsStarted ==
  \A a \in Requests : req[a].pc \in Draining => camp[req[a].c].status \notin {"absent", "draft"}

(* A campaign that is not there has no recipients. *)
NoList == \A r \in Recipients : camp[r[1]].status = "absent" => rcpt[r].status = "absent"

(* A follow-up whose recipients are still to be inserted has none, and one request
   inserts them. *)
FollowAlone ==
  /\ \A a \in Requests : req[a].pc = "insert" =>
       /\ req[a].next # First /\ camp[req[a].next].status # "absent"
       /\ \A k \in Contacts : rcpt[<<req[a].next, k>>].status = "absent"
  /\ \A a, b \in Requests :
       a # b /\ req[a].pc = "insert" /\ req[b].pc = "insert" => req[a].next # req[b].next

(* A document in hand is of a list the campaign has or had. *)
HandsKnown == \A a \in Requests : \A d \in Hands(a) : d[2] <= camp[req[a].c].list

(* While it is there, it is marked as being sent... *)
HandsSending == \A a \in Requests : \A d \in Hands(a) : Present(a, d) => rcpt[Of(a, d)].status = "sending"

(* ...and nobody else has it. *)
HandsApart ==
  \A a, b \in Requests : a # b /\ req[a].c = req[b].c =>
    \A d \in Hands(a) : d \in Hands(b) => ~Present(a, d)

Linked ==
  /\ FirstOnly /\ DrainsStarted /\ NoList /\ FollowAlone
  /\ CurApart /\ HandsKnown /\ HandsSending /\ HandsApart

(* Hands are the hands of a drain. *)
LEMMA HandsDrain ==
  ASSUME Typed, NEW a \in Requests, NEW d \in Hands(a)
  PROVE  /\ req[a].pc \in Draining /\ req[a].c \in Campaigns
         /\ d \in Docs /\ Of(a, d) \in Recipients
<1>1. req[a].pc \in {"claim", "send", "record"}
  BY DEF Hands
<1>2. d \in req[a].batch \/ (req[a].pc = "record" /\ d = req[a].cur)
  BY DEF Hands
<1> QED BY <1>1, <1>2, InHand DEF Draining

(* A campaign that is there stays there, and never becomes a draft. *)
LEMMA StaysThere ==
  ASSUME Typed, [Next]_vars, NEW c \in Campaigns
  PROVE  /\ camp[c].status # "absent" => camp'[c].status # "absent"
         /\ camp'[c].status = "draft" => camp[c].status = "draft"
         /\ camp[c].status # "absent" => camp[c].list <= camp'[c].list
<1>1. Ways(c) /\ Stays(c)
  BY CampaignMoves
<1>2. camp[c].list \in Nat
  BY DEF Typed, TypeOK, Campaign
<1> QED BY <1>1, <1>2 DEF Ways, Stays

LEMMA FirstOnlyStep == ASSUME Typed, FirstOnly, [Next]_vars PROVE FirstOnly'
<1>1. First \in Campaigns
  BY CampaignAssumption DEF CampaignAssumption
<1>2. camp'[First].status # "absent"
  BY <1>1, StaysThere DEF FirstOnly
<1>3. \A c \in Campaigns : camp'[c].status = "draft" => c = First
  BY StaysThere DEF FirstOnly
<1>4. ASSUME NEW a \in Requests, req'[a].pc \in {"launch", "delete", "build"} PROVE req'[a].c = First
  <2>1. CASE req'[a] = req[a]
    BY <1>4, <2>1 DEF FirstOnly
  <2>2. CASE req'[a] = Idle
    BY <1>4, <2>2 DEF Idle
  <2>3. CASE Acts(a)
    BY <1>4, <2>3, Enters DEF FirstOnly
  <2> QED BY <2>1, <2>2, <2>3, WhoMoves
<1> QED BY <1>2, <1>3, <1>4 DEF FirstOnly

LEMMA DrainsStartedStep == ASSUME Typed, DrainsStarted, [Next]_vars PROVE DrainsStarted'
<1> SUFFICES ASSUME NEW a \in Requests, req'[a].pc \in Draining
             PROVE  camp'[req'[a].c].status \notin {"absent", "draft"}
  BY DEF DrainsStarted
<1>1. ASSUME req[a].pc \in Draining, req'[a].c = req[a].c
      PROVE  camp'[req'[a].c].status \notin {"absent", "draft"}
  <2>1. req[a].c \in Campaigns
    BY <1>1 DEF Typed, RequestsOK, ReqOK, Draining
  <2> QED BY <1>1, <2>1, StaysThere DEF DrainsStarted
<1>2. CASE req'[a] = req[a]
  BY <1>1, <1>2
<1>3. CASE req'[a] = Idle
  BY <1>3 DEF Idle, Draining
<1>4. ASSUME NEW c \in Campaigns, TakeLock(a, c), req'[a].c = c
      PROVE  camp'[c].status \notin {"absent", "draft"}
  <2>1. camp[c].status \in {"scheduled", "running"}
    BY <1>4 DEF TakeLock, Runnable
  <2> QED BY <2>1, StaysThere
<1>5. CASE Acts(a)
  BY <1>1, <1>4, <1>5, Enters
<1> QED BY <1>2, <1>3, <1>5, WhoMoves

(* What is in hand after a step was in hand before it, or was just claimed. *)
LEMMA HandBefore ==
  ASSUME Typed, CurApart, [Next]_vars, NEW a \in Requests, NEW d \in Hands(a)'
  PROVE  /\ req'[a].c = req[a].c
         /\ \/ d \in Hands(a)
            \/ /\ Claim(a) /\ d[1] \in Contacts /\ d = Doc(req[a].c, d[1])
               /\ Claimable(req[a].c, d[1]) /\ rcpt'[<<req[a].c, d[1]>>].status = "sending"
<1>1. HandWays(a)
  BY HandMoves
<1>2. ASSUME NEW k \in Contacts PROVE Doc(req[a].c, k)[1] = k
  BY DEF Doc
<1> QED BY <1>1, <1>2 DEF HandWays

LEMMA HandsKnownStep ==
  ASSUME Typed, CurApart, DrainsStarted, HandsKnown, [Next]_vars
  PROVE  HandsKnown'
<1> SUFFICES ASSUME NEW a \in Requests, NEW d \in Hands(a)'
             PROVE  d[2] <= camp'[req'[a].c].list
  BY DEF HandsKnown
<1> DEFINE c == req[a].c
<1>1. req'[a].c = c
  BY HandBefore
<1>2. CASE d \in Hands(a)
  <2>1. c \in Campaigns /\ camp[c].status # "absent" /\ d \in Docs
    BY <1>2, HandsDrain DEF DrainsStarted
  <2>2. camp[c].list <= camp'[c].list
    BY <2>1, StaysThere
  <2>3. d[2] <= camp[c].list
    BY <1>2 DEF HandsKnown
  <2>4. d[2] \in Nat /\ camp[c].list \in Nat /\ camp'[c].list \in Nat
    <3>1. Typed'
      BY TypeStep
    <3> QED BY <2>1, <3>1 DEF Docs, Typed, TypeOK, Campaign
  <2> HIDE DEF c
  <2> QED BY <1>1, <2>2, <2>3, <2>4
<1>3. CASE Claim(a) /\ d = Doc(c, d[1])
  <2>1. camp' = camp /\ d[2] = camp[c].list
    BY <1>3 DEF Claim, Doc
  <2>2. camp[c].list \in Nat
    <3>1. c \in Campaigns
      BY <1>3 DEF Claim, At, Typed, RequestsOK, ReqOK
    <3> QED BY <3>1 DEF Typed, TypeOK, Campaign
  <2> HIDE DEF c
  <2> QED BY <1>1, <2>1, <2>2
<1> QED BY <1>2, <1>3, HandBefore

(* A hand whose document is there after a step, and that was held before, was there
   before. *)
LEMMA PresentBefore ==
  ASSUME Typed, CurApart, DrainsStarted, HandsKnown, [Next]_vars,
         NEW a \in Requests, NEW d \in Hands(a), req'[a].c = req[a].c, Present(a, d)'
  PROVE  Present(a, d) /\ camp'[req[a].c].list = camp[req[a].c].list
<1> DEFINE c == req[a].c
<1>1. c \in Campaigns /\ camp[c].status # "absent" /\ d \in Docs
  BY HandsDrain DEF DrainsStarted
<1>2. camp[c].list <= camp'[c].list
  BY <1>1, StaysThere
<1>3. d[2] <= camp[c].list
  BY DEF HandsKnown
<1>4. d[2] = camp'[c].list
  BY DEF Present
<1>5. d[2] \in Nat /\ camp[c].list \in Nat
  BY <1>1 DEF Docs, Typed, TypeOK, Campaign
<1>6. d[2] = camp[c].list
  <2> HIDE DEF c
  <2> QED BY <1>2, <1>3, <1>4, <1>5
<1> QED BY <1>4, <1>6 DEF Present

(* Two documents of one list and one contact are one. *)
LEMMA OneDoc ==
  ASSUME Typed, NEW a \in Requests, NEW b \in Requests,
         NEW d \in Hands(a), NEW e \in Hands(b), Of(a, d) = Of(b, e),
         Present(a, d), Present(b, e)
  PROVE  d = e /\ req[a].c = req[b].c
<1>1. d \in Docs /\ e \in Docs
  BY HandsDrain
<1>2. d[1] = e[1] /\ req[a].c = req[b].c
  BY DEF Of
<1>3. d[2] = e[2]
  BY <1>2 DEF Present
<1> QED BY <1>1, <1>2, <1>3 DEF Docs

LEMMA HandsSendingStep ==
  ASSUME Typed, Linked, [Next]_vars
  PROVE  HandsSending'
<1> SUFFICES ASSUME NEW a \in Requests, NEW d \in Hands(a)', Present(a, d)'
             PROVE  rcpt'[Of(a, d)'].status = "sending"
  BY DEF HandsSending
<1> USE DEF Linked
<1> DEFINE r == Of(a, d)
<1>1. req'[a].c = req[a].c /\ Of(a, d)' = r
  BY HandBefore DEF Of
<1>2. CASE Claim(a) /\ rcpt'[<<req[a].c, d[1]>>].status = "sending"
  BY <1>1, <1>2 DEF Of
<1>3. CASE d \in Hands(a)
  <2>1. Present(a, d) /\ camp'[req[a].c].list = camp[req[a].c].list
    BY <1>1, <1>3, PresentBefore
  <2>2. rcpt[r].status = "sending"
    BY <1>3, <2>1 DEF HandsSending
  <2>3. r \in Recipients /\ r[1] = req[a].c /\ req[a].c \in Campaigns /\ r[2] \in Contacts
        /\ r = <<r[1], r[2]>>
    BY <1>3, HandsDrain DEF Of, Docs
  <2>4. RecipientWays(r)
    BY <2>3, RecipientMoves
  <2>5. ASSUME NEW b \in Requests, NEW e \in Hands(b), Releases(b, e), Present(b, e), r = Of(b, e)
        PROVE  FALSE
    <3>1. d = e /\ req[a].c = req[b].c
      BY <1>3, <2>1, <2>5, OneDoc
    <3>2. a = b
      BY <1>3, <2>1, <2>5, <3>1 DEF HandsApart
    <3> QED BY <1>3, <2>5, <3>1, <3>2, HandMoves
  <2>6. ASSUME NEW b \in Requests, FollowInserts(b), r[1] = req[b].next PROVE FALSE
    <3>1. rcpt[<<req[b].next, r[2]>>].status = "absent"
      BY <2>3, <2>6 DEF FollowAlone, FollowInserts, At
    <3> QED BY <2>2, <2>3, <2>6, <3>1
  <2>7. ASSUME NEW b \in Requests, RebuildDeletes(b), r[1] = req[b].c PROVE FALSE
    <3>1. camp' = [camp EXCEPT ![req[a].c].list = @ + 1]
      BY <2>3, <2>7 DEF RebuildDeletes
    <3>2. camp'[req[a].c].list = camp[req[a].c].list + 1 /\ camp[req[a].c].list \in Nat
      BY <2>3, <3>1 DEF Typed, TypeOK, Campaign
    <3> QED BY <2>1, <3>2
  <2> HIDE DEF r
  <2>8. rcpt'[r] = rcpt[r]
    BY <2>2, <2>4, <2>5, <2>6, <2>7 DEF RecipientWays
  <2> QED BY <1>1, <2>2, <2>8
<1> QED BY <1>2, <1>3, HandBefore

LEMMA HandsApartStep ==
  ASSUME Typed, Linked, [Next]_vars
  PROVE  HandsApart'
<1> SUFFICES ASSUME NEW a \in Requests, NEW b \in Requests, a # b, req'[a].c = req'[b].c,
                    NEW d \in Hands(a)', d \in Hands(b)', Present(a, d)'
             PROVE  FALSE
  BY DEF HandsApart
<1> USE DEF Linked
<1>1. req'[a].c = req[a].c /\ req'[b].c = req[b].c /\ req[a].c = req[b].c
  BY HandBefore
<1>present. ASSUME NEW e \in Requests, d \in Hands(e), req[e].c = req[a].c, req'[e].c = req[a].c
            PROVE  Present(e, d) /\ rcpt[<<req[a].c, d[1]>>].status = "sending"
  <2>1. Present(e, d)'
    BY <1>1, <1>present DEF Present
  <2>2. Present(e, d)
    BY <1>1, <1>present, <2>1, PresentBefore
  <2> QED BY <1>present, <2>2 DEF HandsSending, Of
<1>2. CASE d \in Hands(a) /\ d \in Hands(b)
  BY <1>1, <1>2, <1>present DEF HandsApart
<1>3. ASSUME NEW e \in Requests, Claim(e), Claimable(req[a].c, d[1]),
             NEW f \in Requests, d \in Hands(f), req[f].c = req[a].c, req'[f].c = req[a].c
      PROVE  FALSE
  BY <1>3, <1>present DEF Claimable
<1>4. ~(Claim(a) /\ Claim(b) /\ d \notin Hands(a) /\ d \notin Hands(b))
  <2>1. ASSUME Claim(a), Claim(b), d \notin Hands(a) PROVE FALSE
    <3>1. req'[a] = req[a]
      BY <2>1, HandMoves
    <3>2. Hands(a)' = Hands(a)
      BY <3>1 DEF Hands
    <3> QED BY <2>1, <3>2
  <2> QED BY <2>1
<1> QED BY <1>1, <1>2, <1>3, <1>4, HandBefore

(* No document of an absent recipient is released. *)
LEMMA NotReleased ==
  ASSUME Typed, Linked, NEW r \in Recipients, rcpt[r].status = "absent",
         NEW b \in Requests, NEW d \in Hands(b), Present(b, d), r = Of(b, d)
  PROVE  FALSE
BY DEF Linked, HandsSending

LEMMA NoListStep == ASSUME Typed, Linked, [Next]_vars PROVE NoList'
<1> SUFFICES ASSUME NEW r \in Recipients, camp'[r[1]].status = "absent"
             PROVE  rcpt'[r].status = "absent"
  BY DEF NoList
<1> USE DEF Linked
<1>1. r[1] \in Campaigns
  BY DEF Recipients
<1>2. camp[r[1]].status = "absent" /\ rcpt[r].status = "absent"
  BY <1>1, StaysThere DEF NoList
<1>3. RecipientWays(r)
  BY RecipientMoves
<1>4. ASSUME NEW b \in Requests, FollowInserts(b), r[1] = req[b].next PROVE FALSE
  BY <1>2, <1>4 DEF FollowInserts, At, FollowAlone
<1>5. ASSUME NEW b \in Requests, RebuildInserts(b), r[1] = req[b].c PROVE FALSE
  BY <1>2, <1>5 DEF RebuildInserts, At, FirstOnly
<1>6. NoRecipient.status = "absent"
  BY DEF NoRecipient
<1> QED BY <1>2, <1>3, <1>4, <1>5, <1>6, NotReleased DEF RecipientWays

LEMMA Created ==
  ASSUME Typed, NEW a \in Requests, FollowCreates(a), req'[a].pc = "insert"
  PROVE  /\ req'[a].next \in Campaigns /\ camp[req'[a].next].status = "absent"
         /\ camp'[req'[a].next].status = "scheduled" /\ rcpt' = rcpt
<1> DEFINE p == req[a].c
           B == Eligible(p) \X {0}
           n == camp[p].step + 1
<1>0. camp \in [Campaigns -> Campaign] /\ req \in [Requests -> Request]
  BY DEF Typed, TypeOK
<1>1. CASE req' = [req EXCEPT ![a] = Idle]
  BY <1>0, <1>1 DEF Idle
<1>2. ASSUME NEW f \in Campaigns, camp[f].status = "absent",
             camp' = [camp EXCEPT ![f] = [NoCampaign EXCEPT !.status = "scheduled",
                                            !.step = n, !.parent = p]],
             req' = [req EXCEPT ![a].pc = "insert", ![a].next = f, ![a].batch = B]
      PROVE  req'[a].next = f /\ camp'[f].status = "scheduled"
  <2> HIDE DEF B, n, p
  <2>1. req'[a].next = f
    BY <1>0, <1>2 DEF Request
  <2>2. camp'[f].status = "scheduled"
    BY <1>0, <1>2 DEF NoCampaign
  <2> QED BY <2>1, <2>2
<1>3. rcpt' = rcpt
  BY DEF FollowCreates
<1> QED BY <1>1, <1>2, <1>3 DEF FollowCreates

LEMMA FollowAloneStep == ASSUME Typed, Linked, [Next]_vars PROVE FollowAlone'
<1> USE DEF Linked
<1>1. ASSUME NEW a \in Requests, req'[a].pc = "insert"
      PROVE  \/ req'[a] = req[a]
             \/ FollowCreates(a)
  <2>1. req'[a] # Idle
    BY <1>1 DEF Idle
  <2> QED BY <1>1, <2>1, WhoMoves, Enters
<1>2. ASSUME NEW a \in Requests, req'[a].pc = "insert"
      PROVE  /\ req'[a].next # First /\ camp'[req'[a].next].status # "absent"
             /\ \A k \in Contacts : rcpt'[<<req'[a].next, k>>].status = "absent"
  <2> DEFINE f == req'[a].next
  <2>1. CASE FollowCreates(a)
    <3>1. f \in Campaigns /\ camp[f].status = "absent" /\ camp'[f].status = "scheduled" /\ rcpt' = rcpt
      BY <1>2, <2>1, Created
    <3>2. f # First
      BY <3>1 DEF FirstOnly
    <3>3. ASSUME NEW k \in Contacts PROVE rcpt[<<f, k>>].status = "absent"
      <4>1. <<f, k>> \in Recipients /\ <<f, k>>[1] = f
        BY <3>1 DEF Recipients
      <4> HIDE DEF f
      <4> QED BY <3>1, <4>1 DEF NoList
    <3> QED BY <3>1, <3>2, <3>3
  <2>2. CASE req'[a] = req[a]
    <3>1. f # First /\ f \in Campaigns /\ camp[f].status # "absent" /\ f = req[a].next
      BY <1>2, <2>2 DEF FollowAlone, Typed, RequestsOK, ReqOK
    <3>2. camp'[f].status # "absent"
      BY <3>1, StaysThere
    <3>3. ASSUME NEW k \in Contacts PROVE rcpt'[<<f, k>>].status = "absent"
      <4> DEFINE r == <<f, k>>
      <4>1. r \in Recipients /\ r[1] = f
        BY <3>1 DEF Recipients
      <4>2. rcpt[r].status = "absent"
        BY <1>2, <2>2 DEF FollowAlone
      <4> HIDE DEF r
      <4>3. RecipientWays(r)
        BY <4>1, RecipientMoves
      <4>4. ASSUME NEW b \in Requests, FollowInserts(b), r[1] = req[b].next PROVE FALSE
        <5>1. b = a
          BY <1>2, <2>2, <3>1, <4>1, <4>4 DEF FollowInserts, At, FollowAlone
        <5>2. req'[a] = Idle
          BY <4>4, <5>1 DEF FollowInserts, Typed, TypeOK
        <5> QED BY <1>2, <5>2 DEF Idle
      <4>5. ASSUME NEW b \in Requests, RebuildInserts(b), r[1] = req[b].c PROVE FALSE
        BY <3>1, <4>1, <4>5 DEF RebuildInserts, At, FirstOnly
      <4>6. NoRecipient.status = "absent"
        BY DEF NoRecipient
      <4>7. rcpt'[r].status = "absent"
        BY <4>1, <4>2, <4>3, <4>4, <4>5, <4>6, NotReleased DEF RecipientWays
      <4> QED BY <4>7 DEF r
    <3> QED BY <3>1, <3>2, <3>3
  <2> QED BY <1>1, <1>2, <2>1, <2>2
<1>3. ASSUME NEW a \in Requests, NEW b \in Requests, a # b,
             req'[a].pc = "insert", req'[b].pc = "insert", req'[b] = req[b]
      PROVE  req'[a].next # req'[b].next
  <2>1. CASE req'[a] = req[a]
    BY <1>3, <2>1 DEF FollowAlone
  <2>2. CASE FollowCreates(a)
    <3>1. camp[req'[a].next].status = "absent"
      BY <1>3, <2>2, Created
    <3>2. camp[req[b].next].status # "absent"
      BY <1>3 DEF FollowAlone
    <3> QED BY <1>3, <3>1, <3>2
  <2> QED BY <1>1, <1>3, <2>1, <2>2
<1>4. ASSUME NEW a \in Requests, NEW b \in Requests, a # b,
             req'[a].pc = "insert", req'[b].pc = "insert"
      PROVE  req'[a].next # req'[b].next
  <2>1. req'[b] = req[b] \/ req'[a] = req[a]
    <3>1. CASE FollowCreates(b)
      BY <1>4, <3>1, OneActs DEF Acts, DrainStep
    <3> QED BY <1>1, <1>4, <3>1
  <2> QED BY <1>3, <1>4, <2>1
<1> QED BY <1>2, <1>4 DEF FollowAlone

LEMMA LinkedInit == Init => Linked
<1> SUFFICES ASSUME Init PROVE Linked
  OBVIOUS
<1>1. \A a \in Requests : req[a] = Idle
  BY DEF Init
<1>2. \A a \in Requests : req[a].pc = "idle" /\ Hands(a) = {}
  BY <1>1 DEF Idle, Hands
<1>3. /\ camp[First].status = "draft" /\ First \in Campaigns
      /\ \A c \in Campaigns : c # First => camp[c].status = "absent"
  BY CampaignAssumption DEF CampaignAssumption, Init, NoCampaign
<1>4. \A r \in Recipients : r[1] # First => rcpt[r].status = "absent"
  BY DEF Init, NoRecipient
<1>5. FirstOnly /\ NoList
  <2>1. FirstOnly
    BY <1>2, <1>3 DEF FirstOnly
  <2>2. NoList
    BY <1>3, <1>4 DEF NoList
  <2> QED BY <2>1, <2>2
<1>6. DrainsStarted /\ FollowAlone /\ CurApart
  BY <1>2 DEF DrainsStarted, FollowAlone, CurApart, Draining
<1>7. HandsKnown /\ HandsSending /\ HandsApart
  BY <1>2 DEF HandsKnown, HandsSending, HandsApart
<1> QED BY <1>5, <1>6, <1>7 DEF Linked

LEMMA LinkedStep == ASSUME Typed, Linked, [Next]_vars PROVE Linked'
BY FirstOnlyStep, DrainsStartedStep, NoListStep, FollowAloneStep, CurApartStep,
   HandsKnownStep, HandsSendingStep, HandsApartStep DEF Linked

(* Two requests never have one recipient of one list in hand, and a recipient in hand is
   marked as being sent: what the drains of queue.service.js rely on when several of them
   work on one campaign. *)
THEOREM HandsAreApart == Spec => []Linked
<1>1. Typed /\ Linked /\ [Next]_vars => Linked'
  BY LinkedStep
<1> QED BY <1>1, LinkedInit, CampaignTypes, PTL DEF Spec

(* A recipient who was written to, skipped or given up stays so, until the list is built
   anew. *)
THEOREM SettledStaysHolds == Spec => SettledStays
<1>1. ASSUME Typed, Linked, [Next]_vars
      PROVE  [\A r \in Recipients :
                rcpt[r].status \in Settled =>
                  \/ rcpt'[r] = rcpt[r]
                  \/ camp'[r[1]].list # camp[r[1]].list]_rcpt
  <2> SUFFICES ASSUME NEW r \in Recipients, rcpt[r].status \in Settled
               PROVE  rcpt'[r] = rcpt[r] \/ camp'[r[1]].list # camp[r[1]].list
    OBVIOUS
  <2> USE <1>1
  <2>1. rcpt[r].status \notin {"absent", "queued", "sending"}
    BY DEF Settled
  <2>2. RecipientWays(r)
    BY RecipientMoves
  <2>3. ASSUME NEW a \in Requests, NEW d \in Hands(a), Present(a, d), r = Of(a, d) PROVE FALSE
    BY <2>1, <2>3 DEF Linked, HandsSending
  <2>4. r[1] \in Campaigns /\ r[2] \in Contacts /\ r = <<r[1], r[2]>>
    BY DEF Recipients
  <2>5. ASSUME NEW b \in Requests, FollowInserts(b), r[1] = req[b].next PROVE FALSE
    <3>1. rcpt[<<req[b].next, r[2]>>].status = "absent"
      BY <2>4, <2>5 DEF Linked, FollowAlone, FollowInserts, At
    <3> QED BY <2>1, <2>4, <2>5, <3>1
  <2>6. ASSUME NEW b \in Requests, RebuildDeletes(b), r[1] = req[b].c
        PROVE  camp'[r[1]].list # camp[r[1]].list
    <3>1. camp' = [camp EXCEPT ![r[1]].list = @ + 1]
      BY <2>6 DEF RebuildDeletes
    <3>2. camp'[r[1]].list = camp[r[1]].list + 1 /\ camp[r[1]].list \in Nat
      BY <2>4, <3>1 DEF Typed, TypeOK, Campaign
    <3> QED BY <3>2
  <2> QED BY <2>1, <2>2, <2>3, <2>5, <2>6 DEF RecipientWays
<1> QED BY <1>1, CampaignTypes, HandsAreApart, PTL DEF Spec, SettledStays

-------------------------------------------------------------------------------
(* How often a recipient was written to.                                     *)

(* What is known of a recipient whose messages were all acknowledged, and whose list is
   the one the campaign was launched with: *)
Plainly(r) == r \notin unsure /\ r[1] \notin reshaped

(* one message at most, and none for those who wait... *)
Written ==
  \A r \in Recipients : Plainly(r) =>
    /\ mails[r] <= 1
    /\ rcpt[r].status \in {"absent", "queued"} => mails[r] = 0

(* ...or are in a batch, whose documents are all there... *)
BatchUnwritten ==
  \A a \in Requests : \A d \in Hands(a) : Plainly(Of(a, d)) =>
    /\ Present(a, d)
    /\ d \in req[a].batch => mails[Of(a, d)] = 0

(* ...and a draft has written to nobody. *)
DraftUnwritten == \A r \in Recipients : camp[r[1]].status = "draft" => mails[r] = 0

WrittenOnce == Written /\ BatchUnwritten /\ DraftUnwritten

(* What is remembered is not forgotten. *)
Grows ==
  /\ unsure \subseteq unsure' /\ reshaped \subseteq reshaped'
  /\ stranded \subseteq stranded' /\ overlap \subseteq overlap'

LEMMA HistoryGrows ==
  ASSUME Typed, [Next]_vars
  PROVE  Grows
<1>1. ASSUME NEW a \in Requests, Acts(a) PROVE Grows
  <2> USE DEF history, Grows
  <2>1. CASE \/ \E c \in Campaigns : Send(a, c) \/ SendLoads(a, c)
             \/ \E c \in Campaigns, action \in DOMAIN From : ControlLoads(a, c, action)
    BY <2>1 DEF Send, TakeLock, SendLoads, ControlLoads
  <2>2. CASE Lock(a) \/ NextBatch(a) \/ Claim(a) \/ ClaimsEnd(a) \/ Refresh(a)
    BY <2>2 DEF Lock, TakeLock, NextBatch, Claim, ClaimsEnd, Refresh
  <2>3. CASE SendStep(a)
    BY <2>3 DEF SendStep, SkipOne, Accepted, Refused, TimedOut, Record, RecordFails
  <2>4. CASE FinishReads(a) \/ FinishWrites(a) \/ FollowCreates(a) \/ FollowInserts(a) \/ Throws(a)
    BY <2>4 DEF FinishReads, FinishWrites, FollowCreates, FollowInserts, Throws
  <2>5. CASE ControlStep(a)
    BY <2>5 DEF ControlStep, Launch, CancelSkips, ControlSaves, RebuildDeletes, RebuildInserts
  <2> QED BY <1>1, <2>1, <2>2, <2>3, <2>4, <2>5 DEF Acts, DrainStep
<1>2. ASSUME WorldStep \/ UNCHANGED vars PROVE Grows
  BY <1>2 DEF WorldStep, OptOut, RetryComes, WindowPasses, LockExpires, Crash, vars, history, Grows
<1> QED BY <1>1, <1>2 DEF Next, Acts

(* The excused stay excused. *)
LEMMA ExcusesStay ==
  ASSUME Typed, [Next]_vars, NEW r \in Recipients, Plainly(r)'
  PROVE  /\ Plainly(r)
         /\ \A a \in Requests : RebuildDeletes(a) /\ r[1] = req[a].c => camp[r[1]].status = "draft"
<1>1. ASSUME NEW a \in Requests, RebuildDeletes(a), r[1] = req[a].c PROVE camp[r[1]].status = "draft"
  BY <1>1 DEF RebuildDeletes, Plainly
<1> QED BY <1>1, HistoryGrows DEF Plainly, Grows

(* Messages go out one at a time, in two ways. *)
LEMMA MailedBy ==
  ASSUME Typed, [Next]_vars
  PROVE  \/ mails' = mails
         \/ \E a \in Requests : \E d \in req[a].batch : Accepted(a, d) \/ TimedOut(a, d)
<1>1. ASSUME NEW a \in Requests, Acts(a)
      PROVE  \/ mails' = mails
             \/ \E d \in req[a].batch : Accepted(a, d) \/ TimedOut(a, d)
  <2> USE DEF history
  <2>1. CASE \/ \E c \in Campaigns : Send(a, c) \/ SendLoads(a, c)
             \/ \E c \in Campaigns, action \in DOMAIN From : ControlLoads(a, c, action)
    BY <2>1 DEF Send, SendLoads, ControlLoads
  <2>2. CASE Lock(a) \/ NextBatch(a) \/ Claim(a) \/ ClaimsEnd(a) \/ Refresh(a)
    BY <2>2 DEF Lock, NextBatch, Claim, ClaimsEnd, Refresh
  <2>3. CASE SendStep(a)
    BY <2>3 DEF SendStep, SkipOne, Refused, Record, RecordFails
  <2>4. CASE FinishReads(a) \/ FinishWrites(a) \/ FollowCreates(a) \/ FollowInserts(a) \/ Throws(a)
    BY <2>4 DEF FinishReads, FinishWrites, FollowCreates, FollowInserts, Throws
  <2>5. CASE ControlStep(a)
    BY <2>5 DEF ControlStep, Launch, CancelSkips, ControlSaves, RebuildDeletes, RebuildInserts
  <2> QED BY <1>1, <2>1, <2>2, <2>3, <2>4, <2>5 DEF Acts, DrainStep
<1>2. CASE WorldStep \/ UNCHANGED vars
  BY <1>2 DEF WorldStep, OptOut, RetryComes, WindowPasses, LockExpires, Crash, vars, history
<1> QED BY <1>1, <1>2 DEF Next, Acts

(* Only a message that goes out is counted, and one the provider does not acknowledge is
   remembered. *)
LEMMA MailMoves ==
  ASSUME Typed, [Next]_vars, NEW r \in Recipients, r \notin unsure'
  PROVE  \/ mails'[r] = mails[r]
         \/ \E a \in Requests : \E d \in req[a].batch :
              /\ Accepted(a, d) /\ d \in Hands(a) /\ r = Of(a, d)
              /\ mails'[r] = mails[r] + 1
<1>0. mails \in [Recipients -> Nat]
  BY DEF Typed, TypeOK
<1>1. ASSUME NEW a \in Requests, NEW d \in req[a].batch, Accepted(a, d)
      PROVE  /\ d \in Hands(a)
             /\ mails'[r] = mails[r] \/ (r = Of(a, d) /\ mails'[r] = mails[r] + 1)
  <2>1. d \in Hands(a)
    BY <1>1 DEF Accepted, At, Hands
  <2>2. mails' = [mails EXCEPT ![Of(a, d)] = @ + 1]
    BY <1>1 DEF Accepted
  <2> QED BY <1>0, <2>1, <2>2
<1>2. ASSUME NEW a \in Requests, NEW d \in req[a].batch, TimedOut(a, d)
      PROVE  mails'[r] = mails[r]
  <2>1. r # Of(a, d)
    BY <1>2 DEF TimedOut
  <2>2. mails' = [mails EXCEPT ![Of(a, d)] = @ + 1]
    BY <1>2 DEF TimedOut
  <2> QED BY <1>0, <2>1, <2>2
<1> QED BY <1>1, <1>2, MailedBy

(* A message that goes out is one in hand. *)
LEMMA MailedInHand ==
  ASSUME Typed, [Next]_vars, NEW r \in Recipients, mails'[r] # mails[r]
  PROVE  \E a \in Requests : \E d \in Hands(a) : r = Of(a, d)
<1>0. mails \in [Recipients -> Nat]
  BY DEF Typed, TypeOK
<1>1. ASSUME NEW a \in Requests, NEW d \in req[a].batch, Accepted(a, d) \/ TimedOut(a, d)
      PROVE  r = Of(a, d) /\ d \in Hands(a)
  <2>1. mails' = [mails EXCEPT ![Of(a, d)] = @ + 1] /\ req[a].pc = "send"
    BY <1>1 DEF Accepted, TimedOut, At
  <2> QED BY <1>0, <2>1 DEF Hands
<1> QED BY <1>1, MailedBy

LEMMA WrittenStep == ASSUME Typed, Linked, WrittenOnce, [Next]_vars PROVE Written'
<1> SUFFICES ASSUME NEW r \in Recipients, Plainly(r)'
             PROVE  /\ mails'[r] <= 1
                    /\ rcpt'[r].status \in {"absent", "queued"} => mails'[r] = 0
  BY DEF Written
<1> USE DEF WrittenOnce, Linked
<1>0. mails[r] \in Nat /\ r \notin unsure'
  BY DEF Typed, TypeOK, Plainly
<1>1. Plainly(r)
  BY ExcusesStay
<1>2. mails[r] <= 1 /\ (rcpt[r].status \in {"absent", "queued"} => mails[r] = 0)
  BY <1>1 DEF Written
<1>3. ASSUME NEW a \in Requests, NEW d \in req[a].batch, d \in Hands(a), r = Of(a, d)
      PROVE  mails[r] = 0 /\ Present(a, d) /\ rcpt[r].status = "sending"
  BY <1>1, <1>3 DEF BatchUnwritten, HandsSending
<1>4. ASSUME NEW a \in Requests, NEW d \in req[a].batch, Accepted(a, d), d \in Hands(a), r = Of(a, d),
             mails'[r] = mails[r] + 1
      PROVE  mails'[r] = 1 /\ rcpt'[r].status = "sending"
  <2>1. rcpt' = rcpt
    BY <1>4 DEF Accepted
  <2> QED BY <1>3, <1>4, <2>1
<1>5. ASSUME mails'[r] = mails[r], rcpt'[r].status \in {"absent", "queued"}
      PROVE  mails[r] = 0
  <2>1. RecipientWays(r)
    BY RecipientMoves
  <2>2. ASSUME NEW a \in Requests, NEW d \in Hands(a), Releases(a, d), Present(a, d), r = Of(a, d),
               rcpt'[r].status \in Settled \cup {"queued"}
        PROVE  mails[r] = 0
    <3>1. CASE d \in req[a].batch
      BY <1>3, <2>2, <3>1
    <3>2. CASE Record(a) \/ RecordFails(a)
      <4>1. d = req[a].cur
        BY <2>2, <3>2 DEF Releases, Record, RecordFails, SkipOne, Refused, TimedOut, At
      <4>2. \E s \in {"sent", "failed"} : rcpt' = [rcpt EXCEPT ![r].status = s]
        BY <2>2, <3>2, <4>1 DEF Record, RecordFails, CatchUnknown
      <4>3. rcpt'[r].status \in {"sent", "failed"}
        BY <4>2, StatusPut DEF Settled
      <4> QED BY <1>5, <4>3
    <3> QED BY <2>2, <3>1, <3>2 DEF Releases
  <2>3. ASSUME NEW b \in Requests, FollowInserts(b), r[1] = req[b].next PROVE mails[r] = 0
    <3>1. r[2] \in Contacts /\ r = <<r[1], r[2]>>
      BY DEF Recipients
    <3>2. rcpt[<<req[b].next, r[2]>>].status = "absent"
      BY <2>3, <3>1 DEF FollowAlone, FollowInserts, At
    <3> QED BY <1>2, <2>3, <3>1, <3>2
  <2>4. ASSUME NEW b \in Requests, RebuildDeletes(b), r[1] = req[b].c PROVE mails[r] = 0
    BY <2>4, ExcusesStay DEF DraftUnwritten
  <2>5. "skipped" \notin {"absent", "queued"} /\ "sending" \notin {"absent", "queued"}
    OBVIOUS
  <2> QED BY <1>2, <1>5, <2>1, <2>2, <2>3, <2>4, <2>5 DEF RecipientWays
<1>6. CASE mails'[r] = mails[r]
  <2>1. mails'[r] <= 1
    BY <1>2, <1>6
  <2>2. rcpt'[r].status \in {"absent", "queued"} => mails'[r] = 0
    BY <1>5, <1>6
  <2> QED BY <2>1, <2>2
<1>7. ASSUME NEW a \in Requests, NEW d \in req[a].batch, Accepted(a, d), d \in Hands(a), r = Of(a, d),
             mails'[r] = mails[r] + 1
      PROVE  /\ mails'[r] <= 1
             /\ rcpt'[r].status \in {"absent", "queued"} => mails'[r] = 0
  <2>1. mails'[r] = 1 /\ rcpt'[r].status = "sending"
    BY <1>4, <1>7
  <2> HIDE DEF WrittenOnce, Linked
  <2> QED BY <2>1
<1> QED BY <1>0, <1>6, <1>7, MailMoves

LEMMA DraftUnwrittenStep == ASSUME Typed, Linked, WrittenOnce, [Next]_vars PROVE DraftUnwritten'
<1> SUFFICES ASSUME NEW r \in Recipients, camp'[r[1]].status = "draft" PROVE mails'[r] = 0
  BY DEF DraftUnwritten
<1> USE DEF WrittenOnce, Linked
<1>0. mails \in [Recipients -> Nat] /\ r[1] \in Campaigns
  BY DEF Typed, TypeOK, Recipients
<1>1. camp[r[1]].status = "draft" /\ mails[r] = 0
  BY <1>0, StaysThere DEF DraftUnwritten
<1>2. ASSUME NEW a \in Requests, NEW d \in Hands(a), r = Of(a, d) PROVE FALSE
  <2>1. req[a].pc \in Draining /\ r[1] = req[a].c
    BY <1>2, HandsDrain DEF Of
  <2> QED BY <1>1, <2>1 DEF DrainsStarted
<1>3. mails'[r] = mails[r]
  BY <1>2, MailedInHand
<1> QED BY <1>1, <1>3

(* The batch after a step was the batch before it, but for a claim. *)
LEMMA BatchBefore ==
  ASSUME Typed, CurApart, [Next]_vars, NEW a \in Requests,
         NEW d \in Hands(a)', d \in Hands(a), d \in req'[a].batch
  PROVE  d \in req[a].batch
<1> SUFFICES ASSUME req[a].pc = "record", d = req[a].cur PROVE FALSE
  BY DEF Hands
<1>1. req'[a] # Idle
  BY DEF Idle, Hands
<1>2. req'[a] # req[a]
  BY DEF CurApart
<1>3. Acts(a)
  BY <1>1, <1>2, WhoMoves
<1>4. Record(a) \/ RecordFails(a) \/ Throws(a)
  <2>1. ~\E c \in Campaigns : Send(a, c) \/ SendLoads(a, c)
    BY DEF Send, SendLoads, At
  <2>2. ~\E c \in Campaigns, action \in DOMAIN From : ControlLoads(a, c, action)
    BY DEF ControlLoads, At
  <2>3. ~(Lock(a) \/ NextBatch(a) \/ Claim(a) \/ ClaimsEnd(a) \/ Refresh(a))
    BY DEF Lock, NextBatch, Claim, ClaimsEnd, Refresh, At
  <2>4. ~\E e \in req[a].batch : SkipOne(a, e) \/ Accepted(a, e) \/ Refused(a, e) \/ TimedOut(a, e)
    BY DEF SkipOne, Accepted, Refused, TimedOut, At
  <2>5. ~(FinishReads(a) \/ FinishWrites(a) \/ FollowCreates(a) \/ FollowInserts(a))
    BY DEF FinishReads, FinishWrites, FollowCreates, FollowInserts, At
  <2>6. ~ControlStep(a)
    BY DEF ControlStep, Launch, CancelSkips, ControlSaves, RebuildDeletes, RebuildInserts, At
  <2> QED BY <1>3, <2>1, <2>2, <2>3, <2>4, <2>5, <2>6 DEF Acts, DrainStep, SendStep
<1>5. ~Throws(a)
  BY <1>1 DEF Throws, Typed, TypeOK
<1>6. Releases(a, d)
  BY <1>4, <1>5 DEF Releases
<1> QED BY <1>6, HandMoves

LEMMA BatchUnwrittenStep == ASSUME Typed, Linked, WrittenOnce, [Next]_vars PROVE BatchUnwritten'
<1> SUFFICES ASSUME NEW a \in Requests, NEW d \in Hands(a)', Plainly(Of(a, d))'
             PROVE  /\ Present(a, d)'
                    /\ d \in req'[a].batch => mails'[Of(a, d)'] = 0
  BY DEF BatchUnwritten
<1> USE DEF WrittenOnce, Linked
<1> DEFINE c == req[a].c
           r == Of(a, d)
<1>1. req'[a].c = c /\ Of(a, d)' = r
  BY HandBefore DEF Of
<1>3. r \in Recipients /\ r[1] = c /\ c \in Campaigns
  <2>1. d \in Hands(a) => d \in Docs /\ c \in Campaigns
    BY HandsDrain
  <2>2. Claim(a) /\ d = Doc(c, d[1]) /\ d[1] \in Contacts => d[1] \in Contacts /\ c \in Campaigns
    BY DEF Claim, At, Typed, RequestsOK, ReqOK
  <2>3. d[1] \in Contacts /\ c \in Campaigns
    BY <2>1, <2>2, HandBefore DEF Docs
  <2> QED BY <2>3 DEF Of, Recipients
<1>4. Plainly(r) /\ r \notin unsure'
  BY <1>1, <1>3, ExcusesStay DEF Plainly
<1>5. CASE Claim(a) /\ d = Doc(c, d[1]) /\ Claimable(c, d[1])
  <2>1. camp' = camp /\ mails' = mails
    BY <1>5 DEF Claim
  <2>2. Present(a, d)'
    BY <1>1, <1>5, <2>1 DEF Present, Doc
  <2>3. rcpt[r].status = "queued"
    BY <1>5 DEF Claimable, Of
  <2>4. mails[r] = 0
    BY <1>3, <1>4, <2>3 DEF Written
  <2> QED BY <1>1, <2>1, <2>2, <2>4
<1>6. CASE d \in Hands(a)
  <2>1. Present(a, d) /\ camp[c].status \notin {"absent", "draft"}
    BY <1>4, <1>6, HandsDrain DEF BatchUnwritten, DrainsStarted
  <2>2. camp'[c].list = camp[c].list
    <3>1. Stays(c)
      BY <1>3, CampaignMoves
    <3>2. ASSUME NEW b \in Requests, RebuildDeletes(b), req[b].c = c PROVE FALSE
      BY <1>1, <1>3, <2>1, <3>2, ExcusesStay
    <3> HIDE DEF c
    <3> QED BY <2>1, <3>1, <3>2 DEF Stays
  <2>3. Present(a, d)'
    BY <1>1, <2>1, <2>2 DEF Present
  <2>4. ASSUME d \in req'[a].batch PROVE mails'[r] = 0
    <3>1. d \in req[a].batch
      BY <1>6, <2>4, BatchBefore
    <3>2. mails[r] = 0
      BY <1>4, <1>6, <3>1 DEF BatchUnwritten
    <3>3. ASSUME NEW b \in Requests, NEW e \in req[b].batch, Accepted(b, e), e \in Hands(b), r = Of(b, e)
          PROVE  FALSE
      <4>1. Present(b, e)
        BY <1>4, <3>3 DEF BatchUnwritten
      <4>2. d = e /\ req[a].c = req[b].c
        BY <1>6, <2>1, <3>3, <4>1, OneDoc
      <4>3. a = b
        BY <1>6, <2>1, <3>3, <4>2 DEF HandsApart
      <4>4. req'[a].batch = req[a].batch \ {d}
        BY <3>3, <4>2, <4>3, AcceptedHands
      <4> QED BY <2>4, <4>4
    <3> HIDE DEF r
    <3> QED BY <1>3, <1>4, <3>2, <3>3, MailMoves
  <2> QED BY <1>1, <2>3, <2>4
<1> QED BY <1>5, <1>6, HandBefore

(* No recipient is written to twice, however many drains share the campaign and whatever
   dies or throws, unless the provider took a message without saying so or the list was
   rebuilt under a campaign already launched. *)
THEOREM MailedOnceHolds == Spec => []MailedOnce
<1>1. Init => WrittenOnce
  <2> SUFFICES ASSUME Init PROVE WrittenOnce
    OBVIOUS
  <2>1. \A r \in Recipients : mails[r] = 0
    BY DEF Init
  <2>2. \A a \in Requests : Hands(a) = {}
    BY DEF Init, Idle, Hands
  <2> QED BY <2>1, <2>2 DEF WrittenOnce, Written, BatchUnwritten, DraftUnwritten
<1>2. Typed /\ Linked /\ WrittenOnce /\ [Next]_vars => WrittenOnce'
  BY WrittenStep, BatchUnwrittenStep, DraftUnwrittenStep DEF WrittenOnce
<1>3. Typed /\ WrittenOnce => MailedOnce
  <2> SUFFICES ASSUME Typed, WrittenOnce, NEW r \in Recipients, mails[r] > 1, Plainly(r) PROVE FALSE
    BY DEF MailedOnce, Plainly
  <2>1. mails[r] <= 1 /\ mails[r] \in Nat
    BY DEF WrittenOnce, Written, Typed, TypeOK
  <2> QED BY <2>1
<1> QED BY <1>1, <1>2, <1>3, CampaignTypes, HandsAreApart, PTL DEF Spec

-------------------------------------------------------------------------------
(* A pause or a cancellation takes effect at the next batch.                 *)

(* Two drains at a time were seen. *)
TwoSeen ==
  \A a, b \in Requests :
    a # b /\ req[a].pc \in Draining /\ req[b].pc \in Draining => {req[a].c, req[b].c} \in overlap

(* A drain that goes on is of the campaign it was of, or has just taken the lock. *)
LEMMA DrainBefore ==
  ASSUME Typed, [Next]_vars, NEW a \in Requests, req'[a].pc \in Draining
  PROVE  \/ req[a].pc \in Draining /\ req'[a].c = req[a].c
         \/ /\ TakeLock(a, req'[a].c) /\ req'[a].c \in Campaigns
            /\ req'[a].pc = "batch" /\ req[a].pc \in {"idle", "lock"} /\ Acts(a)
<1>1. req'[a] # Idle
  BY DEF Idle, Draining
<1> QED BY <1>1, WhoMoves, Enters

LEMMA TwoSeenStep == ASSUME Typed, TwoSeen, [Next]_vars PROVE TwoSeen'
<1> SUFFICES ASSUME NEW a \in Requests, NEW b \in Requests, a # b,
                    req'[a].pc \in Draining, req'[b].pc \in Draining
             PROVE  {req'[a].c, req'[b].c} \in overlap'
  BY DEF TwoSeen
<1>1. ASSUME NEW x \in Requests, NEW y \in Requests, x # y, TakeLock(x, req'[x].c), Acts(x),
             req'[y].pc \in Draining
      PROVE  {req'[x].c, req'[y].c} \in overlap'
  <2>1. req'[y] = req[y]
    BY <1>1, OneActs
  <2>2. overlap' = overlap \cup {{req'[x].c, req[z].c} : z \in {z \in Requests : req[z].pc \in Draining}}
    BY <1>1 DEF TakeLock
  <2>3. y \in {z \in Requests : req[z].pc \in Draining}
    BY <1>1, <2>1
  <2>4. {req'[x].c, req[y].c} \in {{req'[x].c, req[z].c} : z \in {z \in Requests : req[z].pc \in Draining}}
    BY <2>3
  <2> QED BY <2>1, <2>2, <2>4
<1>2. CASE /\ req[a].pc \in Draining /\ req'[a].c = req[a].c
           /\ req[b].pc \in Draining /\ req'[b].c = req[b].c
  BY <1>2, HistoryGrows DEF TwoSeen, Grows
<1>3. {req'[a].c, req'[b].c} = {req'[b].c, req'[a].c}
  OBVIOUS
<1> QED BY <1>1, <1>2, <1>3, DrainBefore

(* One drain at a time works on a campaign outside overlap. *)
LEMMA OneDrain ==
  ASSUME TwoSeen, NEW a \in Requests, NEW b \in Requests,
         req[a].pc \in Draining, req[b].pc \in Draining, req[a].c = req[b].c, {req[a].c} \notin overlap
  PROVE  a = b
BY DEF TwoSeen

(* What a drain that is alone may still claim once the campaign is stopped. *)
LateBounded ==
  \A c \in Campaigns : {c} \notin overlap =>
    /\ late[c] <= BatchSize
    /\ \A a \in Requests : req[a].pc = "claim" /\ req[a].c = c =>
         /\ req[a].left <= BatchSize
         /\ IsStopped(c) => late[c] + req[a].left <= BatchSize

(* Who is late is counted by claims, and from nothing again when the status is saved. *)
LEMMA LateMoves ==
  ASSUME Typed, [Next]_vars, NEW c \in Campaigns
  PROVE  \/ late'[c] = late[c] /\ ~\E a \in Requests : ControlSaves(a) /\ req[a].c = c
         \/ late'[c] = 0
         \/ \E a \in Requests : /\ Claim(a) /\ req[a].c = c /\ IsStopped(c)
                               /\ late'[c] = late[c] + 1
<1>0. late \in [Campaigns -> Nat]
  BY DEF Typed, TypeOK
<1>1. ASSUME NEW a \in Requests, Claim(a)
      PROVE  late'[c] = late[c] \/ (req[a].c = c /\ IsStopped(c) /\ late'[c] = late[c] + 1)
  <2>1. PICK k \in Contacts :
          late' = [late EXCEPT ![req[a].c] = IF camp[req[a].c].status \in Stopped THEN @ + 1 ELSE @]
    BY <1>1, ClaimEffect
  <2> QED BY <1>0, <2>1 DEF IsStopped
<1>2. ASSUME NEW a \in Requests, ControlSaves(a)
      PROVE  late'[c] = IF req[a].c = c THEN 0 ELSE late[c]
  BY <1>0, <1>2 DEF ControlSaves
<1>3. ASSUME NEW a \in Requests, Acts(a) PROVE Claim(a) \/ ControlSaves(a) \/ late' = late
  <2> USE DEF history
  <2>1. CASE \/ \E f \in Campaigns : Send(a, f) \/ SendLoads(a, f)
             \/ \E f \in Campaigns, action \in DOMAIN From : ControlLoads(a, f, action)
    BY <2>1 DEF Send, SendLoads, ControlLoads
  <2>2. CASE Lock(a) \/ NextBatch(a) \/ ClaimsEnd(a) \/ Refresh(a)
    BY <2>2 DEF Lock, NextBatch, ClaimsEnd, Refresh
  <2>3. CASE SendStep(a)
    BY <2>3 DEF SendStep, SkipOne, Accepted, Refused, TimedOut, Record, RecordFails
  <2>4. CASE FinishReads(a) \/ FinishWrites(a) \/ FollowCreates(a) \/ FollowInserts(a) \/ Throws(a)
    BY <2>4 DEF FinishReads, FinishWrites, FollowCreates, FollowInserts, Throws
  <2>5. CASE ControlStep(a)
    BY <2>5 DEF ControlStep, Launch, CancelSkips, RebuildDeletes, RebuildInserts
  <2> QED BY <1>3, <2>1, <2>2, <2>3, <2>4, <2>5 DEF Acts, DrainStep
<1>4. ASSUME WorldStep \/ UNCHANGED vars PROVE late' = late
  BY <1>4 DEF WorldStep, OptOut, RetryComes, WindowPasses, LockExpires, Crash, vars, history
<1>5. ASSUME late' = late, NEW a \in Requests, ControlSaves(a), req[a].c = c PROVE late'[c] = 0
  BY <1>2, <1>5
<1>6. ASSUME late'[c] = late[c] PROVE late'[c] = 0 \/ ~\E a \in Requests : ControlSaves(a) /\ req[a].c = c
  BY <1>2
<1>7. \/ \E a \in Requests : Claim(a) \/ ControlSaves(a)
      \/ late' = late
  BY <1>3, <1>4 DEF Next, Acts
<1> QED BY <1>1, <1>2, <1>6, <1>7

(* A claim uses up one of those the batch may still take. *)
LEMMA ClaimLeft ==
  ASSUME Typed, NEW a \in Requests, Claim(a)
  PROVE  req'[a].left = req[a].left - 1 /\ req'[a].c = req[a].c
<1>0. req \in [Requests -> Request]
  BY DEF Typed, TypeOK
<1>1. PICK k \in Contacts :
       req' = [req EXCEPT ![a].batch = @ \cup {Doc(req[a].c, k)}, ![a].left = @ - 1,
                          ![a].pc = IF req[a].left = 1 THEN "send" ELSE "claim"]
  BY DEF Claim
<1> DEFINE d == Doc(req[a].c, k)
           n == req[a].left - 1
           pc == IF req[a].left = 1 THEN "send" ELSE "claim"
<1>2. req' = [req EXCEPT ![a].batch = @ \cup {d}, ![a].left = n, ![a].pc = pc]
  BY <1>1
<1> HIDE DEF d, n, pc
<1>3. req'[a].left = n /\ req'[a].c = req[a].c
  BY <1>0, <1>2 DEF Request
<1> QED BY <1>3 DEF n

(* A request that claims has claimed, or has just read the status. *)
LEMMA ClaimBefore ==
  ASSUME Typed, [Next]_vars, NEW a \in Requests, req'[a].pc = "claim"
  PROVE  \/ req'[a] = req[a]
         \/ /\ NextBatch(a) /\ ~IsStopped(req[a].c) /\ req'[a].left <= BatchSize
            /\ req'[a].c = req[a].c
         \/ Claim(a) /\ req'[a].left = req[a].left - 1 /\ req'[a].c = req[a].c
<1>0. req \in [Requests -> Request] /\ ReqOK(req[a]) /\ req[a] \in Request
  BY DEF Typed, TypeOK, RequestsOK
<1>1. CASE NextBatch(a)
  <2> DEFINE n == Least(BatchSize, Allowed)
  <2>1. ~(IsStopped(req[a].c) \/ Allowed = 0)
    <3>1. ASSUME req' = [req EXCEPT ![a].pc = "finish"] PROVE FALSE
      BY <1>0, <3>1 DEF Request
    <3> QED BY <1>1, <3>1 DEF NextBatch, Goto
  <2>2. req' = [req EXCEPT ![a].pc = "claim", ![a].left = n]
    BY <1>1, <2>1 DEF NextBatch
  <2>3. n <= BatchSize
    <3>1. Allowed \in Nat /\ BatchSize \in Nat
      BY Positive DEF Allowed, Typed, TypeOK
    <3> HIDE DEF n
    <3> QED BY <3>1 DEF n, Least
  <2> HIDE DEF n
  <2>4. req'[a].left = n /\ req'[a].c = req[a].c
    BY <1>0, <2>2 DEF Request
  <2> QED BY <1>1, <2>1, <2>3, <2>4
<1>2. CASE Claim(a)
  BY <1>2, ClaimLeft
<1>3. CASE Acts(a) /\ ~NextBatch(a) /\ ~Claim(a)
  BY <1>3, Enters
<1>4. req'[a] # Idle
  BY DEF Idle
<1> QED BY <1>1, <1>2, <1>3, <1>4, WhoMoves

(* A campaign is told to stop by a request that saves its status. *)
LEMMA StoppedBy ==
  ASSUME Typed, [Next]_vars, NEW c \in Campaigns, IsStopped(c)', ~IsStopped(c)
  PROVE  \E a \in Requests : ControlSaves(a) /\ req[a].c = c
<1>1. camp'[c].status \in {"paused", "cancelled"} /\ camp[c].status # camp'[c].status
  BY DEF IsStopped, Stopped
<1>2. Ways(c)
  BY CampaignMoves
<1> QED BY <1>1, <1>2 DEF Ways

LEMMA LateStep == ASSUME Typed, TwoSeen, LateBounded, [Next]_vars PROVE LateBounded'
<1> SUFFICES ASSUME NEW c \in Campaigns, {c} \notin overlap'
             PROVE  /\ late'[c] <= BatchSize
                    /\ \A a \in Requests : req'[a].pc = "claim" /\ req'[a].c = c =>
                         /\ req'[a].left <= BatchSize
                         /\ IsStopped(c)' => late'[c] + req'[a].left <= BatchSize
  BY DEF LateBounded
<1>1. {c} \notin overlap
  BY HistoryGrows DEF Grows
<1>2. BatchSize \in Nat /\ late[c] \in Nat /\ late'[c] \in Nat
  <2>1. Typed'
    BY TypeStep
  <2> QED BY <2>1, Positive DEF Typed, TypeOK
<1>3. late[c] <= BatchSize
  BY <1>1 DEF LateBounded
<1>4. ASSUME NEW a \in Requests, req[a].pc = "claim", req[a].c = c
      PROVE  /\ req[a].left <= BatchSize /\ req[a].left \in Nat \ {0}
             /\ IsStopped(c) => late[c] + req[a].left <= BatchSize
  BY <1>1, <1>4 DEF LateBounded, Typed, RequestsOK, ReqOK, Request
<1>5. late'[c] <= BatchSize
  <2>1. ASSUME NEW a \in Requests, Claim(a), req[a].c = c, IsStopped(c), late'[c] = late[c] + 1
        PROVE  late'[c] <= BatchSize
    <3>1. req[a].pc = "claim"
      BY <2>1 DEF Claim, At
    <3> QED BY <1>2, <1>4, <2>1, <3>1
  <2> QED BY <1>2, <1>3, <2>1, LateMoves
<1>6. ASSUME NEW a \in Requests, req'[a].pc = "claim", req'[a].c = c
      PROVE  /\ req'[a].left <= BatchSize
             /\ IsStopped(c)' => late'[c] + req'[a].left <= BatchSize
  <2>0. req'[a].left \in Nat
    <3>1. Typed'
      BY TypeStep
    <3> QED BY <3>1 DEF Typed, TypeOK, Request
  <2>1. CASE ~IsStopped(c)
    <3>1. req'[a].left <= BatchSize
      <4>1. CASE req'[a] = req[a]
        BY <1>4, <1>6, <4>1
      <4>2. CASE Claim(a) /\ req'[a].left = req[a].left - 1 /\ req'[a].c = req[a].c
        <5>1. req[a].left \in Nat /\ req[a].left <= BatchSize
          BY <1>4, <1>6, <4>2 DEF Claim, At
        <5> QED BY <1>2, <4>2, <5>1
      <4> QED BY <1>6, <4>1, <4>2, ClaimBefore
    <3>2. IsStopped(c)' => late'[c] = 0
      <4>1. ~\E b \in Requests : Claim(b) /\ req[b].c = c /\ IsStopped(c)
        BY <2>1
      <4> QED BY <2>1, <4>1, LateMoves, StoppedBy
    <3> QED BY <1>2, <2>0, <3>1, <3>2
  <2>2. CASE IsStopped(c)
    <3>1. req[a].pc = "claim" /\ req[a].c = c
      BY <1>6, <2>2, ClaimBefore DEF Claim, At
    <3>2. \/ req'[a] = req[a]
          \/ Claim(a) /\ req'[a].left = req[a].left - 1
      BY <1>6, <2>2, ClaimBefore
    <3>3. late[c] + req[a].left <= BatchSize /\ req[a].left \in Nat /\ req[a].left <= BatchSize
      BY <1>4, <2>2, <3>1
    <3>4. ASSUME NEW b \in Requests, Claim(b), req[b].c = c, late'[c] = late[c] + 1, req'[a] = req[a]
          PROVE  FALSE
      <4>1. req[b].pc = "claim"
        BY <3>4 DEF Claim, At
      <4>2. a = b
        BY <1>1, <3>1, <3>4, <4>1, OneDrain DEF Draining
      <4>3. req'[a].left = req[a].left - 1
        BY <3>4, <4>2, ClaimLeft
      <4> QED BY <3>3, <3>4, <4>2, <4>3
    <3>5. CASE late'[c] = 0
      BY <1>2, <2>0, <3>2, <3>3, <3>5
    <3>6. CASE late'[c] = late[c]
      BY <1>2, <2>0, <3>2, <3>3, <3>6
    <3>7. CASE Claim(a) /\ req'[a].left = req[a].left - 1 /\ late'[c] = late[c] + 1
      BY <1>2, <2>0, <3>3, <3>7
    <3>8. late'[c] = 0 \/ late'[c] = late[c] \/ late'[c] = late[c] + 1
      BY LateMoves
    <3>9. CASE late'[c] = late[c] + 1
      <4>1. late'[c] # late[c] /\ late'[c] # 0
        BY <1>2, <3>9
      <4>2. \E b \in Requests : Claim(b) /\ req[b].c = c
        BY <4>1, LateMoves
      <4> QED BY <3>2, <3>4, <3>7, <3>9, <4>2
    <3> QED BY <3>5, <3>6, <3>8, <3>9
  <2> QED BY <2>1, <2>2
<1> QED BY <1>5, <1>6

(* A drain that is alone claims no more, after the campaign was paused or cancelled, than
   the batch it had begun. *)
THEOREM StopsHolds == Spec => []StopsWithinBatch
<1>1. Init => TwoSeen /\ LateBounded
  <2> SUFFICES ASSUME Init PROVE TwoSeen /\ LateBounded
    OBVIOUS
  <2>1. \A a \in Requests : req[a].pc = "idle"
    BY DEF Init, Idle
  <2>2. \A c \in Campaigns : late[c] = 0
    BY DEF Init
  <2> QED BY <2>1, <2>2, Positive DEF TwoSeen, LateBounded, Draining
<1>2. Typed /\ TwoSeen /\ LateBounded /\ [Next]_vars => (TwoSeen /\ LateBounded)'
  BY TwoSeenStep, LateStep
<1>3. Typed /\ LateBounded => StopsWithinBatch
  <2> SUFFICES ASSUME Typed, LateBounded, NEW c \in Campaigns, late[c] > BatchSize, {c} \notin overlap
               PROVE  FALSE
    BY DEF StopsWithinBatch
  <2>1. late[c] <= BatchSize /\ late[c] \in Nat /\ BatchSize \in Nat
    BY Positive DEF LateBounded, Typed, TypeOK
  <2> QED BY <2>1
<1> QED BY <1>1, <1>2, <1>3, CampaignTypes, PTL DEF Spec

-------------------------------------------------------------------------------
(* What a completed campaign owes.                                           *)

(* Campaigns whose drains never met and whose list is as it was launched. *)
Undisturbed(c) == {c} \notin overlap /\ c \notin reshaped

(* A campaign that is completed, or was when a request last looked. *)
Over(c) ==
  \/ camp[c].status = "completed"
  \/ \E a \in Requests : /\ req[a].c = c
                        /\ \/ req[a].pc \in {"lock", "follow"}
                           \/ req[a].pc = "write" /\ req[a].ended

Drained(c) == \E a \in Requests : req[a].pc \in Draining /\ req[a].c = c

(* A campaign that was drained is no draft, and no follow-up whose recipients are still
   to be inserted. *)
Begun ==
  \A c \in Campaigns : Over(c) \/ Drained(c) =>
    camp[c].status \notin {"absent", "draft"} /\ (camp[c].status = "scheduled" => c = First)

LEMMA BegunStep == ASSUME Typed, Linked, Begun, [Next]_vars PROVE Begun'
<1> SUFFICES ASSUME NEW c \in Campaigns, Over(c)' \/ Drained(c)'
             PROVE  /\ camp'[c].status \notin {"absent", "draft"}
                    /\ camp'[c].status = "scheduled" => c = First
  BY DEF Begun
<1>1. Ways(c)
  BY CampaignMoves
<1>2. CASE Over(c) \/ Drained(c)
  <2>1. camp[c].status \notin {"absent", "draft"} /\ (camp[c].status = "scheduled" => c = First)
    BY <1>2 DEF Begun
  <2>2. \A a \in Requests : Launch(a) => req[a].c = First
    BY DEF Launch, At, Linked, FirstOnly
  <2> QED BY <1>1, <2>1, <2>2 DEF Ways
<1>3. CASE camp'[c].status = "completed"
  BY <1>3
<1>4. ASSUME NEW a \in Requests, TakeLock(a, c) PROVE camp'[c].status = "running"
  <2>1. camp' = [camp EXCEPT ![c].status = "running", ![c].lock = "held"]
    BY <1>4 DEF TakeLock
  <2> QED BY <2>1, FieldsPut
<1>5. ASSUME NEW a \in Requests, req'[a].c = c, req'[a].pc \in {"lock", "follow"} \cup Draining
      PROVE  Over(c) \/ Drained(c) \/ TakeLock(a, c)
  <2>1. req'[a] # Idle
    BY <1>5 DEF Idle, Draining
  <2>2. CASE req'[a] = req[a]
    BY <1>5, <2>2 DEF Over, Drained
  <2>3. CASE Acts(a) /\ req'[a].pc \in Draining
    BY <1>5, <2>3, Enters DEF Drained
  <2>4. CASE Acts(a) /\ req'[a].pc = "lock"
    <3>1. camp[c].status = "completed"
      BY <1>5, <2>4, Enters DEF SendLoads
    <3> QED BY <3>1 DEF Over
  <2>5. CASE Acts(a) /\ req'[a].pc = "follow"
    <3>1. (Lock(a) \/ FinishWrites(a)) /\ req[a].c = c
      BY <1>5, <2>5, Enters
    <3>2. req[a].pc \in {"lock", "write"}
      BY <3>1 DEF Lock, FinishWrites, At
    <3> QED BY <3>1, <3>2 DEF Over, Drained, Draining
  <2> QED BY <1>5, <2>1, <2>2, <2>3, <2>4, <2>5, WhoMoves
<1>6. \/ camp'[c].status = "completed"
      \/ \E a \in Requests : req'[a].c = c /\ req'[a].pc \in {"lock", "follow"} \cup Draining
  BY DEF Over, Drained, Draining
<1> QED BY <1>2, <1>3, <1>4, <1>5, <1>6

(* What becomes of a recipient that a request lets go. *)
LEMMA ReleaseEffect ==
  ASSUME Typed, NEW a \in Requests, NEW d \in Hands(a), Releases(a, d)
  PROVE  /\ rcpt'[Of(a, d)].status \in Settled \cup {"queued"}
         /\ rcpt'[Of(a, d)].status = "sent" => req[a].pc = "record" /\ d = req[a].cur
<1>1. Of(a, d) \in Recipients
  BY HandsDrain
<1>2. {"skipped", "bounced", "failed", "sent"} \subseteq Settled
  BY DEF Settled
<1>3. CASE SkipOne(a, d) \/ Refused(a, d) \/ TimedOut(a, d)
  <2>1. rcpt'[Of(a, d)].status \in {"skipped", "bounced", "failed", "queued"}
    BY <1>1, <1>2, <1>3, StatusPut, RetryType DEF SkipOne, Refused, TimedOut
  <2> QED BY <1>2, <2>1
<1>4. CASE req[a].pc = "record" /\ d = req[a].cur /\ (Record(a) \/ RecordFails(a))
  <2>1. rcpt'[Of(a, d)].status \in {"sent", "failed"}
    BY <1>1, <1>2, <1>4, StatusPut DEF Record, RecordFails, CatchUnknown
  <2> QED BY <1>2, <1>4, <2>1
<1> QED BY <1>3, <1>4 DEF Releases

(* A request empties its hands by letting go, or dies with what it holds. *)
LEMMA Dropped ==
  ASSUME Typed, CurApart, [Next]_vars, NEW a \in Requests, NEW d \in Hands(a), d \notin Hands(a)'
  PROVE  Releases(a, d) \/ Of(a, d) \in stranded'
<1>0. req[a].pc \in {"claim", "send", "record"} /\ req[a].pc \in Draining /\ d \in Docs
  BY HandsDrain DEF Hands
<1>1. Of(a, d) \in Held(a)
  <2>1. d \in req[a].batch \cup ({req[a].cur} \ {None})
    <3>1. CASE d \in req[a].batch
      BY <3>1
    <3>2. CASE req[a].pc = "record" /\ d = req[a].cur
      <4>1. Of(a, d) \in Recipients
        BY HandsDrain
      <4>2. d # None
        BY <1>0, CampaignAssumption DEF CampaignAssumption, Docs
      <4> QED BY <3>2, <4>2
    <3> QED BY <3>1, <3>2 DEF Hands
  <2> QED BY <2>1 DEF Held, Of
<1>2. CASE Throws(a)
  BY <1>1, <1>2 DEF Throws
<1>3. CASE Crash
  BY <1>0, <1>1, <1>3 DEF Crash
<1>4. CASE req'[a] = req[a]
  BY <1>4 DEF Hands
<1>5. CASE Claim(a)
  <2>1. PICK k \in Contacts :
         req' = [req EXCEPT ![a].batch = @ \cup {Doc(req[a].c, k)}, ![a].left = @ - 1,
                            ![a].pc = IF req[a].left = 1 THEN "send" ELSE "claim"]
    BY <1>5 DEF Claim
  <2> QED BY <1>5, <2>1, ClaimHands
<1>6. CASE SendStep(a)
  <2>1. ASSUME NEW e \in Hands(a), Releases(a, e) PROVE Releases(a, d)
    <3>1. req' = Without(a, e)
      BY <2>1 DEF Releases, SkipOne, Refused, TimedOut, Record, RecordFails
    <3>2. Hands(a)' = Hands(a) \ {e}
      BY <2>1, <3>1, WithoutHands DEF Releases, CurApart
    <3> QED BY <2>1, <3>2
  <2>2. ASSUME NEW e \in req[a].batch, SkipOne(a, e) \/ Refused(a, e) \/ TimedOut(a, e)
        PROVE  Releases(a, d)
    <3>1. Releases(a, e) /\ e \in Hands(a)
      BY <2>2 DEF Releases, SkipOne, Refused, TimedOut, At, Hands
    <3> QED BY <2>1, <3>1
  <2>3. CASE Record(a) \/ RecordFails(a)
    <3>1. Releases(a, req[a].cur) /\ req[a].cur \in Hands(a)
      BY <2>3 DEF Releases, Record, RecordFails, At, Hands
    <3> QED BY <2>1, <3>1
  <2>4. ASSUME NEW e \in req[a].batch, Accepted(a, e) PROVE FALSE
    BY <2>4, AcceptedHands
  <2> QED BY <1>6, <2>2, <2>3, <2>4 DEF SendStep
<1>7. CASE ClaimsEnd(a)
  <2> DEFINE pc == IF req[a].batch = {} THEN "finish" ELSE "send"
  <2>1. req' = [req EXCEPT ![a].pc = pc, ![a].left = 0] /\ req[a].pc = "claim"
    BY <1>7 DEF ClaimsEnd, At
  <2>2. d \in req[a].batch
    BY <2>1 DEF Hands
  <2>3. pc = "send"
    BY <2>2
  <2> HIDE DEF pc
  <2>4. req'[a].pc = "send" /\ req'[a].batch = req[a].batch
    BY <2>1, <2>3 DEF Typed, TypeOK, Request
  <2> QED BY <2>2, <2>4 DEF Hands
<1>8. CASE Acts(a) /\ ~Throws(a) /\ ~Claim(a) /\ ~SendStep(a) /\ ~ClaimsEnd(a)
  <2>1. ~\E c \in Campaigns : Send(a, c) \/ SendLoads(a, c)
    BY <1>0 DEF Send, SendLoads, At
  <2>2. ~\E c \in Campaigns, action \in DOMAIN From : ControlLoads(a, c, action)
    BY <1>0 DEF ControlLoads, At
  <2>3. ~(Lock(a) \/ NextBatch(a))
    BY <1>0 DEF Lock, NextBatch, At
  <2>4. ~Refresh(a)
    BY DEF Refresh, At, Hands
  <2>5. ~(FinishReads(a) \/ FinishWrites(a) \/ FollowCreates(a) \/ FollowInserts(a))
    BY <1>0 DEF FinishReads, FinishWrites, FollowCreates, FollowInserts, At
  <2>6. ~ControlStep(a)
    BY <1>0 DEF ControlStep, Launch, CancelSkips, ControlSaves, RebuildDeletes, RebuildInserts, At
  <2> QED BY <1>8, <2>1, <2>2, <2>3, <2>4, <2>5, <2>6 DEF Acts, DrainStep
<1>9. ASSUME NEW b \in Requests, Acts(b), b # a PROVE req'[a] = req[a]
  BY <1>9, OneActs
<1>10. CASE WorldStep \/ UNCHANGED vars
  <2>1. Crash \/ req' = req
    BY <1>10 DEF WorldStep, OptOut, RetryComes, WindowPasses, LockExpires, vars
  <2> QED BY <1>3, <1>4, <2>1
<1>11. CASE \E b \in Requests : Acts(b)
  BY <1>2, <1>4, <1>5, <1>6, <1>7, <1>8, <1>9, <1>11
<1> QED BY <1>10, <1>11 DEF Next, Acts

(* Whoever is marked as being sent is in somebody's hands, or was when they died. *)
InHands(r) == \E a \in Requests : \E d \in Hands(a) : Present(a, d) /\ r = Of(a, d)

SendingHeld == \A r \in Recipients : rcpt[r].status = "sending" => r \in stranded \/ InHands(r)

LEMMA SendingHeldStep == ASSUME Typed, Linked, SendingHeld, [Next]_vars PROVE SendingHeld'
<1> SUFFICES ASSUME NEW r \in Recipients, rcpt'[r].status = "sending", r \notin stranded'
             PROVE  InHands(r)'
  BY DEF SendingHeld
<1> USE DEF Linked
<1>1. CASE rcpt'[r] = rcpt[r]
  <2>1. r \notin stranded
    BY HistoryGrows DEF Grows
  <2>2. PICK a \in Requests : \E d \in Hands(a) : Present(a, d) /\ r = Of(a, d)
    BY <1>1, <2>1 DEF SendingHeld, InHands
  <2>0. PICK d \in Hands(a) : Present(a, d) /\ r = Of(a, d)
    BY <2>2
  <2>3. d \in Hands(a)'
    <3>1. ~Releases(a, d)
      BY <2>0, ReleaseEffect DEF Settled
    <3> QED BY <2>0, <3>1, Dropped
  <2>4. req'[a].c = req[a].c
    BY <2>3, HandBefore
  <2>5. req[a].c \in Campaigns /\ camp[req[a].c].status # "absent"
    BY HandsDrain DEF DrainsStarted
  <2>6. camp'[req[a].c].list = camp[req[a].c].list
    <3>1. ASSUME NEW b \in Requests, RebuildDeletes(b), req[b].c = req[a].c PROVE FALSE
      <4>1. rcpt'[r] = NoRecipient
        BY <2>0, <3>1 DEF RebuildDeletes, Of
      <4> QED BY <4>1 DEF NoRecipient
    <3>2. Stays(req[a].c)
      BY <2>5, CampaignMoves
    <3> QED BY <2>5, <3>1, <3>2 DEF Stays
  <2>7. Present(a, d)' /\ Of(a, d)' = r
    BY <2>0, <2>4, <2>6 DEF Present, Of
  <2> QED BY <2>3, <2>7 DEF InHands
<1>2. ASSUME NEW a \in Requests, NEW k \in Contacts, Claim(a), r = <<req[a].c, k>>,
             rcpt[r].status = "queued"
      PROVE  InHands(r)'
  <2>1. PICK j \in Contacts :
          /\ \A q \in Recipients : q # <<req[a].c, j>> => rcpt'[q] = rcpt[q]
          /\ req' = [req EXCEPT ![a].batch = @ \cup {Doc(req[a].c, j)}, ![a].left = @ - 1,
                                ![a].pc = IF req[a].left = 1 THEN "send" ELSE "claim"]
    BY <1>2, ClaimEffect
  <2>2. j = k
    <3>1. rcpt'[r] # rcpt[r]
      BY <1>2
    <3> QED BY <1>2, <2>1, <3>1
  <2>0. PICK d : d = Doc(req[a].c, k)
    OBVIOUS
  <2>3. Hands(a)' = Hands(a) \cup {d} /\ req'[a].c = req[a].c
    BY <1>2, <2>0, <2>1, <2>2, ClaimHands
  <2>4. camp' = camp
    BY <1>2 DEF Claim
  <2>5. Present(a, d)' /\ r = Of(a, d)'
    BY <1>2, <2>0, <2>3, <2>4 DEF Present, Of, Doc
  <2> QED BY <2>3, <2>5 DEF InHands
<1>3. Queued.status = "queued" /\ NoRecipient.status = "absent"
  BY DEF Queued, NoRecipient
<1>4. "sending" \notin Settled \cup {"queued"}
  BY DEF Settled
<1>5. RecipientWays(r)
  BY RecipientMoves
<1> QED BY <1>1, <1>2, <1>3, <1>4, <1>5 DEF RecipientWays

(* A campaign about to be completed has nobody queued. *)
DoneEmpty ==
  \A c \in Campaigns : \A a \in Requests :
    req[a].pc = "write" /\ req[a].c = c /\ req[a].done /\ Undisturbed(c) => NobodyQueued(c)

LEMMA DisturbedStays ==
  ASSUME Typed, [Next]_vars, NEW c \in Campaigns, Undisturbed(c)'
  PROVE  Undisturbed(c)
BY HistoryGrows DEF Undisturbed, Grows

(* Nobody is put on the list of an undisturbed campaign that was drained. *)
LEMMA ListKept ==
  ASSUME Typed, Linked, Begun, [Next]_vars, NEW c \in Campaigns, Undisturbed(c)',
         Over(c) \/ Drained(c)
  PROVE  /\ ~\E a \in Requests : FollowInserts(a) /\ req[a].next = c
         /\ ~\E a \in Requests : (RebuildDeletes(a) \/ RebuildInserts(a)) /\ req[a].c = c
<1>1. camp[c].status \notin {"absent", "draft"} /\ (camp[c].status = "scheduled" => c = First)
  BY DEF Begun
<1>2. ASSUME NEW a \in Requests, FollowInserts(a), req[a].next = c PROVE FALSE
  <2>1. c # First
    BY <1>2 DEF FollowInserts, At, Linked, FollowAlone
  <2>2. c \in reshaped'
    BY <1>1, <1>2, <2>1 DEF FollowInserts
  <2> QED BY <2>2 DEF Undisturbed
<1>3. ASSUME NEW a \in Requests, RebuildDeletes(a) \/ RebuildInserts(a), req[a].c = c PROVE FALSE
  <2>1. c \in reshaped'
    BY <1>1, <1>3 DEF RebuildDeletes, RebuildInserts
  <2> QED BY <2>1 DEF Undisturbed
<1> QED BY <1>2, <1>3

LEMMA DoneEmptyStep ==
  ASSUME Typed, Linked, Begun, TwoSeen, DoneEmpty, [Next]_vars
  PROVE  DoneEmpty'
<1> SUFFICES ASSUME NEW c \in Campaigns, NEW a \in Requests,
                    req'[a].pc = "write", req'[a].c = c, req'[a].done, Undisturbed(c)'
             PROVE  NobodyQueued(c)'
  BY DEF DoneEmpty
<1>0. req'[a] # Idle
  BY DEF Idle
<1>1. CASE FinishReads(a)
  <2> DEFINE f == req[a].c
             ended == camp[f].status = "completed"
             locked == camp[f].lock # "none"
             done == camp[f].status = "running" /\ NobodyQueued(f)
  <2>1. req' = [req EXCEPT ![a].pc = "write", ![a].ended = ended, ![a].locked = locked,
                           ![a].done = done]
    BY <1>1 DEF FinishReads
  <2>2. rcpt' = rcpt
    BY <1>1 DEF FinishReads
  <2> HIDE DEF ended, locked, done
  <2>3. req'[a].done = done /\ req'[a].c = f
    BY <2>1 DEF Typed, TypeOK, Request
  <2>4. NobodyQueued(c)
    BY <2>3 DEF done
  <2> QED BY <2>2, <2>4 DEF NobodyQueued
<1>2. CASE req'[a] = req[a]
  <2>1. req[a].pc = "write" /\ req[a].c = c /\ Drained(c)
    BY <1>2 DEF Draining, Drained
  <2>2. Undisturbed(c)
    BY DisturbedStays
  <2>3. NobodyQueued(c)
    BY <1>2, <2>1, <2>2 DEF DoneEmpty
  <2>4. ASSUME NEW k \in Contacts PROVE rcpt'[<<c, k>>].status # "queued"
    <3> DEFINE r == <<c, k>>
    <3>1. r \in Recipients /\ r[1] = c /\ rcpt[r].status # "queued"
      BY <2>3 DEF Recipients, NobodyQueued
    <3>2. ASSUME NEW b \in Requests, NEW d \in Hands(b), r = Of(b, d) PROVE FALSE
      <4>1. req[b].pc \in Draining /\ req[b].c = c
        BY <3>2, HandsDrain DEF Of
      <4>2. a = b
        BY <2>1, <2>2, <4>1, OneDrain DEF Undisturbed, Draining
      <4> QED BY <2>1, <3>2, <4>2 DEF Hands
    <3> HIDE DEF r
    <3>3. RecipientWays(r)
      BY <3>1, RecipientMoves
    <3>4. NoRecipient.status = "absent"
      BY DEF NoRecipient
    <3>5. rcpt'[r].status # "queued"
      BY <2>1, <3>1, <3>2, <3>3, <3>4, ListKept DEF RecipientWays
    <3> QED BY <3>5 DEF r
  <2> QED BY <2>4 DEF NobodyQueued
<1> QED BY <1>0, <1>1, <1>2, WhoMoves, Enters

(* Everybody on the list of a campaign that is over is settled, but for the stranded. *)
OverSettled ==
  \A c \in Campaigns : Undisturbed(c) /\ Over(c) =>
    \A k \in Contacts : rcpt[<<c, k>>].status \in Settled \cup {"absent"} \/ <<c, k>> \in stranded

(* A campaign is over because it was over, or because a drain completes it. *)
LEMMA OverBefore ==
  ASSUME Typed, [Next]_vars, NEW c \in Campaigns, Over(c)'
  PROVE  Over(c) \/ \E a \in Requests : FinishWrites(a) /\ req[a].c = c /\ req[a].done
<1>1. CASE camp'[c].status = "completed"
  <2>1. Ways(c)
    BY CampaignMoves
  <2> QED BY <1>1, <2>1 DEF Ways, Over
<1>2. ASSUME NEW a \in Requests, req'[a].c = c,
             req'[a].pc \in {"lock", "follow"} \/ (req'[a].pc = "write" /\ req'[a].ended)
      PROVE  Over(c) \/ (FinishWrites(a) /\ req[a].c = c /\ req[a].done)
  <2>1. req'[a] # Idle
    BY <1>2 DEF Idle
  <2>2. CASE req'[a] = req[a]
    BY <1>2, <2>2 DEF Over
  <2>3. CASE Acts(a) /\ req'[a].pc = "lock"
    <3>1. camp[c].status = "completed"
      BY <1>2, <2>3, Enters DEF SendLoads
    <3> QED BY <3>1 DEF Over
  <2>4. CASE Acts(a) /\ req'[a].pc = "follow"
    <3>1. (Lock(a) \/ FinishWrites(a)) /\ req[a].c = c
      BY <1>2, <2>4, Enters
    <3>2. CASE Lock(a)
      BY <3>1, <3>2 DEF Lock, At, Over
    <3>3. CASE FinishWrites(a)
      <4>1. req[a].pc = "write" /\ (req[a].done \/ req[a].ended)
        <5>1. req'[a] = IF req[a].done \/ req[a].ended THEN [req[a] EXCEPT !.pc = "follow"] ELSE Idle
          BY <3>3 DEF FinishWrites, Typed, TypeOK
        <5> QED BY <2>1, <3>3, <5>1 DEF FinishWrites, At
      <4> QED BY <3>1, <3>3, <4>1 DEF Over
    <3> QED BY <3>1, <3>2, <3>3
  <2>5. CASE Acts(a) /\ req'[a].pc = "write" /\ req'[a].ended
    <3>1. FinishReads(a)
      BY <2>5, Enters
    <3> DEFINE f == req[a].c
               ended == camp[f].status = "completed"
               locked == camp[f].lock # "none"
               done == camp[f].status = "running" /\ NobodyQueued(f)
    <3>2. req' = [req EXCEPT ![a].pc = "write", ![a].ended = ended, ![a].locked = locked,
                             ![a].done = done]
      BY <3>1 DEF FinishReads
    <3> HIDE DEF ended, locked, done
    <3>3. req'[a].ended = ended /\ req'[a].c = f
      BY <3>2 DEF Typed, TypeOK, Request
    <3>4. camp[c].status = "completed"
      BY <1>2, <2>5, <3>3 DEF ended
    <3> QED BY <3>4 DEF Over
  <2> QED BY <1>2, <2>1, <2>2, <2>3, <2>4, <2>5, WhoMoves
<1> QED BY <1>1, <1>2 DEF Over

LEMMA OverSettledStep ==
  ASSUME Typed, Linked, Begun, TwoSeen, SendingHeld, DoneEmpty, OverSettled, [Next]_vars
  PROVE  OverSettled'
<1> SUFFICES ASSUME NEW c \in Campaigns, Undisturbed(c)', Over(c)', NEW k \in Contacts,
                    <<c, k>> \notin stranded'
             PROVE  rcpt'[<<c, k>>].status \in Settled \cup {"absent"}
  BY DEF OverSettled
<1> DEFINE r == <<c, k>>
<1>1. Undisturbed(c)
  BY DisturbedStays
<1>2. r \in Recipients /\ r[1] = c /\ r \notin stranded
  BY HistoryGrows DEF Grows, Recipients
<1>3. RecipientWays(r)
  BY <1>2, RecipientMoves
<1>4. CASE Over(c)
  <2>1. rcpt[r].status \in Settled \cup {"absent"}
    BY <1>1, <1>2, <1>4 DEF OverSettled
  <2>2. rcpt[r].status \notin {"queued", "sending"}
    BY <2>1 DEF Settled
  <2>3. ASSUME NEW b \in Requests, NEW d \in Hands(b), Present(b, d), r = Of(b, d) PROVE FALSE
    BY <2>2, <2>3 DEF Linked, HandsSending
  <2> HIDE DEF r
  <2> QED BY <1>2, <1>3, <1>4, <2>1, <2>2, <2>3, ListKept DEF RecipientWays, r
<1>5. ASSUME NEW a \in Requests, FinishWrites(a), req[a].c = c, req[a].done
      PROVE  rcpt'[r].status \in Settled \cup {"absent"}
  <2>1. rcpt' = rcpt /\ req[a].pc = "write"
    BY <1>5 DEF FinishWrites, At
  <2>2. rcpt[r].status # "queued"
    BY <1>1, <1>5, <2>1 DEF DoneEmpty, NobodyQueued
  <2>3. ASSUME NEW b \in Requests, NEW d \in Hands(b), r = Of(b, d) PROVE FALSE
    <3>1. req[b].pc \in Draining /\ req[b].c = c
      BY <2>3, HandsDrain DEF Of
    <3>2. a = b
      BY <1>1, <1>5, <2>1, <3>1, OneDrain DEF Undisturbed, Draining
    <3> QED BY <2>1, <2>3, <3>2 DEF Hands
  <2>4. rcpt[r].status # "sending"
    BY <1>2, <2>3 DEF SendingHeld, InHands
  <2>5. rcpt[r].status \in {"absent", "queued", "sending"} \cup Settled
    BY <1>2 DEF Typed, TypeOK, Recipient
  <2> QED BY <2>1, <2>2, <2>4, <2>5
<1> QED BY <1>4, <1>5, OverBefore

CompletedInv == Begun /\ TwoSeen /\ SendingHeld /\ DoneEmpty /\ OverSettled

LEMMA CompletedInvStep ==
  ASSUME Typed, Linked, CompletedInv, [Next]_vars
  PROVE  CompletedInv'
BY BegunStep, TwoSeenStep, SendingHeldStep, DoneEmptyStep, OverSettledStep DEF CompletedInv

LEMMA CompletedInvInit == Init => CompletedInv
<1> SUFFICES ASSUME Init PROVE CompletedInv
  OBVIOUS
<1>1. \A a \in Requests : req[a].pc = "idle"
  BY DEF Init, Idle
<1>2. \A c \in Campaigns : camp[c].status \in {"draft", "absent"}
  BY DEF Init, NoCampaign
<1>3. \A c \in Campaigns : ~Over(c) /\ ~Drained(c)
  BY <1>1, <1>2 DEF Over, Drained, Draining
<1>4. \A r \in Recipients : rcpt[r].status # "sending"
  BY DEF Init, Queued, NoRecipient
<1>5. TwoSeen /\ DoneEmpty
  BY <1>1 DEF TwoSeen, DoneEmpty, Draining
<1> QED BY <1>3, <1>4, <1>5 DEF CompletedInv, Begun, SendingHeld, OverSettled

LEMMA CompletedInvHolds == Spec => []CompletedInv
<1>1. Typed /\ Linked /\ CompletedInv /\ [Next]_vars => CompletedInv'
  BY CompletedInvStep
<1> QED BY <1>1, CompletedInvInit, CampaignTypes, HandsAreApart, PTL DEF Spec

(* A completed campaign owes nobody anything, but for recipients whose drain died, or whom
   a second drain or a change of the list brought in. *)
THEOREM CompletedHolds == Spec => []CompletedIsSettled
<1>1. CompletedInv => CompletedIsSettled
  BY DEF CompletedInv, OverSettled, CompletedIsSettled, Undisturbed, Over
<1> QED BY <1>1, CompletedInvHolds, PTL

-------------------------------------------------------------------------------
(* Whom a follow-up chases.                                                  *)

(* Whoever is sent was written to. *)
SentMailed ==
  /\ \A r \in Recipients : rcpt[r].status = "sent" => mails[r] > 0
  /\ \A a \in Requests : req[a].pc = "record" => mails[Of(a, req[a].cur)] > 0

(* No message is unsent. *)
LEMMA MailsGrow ==
  ASSUME Typed, [Next]_vars, NEW r \in Recipients, mails[r] > 0
  PROVE  mails'[r] > 0
<1>0. mails \in [Recipients -> Nat]
  BY DEF Typed, TypeOK
<1>1. ASSUME NEW a \in Requests, NEW d \in req[a].batch, Accepted(a, d) \/ TimedOut(a, d)
      PROVE  mails'[r] > 0
  <2>1. mails' = [mails EXCEPT ![Of(a, d)] = @ + 1]
    BY <1>1 DEF Accepted, TimedOut
  <2>2. mails'[r] = mails[r] \/ mails'[r] = mails[r] + 1
    BY <1>0, <2>1
  <2> QED BY <1>0, <2>2
<1> QED BY <1>1, MailedBy

LEMMA SentMailedStep == ASSUME Typed, Linked, SentMailed, [Next]_vars PROVE SentMailed'
<1>1. ASSUME NEW r \in Recipients, rcpt'[r].status = "sent" PROVE mails'[r] > 0
  <2>1. CASE rcpt'[r] = rcpt[r]
    BY <1>1, <2>1, MailsGrow DEF SentMailed
  <2>2. ASSUME NEW a \in Requests, NEW d \in Hands(a), Releases(a, d), r = Of(a, d)
        PROVE  mails'[r] > 0
    BY <1>1, <2>2, ReleaseEffect, MailsGrow DEF SentMailed
  <2>3. Queued.status = "queued" /\ NoRecipient.status = "absent"
    BY DEF Queued, NoRecipient
  <2>4. RecipientWays(r)
    BY RecipientMoves
  <2> QED BY <1>1, <2>1, <2>2, <2>3, <2>4 DEF RecipientWays
<1>2. ASSUME NEW a \in Requests, req'[a].pc = "record" PROVE mails'[Of(a, req[a].cur)'] > 0
  <2>1. req'[a] # Idle
    BY <1>2 DEF Idle
  <2>2. CASE req'[a] = req[a]
    <3>1. Of(a, req[a].cur) \in Recipients /\ Of(a, req[a].cur)' = Of(a, req[a].cur)
      <4>1. req[a].cur \in Hands(a)
        BY <1>2, <2>2 DEF Hands
      <4> QED BY <2>2, <4>1, HandsDrain DEF Of
    <3>2. mails[Of(a, req[a].cur)] > 0
      BY <1>2, <2>2 DEF SentMailed
    <3> QED BY <3>1, <3>2, MailsGrow
  <2>3. ASSUME NEW d \in req[a].batch, Accepted(a, d) PROVE mails'[Of(a, req[a].cur)'] > 0
    <3>1. d \in Hands(a) /\ req'[a].cur = d /\ req'[a].c = req[a].c
      BY <2>3, AcceptedHands DEF Hands
    <3>2. Of(a, d) \in Recipients /\ mails[Of(a, d)] \in Nat
      BY <3>1, HandsDrain DEF Typed, TypeOK
    <3>3. mails' = [mails EXCEPT ![Of(a, d)] = @ + 1]
      BY <2>3 DEF Accepted
    <3>4. mails'[Of(a, d)] = mails[Of(a, d)] + 1
      BY <3>2, <3>3 DEF Typed, TypeOK
    <3>5. Of(a, req[a].cur)' = Of(a, d)
      BY <3>1 DEF Of
    <3> QED BY <3>2, <3>4, <3>5
  <2>4. CASE Acts(a)
    <3>1. SendStep(a)
      BY <1>2, <2>4, Enters
    <3>2. ASSUME NEW d, req' = Without(a, d) PROVE FALSE
      <4>1. req'[a].pc = "send"
        BY <3>2 DEF Without, Typed, TypeOK, Request
      <4> QED BY <1>2, <4>1
    <3> QED BY <2>3, <3>1, <3>2 DEF SendStep, SkipOne, Refused, TimedOut, Record, RecordFails
  <2> QED BY <2>1, <2>2, <2>4, WhoMoves
<1> QED BY <1>1, <1>2 DEF SentMailed

(* A recipient of campaign c that its follow-up may chase. *)
Chaseable(c, k) == ~Undisturbed(c) \/ mails[<<c, k>>] > 0 \/ <<c, k>> \in stranded

LEMMA ChaseableStays ==
  ASSUME Typed, [Next]_vars, NEW c \in Campaigns, NEW k \in Contacts, Chaseable(c, k)
  PROVE  Chaseable(c, k)'
<1>1. <<c, k>> \in Recipients
  BY DEF Recipients
<1> QED BY <1>1, MailsGrow, HistoryGrows, DisturbedStays DEF Chaseable, Grows

(* The recipients about to be inserted are those of the campaign that is chased... *)
FollowListed ==
  \A a \in Requests : req[a].pc = "insert" =>
    /\ camp[req[a].next].parent = req[a].c
    /\ \A d \in req[a].batch : Chaseable(req[a].c, d[1])

(* ...and so are those that were. *)
Listed ==
  /\ camp[First].parent = None
  /\ \A c, f \in Campaigns : camp[f].parent = c =>
       \A k \in Contacts : rcpt[<<f, k>>].status # "absent" => Chaseable(c, k)

(* At the end of a drain, whoever is eligible was written to or stranded. *)
LEMMA EligibleChaseable ==
  ASSUME Typed, CompletedInv, SentMailed, NEW a \in Requests, req[a].pc = "follow",
         NEW k \in Eligible(req[a].c)
  PROVE  Chaseable(req[a].c, k)
<1> DEFINE c == req[a].c
<1>1. c \in Campaigns /\ k \in Contacts /\ Over(c)
  BY DEF Typed, RequestsOK, ReqOK, Eligible, Over
<1>2. <<c, k>> \in Recipients /\ rcpt[<<c, k>>].status \in {"sending", "sent"}
  BY <1>1 DEF Recipients, Eligible
<1>3. CASE rcpt[<<c, k>>].status = "sent"
  BY <1>2, <1>3 DEF SentMailed, Chaseable
<1>4. CASE rcpt[<<c, k>>].status = "sending"
  <2>1. "sending" \notin Settled \cup {"absent"}
    BY DEF Settled
  <2>2. Undisturbed(c) => <<c, k>> \in stranded
    BY <1>1, <1>4, <2>1 DEF CompletedInv, OverSettled
  <2> QED BY <2>2 DEF Chaseable
<1> QED BY <1>2, <1>3, <1>4

LEMMA FollowListedStep ==
  ASSUME Typed, Linked, CompletedInv, SentMailed, FollowListed, [Next]_vars
  PROVE  FollowListed'
<1> SUFFICES ASSUME NEW a \in Requests, req'[a].pc = "insert", NEW c, c = req'[a].c
             PROVE  /\ camp'[req'[a].next].parent = c
                    /\ \A d \in req'[a].batch : Chaseable(c, d[1])'
  BY DEF FollowListed, Chaseable, Undisturbed
<1>0. req'[a] # Idle
  BY DEF Idle
<1>type. c \in Campaigns /\ req'[a].next \in Campaigns /\ req'[a].batch \subseteq Docs
  <2>1. Typed'
    BY TypeStep
  <2> QED BY <2>1 DEF Typed, RequestsOK, ReqOK, Request
<1>1. CASE req'[a] = req[a]
  <2>1. camp[req[a].next].parent = c /\ \A d \in req[a].batch : Chaseable(c, d[1])
    BY <1>1 DEF FollowListed
  <2>2. camp'[req[a].next].parent = camp[req[a].next].parent
    <3>1. Stays(req[a].next)
      BY <1>1, <1>type, CampaignMoves
    <3>2. camp[req[a].next].status # "absent"
      BY <1>1 DEF Linked, FollowAlone
    <3> QED BY <3>1, <3>2 DEF Stays
  <2>3. ASSUME NEW d \in req[a].batch PROVE Chaseable(c, d[1])'
    BY <1>1, <1>type, <2>1, <2>3, ChaseableStays DEF Docs
  <2> QED BY <1>1, <2>1, <2>2, <2>3
<1>2. CASE FollowCreates(a)
  <2>1. req[a].pc = "follow"
    BY <1>2 DEF FollowCreates, At
  <2> DEFINE p == req[a].c
             B == Eligible(p) \X {0}
             n == camp[p].step + 1
  <2>2. PICK f \in Campaigns :
          /\ camp' = [camp EXCEPT ![f] = [NoCampaign EXCEPT !.status = "scheduled",
                                             !.step = n, !.parent = p]]
          /\ req' = [req EXCEPT ![a].pc = "insert", ![a].next = f, ![a].batch = B]
    <3>1. req' # [req EXCEPT ![a] = Idle]
      BY <1>0 DEF Typed, TypeOK
    <3> QED BY <1>2, <3>1 DEF FollowCreates
  <2> HIDE DEF B, n, p
  <2>3. req'[a].next = f /\ req'[a].batch = B /\ req'[a].c = req[a].c
    BY <2>2 DEF Typed, TypeOK, Request
  <2>4. camp'[f].parent = p
    BY <2>2 DEF Typed, TypeOK, NoCampaign
  <2>5. p = c
    BY <2>3 DEF p
  <2>6. ASSUME NEW d \in B PROVE Chaseable(c, d[1])'
    <3>1. d[1] \in Eligible(c) /\ d[1] \in Contacts
      BY <2>5, <2>6 DEF B, Eligible
    <3>2. Chaseable(c, d[1])
      BY <2>1, <2>3, <3>1, EligibleChaseable
    <3> QED BY <1>type, <3>1, <3>2, ChaseableStays
  <2> QED BY <2>3, <2>4, <2>5, <2>6
<1> QED BY <1>0, <1>1, <1>2, WhoMoves, Enters

LEMMA ListedStep ==
  ASSUME Typed, Linked, FollowListed, Listed, [Next]_vars
  PROVE  Listed'
<1> USE DEF Linked
<1>1. camp'[First].parent = None
  <2>1. First \in Campaigns
    BY CampaignAssumption DEF CampaignAssumption
  <2>2. Stays(First)
    BY <2>1, CampaignMoves
  <2> QED BY <2>2 DEF Stays, FirstOnly, Listed
<1>2. ASSUME NEW c \in Campaigns, NEW f \in Campaigns, camp'[f].parent = c, NEW k \in Contacts,
             rcpt'[<<f, k>>].status # "absent"
      PROVE  Chaseable(c, k)'
  <2> DEFINE r == <<f, k>>
  <2>1. r \in Recipients /\ r[1] = f /\ r[2] = k
    BY DEF Recipients
  <2>2. f # First
    BY <1>1, <1>2, CampaignAssumption DEF CampaignAssumption
  <2>3. CASE rcpt[r].status # "absent"
    <3>1. camp[f].status # "absent"
      BY <2>1, <2>3 DEF NoList
    <3>2. camp[f].parent = c
      BY <1>2, <3>1, CampaignMoves DEF Stays
    <3> QED BY <2>3, <3>2, ChaseableStays DEF Listed
  <2>4. CASE rcpt[r].status = "absent"
    <3>1. RecipientWays(r)
      BY <2>1, RecipientMoves
    <3>2. \A a \in Requests : RebuildInserts(a) => req[a].c = First
      BY DEF RebuildInserts, At, FirstOnly
    <3>3. NoRecipient.status = "absent"
      BY DEF NoRecipient
    <3>4. PICK a \in Requests : FollowInserts(a) /\ req[a].next = f
      <4> HIDE DEF r
      <4> QED BY <1>2, <2>1, <2>2, <2>4, <3>1, <3>2, <3>3, NotReleased DEF RecipientWays, r
    <3>5. <<k, 0>> \in req[a].batch
      <4>1. rcpt'[r] # rcpt[r]
        BY <1>2, <2>4
      <4>2. rcpt'[r] = IF r[1] = req[a].next /\ <<r[2], 0>> \in req[a].batch THEN Queued ELSE rcpt[r]
        BY <2>1, <3>4 DEF FollowInserts
      <4> HIDE DEF r
      <4> QED BY <2>1, <4>1, <4>2
    <3>6. req[a].pc = "insert" /\ camp' = camp
      BY <3>4 DEF FollowInserts, At
    <3>7. req[a].c = c /\ Chaseable(req[a].c, <<k, 0>>[1])
      BY <1>2, <3>4, <3>5, <3>6 DEF FollowListed
    <3> QED BY <3>7, ChaseableStays
  <2> QED BY <2>3, <2>4
<1> QED BY <1>1, <1>2 DEF Listed, Chaseable, Undisturbed

(* A follow-up chases only those who were written to. *)
THEOREM ChasedHolds == Spec => []ChasedWereWrittenTo
<1> DEFINE Inv == SentMailed /\ FollowListed /\ Listed
<1>1. Init => Inv
  <2> SUFFICES ASSUME Init PROVE Inv
    OBVIOUS
  <2>1. \A a \in Requests : req[a].pc = "idle"
    BY DEF Init, Idle
  <2>2. \A r \in Recipients : rcpt[r].status # "sent"
    BY DEF Init, Queued, NoRecipient
  <2>3. \A c \in Campaigns : camp[c].parent = None
    BY DEF Init, NoCampaign
  <2>4. None \notin Campaigns /\ First \in Campaigns
    BY CampaignAssumption DEF CampaignAssumption
  <2> QED BY <2>1, <2>2, <2>3, <2>4 DEF SentMailed, FollowListed, Listed
<1>2. Typed /\ Linked /\ CompletedInv /\ Inv /\ [Next]_vars => Inv'
  BY SentMailedStep, FollowListedStep, ListedStep
<1>3. Inv => ChasedWereWrittenTo
  BY DEF Listed, ChasedWereWrittenTo, Chaseable, Undisturbed
<1> HIDE DEF Inv
<1> QED BY <1>1, <1>2, <1>3, CampaignTypes, HandsAreApart, CompletedInvHolds, PTL DEF Spec

-------------------------------------------------------------------------------
(* The owner's allowance.                                                    *)

Out(w) == IF w.pc = "record" THEN 1 ELSE 0

(* What a request may still send of what it was allowed. *)
Load(w) == Cardinality(w.batch) + (IF w.pc = "claim" THEN w.left ELSE 0) + Out(w)

Handling == {"claim", "send", "record"}

(* A step of a request accounts for every message: it has its event, it is known to have
   none, or it is being recorded. *)
Accounts(a) ==
  /\ window'.out + window.events + window.lost + Out(req[a])
       <= window.out + window'.events + window'.lost + Out(req'[a])
  /\ \/ window'.events = window.events
     \/ window'.events = window.events + 1 /\ Record(a)

LEMMA AccountsStep ==
  ASSUME Typed, Typed', NEW a \in Requests, Acts(a)
  PROVE  Accounts(a)
<1> USE DEF Accounts, Out
<1>0. /\ window \in [out : Nat, events : Nat, lost : Nat]
      /\ window.out \in Nat /\ window.events \in Nat /\ window.lost \in Nat
  BY DEF Typed, TypeOK
<1>1. CASE window' = window /\ req[a].pc # "record" /\ req'[a].pc # "record"
  BY <1>0, <1>1
<1>2. ASSUME NEW d \in req[a].batch, Accepted(a, d) PROVE Accounts(a)
  <2>1. req[a].pc = "send" /\ req'[a].pc = "record"
    BY <1>2, AcceptedHands
  <2>2. window' = [window EXCEPT !.out = @ + 1]
    BY <1>2 DEF Accepted
  <2>3. window'.out = window.out + 1 /\ window'.events = window.events /\ window'.lost = window.lost
    BY <1>0, <2>2
  <2> QED BY <1>0, <2>1, <2>3
<1>3. ASSUME NEW d, req' = Without(a, d) PROVE req'[a].pc = "send"
  BY <1>3 DEF Without, Typed, TypeOK, Request
<1>4. ASSUME NEW d \in req[a].batch, SkipOne(a, d) \/ Refused(a, d) PROVE Accounts(a)
  <2>1. req[a].pc = "send" /\ req'[a].pc = "send" /\ window' = window
    BY <1>3, <1>4 DEF SkipOne, Refused, At
  <2> QED BY <1>0, <2>1
<1>5. ASSUME NEW d \in req[a].batch, TimedOut(a, d) PROVE Accounts(a)
  <2>1. req[a].pc = "send" /\ req'[a].pc = "send"
    BY <1>3, <1>5 DEF TimedOut, At
  <2>2. window' = [window EXCEPT !.out = @ + 1, !.lost = @ + 1]
    BY <1>5 DEF TimedOut
  <2>3. /\ window'.out = window.out + 1 /\ window'.events = window.events
        /\ window'.lost = window.lost + 1
    BY <1>0, <2>2
  <2> QED BY <1>0, <2>1, <2>3
<1>6. CASE Record(a)
  <2>1. req[a].pc = "record" /\ req'[a].pc = "send"
    BY <1>3, <1>6 DEF Record, At
  <2>2. \/ window' = [window EXCEPT !.events = @ + 1]
        \/ window' = [window EXCEPT !.lost = @ + 1]
    BY <1>6 DEF Record
  <2>3. window'.out = window.out
        /\ \/ window'.events = window.events + 1 /\ window'.lost = window.lost
           \/ window'.events = window.events /\ window'.lost = window.lost + 1
    BY <1>0, <2>2
  <2> QED BY <1>0, <1>6, <2>1, <2>3
<1>7. CASE RecordFails(a) \/ (Throws(a) /\ req[a].pc = "record")
  <2>1. req[a].pc = "record" /\ req'[a].pc # "record"
    BY <1>3, <1>7 DEF RecordFails, Throws, At, Idle, Typed, TypeOK
  <2>2. window' = [window EXCEPT !.lost = @ + 1]
    BY <1>7 DEF RecordFails, Throws, At
  <2>3. window'.out = window.out /\ window'.events = window.events /\ window'.lost = window.lost + 1
    BY <1>0, <2>2
  <2> QED BY <1>0, <2>1, <2>3
<1>8. CASE Throws(a) /\ req[a].pc # "record"
  <2>1. req'[a].pc # "record"
    BY <1>8 DEF Throws, Idle, Typed, TypeOK
  <2>2. window' = [window EXCEPT !.lost = window.lost]
    BY <1>8 DEF Throws, At
  <2>3. window'.out = window.out /\ window'.events = window.events /\ window'.lost = window.lost
    BY <1>0, <2>2
  <2> QED BY <1>0, <1>8, <2>1, <2>3
<1>9. CASE ~SendStep(a) /\ ~Throws(a)
  <2>1. req'[a].pc # "record"
    BY <1>9, Enters
  <2>2. CASE \/ \E c \in Campaigns : Send(a, c) \/ SendLoads(a, c)
             \/ \E c \in Campaigns, action \in DOMAIN From : ControlLoads(a, c, action)
    <3>1. window' = window /\ req[a].pc # "record"
      BY <2>2 DEF Send, SendLoads, ControlLoads, At
    <3> QED BY <1>1, <2>1, <3>1
  <2>3. CASE Lock(a) \/ NextBatch(a) \/ Claim(a) \/ ClaimsEnd(a) \/ Refresh(a)
    <3>1. window' = window /\ req[a].pc # "record"
      BY <2>3 DEF Lock, NextBatch, Claim, ClaimsEnd, Refresh, At
    <3> QED BY <1>1, <2>1, <3>1
  <2>4. CASE FinishReads(a) \/ FinishWrites(a) \/ FollowCreates(a) \/ FollowInserts(a)
    <3>1. window' = window /\ req[a].pc # "record"
      BY <2>4 DEF FinishReads, FinishWrites, FollowCreates, FollowInserts, At
    <3> QED BY <1>1, <2>1, <3>1
  <2>5. CASE ControlStep(a)
    <3>1. window' = window /\ req[a].pc # "record"
      BY <2>5 DEF ControlStep, Launch, CancelSkips, ControlSaves, RebuildDeletes, RebuildInserts, At
    <3> QED BY <1>1, <2>1, <3>1
  <2> QED BY <1>9, <2>2, <2>3, <2>4, <2>5 DEF Acts, DrainStep
<1> QED BY <1>2, <1>4, <1>5, <1>6, <1>7, <1>8, <1>9 DEF SendStep

(* A request with recipients in hand has a load, and no step of its adds to it, but for a
   new batch, which is within the allowance. *)
LoadMoves(a) ==
  \/ NextBatch(a) /\ IsFiniteSet(req'[a].batch) /\ Load(req'[a]) <= Allowed
  \/ /\ req[a].pc \in Handling /\ IsFiniteSet(req'[a].batch)
     /\ Load(req'[a]) + (IF Record(a) THEN 1 ELSE 0) <= Load(req[a])

LEMMA LoadStep ==
  ASSUME Typed, CurApart, NEW a \in Requests, Acts(a), IsFiniteSet(req[a].batch),
         req'[a].pc \in Handling
  PROVE  LoadMoves(a)
<1>0. req \in [Requests -> Request] /\ req[a] \in Request /\ ReqOK(req[a]) /\ req[a].left \in Nat
  BY DEF Typed, RequestsOK, Request
<1> DEFINE B == req[a].batch
<1>card. /\ Cardinality(B) \in Nat
         /\ \A d : IsFiniteSet(B \ {d}) /\ Cardinality(B \ {d}) \in Nat
                  /\ Cardinality(B \ {d}) = IF d \in B THEN Cardinality(B) - 1 ELSE Cardinality(B)
         /\ \A d : IsFiniteSet(B \cup {d}) /\ Cardinality(B \cup {d}) \in Nat
                  /\ Cardinality(B \cup {d}) <= Cardinality(B) + 1
  <2> HIDE DEF B
  <2>0. IsFiniteSet(B)
    BY DEF B
  <2>1. Cardinality(B) \in Nat
    BY <2>0, FS_CardinalityType
  <2>2. ASSUME NEW d
        PROVE  IsFiniteSet(B \ {d}) /\ Cardinality(B \ {d}) \in Nat
               /\ Cardinality(B \ {d}) = IF d \in B THEN Cardinality(B) - 1 ELSE Cardinality(B)
    <3>1. IsFiniteSet(B \ {d}) /\ Cardinality(B \ {d}) = IF d \in B THEN Cardinality(B) - 1 ELSE Cardinality(B)
      BY <2>0, FS_RemoveElement
    <3> QED BY <3>1, FS_CardinalityType
  <2>3. ASSUME NEW d
        PROVE  IsFiniteSet(B \cup {d}) /\ Cardinality(B \cup {d}) \in Nat
               /\ Cardinality(B \cup {d}) <= Cardinality(B) + 1
    <3>1. IsFiniteSet(B \cup {d}) /\ Cardinality(B \cup {d}) = IF d \in B THEN Cardinality(B) ELSE Cardinality(B) + 1
      BY <2>0, FS_AddElement
    <3> QED BY <2>1, <3>1
  <2> QED BY <2>1, <2>2, <2>3
<1>keep. ASSUME ~Record(a), req[a].pc \in Handling, IsFiniteSet(req'[a].batch),
                Load(req'[a]) <= Load(req[a]), Load(req'[a]) \in Nat
         PROVE  LoadMoves(a)
  <2> DEFINE m == IF Record(a) THEN 1 ELSE 0
             x == Load(req'[a])
             y == Load(req[a])
  <2>1. m = 0 /\ x <= y /\ x \in Nat
    BY <1>keep
  <2> HIDE DEF m, x, y
  <2>2. x + m <= y
    BY <2>1
  <2> QED BY <1>keep, <2>2 DEF LoadMoves, m, x, y
<1>1. CASE NextBatch(a)
  <2> DEFINE n == Least(BatchSize, Allowed)
  <2>1. req[a].pc = "batch" /\ B = {}
    BY <1>0, <1>1 DEF NextBatch, At, ReqOK
  <2>2. req' = [req EXCEPT ![a].pc = "claim", ![a].left = n]
    <3>1. ASSUME req' = [req EXCEPT ![a].pc = "finish"] PROVE FALSE
      BY <1>0, <3>1 DEF Request, Handling
    <3> QED BY <1>1, <3>1 DEF NextBatch, Goto
  <2>3. n <= Allowed /\ n \in Nat
    <3>1. Allowed \in Nat /\ BatchSize \in Nat
      BY Positive DEF Allowed, Typed, TypeOK
    <3> HIDE DEF n
    <3> QED BY <3>1 DEF n, Least
  <2> HIDE DEF n, B
  <2>4. req'[a].left = n /\ req'[a].pc = "claim" /\ req'[a].batch = B
    BY <1>0, <2>2 DEF Request, B
  <2>5. Cardinality({}) = 0 /\ IsFiniteSet({})
    BY FS_EmptySet
  <2>6. Load(req'[a]) = n
    BY <2>1, <2>3, <2>4, <2>5 DEF Load, Out
  <2> QED BY <1>1, <2>1, <2>3, <2>4, <2>5, <2>6 DEF LoadMoves
<1>2. CASE Claim(a)
  <2>1. PICK k \in Contacts :
         req' = [req EXCEPT ![a].batch = @ \cup {Doc(req[a].c, k)}, ![a].left = @ - 1,
                            ![a].pc = IF req[a].left = 1 THEN "send" ELSE "claim"]
    BY <1>2 DEF Claim
  <2> DEFINE d == Doc(req[a].c, k)
             n == req[a].left - 1
             pc == IF req[a].left = 1 THEN "send" ELSE "claim"
  <2>2. req' = [req EXCEPT ![a].batch = @ \cup {d}, ![a].left = n, ![a].pc = pc]
    BY <2>1
  <2>3. req[a].pc = "claim" /\ ~Record(a) /\ req[a].left # 0
    BY <1>0, <1>2 DEF Claim, Record, At, ReqOK
  <2>4. (pc = "send" /\ n = 0) \/ pc = "claim"
    BY <1>0
  <2> HIDE DEF d, n, pc, B
  <2>5. req'[a].batch = B \cup {d} /\ req'[a].left = n /\ req'[a].pc = pc
    BY <1>0, <2>2 DEF Request, B
  <2>6. Load(req'[a]) = Cardinality(B \cup {d}) + n
    <3>1. Out(req'[a]) = 0 /\ (IF req'[a].pc = "claim" THEN req'[a].left ELSE 0) = n
      BY <2>4, <2>5 DEF Out
    <3>2. n \in Nat
      BY <1>0, <2>3 DEF n
    <3> DEFINE x == Cardinality(B \cup {d})
    <3>3. x \in Nat
      BY <1>card
    <3>4. Load(req'[a]) = x + n + 0
      BY <2>5, <3>1 DEF Load
    <3> HIDE DEF x
    <3>5. Load(req'[a]) = x + n
      BY <3>2, <3>3, <3>4
    <3> QED BY <3>5 DEF x
  <2>7. Load(req[a]) = Cardinality(B) + req[a].left
    BY <1>0, <1>card, <2>3 DEF Load, Out, B
  <2>8. n = req[a].left - 1 /\ req[a].left \in Nat /\ req[a].left # 0
    BY <1>0, <2>3 DEF n
  <2>9. /\ Cardinality(B \cup {d}) \in Nat /\ Cardinality(B) \in Nat
        /\ Cardinality(B \cup {d}) <= Cardinality(B) + 1
    BY <1>card
  <2>10. Load(req'[a]) <= Load(req[a]) /\ Load(req'[a]) \in Nat
    BY <2>6, <2>7, <2>8, <2>9
  <2>11. IsFiniteSet(req'[a].batch) /\ req[a].pc \in Handling
    BY <1>card, <2>3, <2>5 DEF Handling
  <2> QED BY <1>keep, <2>3, <2>10, <2>11
<1>3. CASE ClaimsEnd(a)
  <2> DEFINE pc == IF req[a].batch = {} THEN "finish" ELSE "send"
  <2>1. req' = [req EXCEPT ![a].pc = pc, ![a].left = 0] /\ req[a].pc = "claim" /\ ~Record(a)
    BY <1>3 DEF ClaimsEnd, Record, At
  <2> HIDE DEF pc, B
  <2>2. req'[a].pc = pc /\ req'[a].batch = B
    BY <1>0, <2>1 DEF Request, B
  <2>3. pc = "send"
    BY <2>2 DEF pc, Handling
  <2>4. Load(req'[a]) = Cardinality(B) /\ Load(req[a]) = Cardinality(B) + req[a].left
    BY <1>0, <1>card, <2>1, <2>2, <2>3 DEF Load, Out, B
  <2> QED BY <1>0, <1>card, <2>1, <2>2, <2>4 DEF LoadMoves, Handling, B
<1>4. ASSUME NEW d \in B, Accepted(a, d) PROVE LoadMoves(a)
  <2>1. req'[a].batch = B \ {d} /\ req'[a].pc = "record" /\ req[a].pc = "send"
    BY <1>4, AcceptedHands
  <2> HIDE DEF B
  <2>2. Load(req'[a]) = Cardinality(B \ {d}) + 1 /\ Load(req[a]) = Cardinality(B)
    BY <1>card, <2>1 DEF Load, Out, B
  <2>3. ~Record(a)
    BY <2>1 DEF Record, At
  <2>4. Load(req'[a]) <= Load(req[a]) /\ Load(req'[a]) \in Nat
    <3>1. Cardinality(B \ {d}) = Cardinality(B) - 1 /\ Cardinality(B \ {d}) \in Nat /\ Cardinality(B) \in Nat
      BY <1>4, <1>card DEF B
    <3> QED BY <2>2, <3>1
  <2>5. IsFiniteSet(req'[a].batch) /\ req[a].pc \in Handling
    BY <1>card, <2>1 DEF Handling
  <2> QED BY <1>keep, <2>3, <2>4, <2>5
<1>5. ASSUME NEW d, req' = Without(a, d) PROVE req'[a].pc = "send" /\ req'[a].batch = B \ {d}
  BY <1>0, <1>5 DEF Without, Request
<1>6. ASSUME NEW d \in B, SkipOne(a, d) \/ Refused(a, d) \/ TimedOut(a, d) PROVE LoadMoves(a)
  <2>1. req'[a].batch = B \ {d} /\ req'[a].pc = "send" /\ req[a].pc = "send"
    BY <1>5, <1>6 DEF SkipOne, Refused, TimedOut, At
  <2> HIDE DEF B
  <2>2. Load(req'[a]) = Cardinality(B \ {d}) /\ Load(req[a]) = Cardinality(B)
    BY <1>card, <2>1 DEF Load, Out, B
  <2>3. ~Record(a)
    BY <2>1 DEF Record, At
  <2>4. Load(req'[a]) <= Load(req[a]) /\ Load(req'[a]) \in Nat
    <3>1. Cardinality(B \ {d}) <= Cardinality(B) /\ Cardinality(B \ {d}) \in Nat /\ Cardinality(B) \in Nat
      BY <1>card
    <3> QED BY <2>2, <3>1
  <2>5. IsFiniteSet(req'[a].batch) /\ req[a].pc \in Handling
    BY <1>card, <2>1 DEF Handling
  <2> QED BY <1>keep, <2>3, <2>4, <2>5
<1>7. CASE Record(a) \/ RecordFails(a)
  <2> DEFINE d == req[a].cur
  <2>1. req'[a].batch = B \ {d} /\ req'[a].pc = "send" /\ req[a].pc = "record"
    BY <1>5, <1>7 DEF Record, RecordFails, At
  <2> HIDE DEF B, d
  <2>2. Load(req'[a]) = Cardinality(B \ {d}) /\ Load(req[a]) = Cardinality(B) + 1
    BY <1>card, <2>1 DEF Load, Out, B
  <2>3. (IF Record(a) THEN 1 ELSE 0) \in {0, 1}
    OBVIOUS
  <2>4. Cardinality(B \ {d}) <= Cardinality(B)
    BY <1>card
  <2>5. Load(req'[a]) + (IF Record(a) THEN 1 ELSE 0) <= Load(req[a])
    BY <1>card, <2>2, <2>3, <2>4
  <2> QED BY <1>card, <2>1, <2>5 DEF LoadMoves, Handling
<1>8. NextBatch(a) \/ Claim(a) \/ ClaimsEnd(a) \/ SendStep(a)
  BY Enters DEF Handling
<1> QED BY <1>1, <1>2, <1>3, <1>4, <1>6, <1>7, <1>8 DEF SendStep

(* Batches are finite, and without overlap: what went out in a window has its event, is
   known to have none or is being recorded... *)
FiniteBatches == \A a \in Requests : req[a].pc \in Handling => IsFiniteSet(req[a].batch)

Accounted ==
  \/ window.out <= window.events + window.lost
  \/ \E a \in Requests : req[a].pc = "record" /\ window.out <= window.events + window.lost + 1

(* ...and what the drain may still send of its batch is within the limit. *)
Allowance ==
  /\ window.events <= Limit
  /\ \A a \in Requests : req[a].pc \in Handling => window.events + Load(req[a]) <= Limit

WithinLimit == FiniteBatches /\ (overlap = {} => Accounted /\ Allowance)

LEMMA LoadNat ==
  ASSUME NEW w \in Request, IsFiniteSet(w.batch)
  PROVE  Load(w) \in Nat
<1> DEFINE x == Cardinality(w.batch)
           y == IF w.pc = "claim" THEN w.left ELSE 0
           z == Out(w)
<1>1. x \in Nat /\ y \in Nat /\ z \in Nat
  BY FS_CardinalityType DEF Request, Out
<1>2. Load(w) = x + y + z
  BY DEF Load
<1> HIDE DEF x, y, z
<1> QED BY <1>1, <1>2

LEMMA FiniteStep ==
  ASSUME Typed, CurApart, FiniteBatches, [Next]_vars
  PROVE  /\ FiniteBatches'
         /\ \A a \in Requests : Acts(a) /\ req'[a].pc \in Handling => LoadMoves(a)
<1>1. ASSUME NEW a \in Requests, Acts(a), req'[a].pc \in Handling
      PROVE  LoadMoves(a) /\ IsFiniteSet(req'[a].batch)
  <2>1. NextBatch(a) \/ Claim(a) \/ ClaimsEnd(a) \/ SendStep(a)
    BY <1>1, Enters DEF Handling
  <2>2. req[a].pc \in Handling \/ req[a].batch = {}
    BY <2>1 DEF NextBatch, Claim, ClaimsEnd, SendStep, SkipOne, Accepted, Refused, TimedOut,
                Record, RecordFails, At, Handling, Typed, RequestsOK, ReqOK
  <2>3. IsFiniteSet(req[a].batch)
    BY <2>2, FS_EmptySet DEF FiniteBatches
  <2>4. LoadMoves(a)
    BY <1>1, <2>3, LoadStep
  <2> QED BY <2>4 DEF LoadMoves
<1>2. ASSUME NEW a \in Requests, req'[a].pc \in Handling PROVE IsFiniteSet(req'[a].batch)
  <2>1. req'[a] # Idle
    BY <1>2 DEF Idle, Handling
  <2> QED BY <1>1, <1>2, <2>1, WhoMoves DEF FiniteBatches
<1> QED BY <1>1, <1>2 DEF FiniteBatches

LEMMA AccountedActs ==
  ASSUME Typed, Typed', TwoSeen', TwoSeen, overlap' = {}, overlap = {}, Accounted,
         NEW a \in Requests, Acts(a)
  PROVE  Accounted'
<1>0. /\ window.out \in Nat /\ window.events \in Nat /\ window.lost \in Nat
      /\ window'.out \in Nat /\ window'.events \in Nat /\ window'.lost \in Nat
      /\ Out(req[a]) \in {0, 1} /\ Out(req'[a]) \in {0, 1}
  BY DEF Typed, TypeOK, Out
<1>1. window'.out + window.events + window.lost + Out(req[a])
        <= window.out + window'.events + window'.lost + Out(req'[a])
  BY AccountsStep DEF Accounts
<1>2. Out(req'[a]) = 1 => req'[a].pc = "record"
  BY DEF Out
<1>3. CASE window.out <= window.events + window.lost
  <2>1. window'.out <= window'.events + window'.lost + Out(req'[a])
    BY <1>0, <1>1, <1>3
  <2>2. \/ Out(req'[a]) = 1 /\ window'.out <= window'.events + window'.lost + 1
        \/ window'.out <= window'.events + window'.lost
    BY <1>0, <2>1
  <2> QED BY <1>2, <2>2 DEF Accounted
<1>4. ASSUME NEW b \in Requests, req[b].pc = "record", window.out <= window.events + window.lost + 1
      PROVE  Accounted'
  <2>1. CASE b = a
    <3>1. Out(req[a]) = 1
      BY <1>4, <2>1 DEF Out
    <3>2. window'.out <= window'.events + window'.lost + Out(req'[a])
      BY <1>0, <1>1, <1>4, <3>1
    <3>3. \/ Out(req'[a]) = 1 /\ window'.out <= window'.events + window'.lost + 1
          \/ window'.out <= window'.events + window'.lost
      BY <1>0, <3>2
    <3> QED BY <1>2, <3>3 DEF Accounted
  <2>2. CASE b # a
    <3>1. req'[b] = req[b]
      BY <2>2, OneActs
    <3>2. req[a].pc # "record" /\ req'[a].pc # "record"
      BY <1>4, <2>2, <3>1 DEF TwoSeen, Draining
    <3>3. Out(req[a]) = 0 /\ Out(req'[a]) = 0
      BY <3>2 DEF Out
    <3>4. window'.out <= window'.events + window'.lost + 1
      BY <1>0, <1>1, <1>4, <3>3
    <3> QED BY <1>4, <3>1, <3>4 DEF Accounted
  <2> QED BY <2>1, <2>2
<1> QED BY <1>3, <1>4 DEF Accounted

LEMMA AllowanceActs ==
  ASSUME Typed, Typed', CurApart, FiniteBatches, FiniteBatches', TwoSeen, overlap = {},
         Allowance, [Next]_vars, NEW a \in Requests, Acts(a)
  PROVE  Allowance'
<1>0. /\ window.events \in Nat /\ window'.events \in Nat /\ Limit \in Nat
  BY Positive DEF Typed, TypeOK
<1>1. \/ window'.events = window.events
      \/ window'.events = window.events + 1 /\ Record(a)
  BY AccountsStep DEF Accounts
<1>2. window'.events <= Limit
  <2>1. CASE Record(a)
    <3>1. req[a].pc = "record" /\ req[a].pc \in Handling
      BY <2>1 DEF Record, At, Handling
    <3> DEFINE x == Cardinality(req[a].batch)
    <3>2. x \in Nat /\ Load(req[a]) = x + 0 + 1
      BY <3>1, FS_CardinalityType DEF FiniteBatches, Load, Out
    <3>3. window.events + Load(req[a]) <= Limit
      BY <3>1 DEF Allowance
    <3> HIDE DEF x
    <3> QED BY <1>0, <1>1, <3>2, <3>3
  <2> QED BY <1>1, <2>1 DEF Allowance
<1>3. ASSUME NEW b \in Requests, req'[b].pc \in Handling
      PROVE  window'.events + Load(req'[b]) <= Limit
  <2>1. Load(req'[b]) \in Nat
    <3>1. IsFiniteSet(req'[b].batch)
      BY <1>3 DEF FiniteBatches
    <3>2. req'[b] \in Request
      BY DEF Typed, TypeOK
    <3> QED BY <3>1, <3>2, LoadNat
  <2>2. CASE b # a
    <3>1. req'[b] = req[b]
      BY <2>2, OneActs
    <3>2. window.events + Load(req[b]) <= Limit
      BY <1>3, <3>1 DEF Allowance
    <3>3. ~Record(a)
      BY <1>3, <2>2, <3>1 DEF Record, At, TwoSeen, Handling, Draining
    <3> QED BY <1>1, <3>1, <3>2, <3>3
  <2>3. CASE b = a
    <3>1. CASE NextBatch(a) /\ Load(req'[a]) <= Allowed
      <4>1. ~Record(a)
        BY <3>1 DEF NextBatch, Record, At
      <4>2. window'.events = window.events /\ window.events <= Limit
        BY <1>1, <4>1 DEF Allowance
      <4>3. Allowed + window.events = Limit
        BY <1>0, <4>2 DEF Allowed
      <4>4. Allowed \in Nat
        BY <1>0 DEF Allowed
      <4> QED BY <1>0, <2>1, <2>3, <3>1, <4>2, <4>3, <4>4
    <3>2. CASE /\ req[a].pc \in Handling
               /\ Load(req'[a]) + (IF Record(a) THEN 1 ELSE 0) <= Load(req[a])
      <4> DEFINE m == IF Record(a) THEN 1 ELSE 0
                 x == Load(req'[a])
                 y == Load(req[a])
      <4>1. window.events + y <= Limit
        BY <3>2 DEF Allowance
      <4>2. y \in Nat
        <5>1. req[a] \in Request /\ IsFiniteSet(req[a].batch)
          BY <3>2 DEF FiniteBatches, Typed, TypeOK
        <5> QED BY <5>1, LoadNat
      <4>3. window'.events <= window.events + m /\ m \in Nat
        <5>1. CASE Record(a)
          <6>1. m = 1
            BY <5>1
          <6> HIDE DEF m
          <6> QED BY <1>0, <1>1, <6>1
        <5>2. CASE ~Record(a)
          <6>1. m = 0 /\ window'.events = window.events
            BY <1>1, <5>2
          <6> HIDE DEF m
          <6> QED BY <1>0, <6>1
        <5> QED BY <5>1, <5>2
      <4>4. x + m <= y /\ x \in Nat
        BY <2>1, <2>3, <3>2
      <4> HIDE DEF m, x, y
      <4>5. window'.events + x <= Limit
        BY <1>0, <4>1, <4>2, <4>3, <4>4
      <4> QED BY <2>3, <4>5 DEF x
    <3> QED BY <1>3, <2>3, <3>1, <3>2, FiniteStep DEF LoadMoves
  <2> QED BY <2>2, <2>3
<1> QED BY <1>2, <1>3 DEF Allowance, Load, Out

LEMMA WithinLimitWorld ==
  ASSUME Typed, FiniteBatches, Accounted, Allowance, WorldStep
  PROVE  Accounted' /\ Allowance'
<1>0. /\ window \in [out : Nat, events : Nat, lost : Nat]
      /\ window.out \in Nat /\ window.events \in Nat /\ window.lost \in Nat /\ Limit \in Nat
  BY Positive DEF Typed, TypeOK
<1>1. CASE req' = req /\ window' = window
  BY <1>1 DEF Accounted, Allowance, Load, Out
<1>2. CASE WindowPasses
  <2>1. req' = req /\ window'.out = 0 /\ window'.events = 0 /\ window'.lost = 0
    BY <1>2 DEF WindowPasses
  <2>2. ASSUME NEW a \in Requests, req[a].pc \in Handling PROVE 0 + Load(req[a]) <= Limit
    <3>1. Load(req[a]) \in Nat /\ window.events + Load(req[a]) <= Limit
      <4>1. req[a] \in Request /\ IsFiniteSet(req[a].batch)
        BY <2>2 DEF FiniteBatches, Typed, TypeOK
      <4> QED BY <2>2, <4>1, LoadNat DEF Allowance
    <3> QED BY <1>0, <3>1
  <2> QED BY <1>0, <2>1, <2>2 DEF Accounted, Allowance, Load, Out
<1>3. CASE Crash
  <2> DEFINE S == {a \in Requests : At(a, "record")}
  <2>1. IsFiniteSet(S)
    BY CampaignAssumption, FS_Subset DEF CampaignAssumption
  <2>2. Cardinality(S) \in Nat /\ (S # {} => Cardinality(S) # 0)
    BY <2>1, FS_CardinalityType, FS_EmptySet
  <2>3. window' = [window EXCEPT !.lost = window.lost + Cardinality(S)]
    BY <1>3 DEF Crash
  <2>4. \A a \in Requests : req'[a].pc = "idle"
    BY <1>3 DEF Crash, Idle
  <2>5. (\E a \in Requests : req[a].pc = "record") => S # {}
    BY DEF At
  <2> HIDE DEF S
  <2>6. /\ window'.out = window.out /\ window'.events = window.events
        /\ window'.lost = window.lost + Cardinality(S)
    BY <1>0, <2>3
  <2>7. window'.out <= window'.events + window'.lost
    BY <1>0, <2>2, <2>5, <2>6 DEF Accounted
  <2>8. \A a \in Requests : req'[a].pc \notin Handling
    BY <2>4 DEF Handling
  <2> QED BY <2>6, <2>7, <2>8 DEF Accounted, Allowance
<1>4. (req' = req /\ window' = window) \/ WindowPasses \/ Crash
  BY DEF WorldStep, OptOut, RetryComes, LockExpires
<1> QED BY <1>1, <1>2, <1>3, <1>4

LEMMA WithinLimitStep ==
  ASSUME Typed, Typed', CurApart, TwoSeen, TwoSeen', WithinLimit, [Next]_vars
  PROVE  WithinLimit'
<1>1. FiniteBatches'
  BY FiniteStep DEF WithinLimit
<1>2. ASSUME overlap' = {} PROVE Accounted' /\ Allowance'
  <2>1. overlap = {}
    BY <1>2, HistoryGrows DEF Grows
  <2>2. FiniteBatches /\ Accounted /\ Allowance
    BY <2>1 DEF WithinLimit
  <2>3. CASE \E a \in Requests : Acts(a)
    BY <1>1, <1>2, <2>1, <2>2, <2>3, AccountedActs, AllowanceActs
  <2>4. CASE WorldStep
    BY <2>2, <2>4, WithinLimitWorld
  <2>5. CASE UNCHANGED vars
    BY <2>2, <2>5 DEF vars, Accounted, Allowance, Load, Out
  <2> QED BY <2>3, <2>4, <2>5 DEF Next, Acts
<1> QED BY <1>1, <1>2 DEF WithinLimit

(* With one drain at a time, what goes out in a window is within the owner's limit, but for
   messages whose event was lost. *)
THEOREM AllowanceHolds == Spec => []AllowanceKept
<1>1. Init => TwoSeen /\ WithinLimit
  <2> SUFFICES ASSUME Init PROVE TwoSeen /\ WithinLimit
    OBVIOUS
  <2>1. \A a \in Requests : req[a].pc = "idle"
    BY DEF Init, Idle
  <2>2. window.out = 0 /\ window.events = 0 /\ window.lost = 0
    BY DEF Init
  <2>3. TwoSeen /\ FiniteBatches
    BY <2>1 DEF TwoSeen, FiniteBatches, Draining, Handling
  <2>4. Accounted /\ Allowance
    BY <2>1, <2>2, Positive DEF Accounted, Allowance, Handling
  <2> QED BY <2>3, <2>4 DEF WithinLimit
<1>2. Typed /\ Typed' /\ Linked /\ TwoSeen /\ WithinLimit /\ [Next]_vars => (TwoSeen /\ WithinLimit)'
  BY TwoSeenStep, WithinLimitStep DEF Linked
<1>3. Typed /\ WithinLimit => AllowanceKept
  <2> SUFFICES ASSUME Typed, WithinLimit, overlap = {} PROVE ~(window.out > Limit + window.lost)
    BY DEF AllowanceKept
  <2>0. /\ window.out \in Nat /\ window.events \in Nat /\ window.lost \in Nat /\ Limit \in Nat
    BY Positive DEF Typed, TypeOK
  <2>1. window.events <= Limit
    BY DEF WithinLimit, Allowance
  <2>2. ASSUME NEW a \in Requests, req[a].pc = "record" PROVE window.events + 1 <= Limit
    <3>1. IsFiniteSet(req[a].batch) /\ window.events + Load(req[a]) <= Limit
      BY <2>2 DEF WithinLimit, FiniteBatches, Allowance, Handling
    <3> DEFINE x == Cardinality(req[a].batch)
    <3>2. x \in Nat /\ Load(req[a]) = x + 0 + 1
      BY <2>2, <3>1, FS_CardinalityType DEF Load, Out
    <3> HIDE DEF x
    <3> QED BY <2>0, <3>1, <3>2
  <2> QED BY <2>0, <2>1, <2>2 DEF WithinLimit, Accounted
<1> QED BY <1>1, <1>2, <1>3, CampaignTypes, HandsAreApart, PTL DEF Spec
=============================================================================
