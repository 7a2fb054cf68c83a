---------------------------- MODULE MailSync_proofs ----------------------------
(****************************************************************************)
(* The two ways mail comes in.  A folder: types, and the soundness of the    *)
(* token it stores.  The replies: types, what becomes of a stored letter,    *)
(* the count of a lead's replies, and the lead of a thread and its letters.  *)
(****************************************************************************)
EXTENDS FolderSync, ReplySync, FiniteSetTheorems, TLAPS

(* What the counter of pages and the page at hand look like at each step of a sync. *)
Walks ==
  \A s \in Syncs :
    /\ sync[s].pc \in {"lock", "fetch"} => sync[s].pages < MaxPages
    /\ sync[s].pc \notin {"persist", "failed"} => sync[s].page = {}

FolderRecord == FolderTypes /\ Walks

(* One sync moves on. *)
LEMMA SyncPut ==
  ASSUME FolderRecord, NEW s \in Syncs, NEW w \in SyncProgress, sync' = [sync EXCEPT ![s] = w],
         w.pc \in {"lock", "fetch"} => w.pages < MaxPages,
         w.pc \notin {"persist", "failed"} => w.page = {}
  PROVE  sync' \in [Syncs -> SyncProgress] /\ Walks'
BY DEF FolderRecord, FolderTypes, Walks

LEMMA NoSyncType == NoSync \in SyncProgress
BY FolderAssumption DEF NoSync, SyncProgress, FolderAssumption

LEMMA TokenType ==
  ASSUME NEW at \in Nat, NEW rest \in SUBSET Msgs, FolderTypes
  PROVE  Token(at, rest) \in Tokens
BY DEF Token, Tokens, FolderTypes

LEMMA CoversType ==
  ASSUME FolderTypes, NEW t \in Tokens \cup {NoToken}
  PROVE  Covers(t) \in Nat /\ ToList(t) \subseteq Msgs
<1>1. Covers(t) \in Nat
  BY DEF Covers, FolderTypes, Tokens
<1>2. ToList(t) \subseteq Msgs
  BY DEF ToList, There, FolderTypes, Tokens
<1> QED BY <1>1, <1>2

LEMMA RecordInit == FolderInit => FolderRecord
<1> SUFFICES ASSUME FolderInit PROVE FolderRecord
  OBVIOUS
<1>1. sync \in [Syncs -> SyncProgress]
  BY NoSyncType DEF FolderInit
<1>2. Walks
  BY FolderAssumption DEF FolderInit, Walks, NoSync, FolderAssumption
<1>3. mail \in [Msgs -> [ver : Nat, gone : BOOLEAN]]
  BY DEF FolderInit, NoMail
<1> QED BY <1>1, <1>2, <1>3 DEF FolderInit, FolderRecord, FolderTypes

(* The rest of the step writes well-typed values. *)
LEMMA RecordFetch ==
  ASSUME FolderRecord, NEW s \in Syncs, Fetch(s)
  PROVE  FolderRecord'
<1> DEFINE t == sync[s].from
           list == ToList(t)
<1>1. t \in Tokens \cup {NoToken} /\ sync[s] \in SyncProgress
  BY DEF FolderRecord, FolderTypes, SyncProgress
<1>2. Covers(t) \in Nat /\ list \subseteq Msgs
  BY <1>1, CoversType DEF FolderRecord
<1>3. PICK page \in SUBSET list : sync' = [sync EXCEPT ![s] = Fetched(s, page)]
  BY DEF Fetch
<1> DEFINE entries == {[m |-> m, ver |-> remote[m].at, gone |-> remote[m].gone] : m \in page}
           w == Fetched(s, page)
<1>4. Token(Covers(t), list \ page) \in Tokens
  BY <1>2, TokenType DEF FolderRecord
<1>5. entries \subseteq [m : Msgs, ver : Nat, gone : BOOLEAN]
  BY <1>2 DEF FolderRecord, FolderTypes
<1>6. sync[s].pages \in 0 .. MaxPages /\ sync[s].pages < MaxPages
  BY <1>1 DEF FolderRecord, Walks, Fetch, SyncProgress
<1>7. sync[s].pages + 1 \in 0 .. MaxPages
  BY <1>6, FolderAssumption DEF FolderAssumption
<1>8. sync' = [sync EXCEPT ![s] = w]
  BY <1>3
<1>9. w \in SyncProgress /\ w.pc = "persist"
  <2> DEFINE n == Token(Covers(t), list \ page)
             k == (list # page)
             v == [sync[s] EXCEPT !.pc = "persist", !.pages = @ + 1, !.page = entries, !.next = n, !.more = k]
  <2>1. k \in BOOLEAN /\ n \in Tokens
    BY <1>4
  <2>2. w = v
    BY DEF Fetched
  <2> HIDE DEF entries, n, k, w
  <2>3. v \in SyncProgress /\ v.pc = "persist"
    BY <1>1, <1>5, <1>7, <2>1 DEF SyncProgress
  <2> QED BY <2>2, <2>3
<1> HIDE DEF w
<1>10. sync' \in [Syncs -> SyncProgress] /\ Walks'
  BY <1>8, <1>9, SyncPut
<1>11. forgotten' \subseteq Msgs
  BY DEF Fetch, FolderRecord, FolderTypes
<1>12. UNCHANGED <<seq, remote, era, mail, token, full, lock, mishaps, lost, shared, spoilt, kept>>
  BY DEF Fetch, provider, state, locking
<1> QED BY <1>10, <1>11, <1>12 DEF FolderRecord, FolderTypes

LEMMA RecordWrite ==
  ASSUME FolderRecord, NEW s \in Syncs, Persist(s) \/ EndPage(s)
  PROVE  FolderRecord'
<1>1. sync[s] \in SyncProgress /\ sync[s].pc = "persist"
  BY DEF FolderRecord, FolderTypes, Persist, EndPage
<1>2. CASE Persist(s)
  <2>1. PICK p \in sync[s].page : \E wins \in LocalWins(p) :
          /\ mail' = [mail EXCEPT ![p.m].ver = IF wins THEN @ ELSE p.ver]
          /\ kept' = IF wins THEN kept \cup {p.m} ELSE kept \ {p.m}
          /\ Mark(s, {p.m})
          /\ sync' = [sync EXCEPT ![s].page = @ \ {p}]
    BY <1>2 DEF Persist
  <2>2. p.m \in Msgs /\ p.ver \in Nat
    BY <1>1 DEF SyncProgress
  <2> DEFINE w == [sync[s] EXCEPT !.page = @ \ {p}]
  <2>3. w \in SyncProgress /\ w.pc = "persist"
    BY <1>1 DEF SyncProgress
  <2>4. sync' = [sync EXCEPT ![s] = w]
    BY <2>1
  <2> HIDE DEF w
  <2>5. sync' \in [Syncs -> SyncProgress] /\ Walks'
    BY <2>3, <2>4, SyncPut
  <2>6. mail' \in [Msgs -> [ver : Nat, gone : BOOLEAN]] /\ kept' \subseteq Msgs /\ spoilt' \subseteq Msgs
    BY <2>1, <2>2 DEF Mark, FolderRecord, FolderTypes
  <2> QED BY <1>2, <2>5, <2>6 DEF Persist, FolderRecord, FolderTypes, provider, state, locking
<1>3. CASE EndPage(s)
  <2> DEFINE w == [sync[s] EXCEPT !.page = {}, !.from = sync[s].next,
                                  !.pc = IF GoesOn(s) THEN "fetch" ELSE "release"]
  <2>1. w \in SyncProgress /\ w.page = {}
    BY <1>1 DEF SyncProgress
  <2>2. w.pc \in {"lock", "fetch"} => w.pages < MaxPages
    BY <1>1 DEF SyncProgress, GoesOn
  <2>3. sync' = [sync EXCEPT ![s] = w]
    BY <1>3 DEF EndPage
  <2> HIDE DEF w
  <2>4. sync' \in [Syncs -> SyncProgress] /\ Walks'
    BY <2>1, <2>2, <2>3, SyncPut
  <2>5. mail' \in [Msgs -> [ver : Nat, gone : BOOLEAN]]
    BY <1>3 DEF EndPage, FolderRecord, FolderTypes
  <2>6. spoilt' \subseteq Msgs
    BY <1>1, <1>3 DEF EndPage, Mark, FolderRecord, FolderTypes, SyncProgress
  <2> QED BY <1>3, <2>4, <2>5, <2>6 DEF EndPage, FolderRecord, FolderTypes, provider, state, locking
<1> QED BY <1>2, <1>3

(* The steps that only move one sync and the lock. *)
LEMMA RecordMove ==
  ASSUME FolderRecord, NEW s \in Syncs,
         \/ \E mode \in {"incremental", "full"} : Begin(s, mode)
         \/ Acquire(s) \/ Expired(s) \/ Release(s) \/ ReleaseExpired(s) \/ RequireResync(s)
         \/ Fails(s) \/ ReleaseFailed(s)
  PROVE  FolderRecord'
<1>1. sync[s] \in SyncProgress /\ sync[s].next \in Tokens \cup {NoToken} /\ token \in Tokens \cup {NoToken}
  BY DEF FolderRecord, FolderTypes, SyncProgress
<1>2. Active \subseteq Syncs
  BY DEF Active
<1>3. sync' \in [Syncs -> SyncProgress] /\ Walks'
  <2>1. CASE \E mode \in {"incremental", "full"} : Begin(s, mode)
    <3>1. PICK mode \in {"incremental", "full"} : Begin(s, mode)
      BY <2>1
    <3> DEFINE t == IF mode = "incremental" /\ ~full THEN token ELSE NoToken
               w == [NoSync EXCEPT !.pc = "lock", !.from = t]
    <3>3. sync' = [sync EXCEPT ![s] = w]
      BY <3>1 DEF Begin
    <3>4. t \in Tokens \cup {NoToken}
      BY <1>1
    <3> HIDE DEF t
    <3>5. NoSync \in SyncProgress /\ NoSync.page = {} /\ NoSync.pages = 0
      BY NoSyncType DEF NoSync
    <3>6. w \in SyncProgress /\ w.page = NoSync.page /\ w.pages = NoSync.pages
      BY <3>4, <3>5 DEF SyncProgress
    <3>2. w \in SyncProgress /\ w.page = {} /\ w.pages < MaxPages
      BY <3>5, <3>6, FolderAssumption DEF FolderAssumption
    <3> HIDE DEF w
    <3> QED BY <3>2, <3>3, SyncPut
  <2>2. CASE sync' = [sync EXCEPT ![s] = NoSync]
    <3>1. NoSync.pc = "idle" /\ NoSync.page = {}
      BY DEF NoSync
    <3> QED BY <2>2, <3>1, NoSyncType, SyncPut
  <2>3. ASSUME NEW pc \in {"fetch", "expired", "resync", "failed", "again"}, sync' = [sync EXCEPT ![s].pc = pc],
               pc = "fetch" => sync[s].pc = "lock",
               pc \in {"expired", "resync", "again"} => sync[s].pc \in {"fetch", "expired", "release"}
        PROVE  sync' \in [Syncs -> SyncProgress] /\ Walks'
    <3> DEFINE w == [sync[s] EXCEPT !.pc = pc]
    <3>1. w \in SyncProgress /\ w.pc = pc /\ w.page = sync[s].page /\ w.pages = sync[s].pages
      BY <1>1 DEF SyncProgress
    <3>2. sync' = [sync EXCEPT ![s] = w]
      BY <2>3
    <3>3. /\ pc = "fetch" => sync[s].pages < MaxPages /\ sync[s].page = {}
          /\ pc \in {"expired", "resync", "again"} => sync[s].page = {}
      BY <2>3 DEF FolderRecord, Walks
    <3> HIDE DEF w
    <3> QED BY <3>1, <3>2, <3>3, SyncPut
  <2>4. CASE Acquire(s)
    BY <2>2, <2>3, <2>4 DEF Acquire
  <2>5. CASE Expired(s) \/ ReleaseExpired(s) \/ Fails(s)
    BY <2>3, <2>5 DEF Expired, ReleaseExpired, Fails
  <2>6. CASE Release(s) \/ RequireResync(s) \/ ReleaseFailed(s)
    BY <2>2, <2>3, <2>6 DEF Release, RequireResync, ReleaseFailed
  <2> QED BY <2>1, <2>4, <2>5, <2>6
<1>4. token' \in Tokens \cup {NoToken} /\ full' \in BOOLEAN /\ lock' \in {"free", "held", "stale"}
  BY <1>1 DEF FolderRecord, FolderTypes, Begin, Acquire, Expired, Release, ReleaseExpired, RequireResync, Fails,
              ReleaseFailed, Unlock, NewToken, state
<1>5. lost' \subseteq Syncs /\ shared' \subseteq Syncs
  BY <1>2 DEF FolderRecord, FolderTypes, Begin, Acquire, Expired, Release, ReleaseExpired, RequireResync, Fails,
              ReleaseFailed, Unlock, folderHistory, locking
<1>6. mishaps' \in Nat
  BY DEF FolderRecord, FolderTypes, Begin, Acquire, Expired, Release, ReleaseExpired, RequireResync, Fails,
         ReleaseFailed, Mishap
<1>7. UNCHANGED <<seq, remote, era, mail, spoilt, kept, forgotten>>
  BY DEF Begin, Acquire, Expired, Release, ReleaseExpired, RequireResync, Fails, ReleaseFailed,
         provider, folderHistory, locking
<1> QED BY <1>3, <1>4, <1>5, <1>6, <1>7 DEF FolderRecord, FolderTypes

(* The provider, and what befalls the lock and the process. *)
LEMMA RecordAround ==
  ASSUME FolderRecord,
         \/ \E m \in Msgs, gone \in BOOLEAN : Change(m, gone)
         \/ TokensExpire \/ LockAges \/ Disconnect \/ SyncCrash
  PROVE  FolderRecord'
<1>1. Active \subseteq Syncs
  BY DEF Active
<1>2. CASE \E m \in Msgs, gone \in BOOLEAN : Change(m, gone)
  <2>1. remote' \in [Msgs -> [at : Nat, gone : BOOLEAN]] /\ seq' \in Nat
    BY <1>2 DEF Change, FolderRecord, FolderTypes
  <2> QED BY <1>2, <2>1 DEF Change, FolderRecord, FolderTypes, Walks, state, folderHistory, locking
<1>3. CASE TokensExpire
  BY <1>3 DEF TokensExpire, Mishap, FolderRecord, FolderTypes, Walks, state, folderHistory, locking
<1>4. CASE LockAges \/ Disconnect
  <2>1. mishaps' \in Nat /\ lock' \in {"free", "held", "stale"} /\ lost' \subseteq Syncs
    BY <1>1, <1>4 DEF LockAges, Disconnect, Mishap, FolderRecord, FolderTypes
  <2> QED BY <1>4, <2>1 DEF LockAges, Disconnect, FolderRecord, FolderTypes, Walks, provider
<1>5. CASE SyncCrash
  <2>1. sync' \in [Syncs -> SyncProgress] /\ Walks'
    BY <1>5, NoSyncType DEF SyncCrash, Walks, NoSync
  <2>2. mishaps' \in Nat
    BY <1>5 DEF SyncCrash, Mishap, FolderRecord, FolderTypes
  <2> QED BY <1>5, <2>1, <2>2 DEF SyncCrash, FolderRecord, FolderTypes, provider, state
<1> QED BY <1>2, <1>3, <1>4, <1>5

LEMMA RecordStep ==
  ASSUME FolderRecord, [FolderNext]_folderVars
  PROVE  FolderRecord'
<1>1. CASE UNCHANGED folderVars
  BY <1>1 DEF FolderRecord, FolderTypes, Walks, folderVars, provider, state, folderHistory, locking
<1>2. ASSUME NEW s \in Syncs, SyncStep(s) PROVE FolderRecord'
  BY <1>2, RecordMove, RecordFetch, RecordWrite DEF SyncStep
<1> QED BY <1>1, <1>2, RecordAround DEF FolderNext

(* Every variable of the folder sync holds what the code may put there, and no walk reads *)
(* more than MAX_PAGES_PER_RUN pages (syncEngine).                                        *)
THEOREM FolderTypeCorrect == FolderSpec => []FolderTypes
<1>1. FolderRecord /\ [FolderNext]_folderVars => FolderRecord'
  BY RecordStep
<1>2. FolderRecord => FolderTypes
  BY DEF FolderRecord
<1> QED BY <1>1, <1>2, RecordInit, PTL DEF FolderSpec
-------------------------------------------------------------------------------
(* The tokens the store and the syncs hold. *)
Known == {token} \cup {sync[s].from : s \in Syncs} \cup {sync[s].next : s \in Syncs}

(* Token t is past the last change of message m. *)
Passes(t, m) == t # NoToken /\ 0 < remote[m].at /\ remote[m].at <= t.at /\ m \notin t.rest

(* The store has the last change of message m, or a named reason not to. *)
Fine(m) ==
  IF remote[m].gone THEN m \in forgotten \/ mail[m].ver = 0 \/ mail[m].gone
  ELSE m \in kept \/ mail[m].ver = remote[m].at

Upheld(t) == \A m \in Msgs : Passes(t, m) => m \in spoilt \/ Fine(m)

(* Two syncs have the folder together only after a lock was lost, and both are on record. *)
Apart ==
  /\ lock # "held" => lost = Active
  /\ \A s, q \in Active : s # q => s \in shared

(* No token is ahead of the provider. *)
Behind == \A t \in Known : t # NoToken => t.at <= seq

(* A removal on a page is a removal at the provider. *)
Gone == \A s \in Syncs : \A p \in sync[s].page : p.gone => remote[p.m].gone

(* A page may grow old while its sync writes it, but then no token is past the newer change, *)
(* as long as the sync has the folder to itself.                                             *)
Fresh ==
  \A s \in Active \ shared : \A p \in sync[s].page : \A t \in Known :
    Passes(t, p.m) => p.ver = remote[p.m].at /\ p.gone = remote[p.m].gone

(* What a stored token, or the one a request carries, is past is in the store... *)
Sound == Upheld(token) /\ \A s \in Syncs : Upheld(sync[s].from)

(* ...and what the token after a page is past is there, or on the page. *)
SoundNext ==
  \A s \in Syncs : \A m \in Msgs :
    Passes(sync[s].next, m) => m \in spoilt \/ Fine(m) \/ \E p \in sync[s].page : p.m = m

Tracking == Behind /\ Gone /\ Fresh /\ Sound /\ SoundNext

LEMMA ApartStep ==
  ASSUME FolderRecord, Apart, [FolderNext]_folderVars
  PROVE  Apart'
<1> USE DEF Apart
<1>1. CASE UNCHANGED folderVars
  BY <1>1 DEF folderVars, state, folderHistory, locking, Active
<1>2. CASE (\E m \in Msgs, gone \in BOOLEAN : Change(m, gone)) \/ TokensExpire
  BY <1>2 DEF Change, TokensExpire, state, folderHistory, locking, Active
<1>3. CASE LockAges \/ Disconnect
  BY <1>3 DEF LockAges, Disconnect, Active
<1>4. CASE SyncCrash
  <2>1. Active' = {}
    BY <1>4 DEF SyncCrash, Active, NoSync
  <2> QED BY <1>4, <2>1 DEF SyncCrash
<1>5. ASSUME NEW s \in Syncs, SyncStep(s) PROVE Apart'
  <2>1. sync \in [Syncs -> SyncProgress]
    BY DEF FolderRecord, FolderTypes
  <2>2. CASE \E mode \in {"incremental", "full"} : Begin(s, mode)
    <3>1. sync'[s].pc = "lock" /\ \A q \in Syncs \ {s} : sync'[q] = sync[q]
      BY <2>1, <2>2 DEF Begin, NoSync
    <3>2. sync[s].pc = "idle"
      BY <2>2 DEF Begin
    <3>3. Active' = Active
      BY <3>1, <3>2 DEF Active
    <3> QED BY <2>2, <3>3 DEF Begin, state, folderHistory, locking
  <2>3. CASE Acquire(s)
    <3>1. CASE ~Free
      <4>1. sync'[s].pc = "idle" /\ \A q \in Syncs \ {s} : sync'[q] = sync[q]
        BY <2>1, <2>3, <3>1 DEF Acquire, NoSync
      <4>2. Active' = Active
        BY <2>3, <4>1 DEF Active, Acquire
      <4> QED BY <2>3, <3>1, <4>2 DEF Acquire
    <3>2. CASE Free
      <4>1. sync'[s].pc = "fetch" /\ \A q \in Syncs \ {s} : sync'[q] = sync[q]
        BY <2>1, <2>3, <3>2 DEF Acquire, SyncProgress
      <4>2. Active' = Active \cup {s}
        BY <4>1 DEF Active
      <4>3. lost = Active
        BY <3>2 DEF Free
      <4> QED BY <2>3, <3>2, <4>2, <4>3 DEF Acquire
    <3> QED BY <3>1, <3>2
  <2>4. CASE Fetch(s) \/ Expired(s) \/ Persist(s) \/ EndPage(s) \/ Fails(s)
    <3>1. sync[s].pc \in {"fetch", "persist"} /\ sync[s] \in SyncProgress
      BY <2>1, <2>4 DEF Fetch, Expired, Persist, EndPage, Fails
    <3>2. /\ sync'[s].pc \in {"fetch", "persist", "release", "expired", "failed"}
          /\ \A q \in Syncs \ {s} : sync'[q] = sync[q]
      <4>1. CASE Fetch(s)
        BY <2>1, <3>1, <4>1 DEF Fetch, Fetched, SyncProgress
      <4>2. CASE Expired(s) \/ Fails(s)
        BY <2>1, <3>1, <4>2 DEF Expired, Fails, SyncProgress
      <4>3. CASE Persist(s)
        BY <2>1, <3>1, <4>3 DEF Persist, SyncProgress
      <4>4. CASE EndPage(s)
        BY <2>1, <3>1, <4>4 DEF EndPage, SyncProgress
      <4> QED BY <2>4, <4>1, <4>2, <4>3, <4>4
    <3>3. Active' = Active
      BY <3>1, <3>2 DEF Active
    <3>4. UNCHANGED <<lock, lost, shared>>
      BY <2>4 DEF Fetch, Expired, Persist, EndPage, Fails, state, folderHistory, locking
    <3> QED BY <3>3, <3>4
  <2>5. CASE Release(s) \/ ReleaseExpired(s) \/ ReleaseFailed(s)
    <3>1. sync'[s].pc \in {"idle", "resync", "again"} /\ \A q \in Syncs \ {s} : sync'[q] = sync[q]
      BY <2>1, <2>5 DEF Release, ReleaseExpired, ReleaseFailed, NoSync, SyncProgress
    <3>2. Active' = Active \ {s}
      BY <3>1 DEF Active
    <3>3. Unlock(s)
      BY <2>5 DEF Release, ReleaseExpired, ReleaseFailed
    <3> QED BY <3>2, <3>3 DEF Unlock
  <2>6. CASE RequireResync(s)
    <3>1. sync'[s].pc = "idle" /\ \A q \in Syncs \ {s} : sync'[q] = sync[q]
      BY <2>1, <2>6 DEF RequireResync, NoSync
    <3>2. Active' = Active
      BY <2>6, <3>1 DEF Active, RequireResync
    <3> QED BY <2>6, <3>2 DEF RequireResync, folderHistory, locking
  <2> QED BY <1>5, <2>2, <2>3, <2>4, <2>5, <2>6 DEF SyncStep
<1> QED BY <1>1, <1>2, <1>3, <1>4, <1>5 DEF FolderNext

(* A step that writes no message, and hands on tokens without making one. *)
LEMMA Quiet ==
  ASSUME Tracking, UNCHANGED <<seq, remote, mail, spoilt, kept, forgotten>>,
         \A q \in Syncs :
           /\ \/ sync'[q].page = sync[q].page /\ sync'[q].next = sync[q].next
              \/ sync'[q].page = {} /\ sync'[q].next = NoToken
           /\ sync'[q].from \in {NoToken, token, sync[q].from},
         token' \in {NoToken, token} \cup {sync[q].next : q \in {r \in Syncs : sync[r].page = {}}},
         \A q \in Active' \ shared' : q \in Active \ shared \/ sync'[q].page = {}
  PROVE  Tracking'
<1>1. Known' \subseteq Known \cup {NoToken}
  BY DEF Known
<1>2. \A t, m : Passes(t, m)' <=> Passes(t, m)
  BY DEF Passes
<1>3. \A m : Fine(m)' <=> Fine(m)
  BY DEF Fine
<1>4. \A t : Upheld(t)' <=> Upheld(t)
  BY <1>2, <1>3 DEF Upheld
<1>5. Upheld(NoToken)
  BY DEF Upheld, Passes
<1>6. \A q \in Syncs : sync[q].page = {} => Upheld(sync[q].next)
  BY DEF Tracking, SoundNext, Upheld
<1>7. Behind' /\ Gone'
  BY <1>1 DEF Tracking, Behind, Gone
<1>8. Fresh'
  <2> SUFFICES ASSUME NEW q \in (Active \ shared)', NEW p \in sync'[q].page, NEW t \in Known', Passes(t, p.m)'
               PROVE  p.ver = remote'[p.m].at /\ p.gone = remote'[p.m].gone
    BY DEF Fresh
  <2>1. q \in Active \ shared /\ p \in sync[q].page
    BY DEF Active
  <2>2. t \in Known
    BY <1>1, <1>2 DEF Passes
  <2> QED BY <1>2, <2>1, <2>2 DEF Tracking, Fresh
<1>9. Sound'
  <2>1. Upheld(token')
    BY <1>5, <1>6 DEF Tracking, Sound
  <2>2. \A q \in Syncs : Upheld(sync'[q].from)
    BY <1>5 DEF Tracking, Sound
  <2> QED BY <1>4, <2>1, <2>2 DEF Sound
<1>10. SoundNext'
  BY <1>2, <1>3 DEF Tracking, SoundNext, Passes
<1> QED BY <1>7, <1>8, <1>9, <1>10 DEF Tracking

(* The steps of a sync that write no message. *)
LEMMA TrackingMove ==
  ASSUME FolderRecord, Tracking, NEW s \in Syncs,
         \/ \E mode \in {"incremental", "full"} : Begin(s, mode)
         \/ Acquire(s) \/ Expired(s) \/ Release(s) \/ ReleaseExpired(s) \/ RequireResync(s)
         \/ Fails(s) \/ ReleaseFailed(s)
  PROVE  Tracking'
<1>1. sync \in [Syncs -> SyncProgress] /\ sync[s] \in SyncProgress
  BY DEF FolderRecord, FolderTypes
<1>2. UNCHANGED <<seq, remote, mail, spoilt, kept, forgotten>>
  BY DEF Begin, Acquire, Expired, Release, ReleaseExpired, RequireResync, Fails, ReleaseFailed,
         provider, folderHistory, locking
<1>3. \A q \in Syncs \ {s} : sync'[q] = sync[q]
  BY <1>1 DEF Begin, Acquire, Expired, Release, ReleaseExpired, RequireResync, Fails, ReleaseFailed
<1>4. /\ \/ sync'[s].page = sync[s].page /\ sync'[s].next = sync[s].next
         \/ sync'[s].page = {} /\ sync'[s].next = NoToken
      /\ sync'[s].from \in {NoToken, token, sync[s].from}
  <2>1. CASE \E mode \in {"incremental", "full"} : Begin(s, mode)
    BY <1>1, <2>1 DEF Begin, NoSync
  <2>2. CASE Acquire(s)
    BY <1>1, <2>2 DEF Acquire, NoSync, SyncProgress
  <2>3. CASE Expired(s) \/ Fails(s) \/ ReleaseExpired(s)
    BY <1>1, <2>3 DEF Expired, Fails, ReleaseExpired, SyncProgress
  <2>4. CASE Release(s) \/ RequireResync(s) \/ ReleaseFailed(s)
    BY <1>1, <2>4 DEF Release, RequireResync, ReleaseFailed, NoSync, SyncProgress
  <2> QED BY <2>1, <2>2, <2>3, <2>4
<1>5. token' \in {NoToken, token} \cup {sync[q].next : q \in {r \in Syncs : sync[r].page = {}}}
  <2>1. CASE Release(s)
    <3>1. sync[s].page = {}
      BY <2>1 DEF Release, FolderRecord, Walks
    <3> QED BY <2>1, <3>1 DEF Release, NewToken
  <2>2. CASE ~Release(s)
    BY <2>2 DEF Begin, Acquire, Expired, ReleaseExpired, RequireResync, Fails, ReleaseFailed, state
  <2> QED BY <2>1, <2>2
<1>6. \A q \in Active' \ shared' : q \in Active \ shared \/ sync'[q].page = {}
  <2> SUFFICES ASSUME NEW q \in Active' \ shared' PROVE q \in Active \ shared \/ sync'[q].page = {}
    OBVIOUS
  <2>1. CASE q # s
    BY <1>3, <2>1 DEF Active, Begin, Acquire, Expired, Release, ReleaseExpired, RequireResync, Fails,
                      ReleaseFailed, Unlock, folderHistory, locking
  <2>2. CASE q = s
    <3>1. CASE Acquire(s)
      <4>1. sync[s].page = {}
        BY <3>1 DEF Acquire, FolderRecord, Walks
      <4> QED BY <1>1, <2>2, <3>1, <4>1 DEF Acquire, NoSync, SyncProgress
    <3>2. CASE Begin(s, "incremental") \/ Begin(s, "full")
      BY <1>1, <2>2, <3>2 DEF Begin, NoSync
    <3>3. CASE Release(s) \/ RequireResync(s) \/ ReleaseFailed(s)
      BY <1>1, <2>2, <3>3 DEF Release, RequireResync, ReleaseFailed, NoSync, Active, SyncProgress
    <3>4. CASE ReleaseExpired(s)
      BY <1>1, <2>2, <3>4 DEF ReleaseExpired, Active, SyncProgress
    <3>5. CASE Expired(s) \/ Fails(s)
      BY <1>1, <2>2, <3>5 DEF Expired, Fails, Active, folderHistory, locking
    <3> QED BY <3>1, <3>2, <3>3, <3>4, <3>5
  <2> QED BY <2>1, <2>2
<1>7. \A q \in Syncs :
        /\ \/ sync'[q].page = sync[q].page /\ sync'[q].next = sync[q].next
           \/ sync'[q].page = {} /\ sync'[q].next = NoToken
        /\ sync'[q].from \in {NoToken, token, sync[q].from}
  BY <1>3, <1>4
<1> QED BY <1>2, <1>5, <1>6, <1>7, Quiet

(* What befalls the lock, the tokens and the process. *)
LEMMA TrackingAround ==
  ASSUME FolderRecord, Tracking, TokensExpire \/ LockAges \/ Disconnect \/ SyncCrash
  PROVE  Tracking'
<1>1. UNCHANGED <<seq, remote, mail, token, spoilt, kept, forgotten>>
  BY DEF TokensExpire, LockAges, Disconnect, SyncCrash, provider, state, folderHistory, locking
<1>2. CASE TokensExpire \/ LockAges \/ Disconnect
  <2>1. UNCHANGED <<sync, shared>> /\ Active' = Active
    BY <1>2 DEF TokensExpire, LockAges, Disconnect, folderHistory, locking, Active
  <2> QED BY <1>1, <2>1, Quiet
<1>3. CASE SyncCrash
  <2>1. \A q \in Syncs : sync'[q].page = {} /\ sync'[q].next = NoToken /\ sync'[q].from = NoToken
    BY <1>3 DEF SyncCrash, NoSync
  <2>2. Active' \subseteq Syncs
    BY DEF Active
  <2> QED BY <1>1, <2>1, <2>2, Quiet
<1> QED BY <1>2, <1>3

(* A change at the provider is past every token. *)
LEMMA TrackingChange ==
  ASSUME FolderRecord, Tracking, NEW c \in Msgs, NEW gone \in BOOLEAN, Change(c, gone)
  PROVE  Tracking'
<1>1. /\ seq' = seq + 1 /\ seq \in Nat
      /\ remote' = [remote EXCEPT ![c] = [at |-> seq + 1, gone |-> gone]]
      /\ remote \in [Msgs -> [at : Nat, gone : BOOLEAN]] /\ ~remote[c].gone
      /\ UNCHANGED <<mail, token, sync, shared, spoilt, kept, forgotten>>
  BY DEF Change, FolderRecord, FolderTypes, state, folderHistory, locking
<1>2. Known' = Known /\ Active' = Active
  BY <1>1 DEF Known, Active
<1>3. Known \subseteq Tokens \cup {NoToken}
  BY DEF Known, FolderRecord, FolderTypes, SyncProgress
<1>4. \A t \in Known : t # NoToken => t.at \in Nat /\ t.at <= seq
  BY <1>3 DEF Tokens, Tracking, Behind
<1>5. \A t \in Known : ~Passes(t, c)'
  BY <1>1, <1>4 DEF Passes
<1>6. \A m \in Msgs \ {c} : /\ Fine(m)' <=> Fine(m)
                            /\ remote'[m] = remote[m]
                            /\ \A t : Passes(t, m)' <=> Passes(t, m)
  BY <1>1 DEF Fine, Passes
<1>7. \A s \in Syncs : \A p \in sync[s].page : p.m \in Msgs
  BY DEF FolderRecord, FolderTypes, SyncProgress
<1>8. Behind'
  BY <1>1, <1>2, <1>4 DEF Behind
<1>9. Gone'
  BY <1>1, <1>6, <1>7 DEF Tracking, Gone
<1>10. Fresh'
  <2>1. Active \subseteq Syncs
    BY DEF Active
  <2> QED BY <1>1, <1>2, <1>5, <1>6, <1>7, <2>1 DEF Tracking, Fresh
<1>11. \A t \in Known : Upheld(t) => Upheld(t)'
  BY <1>1, <1>5, <1>6 DEF Upheld
<1>12. Sound'
  BY <1>1, <1>11 DEF Tracking, Sound, Known
<1>13. SoundNext'
  <2>1. \A s \in Syncs : sync[s].next \in Known
    BY DEF Known
  <2> QED BY <1>1, <1>5, <1>6, <2>1 DEF Tracking, SoundNext
<1> QED BY <1>8, <1>9, <1>10, <1>12, <1>13 DEF Tracking

(* A page brings the token after it no further than the page and the walk before it. *)
LEMMA TrackingFetch ==
  ASSUME FolderRecord, Apart, Tracking, NEW s \in Syncs, Fetch(s)
  PROVE  Tracking'
<1> DEFINE t == sync[s].from
           list == ToList(t)
<1>1. sync \in [Syncs -> SyncProgress] /\ sync[s] \in SyncProgress /\ t \in Tokens \cup {NoToken}
  BY DEF FolderRecord, FolderTypes, SyncProgress
<1>2. PICK page \in SUBSET list : sync' = [sync EXCEPT ![s] = Fetched(s, page)]
  BY DEF Fetch
<1> DEFINE n == Token(Covers(t), list \ page)
           entries == {[m |-> m, ver |-> remote[m].at, gone |-> remote[m].gone] : m \in page}
<1>3. sync'[s].pc = "persist" /\ sync'[s].from = t /\ sync'[s].next = n /\ sync'[s].page = entries
  BY <1>1, <1>2 DEF Fetched, SyncProgress
<1>4. \A q \in Syncs \ {s} : sync'[q] = sync[q]
  BY <1>1, <1>2
<1>5. /\ UNCHANGED <<seq, remote, era, mail, token, shared, spoilt, kept>>
      /\ forgotten \subseteq forgotten'
      /\ t = NoToken => forgotten' = forgotten \cup {m \in Msgs : remote[m].gone /\ mail[m].ver > 0}
  BY DEF Fetch, provider, state, locking
<1>6. Covers(t) \in Nat /\ list \subseteq Msgs /\ seq \in Nat
  BY <1>1, CoversType DEF FolderRecord, FolderTypes
<1>7. Known' \subseteq Known \cup {n} /\ t \in Known
  BY <1>3, <1>4, <1>5 DEF Known
<1>8. Active' = Active /\ s \in Active
  BY <1>3, <1>4 DEF Active, Fetch
<1>9. \A u, m : Passes(u, m)' <=> Passes(u, m)
  BY <1>5 DEF Passes
<1>10. \A m : Fine(m) => Fine(m)'
  BY <1>5 DEF Fine
<1>11. Covers(t) <= seq
  BY <1>6, <1>7 DEF Covers, Tracking, Behind
<1>12. Behind'
  BY <1>5, <1>7, <1>11 DEF Tracking, Behind, Token
<1>13. Gone'
  BY <1>3, <1>4, <1>5 DEF Tracking, Gone
<1>14. Fresh'
  <2> SUFFICES ASSUME NEW q \in Active \ shared, NEW p \in sync'[q].page, NEW u \in Known', Passes(u, p.m)
               PROVE  p.ver = remote[p.m].at /\ p.gone = remote[p.m].gone
    BY <1>5, <1>8, <1>9 DEF Fresh
  <2>1. q = s
    BY <1>8 DEF Apart
  <2> QED BY <1>3, <2>1
<1>15. Sound'
  BY <1>3, <1>4, <1>5, <1>9, <1>10 DEF Tracking, Sound, Upheld
<1>16. SoundNext'
  <2> SUFFICES ASSUME NEW q \in Syncs, NEW m \in Msgs, Passes(sync'[q].next, m)
               PROVE  m \in spoilt \/ Fine(m)' \/ \E p \in sync'[q].page : p.m = m
    BY <1>5, <1>9 DEF SoundNext
  <2>1. CASE q # s
    BY <1>4, <1>10, <2>1 DEF Tracking, SoundNext
  <2>2. CASE q = s /\ m \in page
    <3>1. [m |-> m, ver |-> remote[m].at, gone |-> remote[m].gone] \in entries
      BY <2>2
    <3> QED BY <1>3, <2>2, <3>1
  <2>3. CASE q = s /\ m \notin page
    <3>1. 0 < remote[m].at /\ remote[m].at <= Covers(t) /\ m \notin list
      BY <1>3, <2>3 DEF Passes, Token
    <3>2. remote[m] \in [at : Nat, gone : BOOLEAN] /\ mail[m] \in [ver : Nat, gone : BOOLEAN]
      BY DEF FolderRecord, FolderTypes
    <3>3. CASE t = NoToken
      <4>1. remote[m].gone
        BY <3>1, <3>3 DEF ToList, There
      <4> QED BY <1>5, <3>2, <3>3, <4>1 DEF Fine
    <3>4. CASE t # NoToken
      <4>1. Passes(t, m)
        <5>1. CASE t.rest # {}
          BY <3>1, <3>4, <5>1 DEF ToList, Covers, Passes
        <5>2. CASE t.rest = {}
          <6>1. t.at \in Nat
            BY <1>1, <3>4 DEF Tokens
          <6>2. ~(remote[m].at > t.at)
            BY <3>1, <3>4, <5>2 DEF ToList
          <6> QED BY <3>1, <3>2, <3>4, <5>2, <6>1, <6>2 DEF Passes
        <5> QED BY <5>1, <5>2
      <4> QED BY <1>10, <4>1 DEF Tracking, Sound, Upheld
    <3> QED BY <3>3, <3>4
  <2> QED BY <2>1, <2>2, <2>3
<1> QED BY <1>12, <1>13, <1>14, <1>15, <1>16 DEF Tracking

(* A message is written: by a sync that has the folder to itself, fresh; or it is spoilt. *)
LEMMA TrackingPersist ==
  ASSUME FolderRecord, Tracking, NEW s \in Syncs, Persist(s)
  PROVE  Tracking'
<1>1. sync \in [Syncs -> SyncProgress] /\ sync[s] \in SyncProgress
  BY DEF FolderRecord, FolderTypes
<1>a. PICK p \in sync[s].page : \E wins \in LocalWins(p) :
        /\ ~p.gone
        /\ mail' = [mail EXCEPT ![p.m].ver = IF wins THEN @ ELSE p.ver]
        /\ kept' = IF wins THEN kept \cup {p.m} ELSE kept \ {p.m}
        /\ Mark(s, {p.m})
        /\ sync' = [sync EXCEPT ![s].page = @ \ {p}]
  BY DEF Persist
<1>2. PICK wins \in LocalWins(p) :
        /\ ~p.gone
        /\ mail' = [mail EXCEPT ![p.m].ver = IF wins THEN @ ELSE p.ver]
        /\ kept' = IF wins THEN kept \cup {p.m} ELSE kept \ {p.m}
        /\ Mark(s, {p.m})
        /\ sync' = [sync EXCEPT ![s].page = @ \ {p}]
  BY <1>a
<1>3. UNCHANGED <<seq, remote, token, shared, forgotten>>
  BY DEF Persist, provider, state, locking
<1>4. p.m \in Msgs /\ p.ver \in Nat
  BY <1>1 DEF SyncProgress
<1>5. /\ sync'[s].page = sync[s].page \ {p} /\ sync'[s].next = sync[s].next
      /\ sync'[s].from = sync[s].from /\ sync'[s].pc = sync[s].pc
      /\ \A q \in Syncs \ {s} : sync'[q] = sync[q]
  BY <1>1, <1>2 DEF SyncProgress
<1>6. Known' = Known /\ Active' = Active /\ s \in Active
  BY <1>3, <1>5 DEF Known, Active, Persist
<1>7. \A u, m : Passes(u, m)' <=> Passes(u, m)
  BY <1>3 DEF Passes
<1>8. \A m \in Msgs \ {p.m} : /\ Fine(m)' <=> Fine(m)
                              /\ m \in spoilt' <=> m \in spoilt
  BY <1>2, <1>3 DEF Fine, Mark, FolderRecord, FolderTypes
<1>9. \A u \in Known : Passes(u, p.m) => p.m \in spoilt' \/ Fine(p.m)'
  <2> SUFFICES ASSUME NEW u \in Known, Passes(u, p.m), s \notin shared PROVE Fine(p.m)'
    BY <1>2 DEF Mark
  <2>1. p.ver = remote[p.m].at /\ p.gone = remote[p.m].gone
    BY <1>6 DEF Tracking, Fresh
  <2>2. mail'[p.m].ver = IF wins THEN mail[p.m].ver ELSE p.ver
    BY <1>2, <1>4 DEF FolderRecord, FolderTypes
  <2> QED BY <1>2, <1>3, <2>1, <2>2 DEF Fine
<1>10. Behind' /\ Gone'
  BY <1>3, <1>5, <1>6 DEF Tracking, Behind, Gone
<1>11. Fresh'
  <2> SUFFICES ASSUME NEW q \in Active \ shared, NEW e \in sync'[q].page, NEW u \in Known, Passes(u, e.m)
               PROVE  e.ver = remote[e.m].at /\ e.gone = remote[e.m].gone
    BY <1>3, <1>6, <1>7 DEF Fresh
  <2>1. q \in Syncs
    BY DEF Active
  <2>2. e \in sync[q].page
    BY <1>5, <2>1
  <2> QED BY <2>2 DEF Tracking, Fresh
<1>12. \A u \in Known : Upheld(u) => Upheld(u)'
  BY <1>7, <1>8, <1>9 DEF Upheld
<1>13. Sound'
  BY <1>3, <1>5, <1>12 DEF Tracking, Sound, Known
<1>14. SoundNext'
  <2>1. \A q \in Syncs : sync[q].next \in Known
    BY DEF Known
  <2> SUFFICES ASSUME NEW q \in Syncs, NEW m \in Msgs, Passes(sync[q].next, m)
               PROVE  m \in spoilt' \/ Fine(m)' \/ \E e \in sync'[q].page : e.m = m
    BY <1>5, <1>7 DEF SoundNext
  <2>2. CASE m = p.m
    BY <1>9, <2>1, <2>2
  <2>3. CASE m # p.m
    BY <1>5, <1>8, <2>3 DEF Tracking, SoundNext
  <2> QED BY <2>2, <2>3
<1> QED BY <1>10, <1>11, <1>13, <1>14 DEF Tracking

(* The removals of a page are applied before the token after it is used. *)
LEMMA TrackingEndPage ==
  ASSUME FolderRecord, Tracking, NEW s \in Syncs, EndPage(s)
  PROVE  Tracking'
<1>1. sync \in [Syncs -> SyncProgress] /\ sync[s] \in SyncProgress
  BY DEF FolderRecord, FolderTypes
<1> DEFINE M == {p.m : p \in sync[s].page}
<1>2. /\ UNCHANGED <<seq, remote, token, shared, kept, forgotten>>
      /\ \A p \in sync[s].page : p.gone
      /\ mail' = [m \in Msgs |-> IF m \in M /\ mail[m].ver > 0 /\ ~mail[m].gone
                                 THEN [mail[m] EXCEPT !.gone = TRUE] ELSE mail[m]]
      /\ Mark(s, M)
  BY DEF EndPage, Removed, provider, state, locking
<1>3. /\ sync'[s].page = {} /\ sync'[s].next = sync[s].next /\ sync'[s].from = sync[s].next
      /\ sync'[s].pc \in {"fetch", "release"} /\ sync[s].pc = "persist"
      /\ \A q \in Syncs \ {s} : sync'[q] = sync[q]
  BY <1>1 DEF EndPage, SyncProgress
<1>4. Known' \subseteq Known /\ Active' = Active
  BY <1>2, <1>3 DEF Known, Active
<1>5. \A u, m : Passes(u, m)' <=> Passes(u, m)
  BY <1>2 DEF Passes
<1>6. \A m \in Msgs : mail[m] \in [ver : Nat, gone : BOOLEAN]
  BY DEF FolderRecord, FolderTypes
<1>7. \A m \in M : m \in Msgs /\ remote[m].gone
  BY <1>1, <1>2 DEF Tracking, Gone, SyncProgress
<1>8. \A m \in M : Fine(m)'
  <2> SUFFICES ASSUME NEW m \in M PROVE mail'[m].ver = 0 \/ mail'[m].gone
    BY <1>2, <1>7 DEF Fine
  <2>1. mail[m] \in [ver : Nat, gone : BOOLEAN] /\ m \in Msgs
    BY <1>6, <1>7
  <2> HIDE DEF M
  <2> QED BY <1>2, <2>1
<1>9. \A m \in Msgs \ M : mail'[m] = mail[m] /\ (m \in spoilt' <=> m \in spoilt)
  <2> HIDE DEF M
  <2> QED BY <1>2 DEF Mark
<1>10. \A m \in Msgs \ M : Fine(m)' <=> Fine(m)
  BY <1>2, <1>9 DEF Fine
<1>11. Behind' /\ Gone'
  BY <1>2, <1>3, <1>4 DEF Tracking, Behind, Gone
<1>12. Fresh'
  <2> SUFFICES ASSUME NEW q \in Active \ shared, NEW e \in sync'[q].page, NEW u \in Known, Passes(u, e.m)
               PROVE  e.ver = remote[e.m].at /\ e.gone = remote[e.m].gone
    BY <1>2, <1>4, <1>5 DEF Fresh
  <2>1. q \in Syncs
    BY DEF Active
  <2>2. e \in sync[q].page
    BY <1>3, <2>1
  <2> QED BY <2>2 DEF Tracking, Fresh
<1>13. \A u : Upheld(u) => Upheld(u)'
  BY <1>5, <1>8, <1>9, <1>10 DEF Upheld
<1>14. Upheld(sync[s].next)'
  <2> SUFFICES ASSUME NEW m \in Msgs, Passes(sync[s].next, m) PROVE m \in spoilt' \/ Fine(m)'
    BY <1>3, <1>5 DEF Upheld
  <2>1. CASE m \in M
    BY <1>8, <2>1
  <2>2. CASE m \notin M
    BY <1>9, <1>10, <2>2 DEF Tracking, SoundNext
  <2> QED BY <2>1, <2>2
<1>15. Sound'
  BY <1>2, <1>3, <1>13, <1>14 DEF Tracking, Sound
<1>16. SoundNext'
  <2> SUFFICES ASSUME NEW q \in Syncs, NEW m \in Msgs, Passes(sync[q].next, m)
               PROVE  m \in spoilt' \/ Fine(m)' \/ \E e \in sync'[q].page : e.m = m
    BY <1>3, <1>5 DEF SoundNext
  <2>1. CASE m \in M
    BY <1>8, <2>1
  <2>2. CASE m \notin M /\ q = s
    BY <1>9, <1>10, <2>2 DEF Tracking, SoundNext
  <2>3. CASE m \notin M /\ q # s
    BY <1>3, <1>9, <1>10, <2>3 DEF Tracking, SoundNext
  <2> QED BY <2>1, <2>2, <2>3
<1> QED BY <1>11, <1>12, <1>15, <1>16 DEF Tracking

(* The inductive invariant of the folder sync. *)
FolderInv == FolderRecord /\ Apart /\ Tracking

LEMMA FolderInvInit == FolderInit => FolderInv
<1> SUFFICES ASSUME FolderInit PROVE FolderInv
  OBVIOUS
<1>1. /\ token = NoToken /\ lost = {}
      /\ \A s \in Syncs : sync[s].pc = "idle" /\ sync[s].from = NoToken /\ sync[s].next = NoToken
                            /\ sync[s].page = {}
  BY DEF FolderInit, NoSync
<1>2. Active = {} /\ Known \subseteq {NoToken}
  BY <1>1 DEF Active, Known
<1>3. Apart
  BY <1>1, <1>2 DEF Apart
<1>4. Tracking
  BY <1>1, <1>2 DEF Tracking, Behind, Gone, Fresh, Sound, SoundNext, Upheld, Passes
<1> QED BY <1>3, <1>4, RecordInit DEF FolderInv

LEMMA FolderInvStep ==
  ASSUME FolderInv, [FolderNext]_folderVars
  PROVE  FolderInv'
<1> USE DEF FolderInv
<1>1. CASE UNCHANGED folderVars
  <2>1. UNCHANGED <<seq, remote, mail, token, sync, shared, spoilt, kept, forgotten>> /\ Active' = Active
    BY <1>1 DEF folderVars, provider, state, folderHistory, locking, Active
  <2>2. Tracking'
    BY <2>1, Quiet
  <2> QED BY <2>2, RecordStep, ApartStep
<1>2. ASSUME NEW s \in Syncs, SyncStep(s) PROVE Tracking'
  <2>1. CASE Fetch(s)
    BY <2>1, TrackingFetch
  <2>2. CASE Persist(s)
    BY <2>2, TrackingPersist
  <2>3. CASE EndPage(s)
    BY <2>3, TrackingEndPage
  <2>4. CASE ~(Fetch(s) \/ Persist(s) \/ EndPage(s))
    BY <1>2, <2>4, TrackingMove DEF SyncStep
  <2> QED BY <2>1, <2>2, <2>3, <2>4
<1>3. ASSUME FolderNext PROVE Tracking'
  <2>1. ASSUME NEW m \in Msgs, NEW gone \in BOOLEAN, Change(m, gone) PROVE Tracking'
    BY <2>1, TrackingChange
  <2>2. CASE TokensExpire \/ LockAges \/ Disconnect \/ SyncCrash
    BY <2>2, TrackingAround
  <2>3. CASE \E s \in Syncs : SyncStep(s)
    BY <1>2, <2>3
  <2> QED BY <1>3, <2>1, <2>2, <2>3 DEF FolderNext
<1> QED BY <1>1, <1>3, RecordStep, ApartStep

LEMMA FolderInvHolds == FolderSpec => []FolderInv
BY FolderInvInit, FolderInvStep, PTL DEF FolderSpec

(* Whatever failed, expired or was lost on the way, and however many syncs ran, the token *)
(* stored for the folder is past no change that the store lacks, but for a local version  *)
(* that was preferred and a message last written by a sync that shared the folder         *)
(* (syncEngine.syncFolder, syncState.repository).                                         *)
THEOREM TokenIsSound == FolderSpec => []TokenSound
<1>1. FolderInv => TokenSound
  BY DEF FolderInv, Tracking, Sound, Upheld, Passes, Fine, TokenSound, Passed
<1> QED BY <1>1, FolderInvHolds, PTL

(* A removal the stored token is past has reached the store, but for one that a walk from  *)
(* the beginning could not list and for a message last written by a sync that shared the   *)
(* folder (syncEngine.applyDeletions).                                                     *)
THEOREM RemovalsDoArrive == FolderSpec => []RemovalsArrive
<1>1. FolderInv => RemovalsArrive
  BY DEF FolderInv, Tracking, Sound, Upheld, Passes, Fine, RemovalsArrive, Passed
<1> QED BY <1>1, FolderInvHolds, PTL

(* What the token is past is in the store, whether it came, changed or went               *)
(* (syncEngine.syncFolder).                                                               *)
THEOREM FolderIsSound == FolderSpec => []FolderSound
BY TokenIsSound, RemovalsDoArrive, PTL DEF FolderSound

(* Two syncs are at work on a folder together only after its lock went stale, or was        *)
(* released, under one of them, and then both are on record as sharing it (acquireLock).    *)
THEOREM LockKeepsApart == FolderSpec => [](\A s, q \in Active : s # q => s \in shared)
<1>1. FolderInv => \A s, q \in Active : s # q => s \in shared
  BY DEF FolderInv, Apart
<1> QED BY <1>1, FolderInvHolds, PTL

--------------------------------------------------------------------------------
(* The replies. *)

Matching == {"find", "upsert", "attach", "relabel", "create"}
Applying == {"load", "count", "save"}

(* What a run has in hand at each step. *)
Phases ==
  \A r \in Runs :
    /\ run[r].pc \in {"match"} \cup Matching \cup Applying \cup {"notify"} => run[r].m \in Letters
    /\ run[r].pc \in {"attach", "relabel"} => run[r].lead \in Leads
    /\ run[r].pc \in Applying => run[r].seen \in Leads

Typed == ReplyTypes /\ Phases

Fits(w) ==
  /\ w.pc \in {"match"} \cup Matching \cup Applying \cup {"notify"} => w.m \in Letters
  /\ w.pc \in {"attach", "relabel"} => w.lead \in Leads
  /\ w.pc \in Applying => w.seen \in Leads

(* A step of another run leaves a run alone, but for the mark that it was disturbed. *)
Alike(new, old) ==
  /\ new.pc = old.pc /\ new.claimed = old.claimed /\ new.page = old.page
  /\ new.m = old.m /\ new.lead = old.lead /\ new.sure = old.sure
  /\ new.seen = old.seen /\ new.stage = old.stage /\ new.count = old.count
  /\ new.counted = old.counted
  /\ new.alone => old.alone

Same(q) == Alike(run'[q], run[q])

(* A run that is at work on lead l loses its mark. *)
Noted(q, l) == run'[q].alone /\ run[q].pc \in {"count", "save"} => run[q].seen # l

(* Run r goes on as w, and nobody else is disturbed. *)
LEMMA RunPut ==
  ASSUME Typed, NEW r \in Runs, NEW w \in RunProgress, Fits(w), run' = [run EXCEPT ![r] = w]
  PROVE  /\ run' \in [Runs -> RunProgress] /\ Phases'
         /\ run'[r] = w
         /\ \A q \in Runs \ {r} : run'[q] = run[q] /\ Same(q)
<1>1. run \in [Runs -> RunProgress]
  BY DEF Typed, ReplyTypes
<1>2. /\ run' \in [Runs -> RunProgress] /\ run'[r] = w
      /\ \A q \in Runs \ {r} : run'[q] = run[q]
  BY <1>1
<1>3. \A q \in Runs \ {r} : Same(q)
  BY <1>2 DEF Same, Alike
<1>4. Phases'
  BY <1>2 DEF Typed, Phases, Fits
<1> QED BY <1>2, <1>3, <1>4

(* Disturbing a run changes nothing else. *)
LEMMA DisturbFacts ==
  ASSUME NEW f \in [Runs -> RunProgress], NEW r, NEW l
  PROVE  /\ Disturb(f, r, l) \in [Runs -> RunProgress]
         /\ \A q \in Runs : Alike(Disturb(f, r, l)[q], f[q])
         /\ \A q \in Runs : q = r => Disturb(f, r, l)[q] = f[q]
         /\ \A q \in Runs : q # r /\ Disturb(f, r, l)[q].alone /\ f[q].pc \in {"count", "save"} => f[q].seen # l
<1> DEFINE d == Disturb(f, r, l)
<1>1. \A q \in Runs : d[q] = IF q # r /\ f[q].pc \in {"count", "save"} /\ f[q].seen = l
                             THEN [f[q] EXCEPT !.alone = FALSE] ELSE f[q]
  BY DEF Disturb
<1>2. DOMAIN d = Runs /\ d = [q \in Runs |-> d[q]]
  BY DEF Disturb
<1> HIDE DEF d
<1>3. ASSUME NEW q \in Runs
      PROVE  /\ d[q] \in RunProgress /\ Alike(d[q], f[q]) /\ (q = r => d[q] = f[q])
             /\ q # r /\ d[q].alone /\ f[q].pc \in {"count", "save"} => f[q].seen # l
  <2>1. f[q] \in RunProgress
    OBVIOUS
  <2> QED BY <1>1, <2>1 DEF RunProgress, Alike
<1>4. d \in [Runs -> RunProgress]
  BY <1>2, <1>3
<1> QED BY <1>3, <1>4 DEF d

(* Run r goes on as w, and disturbs those at work on lead l. *)
LEMMA RunPutDisturb ==
  ASSUME Typed, NEW r \in Runs, NEW w \in RunProgress, Fits(w), NEW l,
         run' = Disturb([run EXCEPT ![r] = w], r, l)
  PROVE  /\ run' \in [Runs -> RunProgress] /\ Phases'
         /\ run'[r] = w
         /\ \A q \in Runs \ {r} : Same(q)
         /\ \A q \in Runs \ {r} : Noted(q, l)
<1> DEFINE f == [run EXCEPT ![r] = w]
<1>1. f \in [Runs -> RunProgress] /\ f[r] = w /\ \A q \in Runs \ {r} : f[q] = run[q]
  BY DEF Typed, ReplyTypes
<1> HIDE DEF f
<1>2. run' = Disturb(f, r, l)
  BY DEF f
<1>3. /\ run' \in [Runs -> RunProgress] /\ run'[r] = w
      /\ \A q \in Runs : Alike(run'[q], f[q])
      /\ \A q \in Runs : q # r /\ run'[q].alone /\ f[q].pc \in {"count", "save"} => f[q].seen # l
  <2> DEFINE d == Disturb(f, r, l)
  <2>1. /\ d \in [Runs -> RunProgress]
        /\ \A q \in Runs : Alike(d[q], f[q])
        /\ \A q \in Runs : q = r => d[q] = f[q]
        /\ \A q \in Runs : q # r /\ d[q].alone /\ f[q].pc \in {"count", "save"} => f[q].seen # l
    BY <1>1, DisturbFacts
  <2>2. run' = d
    BY <1>2
  <2> HIDE DEF d
  <2> QED BY <1>1, <2>1, <2>2
<1>4. \A q \in Runs \ {r} : Same(q)
  BY <1>1, <1>3 DEF Same
<1>5. \A q \in Runs \ {r} : Noted(q, l)
  BY <1>1, <1>3 DEF Noted
<1>6. Phases'
  <2> SUFFICES ASSUME NEW q \in Runs PROVE Fits(run'[q])
    BY DEF Phases, Fits
  <2>1. CASE q = r
    BY <1>3, <2>1
  <2>2. CASE q # r
    BY <1>4, <2>2 DEF Typed, Phases, Fits, Same, Alike
  <2> QED BY <2>1, <2>2
<1> QED BY <1>3, <1>4, <1>5, <1>6

LEMMA RestType == Rest \in RunProgress /\ Fits(Rest) /\ Rest.pc = "idle" /\ Rest.page = {}
BY DEF Rest, RunProgress, Stages, Fits, Matching, Applying

LEMMA AgainType ==
  ASSUME Typed, NEW r \in Runs
  PROVE  Again(r) \in RunProgress /\ Fits(Again(r)) /\ Again(r).pc = "pick"
<1>1. run[r] \in RunProgress /\ Rest \in RunProgress
  BY RestType DEF Typed, ReplyTypes
<1>2. Again(r) \in RunProgress /\ Again(r).pc = "pick"
  BY <1>1 DEF Again, RunProgress
<1> QED BY <1>2 DEF Fits, Matching, Applying

(* The replies of a lead can be counted. *)
LEMMA IncomingType == \A l : Incoming(l) \in Nat
<1> TAKE l
<1>1. IsFiniteSet({m \in Letters : stored[m].there /\ stored[m].lead = l})
  BY ReplyAssumption, FS_Subset DEF ReplyAssumption
<1> QED BY <1>1, FS_CardinalityType DEF Incoming

(* The steps that only move one run. *)
LEMMA TypedEarly ==
  ASSUME Typed, NEW r \in Runs,
         \/ StartClaimed(r) \/ StartByHand(r) \/ FetchInbox(r) \/ EndRun(r)
         \/ Pick(r) \/ Match(r) \/ Find(r) \/ Load(r) \/ Count(r)
  PROVE  Typed' /\ \A q \in Runs \ {r} : Same(q)
<1>1. run \in [Runs -> RunProgress] /\ run[r] \in RunProgress
  BY DEF Typed, ReplyTypes
<1>2. PICK w \in RunProgress : run' = [run EXCEPT ![r] = w] /\ Fits(w)
  <2>1. CASE StartClaimed(r)
    <3> DEFINE w == [Rest EXCEPT !.pc = "fetch", !.claimed = TRUE]
    <3>1. w \in RunProgress /\ w.pc = "fetch"
      BY RestType DEF RunProgress
    <3> QED BY <2>1, <3>1 DEF StartClaimed, Fits, Matching, Applying
  <2>2. CASE StartByHand(r)
    <3> DEFINE w == [Rest EXCEPT !.pc = "fetch"]
    <3>1. w \in RunProgress /\ w.pc = "fetch"
      BY RestType DEF RunProgress
    <3> QED BY <2>2, <3>1 DEF StartByHand, Fits, Matching, Applying
  <2>3. CASE FetchInbox(r)
    <3>1. PICK page \in SUBSET inbox : run' = [run EXCEPT ![r].pc = "pick", ![r].page = page]
      BY <2>3 DEF FetchInbox
    <3> DEFINE w == [run[r] EXCEPT !.pc = "pick", !.page = page]
    <3>2. w \in RunProgress /\ w.pc = "pick"
      BY <1>1 DEF RunProgress, Typed, ReplyTypes
    <3>3. run' = [run EXCEPT ![r] = w]
      BY <1>1, <3>1
    <3> QED BY <3>2, <3>3 DEF Fits, Matching, Applying
  <2>4. CASE EndRun(r)
    BY <2>4, RestType DEF EndRun
  <2>5. CASE Pick(r)
    <3>1. PICK m \in run[r].page :
            \/ /\ stored[m].there
               /\ run' = [run EXCEPT ![r].page = @ \ {m}]
            \/ /\ ~stored[m].there
               /\ run' = [run EXCEPT ![r].page = @ \ {m}, ![r].m = m, ![r].pc = "match"]
      BY <2>5 DEF Pick
    <3>2. m \in Letters /\ run[r].pc = "pick"
      BY <1>1, <2>5 DEF RunProgress, Pick
    <3>3. CASE stored[m].there
      <4> DEFINE w == [run[r] EXCEPT !.page = @ \ {m}]
      <4>1. w \in RunProgress /\ w.pc = "pick"
        BY <1>1, <3>2 DEF RunProgress
      <4>2. run' = [run EXCEPT ![r] = w]
        BY <3>1, <3>3
      <4> HIDE DEF w
      <4> QED BY <4>1, <4>2 DEF Fits, Matching, Applying
    <3>4. CASE ~stored[m].there
      <4> DEFINE w == [run[r] EXCEPT !.page = @ \ {m}, !.m = m, !.pc = "match"]
      <4>1. w \in RunProgress /\ w.pc = "match" /\ w.m \in Letters
        BY <1>1, <3>2 DEF RunProgress
      <4>2. run' = [run EXCEPT ![r] = w]
        BY <3>1, <3>4
      <4> HIDE DEF w
      <4> QED BY <4>1, <4>2 DEF Fits, Matching, Applying
    <3> QED BY <3>3, <3>4
  <2>6. CASE Match(r)
    <3>1. run[r].pc = "match" /\ run[r].m \in Letters
      BY <2>6 DEF Match, Typed, Phases
    <3> DEFINE s == shape[run[r].m]
    <3>2. s.hint \in Leads \cup {None} /\ s.sure \in BOOLEAN /\ conv.lead \in Leads \cup {None}
      BY <3>1, ReplyAssumption DEF Typed, ReplyTypes, Shape, ReplyAssumption
    <3> DEFINE w == IF conv.there /\ ~s.direct
                    THEN [run[r] EXCEPT !.pc = "create", !.lead = conv.lead, !.seen = conv.lead, !.sure = TRUE]
                    ELSE [run[r] EXCEPT !.pc = "find", !.lead = s.hint, !.sure = s.sure]
    <3>3. run' = [run EXCEPT ![r] = w]
      BY <2>6 DEF Match
    <3> HIDE DEF s
    <3>4. w \in RunProgress /\ w.pc \in {"create", "find"} /\ w.m = run[r].m
      BY <1>1, <3>2 DEF RunProgress
    <3> HIDE DEF w
    <3> QED BY <3>1, <3>3, <3>4 DEF Fits, Matching, Applying
  <2>7. CASE Find(r)
    <3>1. run[r].m \in Letters /\ conv.lead \in Leads \cup {None}
      BY <2>7 DEF Find, Typed, Phases, Matching, ReplyTypes
    <3> DEFINE w == IF conv.there
                    THEN [run[r] EXCEPT !.seen = conv.lead,
                            !.pc = IF conv.lead = None /\ run[r].lead # None THEN "attach" ELSE "create"]
                    ELSE [run[r] EXCEPT !.pc = "upsert"]
    <3>2. run' = [run EXCEPT ![r] = w]
      BY <2>7 DEF Find
    <3>3. /\ w \in RunProgress /\ w.m = run[r].m
          /\ w.pc \in {"create", "upsert"} \/ (w.pc = "attach" /\ w.lead \in Leads)
      BY <1>1, <3>1 DEF RunProgress
    <3> HIDE DEF w
    <3> QED BY <3>1, <3>2, <3>3 DEF Fits, Matching, Applying
  <2>8. CASE Load(r)
    <3>1. run[r].m \in Letters /\ run[r].seen \in Leads
      BY <2>8 DEF Load, Typed, Phases, Applying
    <3> DEFINE l == lead[run[r].seen]
               w == [run[r] EXCEPT !.pc = "count", !.stage = l.stage, !.count = l.count, !.alone = TRUE]
    <3>2. run' = [run EXCEPT ![r] = w]
      BY <2>8 DEF Load
    <3>3. l.stage \in Stages /\ l.count \in Nat
      BY <3>1 DEF Typed, ReplyTypes
    <3> HIDE DEF l
    <3>4. w \in RunProgress /\ w.m = run[r].m /\ w.pc = "count" /\ w.seen = run[r].seen
      BY <1>1, <3>3 DEF RunProgress
    <3> HIDE DEF w
    <3> QED BY <3>1, <3>2, <3>4 DEF Fits, Matching, Applying
  <2>9. CASE Count(r)
    <3>1. run[r].m \in Letters /\ run[r].seen \in Leads
      BY <2>9 DEF Count, Typed, Phases, Applying
    <3> DEFINE n == ReplyCount(r)
               w == [run[r] EXCEPT !.counted = n, !.pc = "save"]
    <3>2. run' = [run EXCEPT ![r] = w]
      BY <1>1, <2>9 DEF Count
    <3>3. n \in Nat
      BY IncomingType DEF ReplyCount
    <3> HIDE DEF n
    <3>4. w \in RunProgress /\ w.m = run[r].m /\ w.pc = "save" /\ w.seen = run[r].seen
      BY <1>1, <3>3 DEF RunProgress
    <3> HIDE DEF w
    <3> QED BY <3>1, <3>2, <3>4 DEF Fits, Matching, Applying
  <2> QED BY <2>1, <2>2, <2>3, <2>4, <2>5, <2>6, <2>7, <2>8, <2>9
<1>3. run' \in [Runs -> RunProgress] /\ Phases' /\ \A q \in Runs \ {r} : Same(q)
  <2>1. w \in RunProgress /\ Fits(w) /\ run' = [run EXCEPT ![r] = w]
    BY <1>2
  <2>2. run' \in [Runs -> RunProgress] /\ Phases'
    BY <2>1, RunPut
  <2>3. \A q \in Runs \ {r} : run'[q] = run[q] /\ Same(q)
    BY <2>1, RunPut
  <2> QED BY <2>2, <2>3
<1>4. claim' \in {"free", "held", "stale"} /\ upsets' \in Nat
  <2>1. CASE StartClaimed(r) \/ StartByHand(r) \/ EndRun(r)
    BY <2>1 DEF Typed, ReplyTypes, StartClaimed, StartByHand, EndRun, Upset
  <2>2. CASE FetchInbox(r) \/ Pick(r) \/ Match(r) \/ Find(r) \/ Load(r) \/ Count(r)
    BY <2>2 DEF Typed, ReplyTypes, FetchInbox, Pick, Match, Find, Load, Count
  <2> QED BY <2>1, <2>2
<1>5. UNCHANGED <<shape, inbox, conv, stored, lead, notices, linking, applied, dropped, late, torn, drifted, manual>>
  BY DEF StartClaimed, StartByHand, FetchInbox, EndRun, Pick, Match, Find, Load, Count, store, replyHistory
<1> QED BY <1>3, <1>4, <1>5 DEF Typed, ReplyTypes

(* A link writes the messages of its thread that have no lead. *)
LEMMA TypedRelabel ==
  ASSUME ReplyTypes, NEW l \in Leads, Relabel(l)
  PROVE  /\ stored' \in [Letters -> [there : BOOLEAN, lead : Leads \cup {None}]]
         /\ late' \subseteq Letters /\ drifted' \subseteq Leads
BY DEF Relabel, Unlabelled, ReplyTypes

LEMMA TornType == \A r, l : Typed /\ (r \in Runs \/ r = None) => Torn(r, l) \subseteq Letters
<1> SUFFICES ASSUME NEW r, NEW l, Typed PROVE Torn(r, l) \subseteq Letters
  OBVIOUS
<1>1. \A p \in Runs : run[p].pc \in Matching => run[p].m \in Letters
  BY DEF Typed, Phases
<1> QED BY <1>1 DEF Torn, Unlabelled, Matching

LEMMA DropType ==
  ASSUME Typed, NEW S \in SUBSET Runs, Drop(S)
  PROVE  dropped' \subseteq Letters /\ drifted' \subseteq Leads
<1>1. \A r \in Halfway : run[r].m \in Letters /\ run[r].seen \in Leads \cup {None}
  BY DEF Typed, Phases, ReplyTypes, RunProgress, Halfway, Applying
<1> QED BY <1>1 DEF Drop, Typed, ReplyTypes

(* The steps by which a run makes or links the thread. *)
LEMMA TypedLinking ==
  ASSUME Typed, NEW r \in Runs, Upsert(r) \/ Attach(r) \/ RelabelByRun(r)
  PROVE  /\ Typed'
         /\ \A q \in Runs \ {r} : Same(q)
         /\ run'[r].m = run[r].m /\ run'[r].lead = run[r].lead /\ run'[r].sure = run[r].sure
         /\ Upsert(r) => /\ run'[r].seen = conv.lead
                         /\ run'[r].pc = IF run[r].lead # None THEN "attach" ELSE "create"
         /\ Attach(r) => run'[r].pc = "relabel" /\ run'[r].seen = run[r].lead
         /\ RelabelByRun(r) => run'[r].pc = "create" /\ run'[r].seen = run[r].seen
<1>1. run \in [Runs -> RunProgress] /\ run[r] \in RunProgress /\ conv.lead \in Leads \cup {None}
  BY DEF Typed, ReplyTypes
<1>2. run[r].m \in Letters
  BY DEF Typed, Phases, Upsert, Attach, RelabelByRun, Matching
<1>3. CASE Upsert(r)
  <2> DEFINE pc == IF run[r].lead # None THEN "attach" ELSE "create"
             w == [run[r] EXCEPT !.seen = conv.lead, !.pc = pc]
  <2>1. run' = [run EXCEPT ![r] = w]
    BY <1>3 DEF Upsert
  <2>2. /\ w \in RunProgress /\ w.m = run[r].m /\ w.pc = pc /\ w.lead = run[r].lead /\ w.seen = conv.lead
        /\ w.sure = run[r].sure
    BY <1>1 DEF RunProgress
  <2>3. run[r].lead \in Leads \cup {None}
    BY <1>1 DEF RunProgress
  <2> HIDE DEF w
  <2>4. Fits(w)
    BY <1>2, <2>2, <2>3 DEF Fits, Applying
  <2>5. run' \in [Runs -> RunProgress] /\ Phases' /\ run'[r] = w
    BY <2>1, <2>2, <2>4, RunPut
  <2>6. \A q \in Runs \ {r} : Same(q)
    BY <2>1, <2>2, <2>4, RunPut
  <2>7. conv' \in [there : BOOLEAN, lead : Leads \cup {None}]
    BY <1>3 DEF Upsert, Typed, ReplyTypes
  <2>8. Typed'
    BY <1>3, <2>5, <2>7 DEF Upsert, Typed, ReplyTypes, replyHistory
  <2>9. ~Attach(r) /\ ~RelabelByRun(r)
    BY <1>3 DEF Upsert, Attach, RelabelByRun
  <2> QED BY <2>2, <2>5, <2>6, <2>8, <2>9
<1>4. CASE Attach(r)
  <2> DEFINE w == [run[r] EXCEPT !.seen = run[r].lead, !.pc = "relabel"]
  <2>1. run[r].lead \in Leads
    BY <1>4 DEF Attach, Typed, Phases
  <2>2. run' = [run EXCEPT ![r] = w]
    BY <1>4 DEF Attach
  <2>3. /\ w \in RunProgress /\ w.m = run[r].m /\ w.pc = "relabel" /\ w.lead = run[r].lead
        /\ w.seen = run[r].lead /\ w.sure = run[r].sure
    BY <1>1, <2>1 DEF RunProgress
  <2> HIDE DEF w
  <2>4. Fits(w)
    BY <1>2, <2>1, <2>3 DEF Fits, Applying
  <2>5. run' \in [Runs -> RunProgress] /\ Phases' /\ run'[r] = w
    BY <2>2, <2>3, <2>4, RunPut
  <2>6. \A q \in Runs \ {r} : Same(q)
    BY <2>2, <2>3, <2>4, RunPut
  <2>7. conv' \in [there : BOOLEAN, lead : Leads \cup {None}]
    BY <1>4, <2>1 DEF Attach, Typed, ReplyTypes
  <2>8. torn' \subseteq Letters
    BY <1>4, TornType DEF Attach, Typed, ReplyTypes
  <2>9. Typed'
    BY <1>4, <2>5, <2>7, <2>8 DEF Attach, Typed, ReplyTypes
  <2>10. ~Upsert(r) /\ ~RelabelByRun(r)
    BY <1>4 DEF Upsert, Attach, RelabelByRun
  <2> QED BY <2>3, <2>5, <2>6, <2>9, <2>10
<1>5. CASE RelabelByRun(r)
  <2> DEFINE w == [run[r] EXCEPT !.pc = "create"]
  <2>1. run[r].lead \in Leads
    BY <1>5 DEF RelabelByRun, Typed, Phases
  <2>2. run' = [run EXCEPT ![r] = w] \/ run' = Disturb([run EXCEPT ![r] = w], r, run[r].lead)
    BY <1>5 DEF RelabelByRun
  <2>3. /\ w \in RunProgress /\ w.m = run[r].m /\ w.pc = "create" /\ w.lead = run[r].lead
        /\ w.seen = run[r].seen /\ w.sure = run[r].sure
    BY <1>1 DEF RunProgress
  <2> HIDE DEF w
  <2>4. Fits(w)
    BY <1>2, <2>3 DEF Fits, Applying
  <2>5. run' \in [Runs -> RunProgress] /\ Phases' /\ run'[r] = w
    <3>1. CASE run' = [run EXCEPT ![r] = w]
      BY <2>3, <2>4, <3>1, RunPut
    <3>2. CASE run' = Disturb([run EXCEPT ![r] = w], r, run[r].lead)
      BY <2>3, <2>4, <3>2, RunPutDisturb
    <3> QED BY <2>2, <3>1, <3>2
  <2>6. \A q \in Runs \ {r} : Same(q)
    <3>1. CASE run' = [run EXCEPT ![r] = w]
      BY <2>3, <2>4, <3>1, RunPut
    <3>2. CASE run' = Disturb([run EXCEPT ![r] = w], r, run[r].lead)
      BY <2>3, <2>4, <3>2, RunPutDisturb
    <3> QED BY <2>2, <3>1, <3>2
  <2>7. /\ stored' \in [Letters -> [there : BOOLEAN, lead : Leads \cup {None}]]
        /\ late' \subseteq Letters /\ drifted' \subseteq Leads
    BY <1>5, <2>1, TypedRelabel DEF RelabelByRun, Typed
  <2>8. Typed'
    BY <1>5, <2>5, <2>7 DEF RelabelByRun, Typed, ReplyTypes
  <2>9. ~Attach(r) /\ ~Upsert(r)
    BY <1>5 DEF Upsert, Attach, RelabelByRun
  <2> QED BY <2>3, <2>5, <2>6, <2>8, <2>9
<1> QED BY <1>3, <1>4, <1>5

(* A letter is stored, or was by then. *)
LEMMA TypedCreate ==
  ASSUME Typed, NEW r \in Runs, Create(r)
  PROVE  /\ Typed'
         /\ \A q \in Runs \ {r} : Same(q)
         /\ run[r].m \in Letters
         /\ \/ /\ ~stored[run[r].m].there
               /\ stored' = [stored EXCEPT ![run[r].m] = [there |-> TRUE, lead |-> run[r].seen]]
               /\ run'[r].m = run[r].m /\ run'[r].seen = run[r].seen /\ run'[r].sure = run[r].sure
               /\ run'[r].pc = IF run[r].seen # None THEN "load" ELSE "notify"
               /\ \A q \in Runs \ {r} : Noted(q, run[r].seen)
            \/ run'[r].pc = "pick" /\ UNCHANGED stored
<1> DEFINE m == run[r].m
<1>1. run \in [Runs -> RunProgress] /\ run[r] \in RunProgress /\ run[r].pc = "create"
  BY DEF Typed, ReplyTypes, Create
<1>2. m \in Letters
  BY <1>1 DEF Typed, Phases, Matching
<1>3. CASE ~stored[m].there
  <2> DEFINE pc == IF run[r].seen # None THEN "load" ELSE "notify"
             w == [run[r] EXCEPT !.pc = pc]
  <2>1. run' = Disturb([run EXCEPT ![r] = w], r, run[r].seen)
    BY <1>3 DEF Create, Applies
  <2>2. /\ w \in RunProgress /\ w.m = m /\ w.pc = pc /\ w.seen = run[r].seen /\ w.sure = run[r].sure
    BY <1>1 DEF RunProgress
  <2>3. run[r].seen \in Leads \cup {None}
    BY <1>1 DEF RunProgress
  <2> HIDE DEF w, m
  <2>4. Fits(w)
    BY <1>2, <2>2, <2>3 DEF Fits, Applying
  <2>5. run' \in [Runs -> RunProgress] /\ Phases' /\ run'[r] = w
    BY <2>1, <2>2, <2>4, RunPutDisturb
  <2>6. \A q \in Runs \ {r} : Same(q)
    BY <2>1, <2>2, <2>4, RunPutDisturb
  <2>7. \A q \in Runs \ {r} : Noted(q, run[r].seen)
    BY <2>1, <2>2, <2>4, RunPutDisturb
  <2>8. stored' = [stored EXCEPT ![m] = [there |-> TRUE, lead |-> run[r].seen]]
    BY <1>3 DEF Create, m
  <2>9. stored' \in [Letters -> [there : BOOLEAN, lead : Leads \cup {None}]]
    BY <1>2, <2>3, <2>8 DEF Typed, ReplyTypes
  <2>10. Typed'
    BY <2>5, <2>9 DEF Create, Typed, ReplyTypes, replyHistory
  <2> QED BY <1>2, <1>3, <2>2, <2>5, <2>6, <2>7, <2>8, <2>10 DEF m
<1>4. CASE stored[m].there
  <2>1. run' = [run EXCEPT ![r] = Again(r)] /\ UNCHANGED stored
    BY <1>4 DEF Create
  <2>2. run' \in [Runs -> RunProgress] /\ Phases' /\ run'[r].pc = "pick"
    BY <2>1, AgainType, RunPut
  <2>3. \A q \in Runs \ {r} : Same(q)
    BY <2>1, AgainType, RunPut
  <2>4. Typed'
    BY <2>1, <2>2 DEF Create, Typed, ReplyTypes, replyHistory
  <2> QED BY <1>2, <2>1, <2>2, <2>3, <2>4
<1> QED BY <1>3, <1>4

(* The lead is saved. *)
LEMMA TypedSave ==
  ASSUME Typed, NEW r \in Runs, Save(r)
  PROVE  /\ Typed'
         /\ \A q \in Runs \ {r} : Same(q)
         /\ \A q \in Runs \ {r} : Noted(q, run[r].seen)
         /\ run[r].m \in Letters /\ run[r].seen \in Leads
         /\ run'[r].m = run[r].m /\ run'[r].seen = run[r].seen /\ run'[r].sure = run[r].sure
         /\ run'[r].pc = "notify"
<1> DEFINE w == [run[r] EXCEPT !.pc = "notify"]
<1>1. run \in [Runs -> RunProgress] /\ run[r] \in RunProgress /\ run[r].pc = "save"
  BY DEF Typed, ReplyTypes, Save
<1>2. run[r].m \in Letters /\ run[r].seen \in Leads
  BY <1>1 DEF Typed, Phases, Applying
<1>3. run' = Disturb([run EXCEPT ![r] = w], r, run[r].seen)
  BY DEF Save
<1>4. w \in RunProgress /\ w.m = run[r].m /\ w.pc = "notify" /\ w.seen = run[r].seen /\ w.sure = run[r].sure
  BY <1>1 DEF RunProgress
<1> HIDE DEF w
<1>5. Fits(w)
  BY <1>2, <1>4 DEF Fits, Applying
<1>6. run' \in [Runs -> RunProgress] /\ Phases' /\ run'[r] = w
  BY <1>3, <1>4, <1>5, RunPutDisturb
<1>7. \A q \in Runs \ {r} : Same(q)
  BY <1>3, <1>4, <1>5, RunPutDisturb
<1>8. \A q \in Runs \ {r} : Noted(q, run[r].seen)
  BY <1>3, <1>4, <1>5, RunPutDisturb
<1>9. lead' \in [Leads -> [stage : Stages, count : Nat]]
  <2>1. run[r].counted \in Nat
    BY <1>1 DEF RunProgress
  <2>2. PICK stage, count :
          /\ lead' = [lead EXCEPT ![run[r].seen] = [stage |-> stage, count |-> count]]
          /\ stage \in {"active", lead[run[r].seen].stage}
          /\ count \in {run[r].counted, lead[run[r].seen].count}
    BY <1>2 DEF Save
  <2>3. stage \in Stages /\ count \in Nat
    BY <1>2, <2>1, <2>2 DEF Typed, ReplyTypes, Stages
  <2> QED BY <1>2, <2>2, <2>3 DEF Typed, ReplyTypes
<1>10. applied' \subseteq Letters /\ drifted' \subseteq Leads
  BY <1>2 DEF Save, Typed, ReplyTypes
<1>11. Typed'
  BY <1>6, <1>9, <1>10 DEF Save, Typed, ReplyTypes, store
<1> QED BY <1>2, <1>4, <1>6, <1>7, <1>8, <1>11

(* A run is done with a letter, one way or another. *)
LEMMA TypedDone ==
  ASSUME Typed, NEW r \in Runs, Notify(r) \/ Throws(r)
  PROVE  Typed' /\ (\A q \in Runs \ {r} : Same(q)) /\ run'[r].pc = "pick" /\ run[r].m \in Letters
<1>1. run' = [run EXCEPT ![r] = Again(r)]
  BY DEF Notify, Throws
<1>2. run' \in [Runs -> RunProgress] /\ Phases' /\ run'[r].pc = "pick"
  BY <1>1, AgainType, RunPut
<1>3. \A q \in Runs \ {r} : Same(q)
  BY <1>1, AgainType, RunPut
<1>4. run[r].m \in Letters
  BY DEF Typed, Phases, Notify, Throws, Matching, Applying
<1>5. CASE Notify(r)
  <2>1. notices' \subseteq Letters /\ dropped' \subseteq Letters /\ upsets' \in Nat
    BY <1>4, <1>5 DEF Notify, Upset, Typed, ReplyTypes
  <2>2. Typed'
    BY <1>2, <1>5, <2>1 DEF Notify, Typed, ReplyTypes, store
  <2> QED BY <1>2, <1>3, <1>4, <2>2
<1>6. CASE Throws(r)
  <2>1. dropped' \subseteq Letters /\ drifted' \subseteq Leads
    BY <1>6, DropType DEF Throws
  <2>2. torn' \subseteq Letters /\ upsets' \in Nat
    BY <1>6 DEF Throws, Upset, Unlabelled, Typed, ReplyTypes
  <2>3. Typed'
    BY <1>2, <1>6, <2>1, <2>2 DEF Throws, Typed, ReplyTypes, store
  <2> QED BY <1>2, <1>3, <1>4, <2>3
<1> QED BY <1>5, <1>6

(* What goes on around the runs. *)
LEMMA TypedAround ==
  ASSUME Typed,
         \/ \E m \in Letters : Arrive(m)
         \/ \E l \in Leads : Link(l) \/ \E stage \in Stages : SetStage(l, stage)
         \/ LinkRelabels \/ LinkFails \/ ClaimAges \/ RunCrash
  PROVE  Typed' /\ (RunCrash \/ \A q \in Runs : Same(q))
<1>0. run \in [Runs -> RunProgress]
  BY DEF Typed, ReplyTypes
<1>1. CASE \E m \in Letters : Arrive(m)
  <2>1. inbox' \subseteq Letters
    BY <1>1 DEF Arrive, Typed, ReplyTypes
  <2> QED BY <1>1, <2>1 DEF Arrive, Typed, ReplyTypes, Phases, Same, Alike, store, replyHistory
<1>2. ASSUME NEW l \in Leads, Link(l) PROVE Typed' /\ \A q \in Runs : Same(q)
  <2>1. conv' \in [there : BOOLEAN, lead : Leads \cup {None}] /\ upsets' \in Nat
    BY <1>2 DEF Link, Upset, Typed, ReplyTypes
  <2>2. torn' \subseteq Letters
    BY <1>2, TornType DEF Link, Typed, ReplyTypes
  <2> QED BY <1>2, <2>1, <2>2 DEF Link, Typed, ReplyTypes, Phases, Same, Alike
<1>3. ASSUME NEW l \in Leads, NEW stage \in Stages, SetStage(l, stage) PROVE Typed' /\ \A q \in Runs : Same(q)
  <2>1. lead' \in [Leads -> [stage : Stages, count : Nat]] /\ upsets' \in Nat /\ manual' \subseteq Leads
    BY <1>3 DEF SetStage, Upset, Typed, ReplyTypes
  <2> QED BY <1>3, <2>1 DEF SetStage, Typed, ReplyTypes, Phases, Same, Alike, store
<1>4. CASE LinkRelabels
  <2>1. linking \in Leads
    BY <1>4 DEF LinkRelabels, Typed, ReplyTypes
  <2>2. /\ stored' \in [Letters -> [there : BOOLEAN, lead : Leads \cup {None}]]
        /\ late' \subseteq Letters /\ drifted' \subseteq Leads
    BY <1>4, <2>1, TypedRelabel DEF LinkRelabels, Typed
  <2>3. run' = run \/ run' = Disturb(run, None, linking)
    BY <1>4 DEF LinkRelabels
  <2>4. run' \in [Runs -> RunProgress] /\ \A q \in Runs : Same(q)
    <3>1. CASE run' = run
      BY <1>0, <3>1 DEF Same, Alike
    <3>2. CASE run' = Disturb(run, None, linking)
      BY <1>0, <3>2, DisturbFacts DEF Same
    <3> QED BY <2>3, <3>1, <3>2
  <2>5. Phases'
    BY <2>4 DEF Typed, Phases, Same, Alike
  <2> QED BY <1>4, <2>2, <2>4, <2>5 DEF LinkRelabels, Typed, ReplyTypes
<1>5. CASE LinkFails \/ ClaimAges
  <2>1. torn' \subseteq Letters /\ upsets' \in Nat /\ claim' \in {"free", "held", "stale"}
    BY <1>5 DEF LinkFails, ClaimAges, Upset, Unlabelled, Typed, ReplyTypes, replyHistory
  <2>2. linking' \in Leads \cup {None}
    BY <1>5 DEF LinkFails, ClaimAges, Typed, ReplyTypes
  <2> QED BY <1>5, <2>1, <2>2 DEF LinkFails, ClaimAges, Typed, ReplyTypes, Phases, Same, Alike, store, replyHistory
<1>6. CASE RunCrash
  <2>1. dropped' \subseteq Letters /\ drifted' \subseteq Leads
    BY <1>6, DropType DEF RunCrash
  <2>2. run' \in [Runs -> RunProgress] /\ Phases'
    BY <1>6, RestType DEF RunCrash, Phases, Matching, Applying
  <2>3. torn' \subseteq Letters /\ upsets' \in Nat
    BY <1>6 DEF RunCrash, Upset, Unlabelled, Typed, ReplyTypes
  <2> QED BY <1>6, <2>1, <2>2, <2>3 DEF RunCrash, Typed, ReplyTypes, store
<1> QED BY <1>1, <1>2, <1>3, <1>4, <1>5, <1>6

LEMMA TypedInit == ReplyInit => Typed
<1> SUFFICES ASSUME ReplyInit PROVE Typed
  OBVIOUS
<1>1. run \in [Runs -> RunProgress] /\ Phases
  BY RestType DEF ReplyInit, Phases, Matching, Applying
<1>2. shape \in [Letters -> Shape]
  BY ReplyAssumption DEF ReplyInit, ReplyAssumption
<1> QED BY <1>1, <1>2 DEF ReplyInit, Typed, ReplyTypes, Stages

LEMMA TypedStep ==
  ASSUME Typed, [ReplyNext]_replyVars
  PROVE  Typed'
<1>1. CASE UNCHANGED replyVars
  BY <1>1 DEF Typed, ReplyTypes, Phases, replyVars, store, replyHistory
<1>2. ASSUME NEW r \in Runs, RunStep(r) PROVE Typed'
  BY <1>2, TypedEarly, TypedLinking, TypedCreate, TypedSave, TypedDone DEF RunStep
<1>3. CASE ReplyNext
  <2>1. CASE \E r \in Runs : RunStep(r)
    BY <1>2, <2>1
  <2>2. CASE ~\E r \in Runs : RunStep(r)
    BY <1>3, <2>2, TypedAround DEF ReplyNext, Stages
  <2> QED BY <2>1, <2>2
<1> QED BY <1>1, <1>3

(* Every variable of the reply sync holds what the code may put there (conversationSync, *)
(* leadWorkflow).                                                                         *)
THEOREM ReplyTypeCorrect == ReplySpec => []ReplyTypes
<1>1. Typed => ReplyTypes
  BY DEF Typed
<1>2. Typed /\ [ReplyNext]_replyVars => Typed'
  BY TypedStep
<1> QED BY <1>1, <1>2, TypedInit, PTL DEF ReplySpec
-------------------------------------------------------------------------------
(* A letter a person wrote about lead l, known for sure, has moved it on. *)
MovedOn(m) ==
  shape[m].human /\ shape[m].sure /\ stored[m].lead \notin manual =>
    lead[stored[m].lead].stage # "inactive"

(* A letter nobody is at work on. *)
SettledAt(m) ==
  /\ stored[m].lead # None /\ m \notin late => m \in applied
  /\ shape[m].human => m \in notices

SettledAll == \A m \in Letters : stored[m].there /\ m \notin AtWork \cup dropped => SettledAt(m)

(* A letter that was applied. *)
CarriedAt(m) == stored[m].there /\ stored[m].lead \in Leads /\ MovedOn(m)

Carried == \A m \in applied : CarriedAt(m)

(* What a run that stored its letter knows of it. *)
PursuedBy(r) ==
  /\ stored[run[r].m].there
  /\ run[r].pc \in Applying => stored[run[r].m].lead = run[r].seen
  /\ run[r].pc = "notify" => \/ run[r].m \in applied \/ stored[run[r].m].lead = None
                             \/ run[r].m \in late

Pursued == \A r \in Halfway : PursuedBy(r)

(* A match is no less sure than the letter. *)
SurelyBy(r) == run[r].pc \in Matching \cup Applying \cup {"notify"} => (shape[run[r].m].sure => run[r].sure)

Surely == \A r \in Runs : SurelyBy(r)

(* A lead that was not inactive when it was read is not now. *)
StageSeenBy(r) ==
  run[r].pc \in {"count", "save"} /\ run[r].stage # "inactive" =>
    lead[run[r].seen].stage # "inactive" \/ run[r].seen \in manual

StageSeen == \A r \in Runs : StageSeenBy(r)

Reaching == SettledAll /\ Carried /\ Pursued /\ Surely /\ StageSeen

(* What is stored stays, gets a lead at most once, and a stage is taken back by users only. *)
Grows ==
  /\ shape' = shape
  /\ applied \subseteq applied' /\ dropped \subseteq dropped' /\ late \subseteq late'
  /\ notices \subseteq notices' /\ manual \subseteq manual'
  /\ \A m \in Letters : stored[m].there =>
       /\ stored'[m].there
       /\ stored[m].lead # None => stored'[m].lead = stored[m].lead
       /\ stored'[m].lead # stored[m].lead => m \in late'
  /\ \A l \in Leads : lead[l].stage # "inactive" => lead'[l].stage # "inactive" \/ l \in manual'

(* What a step that leaves the runs outside S alone does not disturb. *)
LEMMA Growing ==
  ASSUME Typed, Reaching, Grows, NEW S \in SUBSET Runs, \A q \in Runs \ S : Same(q)
  PROVE  /\ \A m \in Letters : stored[m].there /\ m \notin AtWork \cup dropped => SettledAt(m)'
         /\ \A m \in applied : CarriedAt(m)'
         /\ \A q \in Halfway \ S : run[q].m \in AtWork'
         /\ \A q \in Runs \ S : SurelyBy(q)' /\ StageSeenBy(q)' /\ (q \in Halfway' => PursuedBy(q)')
<1>1. \A m \in Letters : stored[m].there /\ m \notin AtWork \cup dropped => SettledAt(m)'
  BY DEF Grows, Reaching, SettledAll, SettledAt
<1>2. ASSUME NEW m \in applied PROVE CarriedAt(m)'
  <2>1. stored[m].there /\ stored[m].lead \in Leads /\ MovedOn(m) /\ m \in Letters
    BY DEF Reaching, Carried, CarriedAt, Typed, ReplyTypes
  <2>2. stored'[m].there /\ stored'[m].lead = stored[m].lead
    BY <2>1, ReplyAssumption DEF Grows, ReplyAssumption
  <2> QED BY <2>1, <2>2 DEF Grows, CarriedAt, MovedOn
<1>3. \A q \in Halfway \ S : run[q].m \in AtWork'
  BY DEF Halfway, AtWork, Same, Alike
<1>4. ASSUME NEW q \in Runs \ S PROVE SurelyBy(q)' /\ StageSeenBy(q)' /\ (q \in Halfway' => PursuedBy(q)')
  <2>1. Alike(run'[q], run[q])
    BY DEF Same
  <2>2. SurelyBy(q)'
    BY <2>1 DEF Alike, Grows, Reaching, Surely, SurelyBy
  <2>3. StageSeenBy(q)'
    <3> SUFFICES ASSUME run'[q].pc \in {"count", "save"}, run'[q].stage # "inactive"
                 PROVE  lead'[run'[q].seen].stage # "inactive" \/ run'[q].seen \in manual'
      BY DEF StageSeenBy
    <3>1. run[q].seen \in Leads
      BY <2>1 DEF Alike, Typed, Phases, Applying
    <3> QED BY <2>1, <3>1 DEF Alike, Grows, Reaching, StageSeen, StageSeenBy
  <2>4. ASSUME q \in Halfway' PROVE PursuedBy(q)'
    <3>1. q \in Halfway
      BY <2>1, <2>4 DEF Alike, Halfway
    <3>2. run[q].m \in Letters /\ PursuedBy(q)
      BY <3>1 DEF Typed, Phases, Halfway, Applying, Reaching, Pursued
    <3>3. run[q].pc \in Applying => run[q].seen \in Leads
      BY DEF Typed, Phases
    <3>4. run[q].pc \in Applying => run[q].seen # None
      BY <3>3, ReplyAssumption DEF ReplyAssumption
    <3> QED BY <2>1, <3>2, <3>4 DEF Alike, Grows, PursuedBy
  <2> QED BY <2>2, <2>3, <2>4
<1> QED BY <1>1, <1>2, <1>3, <1>4

(* A run that goes from one step to another where no letter is stored. *)
LEMMA ReachingEarly ==
  ASSUME Typed, Reaching, NEW r \in Runs,
         \/ StartClaimed(r) \/ StartByHand(r) \/ FetchInbox(r) \/ EndRun(r)
         \/ Pick(r) \/ Match(r) \/ Find(r) \/ Load(r) \/ Count(r)
  PROVE  Reaching'
<1>1. run \in [Runs -> RunProgress] /\ run[r] \in RunProgress
  BY DEF Typed, ReplyTypes
<1>2. UNCHANGED <<shape, stored, lead, notices, applied, dropped, late, manual>>
  BY DEF StartClaimed, StartByHand, FetchInbox, EndRun, Pick, Match, Find, Load, Count, store, replyHistory
<1>3. \A q \in Runs \ {r} : Same(q)
  BY TypedEarly
<1>4. \/ /\ Load(r) \/ Count(r)
         /\ run[r].pc \in Applying /\ run'[r].pc \in {"count", "save"}
         /\ run'[r].m = run[r].m /\ run'[r].seen = run[r].seen /\ run'[r].sure = run[r].sure
         /\ run'[r].stage = IF Load(r) THEN lead[run[r].seen].stage ELSE run[r].stage
      \/ /\ run[r].pc \notin Applying \cup {"notify"} /\ run'[r].pc \notin Applying \cup {"notify"}
         /\ run'[r].pc \in Matching =>
              /\ run'[r].m = run[r].m
              /\ \/ Match(r) /\ (shape[run[r].m].sure => run'[r].sure)
                 \/ Find(r) /\ run'[r].sure = run[r].sure
  <2>1. CASE StartClaimed(r) \/ StartByHand(r) \/ EndRun(r)
    <3>1. run[r].pc \in {"idle", "fetch", "pick"} /\ run'[r].pc \in {"idle", "fetch"}
      <4>1. CASE StartClaimed(r)
        BY <1>1, <4>1 DEF StartClaimed, Rest
      <4>2. CASE StartByHand(r)
        BY <1>1, <4>2 DEF StartByHand, Rest
      <4>3. CASE EndRun(r)
        BY <1>1, <4>3 DEF EndRun, Rest
      <4> QED BY <2>1, <4>1, <4>2, <4>3
    <3> QED BY <3>1 DEF Applying, Matching
  <2>2. CASE FetchInbox(r) \/ Pick(r)
    <3>1. run[r].pc \in {"fetch", "pick"} /\ run'[r].pc \in {"pick", "match"}
      <4>1. CASE FetchInbox(r)
        BY <1>1, <4>1 DEF FetchInbox, RunProgress
      <4>2. CASE Pick(r)
        <5>1. PICK m \in run[r].page :
                \/ run' = [run EXCEPT ![r].page = @ \ {m}]
                \/ run' = [run EXCEPT ![r].page = @ \ {m}, ![r].m = m, ![r].pc = "match"]
          BY <4>2 DEF Pick
        <5>2. run[r].pc = "pick"
          BY <4>2 DEF Pick
        <5> QED BY <1>1, <5>1, <5>2 DEF RunProgress
      <4> QED BY <2>2, <4>1, <4>2
    <3> QED BY <3>1 DEF Applying, Matching
  <2>3. CASE Match(r)
    <3>1. run'[r].pc \in {"create", "find"} /\ run'[r].m = run[r].m /\ run[r].pc = "match"
      BY <1>1, <2>3 DEF Match, RunProgress
    <3>2. shape[run[r].m].sure => run'[r].sure
      <4>1. CASE conv.there /\ ~shape[run[r].m].direct
        BY <1>1, <2>3, <4>1 DEF Match, RunProgress
      <4>2. CASE ~(conv.there /\ ~shape[run[r].m].direct)
        <5>1. run'[r].sure = shape[run[r].m].sure
          BY <1>1, <2>3, <4>2 DEF Match, RunProgress
        <5> QED BY <5>1
      <4> QED BY <4>1, <4>2
    <3>3. run[r].pc \notin Applying \cup {"notify"} /\ run'[r].pc \notin Applying \cup {"notify"}
      BY <3>1 DEF Applying
    <3> QED BY <2>3, <3>1, <3>2, <3>3
  <2>4. CASE Find(r)
    <3>1. /\ run'[r].pc \in {"create", "upsert", "attach"} /\ run'[r].m = run[r].m
          /\ run'[r].sure = run[r].sure
      BY <1>1, <2>4 DEF Find, RunProgress
    <3> QED BY <2>4, <3>1 DEF Find, Applying, Matching
  <2>5. CASE Load(r)
    BY <1>1, <2>5 DEF Load, Applying, RunProgress
  <2>6. CASE Count(r)
    <3>1. ~Load(r)
      BY <2>6 DEF Load, Count
    <3> QED BY <1>1, <2>6, <3>1 DEF Count, Applying, RunProgress
  <2> QED BY <2>1, <2>2, <2>3, <2>4, <2>5, <2>6
<1>5. Halfway' = Halfway
  BY <1>3, <1>4 DEF Halfway, Applying, Same, Alike
<1>6. \A q \in Halfway : run'[q].m = run[q].m
  BY <1>3, <1>4 DEF Halfway, Applying, Same, Alike
<1>7. AtWork' = AtWork
  BY <1>5, <1>6 DEF AtWork
<1>8. SettledAll'
  BY <1>2, <1>7 DEF Reaching, SettledAll, SettledAt
<1>9. Carried'
  BY <1>2 DEF Reaching, Carried, CarriedAt, MovedOn
<1>10. Pursued'
  <2> SUFFICES ASSUME NEW q \in Halfway
               PROVE  /\ stored[run'[q].m].there
                      /\ run'[q].pc \in Applying => stored[run'[q].m].lead = run'[q].seen
                      /\ run'[q].pc = "notify" => \/ run'[q].m \in applied \/ stored[run'[q].m].lead = None
                                                  \/ run'[q].m \in late
    BY <1>2, <1>5 DEF Pursued, PursuedBy
  <2>1. q \in Runs
    BY DEF Halfway
  <2>2. CASE q = r
    BY <1>4, <2>2 DEF Halfway, Applying, Reaching, Pursued, PursuedBy
  <2>3. CASE q # r
    BY <1>3, <2>1, <2>3 DEF Same, Alike, Reaching, Pursued, PursuedBy
  <2> QED BY <2>2, <2>3
<1>11. Surely'
  <2> SUFFICES ASSUME NEW q \in Runs, run'[q].pc \in Matching \cup Applying \cup {"notify"},
                      shape[run'[q].m].sure
               PROVE  run'[q].sure
    BY <1>2 DEF Surely, SurelyBy
  <2>1. CASE q # r
    BY <1>3, <2>1 DEF Same, Alike, Reaching, Surely, SurelyBy
  <2>2. CASE q = r
    <3>1. CASE Find(r)
      <4>1. run[r].pc \in Matching
        BY <3>1 DEF Find, Matching
      <4> QED BY <1>4, <2>2, <3>1, <4>1 DEF Reaching, Surely, SurelyBy, Find, Match, Matching, Applying
    <3>2. CASE ~Find(r)
      BY <1>4, <2>2, <3>2 DEF Reaching, Surely, SurelyBy, Matching, Applying
    <3> QED BY <3>1, <3>2
  <2> QED BY <2>1, <2>2
<1>12. StageSeen'
  <2> SUFFICES ASSUME NEW q \in Runs, run'[q].pc \in {"count", "save"}, run'[q].stage # "inactive"
               PROVE  lead[run'[q].seen].stage # "inactive" \/ run'[q].seen \in manual
    BY <1>2 DEF StageSeen, StageSeenBy
  <2>1. CASE q # r
    BY <1>3, <2>1 DEF Same, Alike, Reaching, StageSeen, StageSeenBy
  <2>2. CASE q = r /\ Load(r)
    BY <1>4, <2>2 DEF Applying, Load
  <2>3. CASE q = r /\ Count(r)
    <3>1. run[r].pc = "count" /\ ~Load(r)
      BY <2>3 DEF Count, Load
    <3> QED BY <1>4, <2>3, <3>1 DEF Applying, Reaching, StageSeen, StageSeenBy
  <2>4. CASE q = r /\ ~Load(r) /\ ~Count(r)
    BY <1>4, <2>4 DEF Applying
  <2> QED BY <2>1, <2>2, <2>3, <2>4
<1> QED BY <1>8, <1>9, <1>10, <1>11, <1>12 DEF Reaching

(* A link gives letters their lead late. *)
LEMMA GrowsRelabel ==
  ASSUME Typed, NEW l \in Leads, Relabel(l), UNCHANGED <<shape, lead, notices, applied, manual>>,
         dropped \subseteq dropped'
  PROVE  Grows
<1>1. \A m \in Letters : stored[m].there =>
        /\ stored'[m].there
        /\ stored[m].lead # None => stored'[m].lead = stored[m].lead
        /\ stored'[m].lead # stored[m].lead => m \in late'
  BY DEF Relabel, Unlabelled, Typed, ReplyTypes
<1>2. late \subseteq late'
  BY DEF Relabel
<1> QED BY <1>1, <1>2 DEF Grows

(* Making and linking the thread applies no letter. *)
LEMMA ReachingLinking ==
  ASSUME Typed, Reaching, NEW r \in Runs, Upsert(r) \/ Attach(r) \/ RelabelByRun(r)
  PROVE  Reaching'
<1>1. /\ \A q \in Runs \ {r} : Same(q)
      /\ run'[r].m = run[r].m /\ run'[r].sure = run[r].sure
      /\ run'[r].pc \in {"attach", "create", "relabel"} /\ run[r].pc \in Matching
  <2>1. /\ \A q \in Runs \ {r} : Same(q)
        /\ run'[r].m = run[r].m /\ run'[r].sure = run[r].sure
    BY TypedLinking
  <2>2. run'[r].pc \in {"attach", "create", "relabel"}
    BY TypedLinking
  <2>3. run[r].pc \in Matching
    BY DEF Upsert, Attach, RelabelByRun, Matching
  <2> QED BY <2>1, <2>2, <2>3
<1>2. Grows
  <2>1. CASE Upsert(r) \/ Attach(r)
    BY <2>1 DEF Upsert, Attach, Grows, replyHistory
  <2>2. CASE RelabelByRun(r)
    <3>1. run[r].lead \in Leads
      BY <2>2 DEF RelabelByRun, Typed, Phases
    <3> QED BY <2>2, <3>1, GrowsRelabel DEF RelabelByRun
  <2> QED BY <2>1, <2>2
<1>3. UNCHANGED <<applied, dropped>> /\ \A m \in Letters : stored'[m].there <=> stored[m].there
  BY DEF Upsert, Attach, RelabelByRun, Relabel, Unlabelled, replyHistory, Typed, ReplyTypes
<1>4. r \notin Halfway /\ r \notin Halfway'
  BY <1>1 DEF Halfway, Matching
<1>5. /\ \A m \in Letters : stored[m].there /\ m \notin AtWork \cup dropped => SettledAt(m)'
      /\ \A m \in applied : CarriedAt(m)'
      /\ \A q \in Halfway \ {r} : run[q].m \in AtWork'
      /\ \A q \in Runs \ {r} : SurelyBy(q)' /\ StageSeenBy(q)' /\ (q \in Halfway' => PursuedBy(q)')
  BY <1>1, <1>2, Growing
<1>6. AtWork \subseteq AtWork'
  BY <1>4, <1>5 DEF AtWork
<1>7. SettledAll' /\ Carried'
  BY <1>3, <1>5, <1>6 DEF SettledAll, Carried
<1>8. Halfway' \subseteq Runs
  BY DEF Halfway
<1>9. Pursued'
  BY <1>4, <1>5, <1>8 DEF Pursued
<1>10. SurelyBy(r)' /\ StageSeenBy(r)'
  BY <1>1, <1>2 DEF SurelyBy, StageSeenBy, Reaching, Surely, Grows
<1>11. Surely' /\ StageSeen'
  BY <1>5, <1>10 DEF Surely, StageSeen
<1> QED BY <1>7, <1>9, <1>11 DEF Reaching

(* Whoever stores a letter is at work on it. *)
LEMMA ReachingCreate ==
  ASSUME Typed, Reaching, NEW r \in Runs, Create(r)
  PROVE  Reaching'
<1> DEFINE m == run[r].m
<1>1. (\A q \in Runs \ {r} : Same(q)) /\ m \in Letters
  BY TypedCreate
<1>2. \/ /\ ~stored[m].there
         /\ stored' = [stored EXCEPT ![m] = [there |-> TRUE, lead |-> run[r].seen]]
         /\ run'[r].m = m /\ run'[r].seen = run[r].seen /\ run'[r].sure = run[r].sure
         /\ run'[r].pc = IF run[r].seen # None THEN "load" ELSE "notify"
      \/ run'[r].pc = "pick" /\ UNCHANGED stored
  BY TypedCreate
<1>3. UNCHANGED <<shape, lead, notices, replyHistory>>
  BY DEF Create
<1>4. Grows
  <2>1. \A n \in Letters : stored[n].there => stored'[n] = stored[n]
    BY <1>2 DEF Typed, ReplyTypes
  <2> QED BY <1>3, <2>1 DEF Grows, replyHistory
<1>5. r \notin Halfway
  BY DEF Halfway, Create
<1>6. /\ \A n \in Letters : stored[n].there /\ n \notin AtWork \cup dropped => SettledAt(n)'
      /\ \A n \in applied : CarriedAt(n)'
      /\ \A q \in Halfway \ {r} : run[q].m \in AtWork'
      /\ \A q \in Runs \ {r} : SurelyBy(q)' /\ StageSeenBy(q)' /\ (q \in Halfway' => PursuedBy(q)')
  BY <1>1, <1>4, Growing
<1>7. AtWork \subseteq AtWork'
  BY <1>5, <1>6 DEF AtWork
<1>8. \A n \in Letters : stored'[n].there => stored[n].there \/ n \in AtWork'
  <2>1. CASE run'[r].pc = "pick" /\ UNCHANGED stored
    BY <2>1
  <2>2. CASE run'[r].pc \in {"load", "notify"} /\ run'[r].m = m
    <3>1. m \in AtWork'
      BY <2>2 DEF AtWork, Halfway
    <3>2. \A n \in Letters \ {m} : stored'[n] = stored[n]
      BY <1>2 DEF Typed, ReplyTypes
    <3> QED BY <3>1, <3>2
  <2> QED BY <1>2, <2>1, <2>2
<1>9. SettledAll' /\ Carried'
  BY <1>3, <1>6, <1>7, <1>8 DEF SettledAll, Carried, replyHistory
<1>10. r \in Halfway' => PursuedBy(r)'
  <2>1. CASE run'[r].pc = "pick"
    BY <2>1 DEF Halfway
  <2>2. CASE ~(run'[r].pc = "pick")
    <3>1. stored'[m] = [there |-> TRUE, lead |-> run[r].seen]
      BY <1>1, <1>2, <2>2 DEF Typed, ReplyTypes
    <3> QED BY <1>2, <2>2, <3>1 DEF PursuedBy, Applying
  <2> QED BY <2>1, <2>2
<1>11. SurelyBy(r)' /\ StageSeenBy(r)'
  <2>1. run[r].pc \in Matching
    BY DEF Create, Matching
  <2>2. shape[m].sure => run[r].sure
    BY <2>1 DEF Reaching, Surely, SurelyBy
  <2>3. SurelyBy(r)'
    BY <1>2, <1>3, <2>2 DEF SurelyBy, Matching, Applying
  <2>4. StageSeenBy(r)'
    BY <1>2 DEF StageSeenBy
  <2> QED BY <2>3, <2>4
<1>12. Halfway' \subseteq Runs
  BY DEF Halfway
<1>13. Pursued' /\ Surely' /\ StageSeen'
  BY <1>6, <1>10, <1>11, <1>12 DEF Pursued, Surely, StageSeen
<1> QED BY <1>9, <1>13 DEF Reaching

(* A save applies the letter, and moves the lead on if the letter may. *)
LEMMA ReachingSave ==
  ASSUME Typed, Reaching, NEW r \in Runs, Save(r)
  PROVE  Reaching'
<1>0. PICK m \in Letters, l \in Leads : m = run[r].m /\ l = run[r].seen
  BY TypedSave
<1>1. /\ \A q \in Runs \ {r} : Same(q)
      /\ m \in Letters /\ l \in Leads
      /\ run'[r].m = m /\ run'[r].seen = l /\ run'[r].sure = run[r].sure /\ run'[r].pc = "notify"
  BY <1>0, TypedSave
<1>2. /\ UNCHANGED <<shape, stored, notices, dropped, late, manual>>
      /\ applied' = applied \cup {m} /\ run[r].pc = "save"
  BY <1>0 DEF Save, store
<1>3. PICK count : lead' = [lead EXCEPT ![l] = [stage |-> IF Moves(r) THEN "active" ELSE @.stage, count |-> count]]
  BY <1>0 DEF Save
<1>4. \A k \in Leads : lead'[k].stage = IF k = l /\ Moves(r) THEN "active" ELSE lead[k].stage
  BY <1>1, <1>3 DEF Typed, ReplyTypes
<1>5. Grows
  BY <1>2, <1>4 DEF Grows
<1>6. /\ \A n \in Letters : stored[n].there /\ n \notin AtWork \cup dropped => SettledAt(n)'
      /\ \A n \in applied : CarriedAt(n)'
      /\ \A q \in Halfway \ {r} : run[q].m \in AtWork'
      /\ \A q \in Runs \ {r} : SurelyBy(q)' /\ StageSeenBy(q)' /\ (q \in Halfway' => PursuedBy(q)')
  BY <1>1, <1>5, Growing
<1>7. m \in AtWork'
  BY <1>1 DEF AtWork, Halfway
<1>8. SettledAll'
  <2>1. AtWork \subseteq AtWork'
    BY <1>0, <1>6, <1>7 DEF AtWork
  <2> QED BY <1>2, <1>6, <2>1 DEF SettledAll
<1>9. CarriedAt(m)'
  <2>1. r \in Halfway /\ run[r].pc \in Applying
    BY <1>2 DEF Halfway, Applying
  <2>2. stored[m].there /\ stored[m].lead = l
    BY <1>0, <2>1 DEF Reaching, Pursued, PursuedBy
  <2>3. MovedOn(m)'
    <3> SUFFICES ASSUME shape[m].human, shape[m].sure, l \notin manual PROVE lead'[l].stage # "inactive"
      BY <1>2, <2>2 DEF MovedOn
    <3>1. run[r].sure
      BY <1>0, <2>1 DEF Reaching, Surely, SurelyBy
    <3>2. CASE run[r].stage = "inactive"
      <4>1. Moves(r)
        BY <1>0, <3>1, <3>2 DEF Moves
      <4> QED BY <1>1, <1>4, <4>1
    <3>3. CASE run[r].stage # "inactive"
      <4>1. lead[l].stage # "inactive"
        BY <1>0, <1>2, <3>3 DEF Reaching, StageSeen, StageSeenBy
      <4> QED BY <1>1, <1>4, <4>1
    <3> QED BY <3>2, <3>3
  <2> QED BY <1>1, <1>2, <2>2, <2>3 DEF CarriedAt
<1>10. Carried'
  BY <1>2, <1>6, <1>9 DEF Carried
<1>11. PursuedBy(r)'
  BY <1>1, <1>2, <1>9 DEF PursuedBy, Applying, CarriedAt
<1>12. SurelyBy(r)' /\ StageSeenBy(r)'
  BY <1>0, <1>1, <1>2 DEF SurelyBy, StageSeenBy, Reaching, Surely, SurelyBy, Applying
<1>13. Halfway' \subseteq Runs
  BY DEF Halfway
<1>14. Pursued' /\ Surely' /\ StageSeen'
  BY <1>6, <1>11, <1>12, <1>13 DEF Pursued, Surely, StageSeen
<1> QED BY <1>8, <1>10, <1>14 DEF Reaching

(* A run leaves a letter behind applied and announced, or dropped. *)
LEMMA ReachingDone ==
  ASSUME Typed, Reaching, NEW r \in Runs, Notify(r) \/ Throws(r)
  PROVE  Reaching'
<1>0. PICK m \in Letters : m = run[r].m
  BY TypedDone
<1>1. (\A q \in Runs \ {r} : Same(q)) /\ run'[r].pc = "pick" 
  BY TypedDone
<1>2. UNCHANGED <<shape, stored, lead, applied, late, manual>>
  BY DEF Notify, Throws, store
<1>3. Grows
  <2>1. notices \subseteq notices' /\ dropped \subseteq dropped'
    BY DEF Notify, Throws, Drop
  <2> QED BY <1>2, <2>1 DEF Grows
<1>4. /\ \A n \in Letters : stored[n].there /\ n \notin AtWork \cup dropped => SettledAt(n)'
      /\ \A n \in applied : CarriedAt(n)'
      /\ \A q \in Halfway \ {r} : run[q].m \in AtWork'
      /\ \A q \in Runs \ {r} : SurelyBy(q)' /\ StageSeenBy(q)' /\ (q \in Halfway' => PursuedBy(q)')
  BY <1>1, <1>3, Growing
<1>5. r \in Halfway => m \in dropped' \/ SettledAt(m)'
  <2> SUFFICES ASSUME r \in Halfway, m \notin dropped' PROVE SettledAt(m)'
    OBVIOUS
  <2>1. ~Throws(r)
    BY <1>0 DEF Throws, Drop, Halfway
  <2>2. /\ run[r].pc = "notify"
        /\ notices' = IF shape[m].human THEN notices \cup {m} ELSE notices
    BY <1>0, <2>1 DEF Notify
  <2>3. m \in applied \/ stored[m].lead = None \/ m \in late
    BY <1>0, <2>2 DEF Reaching, Pursued, PursuedBy
  <2> QED BY <1>2, <2>2, <2>3 DEF SettledAt
<1>6. SettledAll'
  <2> SUFFICES ASSUME NEW n \in Letters, stored[n].there, n \notin AtWork', n \notin dropped'
               PROVE  SettledAt(n)'
    BY <1>2 DEF SettledAll
  <2>1. n \notin dropped
    BY <1>3 DEF Grows
  <2>2. CASE n \in AtWork
    <3>1. n = m /\ r \in Halfway
      BY <1>0, <1>4, <2>2 DEF AtWork
    <3> QED BY <1>5, <3>1
  <2>3. CASE n \notin AtWork
    BY <1>4, <2>1, <2>3
  <2> QED BY <2>2, <2>3
<1>7. Carried'
  BY <1>2, <1>4 DEF Carried
<1>8. r \notin Halfway' /\ Halfway' \subseteq Runs /\ SurelyBy(r)' /\ StageSeenBy(r)'
  BY <1>1 DEF Halfway, SurelyBy, StageSeenBy, Matching, Applying
<1>9. Pursued' /\ Surely' /\ StageSeen'
  BY <1>4, <1>8 DEF Pursued, Surely, StageSeen
<1> QED BY <1>6, <1>7, <1>9 DEF Reaching

LEMMA ReachingAround ==
  ASSUME Typed, Reaching,
         \/ \E m \in Letters : Arrive(m)
         \/ \E l \in Leads : Link(l) \/ \E stage \in Stages : SetStage(l, stage)
         \/ LinkRelabels \/ LinkFails \/ ClaimAges \/ RunCrash
  PROVE  Reaching'
<1>1. Grows
  <2>1. CASE LinkRelabels
    <3>1. linking \in Leads
      BY <2>1 DEF LinkRelabels, Typed, ReplyTypes
    <3> QED BY <2>1, <3>1, GrowsRelabel DEF LinkRelabels
  <2>2. CASE (\E m \in Letters : Arrive(m)) \/ (\E l \in Leads : Link(l)) \/ LinkFails \/ ClaimAges
    BY <2>2 DEF Arrive, Link, LinkFails, ClaimAges, Grows, store, replyHistory
  <2>3. ASSUME NEW l \in Leads, NEW stage \in Stages, SetStage(l, stage) PROVE Grows
    <3>1. \A k \in Leads : k # l => lead'[k] = lead[k]
      BY <2>3 DEF SetStage, Typed, ReplyTypes
    <3> QED BY <2>3, <3>1 DEF SetStage, Grows, store
  <2>4. CASE RunCrash
    BY <2>4 DEF RunCrash, Drop, Grows, store
  <2> QED BY <2>1, <2>2, <2>3, <2>4
<1>2. applied' = applied /\ \A m \in Letters : stored'[m].there <=> stored[m].there
  <2>1. CASE LinkRelabels
    BY <2>1 DEF LinkRelabels, Relabel, Typed, ReplyTypes
  <2>2. CASE ~LinkRelabels
    BY <2>2 DEF Arrive, Link, SetStage, LinkFails, ClaimAges, RunCrash, store, replyHistory
  <2> QED BY <2>1, <2>2
<1>3. CASE \A q \in Runs : Same(q)
  <2>1. /\ \A n \in Letters : stored[n].there /\ n \notin AtWork \cup dropped => SettledAt(n)'
        /\ \A n \in applied : CarriedAt(n)'
        /\ \A q \in Halfway : run[q].m \in AtWork'
        /\ \A q \in Runs : SurelyBy(q)' /\ StageSeenBy(q)' /\ (q \in Halfway' => PursuedBy(q)')
    <3>1. {} \in SUBSET Runs /\ Runs \ {} = Runs /\ Halfway \ {} = Halfway
      OBVIOUS
    <3> QED BY <1>1, <1>3, <3>1, Growing
  <2>2. AtWork \subseteq AtWork' /\ dropped \subseteq dropped'
    BY <1>1, <2>1 DEF AtWork, Grows
  <2>3. SettledAll' /\ Carried'
    BY <1>2, <2>1, <2>2 DEF SettledAll, Carried
  <2>4. Halfway' \subseteq Runs
    BY DEF Halfway
  <2> QED BY <2>1, <2>3, <2>4 DEF Reaching, Pursued, Surely, StageSeen
<1>4. CASE RunCrash
  <2>1. /\ \A n \in Letters : stored[n].there /\ n \notin AtWork \cup dropped => SettledAt(n)'
        /\ \A n \in applied : CarriedAt(n)'
    <3>1. Runs \in SUBSET Runs /\ \A q \in Runs \ Runs : Same(q)
      OBVIOUS
    <3> QED BY <1>1, <3>1, Growing
  <2>2. AtWork \cup dropped \subseteq dropped'
    BY <1>4 DEF RunCrash, Drop, AtWork, Halfway
  <2>3. SettledAll' /\ Carried'
    BY <1>2, <2>1, <2>2 DEF SettledAll, Carried
  <2>4. \A q \in Runs : run'[q].pc = "idle"
    BY <1>4 DEF RunCrash, Rest
  <2> QED BY <2>3, <2>4 DEF Reaching, Pursued, Surely, StageSeen, SurelyBy, StageSeenBy, Halfway, Matching,
                            Applying
<1> QED BY <1>3, <1>4, TypedAround

LEMMA ReachingInit == ReplyInit => Reaching
<1> SUFFICES ASSUME ReplyInit PROVE Reaching
  OBVIOUS
<1>1. (\A r \in Runs : run[r].pc = "idle") /\ (\A m \in Letters : ~stored[m].there) /\ applied = {}
  BY DEF ReplyInit, Rest
<1> QED BY <1>1 DEF Reaching, SettledAll, Carried, Pursued, Surely, StageSeen, SurelyBy, StageSeenBy, Halfway,
                    Matching, Applying

LEMMA ReachingStep ==
  ASSUME Typed, Reaching, [ReplyNext]_replyVars
  PROVE  Reaching'
<1>1. CASE UNCHANGED replyVars
  BY <1>1 DEF Reaching, SettledAll, SettledAt, Carried, CarriedAt, MovedOn, Pursued, PursuedBy, Surely, StageSeen,
              SurelyBy, StageSeenBy, Halfway, AtWork, replyVars, store, replyHistory
<1>2. ASSUME NEW r \in Runs, RunStep(r) PROVE Reaching'
  BY <1>2, ReachingEarly, ReachingLinking, ReachingCreate, ReachingSave, ReachingDone DEF RunStep
<1>3. CASE ReplyNext
  <2>1. CASE \E r \in Runs : RunStep(r)
    BY <1>2, <2>1
  <2>2. CASE ~\E r \in Runs : RunStep(r)
    BY <1>3, <2>2, ReachingAround DEF ReplyNext, Stages
  <2> QED BY <2>1, <2>2
<1> QED BY <1>1, <1>3

(* However many runs overlap, and whoever links the thread meanwhile, a stored letter has   *)
(* reached its lead and the user, and moved the lead on if it may, unless its run failed or *)
(* died, or its lead came late (conversationSync.ingestMessage, leadWorkflow).              *)
THEOREM ReplyDoesReach == ReplySpec => []ReplyReaches
<1>1. Typed /\ Reaching => ReplyReaches
  <2> SUFFICES ASSUME Typed, Reaching, NEW m \in Letters, stored[m].there, m \notin AtWork \cup dropped
               PROVE  /\ stored[m].lead # None /\ m \notin late => m \in applied
                      /\ shape[m].human => m \in notices
                      /\ m \in applied /\ shape[m].human /\ shape[m].sure /\ stored[m].lead \notin manual =>
                           lead[stored[m].lead].stage # "inactive"
    BY DEF ReplyReaches
  <2> QED BY DEF Reaching, SettledAll, SettledAt, Carried, CarriedAt, MovedOn
<1>2. Typed /\ Reaching /\ [ReplyNext]_replyVars => (Typed /\ Reaching)'
  BY TypedStep, ReachingStep
<1>3. ReplyInit => Typed /\ Reaching
  BY TypedInit, ReachingInit
<1> QED BY <1>1, <1>2, <1>3, PTL DEF ReplySpec

-------------------------------------------------------------------------------
(* A run is about to count the replies of lead l, or has and is about to save the count. *)
Pending(l) == \E q \in Runs : run[q].pc \in Applying /\ run[q].seen = l

(* What an undisturbed run read and counted is still so. *)
UndisturbedBy(r) ==
  run[r].pc \in {"count", "save"} /\ run[r].alone =>
    /\ run[r].count = lead[run[r].seen].count
    /\ run[r].pc = "save" => run[r].counted = Incoming(run[r].seen)

Counting ==
  /\ \A l \in Leads \ drifted : lead[l].count = Incoming(l) \/ Pending(l)
  /\ \A r \in Runs : UndisturbedBy(r)

(* What a step does not disturb that changes the runs S and, of the replies and the counts, *)
(* those of the leads L.                                                                     *)
LEMMA CountingKept ==
  ASSUME Typed, Counting, NEW S \in SUBSET Runs, NEW L \in SUBSET Leads,
         \A q \in Runs \ S : Same(q) /\ \A l \in L : Noted(q, l),
         \A l \in Leads \ L : lead'[l].count = lead[l].count,
         \A l \in Leads \ L : \A m \in Letters :
           stored'[m].there /\ stored'[m].lead = l <=> stored[m].there /\ stored[m].lead = l
  PROVE  /\ \A q \in Runs \ S : UndisturbedBy(q)'
         /\ \A l \in Leads \ (L \cup drifted) :
              \/ lead'[l].count = Incoming(l)' \/ Pending(l)'
              \/ \E q \in S : run[q].pc \in Applying /\ run[q].seen = l
<1>1. \A l \in Leads \ L : Incoming(l)' = Incoming(l)
  <2> TAKE l \in Leads \ L
  <2>1. {m \in Letters : stored'[m].there /\ stored'[m].lead = l} = {m \in Letters : stored[m].there /\ stored[m].lead = l}
    OBVIOUS
  <2> QED BY <2>1 DEF Incoming
<1>2. ASSUME NEW q \in Runs \ S PROVE UndisturbedBy(q)'
  <2> SUFFICES ASSUME run'[q].pc \in {"count", "save"}, run'[q].alone
               PROVE  /\ run'[q].count = lead'[run'[q].seen].count
                      /\ run'[q].pc = "save" => run'[q].counted = Incoming(run[q].seen)'
                      /\ run'[q].seen = run[q].seen
    BY DEF UndisturbedBy, Incoming
  <2>1. /\ run'[q].pc = run[q].pc /\ run'[q].seen = run[q].seen /\ run'[q].count = run[q].count
        /\ run'[q].counted = run[q].counted /\ run[q].alone
    BY DEF Same, Alike
  <2>2. run[q].seen \in Leads
    BY <2>1 DEF Typed, Phases, Applying
  <2>3. run[q].seen \notin L
    BY <2>1 DEF Noted
  <2>4. run[q].count = lead[run[q].seen].count /\ (run[q].pc = "save" => run[q].counted = Incoming(run[q].seen))
    BY <2>1 DEF Counting, UndisturbedBy
  <2>5. PICK l \in Leads \ L : l = run[q].seen
    BY <2>2, <2>3
  <2> QED BY <1>1, <2>1, <2>4, <2>5
<1>3. ASSUME NEW l \in Leads \ (L \cup drifted)
      PROVE  \/ lead'[l].count = Incoming(l)' \/ Pending(l)'
             \/ \E q \in S : run[q].pc \in Applying /\ run[q].seen = l
  <2>1. CASE lead[l].count = Incoming(l)
    BY <1>1, <2>1
  <2>2. ASSUME NEW q \in Runs \ S, run[q].pc \in Applying, run[q].seen = l PROVE Pending(l)'
    BY <2>2 DEF Pending, Same, Alike
  <2> QED BY <2>1, <2>2 DEF Counting, Pending
<1> QED BY <1>2, <1>3

LEMMA CountingEarly ==
  ASSUME Typed, Counting, NEW r \in Runs,
         \/ StartClaimed(r) \/ StartByHand(r) \/ FetchInbox(r) \/ EndRun(r)
         \/ Pick(r) \/ Match(r) \/ Find(r) \/ Load(r) \/ Count(r)
  PROVE  Counting'
<1>1. run \in [Runs -> RunProgress] /\ run[r] \in RunProgress
  BY DEF Typed, ReplyTypes
<1>2. UNCHANGED <<stored, lead, drifted>>
  BY DEF StartClaimed, StartByHand, FetchInbox, EndRun, Pick, Match, Find, Load, Count, store, replyHistory
<1>3. /\ \A q \in Runs \ {r} : UndisturbedBy(q)'
      /\ \A l \in Leads \ drifted :
           \/ lead'[l].count = Incoming(l)' \/ Pending(l)'
           \/ run[r].pc \in Applying /\ run[r].seen = l
  <2>1. \A q \in Runs \ {r} : Same(q) /\ \A l \in {} : Noted(q, l)
    BY TypedEarly
  <2>a. {r} \in SUBSET Runs /\ {} \in SUBSET Leads
    OBVIOUS
  <2>b. \A l \in Leads \ {} : lead'[l].count = lead[l].count
    BY <1>2
  <2>c. \A l \in Leads \ {} : \A m \in Letters :
          stored'[m].there /\ stored'[m].lead = l <=> stored[m].there /\ stored[m].lead = l
    BY <1>2
  <2>2. /\ \A q \in Runs \ {r} : UndisturbedBy(q)'
        /\ \A l \in Leads \ ({} \cup drifted) :
             \/ lead'[l].count = Incoming(l)' \/ Pending(l)'
             \/ \E q \in {r} : run[q].pc \in Applying /\ run[q].seen = l
    BY <2>1, <2>a, <2>b, <2>c, CountingKept
  <2> QED BY <2>2
<1>4. CASE Load(r)
  <2>1. /\ run'[r].pc = "count" /\ run'[r].seen = run[r].seen /\ run'[r].count = lead[run[r].seen].count
    BY <1>1, <1>4 DEF Load, RunProgress
  <2>2. UndisturbedBy(r)'
    BY <1>2, <2>1 DEF UndisturbedBy
  <2>3. \A l : run[r].seen = l => Pending(l)'
    BY <2>1 DEF Pending, Applying
  <2> QED BY <1>2, <1>3, <2>2, <2>3 DEF Counting
<1>5. CASE Count(r)
  <2>1. /\ run'[r].pc = "save" /\ run'[r].seen = run[r].seen /\ run'[r].count = run[r].count
        /\ run'[r].counted = Incoming(run[r].seen) /\ run'[r].alone = run[r].alone /\ run[r].pc = "count"
    BY <1>1, <1>5 DEF Count, ReplyCount, RunProgress
  <2>2. UndisturbedBy(r)'
    <3>1. UndisturbedBy(r)
      BY DEF Counting
    <3>2. \A l : Incoming(l)' = Incoming(l)
      BY <1>2 DEF Incoming
    <3>3. PICK l \in Leads : l = run[r].seen
      BY <2>1 DEF Typed, Phases, Applying
    <3>4. run'[r].counted = Incoming(l)'
      BY <2>1, <3>2, <3>3
    <3>5. run'[r].alone => run[r].count = lead[l].count
      BY <2>1, <3>1, <3>3 DEF UndisturbedBy
    <3>6. run'[r].counted = Incoming(run[r].seen)'
      BY <2>1, <3>3, <3>4 DEF Incoming
    <3> QED BY <1>2, <2>1, <3>3, <3>5, <3>6 DEF UndisturbedBy
  <2>3. \A l : run[r].seen = l => Pending(l)'
    BY <2>1 DEF Pending, Applying
  <2> QED BY <1>2, <1>3, <2>2, <2>3 DEF Counting
<1>6. CASE ~Load(r) /\ ~Count(r)
  <2>1. run[r].pc \notin Applying /\ run'[r].pc \notin {"count", "save"}
    <3>1. CASE StartClaimed(r)
      BY <1>1, <3>1 DEF StartClaimed, Rest, Applying
    <3>2. CASE StartByHand(r)
      BY <1>1, <3>2 DEF StartByHand, Rest, Applying
    <3>3. CASE EndRun(r)
      BY <1>1, <3>3 DEF EndRun, Rest, Applying
    <3>4. CASE FetchInbox(r)
      BY <1>1, <3>4 DEF FetchInbox, Applying, RunProgress
    <3>5. CASE Pick(r)
      <4>1. PICK m \in run[r].page :
              \/ run' = [run EXCEPT ![r].page = @ \ {m}]
              \/ run' = [run EXCEPT ![r].page = @ \ {m}, ![r].m = m, ![r].pc = "match"]
        BY <3>5 DEF Pick
      <4>2. run[r].pc = "pick"
        BY <3>5 DEF Pick
      <4> QED BY <1>1, <4>1, <4>2 DEF RunProgress, Applying
    <3>6. CASE Match(r)
      BY <1>1, <3>6 DEF Match, Applying, RunProgress
    <3>7. CASE Find(r)
      BY <1>1, <3>7 DEF Find, Applying, RunProgress
    <3> QED BY <1>6, <3>1, <3>2, <3>3, <3>4, <3>5, <3>6, <3>7
  <2>2. UndisturbedBy(r)'
    BY <2>1 DEF UndisturbedBy
  <2> QED BY <1>2, <1>3, <2>1, <2>2 DEF Counting
<1> QED BY <1>4, <1>5, <1>6

(* A run that is not about to count, before or after. *)
LEMMA CountingApart ==
  ASSUME Typed, Counting, NEW r \in Runs, run'[r].pc \notin Applying, \A q \in Runs \ {r} : Same(q),
         drifted \subseteq drifted', run[r].pc \in Applying => run[r].seen \in drifted',
         UNCHANGED <<stored, lead>>
  PROVE  Counting'
<1>1. \A q \in Runs \ {r} : Same(q) /\ \A l \in {} : Noted(q, l)
  OBVIOUS
<1>a. {r} \in SUBSET Runs /\ {} \in SUBSET Leads
  OBVIOUS
<1>b. \A l \in Leads \ {} : lead'[l].count = lead[l].count
  OBVIOUS
<1>c. \A l \in Leads \ {} : \A m \in Letters :
        stored'[m].there /\ stored'[m].lead = l <=> stored[m].there /\ stored[m].lead = l
  OBVIOUS
<1>2. /\ \A q \in Runs \ {r} : UndisturbedBy(q)'
      /\ \A l \in Leads \ ({} \cup drifted) :
           \/ lead'[l].count = Incoming(l)' \/ Pending(l)'
           \/ \E q \in {r} : run[q].pc \in Applying /\ run[q].seen = l
  BY <1>1, <1>a, <1>b, <1>c, CountingKept
<1>3. UndisturbedBy(r)'
  BY DEF UndisturbedBy, Applying
<1> QED BY <1>2, <1>3 DEF Counting

(* A link changes what is counted on the lead it links to, and that lead is on record. *)
LEMMA CountingRelabel ==
  ASSUME Typed, Counting, NEW l \in Leads, Relabel(l), UNCHANGED lead, NEW S \in SUBSET Runs,
         \A q \in S : run[q].pc \notin Applying /\ run'[q].pc \notin Applying,
         \A q \in Runs \ S : Same(q),
         Unlabelled # {} => \A q \in Runs \ S : Noted(q, l)
  PROVE  Counting'
<1>1. \A q \in S : UndisturbedBy(q)'
  BY DEF UndisturbedBy, Applying
<1>2. CASE Unlabelled = {}
  <2>1. \A k \in Leads \ {} : \A m \in Letters :
          stored'[m].there /\ stored'[m].lead = k <=> stored[m].there /\ stored[m].lead = k
    BY <1>2 DEF Relabel, Typed, ReplyTypes
  <2>2. \A q \in Runs \ S : Same(q) /\ \A k \in {} : Noted(q, k)
    OBVIOUS
  <2>3. /\ \A q \in Runs \ S : UndisturbedBy(q)'
        /\ \A k \in Leads \ ({} \cup drifted) :
             \/ lead'[k].count = Incoming(k)' \/ Pending(k)'
             \/ \E q \in S : run[q].pc \in Applying /\ run[q].seen = k
    BY <2>1, <2>2, CountingKept
  <2>4. drifted' = drifted
    BY <1>2 DEF Relabel
  <2> QED BY <1>1, <2>3, <2>4 DEF Counting
<1>3. CASE Unlabelled # {}
  <2>1. \A k \in Leads \ {l} : \A m \in Letters :
          stored'[m].there /\ stored'[m].lead = k <=> stored[m].there /\ stored[m].lead = k
    BY ReplyAssumption DEF Relabel, Unlabelled, Typed, ReplyTypes, ReplyAssumption
  <2>2. \A q \in Runs \ S : Same(q) /\ \A k \in {l} : Noted(q, k)
    BY <1>3
  <2>a. \A k \in Leads \ {l} : lead'[k].count = lead[k].count
    OBVIOUS
  <2>b. {l} \in SUBSET Leads
    OBVIOUS
  <2>3. /\ \A q \in Runs \ S : UndisturbedBy(q)'
        /\ \A k \in Leads \ ({l} \cup drifted) :
             \/ lead'[k].count = Incoming(k)' \/ Pending(k)'
             \/ \E q \in S : run[q].pc \in Applying /\ run[q].seen = k
    BY <2>1, <2>2, <2>a, <2>b, CountingKept
  <2>4. drifted' = drifted \cup {l}
    BY <1>3 DEF Relabel
  <2> QED BY <1>1, <2>3, <2>4 DEF Counting
<1> QED BY <1>2, <1>3

LEMMA CountingLinking ==
  ASSUME Typed, Counting, NEW r \in Runs, Upsert(r) \/ Attach(r) \/ RelabelByRun(r)
  PROVE  Counting'
<1>1. \A q \in Runs \ {r} : Same(q)
  BY TypedLinking
<1>2. run[r].pc \notin Applying /\ run'[r].pc \notin Applying
  <2>1. run[r].pc \in {"upsert", "attach", "relabel"}
    BY DEF Upsert, Attach, RelabelByRun
  <2>2. run'[r].pc \in {"attach", "relabel", "create"}
    BY TypedLinking
  <2> QED BY <2>1, <2>2 DEF Applying
<1>3. CASE Upsert(r) \/ Attach(r)
  <2>1. UNCHANGED <<stored, lead, drifted>>
    BY <1>3 DEF Upsert, Attach, replyHistory
  <2> QED BY <1>1, <1>2, <2>1, CountingApart
<1>4. CASE RelabelByRun(r)
  <2>1. PICK l \in Leads : l = run[r].lead
    BY <1>4 DEF RelabelByRun, Typed, Phases
  <2>2. Relabel(l) /\ UNCHANGED lead
    BY <1>4, <2>1 DEF RelabelByRun
  <2>3. Unlabelled # {} => \A q \in Runs \ {r} : Noted(q, l)
    <3> SUFFICES ASSUME Unlabelled # {} PROVE \A q \in Runs \ {r} : Noted(q, l)
      OBVIOUS
    <3> DEFINE w == [run[r] EXCEPT !.pc = "create"]
    <3>1. run' = Disturb([run EXCEPT ![r] = w], r, l)
      BY <1>4, <2>1 DEF RelabelByRun
    <3>2. run[r] \in RunProgress
      BY DEF Typed, ReplyTypes
    <3>3. w \in RunProgress /\ w.m = run[r].m /\ w.pc = "create"
      BY <3>2 DEF RunProgress
    <3>4. run[r].m \in Letters
      BY <1>4 DEF RelabelByRun, Typed, Phases, Fits, Matching
    <3> HIDE DEF w
    <3>5. Fits(w)
      BY <3>3, <3>4 DEF Fits, Applying
    <3> QED BY <3>1, <3>3, <3>5, RunPutDisturb
  <2>4. /\ {r} \in SUBSET Runs
        /\ \A q \in {r} : run[q].pc \notin Applying /\ run'[q].pc \notin Applying
    BY <1>2
  <2> QED BY <1>1, <2>2, <2>3, <2>4, CountingRelabel
<1> QED BY <1>3, <1>4

LEMMA CountingCreate ==
  ASSUME Typed, Counting, NEW r \in Runs, Create(r)
  PROVE  Counting'
<1>1. \A q \in Runs \ {r} : Same(q)
  BY TypedCreate
<1>2. run[r].pc \notin Applying /\ UNCHANGED <<lead, drifted>>
  BY DEF Create, Applying, replyHistory
<1>3. run[r].m \in Letters
  BY TypedCreate
<1>4. \/ run'[r].pc = "pick" /\ UNCHANGED stored
      \/ /\ ~stored[run[r].m].there
         /\ stored' = [stored EXCEPT ![run[r].m] = [there |-> TRUE, lead |-> run[r].seen]]
         /\ run'[r].seen = run[r].seen
         /\ run'[r].pc = IF run[r].seen # None THEN "load" ELSE "notify"
         /\ \A q \in Runs \ {r} : Noted(q, run[r].seen)
  BY TypedCreate
<1>5. CASE run'[r].pc = "pick" /\ UNCHANGED stored
  BY <1>1, <1>2, <1>5, CountingApart DEF Applying
<1>6. CASE ~(run'[r].pc = "pick" /\ UNCHANGED stored)
  <2> DEFINE L == {run[r].seen} \cap Leads
  <2>1. \A q \in Runs \ {r} : Same(q) /\ \A l \in L : Noted(q, l)
    BY <1>1, <1>4, <1>6
  <2>2. \A l \in Leads \ L : lead'[l].count = lead[l].count
    BY <1>2
  <2>3. \A l \in Leads \ L : \A m \in Letters :
          stored'[m].there /\ stored'[m].lead = l <=> stored[m].there /\ stored[m].lead = l
    BY <1>3, <1>4, <1>6 DEF Typed, ReplyTypes
  <2>4. {r} \in SUBSET Runs /\ L \in SUBSET Leads
    OBVIOUS
  <2> HIDE DEF L
  <2>5. /\ \A q \in Runs \ {r} : UndisturbedBy(q)'
        /\ \A l \in Leads \ (L \cup drifted) :
             \/ lead'[l].count = Incoming(l)' \/ Pending(l)'
             \/ \E q \in {r} : run[q].pc \in Applying /\ run[q].seen = l
    BY <2>1, <2>2, <2>3, <2>4, CountingKept
  <2>6. UndisturbedBy(r)'
    BY <1>4, <1>6 DEF UndisturbedBy
  <2>7. \A l \in L : Pending(l)'
    <3>1. ASSUME NEW l \in L PROVE Pending(l)'
      <4>1. l = run[r].seen /\ l # None
        BY ReplyAssumption DEF L, ReplyAssumption
      <4>2. run'[r].pc = "load" /\ run'[r].seen = l
        BY <1>4, <1>6, <4>1
      <4> QED BY <4>2 DEF Pending, Applying
    <3> QED BY <3>1
  <2> QED BY <1>2, <2>5, <2>6, <2>7 DEF Counting
<1> QED BY <1>5, <1>6

(* An undisturbed save leaves the count at the number of letters. *)
LEMMA CountingSave ==
  ASSUME Typed, Counting, NEW r \in Runs, Save(r)
  PROVE  Counting'
<1>0. PICK l \in Leads : l = run[r].seen
  BY TypedSave
<1>1. \A q \in Runs \ {r} : Same(q)
  BY TypedSave
<1>2. (\A q \in Runs \ {r} : Noted(q, l)) /\ run'[r].pc = "notify"
  BY <1>0, TypedSave
<1>3. /\ UNCHANGED stored /\ run[r].pc = "save"
      /\ drifted' = IF run[r].alone THEN drifted \ {l} ELSE drifted \cup {l}
  BY <1>0 DEF Save, store
<1>4. PICK stage : lead' = [lead EXCEPT ![l] =
        [stage |-> stage, count |-> IF run[r].counted # run[r].count THEN run[r].counted ELSE @.count]]
  BY <1>0 DEF Save
<1>5. /\ lead'[l].count = IF run[r].counted # run[r].count THEN run[r].counted ELSE lead[l].count
      /\ \A k \in Leads \ {l} : lead'[k].count = lead[k].count
  BY <1>4 DEF Typed, ReplyTypes
<1>6. \A q \in Runs \ {r} : Same(q) /\ \A k \in {l} : Noted(q, k)
  BY <1>1, <1>2
<1>7. \A k \in Leads \ {l} : \A m \in Letters :
        stored'[m].there /\ stored'[m].lead = k <=> stored[m].there /\ stored[m].lead = k
  BY <1>3
<1>8. {r} \in SUBSET Runs /\ {l} \in SUBSET Leads /\ \A k \in Leads \ {l} : lead'[k].count = lead[k].count
  BY <1>5
<1>9. /\ \A q \in Runs \ {r} : UndisturbedBy(q)'
      /\ \A k \in Leads \ ({l} \cup drifted) :
           \/ lead'[k].count = Incoming(k)' \/ Pending(k)'
           \/ \E q \in {r} : run[q].pc \in Applying /\ run[q].seen = k
  BY <1>6, <1>7, <1>8, CountingKept
<1>10. UndisturbedBy(r)'
  BY <1>2 DEF UndisturbedBy
<1>11. run[r].alone => lead'[l].count = Incoming(l)'
  <2> SUFFICES ASSUME run[r].alone PROVE lead'[l].count = Incoming(l)'
    OBVIOUS
  <2>1. run[r].count = lead[l].count /\ run[r].counted = Incoming(l)
    BY <1>0, <1>3 DEF Counting, UndisturbedBy
  <2>2. Incoming(l)' = Incoming(l)
    BY <1>3 DEF Incoming
  <2> QED BY <1>5, <2>1, <2>2
<1>12. \A k \in Leads \ drifted' : lead'[k].count = Incoming(k)' \/ Pending(k)'
  <2> SUFFICES ASSUME NEW k \in Leads \ drifted' PROVE lead'[k].count = Incoming(k)' \/ Pending(k)'
    OBVIOUS
  <2>1. CASE k = l
    BY <1>3, <1>11, <2>1
  <2>2. CASE k # l
    <3>1. k \in Leads \ ({l} \cup drifted) /\ run[r].seen # k
      BY <1>0, <1>3, <2>2
    <3> QED BY <1>9, <3>1
  <2> QED BY <2>1, <2>2
<1> QED BY <1>9, <1>10, <1>12 DEF Counting

LEMMA CountingDone ==
  ASSUME Typed, Counting, NEW r \in Runs, Notify(r) \/ Throws(r)
  PROVE  Counting'
<1>1. (\A q \in Runs \ {r} : Same(q)) /\ run'[r].pc \notin Applying
  BY TypedDone DEF Applying
<1>2. UNCHANGED <<stored, lead>> /\ drifted \subseteq drifted'
  BY DEF Notify, Throws, Drop, store
<1>3. run[r].pc \in Applying => run[r].seen \in drifted'
  <2> SUFFICES ASSUME run[r].pc \in Applying PROVE run[r].seen \in drifted'
    OBVIOUS
  <2>1. run[r].seen \in Leads /\ run[r].seen # None
    BY ReplyAssumption DEF Typed, Phases, ReplyAssumption
  <2>2. Throws(r) /\ r \in Halfway
    BY DEF Notify, Halfway, Applying
  <2> QED BY <2>1, <2>2 DEF Throws, Drop
<1> QED BY <1>1, <1>2, <1>3, CountingApart

LEMMA CountingAround ==
  ASSUME Typed, Counting,
         \/ \E m \in Letters : Arrive(m)
         \/ \E l \in Leads : Link(l) \/ \E stage \in Stages : SetStage(l, stage)
         \/ LinkRelabels \/ LinkFails \/ ClaimAges \/ RunCrash
  PROVE  Counting'
<1>1. CASE LinkRelabels
  <2>1. PICK l \in Leads : l = linking
    BY <1>1 DEF LinkRelabels, Typed, ReplyTypes
  <2>2. Relabel(l) /\ UNCHANGED lead
    BY <1>1, <2>1 DEF LinkRelabels
  <2>3. Unlabelled # {} => \A q \in Runs \ {} : Noted(q, l)
    <3> SUFFICES ASSUME Unlabelled # {} PROVE \A q \in Runs : Noted(q, l)
      OBVIOUS
    <3>1. run' = Disturb(run, None, l) /\ run \in [Runs -> RunProgress]
      BY <1>1, <2>1 DEF LinkRelabels, Typed, ReplyTypes
    <3>2. \A q \in Runs : q # None /\ Disturb(run, None, l)[q].alone /\ run[q].pc \in {"count", "save"} => run[q].seen # l
      BY <3>1, DisturbFacts
    <3>3. \A q \in Runs : q # None
      BY ReplyAssumption DEF ReplyAssumption
    <3> QED BY <3>1, <3>2, <3>3 DEF Noted
  <2>5. \A q \in Runs \ {} : Same(q)
    <3>1. CASE run' = run
      BY <3>1 DEF Same, Alike
    <3>2. CASE run' = Disturb(run, None, linking)
      <4>1. run \in [Runs -> RunProgress]
        BY DEF Typed, ReplyTypes
      <4> QED BY <3>2, <4>1, DisturbFacts DEF Same
    <3> QED BY <1>1, <3>1, <3>2 DEF LinkRelabels
  <2>6. {} \in SUBSET Runs /\ \A q \in {} : run[q].pc \notin Applying /\ run'[q].pc \notin Applying
    OBVIOUS
  <2> QED BY <2>2, <2>3, <2>5, <2>6, CountingRelabel
<1>2. CASE RunCrash
  <2>1. \A q \in Runs : run'[q].pc = "idle"
    BY <1>2 DEF RunCrash, Rest
  <2>2. UNCHANGED <<stored, lead>>
    BY <1>2 DEF RunCrash, store
  <2>3. \A l \in Leads \ drifted' : lead[l].count = Incoming(l)
    <3> SUFFICES ASSUME NEW l \in Leads \ drifted', lead[l].count # Incoming(l) PROVE FALSE
      OBVIOUS
    <3>1. l \notin drifted /\ l # None
      BY <1>2, ReplyAssumption DEF RunCrash, Drop, ReplyAssumption
    <3>2. PICK q \in Runs : run[q].pc \in Applying /\ run[q].seen = l
      BY <3>1 DEF Counting, Pending
    <3>3. q \in Runs \cap Halfway
      BY <3>2 DEF Halfway, Applying
    <3> QED BY <1>2, <3>1, <3>2, <3>3 DEF RunCrash, Drop
  <2>4. \A l : Incoming(l)' = Incoming(l)
    BY <2>2 DEF Incoming
  <2> QED BY <2>1, <2>2, <2>3, <2>4 DEF Counting, UndisturbedBy
<1>3. CASE ~LinkRelabels /\ ~RunCrash
  <2>1. run' = run /\ stored' = stored /\ drifted' = drifted
    BY <1>3 DEF Arrive, Link, SetStage, LinkFails, ClaimAges, store, replyHistory
  <2>2. \A l \in Leads : lead'[l].count = lead[l].count
    BY <1>3 DEF Arrive, Link, SetStage, LinkFails, ClaimAges, Typed, ReplyTypes
  <2>3. \A l : Incoming(l)' = Incoming(l) /\ (Pending(l)' <=> Pending(l))
    BY <2>1 DEF Incoming, Pending
  <2>4. ASSUME NEW q \in Runs PROVE UndisturbedBy(q)'
    <3>1. run[q].pc \in {"count", "save"} => run[q].seen \in Leads
      BY DEF Typed, Phases, Applying
    <3>2. Incoming(run[q].seen)' = Incoming(run[q].seen)
      BY <2>1 DEF Incoming
    <3> QED BY <2>1, <2>2, <3>1, <3>2 DEF Counting, UndisturbedBy
  <2> QED BY <2>1, <2>2, <2>3, <2>4 DEF Counting
<1> QED BY <1>1, <1>2, <1>3

LEMMA CountingInit == ReplyInit => Counting
<1> SUFFICES ASSUME ReplyInit PROVE Counting
  OBVIOUS
<1>1. \A l \in Leads : Incoming(l) = 0
  <2>1. \A l : {m \in Letters : stored[m].there /\ stored[m].lead = l} = {}
    BY DEF ReplyInit
  <2> QED BY <2>1, FS_EmptySet DEF Incoming
<1>2. (\A l \in Leads : lead[l].count = 0) /\ \A r \in Runs : run[r].pc = "idle"
  BY DEF ReplyInit, Rest
<1> QED BY <1>1, <1>2 DEF Counting, UndisturbedBy

LEMMA CountingStep ==
  ASSUME Typed, Counting, [ReplyNext]_replyVars
  PROVE  Counting'
<1>1. CASE UNCHANGED replyVars
  <2>1. UNCHANGED <<run, lead, stored, drifted>>
    BY <1>1 DEF replyVars, store, replyHistory
  <2>2. \A l : Incoming(l)' = Incoming(l) /\ (Pending(l)' <=> Pending(l))
    BY <2>1 DEF Incoming, Pending
  <2>3. \A q \in Runs : Incoming(run[q].seen)' = Incoming(run[q].seen)
    BY <2>1 DEF Incoming
  <2> QED BY <2>1, <2>2, <2>3 DEF Counting, UndisturbedBy
<1>2. ASSUME NEW r \in Runs, RunStep(r) PROVE Counting'
  BY <1>2, CountingEarly, CountingLinking, CountingCreate, CountingSave, CountingDone DEF RunStep
<1>3. CASE ReplyNext
  <2>1. CASE \E r \in Runs : RunStep(r)
    BY <1>2, <2>1
  <2>2. CASE ~\E r \in Runs : RunStep(r)
    BY <1>3, <2>2, CountingAround DEF ReplyNext, Stages
  <2> QED BY <2>1, <2>2
<1> QED BY <1>1, <1>3

(* The replies of a lead are counted right as soon as one run has counted them undisturbed, *)
(* and stay so until two runs, a failure or a link disturb the count                        *)
(* (leadWorkflow.applyReplyToLead).                                                          *)
THEOREM CountIsSound == ReplySpec => []CountSound
<1>1. Counting => CountSound
  BY DEF Counting, Pending, CountSound, Halfway, Applying
<1>2. Typed /\ Counting /\ [ReplyNext]_replyVars => (Typed /\ Counting)'
  BY TypedStep, CountingStep
<1>3. ReplyInit => Typed /\ Counting
  BY TypedInit, CountingInit
<1> QED BY <1>1, <1>2, <1>3, PTL DEF ReplySpec

--------------------------------------------------------------------------------
(* A letter is with the lead its thread is with.                              *)

Setting == {"attach", "relabel", "create"}

(* The messages of the thread are about to get its lead. *)
Awaits(r) == run[r].pc = "relabel" /\ run[r].lead = conv.lead
Awaited == linking = conv.lead \/ \E r \in Runs : Awaits(r)

(* A letter that is not excused has the lead of the thread, or is about to get it. *)
Threaded ==
  \A m \in Letters \ torn : stored[m].there =>
    \/ stored[m].lead = conv.lead
    \/ stored[m].lead = None /\ conv.lead # None /\ Awaited

(* A run about to store one knows the lead the thread has. *)
AimedBy(r) == run[r].pc \in Setting /\ run[r].m \notin torn => run[r].seen = conv.lead
Aimed == \A r \in Runs : AimedBy(r)

(* A link that another one has overtaken finds none of them without a lead. *)
Astray(r) ==
  /\ run[r].lead # conv.lead
  /\ run[r].pc = "relabel" \/ (run[r].pc = "attach" /\ run[r].seen = run[r].lead)
Overtaken == linking \notin {None, conv.lead} \/ \E r \in Runs : Astray(r)
Spared == Overtaken => Unlabelled \subseteq torn

(* A thread keeps a lead: it may get another one, never none. *)
RootedBy(r) ==
  /\ run[r].seen # None => conv.lead # None
  /\ run[r].pc = "relabel" => run[r].seen = run[r].lead
Rooted == (linking # None => conv.lead # None) /\ \A r \in Runs : RootedBy(r)

Together == Threaded /\ Aimed /\ Spared /\ Rooted

LEMMA RunFacts ==
  ASSUME Typed
  PROVE  /\ run \in [Runs -> RunProgress] /\ None \notin Letters \cup Leads
         /\ conv.lead \in Leads \cup {None} /\ linking \in Leads \cup {None}
         /\ stored \in [Letters -> [there : BOOLEAN, lead : Leads \cup {None}]]
         /\ torn \subseteq Letters /\ Unlabelled \subseteq Letters
BY ReplyAssumption DEF Typed, ReplyTypes, Unlabelled

(* Run r goes on as w. *)
LEMMA OneMoves ==
  ASSUME Typed, NEW r \in Runs, NEW w, run' = [run EXCEPT ![r] = w]
  PROVE  run'[r] = w /\ \A q \in Runs \ {r} : Same(q)
BY RunFacts DEF Same, Alike

LEMMA OneDisturbs ==
  ASSUME Typed, NEW r \in Runs, NEW w \in RunProgress, NEW l, run' = Disturb([run EXCEPT ![r] = w], r, l)
  PROVE  run'[r] = w /\ \A q \in Runs \ {r} : Same(q)
<1> DEFINE f == [run EXCEPT ![r] = w]
<1>1. f \in [Runs -> RunProgress] /\ f[r] = w /\ \A q \in Runs \ {r} : f[q] = run[q]
  BY RunFacts
<1> HIDE DEF f
<1>2. run' = Disturb(f, r, l)
  BY DEF f
<1>3. run'[r] = f[r] /\ \A q \in Runs : Alike(run'[q], f[q])
  <2> DEFINE d == Disturb(f, r, l)
  <2>1. /\ \A q \in Runs : Alike(d[q], f[q])
        /\ \A q \in Runs : q = r => d[q] = f[q]
    BY <1>1, DisturbFacts
  <2>2. run' = d
    BY <1>2
  <2> HIDE DEF d
  <2> QED BY <2>1, <2>2
<1> QED BY <1>1, <1>3 DEF Same

(* A step of run r that leaves the letters, the links and the lead of the thread alone. *)
LEMMA TogetherQuiet ==
  ASSUME Typed, Together, NEW r \in Runs, \A q \in Runs \ {r} : Same(q),
         conv'.lead = conv.lead, stored' = stored, linking' = linking, torn' = torn,
         run[r].pc # "relabel", AimedBy(r)', RootedBy(r)',
         Astray(r)' => Unlabelled \subseteq torn
  PROVE  Together'
<1>1. \A q \in Runs \ {r} : /\ Awaits(q) => Awaits(q)'
                            /\ AimedBy(q)' /\ RootedBy(q)' /\ (Astray(q)' => Astray(q))
  BY DEF Same, Alike, Awaits, AimedBy, RootedBy, Astray, Together, Aimed, Rooted
<1>2. ~Awaits(r)
  BY DEF Awaits
<1>3. Awaited => Awaited'
  BY <1>1, <1>2 DEF Awaited
<1>4. Threaded'
  BY <1>3 DEF Threaded, Together
<1>5. Aimed' /\ Rooted'
  BY <1>1 DEF Aimed, Rooted, Together
<1>6. Unlabelled' = Unlabelled
  BY DEF Unlabelled
<1>7. Spared'
  BY <1>1, <1>6 DEF Spared, Overtaken, Together
<1> QED BY <1>4, <1>5, <1>7 DEF Together

(* The same, of a step that stores nothing and links nothing. *)
LEMMA TogetherAside ==
  ASSUME Typed, Together, NEW r \in Runs, \A q \in Runs \ {r} : run'[q] = run[q],
         conv'.lead = conv.lead, stored' = stored, linking' = linking, torn' = torn,
         run[r].pc # "relabel", run'[r].pc \notin Setting, run'[r].seen \in {None, run[r].seen}
  PROVE  Together'
<1>1. \A q \in Runs \ {r} : Same(q)
  BY DEF Same, Alike
<1>2. AimedBy(r)' /\ RootedBy(r)' /\ ~Astray(r)'
  BY DEF AimedBy, RootedBy, Astray, Setting, Together, Rooted
<1> QED BY <1>1, <1>2, TogetherQuiet

LEMMA AgainRests == \A r : Again(r).pc = "pick" /\ Again(r).seen = None
BY DEF Again, Rest

LEMMA TogetherReads ==
  ASSUME Typed, Together, NEW r \in Runs,
         StartClaimed(r) \/ StartByHand(r) \/ FetchInbox(r) \/ EndRun(r) \/ Pick(r) \/ Load(r) \/ Count(r)
  PROVE  Together'
<1>run. run \in [Runs -> RunProgress]
  BY RunFacts
<1>1. UNCHANGED <<conv, stored, linking, torn>> /\ run[r].pc # "relabel"
  BY DEF StartClaimed, StartByHand, FetchInbox, EndRun, Pick, Load, Count, store, replyHistory
<1>2. /\ \A q \in Runs \ {r} : run'[q] = run[q]
      /\ run'[r].pc \notin Setting /\ run'[r].seen \in {None, run[r].seen}
  <2>0. Rest \in RunProgress /\ Rest.pc = "idle" /\ Rest.seen = None
    BY RestType DEF Rest
  <2>1. CASE StartClaimed(r) \/ StartByHand(r) \/ EndRun(r)
    <3>1. CASE StartClaimed(r)
      BY <1>run, <2>0, <3>1 DEF StartClaimed, Setting, RunProgress
    <3>2. CASE StartByHand(r)
      BY <1>run, <2>0, <3>2 DEF StartByHand, Setting, RunProgress
    <3>3. CASE EndRun(r)
      BY <1>run, <2>0, <3>3 DEF EndRun, Setting
    <3> QED BY <2>1, <3>1, <3>2, <3>3
  <2>2. CASE FetchInbox(r)
    BY <1>run, <2>2 DEF FetchInbox, RunProgress, Setting
  <2>3. CASE Pick(r)
    <3>1. PICK m \in run[r].page :
            \/ run' = [run EXCEPT ![r].page = @ \ {m}]
            \/ run' = [run EXCEPT ![r].page = @ \ {m}, ![r].m = m, ![r].pc = "match"]
      BY <2>3 DEF Pick
    <3>2. run[r].pc = "pick"
      BY <2>3 DEF Pick
    <3> QED BY <1>run, <3>1, <3>2 DEF RunProgress, Setting
  <2>4. CASE Load(r) \/ Count(r)
    BY <1>run, <2>4 DEF Load, Count, RunProgress, Setting
  <2> QED BY <2>1, <2>2, <2>3, <2>4
<1> QED BY <1>1, <1>2, TogetherAside

(* Save and Notify, and a step that throws: nothing is stored under another lead. *)
LEMMA TogetherEnds ==
  ASSUME Typed, Together, NEW r \in Runs, Save(r) \/ Notify(r) \/ (Throws(r) /\ run[r].pc # "relabel")
  PROVE  Together'
<1>run. run \in [Runs -> RunProgress]
  BY RunFacts
<1>1. UNCHANGED <<conv, stored, linking, torn>> /\ run[r].pc # "relabel"
  BY DEF Save, Notify, Throws, store
<1>2. CASE Notify(r) \/ Throws(r)
  <2>1. /\ \A q \in Runs \ {r} : run'[q] = run[q]
        /\ run'[r] = Again(r)
    BY <1>run, <1>2 DEF Notify, Throws
  <2> QED BY <1>1, <2>1, AgainRests, TogetherAside DEF Setting
<1>3. CASE Save(r)
  <2> DEFINE w == [run[r] EXCEPT !.pc = "notify"]
  <2>1. w \in RunProgress /\ w.pc = "notify" /\ w.seen = run[r].seen
    BY <1>run DEF RunProgress
  <2>3. run' = Disturb([run EXCEPT ![r] = w], r, run[r].seen)
    BY <1>run, <1>3 DEF Save
  <2> HIDE DEF w
  <2>4. run'[r] = w /\ \A q \in Runs \ {r} : Same(q)
    BY <2>1, <2>3, OneDisturbs
  <2>5. AimedBy(r)' /\ RootedBy(r)' /\ ~Astray(r)'
    BY <1>1, <2>1, <2>4 DEF AimedBy, RootedBy, Astray, Setting, Together, Rooted
  <2> QED BY <1>1, <2>4, <2>5, TogetherQuiet
<1> QED BY <1>2, <1>3

(* Match, Find and Upsert: the run takes note of the lead the thread has. *)
LEMMA TogetherLooks ==
  ASSUME Typed, Together, NEW r \in Runs, Match(r) \/ Find(r) \/ Upsert(r)
  PROVE  Together'
<1>run. run \in [Runs -> RunProgress]
  BY RunFacts
<1>1. conv'.lead = conv.lead /\ UNCHANGED <<stored, linking, torn>> /\ run[r].pc # "relabel"
  BY RunFacts DEF Match, Find, Upsert, store, replyHistory, Typed, ReplyTypes
<1>2. \A q \in Runs \ {r} : run'[q] = run[q]
  BY <1>run DEF Match, Find, Upsert
<1>3. \/ run'[r].pc \notin Setting /\ run'[r].seen = run[r].seen
      \/ run'[r].pc \in {"attach", "create"} /\ run'[r].seen = conv.lead
  <2>1. CASE Match(r)
    BY <1>run, <2>1 DEF Match, RunProgress, Setting
  <2>2. CASE Find(r)
    BY <1>run, <2>2 DEF Find, RunProgress, Setting
  <2>3. CASE Upsert(r)
    BY <1>run, <2>3 DEF Upsert, RunProgress, Setting
  <2> QED BY <2>1, <2>2, <2>3
<1>4. CASE run'[r].pc \notin Setting /\ run'[r].seen = run[r].seen
  BY <1>1, <1>2, <1>4, TogetherAside
<1>5. CASE run'[r].pc \in {"attach", "create"} /\ run'[r].seen = conv.lead
  <2>1. AimedBy(r)' /\ RootedBy(r)' /\ ~Astray(r)'
    BY <1>1, <1>5 DEF AimedBy, RootedBy, Astray
  <2>2. \A q \in Runs \ {r} : Same(q)
    BY <1>2 DEF Same, Alike
  <2> QED BY <1>1, <2>1, <2>2, TogetherQuiet
<1> QED BY <1>3, <1>4, <1>5

(* Run r, or nobody, sets the lead of the thread to l: what it passes over is excused. *)
LEMMA TogetherSets ==
  ASSUME Typed, Together, NEW r \in Runs \cup {None}, NEW l \in Leads,
         conv'.lead = l, stored' = stored, torn' = torn \cup Torn(r, l),
         \A q \in Runs \ {r} : run'[q] = run[q],
         \/ /\ r \in Runs /\ linking' = linking
            /\ run'[r].pc = "relabel" /\ run'[r].lead = l /\ run'[r].seen = l
            /\ run[r].pc # "relabel"
         \/ r = None /\ linking = None /\ linking' = l
  PROVE  Together'
<1>0. None \notin Leads \cup Runs
  BY ReplyAssumption
<1>1. Awaited'
  BY <1>0 DEF Awaited, Awaits
<1>2. Unlabelled' = Unlabelled
  BY DEF Unlabelled
<1>3. \A m \in Letters \ torn' : stored[m].there => stored[m].lead \in {None, l}
  BY DEF Torn
<1>4. Threaded'
  BY <1>0, <1>1, <1>3 DEF Threaded
<1>5. ASSUME NEW q \in Runs \ {r} PROVE AimedBy(q)' /\ RootedBy(q)'
  <2>1. run[q].pc \in Setting /\ run[q].seen # l => run[q].m \in torn'
    BY DEF Torn, Setting
  <2> QED BY <1>0, <2>1 DEF AimedBy, RootedBy, Together, Rooted
<1>6. Aimed' /\ Rooted'
  <2>1. r \in Runs => AimedBy(r)' /\ RootedBy(r)'
    BY <1>0 DEF AimedBy, RootedBy
  <2> QED BY <1>0, <1>5, <2>1 DEF Aimed, Rooted
<1>7. Spared'
  <2> SUFFICES ASSUME Overtaken', NEW m \in Unlabelled PROVE m \in torn'
    BY <1>2 DEF Spared
  <2>1. CASE LinkedAside(r)
    BY <2>1 DEF Torn
  <2>2. CASE ~LinkedAside(r)
    <3>1. /\ linking = None
          /\ \A q \in Runs \ {r} : run[q].pc # "relabel"
      BY <2>2 DEF LinkedAside
    <3>2. PICK q \in Runs \ {r} : Astray(q)'
      BY <1>0, <3>1 DEF Overtaken, Astray
    <3>3. run[q].pc = "attach" /\ run[q].seen = run[q].lead
      BY <3>1, <3>2 DEF Astray
    <3>4. run[q].lead \in Leads
      BY <3>3 DEF Typed, Phases
    <3>5. conv.lead # None
      BY <1>0, <3>3, <3>4 DEF Together, Rooted, RootedBy
    <3>6. ~Awaited
      BY <1>0, <3>1, <3>5 DEF Awaited, Awaits
    <3>7. m \in Letters /\ stored[m].there /\ stored[m].lead = None
      BY DEF Unlabelled
    <3> QED BY <3>5, <3>6, <3>7 DEF Together, Threaded
  <2> QED BY <2>1, <2>2
<1> QED BY <1>4, <1>6, <1>7 DEF Together

(* attachLead, of a run: its first write. *)
LEMMA TogetherAttach ==
  ASSUME Typed, Together, NEW r \in Runs, Attach(r)
  PROVE  Together'
<1> DEFINE l == run[r].lead
<1>run. run \in [Runs -> RunProgress]
  BY RunFacts
<1>1. run[r].pc = "attach" /\ l \in Leads /\ UNCHANGED <<stored, linking>>
  BY DEF Attach, Typed, Phases
<1>2. /\ \A q \in Runs \ {r} : run'[q] = run[q]
      /\ run'[r].seen = l /\ run'[r].lead = l /\ run'[r].pc = "relabel" /\ run'[r].m = run[r].m
  BY <1>run DEF Attach, RunProgress
<1>3. CASE run[r].seen = l
  <2>1. conv' = conv /\ torn' = torn
    BY <1>3 DEF Attach
  <2>2. AimedBy(r)' /\ RootedBy(r)'
    BY <1>1, <1>2, <1>3, <2>1 DEF AimedBy, RootedBy, Setting, Together, Aimed, Rooted
  <2>3. Astray(r)' => Unlabelled \subseteq torn
    BY <1>1, <1>2, <1>3, <2>1 DEF Astray, Together, Spared, Overtaken
  <2>4. \A q \in Runs \ {r} : Same(q)
    BY <1>2 DEF Same, Alike
  <2> QED BY <1>1, <2>1, <2>2, <2>3, <2>4, TogetherQuiet
<1>4. CASE run[r].seen # l
  <2>1. conv'.lead = l /\ torn' = torn \cup Torn(r, l)
    BY <1>4, RunFacts DEF Attach, Typed, ReplyTypes
  <2> HIDE DEF l
  <2> QED BY <1>1, <1>2, <2>1, TogetherSets
<1> QED BY <1>3, <1>4

(* attachLead, of a user: its first write. *)
LEMMA TogetherLink ==
  ASSUME Typed, Together, NEW l \in Leads, Link(l)
  PROVE  Together'
<1>0. None \notin Leads \cup Runs
  BY ReplyAssumption
<1>1. linking = None /\ linking' = l /\ conv'.lead = l /\ UNCHANGED <<stored, run>>
  BY DEF Link, Typed, ReplyTypes
<1>2. CASE conv.lead # l
  <2>1. torn' = torn \cup Torn(None, l)
    BY <1>2 DEF Link
  <2> QED BY <1>0, <1>1, <2>1, TogetherSets
<1>3. CASE conv.lead = l
  <2>1. torn' = torn
    BY <1>3 DEF Link
  <2>2. Threaded' /\ Awaited'
    BY <1>0, <1>1, <1>3, <2>1 DEF Together, Threaded, Awaited
  <2>3. Aimed' /\ Rooted'
    BY <1>0, <1>1, <1>3, <2>1 DEF Together, Aimed, AimedBy, Rooted, RootedBy
  <2>4. Spared'
    <3>1. Overtaken' => Overtaken
      BY <1>0, <1>1, <1>3 DEF Overtaken, Astray
    <3>2. Unlabelled' = Unlabelled
      BY <1>1 DEF Unlabelled
    <3> QED BY <2>1, <3>1, <3>2 DEF Spared, Together
  <2> QED BY <2>2, <2>3, <2>4 DEF Together
<1> QED BY <1>2, <1>3

(* attachLead, its second write, of run r or of a user. *)
LEMMA TogetherRelabels ==
  ASSUME Typed, Together, NEW l \in Leads, Relabel(l), conv' = conv, torn' = torn,
         NEW r \in Runs \cup {None}, \A q \in Runs \ {r} : Same(q),
         r \in Runs => AimedBy(r)' /\ RootedBy(r)',
         linking' = linking \/ linking' = None,
         l # conv.lead => Unlabelled \subseteq torn
  PROVE  Together'
<1>0. None \notin Leads
  BY ReplyAssumption
<1>1. \A m \in Letters : stored'[m] = IF m \in Unlabelled THEN [stored[m] EXCEPT !.lead = l] ELSE stored[m]
  BY DEF Relabel
<1>2. \A m \in Letters : /\ stored'[m].there = stored[m].there
                         /\ stored'[m].lead = IF m \in Unlabelled THEN l ELSE stored[m].lead
  BY RunFacts, <1>1
<1>3. Unlabelled' = {}
  BY <1>0, <1>2 DEF Unlabelled
<1>4. Spared'
  BY <1>3 DEF Spared
<1>5. \A m \in Letters \ torn : stored'[m].there => stored'[m].lead = conv.lead
  BY <1>2 DEF Together, Threaded, Unlabelled
<1>6. Threaded'
  BY <1>5 DEF Threaded
<1>7. \A q \in Runs \ {r} : AimedBy(q)' /\ RootedBy(q)'
  BY DEF Same, Alike, AimedBy, RootedBy, Together, Aimed, Rooted
<1>8. Aimed' /\ Rooted'
  BY <1>7 DEF Aimed, Rooted, Together
<1> QED BY <1>4, <1>6, <1>8 DEF Together

LEMMA TogetherRelabel ==
  ASSUME Typed, Together, NEW r \in Runs, RelabelByRun(r)
  PROVE  Together'
<1> DEFINE w == [run[r] EXCEPT !.pc = "create"]
<1>run. run \in [Runs -> RunProgress]
  BY RunFacts
<1>1. /\ run[r].pc = "relabel" /\ run[r].lead \in Leads /\ Relabel(run[r].lead)
      /\ UNCHANGED <<conv, torn, linking>>
  BY DEF RelabelByRun, Typed, Phases
<1>2. w \in RunProgress /\ w.seen = run[r].seen /\ w.m = run[r].m /\ w.pc = "create"
  BY <1>run DEF RunProgress
<1>3. run' = [run EXCEPT ![r] = w] \/ run' = Disturb([run EXCEPT ![r] = w], r, run[r].lead)
  BY <1>run DEF RelabelByRun
<1> HIDE DEF w
<1>4. run'[r] = w /\ \A q \in Runs \ {r} : Same(q)
  BY <1>2, <1>3, OneMoves, OneDisturbs
<1>5. AimedBy(r)' /\ RootedBy(r)'
  BY <1>1, <1>2, <1>4 DEF AimedBy, RootedBy, Setting, Together, Aimed, Rooted
<1>6. run[r].lead # conv.lead => Unlabelled \subseteq torn
  BY <1>1 DEF Together, Spared, Overtaken, Astray
<1> QED BY <1>1, <1>4, <1>5, <1>6, TogetherRelabels

LEMMA TogetherLinkRelabels ==
  ASSUME Typed, Together, LinkRelabels
  PROVE  Together'
<1>1. linking \in Leads /\ linking # None /\ Relabel(linking) /\ UNCHANGED <<conv, torn>> /\ linking' = None
  BY RunFacts DEF LinkRelabels
<1>2. \A q \in Runs : Same(q)
  <2>1. CASE run' = run
    BY <2>1 DEF Same, Alike
  <2>2. CASE run' = Disturb(run, None, linking)
    BY <2>2, RunFacts, DisturbFacts DEF Same
  <2> QED BY <2>1, <2>2 DEF LinkRelabels
<1>3. linking # conv.lead => Unlabelled \subseteq torn
  BY <1>1 DEF Together, Spared, Overtaken
<1>4. None \notin Runs
  BY ReplyAssumption
<1> QED BY <1>1, <1>2, <1>3, <1>4, TogetherRelabels

(* Create: a letter is stored under the lead its run took note of. *)
LEMMA TogetherCreate ==
  ASSUME Typed, Together, NEW r \in Runs, Create(r)
  PROVE  Together'
<1> DEFINE m == run[r].m
           w == [run[r] EXCEPT !.pc = IF Applies(r) THEN "load" ELSE "notify"]
<1>run. run \in [Runs -> RunProgress]
  BY RunFacts
<1>1. run[r].pc = "create" /\ UNCHANGED <<conv, linking, torn>> /\ m \in Letters
  BY DEF Create, replyHistory, Typed, Phases, Matching
<1>2. CASE stored[m].there
  <2>1. stored' = stored /\ run'[r] = Again(r) /\ \A q \in Runs \ {r} : run'[q] = run[q]
    BY <1>run, <1>2 DEF Create
  <2> QED BY <1>1, <2>1, AgainRests, TogetherAside DEF Setting
<1>3. CASE ~stored[m].there
  <2>1. w \in RunProgress /\ w.pc \in {"load", "notify"} /\ w.seen = run[r].seen
    BY <1>run DEF RunProgress
  <2>2. stored' = [stored EXCEPT ![m] = [there |-> TRUE, lead |-> run[r].seen]]
    BY <1>3 DEF Create
  <2>3. run' = Disturb([run EXCEPT ![r] = w], r, run[r].seen)
    BY <1>run, <1>3 DEF Create
  <2> HIDE DEF w, m
  <2>4. run'[r] = w /\ \A q \in Runs \ {r} : Same(q)
    BY <2>1, <2>3, OneDisturbs
  <2>5. /\ \A q \in Runs : AimedBy(q)' /\ RootedBy(q)' /\ (Astray(q)' => Astray(q))
        /\ \A q \in Runs : Awaits(q) => Awaits(q)'
    BY <1>1, <2>1, <2>4 DEF Same, Alike, AimedBy, RootedBy, Astray, Awaits, Setting, Together, Aimed, Rooted
  <2>6. Awaited => Awaited'
    BY <1>1, <2>5 DEF Awaited
  <2>7. /\ stored'[m].there /\ stored'[m].lead = run[r].seen
        /\ \A n \in Letters \ {m} : stored'[n] = stored[n]
    BY <1>1, <2>2, RunFacts
  <2>8. m \notin torn => run[r].seen = conv.lead
    BY <1>1 DEF Together, Aimed, AimedBy, Setting, m
  <2>9. Threaded'
    BY <1>1, <2>6, <2>7, <2>8 DEF Threaded, Together
  <2>10. ASSUME Overtaken, run[r].seen = None PROVE m \in torn
    <3>1. conv.lead # None
      <4>1. ASSUME NEW q \in Runs, Astray(q) PROVE run[q].seen # None
        BY <4>1, RunFacts DEF Astray, RootedBy, Rooted, Together, Typed, Phases
      <4> QED BY <2>10, <4>1 DEF Overtaken, Together, Rooted, RootedBy
    <3> QED BY <2>8, <2>10, <3>1
  <2>11. Spared'
    <3> SUFFICES ASSUME Overtaken', NEW n \in Unlabelled' PROVE n \in torn
      BY <1>1 DEF Spared
    <3>1. Overtaken
      BY <1>1, <2>5 DEF Overtaken
    <3>2. n \in Letters /\ stored'[n].there /\ stored'[n].lead = None
      BY DEF Unlabelled
    <3>3. CASE n = m
      BY <2>7, <2>10, <3>1, <3>2, <3>3
    <3>4. CASE n # m
      BY <2>7, <3>1, <3>2, <3>4 DEF Unlabelled, Together, Spared
    <3> QED BY <3>3, <3>4
  <2>12. Aimed' /\ Rooted'
    BY <1>1, <2>5 DEF Aimed, Rooted, Together
  <2> QED BY <2>9, <2>11, <2>12 DEF Together
<1> QED BY <1>2, <1>3

(* A link breaks off, with run r, with a user's request or with the process. *)
LEMMA TogetherBreaks ==
  ASSUME Typed, Together, conv' = conv, stored' = stored,
         torn' = torn \cup Unlabelled, linking' \in {linking, None},
         \A q \in Runs : run'[q] = run[q] \/ (run'[q].pc \notin Setting /\ run'[q].seen = None)
  PROVE  Together'
<1>1. Unlabelled' \subseteq torn'
  BY DEF Unlabelled
<1>2. \A m \in Letters \ torn' : stored[m].there => stored[m].lead = conv.lead
  BY DEF Together, Threaded, Unlabelled
<1>3. \A q \in Runs : AimedBy(q)' /\ RootedBy(q)'
  BY DEF AimedBy, RootedBy, Setting, Together, Aimed, Rooted
<1> QED BY <1>1, <1>2, <1>3 DEF Together, Threaded, Aimed, Spared, Rooted

LEMMA TogetherFails ==
  ASSUME Typed, Together, LinkFails \/ (\E r \in Runs : Throws(r) /\ run[r].pc = "relabel")
  PROVE  Together'
<1>run. run \in [Runs -> RunProgress]
  BY RunFacts
<1>1. UNCHANGED <<conv, stored>> /\ torn' = torn \cup Unlabelled /\ linking' \in {linking, None}
  BY DEF LinkFails, Throws, store
<1>2. \A q \in Runs : run'[q] = run[q] \/ (run'[q].pc \notin Setting /\ run'[q].seen = None)
  <2>1. CASE LinkFails
    BY <2>1 DEF LinkFails
  <2>2. ASSUME NEW r \in Runs, Throws(r)
        PROVE  run'[r] = Again(r) /\ \A q \in Runs \ {r} : run'[q] = run[q]
    BY <1>run, <2>2 DEF Throws
  <2> QED BY <2>1, <2>2, AgainRests DEF Setting
<1> QED BY <1>1, <1>2, TogetherBreaks

LEMMA TogetherCrash ==
  ASSUME Typed, Together, RunCrash
  PROVE  Together'
<1>0. None \notin Leads
  BY ReplyAssumption
<1>1. UNCHANGED <<conv, stored>> /\ linking' = None
  BY DEF RunCrash, store
<1>2. \A q \in Runs : run'[q].pc = "idle" /\ run'[q].seen = None
  BY DEF RunCrash, Rest
<1>3. CASE torn' = torn \cup Unlabelled
  BY <1>1, <1>2, <1>3, TogetherBreaks DEF Setting
<1>4. CASE linking = None /\ (\A r \in Runs : run[r].pc # "relabel") /\ torn' = torn
  <2>1. Threaded'
    BY <1>1, <1>4 DEF Together, Threaded, Awaited, Awaits
  <2>2. Aimed' /\ Rooted' /\ Spared'
    BY <1>1, <1>2 DEF Aimed, AimedBy, Rooted, RootedBy, Spared, Overtaken, Astray, Setting
  <2> QED BY <2>1, <2>2 DEF Together
<1> QED BY <1>3, <1>4 DEF RunCrash

(* Steps that touch neither the thread, nor a link, nor a run. *)
LEMMA TogetherAround ==
  ASSUME Typed, Together, UNCHANGED <<conv, stored, run, linking, torn>>
  PROVE  Together'
<1>1. UNCHANGED <<Unlabelled, Awaited, Overtaken>>
  BY DEF Unlabelled, Awaited, Awaits, Overtaken, Astray
<1> QED BY <1>1 DEF Together, Threaded, Aimed, AimedBy, Spared, Rooted, RootedBy

LEMMA TogetherInit == ReplyInit => Together
<1> SUFFICES ASSUME ReplyInit PROVE Together
  OBVIOUS
<1>1. /\ conv.lead = None /\ linking = None /\ \A m \in Letters : ~stored[m].there
      /\ \A r \in Runs : run[r].pc = "idle" /\ run[r].seen = None
  BY DEF ReplyInit, Rest
<1> QED BY <1>1 DEF Together, Threaded, Aimed, AimedBy, Spared, Overtaken, Astray, Rooted, RootedBy, Setting

LEMMA TogetherStep ==
  ASSUME Typed, Together, [ReplyNext]_replyVars
  PROVE  Together'
<1>1. CASE UNCHANGED replyVars
  BY <1>1, TogetherAround DEF replyVars, store, replyHistory
<1>2. ASSUME NEW m \in Letters, Arrive(m) PROVE Together'
  BY <1>2, TogetherAround DEF Arrive, store, replyHistory
<1>3. ASSUME NEW r \in Runs, RunStep(r) PROVE Together'
  <2>1. CASE Throws(r) /\ run[r].pc = "relabel"
    BY <2>1, TogetherFails
  <2> QED BY <1>3, <2>1, TogetherReads, TogetherLooks, TogetherAttach, TogetherRelabel,
             TogetherCreate, TogetherEnds DEF RunStep
<1>4. ASSUME NEW l \in Leads, Link(l) PROVE Together'
  BY <1>4, TogetherLink
<1>5. ASSUME NEW l \in Leads, NEW stage, SetStage(l, stage) PROVE Together'
  BY <1>5, TogetherAround DEF SetStage, store
<1>6. CASE ClaimAges
  BY <1>6, TogetherAround DEF ClaimAges, store, replyHistory
<1> QED BY <1>1, <1>2, <1>3, <1>4, <1>5, <1>6, TogetherLinkRelabels, TogetherFails, TogetherCrash
        DEF ReplyNext

(* attachLead: a letter is with the lead its thread is with, unless the thread was linked
   while the letter was at work or another link was, was taken away from another lead, or
   the link broke off halfway. *)
THEOREM LinkedTogetherHolds == ReplySpec => []LinkedTogether
<1>1. Typed /\ Together => LinkedTogether
  <2> SUFFICES ASSUME Typed, Together, linking = None, \A r \in Runs : run[r].pc # "relabel",
                      NEW m \in Letters \ torn, stored[m].there
               PROVE  stored[m].lead = conv.lead
    BY DEF LinkedTogether
  <2>1. conv.lead # None => ~Awaited
    BY DEF Awaited, Awaits
  <2> QED BY <2>1 DEF Together, Threaded
<1>2. Typed /\ Together /\ [ReplyNext]_replyVars => (Typed /\ Together)'
  BY TypedStep, TogetherStep
<1> QED BY <1>1, <1>2, TypedInit, TogetherInit, PTL DEF ReplySpec
================================================================================
