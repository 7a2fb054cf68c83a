------------------------------- MODULE FolderSync -------------------------------
(****************************************************************************)
(* One folder of a connected mailbox, brought in step with the provider.    *)
(* A sync walks the provider's changes page by page from a token, writes    *)
(* each message and deletion to the store, and stores the token it came to, *)
(* all under a lock that is given up for lost after a while.                *)
(*                                                                          *)
(*   src/src/modules/provider/services/syncEngine.js                 a sync  *)
(*   src/src/modules/provider/repositories/syncState.repository.js   lock    *)
(*   src/src/modules/provider/providers/microsoft/*                  pages   *)
(****************************************************************************)
EXTENDS Naturals, FiniteSets

CONSTANTS
  Msgs,        \* the messages of the folder
  Syncs,       \* syncs the process may have under way
  NoToken,     \* no delta token
  PageSize,    \* messages in a page of the provider
  MaxPages,    \* MAX_PAGES_PER_RUN
  MaxChanges,  \* bound on the changes at the provider
  MaxMishaps   \* bound on crashes, failures, locks lost under a sync, disconnections and
               \* tokens that expire, all told

ASSUME FolderAssumption ==
  /\ IsFiniteSet(Msgs)
  /\ {PageSize, MaxPages} \subseteq Nat \ {0}
  /\ {MaxChanges, MaxMishaps} \subseteq Nat

VARIABLES
  seq,       \* how many changes the folder has seen at the provider
  remote,    \* each message there: its last change (0: none yet), and whether that removed it
  era,       \* tokens of an earlier era are refused as expired
  mail,      \* each message in the store: version (0: not there), and whether it was deleted
  token,     \* SyncState.lastDeltaToken
  full,      \* SyncState.fullResyncRequired
  lock,      \* SyncState.lockedAt: free, held, or held for longer than the TTL
  sync,      \* each sync
  mishaps,   \* how much of the bound is used
  \* History, read by properties only:
  lost,      \* syncs whose lock went stale or was released under them
  shared,    \* syncs that had the folder together with another one for that reason
  spoilt,    \* messages last written by such a sync
  kept,      \* messages of which a remote version was refused in favour of the local one
  forgotten  \* messages already removed when a walk from the beginning started

provider == <<seq, remote, era>>
state    == <<token, full, lock>>
locking  == <<lost, shared>>
folderHistory  == <<locking, spoilt, kept, forgotten>>
folderVars == <<provider, mail, state, sync, mishaps, folderHistory>>

NoSync == [pc |-> "idle", from |-> NoToken, next |-> NoToken, page |-> {}, more |-> FALSE, pages |-> 0]

NoMail == [ver |-> 0, gone |-> FALSE]

FolderInit ==
  /\ seq = 0 /\ era = 0
  /\ remote = [m \in Msgs |-> [at |-> 0, gone |-> FALSE]]
  /\ mail = [m \in Msgs |-> NoMail]
  /\ token = NoToken /\ full = FALSE /\ lock = "free"
  /\ sync = [s \in Syncs |-> NoSync]
  /\ mishaps = 0
  /\ lost = {} /\ shared = {} /\ spoilt = {} /\ kept = {} /\ forgotten = {}

\* The bound on what goes wrong.
Mishap == mishaps < MaxMishaps /\ mishaps' = mishaps + 1

\* Syncs that took the lock, and have not given it back.
Active == {s \in Syncs : sync[s].pc \notin {"idle", "lock", "resync", "again"}}

-------------------------------------------------------------------------------
(* The provider.                                                             *)

\* A message arrives or changes, or is removed for good.
Change(m, gone) ==
  /\ seq < MaxChanges
  /\ ~remote[m].gone /\ (gone => remote[m].at > 0)
  /\ seq' = seq + 1
  /\ remote' = [remote EXCEPT ![m] = [at |-> seq + 1, gone |-> gone]]
  /\ UNCHANGED <<era, mail, state, sync, mishaps, folderHistory>>

\* The tokens given out so far become worthless.
TokensExpire ==
  /\ Mishap
  /\ era' = era + 1
  /\ UNCHANGED <<seq, remote, mail, state, sync, folderHistory>>

There == {m \in Msgs : remote[m].at > 0 /\ ~remote[m].gone}

\* A token names the changes a walk covers, and the messages it has yet to list.
Token(at, rest) == [at |-> at, rest |-> rest, era |-> era]

\* What is still to be listed for the token a request carries.
ToList(t) ==
  CASE t = NoToken -> There
    [] t # NoToken /\ t.rest # {} -> t.rest
    [] OTHER -> {m \in Msgs : remote[m].at > t.at}

\* The changes the walk covers: those up to its first page.
Covers(t) == IF t # NoToken /\ t.rest # {} THEN t.at ELSE seq

-------------------------------------------------------------------------------
(* A sync of the folder.                                                     *)

\* ensureState: the token is read before the lock is asked for.
Begin(s, mode) ==
  /\ sync[s].pc = "idle"
  /\ sync' = [sync EXCEPT ![s] =
       [NoSync EXCEPT !.pc = "lock", !.from = IF mode = "incremental" /\ ~full THEN token ELSE NoToken]]
  /\ UNCHANGED <<provider, mail, state, mishaps, folderHistory>>

\* Mutant: whoever holds it.
Anyway == TRUE

\* The lock can be taken: nobody has it, or has had it for too long.
Free == lock \in {"free", "stale"}

\* acquireLock, or the folder is already syncing.
Acquire(s) ==
  /\ sync[s].pc = "lock"
  /\ IF Free
     THEN /\ lock' = "held"
          /\ sync' = [sync EXCEPT ![s].pc = "fetch"]
          /\ shared' = IF lost = {} THEN shared ELSE shared \cup Active \cup {s}
     ELSE /\ sync' = [sync EXCEPT ![s] = NoSync]
          /\ UNCHANGED <<lock, shared>>
  /\ UNCHANGED <<provider, mail, token, full, mishaps, lost, spoilt, kept, forgotten>>

\* The sync with the page in hand, and the token that comes after it.
Fetched(s, page) ==
  LET t == sync[s].from IN
  [sync[s] EXCEPT !.pc = "persist", !.pages = @ + 1,
                  !.page = {[m |-> m, ver |-> remote[m].at, gone |-> remote[m].gone] : m \in page},
                  !.next = Token(Covers(t), ToList(t) \ page), !.more = (ToList(t) # page)]

\* provider[method]: a page...
Fetch(s) ==
  LET t == sync[s].from
      list == ToList(t)
  IN
  /\ sync[s].pc = "fetch"
  /\ t # NoToken => t.era = era
  /\ \E page \in SUBSET list :
       /\ Cardinality(page) = IF Cardinality(list) < PageSize THEN Cardinality(list) ELSE PageSize
       /\ sync' = [sync EXCEPT ![s] = Fetched(s, page)]
  /\ forgotten' = IF t # NoToken THEN forgotten
                  ELSE forgotten \cup {m \in Msgs : remote[m].gone /\ mail[m].ver > 0}
  /\ UNCHANGED <<provider, mail, state, mishaps, locking, spoilt, kept>>

\* ...or the token has expired.
Expired(s) ==
  /\ sync[s].pc = "fetch"
  /\ sync[s].from # NoToken /\ sync[s].from.era # era
  /\ sync' = [sync EXCEPT ![s].pc = "expired"]
  /\ UNCHANGED <<provider, mail, state, mishaps, folderHistory>>

\* resolveConflict: the local version stays if the mail was written to since the last sync.
\* Every sync writes updatedAt after it took lastSyncedAt, in the same millisecond or in a
\* later one: so a mail may count as edited whether or not anything but a sync wrote to it.
LocalWins(p) == IF mail[p.m].ver \in {0, p.ver} THEN {FALSE} ELSE BOOLEAN

\* History: s writes to the messages M.
Mark(s, M) == spoilt' = IF s \in shared THEN spoilt \cup M ELSE spoilt \ M

\* persistMessage.
Persist(s) ==
  /\ sync[s].pc = "persist"
  /\ \E p \in sync[s].page : \E wins \in LocalWins(p) :
       /\ ~p.gone
       /\ mail' = [mail EXCEPT ![p.m].ver = IF wins THEN @ ELSE p.ver]
       /\ kept' = IF wins THEN kept \cup {p.m} ELSE kept \ {p.m}
       /\ Mark(s, {p.m})
       /\ sync' = [sync EXCEPT ![s].page = @ \ {p}]
  /\ UNCHANGED <<provider, state, mishaps, locking, forgotten>>

\* Mutant: only those of the last page.
RemovedLast(s) == {p.m : p \in {q \in sync[s].page : ~sync[s].more}}

\* The removals of the page.
Removed(s) == {p.m : p \in sync[s].page}

\* Mutant: one page more.
GoesOnOnce(s) == sync[s].more /\ sync[s].pages <= MaxPages

\* Is another page read?
GoesOn(s) == sync[s].more /\ sync[s].pages < MaxPages

\* applyDeletions, once the messages are written; then the next page, or the end.
EndPage(s) ==
  /\ sync[s].pc = "persist"
  /\ \A p \in sync[s].page : p.gone
  /\ mail' = [m \in Msgs |->
                IF m \in Removed(s) /\ mail[m].ver > 0 /\ ~mail[m].gone
                THEN [mail[m] EXCEPT !.gone = TRUE] ELSE mail[m]]
  /\ sync' = [sync EXCEPT ![s] =
       [@ EXCEPT !.page = {}, !.from = sync[s].next,
                 !.pc = IF GoesOn(s) THEN "fetch" ELSE "release"]]
  /\ Mark(s, {p.m : p \in sync[s].page})
  /\ UNCHANGED <<provider, state, mishaps, locking, kept, forgotten>>

\* Mutant: the walk is taken to be finished.
TokenFinished(s) == [sync[s].next EXCEPT !.rest = {}]

\* The token a sync came to; one that stopped at MAX_PAGES_PER_RUN is in the middle of a walk.
NewToken(s) == sync[s].next

\* releaseLock, whoever holds the lock by now.
Unlock(s) ==
  /\ lock' = "free"
  /\ lost' = Active \ {s}
  /\ shared' = shared \ {s}

\* A sync that succeeded; if the count of its messages cannot be stored, it has failed.
Release(s) ==
  /\ sync[s].pc = "release"
  /\ Unlock(s) /\ token' = NewToken(s) /\ full' = FALSE
  /\ \/ sync' = [sync EXCEPT ![s] = NoSync] /\ UNCHANGED mishaps
     \/ sync' = [sync EXCEPT ![s].pc = "again"] /\ Mishap
  /\ UNCHANGED <<provider, mail, spoilt, kept, forgotten>>

\* An expired token: released with success, which clears fullResyncRequired...
ReleaseExpired(s) ==
  /\ sync[s].pc = "expired"
  /\ Unlock(s) /\ token' = NoToken /\ full' = FALSE
  /\ sync' = [sync EXCEPT ![s].pc = "resync"]
  /\ UNCHANGED <<provider, mail, mishaps, spoilt, kept, forgotten>>

\* ...and then requireFullResync.
RequireResync(s) ==
  /\ sync[s].pc = "resync"
  /\ token' = NoToken /\ full' = TRUE
  /\ sync' = [sync EXCEPT ![s] = NoSync]
  /\ UNCHANGED <<provider, mail, lock, mishaps, folderHistory>>

\* The provider or the database fails, or the folder takes too long...
Fails(s) ==
  /\ sync[s].pc \in {"fetch", "persist"}
  /\ Mishap
  /\ sync' = [sync EXCEPT ![s].pc = "failed"]
  /\ UNCHANGED <<provider, mail, state, folderHistory>>

\* ...and the lock is released, by one that succeeded again, the token left alone.
ReleaseFailed(s) ==
  /\ sync[s].pc \in {"failed", "again"}
  /\ Unlock(s)
  /\ sync' = [sync EXCEPT ![s] = NoSync]
  /\ UNCHANGED <<provider, mail, token, full, mishaps, spoilt, kept, forgotten>>

-------------------------------------------------------------------------------
(* What goes on around it.                                                   *)

\* SYNC_LOCK_TTL_MS have passed, since a holder that died or under one that lives.
LockAges ==
  /\ lock = "held"
  /\ IF Active = {} THEN UNCHANGED mishaps ELSE Mishap
  /\ lock' = "stale"
  /\ lost' = Active
  /\ UNCHANGED <<provider, mail, token, full, sync, shared, spoilt, kept, forgotten>>

\* disconnect: releaseAllLocks.
Disconnect ==
  /\ lock # "free"
  /\ Mishap
  /\ lock' = "free"
  /\ lost' = Active
  /\ UNCHANGED <<provider, mail, token, full, sync, shared, spoilt, kept, forgotten>>

\* The process dies; the lock stays.
SyncCrash ==
  /\ \E s \in Syncs : sync[s].pc # "idle"
  /\ Mishap
  /\ sync' = [s \in Syncs |-> NoSync]
  /\ lost' = {} /\ shared' = {}
  /\ UNCHANGED <<provider, mail, state, spoilt, kept, forgotten>>

SyncStep(s) ==
  \/ \E mode \in {"incremental", "full"} : Begin(s, mode)
  \/ Acquire(s) \/ Fetch(s) \/ Expired(s) \/ Persist(s) \/ EndPage(s)
  \/ Release(s) \/ ReleaseExpired(s) \/ RequireResync(s) \/ Fails(s) \/ ReleaseFailed(s)

FolderNext ==
  \/ \E m \in Msgs, gone \in BOOLEAN : Change(m, gone)
  \/ TokensExpire
  \/ \E s \in Syncs : SyncStep(s)
  \/ LockAges \/ Disconnect \/ SyncCrash

FolderSpec == FolderInit /\ [][FolderNext]_folderVars
-------------------------------------------------------------------------------
(* Properties.                                                               *)

Tokens == [at : Nat, rest : SUBSET Msgs, era : Nat]

SyncProgress ==
  [pc : {"idle", "lock", "fetch", "persist", "release", "expired", "resync", "failed", "again"},
   from : Tokens \cup {NoToken}, next : Tokens \cup {NoToken},
   page : SUBSET [m : Msgs, ver : Nat, gone : BOOLEAN], more : BOOLEAN, pages : 0 .. MaxPages]

\* Every variable holds what the code may put there.
FolderTypes ==
  /\ seq \in Nat /\ era \in Nat
  /\ remote \in [Msgs -> [at : Nat, gone : BOOLEAN]]
  /\ mail \in [Msgs -> [ver : Nat, gone : BOOLEAN]]
  /\ token \in Tokens \cup {NoToken} /\ full \in BOOLEAN
  /\ lock \in {"free", "held", "stale"}
  /\ sync \in [Syncs -> SyncProgress]
  /\ mishaps \in Nat
  /\ lost \subseteq Syncs /\ shared \subseteq Syncs
  /\ spoilt \subseteq Msgs /\ kept \subseteq Msgs /\ forgotten \subseteq Msgs

\* The changes the stored token is past: nothing will report them again.
Passed == {m \in Msgs : token # NoToken /\ 0 < remote[m].at /\ remote[m].at <= token.at /\ m \notin token.rest}

\* The stored token has passed no change that is missing from the store, whatever failed or
\* expired on the way, and however many syncs it took, unless the local version was
\* preferred, or the message was last written by a sync that had the folder together with
\* another one because a lock was lost.
TokenSound ==
  \A m \in Passed \ (kept \cup spoilt) : ~remote[m].gone => mail[m].ver = remote[m].at

\* A removal the stored token has passed has reached the store, unless a walk from the
\* beginning, which lists no removals, began after it, or the message was last written by
\* a sync that shared the folder.
RemovalsArrive ==
  \A m \in Passed \ (forgotten \cup spoilt) :
    remote[m].gone => mail[m].ver = 0 \/ mail[m].gone

\* The token promises nothing the store does not have, arrivals and removals alike.
FolderSound == TokenSound /\ RemovalsArrive
=============================================================================
