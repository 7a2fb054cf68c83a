------------------------------ MODULE OfflineSync ------------------------------
(****************************************************************************)
(* A client that works offline.  It keeps a copy of the leads, brings the   *)
(* copy up to date from a feed of changes, and sends the changes its user   *)
(* made meanwhile: each under a mutation id, so that it may be sent again,  *)
(* and with the version it was made against, so that it may be refused.     *)
(* Other users write to the same leads online, with neither.                *)
(*                                                                          *)
(*   src/src/modules/sync/services/sync.service.js           the feed        *)
(*   src/src/modules/sync/services/tombstone.service.js      deletions       *)
(*   src/src/middlewares/idempotency.js                      receipts        *)
(*   src/src/utils/optimisticConcurrency.js                  versions        *)
(*   src/src/modules/leads/controllers/lead.controller.js    the handlers    *)
(****************************************************************************)
EXTENDS Naturals, FiniteSets

CONSTANTS
  Ids,        \* the leads there are or may be: an _id is ordered
  Born,       \* the leads there are to begin with
  Mutations,  \* the changes the client makes offline
  Requests,   \* requests the server may be at work on at the same time
  None,       \* no lead, mutation, request or version
  Limit,      \* the page size of the feed
  MaxNow,     \* bound on the clock, in milliseconds
  MaxUpsets   \* bound on what the other users do, crashes, failures of the database and
              \* answers not waited for, all told

ASSUME OfflineAssumption ==
  /\ Ids \subseteq Nat \ {0} /\ IsFiniteSet(Ids)
  /\ Born \subseteq Ids
  /\ None \notin Ids \cup Mutations \cup Requests \cup Nat
  /\ Limit \in Nat \ {0}
  /\ {MaxNow, MaxUpsets} \subseteq Nat

VARIABLES
  now,       \* the clock
  row,       \* each Lead document: there or not, updatedAt, and which content it has
  tombs,     \* SyncTombstone documents
  receipts,  \* mutations with a MutationReceipt
  storing,   \* mutations whose receipt is on its way to the database
  req,       \* each request under way
  copy,      \* the client's copy of each lead: version 0 is none
  cursor,    \* the client's cursor; <<0, 0>> is no cursor
  pull,      \* the page of the feed under way
  mut,       \* each mutation of the client
  upsets,    \* how much of the bound is used
  \* History, read by properties only:
  lastRead,  \* when the feed last read its rows
  late,      \* leads last written with a stamp no later than that
  blurred,   \* leads written with a stamp no later than the version they had
  torn,      \* leads whose deletion overlapped a pull
  cut,       \* leads whose tombstone did not fit in a page
  unmarked,  \* leads whose tombstone could not be recorded
  applied,   \* how often each mutation took effect
  unsafe     \* mutations without the protection of a receipt

versions == <<lastRead, late, blurred>>
ghosts   == <<torn, cut, unmarked>>
effects  == <<applied, unsafe>>
client   == <<copy, cursor, pull>>
vars == <<now, row, tombs, receipts, storing, req, client, mut, upsets, versions, ghosts, effects>>

NoLead == [status |-> "unborn", at |-> 0, ver |-> 0]
NoCopy == [at |-> 0, ver |-> 0]
NoPull == [gotRows |-> FALSE, gotTombs |-> FALSE, rows |-> {}, tombs |-> {}, next |-> <<0, 0>>]
NoMutation == [kind |-> "edit", id |-> None, expected |-> 0, base |-> 0,
               state |-> "none", to |-> None]
Idle == [pc |-> "idle", kind |-> "edit", id |-> None, m |-> None, expected |-> None,
         stamp |-> 0, held |-> 0, kept |-> FALSE]

Init ==
  /\ now = 2
  /\ row = [i \in Ids |-> IF i \in Born THEN [status |-> "live", at |-> 1, ver |-> 1] ELSE NoLead]
  /\ tombs = {} /\ receipts = {} /\ storing = {}
  /\ req = [x \in Requests |-> Idle]
  /\ copy = [i \in Ids |-> NoCopy] /\ cursor = <<0, 0>> /\ pull = NoPull
  /\ mut = [m \in Mutations |-> NoMutation]
  /\ upsets = 0
  /\ lastRead = 0 /\ late = {} /\ blurred = {}
  /\ torn = {} /\ cut = {} /\ unmarked = {}
  /\ applied = [m \in Mutations |-> 0] /\ unsafe = {}

\* The bound on what disturbs the client.
Upset == upsets < MaxUpsets /\ upsets' = upsets + 1

\* new Date(): two writes may see the same millisecond.
Tick ==
  /\ now < MaxNow
  /\ now' = now + 1
  /\ UNCHANGED <<row, tombs, receipts, storing, req, client, mut, upsets, versions, ghosts, effects>>

-------------------------------------------------------------------------------
(* The feed: rows and tombstones are read side by side.                      *)

\* The order of the cursor.
Before(p, q) == p[1] < q[1] \/ (p[1] = q[1] /\ p[2] < q[2])

Pos(i) == <<row[i].at, i>>

Documents == {i \in Ids : row[i].status \in {"live", "soft"}}

\* Mutant: updatedAt alone.
AfterStamp(p) == {i \in Documents : p[1] < row[i].at}

\* afterPosition.
After(p) == {i \in Documents : Before(p, Pos(i))}

\* Mutant: the row read ahead is sent as well.
PageUncut(p) == {i \in After(p) : Cardinality({j \in After(p) : Before(Pos(j), Pos(i))}) <= Limit}

\* The first of them, in the order of the cursor.
Page(p) == {i \in After(p) : Cardinality({j \in After(p) : Before(Pos(j), Pos(i))}) < Limit}

\* readEntityChanges, and the nextCursor of the answer.
ReadRows ==
  /\ ~pull.gotRows
  /\ LET page == Page(cursor)
         read == [pull EXCEPT !.gotRows = TRUE,
                              !.rows = {[id |-> i, at |-> row[i].at, ver |-> row[i].ver] : i \in page}]
     IN \/ page = {} /\ pull' = [read EXCEPT !.next = cursor]
        \/ \E last \in page :
             /\ \A i \in page : ~Before(Pos(last), Pos(i))
             /\ pull' = [read EXCEPT !.next = Pos(last)]
  /\ lastRead' = now
  /\ torn' = torn \cup {req[x].id : x \in {y \in Requests : req[y].pc \in {"record", "delete"}}}
  /\ UNCHANGED <<now, row, tombs, receipts, storing, req, copy, cursor, mut, upsets, late, blurred,
                 cut, unmarked, effects>>

\* Mutant: $gt.
DueLater == {t \in tombs : cursor[1] < t.at}

\* Tombstones at or after the position.
Due == {t \in tombs : cursor[1] <= t.at}

\* readTombstones, in the order of deletedAt and _id.
ReadTombs ==
  /\ ~pull.gotTombs
  /\ LET page == {t \in Due : Cardinality({u \in Due : Before(<<u.at, u.n>>, <<t.at, t.n>>)}) < Limit}
     IN /\ pull' = [pull EXCEPT !.gotTombs = TRUE, !.tombs = {t.id : t \in page}]
        /\ cut' = cut \cup {t.id : t \in Due \ page}
  /\ torn' = torn \cup {req[x].id : x \in {y \in Requests : req[y].pc \in {"record", "delete"}}}
  /\ UNCHANGED <<now, row, tombs, receipts, storing, req, copy, cursor, mut, upsets, versions,
                 unmarked, effects>>

\* The client applies the answer: the records, then the deletions.
Apply ==
  /\ pull.gotRows /\ pull.gotTombs
  /\ copy' = [i \in Ids |->
                IF i \in pull.tombs THEN NoCopy
                ELSE IF \E r \in pull.rows : r.id = i
                     THEN LET r == CHOOSE r \in pull.rows : r.id = i IN [at |-> r.at, ver |-> r.ver]
                     ELSE copy[i]]
  /\ cursor' = pull.next
  /\ pull' = NoPull
  /\ UNCHANGED <<now, row, tombs, receipts, storing, req, mut, upsets, versions, ghosts, effects>>

\* The answer does not arrive.
PullLost ==
  /\ pull # NoPull
  /\ pull' = NoPull
  /\ UNCHANGED <<now, row, tombs, receipts, storing, req, copy, cursor, mut, upsets, versions,
                 ghosts, effects>>

-------------------------------------------------------------------------------
(* The client's mutations.                                                   *)

\* A change to the copy, to be sent later, with the version the copy has.
Queue(m) ==
  /\ mut[m].state = "none"
  /\ \/ \E i \in Ids, kind \in {"edit", "delete"} :
          /\ copy[i].ver > 0
          /\ mut' = [mut EXCEPT ![m] = [kind |-> kind, id |-> i, expected |-> copy[i].at,
                                        base |-> copy[i].ver, state |-> "queued", to |-> None]]
     \/ mut' = [mut EXCEPT ![m] = [NoMutation EXCEPT !.kind = "create", !.state = "queued"]]
  /\ UNCHANGED <<now, row, tombs, receipts, storing, req, client, upsets, versions, ghosts, effects>>

\* The mutation is at work, or its receipt is on its way.
InFlight(m) == m \in storing \/ \E x \in Requests : req[x].pc # "idle" /\ req[x].m = m

Send(x, m) ==
  /\ req[x].pc = "idle"
  /\ mut[m].state = "queued" /\ mut[m].to = None
  /\ mut' = [mut EXCEPT ![m].to = x]
  /\ req' = [req EXCEPT ![x] =
               [Idle EXCEPT !.pc = "lookup", !.kind = mut[m].kind, !.id = mut[m].id, !.m = m,
                            !.expected = IF mut[m].kind = "create" THEN None ELSE mut[m].expected]]
  /\ unsafe' = IF InFlight(m) THEN unsafe \cup {m} ELSE unsafe
  /\ UNCHANGED <<now, row, tombs, receipts, storing, client, upsets, versions, ghosts, applied>>

\* No answer in time: the client will send the mutation again.
GiveUp(m) ==
  /\ mut[m].to # None
  /\ Upset
  /\ mut' = [mut EXCEPT ![m].to = None]
  /\ UNCHANGED <<now, row, tombs, receipts, storing, req, client, versions, ghosts, effects>>

-------------------------------------------------------------------------------
(* A request.                                                                *)

\* The answer: the client hears it if it still waits for this request.
Tell(x, state) ==
  /\ req' = [req EXCEPT ![x] = Idle]
  /\ mut' = [m \in Mutations |->
               IF m = req[x].m /\ mut[m].to = x THEN [mut[m] EXCEPT !.state = state, !.to = None]
               ELSE mut[m]]

Goto(x, pc) == req' = [req EXCEPT ![x].pc = pc]

\* The next step is a write: its stamp is taken before it reaches the database.
Stamped(x, pc) == req' = [req EXCEPT ![x].pc = pc, ![x].stamp = now]

\* Where a request goes after the guard, and after the check of its version.
Handler(kind) == IF kind = "create" THEN "insert" ELSE "load"

Work(kind) == CASE kind = "edit" -> "write" [] kind = "soft" -> "write" [] OTHER -> "record"

\* Another user: no mutation id, no version.  The lead is loaded, and the write is next.
Online(x, kind, i) ==
  /\ req[x].pc = "idle"
  /\ Upset
  /\ req' = [req EXCEPT ![x] = [Idle EXCEPT !.pc = IF kind = "create" THEN "insert" ELSE Work(kind),
                                            !.kind = kind, !.id = i, !.stamp = now]]
  /\ IF kind = "create" THEN i = None ELSE i \in Ids /\ row[i].status = "live"
  /\ UNCHANGED <<now, row, tombs, receipts, storing, client, mut, versions, ghosts, effects>>

\* Mutant: a receipt is not looked for.
NeverKnown(m) == FALSE

\* Has the mutation a receipt?
Known(m) == m \in receipts

\* idempotencyGuard: replay the answer, or run the handler and keep its answer.
Lookup(x) ==
  /\ req[x].pc = "lookup"
  /\ IF Known(req[x].m) THEN Tell(x, "done")
     ELSE /\ req' = [req EXCEPT ![x].pc = Handler(req[x].kind), ![x].kept = TRUE, ![x].stamp = now]
          /\ UNCHANGED mut
  /\ UNCHANGED <<now, row, tombs, receipts, storing, client, upsets, versions, ghosts, effects>>

\* The receipts cannot be read: the handler runs all the same, and its answer is not kept.
LookupFails(x) ==
  /\ req[x].pc = "lookup"
  /\ Upset
  /\ Stamped(x, Handler(req[x].kind))
  /\ unsafe' = unsafe \cup {req[x].m}
  /\ UNCHANGED <<now, row, tombs, receipts, storing, client, mut, versions, ghosts, applied>>

\* loadLead.
Load(x) ==
  /\ req[x].pc = "load"
  /\ IF row[req[x].id].status # "live" THEN Tell(x, "refused")
     ELSE /\ Stamped(x, IF req[x].expected = None THEN Work(req[x].kind) ELSE "claim")
          /\ UNCHANGED mut
  /\ UNCHANGED <<now, row, tombs, receipts, storing, client, upsets, versions, ghosts, effects>>

\* A write of lead i stamped t reaches the database.
Commit(i, t) ==
  /\ late' = IF t <= lastRead THEN late \cup {i} ELSE late \ {i}
  /\ blurred' = IF t <= row[i].at THEN blurred \cup {i} ELSE blurred
  /\ UNCHANGED lastRead

\* Mutant: the claim does not move the version.
ClaimedKept(i, t) == row[i]

\* Mutant: any version will do.
MatchesAny(x) == TRUE

\* Is the lead at the version the client saw?
Matches(x) == row[req[x].id].status \in {"live", "soft"} /\ row[req[x].id].at = req[x].expected

\* The version moves, so that no second mutation made against it passes.
Claimed(i, t) == [row[i] EXCEPT !.at = t]

\* claimVersion.
Claim(x) ==
  /\ req[x].pc = "claim"
  /\ LET i == req[x].id IN
     \/ /\ Matches(x)
        /\ row' = [row EXCEPT ![i] = Claimed(i, req[x].stamp)]
        /\ Commit(i, req[x].stamp)
        /\ req' = [req EXCEPT ![x].pc = Work(req[x].kind), ![x].held = req[x].stamp, ![x].stamp = now]
        /\ UNCHANGED mut
     \/ /\ ~Matches(x)
        /\ Tell(x, "refused")
        /\ UNCHANGED <<row, versions>>
  /\ UNCHANGED <<now, tombs, receipts, storing, client, upsets, ghosts, effects>>

\* How often the mutation of x took effect, if it is one.
Count(x) == [m \in Mutations |-> IF m = req[x].m THEN applied[m] + 1 ELSE applied[m]]

\* Does the write find its lead?  A soft deletion passes over what is deleted already.
Finds(x) == row[req[x].id].status \in IF req[x].kind = "soft" THEN {"live"} ELSE {"live", "soft"}

\* lead.save of an edit, or the update of a soft deletion.
Write(x) ==
  /\ req[x].pc = "write"
  /\ LET i == req[x].id IN
     \/ /\ Finds(x)
        /\ row' = [row EXCEPT ![i] = [status |-> IF req[x].kind = "soft" THEN "soft" ELSE @.status,
                                      at |-> req[x].stamp, ver |-> @.ver + 1]]
        /\ Commit(i, req[x].stamp)
        /\ applied' = Count(x)
        /\ Goto(x, "after")
        /\ UNCHANGED mut
     \/ /\ ~Finds(x)
        /\ Tell(x, "queued")
        /\ UNCHANGED <<row, versions, applied>>
  /\ UNCHANGED <<now, tombs, receipts, storing, client, upsets, ghosts, unsafe>>

\* A pull is between its two reads.
Half == pull.gotRows # pull.gotTombs

Overlap(i) == torn' = IF Half THEN torn \cup {i} ELSE torn

\* remove, recordDeletions: the tombstone, which may be lost...
Record(x) ==
  /\ req[x].pc = "record"
  /\ \/ /\ tombs' = tombs \cup {[id |-> req[x].id, at |-> req[x].stamp, n |-> Cardinality(tombs) + 1]}
        /\ UNCHANGED <<upsets, unmarked>>
     \/ /\ Upset
        /\ unmarked' = unmarked \cup {req[x].id}
        /\ UNCHANGED tombs
  /\ Overlap(req[x].id)
  /\ Goto(x, "delete")
  /\ UNCHANGED <<now, row, receipts, storing, client, mut, versions, cut, effects>>

\* ...then the lead.
Delete(x) ==
  /\ req[x].pc = "delete"
  /\ row' = [row EXCEPT ![req[x].id].status = "gone"]
  /\ applied' = IF req[x].id \in Documents THEN Count(x) ELSE applied
  /\ Overlap(req[x].id)
  /\ Goto(x, "after")
  /\ UNCHANGED <<now, tombs, receipts, storing, client, mut, upsets, versions, cut, unmarked, unsafe>>

\* createLeadManually: Lead.create.
Insert(x) ==
  /\ req[x].pc = "insert"
  /\ \E i \in Ids :
       /\ row[i].status = "unborn"
       /\ row' = [row EXCEPT ![i] = [status |-> "live", at |-> req[x].stamp, ver |-> 1]]
       /\ Commit(i, req[x].stamp)
  /\ applied' = Count(x)
  /\ Goto(x, "after")
  /\ UNCHANGED <<now, tombs, receipts, storing, client, mut, upsets, ghosts, unsafe>>

\* Any of these steps throws, what follows the write included: roll-ups, the status of
\* the introduction.  The client will send the mutation again.
Throws(x) ==
  /\ req[x].pc \in {"load", "claim", "write", "delete", "insert", "after"}
  /\ Upset
  /\ Tell(x, "queued")
  /\ unsafe' = IF req[x].pc = "after" /\ req[x].m # None THEN unsafe \cup {req[x].m} ELSE unsafe
  /\ UNCHANGED <<now, row, tombs, receipts, storing, client, versions, ghosts, applied>>

\* A success is kept, if the receipts could be read.
Keeps(x) == req[x].kept

\* The handler is done; res.json sends the receipt its own way, and nobody waits for it.
Answer(x) ==
  /\ req[x].pc = "after"
  /\ storing' = IF Keeps(x) THEN storing \cup {req[x].m} ELSE storing
  /\ Tell(x, "done")
  /\ UNCHANGED <<now, row, tombs, receipts, client, upsets, versions, ghosts, effects>>

-------------------------------------------------------------------------------
(* Receipts, and the process.                                                *)

Store(m) ==
  /\ m \in storing
  /\ storing' = storing \ {m}
  /\ receipts' = receipts \cup {m}
  /\ UNCHANGED <<now, row, tombs, req, client, mut, upsets, versions, ghosts, effects>>

StoreFails(m) ==
  /\ m \in storing
  /\ Upset
  /\ storing' = storing \ {m}
  /\ unsafe' = unsafe \cup {m}
  /\ UNCHANGED <<now, row, tombs, receipts, req, client, mut, versions, ghosts, applied>>

\* The process dies, with what it was at.
Crash ==
  /\ storing # {} \/ \E x \in Requests : req[x].pc # "idle"
  /\ Upset
  /\ req' = [x \in Requests |-> Idle]
  /\ storing' = {}
  /\ mut' = [m \in Mutations |-> [mut[m] EXCEPT !.to = None]]
  /\ unsafe' = unsafe \cup storing
                 \cup ({req[x].m : x \in {y \in Requests : req[y].pc = "after"}} \ {None})
  /\ UNCHANGED <<now, row, tombs, receipts, client, versions, ghosts, applied>>

-------------------------------------------------------------------------------
FeedStep == ReadRows \/ ReadTombs \/ Apply \/ PullLost

ClientStep ==
  \E m \in Mutations : Queue(m) \/ GiveUp(m) \/ \E x \in Requests : Send(x, m)

Kinds == {"edit", "soft", "delete", "create"}

RequestStep(x) ==
  \/ \E kind \in Kinds, i \in Ids \cup {None} : Online(x, kind, i)
  \/ Lookup(x) \/ LookupFails(x) \/ Load(x) \/ Claim(x) \/ Write(x)
  \/ Record(x) \/ Delete(x) \/ Insert(x) \/ Throws(x) \/ Answer(x)

ReceiptStep == \E m \in Mutations : Store(m) \/ StoreFails(m)

Next ==
  \/ Tick \/ FeedStep \/ ClientStep
  \/ \E x \in Requests : RequestStep(x)
  \/ ReceiptStep \/ Crash

Spec == Init /\ [][Next]_vars
-------------------------------------------------------------------------------
(* Properties.                                                               *)

Lead == [status : {"unborn", "live", "soft", "gone"}, at : Nat, ver : Nat]
Tomb == [id : Ids, at : Nat, n : Nat]
Entry == [id : Ids, at : Nat, ver : Nat]

\* Every variable holds what the code may put there, and a page is no longer than its limit.
TypeOK ==
  /\ now \in Nat /\ lastRead \in Nat
  /\ row \in [Ids -> Lead]
  /\ tombs \subseteq Tomb
  /\ receipts \subseteq Mutations /\ storing \subseteq Mutations
  /\ req \in [Requests ->
       [pc : {"idle", "lookup", "load", "claim", "write", "record", "delete", "insert", "after"},
        kind : Kinds, id : Ids \cup {None}, m : Mutations \cup {None},
        expected : Nat \cup {None}, stamp : Nat, held : Nat, kept : BOOLEAN]]
  /\ copy \in [Ids -> [at : Nat, ver : Nat]]
  /\ cursor \in Nat \X Nat
  /\ pull \in [gotRows : BOOLEAN, gotTombs : BOOLEAN, rows : SUBSET Entry, tombs : SUBSET Ids,
               next : Nat \X Nat]
  /\ Cardinality(pull.rows) <= Limit
  /\ mut \in [Mutations ->
       [kind : Kinds, id : Ids \cup {None}, expected : Nat, base : Nat,
        state : {"none", "queued", "done", "refused"}, to : Requests \cup {None}]]
  /\ upsets \in Nat
  /\ late \subseteq Ids /\ blurred \subseteq Ids
  /\ torn \subseteq Ids /\ cut \subseteq Ids /\ unmarked \subseteq Ids
  /\ applied \in [Mutations -> Nat] /\ unsafe \subseteq Mutations

\* The cursor skips nothing: a lead it has passed is in the copy as it is in the database,
\* unless its write landed after a read of the feed with a stamp no later than that read,
\* or a tombstone took it away.
NothingSkipped ==
  \A i \in Documents \ late :
    ~Before(cursor, Pos(i)) =>
      copy[i].ver = row[i].ver \/ \E t \in tombs : t.id = i

\* A deletion arrives: the tombstone of a lead the copy still has is ahead of the cursor,
\* unless it was never recorded, did not fit in a page, or a pull and the deletion
\* overlapped.
DeletionsArrive ==
  \A i \in Ids \ (torn \cup cut \cup unmarked) :
    row[i].status = "gone" /\ copy[i].ver > 0 =>
      \E t \in tombs : t.id = i /\ cursor[1] <= t.at

\* The feed leaves nothing out: neither a change nor a deletion.
FeedComplete == NothingSkipped /\ DeletionsArrive

\* A change made offline lands on the content it was made against, unless another user
\* wrote between its claim and its save, or a version of the lead was no later than the
\* one before.
BaseKept ==
  [][\A x \in Requests :
       req[x].pc = "write" /\ req[x].m # None /\ req'[x].pc = "after" =>
         LET i == req[x].id IN
         \/ row[i].ver = mut[req[x].m].base
         \/ row[i].at # req[x].held
         \/ i \in blurred]_req

\* A mutation takes effect once, however often it is sent: a creation because of its
\* receipt, an edit or a deletion whatever becomes of the receipt.
AppliedOnce ==
  \A m \in Mutations : applied[m] > 1 =>
    IF mut[m].kind = "create" THEN m \in unsafe ELSE mut[m].id \in blurred

\* What the client is told is so: done was done, and what was refused was not, unless
\* the mutation was sent again without the protection of a receipt.
AnswersTrue ==
  \A m \in Mutations :
    /\ mut[m].state = "done" =>
         applied[m] > 0 \/ (mut[m].kind = "delete" /\ row[mut[m].id].status = "gone")
    /\ mut[m].state = "refused" /\ applied[m] > 0 => m \in unsafe

\* Of every mutation: it takes effect once, and the client is told what became of it.
MutationsSound == AppliedOnce /\ AnswersTrue
=============================================================================
