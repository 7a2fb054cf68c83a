------------------------------ MODULE ContactSync ------------------------------
(****************************************************************************)
(* Contacts kept in step with an Outlook address book.  A run of the sync, a *)
(* walk, sends what was edited here and takes what changed there since a     *)
(* delta token, the bookmark.  Walks are requests and take no lock; people   *)
(* edit on both sides meanwhile.                                             *)
(*                                                                          *)
(*   src/src/modules/contacts/services/contactSync.service.js      the walk  *)
(*   src/src/modules/contacts/repositories/contact.repository.js   edits     *)
(*                                                                          *)
(* What a contact says is a number, standing for its fields: every edit, on  *)
(* either side, says something new or leaves them blank.  A page holds the   *)
(* whole answer, and every answer brings a bookmark of its own.              *)
(****************************************************************************)
EXTENDS Naturals, FiniteSets

CONSTANTS
  People,      \* who may have a contact, on either side; each has an address of its own
  Walks,       \* walks that may be under way at the same time
  Edits,       \* edits that may be under way at the same time
  NoBookmark,  \* no delta token; also no person
  MaxSaid,     \* bound on edits on both sides, the two there are at first among them
  MaxJolts     \* bound on failures, crashes, expired tokens, deletions and walks that start
               \* beside another, all told

ASSUME ContactAssumption ==
  /\ NoBookmark \notin People \cup Nat
  /\ MaxSaid \in Nat \ {0, 1} /\ MaxJolts \in Nat

VARIABLES
  here,      \* each Contact document
  there,     \* each contact at Outlook; its changeKey is the time it was last written
  clock,     \* the time at Outlook
  bookmark,  \* SyncState.lastDeltaToken: the time up to which changes were taken
  walk,      \* each walk
  edit,      \* each edit under way
  said,      \* how many things were said
  jolts,     \* how much of the bound is used
  \* History, read by properties only:
  reached,   \* what Outlook has ever been told or told us, of each person
  adrift,    \* contacts that say synced after an edit nobody sends, or after two writers met
  unlisted   \* contacts whose removal no walk has listed

contactVars == <<here, there, clock, bookmark, walk, edit, said, jolts, reached, adrift, unlisted>>

Blank == 0  \* a field with nothing in it

NoContact == [status |-> "none", source |-> "crm", linked |-> FALSE, says |-> Blank, key |-> 0,
              touched |-> TRUE, removed |-> FALSE, deleted |-> FALSE]
ByHandContact == [NoContact EXCEPT !.status = "local", !.says = 1]
Nobody == [says |-> Blank, key |-> 0, gone |-> FALSE]

NoWalk == [pc |-> "idle", bookmark |-> NoBookmark, pending |-> {}, list |-> {}, next |-> 0,
           p |-> NoBookmark, copy |-> NoContact, key |-> 0, alone |-> TRUE]
NoEdit == [p |-> NoBookmark, copy |-> NoContact]

ContactInit ==
  /\ here \in [People -> {NoContact, ByHandContact}]
  /\ there \in [People -> {Nobody, [Nobody EXCEPT !.says = 2, !.key = 1]}]
  /\ clock = 1 /\ bookmark = NoBookmark
  /\ walk = [s \in Walks |-> NoWalk] /\ edit = [x \in Edits |-> NoEdit]
  /\ said = 2 /\ jolts = 0
  /\ reached = [p \in People |-> {there[p].says}]
  /\ adrift = {} /\ unlisted = {}

\* The bound on what disturbs the contacts.
Disturbs == jolts < MaxJolts /\ jolts' = jolts + 1

\* Something is said: what was never said before, or nothing any more.
Says == said < MaxSaid /\ said' = said + 1
Sayings == {said + 1, Blank}

\* updatedAt later than localModifiedAt: always after a write that leaves localModifiedAt alone,
\* and by chance after one that sets it, since updatedAt is set after it.
Stamps == BOOLEAN

-------------------------------------------------------------------------------
(* People, on both sides.                                                    *)

\* At Outlook somebody is added or changed.
WritesThere(p) ==
  /\ ~there[p].gone /\ Says
  /\ \E v \in Sayings :
       /\ there' = [there EXCEPT ![p].says = v, ![p].key = clock + 1]
       /\ reached' = [reached EXCEPT ![p] = @ \cup {v}]
  /\ clock' = clock + 1
  /\ UNCHANGED <<here, bookmark, walk, edit, jolts, adrift, unlisted>>

RemovesThere(p) ==
  /\ there[p].key > 0 /\ ~there[p].gone /\ Disturbs
  /\ there' = [there EXCEPT ![p].gone = TRUE, ![p].key = clock + 1]
  /\ clock' = clock + 1
  /\ UNCHANGED <<here, bookmark, walk, edit, said, reached, adrift, unlisted>>

\* PUT /contacts/:id: the contact is loaded...
EditLoads(x, p) ==
  /\ edit[x].p = NoBookmark /\ said < MaxSaid
  /\ here[p].status # "none" /\ ~here[p].deleted
  /\ edit' = [edit EXCEPT ![x] = [p |-> p, copy |-> here[p]]]
  /\ UNCHANGED <<here, there, clock, bookmark, walk, said, jolts, reached, adrift, unlisted>>

\* Mutant: the edit is not owed to Outlook.
OwesNothing(copy) == FALSE

\* A contact that came from Outlook owes it the edit.
Owes(copy) == copy.source = "outlook" /\ copy.status = "synced"

\* ...and saved, the fields that changed only.  No other contact owes Outlook an edit, nor one
\* whose status was another when it was loaded.
EditSaves(x) ==
  LET p == edit[x].p
      status == IF Owes(edit[x].copy) THEN "pending" ELSE here[p].status
  IN
  /\ p # NoBookmark /\ Says
  /\ \E v \in Sayings \ {edit[x].copy.says} :
       here' = [here EXCEPT ![p].says = v, ![p].status = status, ![p].touched = TRUE]
  /\ edit' = [edit EXCEPT ![x] = NoEdit]
  /\ adrift' =
       IF status = "synced" /\ ~(edit[x].copy.source = "outlook" /\ edit[x].copy.status = "synced")
       THEN adrift \cup {p} ELSE adrift
  /\ UNCHANGED <<there, clock, bookmark, walk, jolts, reached, unlisted>>

\* A favourite, a tag, a deletion or a restoration.
Touches(p) ==
  /\ here[p].linked /\ Disturbs
  /\ \E deleted \in BOOLEAN : here' = [here EXCEPT ![p].touched = TRUE, ![p].deleted = deleted]
  /\ UNCHANGED <<there, clock, bookmark, walk, edit, said, reached, adrift, unlisted>>

-------------------------------------------------------------------------------
(* A walk: the edits of here are sent.                                        *)

Beside(s) == {q \in Walks \ {s} : walk[q].pc # "idle"}

\* POST /contacts/sync, with whatever token is stored; a full one reads everything.
WalkStarts(s, full) ==
  /\ walk[s].pc = "idle"
  /\ IF Beside(s) = {} THEN UNCHANGED jolts ELSE Disturbs
  /\ walk' = [q \in Walks |->
       IF q = s THEN [NoWalk EXCEPT !.pc = "pending", !.alone = (Beside(s) = {}),
                                    !.bookmark = IF full THEN NoBookmark ELSE bookmark]
       ELSE [walk[q] EXCEPT !.alone = @ /\ q \notin Beside(s)]]
  /\ UNCHANGED <<here, there, clock, bookmark, edit, said, reached, adrift, unlisted>>

\* The walk is done with a contact.
DoneWith(s, pc) == [walk[s] EXCEPT !.pc = pc, !.p = NoBookmark, !.copy = NoContact, !.key = 0]

\* pushPendingChanges: all are loaded, and sent one by one.
LoadsPending(s) ==
  /\ walk[s].pc = "pending"
  /\ walk' = [walk EXCEPT ![s].pc = "push", ![s].pending =
       {<<p, here[p].says>> : p \in {q \in People :
          here[q].status = "pending" /\ here[q].linked /\ ~here[q].deleted}}]
  /\ UNCHANGED <<here, there, clock, bookmark, edit, said, jolts, reached, adrift, unlisted>>

\* What a push makes of what Outlook says: some fields, the phones among them, are left out of
\* it when they are blank, and Outlook keeps what it has.
Leaves(v, there_v) == IF v = Blank THEN {Blank, there_v} ELSE {v}

\* The contact is written at Outlook, as it was loaded and whatever it says there by now.
Pushes(s, d) ==
  LET p == d[1]
      then(pc, key, v) == walk' = [walk EXCEPT ![s] = [@ EXCEPT
        !.pc = pc, !.p = p, !.key = key, !.copy.says = v, !.pending = walk[s].pending \ {d}]]
  IN
  /\ walk[s].pc = "push" /\ d \in walk[s].pending
  /\ \/ \E v \in Leaves(d[2], there[p].says) :
          /\ ~there[p].gone
          /\ there' = [there EXCEPT ![p].says = v, ![p].key = clock + 1]
          /\ clock' = clock + 1
          /\ reached' = [reached EXCEPT ![p] = @ \cup {v}]
          /\ \/ then("pushed", clock + 1, v) /\ UNCHANGED jolts
             \/ then("refused", 0, v) /\ Disturbs
     \/ /\ IF there[p].gone THEN UNCHANGED jolts ELSE Disturbs
        /\ then("refused", 0, d[2])
        /\ UNCHANGED <<there, clock, reached>>
  /\ UNCHANGED <<here, bookmark, edit, said, adrift, unlisted>>

\* Nobody wrote the contact since it was loaded to be sent, and Outlook was left with what it says.
Unmoved(s) == here[walk[s].p].says = walk[s].copy.says /\ here[walk[s].p].status = "pending"

\* The contact is marked synced, whatever it says by now; it is in step again if nobody wrote
\* it and no other walk is at work.
MarksPushed(s) ==
  LET p == walk[s].p IN
  /\ walk[s].pc = "pushed"
  /\ \E touched \in Stamps :
       here' = [here EXCEPT ![p].status = "synced", ![p].key = walk[s].key, ![p].touched = touched]
  /\ adrift' = IF ~Unmoved(s) THEN adrift \cup {p}
                ELSE IF walk[s].alone THEN adrift \ {p} ELSE adrift
  /\ walk' = [walk EXCEPT ![s] = DoneWith(s, "push")]
  /\ UNCHANGED <<there, clock, bookmark, edit, said, jolts, reached, unlisted>>

\* The catch of a push; after a mark that was not saved, the mark is saved with it.
MarksFailed(s) ==
  LET p == walk[s].p
      failed == [here[p] EXCEPT !.status = "failed", !.touched = TRUE]
  IN
  /\ \/ /\ walk[s].pc = "refused" /\ UNCHANGED <<jolts, adrift>>
        /\ here' = [here EXCEPT ![p] = failed]
     \/ /\ walk[s].pc = "pushed" /\ Disturbs
        /\ \E touched \in Stamps :
             here' = [here EXCEPT ![p] = [failed EXCEPT !.key = walk[s].key, !.touched = touched]]
        /\ adrift' = IF Unmoved(s) THEN adrift ELSE adrift \cup {p}
  /\ walk' = [walk EXCEPT ![s] = DoneWith(s, "push")]
  /\ UNCHANGED <<there, clock, bookmark, edit, said, reached, unlisted>>

-------------------------------------------------------------------------------
(* A walk: the changes of there are taken.                                    *)

\* The page: what changed since the bookmark, or all there is without one.
Fetches(s) ==
  LET all == walk[s].bookmark = NoBookmark
      list == {p \in People : /\ there[p].key > 0
                              /\ IF all THEN ~there[p].gone ELSE there[p].key > walk[s].bookmark}
  IN
  /\ walk[s].pc = "push" /\ walk[s].pending = {}
  /\ walk' = [walk EXCEPT ![s].pc = "take", ![s].next = clock, ![s].bookmark = NoBookmark,
               ![s].list =
                 {[p |-> p, says |-> there[p].says, key |-> there[p].key, gone |-> there[p].gone] :
                    p \in list}]
  /\ unlisted' = unlisted \cup {p \in People : all /\ there[p].gone /\ ~here[p].removed}
  /\ UNCHANGED <<here, there, clock, bookmark, edit, said, jolts, reached, adrift>>

\* 410 Gone: the next walk reads everything.
TokenExpired(s) ==
  /\ walk[s].pc = "push" /\ walk[s].pending = {} /\ walk[s].bookmark # NoBookmark /\ Disturbs
  /\ bookmark' = NoBookmark
  /\ walk' = [walk EXCEPT ![s] = NoWalk]
  /\ UNCHANGED <<here, there, clock, edit, said, reached, adrift, unlisted>>

Arrivals(s) == {e \in walk[s].list : ~e.gone}

\* persistContact loads the contact...
Loads(s, e) ==
  /\ walk[s].pc = "take" /\ e \in Arrivals(s)
  /\ walk' = [walk EXCEPT ![s].pc = "save", ![s].p = e.p, ![s].copy = here[e.p]]
  /\ UNCHANGED <<here, there, clock, bookmark, edit, said, jolts, reached, adrift, unlisted>>

\* Mutant: Outlook wins without a word.
NeverClashes(copy, e) == FALSE

\* Both sides changed, or so the times say: Outlook wins, and the contact says so, unless one of
\* them has nothing in the field.
Clashes(copy, e) == copy.touched /\ copy.says # e.says /\ Blank \notin {copy.says, e.says}

\* A save writes what differs from what was loaded, and leaves the rest as it is.
Kept(new, loaded, now) == IF new # loaded THEN new ELSE now

\* ...and saves it: as Outlook has it, or linked to the one there was, whose blanks are filled,
\* or new.
Taken(now, copy, e, touched) ==
  IF copy.linked THEN
    IF copy.key = e.key THEN [now EXCEPT !.touched = TRUE]
    ELSE [now EXCEPT !.says = Kept(e.says, copy.says, @),
            !.status = Kept(IF Clashes(copy, e) THEN "conflict" ELSE "synced", copy.status, @),
            !.removed = Kept(FALSE, copy.removed, @), !.key = e.key, !.touched = touched]
  ELSE IF copy.status # "none" THEN
    [now EXCEPT !.says = IF copy.says = Blank THEN Kept(e.says, Blank, @) ELSE @,
                !.status = "synced", !.linked = TRUE, !.key = e.key, !.touched = touched]
  ELSE IF now.linked THEN now
  ELSE [now EXCEPT !.status = "synced", !.source = "outlook", !.linked = TRUE, !.says = e.says,
                   !.key = e.key, !.touched = touched]

Saves(s, e) ==
  LET p == e.p
      copy == walk[s].copy
  IN
  /\ walk[s].pc = "save" /\ e \in Arrivals(s) /\ p = walk[s].p
  /\ \E touched \in Stamps : here' = [here EXCEPT ![p] = Taken(here[p], copy, e, touched)]
  /\ adrift' =
       IF here[p] # copy \/ ~walk[s].alone
          \/ (~copy.linked /\ copy.status # "none" /\ copy.says \notin {Blank, e.says})
       THEN adrift \cup {p}
       ELSE IF copy.linked /\ copy.key = e.key THEN adrift ELSE adrift \ {p}
  /\ walk' = [walk EXCEPT ![s] = [DoneWith(s, "take") EXCEPT !.list = @ \ {e}]]
  /\ UNCHANGED <<there, clock, bookmark, edit, said, jolts, reached, unlisted>>

RemovedThere(s) == {e.p : e \in walk[s].list}

\* applyRemoteDeletions, once the arrivals are in.
MarksRemoved(s) ==
  /\ walk[s].pc = "take" /\ Arrivals(s) = {}
  /\ here' = [p \in People |->
                IF p \in RemovedThere(s) /\ here[p].linked /\ ~here[p].removed
                THEN [here[p] EXCEPT !.removed = TRUE, !.status = "deleted_remote",
                                     !.touched = TRUE]
                ELSE here[p]]
  /\ walk' = [walk EXCEPT ![s].pc = "state", ![s].list = {}]
  /\ UNCHANGED <<there, clock, bookmark, edit, said, jolts, reached, adrift, unlisted>>

SavesToken(s) ==
  /\ walk[s].pc = "state"
  /\ bookmark' = walk[s].next
  /\ walk' = [walk EXCEPT ![s] = NoWalk]
  /\ UNCHANGED <<here, there, clock, edit, said, jolts, reached, adrift, unlisted>>

\* Any step throws: the bookmark stays where it was.
WalkThrows(s) ==
  /\ walk[s].pc # "idle" /\ Disturbs
  /\ walk' = [walk EXCEPT ![s] = NoWalk]
  /\ UNCHANGED <<here, there, clock, bookmark, edit, said, reached, adrift, unlisted>>

ContactCrash ==
  /\ \E s \in Walks : walk[s].pc # "idle"
  /\ Disturbs
  /\ walk' = [s \in Walks |-> NoWalk] /\ edit' = [x \in Edits |-> NoEdit]
  /\ UNCHANGED <<here, there, clock, bookmark, said, reached, adrift, unlisted>>

-------------------------------------------------------------------------------

WalkStep(s) ==
  \/ \E full \in BOOLEAN : WalkStarts(s, full)
  \/ LoadsPending(s) \/ \E d \in walk[s].pending : Pushes(s, d)
  \/ MarksPushed(s) \/ MarksFailed(s) \/ Fetches(s) \/ TokenExpired(s)
  \/ \E e \in walk[s].list : Loads(s, e) \/ Saves(s, e)
  \/ MarksRemoved(s) \/ SavesToken(s) \/ WalkThrows(s)

ContactNext ==
  \/ \E p \in People : WritesThere(p) \/ RemovesThere(p) \/ Touches(p)
  \/ \E x \in Edits : EditSaves(x) \/ \E p \in People : EditLoads(x, p)
  \/ \E s \in Walks : WalkStep(s)
  \/ ContactCrash

ContactSpec == ContactInit /\ [][ContactNext]_contactVars

-------------------------------------------------------------------------------
(* Properties.                                                               *)

\* The bookmark is past the last change of p at Outlook.
PassedBy(p) == bookmark # NoBookmark /\ 0 < there[p].key /\ there[p].key <= bookmark

Contact == [
  status: {"none", "local", "synced", "pending", "conflict", "failed", "deleted_remote"},
  source: {"crm", "outlook"}, linked: BOOLEAN, says: 0..MaxSaid, key: 0..clock,
  touched: BOOLEAN, removed: BOOLEAN, deleted: BOOLEAN]

\* Every variable holds what the code may put there.
ContactTypes ==
  /\ here \in [People -> Contact]
  /\ there \in [People -> [says: 0..MaxSaid, key: 0..clock, gone: BOOLEAN]]
  /\ bookmark \in {NoBookmark} \cup 0..clock
  /\ \A s \in Walks :
       /\ walk[s].pc \in {"idle", "pending", "push", "pushed", "refused", "take", "save", "state"}
       /\ walk[s].copy \in Contact /\ walk[s].next \in 0..clock
       /\ walk[s].list \subseteq [p: People, says: 0..MaxSaid, key: 0..clock, gone: BOOLEAN]
  /\ \A x \in Edits : edit[x].copy \in Contact
  /\ said \in 0..MaxSaid /\ jolts \in 0..MaxJolts

\* A contact marked synced says what Outlook says, unless Outlook has changed past the bookmark:
\* every walk, in whatever order it sends and takes, and whatever fails on its way.  Excused are
\* the contacts that the code lets drift (adrift).
InStep ==
  \A p \in People \ adrift :
    here[p].linked /\ here[p].status = "synced" /\ PassedBy(p) /\ ~there[p].gone =>
      here[p].says = there[p].says

\* What the bookmark has passed was taken: whoever is at Outlook has a contact here, and one who
\* was removed there is marked, but for a removal that a full walk, which lists no removals,
\* passed over, and one that two walks disagreed about.
Taking ==
  \A p \in People :
    PassedBy(p) =>
      IF there[p].gone THEN here[p].linked => here[p].removed \/ p \in unlisted \cup adrift
                       ELSE here[p].linked

\* No walk that fails, dies or meets another moves the bookmark past what it did not take.
ContactSound == InStep /\ Taking

\* What was said here and never reached Outlook gives way, at p, to what Outlook says, by nobody's
\* edit, and the contact does not say so.  Not counted are an edit between the load and the save
\* of a walk, and the contacts adrift.
Vanishes(p) ==
  /\ edit' = edit
  /\ here[p].linked /\ here[p].says \notin reached[p] /\ here'[p].says \in reached[p]
  /\ here'[p].status # "conflict"
  /\ p \notin adrift
  /\ ~\E s \in Walks : walk[s].pc = "save" /\ walk[s].p = p /\ walk[s].copy # here[p]

\* An edit that competes with one at Outlook never vanishes without the conflict marked, whatever
\* was sent, failed, or was touched before: but only where both have something in the field.
EditSeen ==
  [][\A p \in People : Vanishes(p) => Blank \in {here[p].says, here'[p].says}]_here

\* contactSync.service.js:144-146, "so the user can see it happened rather than wondering why an
\* edit vanished": no edit does, not one that filled a field or cleared it either.
EditNeverVanishes == [][\A p \in People : ~Vanishes(p)]_here
=============================================================================
