--------------------------- MODULE ContactSync_proofs ---------------------------
(****************************************************************************)
(* Contacts and Outlook: types; what the bookmark has passed; and the edits  *)
(* that give way to a change there.                                          *)
(****************************************************************************)
EXTENDS MCCampaignDrain, CampaignDrain_proofs

Statuses == {"none", "local", "synced", "pending", "conflict", "failed", "deleted_remote"}
Pcs == {"idle", "pending", "push", "pushed", "refused", "take", "save", "state"}

(* The documents and the walks, without the bounds on what they count. *)
Person == [status : Statuses, source : {"crm", "outlook"}, linked : BOOLEAN, says : Nat, key : Nat,
           touched : BOOLEAN, removed : BOOLEAN, deleted : BOOLEAN]
Remote == [says : Nat, key : Nat, gone : BOOLEAN]
Entry  == [p : People, says : Nat, key : Nat, gone : BOOLEAN]
Journey == [pc : Pcs, bookmark : {NoBookmark} \cup Nat, pending : SUBSET (People \X Nat),
            list : SUBSET Entry, next : Nat, p : {NoBookmark} \cup People, copy : Person,
            key : Nat, alone : BOOLEAN]
EditRecord == [p : {NoBookmark} \cup People, copy : Person]

Shapes ==
  /\ here \in [People -> Person] /\ there \in [People -> Remote]
  /\ clock \in Nat /\ bookmark \in {NoBookmark} \cup Nat
  /\ walk \in [Walks -> Journey] /\ edit \in [Edits -> EditRecord]
  /\ said \in 0 .. MaxSaid /\ jolts \in 0 .. MaxJolts
  /\ reached \in [People -> SUBSET Nat] /\ adrift \subseteq People /\ unlisted \subseteq People

(* What was said, and when, is in the past. *)
PersonPast(h) == h.says <= said /\ h.key <= clock
WalkPast(w) ==
  /\ w.next <= clock /\ w.key <= clock /\ PersonPast(w.copy)
  /\ w.bookmark # NoBookmark => w.bookmark <= clock
  /\ \A e \in w.list : e.says <= said /\ e.key <= w.next
  /\ \A d \in w.pending : d[2] <= said
Past ==
  /\ \A p \in People : /\ PersonPast(here[p]) /\ there[p].says <= said /\ there[p].key <= clock
                       /\ \A n \in reached[p] : n <= said
  /\ \A s \in Walks : WalkPast(walk[s])
  /\ \A x \in Edits : PersonPast(edit[x].copy)
  /\ bookmark # NoBookmark => bookmark <= clock

(* What a walk holds at each of its calls. *)
Before == {"pending", "push", "pushed", "refused"}
After  == {"take", "save", "state"}
WalkSane(w) ==
  /\ w.pc = "idle" => w = NoWalk
  /\ w.pc \in Before \cup {"state"} => w.list = {}
  /\ w.pc \in After => w.bookmark = NoBookmark
  /\ w.pc \in {"pushed", "refused", "save"} => w.p \in People

WellTyped == Shapes /\ Past /\ \A s \in Walks : WalkSane(walk[s])

LEMMA Constants ==
  /\ NoBookmark \notin People /\ NoBookmark \notin Nat
  /\ MaxSaid \in Nat /\ MaxSaid >= 2 /\ MaxJolts \in Nat
BY ContactAssumption DEF ContactAssumption

LEMMA NoWalkIs ==
  /\ NoWalk \in Journey /\ NoWalk.pc = "idle" /\ NoWalk.bookmark = NoBookmark /\ NoWalk.list = {}
  /\ NoWalk.pending = {} /\ NoWalk.next = 0 /\ NoWalk.key = 0 /\ NoWalk.alone = TRUE
  /\ NoWalk.copy.says = 0 /\ NoWalk.copy.key = 0
  /\ NoContact \in Person /\ NoContact.says = 0 /\ NoContact.key = 0
  /\ NoEdit \in EditRecord /\ NoEdit.copy = NoContact
BY DEF Blank, NoWalk, NoContact, NoEdit, Journey, Person, EditRecord, Pcs, Statuses

LEMMA NoWalkSane == WalkSane(NoWalk)
BY NoWalkIs DEF WalkSane, Before, After

LEMMA SayingsAre == ASSUME said \in Nat PROVE \A v \in Sayings : v \in Nat /\ v <= said + 1
BY DEF Sayings, Blank

(* One walk moves. *)
LEMMA WalkMoves ==
  ASSUME WellTyped, NEW s \in Walks, NEW w \in Journey, walk' = [walk EXCEPT ![s] = w]
  PROVE  /\ walk' \in [Walks -> Journey] /\ walk'[s] = w
         /\ \A q \in Walks \ {s} : walk'[q] = walk[q]
BY DEF WellTyped, Shapes

(* One contact is written. *)
LEMMA HereMoves ==
  ASSUME WellTyped, NEW p \in People, NEW h \in Person, here' = [here EXCEPT ![p] = h]
  PROVE  /\ here' \in [People -> Person] /\ here'[p] = h
         /\ \A q \in People \ {p} : here'[q] = here[q]
BY DEF WellTyped, Shapes

(* The bounds move on, if anything. *)
LEMMA PastGrows ==
  ASSUME Shapes, Shapes', said <= said', clock <= clock'
  PROVE  /\ \A h \in Person : PersonPast(h) => PersonPast(h)'
         /\ \A w \in Journey : WalkPast(w) => WalkPast(w)'
<1>1. said \in Nat /\ clock \in Nat /\ said' \in Nat /\ clock' \in Nat
  BY Constants DEF Shapes
<1>2. \A n \in Nat : (n <= said => n <= said') /\ (n <= clock => n <= clock')
  BY <1>1
<1>3. \A h \in Person : h.says \in Nat /\ h.key \in Nat
  BY DEF Person
<1>4. \A h \in Person : PersonPast(h) => PersonPast(h)'
  BY <1>2, <1>3 DEF PersonPast
<1>5. ASSUME NEW w \in Journey, WalkPast(w) PROVE WalkPast(w)'
  <2>1. /\ w.next \in Nat /\ w.key \in Nat /\ w.copy \in Person /\ w.bookmark \in {NoBookmark} \cup Nat
        /\ \A e \in w.list : e.says \in Nat /\ e.key \in Nat
        /\ \A d \in w.pending : d[2] \in Nat
    BY DEF Journey, Entry
  <2> QED BY <1>2, <1>4, <1>5, <2>1 DEF WalkPast
<1> QED BY <1>4, <1>5

-------------------------------------------------------------------------------
(* What each step of a walk does, field by field.                             *)

(* The other walks stay as they are. *)
Others(s) == walk' \in [Walks -> Journey] /\ \A q \in Walks \ {s} : walk'[q] = walk[q]

(* What a walk carries from its start. *)
Carries(s) == walk'[s].bookmark = walk[s].bookmark /\ walk'[s].alone = walk[s].alone

LEMMA LoadsPendingDoes ==
  ASSUME WellTyped, NEW s \in Walks, LoadsPending(s)
  PROVE  /\ Others(s) /\ Carries(s)
         /\ walk'[s].pc = "push" /\ walk'[s].list = {} /\ walk'[s].next = walk[s].next
         /\ walk'[s].copy = walk[s].copy /\ walk'[s].key = walk[s].key
         /\ \A d \in walk'[s].pending : d[2] <= said
<1> DEFINE P == {<<p, here[p].says>> : p \in {q \in People :
                    here[q].status = "pending" /\ here[q].linked /\ ~here[q].deleted}}
           w == [walk[s] EXCEPT !.pc = "push", !.pending = P]
<1>1. walk[s] \in Journey /\ here \in [People -> Person] /\ WalkSane(walk[s]) /\ walk[s].pc = "pending"
  BY DEF WellTyped, Shapes, LoadsPending
<1>2. P \in SUBSET (People \X Nat)
  BY <1>1 DEF Person
<1>3. \A d \in P : d[2] <= said
  BY DEF WellTyped, Past, PersonPast
<1>4. walk' = [walk EXCEPT ![s] = w]
  BY <1>1 DEF LoadsPending, WellTyped, Shapes
<1> HIDE DEF P
<1>5. /\ w \in Journey /\ w.pc = "push" /\ w.pending = P /\ w.list = walk[s].list
      /\ w.next = walk[s].next /\ w.copy = walk[s].copy /\ w.key = walk[s].key
      /\ w.bookmark = walk[s].bookmark /\ w.alone = walk[s].alone
  BY <1>1, <1>2 DEF Journey, Pcs
<1>6. walk[s].list = {}
  BY <1>1 DEF WalkSane, Before
<1> HIDE DEF w
<1>7. walk' \in [Walks -> Journey] /\ walk'[s] = w /\ \A q \in Walks \ {s} : walk'[q] = walk[q]
  BY <1>4, <1>5, WalkMoves
<1> QED BY <1>3, <1>5, <1>6, <1>7 DEF Others, Carries

LEMMA PushesDoes ==
  ASSUME WellTyped, NEW s \in Walks, NEW d \in walk[s].pending, Pushes(s, d)
  PROVE  LET v == walk'[s].copy.says IN
         /\ d[1] \in People /\ v \in Nat /\ v <= said /\ walk[s].pc = "push"
         /\ Others(s) /\ Carries(s)
         /\ walk'[s].pc \in {"pushed", "refused"} /\ walk'[s].list = {}
         /\ walk'[s].p = d[1] /\ walk'[s].copy = [walk[s].copy EXCEPT !.says = v]
         /\ walk'[s].pending = walk[s].pending \ {d} /\ walk'[s].next = walk[s].next
         /\ walk'[s].pc = "pushed" => clock' = clock + 1 /\ walk'[s].key = clock + 1
         /\ walk'[s].pc = "refused" => walk'[s].key = 0
         /\ \/ /\ ~there[d[1]].gone /\ clock' = clock + 1
               /\ there' = [there EXCEPT ![d[1]].says = v, ![d[1]].key = clock + 1]
               /\ reached' = [reached EXCEPT ![d[1]] = @ \cup {v}]
            \/ UNCHANGED <<there, clock, reached>>
<1> DEFINE w(pc, key, v) == [walk[s] EXCEPT !.pc = pc, !.p = d[1], !.key = key, !.copy.says = v,
                                            !.pending = walk[s].pending \ {d}]
<1>0. walk[s].pc = "push"
  BY DEF Pushes
<1>1. /\ walk[s] \in Journey /\ WalkSane(walk[s]) /\ WalkPast(walk[s]) /\ walk[s].pc = "push"
      /\ clock \in Nat /\ there \in [People -> Remote] /\ said \in Nat
      /\ \A p \in People : there[p].says <= said
  BY <1>0, Constants DEF WellTyped, Shapes, Past
<1>2. d \in People \X Nat /\ d[1] \in People /\ d[2] \in Nat /\ d[2] <= said
  BY <1>1 DEF Journey, WalkPast
<1>3. walk[s].list = {}
  BY <1>1 DEF WalkSane, Before
<1>4. there[d[1]].says \in Nat /\ there[d[1]].says <= said
  BY <1>1, <1>2 DEF Remote
<1>5. ASSUME NEW pc \in {"pushed", "refused"}, NEW key \in Nat, NEW v \in Nat,
             walk' = [walk EXCEPT ![s] = w(pc, key, v)]
      PROVE  /\ Others(s) /\ Carries(s)
             /\ walk'[s].pc = pc /\ walk'[s].key = key /\ walk'[s].list = {}
             /\ walk'[s].p = d[1] /\ walk'[s].copy = [walk[s].copy EXCEPT !.says = v]
             /\ walk'[s].copy.says = v
             /\ walk'[s].pending = walk[s].pending \ {d} /\ walk'[s].next = walk[s].next
  <2> DEFINE copy == [walk[s].copy EXCEPT !.says = v]
  <2>1. copy \in Person /\ copy.says = v
    BY <1>1 DEF Journey, Person
  <2>2. /\ w(pc, key, v) \in Journey /\ w(pc, key, v).pc = pc /\ w(pc, key, v).p = d[1]
        /\ w(pc, key, v).key = key /\ w(pc, key, v).copy = copy
        /\ w(pc, key, v).pending = walk[s].pending \ {d} /\ w(pc, key, v).next = walk[s].next
        /\ w(pc, key, v).bookmark = walk[s].bookmark /\ w(pc, key, v).alone = walk[s].alone
        /\ w(pc, key, v).list = walk[s].list
    BY <1>1, <1>2, <2>1 DEF Journey, Pcs
  <2> HIDE DEF w, copy
  <2>3. /\ walk' \in [Walks -> Journey] /\ walk'[s] = w(pc, key, v)
        /\ \A q \in Walks \ {s} : walk'[q] = walk[q]
    BY <1>5, <2>2, WalkMoves
  <2> QED BY <1>3, <2>1, <2>2, <2>3 DEF Others, Carries, copy
<1>6. ASSUME NEW v \in Leaves(d[2], there[d[1]].says),
             ~there[d[1]].gone, clock' = clock + 1,
             there' = [there EXCEPT ![d[1]].says = v, ![d[1]].key = clock + 1],
             reached' = [reached EXCEPT ![d[1]] = @ \cup {v}],
             \/ walk' = [walk EXCEPT ![s] = w("pushed", clock + 1, v)]
             \/ walk' = [walk EXCEPT ![s] = w("refused", 0, v)]
      PROVE  /\ v \in Nat /\ v <= said /\ Others(s) /\ Carries(s)
             /\ walk'[s].pc \in {"pushed", "refused"} /\ walk'[s].list = {}
             /\ walk'[s].p = d[1] /\ walk'[s].copy = [walk[s].copy EXCEPT !.says = v]
             /\ walk'[s].copy.says = v
             /\ walk'[s].pending = walk[s].pending \ {d} /\ walk'[s].next = walk[s].next
             /\ walk'[s].pc = "pushed" => clock' = clock + 1 /\ walk'[s].key = clock + 1
             /\ walk'[s].pc = "refused" => walk'[s].key = 0
  <2> HIDE DEF w
  <2>1. v \in Nat /\ v <= said
    BY <1>1, <1>2, <1>4 DEF Leaves, Blank
  <2>2. CASE walk' = [walk EXCEPT ![s] = w("pushed", clock + 1, v)]
    <3>1. clock + 1 \in Nat
      BY <1>1
    <3> QED BY <1>5, <1>6, <2>1, <2>2, <3>1
  <2>3. CASE walk' = [walk EXCEPT ![s] = w("refused", 0, v)]
    BY <1>5, <1>6, <2>1, <2>3
  <2> QED BY <1>6, <2>2, <2>3
<1>7. CASE walk' = [walk EXCEPT ![s] = w("refused", 0, d[2])] /\ UNCHANGED <<there, clock, reached>>
  <2> HIDE DEF w
  <2>1. /\ Others(s) /\ Carries(s)
        /\ walk'[s].pc = "refused" /\ walk'[s].key = 0 /\ walk'[s].list = {}
        /\ walk'[s].p = d[1] /\ walk'[s].copy = [walk[s].copy EXCEPT !.says = d[2]]
        /\ walk'[s].copy.says = d[2]
        /\ walk'[s].pending = walk[s].pending \ {d} /\ walk'[s].next = walk[s].next
    BY <1>2, <1>5, <1>7
  <2> QED BY <1>1, <1>2, <1>7, <2>1
<1>8. CASE \E v \in Leaves(d[2], there[d[1]].says) :
             /\ ~there[d[1]].gone /\ clock' = clock + 1
             /\ there' = [there EXCEPT ![d[1]].says = v, ![d[1]].key = clock + 1]
             /\ reached' = [reached EXCEPT ![d[1]] = @ \cup {v}]
             /\ \/ walk' = [walk EXCEPT ![s] = w("pushed", clock + 1, v)]
                \/ walk' = [walk EXCEPT ![s] = w("refused", 0, v)]
  <2> HIDE DEF w
  <2>1. PICK v \in Leaves(d[2], there[d[1]].says) :
          /\ ~there[d[1]].gone /\ clock' = clock + 1
          /\ there' = [there EXCEPT ![d[1]].says = v, ![d[1]].key = clock + 1]
          /\ reached' = [reached EXCEPT ![d[1]] = @ \cup {v}]
          /\ \/ walk' = [walk EXCEPT ![s] = w("pushed", clock + 1, v)]
             \/ walk' = [walk EXCEPT ![s] = w("refused", 0, v)]
    BY <1>8
  <2>2. /\ v \in Nat /\ v <= said /\ Others(s) /\ Carries(s)
        /\ walk'[s].pc \in {"pushed", "refused"} /\ walk'[s].list = {}
        /\ walk'[s].p = d[1] /\ walk'[s].copy = [walk[s].copy EXCEPT !.says = v]
        /\ walk'[s].copy.says = v
        /\ walk'[s].pending = walk[s].pending \ {d} /\ walk'[s].next = walk[s].next
        /\ walk'[s].pc = "pushed" => clock' = clock + 1 /\ walk'[s].key = clock + 1
        /\ walk'[s].pc = "refused" => walk'[s].key = 0
    BY <1>6, <2>1
  <2> QED BY <1>1, <1>2, <2>1, <2>2
<1> QED BY <1>7, <1>8 DEF Pushes

(* A walk done with a contact keeps what it is about. *)
LEMMA DoneWithIs ==
  ASSUME NEW s \in Walks, walk[s] \in Journey, NEW pc \in Pcs
  PROVE  /\ DoneWith(s, pc) \in Journey /\ DoneWith(s, pc).pc = pc
         /\ DoneWith(s, pc).list = walk[s].list /\ DoneWith(s, pc).next = walk[s].next
         /\ DoneWith(s, pc).pending = walk[s].pending /\ DoneWith(s, pc).copy = NoContact
         /\ DoneWith(s, pc).key = 0 /\ DoneWith(s, pc).bookmark = walk[s].bookmark
         /\ DoneWith(s, pc).alone = walk[s].alone
BY NoWalkIs DEF DoneWith, Journey

(* ...and is back at sending. *)
LEMMA SentDoes ==
  ASSUME WellTyped, NEW s \in Walks, walk[s].pc \in {"pushed", "refused"},
         walk' = [walk EXCEPT ![s] = DoneWith(s, "push")]
  PROVE  /\ walk[s].p \in People /\ walk[s] \in Journey /\ Others(s) /\ Carries(s)
         /\ walk'[s].pc = "push" /\ walk'[s].list = {} /\ walk'[s].next = walk[s].next
         /\ walk'[s].pending = walk[s].pending /\ walk'[s].copy = NoContact /\ walk'[s].key = 0
<1>1. walk[s] \in Journey /\ WalkSane(walk[s])
  BY DEF WellTyped, Shapes
<1>2. walk[s].p \in People /\ walk[s].list = {}
  BY <1>1 DEF WalkSane, Before
<1>3. "push" \in Pcs
  BY DEF Pcs
<1>4. DoneWith(s, "push") \in Journey
  BY <1>1, <1>3, DoneWithIs
<1>5. walk' \in [Walks -> Journey] /\ walk'[s] = DoneWith(s, "push")
      /\ \A q \in Walks \ {s} : walk'[q] = walk[q]
  BY <1>4, WalkMoves
<1>6. /\ DoneWith(s, "push").pc = "push" /\ DoneWith(s, "push").list = walk[s].list
      /\ DoneWith(s, "push").next = walk[s].next /\ DoneWith(s, "push").pending = walk[s].pending
      /\ DoneWith(s, "push").copy = NoContact /\ DoneWith(s, "push").key = 0
      /\ DoneWith(s, "push").bookmark = walk[s].bookmark /\ DoneWith(s, "push").alone = walk[s].alone
  BY <1>1, <1>3, DoneWithIs
<1> QED BY <1>1, <1>2, <1>5, <1>6 DEF Others, Carries

LEMMA MarksPushedDoes ==
  ASSUME WellTyped, NEW s \in Walks, MarksPushed(s)
  PROVE  LET p == walk[s].p IN
         /\ here' \in [People -> Person] /\ here'[p].status = "synced"
         /\ here'[p].key = walk[s].key /\ here'[p].says = here[p].says
         /\ here'[p].linked = here[p].linked /\ here'[p].removed = here[p].removed
         /\ \A q \in People \ {p} : here'[q] = here[q]
<1> DEFINE p == walk[s].p
<1>1. p \in People /\ walk[s].key \in Nat /\ here[p] \in Person
  BY SentDoes DEF MarksPushed, Journey, WellTyped, Shapes
<1>2. PICK touched \in BOOLEAN : here' =
        [here EXCEPT ![p].status = "synced", ![p].key = walk[s].key, ![p].touched = touched]
  BY DEF MarksPushed, Stamps
<1> DEFINE h == [here[p] EXCEPT !.status = "synced", !.key = walk[s].key, !.touched = touched]
<1>3. /\ h \in Person /\ h.status = "synced" /\ h.key = walk[s].key /\ h.says = here[p].says
      /\ h.linked = here[p].linked /\ h.removed = here[p].removed
  BY <1>1 DEF Person, Statuses
<1>4. here' = [here EXCEPT ![p] = h]
  BY <1>1, <1>2 DEF WellTyped, Shapes
<1> HIDE DEF h, p
<1>5. here' \in [People -> Person] /\ here'[p] = h /\ \A q \in People \ {p} : here'[q] = here[q]
  BY <1>1, <1>3, <1>4, HereMoves
<1> QED BY <1>3, <1>5 DEF p

LEMMA MarksFailedDoes ==
  ASSUME WellTyped, NEW s \in Walks, MarksFailed(s)
  PROVE  LET p == walk[s].p IN
         /\ here' \in [People -> Person] /\ here'[p].status = "failed"
         /\ here'[p].key \in {here[p].key, walk[s].key} /\ here'[p].says = here[p].says
         /\ here'[p].linked = here[p].linked /\ here'[p].removed = here[p].removed
         /\ walk[s].pc = "refused" => here'[p].touched
         /\ \A q \in People \ {p} : here'[q] = here[q]
<1> DEFINE p == walk[s].p
           failed == [here[p] EXCEPT !.status = "failed", !.touched = TRUE]
<1>1. p \in People /\ walk[s].key \in Nat /\ here[p] \in Person
  BY SentDoes DEF MarksFailed, Journey, WellTyped, Shapes
<1>2. ASSUME NEW h \in Person, here' = [here EXCEPT ![p] = h], h.status = "failed",
             h.key \in {here[p].key, walk[s].key}, h.says = here[p].says,
             h.linked = here[p].linked, h.removed = here[p].removed,
             walk[s].pc = "refused" => h.touched
      PROVE  /\ here' \in [People -> Person] /\ here'[p].status = "failed"
             /\ here'[p].key \in {here[p].key, walk[s].key} /\ here'[p].says = here[p].says
             /\ here'[p].linked = here[p].linked /\ here'[p].removed = here[p].removed
             /\ walk[s].pc = "refused" => here'[p].touched
             /\ \A q \in People \ {p} : here'[q] = here[q]
  <2> HIDE DEF p
  <2>1. here' \in [People -> Person] /\ here'[p] = h /\ \A q \in People \ {p} : here'[q] = here[q]
    BY <1>1, <1>2, HereMoves
  <2> QED BY <1>2, <2>1
<1>3. CASE walk[s].pc = "refused" /\ here' = [here EXCEPT ![p] = failed]
  <2>1. /\ failed \in Person /\ failed.status = "failed" /\ failed.key = here[p].key
        /\ failed.says = here[p].says /\ failed.linked = here[p].linked
        /\ failed.removed = here[p].removed /\ failed.touched
    BY <1>1 DEF Person, Statuses
  <2> HIDE DEF failed
  <2> QED BY <1>2, <1>3, <2>1
<1>4. ASSUME walk[s].pc = "pushed", NEW touched \in BOOLEAN,
             here' = [here EXCEPT ![p] = [failed EXCEPT !.key = walk[s].key, !.touched = touched]]
      PROVE  /\ here' \in [People -> Person] /\ here'[p].status = "failed"
             /\ here'[p].key \in {here[p].key, walk[s].key} /\ here'[p].says = here[p].says
             /\ here'[p].linked = here[p].linked /\ here'[p].removed = here[p].removed
             /\ walk[s].pc = "refused" => here'[p].touched
             /\ \A q \in People \ {p} : here'[q] = here[q]
  <2> DEFINE h == [failed EXCEPT !.key = walk[s].key, !.touched = touched]
  <2>1. /\ h \in Person /\ h.status = "failed" /\ h.key = walk[s].key
        /\ h.says = here[p].says /\ h.linked = here[p].linked /\ h.removed = here[p].removed
    BY <1>1 DEF Person, Statuses
  <2>2. here' = [here EXCEPT ![p] = h]
    BY <1>4
  <2> HIDE DEF h
  <2> QED BY <1>2, <1>4, <2>1, <2>2
<1> QED BY <1>3, <1>4 DEF MarksFailed, Stamps

LEMMA FetchesDoes ==
  ASSUME WellTyped, NEW s \in Walks, Fetches(s)
  PROVE  /\ walk[s].pc = "push" /\ Others(s)
         /\ walk'[s].alone = walk[s].alone /\ walk'[s].bookmark = NoBookmark
         /\ walk'[s].pc = "take" /\ walk'[s].next = clock /\ walk'[s].pending = walk[s].pending
         /\ walk'[s].copy = walk[s].copy /\ walk'[s].key = walk[s].key
         /\ \A e \in walk'[s].list : e.p \in People /\ e.says = there[e.p].says
                                     /\ e.key = there[e.p].key /\ e.gone = there[e.p].gone
         /\ \A p \in People :
              0 < there[p].key
              /\ (IF walk[s].bookmark = NoBookmark THEN ~there[p].gone
                  ELSE there[p].key > walk[s].bookmark) =>
                \E e \in walk'[s].list : e.p = p
<1> DEFINE all == walk[s].bookmark = NoBookmark
           people == {p \in People : /\ there[p].key > 0
                                     /\ IF all THEN ~there[p].gone
                                        ELSE there[p].key > walk[s].bookmark}
           L == {[p |-> p, says |-> there[p].says, key |-> there[p].key, gone |-> there[p].gone] :
                    p \in people}
           w == [walk[s] EXCEPT !.pc = "take", !.next = clock, !.bookmark = NoBookmark, !.list = L]
<1>1. walk[s] \in Journey /\ there \in [People -> Remote] /\ clock \in Nat /\ walk[s].pc = "push"
  BY DEF WellTyped, Shapes, Fetches
<1>2. L \in SUBSET Entry
  BY <1>1 DEF Remote, Entry
<1>3. \A e \in L : e.p \in People /\ e.says = there[e.p].says
                   /\ e.key = there[e.p].key /\ e.gone = there[e.p].gone
  OBVIOUS
<1>4. ASSUME NEW p \in people PROVE \E e \in L : e.p = p
  <2> DEFINE e == [p |-> p, says |-> there[p].says, key |-> there[p].key, gone |-> there[p].gone]
  <2>1. e \in L /\ e.p = p
    BY <1>4
  <2> QED BY <2>1
<1>5. walk' = [walk EXCEPT ![s] = w]
  BY <1>1 DEF Fetches, WellTyped, Shapes
<1>6. \A p \in People :
        0 < there[p].key
        /\ (IF walk[s].bookmark = NoBookmark THEN ~there[p].gone
            ELSE there[p].key > walk[s].bookmark) => p \in people
  BY <1>1 DEF Remote
<1> HIDE DEF L, people
<1>7. /\ w \in Journey /\ w.pc = "take" /\ w.pending = walk[s].pending /\ w.list = L
      /\ w.next = clock /\ w.copy = walk[s].copy /\ w.key = walk[s].key
      /\ w.bookmark = NoBookmark /\ w.alone = walk[s].alone
  BY <1>1, <1>2 DEF Journey, Pcs
<1> HIDE DEF w
<1>8. walk' \in [Walks -> Journey] /\ walk'[s] = w /\ \A q \in Walks \ {s} : walk'[q] = walk[q]
  BY <1>5, <1>7, WalkMoves
<1> QED BY <1>1, <1>3, <1>4, <1>6, <1>7, <1>8 DEF Others

LEMMA LoadsDoes ==
  ASSUME WellTyped, NEW s \in Walks, NEW e \in walk[s].list, Loads(s, e)
  PROVE  /\ walk[s].pc = "take" /\ e \in Entry /\ Others(s) /\ Carries(s)
         /\ walk'[s].pc = "save" /\ walk'[s].p = e.p /\ walk'[s].copy = here[e.p]
         /\ walk'[s].list = walk[s].list /\ walk'[s].pending = walk[s].pending
         /\ walk'[s].next = walk[s].next /\ walk'[s].key = walk[s].key
<1> DEFINE w == [walk[s] EXCEPT !.pc = "save", !.p = e.p, !.copy = here[e.p]]
<1>1. walk[s] \in Journey /\ here \in [People -> Person] /\ walk[s].pc = "take"
  BY DEF WellTyped, Shapes, Loads
<1>2. e \in Entry /\ e.p \in People
  BY <1>1 DEF Journey, Entry
<1>3. walk' = [walk EXCEPT ![s] = w]
  BY <1>1 DEF Loads, WellTyped, Shapes
<1>4. /\ w \in Journey /\ w.pc = "save" /\ w.p = e.p /\ w.copy = here[e.p]
      /\ w.pending = walk[s].pending /\ w.list = walk[s].list
      /\ w.next = walk[s].next /\ w.key = walk[s].key
      /\ w.bookmark = walk[s].bookmark /\ w.alone = walk[s].alone
  BY <1>1, <1>2 DEF Journey, Pcs
<1> HIDE DEF w
<1>5. walk' \in [Walks -> Journey] /\ walk'[s] = w /\ \A q \in Walks \ {s} : walk'[q] = walk[q]
  BY <1>3, <1>4, WalkMoves
<1> QED BY <1>1, <1>2, <1>4, <1>5 DEF Others, Carries

(* What a save makes of a contact. *)
LEMMA TakenIs ==
  ASSUME NEW now \in Person, NEW copy \in Person, NEW e \in Entry, NEW touched \in BOOLEAN
  PROVE  LET h == Taken(now, copy, e, touched) IN
         /\ h \in Person /\ h.says \in {now.says, e.says} /\ h.key \in {now.key, e.key}
         /\ h.deleted = now.deleted
         /\ copy.linked => h.linked = now.linked
         /\ ~copy.linked => h.linked
         /\ copy.linked /\ copy.key = e.key => h = [now EXCEPT !.touched = TRUE]
         /\ copy.linked /\ copy.key # e.key =>
              /\ h.key = e.key /\ h.says = Kept(e.says, copy.says, now.says)
              /\ h.status = Kept(IF Clashes(copy, e) THEN "conflict" ELSE "synced", copy.status,
                                 now.status)
         /\ ~copy.linked /\ copy.status # "none" =>
              /\ h.key = e.key
              /\ h.says = IF copy.says = Blank THEN Kept(e.says, Blank, now.says) ELSE now.says
         /\ ~copy.linked /\ copy.status = "none" /\ ~now.linked => h.key = e.key /\ h.says = e.says
         /\ ~copy.linked /\ copy.status = "none" /\ now.linked => h = now
<1>1. e.key \in Nat /\ e.says \in Nat
  BY DEF Entry
<1>2. CASE copy.linked /\ copy.key = e.key
  BY <1>2 DEF Taken, Person
<1>3. CASE copy.linked /\ copy.key # e.key
  <2> DEFINE says == Kept(e.says, copy.says, now.says)
             status == Kept(IF Clashes(copy, e) THEN "conflict" ELSE "synced", copy.status, now.status)
             removed == Kept(FALSE, copy.removed, now.removed)
  <2>1. says \in {e.says, now.says} /\ says \in Nat
    BY <1>1 DEF Kept, Person
  <2>2. status \in Statuses
    BY DEF Kept, Statuses, Person
  <2>3. removed \in BOOLEAN
    BY DEF Kept, Person
  <2> DEFINE h == [now EXCEPT !.says = says, !.status = status, !.removed = removed, !.key = e.key,
                              !.touched = touched]
  <2>4. Taken(now, copy, e, touched) = h
    BY <1>3 DEF Taken, Person
  <2> HIDE DEF says, status, removed
  <2>5. /\ h \in Person /\ h.says = says /\ h.status = status /\ h.key = e.key
        /\ h.linked = now.linked /\ h.deleted = now.deleted
    BY <1>1, <2>1, <2>2, <2>3 DEF Person
  <2> HIDE DEF h
  <2> QED BY <1>3, <2>1, <2>4, <2>5 DEF says, status
<1>4. CASE ~copy.linked /\ copy.status # "none"
  <2> DEFINE says == IF copy.says = Blank THEN Kept(e.says, Blank, now.says) ELSE now.says
             h == [now EXCEPT !.says = says, !.status = "synced", !.linked = TRUE, !.key = e.key,
                              !.touched = touched]
  <2>1. says \in {e.says, now.says} /\ says \in Nat
    BY <1>1 DEF Kept, Person
  <2>2. Taken(now, copy, e, touched) = h
    BY <1>4 DEF Taken, Person
  <2> HIDE DEF says
  <2>3. /\ h \in Person /\ h.says = says /\ h.key = e.key /\ h.linked /\ h.deleted = now.deleted
    BY <1>1, <2>1 DEF Person, Statuses
  <2> HIDE DEF h
  <2> QED BY <1>4, <2>1, <2>2, <2>3 DEF says
<1>5. CASE ~copy.linked /\ copy.status = "none" /\ now.linked
  BY <1>5 DEF Taken
<1>6. CASE ~copy.linked /\ copy.status = "none" /\ ~now.linked
  BY <1>1, <1>6 DEF Taken, Person, Statuses
<1> QED BY <1>2, <1>3, <1>4, <1>5, <1>6 DEF Person

LEMMA SavesDoes ==
  ASSUME WellTyped, NEW s \in Walks, NEW e \in walk[s].list, Saves(s, e)
  PROVE  /\ walk[s].pc = "save" /\ walk[s].p = e.p /\ e \in Entry /\ e.p \in People /\ ~e.gone
         /\ walk[s].copy \in Person /\ here[e.p] \in Person /\ Others(s) /\ Carries(s)
         /\ walk'[s].pc = "take" /\ walk'[s].list = walk[s].list \ {e}
         /\ walk'[s].pending = walk[s].pending /\ walk'[s].next = walk[s].next
         /\ walk'[s].copy = NoContact /\ walk'[s].key = 0
         /\ here' \in [People -> Person] /\ \A q \in People \ {e.p} : here'[q] = here[q]
         /\ \E touched \in BOOLEAN : here'[e.p] = Taken(here[e.p], walk[s].copy, e, touched)
<1> DEFINE w == [DoneWith(s, "take") EXCEPT !.list = walk[s].list \ {e}]
<1>1. walk[s] \in Journey /\ here \in [People -> Person] /\ walk[s].pc = "save" /\ "take" \in Pcs
  BY DEF WellTyped, Shapes, Saves, Pcs
<1>2. e \in Entry /\ e.p \in People /\ ~e.gone /\ e.p = walk[s].p /\ walk[s].copy \in Person
      /\ here[e.p] \in Person
  BY <1>1 DEF Journey, Entry, Saves, Arrivals
<1>3. DoneWith(s, "take").list = walk[s].list
  BY <1>1, DoneWithIs
<1>4. walk' = [walk EXCEPT ![s] = w]
  BY <1>1, <1>3 DEF Saves
<1>5. /\ DoneWith(s, "take") \in Journey /\ DoneWith(s, "take").pc = "take"
      /\ DoneWith(s, "take").next = walk[s].next /\ DoneWith(s, "take").pending = walk[s].pending
      /\ DoneWith(s, "take").copy = NoContact /\ DoneWith(s, "take").key = 0
      /\ DoneWith(s, "take").bookmark = walk[s].bookmark /\ DoneWith(s, "take").alone = walk[s].alone
  BY <1>1, DoneWithIs
<1>6. walk[s].list \ {e} \in SUBSET Entry
  BY <1>1 DEF Journey
<1>7. /\ w \in Journey /\ w.pc = "take" /\ w.list = walk[s].list \ {e}
      /\ w.next = walk[s].next /\ w.pending = walk[s].pending
      /\ w.copy = NoContact /\ w.key = 0
      /\ w.bookmark = walk[s].bookmark /\ w.alone = walk[s].alone
  BY <1>5, <1>6 DEF Journey
<1> HIDE DEF w
<1>8. walk' \in [Walks -> Journey] /\ walk'[s] = w /\ \A q \in Walks \ {s} : walk'[q] = walk[q]
  BY <1>4, <1>7, WalkMoves
<1>9. PICK touched \in BOOLEAN :
        here' = [here EXCEPT ![e.p] = Taken(here[e.p], walk[s].copy, e, touched)]
  BY DEF Saves, Stamps
<1>10. Taken(here[e.p], walk[s].copy, e, touched) \in Person
  BY <1>2, TakenIs
<1>11. /\ here' \in [People -> Person] /\ here'[e.p] = Taken(here[e.p], walk[s].copy, e, touched)
       /\ \A q \in People \ {e.p} : here'[q] = here[q]
  BY <1>2, <1>9, <1>10, HereMoves
<1> QED BY <1>1, <1>2, <1>7, <1>8, <1>11 DEF Others, Carries

LEMMA MarksRemovedDoes ==
  ASSUME WellTyped, NEW s \in Walks, MarksRemoved(s)
  PROVE  /\ walk[s].pc = "take" /\ Others(s) /\ Carries(s)
         /\ walk'[s].pc = "state" /\ walk'[s].list = {}
         /\ walk'[s].pending = walk[s].pending /\ walk'[s].next = walk[s].next
         /\ walk'[s].copy = walk[s].copy /\ walk'[s].key = walk[s].key
         /\ \A e \in walk[s].list : e.gone
         /\ here' \in [People -> Person]
         /\ \A p \in People :
              \/ /\ here'[p] = here[p]
                 /\ (\E e \in walk[s].list : e.p = p) /\ here[p].linked => here[p].removed
              \/ /\ here'[p].linked = here[p].linked /\ here'[p].says = here[p].says
                 /\ here'[p].key = here[p].key
                 /\ here'[p].removed /\ here'[p].touched /\ here'[p].status = "deleted_remote"
<1> DEFINE w == [walk[s] EXCEPT !.pc = "state", !.list = {}]
           gone(p) == [here[p] EXCEPT !.removed = TRUE, !.status = "deleted_remote",
                                      !.touched = TRUE]
<1>1. walk[s] \in Journey /\ here \in [People -> Person] /\ walk[s].pc = "take"
  BY DEF WellTyped, Shapes, MarksRemoved
<1>2. walk' = [walk EXCEPT ![s] = w]
  BY <1>1 DEF MarksRemoved, WellTyped, Shapes
<1>3. /\ w \in Journey /\ w.pc = "state" /\ w.list = {} /\ w.pending = walk[s].pending
      /\ w.next = walk[s].next /\ w.copy = walk[s].copy /\ w.key = walk[s].key
      /\ w.bookmark = walk[s].bookmark /\ w.alone = walk[s].alone
  BY <1>1 DEF Journey, Pcs
<1> HIDE DEF w
<1>4. walk' \in [Walks -> Journey] /\ walk'[s] = w /\ \A q \in Walks \ {s} : walk'[q] = walk[q]
  BY <1>2, <1>3, WalkMoves
<1>5. \A e \in walk[s].list : e.gone
  BY DEF MarksRemoved, Arrivals
<1>6. here' = [p \in People |-> IF p \in RemovedThere(s) /\ here[p].linked /\ ~here[p].removed
                               THEN gone(p) ELSE here[p]]
  BY DEF MarksRemoved
<1>7. \A p \in People :
        /\ gone(p) \in Person /\ gone(p).linked = here[p].linked /\ gone(p).says = here[p].says
        /\ gone(p).key = here[p].key
        /\ gone(p).removed /\ gone(p).touched /\ gone(p).status = "deleted_remote"
  BY <1>1 DEF Person, Statuses
<1> HIDE DEF gone
<1>8. here' \in [People -> Person]
  BY <1>1, <1>6, <1>7
<1>9. \A p \in People : (\E e \in walk[s].list : e.p = p) => p \in RemovedThere(s)
  BY DEF RemovedThere
<1>10. \A p \in People :
         \/ here'[p] = gone(p)
         \/ here'[p] = here[p] /\ ((\E e \in walk[s].list : e.p = p) /\ here[p].linked => here[p].removed)
  BY <1>6, <1>9
<1> QED BY <1>1, <1>3, <1>4, <1>5, <1>7, <1>8, <1>10 DEF Others, Carries

LEMMA WalkStartsDoes ==
  ASSUME WellTyped, NEW s \in Walks, NEW full \in BOOLEAN, WalkStarts(s, full)
  PROVE  /\ walk[s].pc = "idle" /\ walk' \in [Walks -> Journey]
         /\ walk'[s].pc = "pending" /\ walk'[s].bookmark \in {NoBookmark, bookmark}
         /\ walk'[s].list = {} /\ walk'[s].pending = {} /\ walk'[s].next = 0 /\ walk'[s].key = 0
         /\ walk'[s].copy = NoContact /\ walk'[s].alone = (Beside(s) = {})
         /\ \A q \in Walks \ {s} : /\ walk'[q].pc = walk[q].pc /\ walk'[q].bookmark = walk[q].bookmark
                                   /\ walk'[q].pending = walk[q].pending /\ walk'[q].list = walk[q].list
                                   /\ walk'[q].next = walk[q].next /\ walk'[q].p = walk[q].p
                                   /\ walk'[q].copy = walk[q].copy /\ walk'[q].key = walk[q].key
                                   /\ walk'[q].alone = (walk[q].alone /\ q \notin Beside(s))
<1> DEFINE b == IF full THEN NoBookmark ELSE bookmark
           new == [NoWalk EXCEPT !.pc = "pending", !.alone = (Beside(s) = {}), !.bookmark = b]
           old(q) == [walk[q] EXCEPT !.alone = @ /\ q \notin Beside(s)]
<1>1. walk \in [Walks -> Journey] /\ bookmark \in {NoBookmark} \cup Nat /\ walk[s].pc = "idle"
  BY DEF WellTyped, Shapes, WalkStarts
<1>2. /\ new \in Journey /\ new.pc = "pending" /\ new.bookmark = b
      /\ new.list = {} /\ new.pending = {} /\ new.next = 0 /\ new.key = 0
      /\ new.copy = NoContact /\ new.alone = (Beside(s) = {})
  BY <1>1, NoWalkIs DEF Journey, Pcs, NoWalk
<1>3. \A q \in Walks :
        /\ old(q) \in Journey /\ old(q).pc = walk[q].pc /\ old(q).bookmark = walk[q].bookmark
        /\ old(q).pending = walk[q].pending /\ old(q).list = walk[q].list
        /\ old(q).next = walk[q].next /\ old(q).p = walk[q].p
        /\ old(q).copy = walk[q].copy /\ old(q).key = walk[q].key
        /\ old(q).alone = (walk[q].alone /\ q \notin Beside(s))
  BY <1>1 DEF Journey
<1>4. walk' = [q \in Walks |-> IF q = s THEN new ELSE old(q)]
  BY DEF WalkStarts
<1> HIDE DEF new, old
<1>5. walk' \in [Walks -> Journey] /\ walk'[s] = new /\ \A q \in Walks \ {s} : walk'[q] = old(q)
  BY <1>2, <1>3, <1>4
<1> QED BY <1>1, <1>2, <1>3, <1>5

(* A walk is over. *)
LEMMA EndsDoes ==
  ASSUME WellTyped, NEW s \in Walks, walk' = [walk EXCEPT ![s] = NoWalk]
  PROVE  Others(s) /\ walk'[s] = NoWalk
BY NoWalkIs, WalkMoves DEF Others

-------------------------------------------------------------------------------
(* Types: one lemma per action.                                               *)

(* What is written is in the past, and no clock runs back. *)
LEMMA TypedAfter ==
  ASSUME WellTyped, Shapes', said <= said', clock <= clock',
         \A p \in People : here'[p] = here[p] \/ PersonPast(here[p])',
         \A p \in People : there'[p] = there[p] \/ (there'[p].says <= said' /\ there'[p].key <= clock'),
         \A p \in People : \A n \in reached'[p] : n \in reached[p] \/ n <= said',
         \A s \in Walks : walk'[s] = walk[s] \/ (WalkPast(walk[s])' /\ WalkSane(walk'[s])),
         \A x \in Edits : edit'[x] = edit[x] \/ PersonPast(edit[x].copy)',
         bookmark' # NoBookmark => bookmark' <= clock \/ bookmark' = bookmark
  PROVE  WellTyped'
<1>1. /\ said \in Nat /\ clock \in Nat /\ said' \in Nat /\ clock' \in Nat
      /\ here \in [People -> Person] /\ there \in [People -> Remote] /\ walk \in [Walks -> Journey]
      /\ edit \in [Edits -> EditRecord] /\ reached \in [People -> SUBSET Nat]
      /\ bookmark \in {NoBookmark} \cup Nat /\ bookmark' \in {NoBookmark} \cup Nat
  BY Constants DEF WellTyped, Shapes
<1>2. \A n \in Nat : (n <= said => n <= said') /\ (n <= clock => n <= clock')
  BY <1>1
<1>3. /\ \A h \in Person : PersonPast(h) => PersonPast(h)'
      /\ \A w \in Journey : WalkPast(w) => WalkPast(w)'
  BY PastGrows DEF WellTyped
<1>4. \A p \in People : PersonPast(here[p])'
  <2> SUFFICES ASSUME NEW p \in People, here'[p] = here[p] PROVE PersonPast(here[p])'
    OBVIOUS
  <2>1. here[p] \in Person /\ PersonPast(here[p])
    BY <1>1 DEF WellTyped, Past
  <2>2. here'[p].says = here[p].says /\ here'[p].key = here[p].key
    OBVIOUS
  <2>3. here[p].says \in Nat /\ here[p].key \in Nat
    BY <2>1 DEF Person
  <2> QED BY <1>2, <2>1, <2>2, <2>3 DEF PersonPast
<1>5. \A p \in People : (there[p].says <= said /\ there[p].key <= clock)'
  <2>1. \A p \in People : there[p].says \in Nat /\ there[p].key \in Nat
    BY <1>1 DEF Remote
  <2>2. \A p \in People : there[p].says <= said /\ there[p].key <= clock
    BY DEF WellTyped, Past
  <2> QED BY <1>2, <2>1, <2>2
<1>6. \A p \in People : (\A n \in reached[p] : n <= said)'
  <2>1. \A p \in People : \A n \in reached[p] : n \in Nat /\ n <= said
    BY <1>1 DEF WellTyped, Past
  <2> QED BY <1>2, <2>1
<1>7. \A s \in Walks : WalkPast(walk[s])' /\ WalkSane(walk[s])'
  <2> SUFFICES ASSUME NEW s \in Walks PROVE WalkPast(walk[s])' /\ WalkSane(walk[s])'
    OBVIOUS
  <2>1. CASE walk'[s] = walk[s]
    <3>1. walk[s] \in Journey /\ WalkPast(walk[s]) /\ WalkSane(walk[s])
      BY <1>1 DEF WellTyped, Past
    <3>2. WalkSane(walk'[s])
      BY <2>1, <3>1
    <3>3. /\ walk[s].next \in Nat /\ walk[s].key \in Nat /\ walk[s].copy \in Person
          /\ walk[s].bookmark \in {NoBookmark} \cup Nat
          /\ \A e \in walk[s].list : e.says \in Nat /\ e.key \in Nat
          /\ \A d \in walk[s].pending : d[2] \in Nat
      BY <3>1 DEF Journey, Entry
    <3>4. walk[s].copy.says \in Nat /\ walk[s].copy.key \in Nat
      BY <3>3 DEF Person
    <3>5. WalkPast(walk[s])'
      BY <1>2, <2>1, <3>1, <3>3, <3>4 DEF WalkPast, PersonPast
    <3> QED BY <3>2, <3>5
  <2> QED BY <2>1
<1>8. \A x \in Edits : PersonPast(edit[x].copy)'
  <2> SUFFICES ASSUME NEW x \in Edits, edit'[x] = edit[x] PROVE PersonPast(edit[x].copy)'
    OBVIOUS
  <2>1. edit[x].copy \in Person /\ PersonPast(edit[x].copy)
    BY <1>1 DEF WellTyped, Past, EditRecord
  <2>2. edit[x].copy.says \in Nat /\ edit[x].copy.key \in Nat
    BY <2>1 DEF Person
  <2> QED BY <1>2, <2>1, <2>2 DEF PersonPast
<1>9. (bookmark # NoBookmark => bookmark <= clock)'
  BY <1>1, <1>2 DEF WellTyped, Past
<1> QED BY <1>4, <1>5, <1>6, <1>7, <1>8, <1>9 DEF WellTyped, Past

LEMMA InitTyped == ContactInit => WellTyped
<1> SUFFICES ASSUME ContactInit PROVE WellTyped
  OBVIOUS
<1>1. ByHandContact \in Person /\ ByHandContact.says = 1 /\ ByHandContact.key = 0
  BY DEF ByHandContact, NoContact, Person, Statuses
<1> DEFINE other == [Nobody EXCEPT !.says = 2, !.key = 1]
<1>2. /\ Nobody \in Remote /\ Nobody.says = 0 /\ Nobody.key = 0
      /\ other \in Remote /\ other.says = 2 /\ other.key = 1
  BY DEF Nobody, Blank, Remote
<1>3. said = 2 /\ clock = 1 /\ jolts = 0 /\ bookmark = NoBookmark /\ adrift = {} /\ unlisted = {}
  BY DEF ContactInit
<1>4. /\ walk \in [Walks -> Journey] /\ (\A s \in Walks : walk[s] = NoWalk)
      /\ edit \in [Edits -> EditRecord] /\ \A x \in Edits : edit[x] = NoEdit
  BY NoWalkIs DEF ContactInit
<1>5. here \in [People -> Person] /\ \A p \in People : here[p] \in {NoContact, ByHandContact}
  BY <1>1, NoWalkIs DEF ContactInit
<1>6. there \in [People -> Remote] /\ \A p \in People : there[p] \in {Nobody, other}
  BY <1>2 DEF ContactInit
<1> HIDE DEF other
<1>7. reached \in [People -> SUBSET Nat] /\ \A p \in People : reached[p] = {there[p].says}
  BY <1>6 DEF ContactInit, Remote
<1>8. Shapes
  BY <1>3, <1>4, <1>5, <1>6, <1>7, Constants DEF Shapes
<1>9. \A s \in Walks : WalkPast(walk[s]) /\ WalkSane(walk[s])
  BY <1>3, <1>4, NoWalkIs, NoWalkSane DEF WalkPast, PersonPast
<1>10. \A p \in People : PersonPast(here[p]) /\ there[p].says <= said /\ there[p].key <= clock
                         /\ \A n \in reached[p] : n <= said
  BY <1>1, <1>2, <1>3, <1>5, <1>6, <1>7, NoWalkIs DEF PersonPast
<1>11. \A x \in Edits : PersonPast(edit[x].copy)
  BY <1>3, <1>4, NoWalkIs DEF PersonPast
<1> QED BY <1>3, <1>8, <1>9, <1>10, <1>11 DEF WellTyped, Past

(* What people do, field by field. *)
LEMMA WritesThereDoes ==
  ASSUME WellTyped, NEW p \in People, WritesThere(p)
  PROVE  /\ there' \in [People -> Remote] /\ ~there[p].gone
         /\ there'[p].says \in Sayings /\ there'[p].key = clock + 1 /\ ~there'[p].gone
         /\ \A q \in People \ {p} : there'[q] = there[q]
         /\ reached' \in [People -> SUBSET Nat] /\ reached'[p] = reached[p] \cup {there'[p].says}
         /\ \A q \in People \ {p} : reached'[q] = reached[q]
         /\ said' = said + 1 /\ said' <= MaxSaid /\ clock' = clock + 1
<1>1. /\ said \in Nat /\ clock \in Nat /\ there \in [People -> Remote]
      /\ reached \in [People -> SUBSET Nat]
  BY Constants DEF WellTyped, Shapes
<1>0. PICK v \in Sayings :
        /\ there' = [there EXCEPT ![p].says = v, ![p].key = clock + 1]
        /\ reached' = [reached EXCEPT ![p] = @ \cup {v}]
  BY DEF WritesThere
<1> DEFINE r == [there[p] EXCEPT !.says = v, !.key = clock + 1]
<1>2. there[p] \in Remote /\ v \in Nat /\ clock + 1 \in Nat
  BY <1>1, SayingsAre
<1>3. r \in Remote /\ r.says = v /\ r.key = clock + 1 /\ r.gone = there[p].gone
  BY <1>2 DEF Remote
<1>4. there' = [there EXCEPT ![p] = r]
  BY <1>0, <1>1
<1> HIDE DEF r
<1>6. /\ reached' \in [People -> SUBSET Nat] /\ reached'[p] = reached[p] \cup {v}
      /\ \A q \in People \ {p} : reached'[q] = reached[q]
  BY <1>0, <1>1, <1>2
<1>7. said' = said + 1 /\ said' <= MaxSaid /\ clock' = clock + 1 /\ ~there[p].gone
  BY <1>1, Constants DEF WritesThere, Says
<1> QED BY <1>1, <1>3, <1>4, <1>6, <1>7

LEMMA RemovesThereDoes ==
  ASSUME WellTyped, NEW p \in People, RemovesThere(p)
  PROVE  /\ there' \in [People -> Remote]
         /\ there'[p].says = there[p].says /\ there'[p].key = clock + 1 /\ there'[p].gone
         /\ \A q \in People \ {p} : there'[q] = there[q]
         /\ clock' = clock + 1
<1>1. clock \in Nat /\ there \in [People -> Remote]
  BY DEF WellTyped, Shapes
<1> DEFINE r == [there[p] EXCEPT !.gone = TRUE, !.key = clock + 1]
<1>0. there[p] \in Remote /\ clock + 1 \in Nat
  BY <1>1
<1>2. r \in Remote /\ r.says = there[p].says /\ r.key = clock + 1 /\ r.gone
  BY <1>0 DEF Remote
<1>3. there' = [there EXCEPT ![p] = r]
  BY <1>1 DEF RemovesThere
<1> HIDE DEF r
<1> QED BY <1>1, <1>2, <1>3 DEF RemovesThere

LEMMA EditSavesDoes ==
  ASSUME WellTyped, NEW x \in Edits, EditSaves(x)
  PROVE  LET p == edit[x].p IN
         /\ p \in People /\ here' \in [People -> Person]
         /\ here'[p].says \in Sayings /\ here'[p].key = here[p].key /\ here'[p].touched
         /\ here'[p].linked = here[p].linked /\ here'[p].removed = here[p].removed
         /\ here'[p].status \in {"pending", here[p].status}
         /\ here'[p].status = "synced" => p \in adrift'
         /\ \A q \in People \ {p} : here'[q] = here[q]
         /\ said' = said + 1 /\ said' <= MaxSaid /\ adrift \subseteq adrift' /\ adrift' \subseteq People
         /\ edit' \in [Edits -> EditRecord] /\ edit'[x] = NoEdit
         /\ \A y \in Edits \ {x} : edit'[y] = edit[y]
<1> DEFINE p == edit[x].p
           status == IF Owes(edit[x].copy) THEN "pending" ELSE here[p].status
<1>1. /\ said \in Nat /\ here \in [People -> Person] /\ edit \in [Edits -> EditRecord]
      /\ adrift \subseteq People
  BY Constants DEF WellTyped, Shapes
<1>2. p \in People
  BY <1>1 DEF EditRecord, EditSaves
<1>10. PICK v \in Sayings :
         here' = [here EXCEPT ![p].says = v, ![p].status = status, ![p].touched = TRUE]
  BY DEF EditSaves
<1> DEFINE h == [here[p] EXCEPT !.says = v, !.status = status, !.touched = TRUE]
<1>3. status \in Statuses /\ status \in {"pending", here[p].status}
  BY <1>1, <1>2 DEF Statuses, Person
<1>4. here' = [here EXCEPT ![p] = h]
  BY <1>1, <1>2, <1>10
<1>5. status = "synced" => p \in adrift'
  BY DEF EditSaves, Owes
<1> HIDE DEF status
<1>0. here[p] \in Person /\ v \in Nat
  BY <1>1, <1>2, SayingsAre
<1>6. /\ h \in Person /\ h.says = v /\ h.key = here[p].key /\ h.touched
      /\ h.linked = here[p].linked /\ h.removed = here[p].removed /\ h.status = status
  BY <1>3, <1>0 DEF Person
<1> HIDE DEF h
<1>7. /\ here' \in [People -> Person] /\ here'[p] = h
      /\ \A q \in People \ {p} : here'[q] = here[q]
  BY <1>2, <1>4, <1>6, HereMoves
<1>8. /\ edit' \in [Edits -> EditRecord] /\ edit'[x] = NoEdit
      /\ \A y \in Edits \ {x} : edit'[y] = edit[y]
  BY <1>1, NoWalkIs DEF EditSaves
<1>9. adrift \subseteq adrift' /\ adrift' \subseteq People
  BY <1>1, <1>2 DEF EditSaves
<1>11. said' = said + 1 /\ said' <= MaxSaid
  BY <1>1, Constants DEF EditSaves, Says
<1> QED BY <1>2, <1>3, <1>5, <1>6, <1>7, <1>8, <1>9, <1>11

LEMMA TouchesDoes ==
  ASSUME WellTyped, NEW p \in People, Touches(p)
  PROVE  /\ here' \in [People -> Person]
         /\ here'[p].says = here[p].says /\ here'[p].key = here[p].key /\ here'[p].touched
         /\ here'[p].linked = here[p].linked /\ here'[p].removed = here[p].removed
         /\ here'[p].status = here[p].status
         /\ \A q \in People \ {p} : here'[q] = here[q]
<1>1. here \in [People -> Person]
  BY DEF WellTyped, Shapes
<1>2. PICK deleted \in BOOLEAN : here' = [here EXCEPT ![p].touched = TRUE, ![p].deleted = deleted]
  BY DEF Touches
<1> DEFINE h == [here[p] EXCEPT !.touched = TRUE, !.deleted = deleted]
<1>3. /\ h \in Person /\ h.says = here[p].says /\ h.key = here[p].key /\ h.touched
      /\ h.linked = here[p].linked /\ h.removed = here[p].removed /\ h.status = here[p].status
  BY <1>1 DEF Person
<1>4. here' = [here EXCEPT ![p] = h]
  BY <1>1, <1>2
<1> HIDE DEF h
<1> QED BY <1>3, <1>4, HereMoves

LEMMA JoltsStay ==
  ASSUME WellTyped, Disturbs \/ jolts' = jolts
  PROVE  jolts' \in 0 .. MaxJolts
BY Constants DEF Disturbs, WellTyped, Shapes

(* What people do. *)
LEMMA PeopleTyped ==
  ASSUME WellTyped, NEW p \in People, WritesThere(p) \/ RemovesThere(p) \/ Touches(p)
  PROVE  WellTyped'
<1>1. /\ said \in Nat /\ clock \in Nat /\ here \in [People -> Person]
      /\ \A q \in People : PersonPast(here[q]) /\ there[q].says <= said /\ there[q].key <= clock
  BY Constants DEF WellTyped, Shapes, Past
<1>2. CASE WritesThere(p)
  <2>1. /\ there' \in [People -> Remote] /\ said' = said + 1 /\ said' <= MaxSaid /\ clock' = clock + 1
        /\ there'[p].says \in Sayings /\ there'[p].key = clock + 1
        /\ \A q \in People \ {p} : there'[q] = there[q]
        /\ reached' \in [People -> SUBSET Nat] /\ reached'[p] = reached[p] \cup {there'[p].says}
        /\ \A q \in People \ {p} : reached'[q] = reached[q]
    BY <1>2, WritesThereDoes
  <2>2. UNCHANGED <<here, bookmark, walk, edit, jolts, adrift, unlisted>>
    BY <1>2 DEF WritesThere
  <2>3. Shapes'
    BY <1>1, <2>1, <2>2, Constants DEF WellTyped, Shapes
  <2>4. \A q \in People : there'[q] = there[q] \/ (there'[q].says <= said' /\ there'[q].key <= clock')
    BY <1>1, <2>1, SayingsAre
  <2>5. \A q \in People : \A n \in reached'[q] : n \in reached[q] \/ n <= said'
    BY <1>1, <2>1, SayingsAre
  <2>6. said <= said' /\ clock <= clock'
    BY <1>1, <2>1
  <2> QED BY <2>2, <2>3, <2>4, <2>5, <2>6, TypedAfter
<1>3. CASE RemovesThere(p)
  <2>1. /\ there' \in [People -> Remote] /\ clock' = clock + 1
        /\ there'[p].says = there[p].says /\ there'[p].key = clock + 1
        /\ \A q \in People \ {p} : there'[q] = there[q]
    BY <1>3, RemovesThereDoes
  <2>2. UNCHANGED <<here, bookmark, walk, edit, said, reached, adrift, unlisted>> /\ Disturbs
    BY <1>3 DEF RemovesThere
  <2>3. Shapes'
    BY <1>1, <2>1, <2>2, JoltsStay DEF WellTyped, Shapes
  <2>4. \A q \in People : there'[q] = there[q] \/ (there'[q].says <= said' /\ there'[q].key <= clock')
    BY <1>1, <2>1, <2>2
  <2>5. said <= said' /\ clock <= clock'
    BY <1>1, <2>1, <2>2
  <2> QED BY <2>2, <2>3, <2>4, <2>5, TypedAfter
<1>4. CASE Touches(p)
  <2>1. /\ here' \in [People -> Person]
        /\ here'[p].says = here[p].says /\ here'[p].key = here[p].key
        /\ \A q \in People \ {p} : here'[q] = here[q]
    BY <1>4, TouchesDoes
  <2>2. UNCHANGED <<there, clock, bookmark, walk, edit, said, reached, adrift, unlisted>> /\ Disturbs
    BY <1>4 DEF Touches
  <2>3. Shapes'
    BY <2>1, <2>2, JoltsStay DEF WellTyped, Shapes
  <2>4. \A q \in People : here'[q] = here[q] \/ PersonPast(here[q])'
    BY <1>1, <2>1, <2>2 DEF PersonPast
  <2>5. said <= said' /\ clock <= clock'
    BY <1>1, <2>2
  <2> QED BY <2>2, <2>3, <2>4, <2>5, TypedAfter
<1> QED BY <1>2, <1>3, <1>4

LEMMA EditsTyped ==
  ASSUME WellTyped, NEW x \in Edits, EditSaves(x) \/ \E p \in People : EditLoads(x, p)
  PROVE  WellTyped'
<1>1. /\ said \in Nat /\ clock \in Nat /\ here \in [People -> Person]
      /\ \A q \in People : PersonPast(here[q])
  BY Constants DEF WellTyped, Shapes, Past
<1>2. CASE EditSaves(x)
  <2> DEFINE p == edit[x].p
  <2>1. /\ p \in People /\ here' \in [People -> Person]
        /\ here'[p].says \in Sayings /\ here'[p].key = here[p].key
        /\ \A q \in People \ {p} : here'[q] = here[q]
        /\ said' = said + 1 /\ said' <= MaxSaid /\ adrift' \subseteq People
        /\ edit' \in [Edits -> EditRecord] /\ edit'[x] = NoEdit
        /\ \A y \in Edits \ {x} : edit'[y] = edit[y]
    BY <1>2, EditSavesDoes
  <2>2. UNCHANGED <<there, clock, bookmark, walk, jolts, reached, unlisted>>
    BY <1>2 DEF EditSaves
  <2> HIDE DEF p
  <2>3. Shapes'
    BY <1>1, <2>1, <2>2, Constants DEF WellTyped, Shapes
  <2>4. \A q \in People : here'[q] = here[q] \/ PersonPast(here[q])'
    BY <1>1, <2>1, <2>2, SayingsAre DEF PersonPast
  <2>5. said <= said' /\ clock <= clock'
    BY <1>1, <2>1, <2>2
  <2>6. \A y \in Edits : edit'[y] = edit[y] \/ PersonPast(edit[y].copy)'
    BY <1>1, <2>1, <2>2, NoWalkIs DEF PersonPast
  <2> QED BY <2>2, <2>3, <2>4, <2>5, <2>6, TypedAfter
<1>3. ASSUME NEW p \in People, EditLoads(x, p) PROVE WellTyped'
  <2>1. UNCHANGED <<here, there, clock, bookmark, walk, said, jolts, reached, adrift, unlisted>>
        /\ edit' = [edit EXCEPT ![x] = [p |-> p, copy |-> here[p]]]
    BY <1>3 DEF EditLoads
  <2> DEFINE r == [p |-> p, copy |-> here[p]]
  <2>2. r \in EditRecord /\ r.copy = here[p]
    BY <1>1 DEF EditRecord
  <2>3. edit' = [edit EXCEPT ![x] = r]
    BY <2>1
  <2> HIDE DEF r
  <2>4. edit' \in [Edits -> EditRecord] /\ edit'[x] = r /\ \A y \in Edits \ {x} : edit'[y] = edit[y]
    BY <2>2, <2>3 DEF WellTyped, Shapes
  <2>5. Shapes'
    BY <2>1, <2>4 DEF WellTyped, Shapes
  <2>6. \A y \in Edits : edit'[y] = edit[y] \/ PersonPast(edit[y].copy)'
    BY <1>1, <2>1, <2>2, <2>4 DEF PersonPast
  <2>7. said <= said' /\ clock <= clock'
    BY <1>1, <2>1
  <2> QED BY <2>1, <2>5, <2>6, <2>7, TypedAfter
<1> QED BY <1>2, <1>3

(* A step of one walk. *)
LEMMA WalkTyped ==
  ASSUME WellTyped, NEW s \in Walks, Others(s),
         WalkPast(walk[s])', WalkSane(walk'[s]),
         here' \in [People -> Person], \A p \in People : here'[p] = here[p] \/ PersonPast(here[p])',
         there' \in [People -> Remote],
         \A p \in People : there'[p] = there[p] \/ (there'[p].says <= said' /\ there'[p].key <= clock'),
         reached' \in [People -> SUBSET Nat],
         \A p \in People : \A n \in reached'[p] : n \in reached[p] \/ n <= said',
         clock' \in Nat, clock <= clock', said' = said, edit' = edit,
         jolts' = jolts \/ Disturbs, adrift' \subseteq People, unlisted' \subseteq People,
         bookmark' \in {NoBookmark, bookmark} \cup 0 .. clock
  PROVE  WellTyped'
<1>1. said \in Nat /\ clock \in Nat /\ bookmark \in {NoBookmark} \cup Nat
  BY Constants DEF WellTyped, Shapes
<1>2. walk' \in [Walks -> Journey] /\ \A q \in Walks \ {s} : walk'[q] = walk[q]
  BY DEF Others
<1>3. bookmark' \in {NoBookmark} \cup Nat
  BY <1>1
<1>4. jolts' \in 0 .. MaxJolts
  BY JoltsStay
<1>5. Shapes'
  BY <1>2, <1>3, <1>4 DEF WellTyped, Shapes
<1>6. \A q \in Walks : walk'[q] = walk[q] \/ (WalkPast(walk[q])' /\ WalkSane(walk'[q]))
  BY <1>2
<1>7. bookmark' # NoBookmark => bookmark' <= clock \/ bookmark' = bookmark
  BY <1>1
<1>8. said <= said'
  BY <1>1
<1> QED BY <1>5, <1>6, <1>7, <1>8, TypedAfter

LEMMA SendingTyped ==
  ASSUME WellTyped, NEW s \in Walks,
         LoadsPending(s) \/ (\E d \in walk[s].pending : Pushes(s, d)) \/ MarksPushed(s) \/ MarksFailed(s)
  PROVE  WellTyped'
<1>1. /\ said \in Nat /\ clock \in Nat /\ here \in [People -> Person] /\ there \in [People -> Remote]
      /\ reached \in [People -> SUBSET Nat] /\ adrift \subseteq People /\ unlisted \subseteq People
      /\ walk[s] \in Journey /\ WalkPast(walk[s]) /\ WalkSane(walk[s])
      /\ \A p \in People : PersonPast(here[p])
  BY Constants DEF WellTyped, Shapes, Past
<1>2. /\ walk[s].next <= clock /\ walk[s].key <= clock /\ PersonPast(walk[s].copy)
      /\ walk[s].bookmark # NoBookmark => walk[s].bookmark <= clock
      /\ \A d \in walk[s].pending : d[2] <= said
      /\ walk[s].next \in Nat /\ walk[s].key \in Nat /\ walk[s].copy \in Person
      /\ walk[s].bookmark \in {NoBookmark} \cup Nat
  BY <1>1 DEF WalkPast, Journey
<1>3. CASE LoadsPending(s)
  <2>1. /\ Others(s) /\ Carries(s)
        /\ walk'[s].pc = "push" /\ walk'[s].list = {} /\ walk'[s].next = walk[s].next
        /\ walk'[s].copy = walk[s].copy /\ walk'[s].key = walk[s].key
        /\ \A d \in walk'[s].pending : d[2] <= said
    BY <1>3, LoadsPendingDoes
  <2>2. UNCHANGED <<here, there, clock, bookmark, edit, said, jolts, reached, adrift, unlisted>>
    BY <1>3 DEF LoadsPending
  <2>3. WalkPast(walk[s])'
    BY <1>2, <2>1, <2>2 DEF WalkPast, PersonPast, Carries
  <2>4. WalkSane(walk'[s])
    BY <2>1 DEF WalkSane, Before, After
  <2> QED BY <1>1, <2>1, <2>2, <2>3, <2>4, WalkTyped
<1>4. ASSUME NEW d \in walk[s].pending, Pushes(s, d) PROVE WellTyped'
  <2> DEFINE v == walk'[s].copy.says
  <2>1. /\ d[1] \in People /\ v \in Nat /\ v <= said
        /\ Others(s) /\ Carries(s)
        /\ walk'[s].pc \in {"pushed", "refused"} /\ walk'[s].list = {}
        /\ walk'[s].p = d[1] /\ walk'[s].copy = [walk[s].copy EXCEPT !.says = v]
        /\ walk'[s].pending = walk[s].pending \ {d} /\ walk'[s].next = walk[s].next
        /\ walk'[s].pc = "pushed" => clock' = clock + 1 /\ walk'[s].key = clock + 1
        /\ walk'[s].pc = "refused" => walk'[s].key = 0
        /\ \/ /\ ~there[d[1]].gone /\ clock' = clock + 1
              /\ there' = [there EXCEPT ![d[1]].says = v, ![d[1]].key = clock + 1]
              /\ reached' = [reached EXCEPT ![d[1]] = @ \cup {v}]
           \/ UNCHANGED <<there, clock, reached>>
    BY <1>4, PushesDoes
  <2> HIDE DEF v
  <2>2. UNCHANGED <<here, bookmark, edit, said, adrift, unlisted>>
    BY <1>4 DEF Pushes
  <2>3. jolts' = jolts \/ Disturbs
    BY <1>4 DEF Pushes
  <2>4. clock' \in Nat /\ clock <= clock'
    BY <1>1, <2>1
  <2>5. /\ there' \in [People -> Remote]
        /\ \A p \in People : there'[p] = there[p] \/ (there'[p].says <= said' /\ there'[p].key <= clock')
    <3>1. CASE UNCHANGED <<there, clock, reached>>
      BY <1>1, <3>1
    <3>2. CASE clock' = clock + 1 /\ there' = [there EXCEPT ![d[1]].says = v, ![d[1]].key = clock + 1]
      <4> DEFINE r == [there[d[1]] EXCEPT !.says = v, !.key = clock + 1]
      <4>1. there[d[1]] \in Remote /\ clock + 1 \in Nat
        BY <1>1, <2>1
      <4>2. r \in Remote /\ r.says = v /\ r.key = clock + 1
        BY <2>1, <4>1 DEF Remote
      <4>3. there' = [there EXCEPT ![d[1]] = r]
        BY <1>1, <2>1, <3>2
      <4> HIDE DEF r
      <4> QED BY <1>1, <2>1, <2>2, <3>2, <4>1, <4>2, <4>3
    <3> QED BY <2>1, <3>1, <3>2
  <2>6. /\ reached' \in [People -> SUBSET Nat]
        /\ \A p \in People : \A n \in reached'[p] : n \in reached[p] \/ n <= said'
    BY <1>1, <2>1, <2>2
  <2>7. PersonPast(walk[s].copy)'
    <3>1. walk'[s].copy.says = v /\ walk'[s].copy.key = walk[s].copy.key /\ walk[s].copy.key \in Nat
      BY <1>2, <2>1 DEF Person, v
    <3> QED BY <1>1, <1>2, <2>1, <2>2, <2>4, <3>1 DEF PersonPast
  <2>8. walk'[s].key <= clock'
    BY <1>1, <2>1, <2>4
  <2>9. walk'[s].next <= clock' /\ (walk'[s].bookmark # NoBookmark => walk'[s].bookmark <= clock')
    BY <1>1, <1>2, <2>1, <2>4 DEF Carries
  <2>10. WalkPast(walk[s])'
    BY <1>2, <2>1, <2>2, <2>7, <2>8, <2>9 DEF WalkPast
  <2>11. WalkSane(walk'[s])
    BY <2>1 DEF WalkSane, Before, After
  <2> QED BY <1>1, <2>1, <2>2, <2>3, <2>4, <2>5, <2>6, <2>10, <2>11, WalkTyped
<1>5. CASE MarksPushed(s) \/ MarksFailed(s)
  <2> DEFINE p == walk[s].p
  <2>1. walk[s].pc \in {"pushed", "refused"} /\ walk' = [walk EXCEPT ![s] = DoneWith(s, "push")]
    BY <1>5 DEF MarksPushed, MarksFailed
  <2>2. /\ p \in People /\ Others(s) /\ Carries(s)
        /\ walk'[s].pc = "push" /\ walk'[s].list = {} /\ walk'[s].next = walk[s].next
        /\ walk'[s].pending = walk[s].pending /\ walk'[s].copy = NoContact /\ walk'[s].key = 0
    BY <2>1, SentDoes
  <2>3. UNCHANGED <<there, clock, bookmark, edit, said, reached, unlisted>>
    BY <1>5 DEF MarksPushed, MarksFailed
  <2>4. jolts' = jolts \/ Disturbs
    BY <1>5 DEF MarksPushed, MarksFailed
  <2>5. adrift' \subseteq People
    BY <1>1, <1>5, <2>2 DEF MarksPushed, MarksFailed
  <2>6. /\ here' \in [People -> Person] /\ here'[p].says = here[p].says
        /\ here'[p].key \in {here[p].key, walk[s].key}
        /\ \A q \in People \ {p} : here'[q] = here[q]
    BY <1>5, MarksPushedDoes, MarksFailedDoes
  <2> HIDE DEF p
  <2>7. \A q \in People : here'[q] = here[q] \/ PersonPast(here[q])'
    BY <1>1, <1>2, <2>2, <2>3, <2>6 DEF PersonPast
  <2>8. WalkPast(walk[s])'
    BY <1>1, <1>2, <2>2, <2>3, NoWalkIs DEF WalkPast, PersonPast, Carries
  <2>9. WalkSane(walk'[s])
    BY <2>2 DEF WalkSane, Before, After
  <2> QED BY <1>1, <2>2, <2>3, <2>4, <2>5, <2>6, <2>7, <2>8, <2>9, WalkTyped
<1> QED BY <1>3, <1>4, <1>5

LEMMA TakingTyped ==
  ASSUME WellTyped, NEW s \in Walks,
         \/ Fetches(s) \/ MarksRemoved(s)
         \/ \E e \in walk[s].list : Loads(s, e) \/ Saves(s, e)
  PROVE  WellTyped'
<1>1. /\ said \in Nat /\ clock \in Nat /\ here \in [People -> Person] /\ there \in [People -> Remote]
      /\ reached \in [People -> SUBSET Nat] /\ adrift \subseteq People /\ unlisted \subseteq People
      /\ walk[s] \in Journey /\ WalkPast(walk[s]) /\ WalkSane(walk[s])
      /\ \A p \in People : PersonPast(here[p]) /\ there[p].says <= said /\ there[p].key <= clock
  BY Constants DEF WellTyped, Shapes, Past
<1>2. /\ walk[s].next <= clock /\ walk[s].key <= clock /\ PersonPast(walk[s].copy)
      /\ walk[s].bookmark # NoBookmark => walk[s].bookmark <= clock
      /\ \A d \in walk[s].pending : d[2] <= said
      /\ \A e \in walk[s].list : e.says <= said /\ e.key <= walk[s].next
      /\ walk[s].next \in Nat /\ walk[s].list \subseteq Entry
      /\ walk[s].bookmark \in {NoBookmark} \cup Nat
  BY <1>1 DEF WalkPast, Journey
<1>3. CASE Fetches(s)
  <2>1. /\ walk[s].pc = "push" /\ Others(s) /\ walk'[s].bookmark = NoBookmark
        /\ walk'[s].pc = "take" /\ walk'[s].next = clock /\ walk'[s].pending = walk[s].pending
        /\ walk'[s].copy = walk[s].copy /\ walk'[s].key = walk[s].key
        /\ \A e \in walk'[s].list : e.p \in People /\ e.says = there[e.p].says
                                    /\ e.key = there[e.p].key /\ e.gone = there[e.p].gone
    BY <1>3, FetchesDoes
  <2>2. UNCHANGED <<here, there, clock, bookmark, edit, said, jolts, reached, adrift>>
        /\ unlisted' \subseteq People
    BY <1>1, <1>3 DEF Fetches
  <2>3. \A e \in walk'[s].list : e.says <= said /\ e.key <= clock
    BY <1>1, <2>1
  <2>4. WalkPast(walk[s])'
    BY <1>1, <1>2, <2>1, <2>2, <2>3 DEF WalkPast, PersonPast
  <2>5. WalkSane(walk'[s])
    BY <2>1 DEF WalkSane, Before, After
  <2> QED BY <1>1, <2>1, <2>2, <2>4, <2>5, WalkTyped
<1>4. ASSUME NEW e \in walk[s].list, Loads(s, e) PROVE WellTyped'
  <2>1. /\ walk[s].pc = "take" /\ e \in Entry /\ Others(s) /\ Carries(s)
        /\ walk'[s].pc = "save" /\ walk'[s].p = e.p /\ walk'[s].copy = here[e.p]
        /\ walk'[s].list = walk[s].list /\ walk'[s].pending = walk[s].pending
        /\ walk'[s].next = walk[s].next /\ walk'[s].key = walk[s].key
    BY <1>4, LoadsDoes
  <2>2. UNCHANGED <<here, there, clock, bookmark, edit, said, jolts, reached, adrift, unlisted>>
    BY <1>4 DEF Loads
  <2>3. e.p \in People
    BY <2>1 DEF Entry
  <2>4. PersonPast(walk[s].copy)'
    BY <1>1, <2>1, <2>2, <2>3 DEF PersonPast
  <2>5. WalkPast(walk[s])'
    BY <1>2, <2>1, <2>2, <2>4 DEF WalkPast, Carries
  <2>6. walk[s].bookmark = NoBookmark
    BY <1>1, <2>1 DEF WalkSane, After
  <2>7. WalkSane(walk'[s])
    BY <2>1, <2>3, <2>6 DEF WalkSane, Before, After, Carries
  <2> QED BY <1>1, <2>1, <2>2, <2>5, <2>7, WalkTyped
<1>5. ASSUME NEW e \in walk[s].list, Saves(s, e) PROVE WellTyped'
  <2>1. /\ walk[s].pc = "save" /\ e \in Entry /\ e.p \in People
        /\ walk[s].copy \in Person /\ here[e.p] \in Person /\ Others(s) /\ Carries(s)
        /\ walk'[s].pc = "take" /\ walk'[s].list = walk[s].list \ {e}
        /\ walk'[s].pending = walk[s].pending /\ walk'[s].next = walk[s].next
        /\ walk'[s].copy = NoContact /\ walk'[s].key = 0
        /\ here' \in [People -> Person] /\ \A q \in People \ {e.p} : here'[q] = here[q]
    BY <1>5, SavesDoes
  <2>2. PICK touched \in BOOLEAN : here'[e.p] = Taken(here[e.p], walk[s].copy, e, touched)
    BY <1>5, SavesDoes
  <2>3. UNCHANGED <<there, clock, bookmark, edit, said, jolts, reached, unlisted>>
    BY <1>5 DEF Saves
  <2>4. adrift' \subseteq People
    BY <1>1, <1>5, <2>1 DEF Saves
  <2>5. here'[e.p].says \in {here[e.p].says, e.says} /\ here'[e.p].key \in {here[e.p].key, e.key}
    <3> DEFINE now == here[e.p]
               copy == walk[s].copy
    <3>1. now \in Person /\ copy \in Person /\ e \in Entry
      BY <2>1
    <3> HIDE DEF now, copy
    <3>2. LET h == Taken(now, copy, e, touched) IN
          h.says \in {now.says, e.says} /\ h.key \in {now.key, e.key}
      BY <3>1, TakenIs
    <3>3. here'[e.p] = Taken(now, copy, e, touched)
      BY <2>2 DEF now, copy
    <3>4. here'[e.p].says \in {now.says, e.says} /\ here'[e.p].key \in {now.key, e.key}
      BY <3>2, <3>3
    <3> QED BY <3>4 DEF now
  <2>6. e.says <= said /\ e.key <= clock
    BY <1>1, <1>2, <2>1 DEF Entry
  <2>7. \A q \in People : here'[q] = here[q] \/ PersonPast(here[q])'
    BY <1>1, <2>1, <2>3, <2>5, <2>6 DEF PersonPast
  <2>8. WalkPast(walk[s])'
    BY <1>1, <1>2, <2>1, <2>3, NoWalkIs DEF WalkPast, PersonPast, Carries
  <2>9. walk[s].bookmark = NoBookmark
    BY <1>1, <2>1 DEF WalkSane, After
  <2>10. WalkSane(walk'[s])
    BY <2>1, <2>9 DEF WalkSane, Before, After, Carries
  <2> QED BY <1>1, <2>1, <2>3, <2>4, <2>7, <2>8, <2>10, WalkTyped
<1>6. CASE MarksRemoved(s)
  <2>1. /\ walk[s].pc = "take" /\ Others(s) /\ Carries(s)
        /\ walk'[s].pc = "state" /\ walk'[s].list = {}
        /\ walk'[s].pending = walk[s].pending /\ walk'[s].next = walk[s].next
        /\ walk'[s].copy = walk[s].copy /\ walk'[s].key = walk[s].key
        /\ here' \in [People -> Person]
        /\ \A p \in People : \/ here'[p] = here[p]
                             \/ here'[p].says = here[p].says /\ here'[p].key = here[p].key
    BY <1>6, MarksRemovedDoes
  <2>2. UNCHANGED <<there, clock, bookmark, edit, said, jolts, reached, adrift, unlisted>>
    BY <1>6 DEF MarksRemoved
  <2>3. \A q \in People : here'[q] = here[q] \/ PersonPast(here[q])'
    BY <1>1, <2>1, <2>2 DEF PersonPast
  <2>4. WalkPast(walk[s])'
    BY <1>2, <2>1, <2>2 DEF WalkPast, PersonPast, Carries
  <2>5. walk[s].bookmark = NoBookmark
    BY <1>1, <2>1 DEF WalkSane, After
  <2>6. WalkSane(walk'[s])
    BY <2>1, <2>5 DEF WalkSane, Before, After, Carries
  <2> QED BY <1>1, <2>1, <2>2, <2>3, <2>4, <2>6, WalkTyped
<1> QED BY <1>3, <1>4, <1>5, <1>6

LEMMA StartsTyped ==
  ASSUME WellTyped, NEW s \in Walks, NEW full \in BOOLEAN, WalkStarts(s, full)
  PROVE  WellTyped'
<1>1. /\ said \in Nat /\ clock \in Nat /\ bookmark \in {NoBookmark} \cup Nat
      /\ bookmark # NoBookmark => bookmark <= clock
      /\ walk \in [Walks -> Journey]
      /\ \A q \in Walks : WalkPast(walk[q]) /\ WalkSane(walk[q])
  BY Constants DEF WellTyped, Shapes, Past
<1>2. /\ walk[s].pc = "idle" /\ walk' \in [Walks -> Journey]
      /\ walk'[s].pc = "pending" /\ walk'[s].bookmark \in {NoBookmark, bookmark}
      /\ walk'[s].list = {} /\ walk'[s].pending = {} /\ walk'[s].next = 0 /\ walk'[s].key = 0
      /\ walk'[s].copy = NoContact
      /\ \A q \in Walks \ {s} : /\ walk'[q].pc = walk[q].pc /\ walk'[q].bookmark = walk[q].bookmark
                                /\ walk'[q].pending = walk[q].pending /\ walk'[q].list = walk[q].list
                                /\ walk'[q].next = walk[q].next /\ walk'[q].p = walk[q].p
                                /\ walk'[q].copy = walk[q].copy /\ walk'[q].key = walk[q].key
                                /\ walk'[q].alone = (walk[q].alone /\ q \notin Beside(s))
  BY WalkStartsDoes
<1>3. UNCHANGED <<here, there, clock, bookmark, edit, said, reached, adrift, unlisted>>
      /\ (Disturbs \/ jolts' = jolts)
  BY DEF WalkStarts
<1>4. Shapes'
  BY <1>2, <1>3, JoltsStay DEF WellTyped, Shapes
<1>5. WalkPast(walk[s])' /\ WalkSane(walk'[s])
  BY <1>1, <1>2, <1>3, NoWalkIs DEF WalkPast, PersonPast, WalkSane, Before, After
<1>6. ASSUME NEW q \in Walks \ {s} PROVE WalkPast(walk[q])' /\ WalkSane(walk'[q])
  <2>1. WalkPast(walk[q])'
    BY <1>1, <1>2, <1>3 DEF WalkPast, PersonPast
  <2>2. CASE walk[q].pc = "idle"
    <3>1. walk[q] = NoWalk /\ q \notin Beside(s)
      BY <1>1, <2>2 DEF WalkSane, Beside
    <3>2. walk'[q].alone = TRUE /\ walk'[q] \in Journey /\ walk[q] \in Journey /\ walk[q].alone = TRUE
      BY <1>1, <1>2, <3>1, NoWalkIs
    <3>3. walk'[q] = walk[q]
      BY <1>2, <3>2 DEF Journey
    <3> QED BY <2>1, <3>1, <3>3, NoWalkSane
  <2>3. CASE walk[q].pc # "idle"
    <3>1. WalkSane(walk[q]) /\ walk'[q].pc = walk[q].pc /\ walk'[q].bookmark = walk[q].bookmark
          /\ walk'[q].list = walk[q].list /\ walk'[q].p = walk[q].p
      BY <1>1, <1>2
    <3> QED BY <2>1, <2>3, <3>1 DEF WalkSane
  <2> QED BY <2>2, <2>3
<1>7. said <= said' /\ clock <= clock'
  BY <1>1, <1>3
<1> QED BY <1>3, <1>4, <1>5, <1>6, <1>7, TypedAfter

LEMMA EndsTyped ==
  ASSUME WellTyped, NEW s \in Walks, TokenExpired(s) \/ SavesToken(s) \/ WalkThrows(s)
  PROVE  WellTyped'
<1>1. Others(s) /\ walk'[s] = NoWalk
  BY EndsDoes DEF TokenExpired, SavesToken, WalkThrows
<1>2. /\ UNCHANGED <<here, there, clock, edit, said, reached, adrift, unlisted>>
      /\ (jolts' = jolts \/ Disturbs) /\ bookmark' \in {NoBookmark, bookmark, walk[s].next}
  BY DEF TokenExpired, SavesToken, WalkThrows
<1>3. /\ said \in Nat /\ clock \in Nat /\ walk[s].next \in Nat /\ walk[s].next <= clock
      /\ bookmark \in {NoBookmark} \cup Nat
  BY Constants DEF WellTyped, Shapes, Past, WalkPast, Journey
<1>4. bookmark' \in {NoBookmark, bookmark} \cup 0 .. clock
  BY <1>2, <1>3
<1>5. WalkPast(walk[s])' /\ WalkSane(walk'[s])
  BY <1>1, <1>2, <1>3, NoWalkIs, NoWalkSane DEF WalkPast, PersonPast
<1>6. clock <= clock'
  BY <1>2, <1>3
<1> QED BY <1>1, <1>2, <1>4, <1>5, <1>6, WalkTyped DEF WellTyped, Shapes

LEMMA CrashTyped ==
  ASSUME WellTyped, ContactCrash
  PROVE  WellTyped'
<1>1. walk' = [s \in Walks |-> NoWalk] /\ edit' = [x \in Edits |-> NoEdit]
      /\ UNCHANGED <<here, there, clock, bookmark, said, reached, adrift, unlisted>> /\ Disturbs
  BY DEF ContactCrash
<1>2. said \in Nat /\ clock \in Nat /\ said <= said' /\ clock <= clock'
  BY <1>1, Constants DEF WellTyped, Shapes
<1>3. \A s \in Walks : walk'[s] = NoWalk
  BY <1>1
<1>4. \A x \in Edits : edit'[x] = NoEdit
  BY <1>1
<1>5. Shapes'
  BY <1>1, NoWalkIs, JoltsStay DEF WellTyped, Shapes
<1>6. \A s \in Walks : WalkPast(walk[s])' /\ WalkSane(walk'[s])
  BY <1>1, <1>2, <1>3, NoWalkIs, NoWalkSane DEF WalkPast, PersonPast
<1>7. \A x \in Edits : PersonPast(edit[x].copy)'
  BY <1>1, <1>2, <1>4, NoWalkIs DEF PersonPast
<1> QED BY <1>1, <1>2, <1>5, <1>6, <1>7, TypedAfter

LEMMA StaysTyped ==
  ASSUME WellTyped, UNCHANGED contactVars
  PROVE  WellTyped'
<1>1. UNCHANGED <<here, there, clock, bookmark, walk, edit, said, jolts, reached, adrift, unlisted>>
  BY DEF contactVars
<1> QED BY <1>1 DEF WellTyped, Shapes, Past, PersonPast, WalkPast, WalkSane

LEMMA StepTyped == WellTyped /\ [ContactNext]_contactVars => WellTyped'
<1> SUFFICES ASSUME WellTyped, [ContactNext]_contactVars PROVE WellTyped'
  OBVIOUS
<1>1. ASSUME NEW p \in People, WritesThere(p) \/ RemovesThere(p) \/ Touches(p) PROVE WellTyped'
  BY <1>1, PeopleTyped
<1>2. ASSUME NEW x \in Edits, EditSaves(x) \/ \E p \in People : EditLoads(x, p) PROVE WellTyped'
  BY <1>2, EditsTyped
<1>3. ASSUME NEW s \in Walks, WalkStep(s) PROVE WellTyped'
  <2>1. CASE \E full \in BOOLEAN : WalkStarts(s, full)
    BY <2>1, StartsTyped
  <2>2. CASE LoadsPending(s) \/ (\E d \in walk[s].pending : Pushes(s, d)) \/ MarksPushed(s) \/ MarksFailed(s)
    BY <2>2, SendingTyped
  <2>3. CASE \/ Fetches(s) \/ MarksRemoved(s)
             \/ \E e \in walk[s].list : Loads(s, e) \/ Saves(s, e)
    BY <2>3, TakingTyped
  <2>4. CASE TokenExpired(s) \/ SavesToken(s) \/ WalkThrows(s)
    BY <2>4, EndsTyped
  <2> QED BY <1>3, <2>1, <2>2, <2>3, <2>4 DEF WalkStep
<1>4. CASE ContactCrash
  BY <1>4, CrashTyped
<1>5. CASE UNCHANGED contactVars
  BY <1>5, StaysTyped
<1> QED BY <1>1, <1>2, <1>3, <1>4, <1>5 DEF ContactNext

LEMMA TypedGivesTypes == WellTyped => ContactTypes
<1> SUFFICES ASSUME WellTyped PROVE ContactTypes
  OBVIOUS
<1>1. /\ said \in 0 .. MaxSaid /\ clock \in Nat /\ jolts \in 0 .. MaxJolts /\ MaxSaid \in Nat
      /\ here \in [People -> Person] /\ there \in [People -> Remote] /\ walk \in [Walks -> Journey]
      /\ edit \in [Edits -> EditRecord] /\ bookmark \in {NoBookmark} \cup Nat
      /\ bookmark # NoBookmark => bookmark <= clock
      /\ \A p \in People : PersonPast(here[p]) /\ there[p].says <= said /\ there[p].key <= clock
      /\ \A s \in Walks : WalkPast(walk[s])
      /\ \A x \in Edits : PersonPast(edit[x].copy)
  BY Constants DEF WellTyped, Shapes, Past
<1>2. \A n \in Nat : (n <= said => n \in 0 .. MaxSaid) /\ (n <= clock => n \in 0 .. clock)
  BY <1>1
<1>3. \A h \in Person : PersonPast(h) => h \in Contact
  BY <1>2 DEF Person, Contact, PersonPast, Statuses
<1>4. here \in [People -> Contact]
  BY <1>1, <1>3
<1>5. there \in [People -> [says: 0..MaxSaid, key: 0..clock, gone: BOOLEAN]]
  BY <1>1, <1>2 DEF Remote
<1>6. bookmark \in {NoBookmark} \cup 0 .. clock
  BY <1>1, <1>2
<1>7. ASSUME NEW s \in Walks
      PROVE  /\ walk[s].pc \in {"idle", "pending", "push", "pushed", "refused", "take", "save", "state"}
             /\ walk[s].copy \in Contact /\ walk[s].next \in 0..clock
             /\ walk[s].list \subseteq [p: People, says: 0..MaxSaid, key: 0..clock, gone: BOOLEAN]
  <2>1. /\ walk[s].pc \in Pcs /\ walk[s].copy \in Person /\ walk[s].next \in Nat
        /\ walk[s].list \subseteq Entry
    BY <1>1 DEF Journey
  <2>2. /\ PersonPast(walk[s].copy) /\ walk[s].next <= clock
        /\ \A e \in walk[s].list : e.says <= said /\ e.key <= walk[s].next
    BY <1>1 DEF WalkPast
  <2>3. ASSUME NEW e \in walk[s].list
        PROVE  e \in [p: People, says: 0..MaxSaid, key: 0..clock, gone: BOOLEAN]
    <3>1. e \in Entry /\ e.says \in Nat /\ e.key \in Nat
      BY <2>1 DEF Entry
    <3>2. e.key <= clock
      BY <1>1, <2>1, <2>2, <3>1
    <3>3. e.says \in 0 .. MaxSaid /\ e.key \in 0 .. clock
      BY <1>2, <2>2, <3>1, <3>2
    <3> QED BY <3>1, <3>3 DEF Entry
  <2> QED BY <1>2, <1>3, <2>1, <2>2, <2>3 DEF Pcs
<1>8. \A x \in Edits : edit[x].copy \in Contact
  BY <1>1, <1>3 DEF EditRecord
<1> QED BY <1>1, <1>4, <1>5, <1>6, <1>7, <1>8 DEF ContactTypes

LEMMA AlwaysTyped == ContactSpec => []WellTyped
BY InitTyped, StepTyped, PTL DEF ContactSpec

(* Contacts, walks and edits hold what the code may put there: a time is never later than the *)
(* clock, nor anything said that was not said yet.                                            *)
THEOREM ContactTypesHold == ContactSpec => []ContactTypes
BY AlwaysTyped, TypedGivesTypes, PTL

-------------------------------------------------------------------------------
(* Walks beside one another.                                                  *)

Underway(s) == walk[s].pc # "idle"
Beforehand(s, n) == bookmark = NoBookmark \/ bookmark <= n

(* A walk that says it is alone is: no other is under way, and none has moved the bookmark past *)
(* its page, or up to what it is about to mark as sent.                                         *)
AloneSane(s) ==
  Underway(s) /\ walk[s].alone =>
    /\ \A q \in Walks \ {s} : ~Underway(q)
    /\ walk[s].pc \in After => Beforehand(s, walk[s].next)
    /\ walk[s].pc = "pushed" => /\ bookmark = NoBookmark \/ bookmark < walk[s].key
                                /\ walk[s].bookmark = NoBookmark \/ walk[s].bookmark < walk[s].key

(* A page says what Outlook says of whoever has not changed since. *)
PageTrue(s) ==
  /\ \A e \in walk[s].list :
       there[e.p].key <= walk[s].next =>
         e.says = there[e.p].says /\ e.key = there[e.p].key /\ e.gone = there[e.p].gone
  /\ \A e, f \in walk[s].list : e.p = f.p => e = f

(* What a walk sent is there until somebody writes there. *)
SentTrue(s) ==
  walk[s].pc = "pushed" =>
    LET r == there[walk[s].p] IN
    /\ r.key >= walk[s].key
    /\ r.key = walk[s].key => r.says = walk[s].copy.says /\ ~r.gone

(* What was linked stays linked. *)
CopyLinked(s) == walk[s].pc = "save" /\ walk[s].copy.linked => here[walk[s].p].linked

Agrees(p) == p \notin adrift /\ here[p].linked /\ here[p].status = "synced"

(* A contact in step with the time of a writing says what was written. *)
KeysTrue(p) == Agrees(p) /\ here[p].key = there[p].key => here[p].says = there[p].says
PageKeys(s) ==
  walk[s].alone =>
    \A e \in walk[s].list : Agrees(e.p) /\ here[e.p].key = e.key => here[e.p].says = e.says

(* Whoever is about to mark p synced sent what Outlook says. *)
SentSays(p) ==
  \A s \in Walks : walk[s].pc = "pushed" /\ walk[s].p = p => walk[s].copy.says = there[p].says

(* What Outlook has of p was taken. *)
Has(p) ==
  IF there[p].gone THEN here[p].linked => here[p].removed \/ p \in unlisted \cup adrift
  ELSE /\ here[p].linked
       /\ p \in adrift
          \/ (SentSays(p) /\ (here[p].status = "synced" => here[p].says = there[p].says))

(* All that Outlook wrote up to t was taken, or is on the page L. *)
Covered(t, L) ==
  \A p \in People : 0 < there[p].key /\ there[p].key <= t => Has(p) \/ \E e \in L : e.p = p

Covering ==
  /\ bookmark # NoBookmark => Covered(bookmark, {})
  /\ \A s \in Walks :
       /\ walk[s].bookmark # NoBookmark => Covered(walk[s].bookmark, {})
       /\ walk[s].pc \in After => Covered(walk[s].next, walk[s].list)

(* What Outlook was told, and who has an edit it was not told. *)
Heard ==
  /\ \A p \in People : /\ there[p].says \in reached[p]
                       /\ p \notin adrift /\ here[p].linked /\ here[p].says \notin reached[p] =>
                            here[p].touched
  /\ \A s \in Walks : /\ \A e \in walk[s].list : e.says \in reached[e.p]
                      /\ walk[s].pc = "pushed" => walk[s].copy.says \in reached[walk[s].p]

WalksSane ==
  \A s \in Walks : AloneSane(s) /\ PageTrue(s) /\ SentTrue(s) /\ CopyLinked(s) /\ PageKeys(s)
Sound == WellTyped /\ WalksSane /\ (\A p \in People : KeysTrue(p)) /\ Covering /\ Heard

(* What any step does to the walks it is not a step of. *)
LEMMA AloneStays ==
  ASSUME WellTyped, WellTyped', NEW s \in Walks, \A q \in Walks : AloneSane(q), Others(s), Underway(s),
         bookmark' = bookmark \/ ~Underway(s)',
         Underway(s)' => walk'[s].alone = walk[s].alone,
         Underway(s)' /\ walk[s].alone =>
           /\ walk'[s].pc \in After => Beforehand(s, walk[s].next)'
           /\ walk'[s].pc = "pushed" =>
                /\ bookmark' = NoBookmark \/ bookmark' < walk'[s].key
                /\ walk'[s].bookmark = NoBookmark \/ walk'[s].bookmark < walk'[s].key
  PROVE  \A q \in Walks : AloneSane(q)'
<1>1. ASSUME NEW q \in Walks, q # s PROVE AloneSane(q)'
  <2>1. walk'[q] = walk[q]
    BY <1>1 DEF Others
  <2> QED BY <1>1, <2>1 DEF AloneSane, Underway
<1>2. AloneSane(s)'
  <2> SUFFICES ASSUME Underway(s)', walk'[s].alone
               PROVE  /\ \A q \in Walks \ {s} : ~Underway(q)'
                      /\ walk'[s].pc \in After => Beforehand(s, walk[s].next)'
                      /\ walk'[s].pc = "pushed" =>
                           /\ bookmark' = NoBookmark \/ bookmark' < walk'[s].key
                           /\ walk'[s].bookmark = NoBookmark \/ walk'[s].bookmark < walk'[s].key
    BY DEF AloneSane
  <2>1. walk[s].alone /\ \A q \in Walks \ {s} : ~Underway(q)
    BY DEF AloneSane
  <2>2. \A q \in Walks \ {s} : ~Underway(q)'
    BY <2>1 DEF Others, Underway
  <2> QED BY <2>1, <2>2
<1> QED BY <1>1, <1>2

LEMMA AloneSteps ==
  ASSUME WellTyped, WellTyped', \A s \in Walks : AloneSane(s), [ContactNext]_contactVars
  PROVE  \A s \in Walks : AloneSane(s)'
<1>1. /\ clock \in Nat /\ bookmark \in {NoBookmark} \cup Nat /\ walk \in [Walks -> Journey]
      /\ bookmark # NoBookmark => bookmark <= clock
      /\ \A s \in Walks : walk[s].bookmark # NoBookmark => walk[s].bookmark <= clock
      /\ \A s \in Walks : walk[s].bookmark \in {NoBookmark} \cup Nat
  BY DEF WellTyped, Shapes, Past, WalkPast, Journey
<1>2. CASE UNCHANGED <<walk, bookmark>>
  BY <1>2 DEF AloneSane, Underway, Beforehand
<1>3. ASSUME NEW s \in Walks, NEW full \in BOOLEAN, WalkStarts(s, full)
      PROVE  \A q \in Walks : AloneSane(q)'
  <2>1. /\ walk[s].pc = "idle" /\ walk'[s].pc = "pending" /\ walk'[s].alone = (Beside(s) = {})
        /\ \A q \in Walks \ {s} : walk'[q].pc = walk[q].pc
                                  /\ walk'[q].alone = (walk[q].alone /\ q \notin Beside(s))
    BY <1>3, WalkStartsDoes
  <2>2. ASSUME NEW q \in Walks \ {s} PROVE ~(Underway(q)' /\ walk'[q].alone)
    BY <2>1 DEF Underway, Beside
  <2>3. walk'[s].alone => \A q \in Walks \ {s} : ~Underway(q)'
    BY <2>1 DEF Underway, Beside
  <2>4. AloneSane(s)'
    BY <2>1, <2>3 DEF AloneSane, After
  <2> QED BY <2>2, <2>4 DEF AloneSane
<1>4. ASSUME NEW s \in Walks, LoadsPending(s) PROVE \A q \in Walks : AloneSane(q)'
  BY <1>4, LoadsPendingDoes, AloneStays DEF LoadsPending, Underway, After, Carries
<1>5. ASSUME NEW s \in Walks, NEW d \in walk[s].pending, Pushes(s, d)
      PROVE  \A q \in Walks : AloneSane(q)'
  <2>1. /\ Others(s) /\ Carries(s) /\ walk[s].pc = "push" /\ walk'[s].pc \in {"pushed", "refused"}
        /\ walk'[s].pc = "pushed" => walk'[s].key = clock + 1
    BY <1>5, PushesDoes
  <2>2. bookmark' = bookmark
    BY <1>5 DEF Pushes
  <2>3. walk'[s].pc = "pushed" =>
          /\ bookmark' = NoBookmark \/ bookmark' < walk'[s].key
          /\ walk'[s].bookmark = NoBookmark \/ walk'[s].bookmark < walk'[s].key
    BY <1>1, <2>1, <2>2 DEF Carries
  <2> QED BY <2>1, <2>2, <2>3, AloneStays DEF Underway, After, Carries
<1>6. ASSUME NEW s \in Walks, MarksPushed(s) \/ MarksFailed(s) PROVE \A q \in Walks : AloneSane(q)'
  <2>1. /\ walk[s].pc \in {"pushed", "refused"} /\ walk' = [walk EXCEPT ![s] = DoneWith(s, "push")]
        /\ bookmark' = bookmark
    BY <1>6 DEF MarksPushed, MarksFailed
  <2>2. Others(s) /\ Carries(s) /\ walk'[s].pc = "push"
    BY <2>1, SentDoes
  <2> QED BY <2>1, <2>2, AloneStays DEF Underway, After, Carries
<1>7. ASSUME NEW s \in Walks, Fetches(s) PROVE \A q \in Walks : AloneSane(q)'
  <2>1. /\ walk[s].pc = "push" /\ Others(s) /\ walk'[s].alone = walk[s].alone
        /\ walk'[s].pc = "take" /\ walk'[s].next = clock
    BY <1>7, FetchesDoes
  <2>2. bookmark' = bookmark
    BY <1>7 DEF Fetches
  <2>3. Beforehand(s, walk[s].next)'
    BY <1>1, <2>1, <2>2 DEF Beforehand
  <2> QED BY <2>1, <2>2, <2>3, AloneStays DEF Underway
<1>8. ASSUME NEW s \in Walks,
             (\E e \in walk[s].list : Loads(s, e) \/ Saves(s, e)) \/ MarksRemoved(s)
      PROVE  \A q \in Walks : AloneSane(q)'
  <2>1. /\ walk[s].pc \in After /\ Others(s) /\ Carries(s) /\ walk'[s].next = walk[s].next
        /\ walk'[s].pc \in After
    BY <1>8, LoadsDoes, SavesDoes, MarksRemovedDoes DEF After
  <2>2. bookmark' = bookmark
    BY <1>8 DEF Loads, Saves, MarksRemoved
  <2>3. walk[s].pc \notin {"idle", "pushed"} /\ walk'[s].pc \notin {"idle", "pushed"}
    BY <2>1 DEF After
  <2>4. walk[s].alone => Beforehand(s, walk[s].next)
    BY <2>1, <2>3 DEF AloneSane, Underway
  <2>5. Beforehand(s, walk[s].next) => Beforehand(s, walk[s].next)'
    BY <2>1, <2>2 DEF Beforehand
  <2> QED BY <2>1, <2>2, <2>3, <2>4, <2>5, AloneStays DEF Underway, Carries
<1>9. ASSUME NEW s \in Walks, TokenExpired(s) \/ SavesToken(s) \/ WalkThrows(s)
      PROVE  \A q \in Walks : AloneSane(q)'
  <2>1. walk[s].pc # "idle" /\ walk' = [walk EXCEPT ![s] = NoWalk]
    BY <1>9 DEF TokenExpired, SavesToken, WalkThrows
  <2>2. Others(s) /\ walk'[s].pc = "idle"
    BY <2>1, EndsDoes, NoWalkIs
  <2> QED BY <2>1, <2>2, AloneStays DEF Underway
<1>10. CASE ContactCrash
  <2>1. \A s \in Walks : walk'[s].pc = "idle"
    BY <1>10, NoWalkIs DEF ContactCrash
  <2> QED BY <2>1 DEF AloneSane, Underway
<1>11. ASSUME NEW s \in Walks, WalkStep(s) PROVE \A q \in Walks : AloneSane(q)'
  BY <1>3, <1>4, <1>5, <1>6, <1>7, <1>8, <1>9, <1>11 DEF WalkStep
<1> QED BY <1>2, <1>10, <1>11 DEF ContactNext, contactVars, WritesThere, RemovesThere, Touches,
                                  EditSaves, EditLoads

(* What is written at Outlook is written now. *)
LEMMA ThereMoves ==
  ASSUME WellTyped, [ContactNext]_contactVars
  PROVE  \A p \in People : there'[p] = there[p] \/ there'[p].key = clock + 1
<1>1. there \in [People -> Remote] /\ clock \in Nat
  BY DEF WellTyped, Shapes
<1>2. CASE there' = there
  BY <1>2
<1>3. ASSUME NEW q \in People, WritesThere(q) \/ RemovesThere(q)
      PROVE  \A p \in People : there'[p] = there[p] \/ there'[p].key = clock + 1
  BY <1>3, WritesThereDoes, RemovesThereDoes
<1>4. ASSUME NEW s \in Walks, NEW d \in walk[s].pending, Pushes(s, d)
      PROVE  \A p \in People : there'[p] = there[p] \/ there'[p].key = clock + 1
  <2> DEFINE v == walk'[s].copy.says
  <2>1. /\ d[1] \in People /\ v \in Nat
        /\ \/ there' = [there EXCEPT ![d[1]].says = v, ![d[1]].key = clock + 1]
           \/ there' = there
    BY <1>4, PushesDoes
  <2> HIDE DEF v
  <2>2. there[d[1]] \in Remote /\ clock + 1 \in Nat
    BY <1>1, <2>1
  <2> DEFINE r == [there[d[1]] EXCEPT !.says = v, !.key = clock + 1]
  <2>3. r.key = clock + 1
    BY <2>1, <2>2 DEF Remote
  <2>4. there' = there \/ there' = [there EXCEPT ![d[1]] = r]
    BY <1>1, <2>1
  <2> HIDE DEF r
  <2> QED BY <1>1, <2>1, <2>3, <2>4
<1>5. ASSUME NEW s \in Walks, WalkStep(s), \A d \in walk[s].pending : ~Pushes(s, d)
      PROVE  there' = there
  BY <1>5 DEF WalkStep, WalkStarts, LoadsPending, MarksPushed, MarksFailed, Fetches, TokenExpired,
              Loads, Saves, MarksRemoved, SavesToken, WalkThrows
<1> QED BY <1>2, <1>3, <1>4, <1>5 DEF ContactNext, contactVars, Touches, EditSaves, EditLoads,
                                       ContactCrash

(* What was linked stays so. *)
LEMMA LinksStay ==
  ASSUME WellTyped, \A s \in Walks : CopyLinked(s), [ContactNext]_contactVars
  PROVE  \A p \in People : here[p].linked => here'[p].linked
<1>1. CASE here' = here
  BY <1>1
<1>2. ASSUME NEW q \in People, Touches(q)
      PROVE  \A p \in People : here[p].linked => here'[p].linked
  BY <1>2, TouchesDoes
<1>3. ASSUME NEW x \in Edits, EditSaves(x)
      PROVE  \A p \in People : here[p].linked => here'[p].linked
  BY <1>3, EditSavesDoes
<1>4. ASSUME NEW s \in Walks, MarksPushed(s) \/ MarksFailed(s)
      PROVE  \A p \in People : here[p].linked => here'[p].linked
  BY <1>4, MarksPushedDoes, MarksFailedDoes
<1>5. ASSUME NEW s \in Walks, MarksRemoved(s)
      PROVE  \A p \in People : here[p].linked => here'[p].linked
  BY <1>5, MarksRemovedDoes
<1>6. ASSUME NEW s \in Walks, NEW e \in walk[s].list, Saves(s, e)
      PROVE  \A p \in People : here[p].linked => here'[p].linked
  <2> DEFINE now == here[e.p]
             copy == walk[s].copy
  <2>1. /\ now \in Person /\ copy \in Person /\ e \in Entry
        /\ \A q \in People \ {e.p} : here'[q] = here[q]
    BY <1>6, SavesDoes
  <2>2. PICK touched \in BOOLEAN : here'[e.p] = Taken(now, copy, e, touched)
    BY <1>6, SavesDoes
  <2> HIDE DEF now, copy
  <2>3. LET h == Taken(now, copy, e, touched) IN
        /\ copy.linked => h.linked = now.linked
        /\ ~copy.linked => h.linked
    BY <2>1, TakenIs
  <2>4. copy.linked \in BOOLEAN /\ now.linked \in BOOLEAN
    BY <2>1 DEF Person
  <2>5. now.linked => here'[e.p].linked
    BY <2>2, <2>3, <2>4
  <2> QED BY <2>1, <2>5 DEF now
<1>7. ASSUME NEW s \in Walks, WalkStep(s), ~MarksPushed(s), ~MarksFailed(s), ~MarksRemoved(s),
             \A e \in walk[s].list : ~Saves(s, e)
      PROVE  here' = here
  BY <1>7 DEF WalkStep, WalkStarts, LoadsPending, Pushes, Fetches, TokenExpired,
              Loads, SavesToken, WalkThrows
<1> QED BY <1>1, <1>2, <1>3, <1>4, <1>5, <1>6, <1>7
        DEF ContactNext, contactVars, WritesThere, RemovesThere, EditLoads, ContactCrash

(* A step of a walk under way moves no other. *)
LEMMA WalksApart ==
  ASSUME WellTyped, NEW q \in Walks, WalkStep(q), \A full \in BOOLEAN : ~WalkStarts(q, full),
         NEW s \in Walks \ {q}
  PROVE  walk'[s] = walk[s]
<1>1. walk' = [walk EXCEPT ![q] = walk'[q]]
  BY DEF WalkStep, LoadsPending, Pushes, MarksPushed, MarksFailed, Fetches, TokenExpired,
         Loads, Saves, MarksRemoved, SavesToken, WalkThrows, WellTyped, Shapes
<1> QED BY <1>1 DEF WellTyped, Shapes

(* A page is fetched, is taken in, or stays. *)
LEMMA PagesMove ==
  ASSUME WellTyped, [ContactNext]_contactVars, NEW s \in Walks
  PROVE  \/ walk'[s].list \subseteq walk[s].list /\ walk'[s].next = walk[s].next
         \/ walk'[s].list = {} /\ walk'[s].pc \notin After
         \/ Fetches(s)
<1>1. CASE walk'[s] = walk[s]
  BY <1>1
<1>2. CASE walk'[s] = NoWalk
  BY <1>2, NoWalkIs DEF After
<1>3. ASSUME NEW q \in Walks, NEW full \in BOOLEAN, WalkStarts(q, full)
      PROVE  \/ walk'[s].list \subseteq walk[s].list /\ walk'[s].next = walk[s].next
             \/ walk'[s].list = {} /\ walk'[s].pc \notin After
  <2>1. CASE q = s
    BY <1>3, <2>1, WalkStartsDoes DEF After
  <2>2. CASE q # s
    <3>1. \A r \in Walks \ {q} : walk'[r].list = walk[r].list /\ walk'[r].next = walk[r].next
      BY <1>3, WalkStartsDoes
    <3> QED BY <2>2, <3>1
  <2> QED BY <2>1, <2>2
<1>4. ASSUME WalkStep(s), \A full \in BOOLEAN : ~WalkStarts(s, full), ~Fetches(s), walk'[s] # NoWalk
      PROVE  walk'[s].list \subseteq walk[s].list /\ walk'[s].next = walk[s].next
  <2>1. CASE LoadsPending(s)
    BY <2>1, LoadsPendingDoes
  <2>2. ASSUME NEW d \in walk[s].pending, Pushes(s, d)
        PROVE  walk'[s].list \subseteq walk[s].list /\ walk'[s].next = walk[s].next
    BY <2>2, PushesDoes
  <2>3. CASE MarksPushed(s) \/ MarksFailed(s)
    <3>1. walk[s].pc \in {"pushed", "refused"} /\ walk' = [walk EXCEPT ![s] = DoneWith(s, "push")]
      BY <2>3 DEF MarksPushed, MarksFailed
    <3> QED BY <3>1, SentDoes
  <2>4. ASSUME NEW e \in walk[s].list, Loads(s, e) \/ Saves(s, e)
        PROVE  walk'[s].list \subseteq walk[s].list /\ walk'[s].next = walk[s].next
    BY <2>4, LoadsDoes, SavesDoes
  <2>5. CASE MarksRemoved(s)
    BY <2>5, MarksRemovedDoes
  <2>6. CASE TokenExpired(s) \/ SavesToken(s) \/ WalkThrows(s)
    BY <1>4, <2>6, EndsDoes DEF TokenExpired, SavesToken, WalkThrows
  <2> QED BY <1>4, <2>1, <2>2, <2>3, <2>4, <2>5, <2>6 DEF WalkStep
<1>5. ASSUME NEW q \in Walks \ {s}, WalkStep(q), \A full \in BOOLEAN : ~WalkStarts(q, full)
      PROVE  walk'[s] = walk[s]
  BY <1>5, WalksApart
<1>6. CASE ContactCrash
  BY <1>2, <1>6 DEF ContactCrash
<1> QED BY <1>1, <1>2, <1>3, <1>4, <1>5, <1>6
        DEF ContactNext, contactVars, WritesThere, RemovesThere, Touches, EditSaves, EditLoads

LEMMA PageTrueSteps ==
  ASSUME WellTyped, \A s \in Walks : PageTrue(s), [ContactNext]_contactVars
  PROVE  \A s \in Walks : PageTrue(s)'
<1> SUFFICES ASSUME NEW s \in Walks PROVE PageTrue(s)'
  OBVIOUS
<1>1. /\ clock \in Nat /\ walk[s].next \in Nat /\ walk[s].next <= clock /\ walk[s].list \subseteq Entry
      /\ there \in [People -> Remote]
  BY DEF WellTyped, Shapes, Past, WalkPast, Journey
<1>2. CASE walk'[s].list \subseteq walk[s].list /\ walk'[s].next = walk[s].next
  <2>1. \A p \in People : there'[p].key <= walk[s].next => there'[p] = there[p]
    BY <1>1, ThereMoves
  <2>2. \A e \in walk'[s].list : e \in walk[s].list /\ e.p \in People
    BY <1>1, <1>2 DEF Entry
  <2> QED BY <1>2, <2>1, <2>2 DEF PageTrue
<1>3. CASE walk'[s].list = {}
  BY <1>3 DEF PageTrue
<1>4. CASE Fetches(s)
  <2>1. /\ there' = there
        /\ \A e \in walk'[s].list : e.p \in People /\ e.says = there[e.p].says
                                    /\ e.key = there[e.p].key /\ e.gone = there[e.p].gone
        /\ walk'[s].list \subseteq Entry
    <3>1. there' = there /\ Others(s)
      BY <1>4, FetchesDoes DEF Fetches
    <3>2. walk'[s].list \subseteq Entry
      BY <3>1 DEF Others, Journey
    <3> QED BY <1>4, <3>1, <3>2, FetchesDoes
  <2>2. \A e, f \in walk'[s].list : e.p = f.p => e = f
    BY <2>1 DEF Entry
  <2> QED BY <2>1, <2>2 DEF PageTrue
<1> QED BY <1>2, <1>3, <1>4, PagesMove

(* A walk about to mark a contact was so, or has just sent it. *)
LEMMA SentMoves ==
  ASSUME WellTyped, [ContactNext]_contactVars, NEW s \in Walks, walk'[s].pc = "pushed"
  PROVE  \/ /\ walk[s].pc = "pushed" /\ walk'[s].p = walk[s].p /\ walk'[s].copy = walk[s].copy
            /\ walk'[s].key = walk[s].key
         \/ \E d \in walk[s].pending : Pushes(s, d)
<1>1. CASE walk'[s] = walk[s]
  BY <1>1
<1>2. CASE walk'[s] = NoWalk
  BY <1>2, NoWalkIs
<1>3. ASSUME NEW q \in Walks, NEW full \in BOOLEAN, WalkStarts(q, full)
      PROVE  /\ walk[s].pc = "pushed" /\ walk'[s].p = walk[s].p /\ walk'[s].copy = walk[s].copy
             /\ walk'[s].key = walk[s].key
  BY <1>3, WalkStartsDoes
<1>4. ASSUME WalkStep(s), \A full \in BOOLEAN : ~WalkStarts(s, full),
             \A d \in walk[s].pending : ~Pushes(s, d), walk'[s] # NoWalk
      PROVE  FALSE
  <2>1. CASE LoadsPending(s)
    BY <2>1, LoadsPendingDoes
  <2>2. CASE MarksPushed(s) \/ MarksFailed(s)
    <3>1. walk[s].pc \in {"pushed", "refused"} /\ walk' = [walk EXCEPT ![s] = DoneWith(s, "push")]
      BY <2>2 DEF MarksPushed, MarksFailed
    <3> QED BY <3>1, SentDoes
  <2>3. ASSUME NEW e \in walk[s].list, Loads(s, e) \/ Saves(s, e)
        PROVE  FALSE
    BY <2>3, LoadsDoes, SavesDoes
  <2>4. CASE Fetches(s) \/ MarksRemoved(s)
    BY <2>4, FetchesDoes, MarksRemovedDoes
  <2>5. CASE TokenExpired(s) \/ SavesToken(s) \/ WalkThrows(s)
    BY <1>4, <2>5, EndsDoes DEF TokenExpired, SavesToken, WalkThrows
  <2> QED BY <1>4, <2>1, <2>2, <2>3, <2>4, <2>5 DEF WalkStep
<1>5. ASSUME NEW q \in Walks \ {s}, WalkStep(q), \A full \in BOOLEAN : ~WalkStarts(q, full)
      PROVE  walk'[s] = walk[s]
  BY <1>5, WalksApart
<1>6. CASE ContactCrash
  BY <1>2, <1>6 DEF ContactCrash
<1> QED BY <1>1, <1>2, <1>3, <1>4, <1>5, <1>6
        DEF ContactNext, contactVars, WritesThere, RemovesThere, Touches, EditSaves, EditLoads

(* A walk about to save a contact was so, or has just loaded it. *)
LEMMA EditLoadMoves ==
  ASSUME WellTyped, [ContactNext]_contactVars, NEW s \in Walks, walk'[s].pc = "save"
  PROVE  \/ walk[s].pc = "save" /\ walk'[s].p = walk[s].p /\ walk'[s].copy = walk[s].copy
         \/ \E e \in walk[s].list : Loads(s, e)
<1>1. CASE walk'[s] = walk[s]
  BY <1>1
<1>2. CASE walk'[s] = NoWalk
  BY <1>2, NoWalkIs
<1>3. ASSUME NEW q \in Walks, NEW full \in BOOLEAN, WalkStarts(q, full)
      PROVE  walk[s].pc = "save" /\ walk'[s].p = walk[s].p /\ walk'[s].copy = walk[s].copy
  BY <1>3, WalkStartsDoes
<1>4. ASSUME WalkStep(s), \A full \in BOOLEAN : ~WalkStarts(s, full),
             \A e \in walk[s].list : ~Loads(s, e), walk'[s] # NoWalk
      PROVE  FALSE
  <2>1. CASE LoadsPending(s)
    BY <2>1, LoadsPendingDoes
  <2>2. CASE MarksPushed(s) \/ MarksFailed(s)
    <3>1. walk[s].pc \in {"pushed", "refused"} /\ walk' = [walk EXCEPT ![s] = DoneWith(s, "push")]
      BY <2>2 DEF MarksPushed, MarksFailed
    <3> QED BY <3>1, SentDoes
  <2>3. ASSUME NEW e \in walk[s].list, Saves(s, e) PROVE FALSE
    BY <2>3, SavesDoes
  <2>4. ASSUME NEW d \in walk[s].pending, Pushes(s, d) PROVE FALSE
    BY <2>4, PushesDoes
  <2>5. CASE Fetches(s) \/ MarksRemoved(s)
    BY <2>5, FetchesDoes, MarksRemovedDoes
  <2>6. CASE TokenExpired(s) \/ SavesToken(s) \/ WalkThrows(s)
    BY <1>4, <2>6, EndsDoes DEF TokenExpired, SavesToken, WalkThrows
  <2> QED BY <1>4, <2>1, <2>2, <2>3, <2>4, <2>5, <2>6 DEF WalkStep
<1>5. ASSUME NEW q \in Walks \ {s}, WalkStep(q), \A full \in BOOLEAN : ~WalkStarts(q, full)
      PROVE  walk'[s] = walk[s]
  BY <1>5, WalksApart
<1>6. CASE ContactCrash
  BY <1>2, <1>6 DEF ContactCrash
<1> QED BY <1>1, <1>2, <1>3, <1>4, <1>5, <1>6
        DEF ContactNext, contactVars, WritesThere, RemovesThere, Touches, EditSaves, EditLoads

LEMMA CopyLinkedSteps ==
  ASSUME WellTyped, \A s \in Walks : CopyLinked(s), [ContactNext]_contactVars
  PROVE  \A s \in Walks : CopyLinked(s)'
<1> SUFFICES ASSUME NEW s \in Walks, walk'[s].pc = "save", walk'[s].copy.linked
             PROVE  here'[walk'[s].p].linked
  BY DEF CopyLinked
<1>1. CASE walk[s].pc = "save" /\ walk'[s].p = walk[s].p /\ walk'[s].copy = walk[s].copy
  <2>1. walk[s].p \in People
    BY <1>1 DEF WellTyped, WalkSane
  <2> QED BY <1>1, <2>1, LinksStay DEF CopyLinked
<1>2. ASSUME NEW e \in walk[s].list, Loads(s, e) PROVE here'[walk'[s].p].linked
  <2>1. walk'[s].p = e.p /\ walk'[s].copy = here[e.p] /\ here' = here
    BY <1>2, LoadsDoes DEF Loads
  <2> QED BY <2>1
<1> QED BY <1>1, <1>2, EditLoadMoves

LEMMA SentTrueSteps ==
  ASSUME WellTyped, \A s \in Walks : SentTrue(s), [ContactNext]_contactVars
  PROVE  \A s \in Walks : SentTrue(s)'
<1> SUFFICES ASSUME NEW s \in Walks, walk'[s].pc = "pushed"
             PROVE  /\ there'[walk'[s].p].key >= walk'[s].key
                    /\ there'[walk'[s].p].key = walk'[s].key =>
                         there'[walk'[s].p].says = walk'[s].copy.says /\ ~there'[walk'[s].p].gone
  BY DEF SentTrue
<1>1. /\ clock \in Nat /\ walk[s].key \in Nat /\ walk[s].key <= clock /\ there \in [People -> Remote]
      /\ WalkSane(walk[s]) /\ walk[s].copy \in Person
  BY DEF WellTyped, Shapes, Past, WalkPast, Journey
<1>2. CASE /\ walk[s].pc = "pushed" /\ walk'[s].p = walk[s].p /\ walk'[s].copy = walk[s].copy
           /\ walk'[s].key = walk[s].key
  <2>1. walk[s].p \in People
    BY <1>1, <1>2 DEF WalkSane
  <2>2. there'[walk[s].p] = there[walk[s].p] \/ there'[walk[s].p].key = clock + 1
    BY <2>1, ThereMoves
  <2> QED BY <1>1, <1>2, <2>1, <2>2 DEF SentTrue
<1>3. ASSUME NEW d \in walk[s].pending, Pushes(s, d)
      PROVE  /\ there'[walk'[s].p].key >= walk'[s].key
             /\ there'[walk'[s].p].says = walk'[s].copy.says /\ ~there'[walk'[s].p].gone
  <2> DEFINE v == walk'[s].copy.says
  <2>1. /\ d[1] \in People /\ v \in Nat /\ walk'[s].p = d[1] /\ walk'[s].key = clock + 1
        /\ clock' = clock + 1
        /\ \/ /\ ~there[d[1]].gone
              /\ there' = [there EXCEPT ![d[1]].says = v, ![d[1]].key = clock + 1]
           \/ clock' = clock
    BY <1>3, PushesDoes
  <2>2. there[d[1]] \in Remote /\ clock + 1 \in Nat /\ clock' # clock
    BY <1>1, <2>1
  <2> DEFINE r == [there[d[1]] EXCEPT !.says = v, !.key = clock + 1]
  <2>3. r.says = v /\ r.key = clock + 1 /\ r.gone = there[d[1]].gone
    BY <2>1, <2>2 DEF Remote
  <2>4. there' = [there EXCEPT ![d[1]] = r] /\ ~there[d[1]].gone
    BY <1>1, <2>1, <2>2
  <2> HIDE DEF r
  <2>5. there'[d[1]] = r
    BY <1>1, <2>1, <2>4
  <2> QED BY <2>1, <2>2, <2>3, <2>4, <2>5
<1> QED BY <1>2, <1>3, SentMoves

(* A save that leaves the contact in step wrote what the page says of it. *)
LEMMA SavesFaithful ==
  ASSUME WellTyped, NEW s \in Walks, NEW e \in walk[s].list, Saves(s, e), e.p \notin adrift'
  PROVE  /\ here[e.p] = walk[s].copy /\ walk[s].alone
         /\ \/ /\ e.p \notin adrift /\ here[e.p].linked /\ here[e.p].key = e.key
               /\ here'[e.p] = [here[e.p] EXCEPT !.touched = TRUE]
            \/ /\ here'[e.p].key = e.key /\ here'[e.p].says = e.says
               /\ here[e.p].linked => /\ here[e.p].key # e.key
                                      /\ Clashes(here[e.p], e) => here'[e.p].status = "conflict"
<1> DEFINE now == here[e.p]
           copy == walk[s].copy
<1>1. now \in Person /\ copy \in Person /\ e \in Entry
  BY SavesDoes
<1>2. PICK touched \in BOOLEAN : here'[e.p] = Taken(now, copy, e, touched)
  BY SavesDoes
<1>3. /\ now = copy /\ walk[s].alone
      /\ ~copy.linked /\ copy.status # "none" => copy.says \in {Blank, e.says}
      /\ copy.linked /\ copy.key = e.key => e.p \notin adrift
  BY DEF Saves
<1> HIDE DEF now, copy
<1>4. LET h == Taken(now, copy, e, touched) IN
      /\ copy.linked /\ copy.key = e.key => h = [now EXCEPT !.touched = TRUE]
      /\ copy.linked /\ copy.key # e.key =>
           /\ h.key = e.key /\ h.says = Kept(e.says, copy.says, now.says)
           /\ h.status = Kept(IF Clashes(copy, e) THEN "conflict" ELSE "synced", copy.status,
                              now.status)
      /\ ~copy.linked /\ copy.status # "none" =>
           /\ h.key = e.key
           /\ h.says = IF copy.says = Blank THEN Kept(e.says, Blank, now.says) ELSE now.says
      /\ ~copy.linked /\ copy.status = "none" /\ ~now.linked => h.key = e.key /\ h.says = e.says
  BY <1>1, TakenIs
<1> DEFINE h == here'[e.p]
<1>5. /\ copy.linked /\ copy.key = e.key => h = [now EXCEPT !.touched = TRUE]
      /\ copy.linked /\ copy.key # e.key =>
           /\ h.key = e.key /\ h.says = Kept(e.says, copy.says, now.says)
           /\ h.status = Kept(IF Clashes(copy, e) THEN "conflict" ELSE "synced", copy.status,
                              now.status)
      /\ ~copy.linked /\ copy.status # "none" =>
           /\ h.key = e.key
           /\ h.says = IF copy.says = Blank THEN Kept(e.says, Blank, now.says) ELSE now.says
      /\ ~copy.linked /\ copy.status = "none" /\ ~now.linked => h.key = e.key /\ h.says = e.says
  BY <1>2, <1>4
<1> HIDE DEF h
<1>6. CASE copy.linked /\ copy.key = e.key
  BY <1>3, <1>5, <1>6 DEF now, copy, h
<1>7. CASE copy.linked /\ copy.key # e.key
  <2>1. h.says = e.says
    BY <1>3, <1>5, <1>7 DEF Kept
  <2>2. Clashes(copy, e) => h.status = "conflict"
    BY <1>3, <1>5, <1>7 DEF Kept
  <2> QED BY <1>3, <1>5, <1>7, <2>1, <2>2 DEF now, copy, h
<1>8. CASE ~copy.linked
  <2>1. h.key = e.key /\ h.says = e.says
    BY <1>3, <1>5, <1>8 DEF Kept
  <2> QED BY <1>3, <1>8, <2>1 DEF now, copy, h
<1> QED BY <1>6, <1>7, <1>8

LEMMA KeysTrueSteps ==
  ASSUME WellTyped, WalksSane, \A p \in People : KeysTrue(p), [ContactNext]_contactVars
  PROVE  \A p \in People : KeysTrue(p)'
<1> SUFFICES ASSUME NEW p \in People PROVE KeysTrue(p)'
  OBVIOUS
<1>1. /\ clock \in Nat /\ here \in [People -> Person] /\ there \in [People -> Remote]
      /\ \A q \in People : here[q].key <= clock
  BY DEF WellTyped, Shapes, Past, PersonPast
<1>2. CASE UNCHANGED <<here, adrift>>
  <2>1. there'[p] = there[p] \/ there'[p].key # here[p].key
    <3>1. here[p].key \in Nat /\ here[p].key <= clock
      BY <1>1 DEF Person
    <3> QED BY <1>1, <3>1, ThereMoves
  <2> QED BY <1>1, <1>2, <2>1 DEF KeysTrue, Agrees
<1>3. ASSUME there' = there, here'[p] = here[p], p \notin adrift' => p \notin adrift
      PROVE  KeysTrue(p)'
  BY <1>3 DEF KeysTrue, Agrees
<1>4. ASSUME NEW q \in People, Touches(q) PROVE KeysTrue(p)'
  <2>1. /\ here'[p].says = here[p].says /\ here'[p].key = here[p].key
        /\ here'[p].linked = here[p].linked /\ here'[p].status = here[p].status
    BY <1>4, TouchesDoes
  <2>2. there' = there /\ adrift' = adrift
    BY <1>4 DEF Touches
  <2> QED BY <2>1, <2>2 DEF KeysTrue, Agrees
<1>5. ASSUME NEW x \in Edits, EditSaves(x) PROVE KeysTrue(p)'
  <2>1. there' = there
    BY <1>5 DEF EditSaves
  <2>2. CASE p = edit[x].p
    BY <1>5, <2>2, EditSavesDoes DEF KeysTrue, Agrees
  <2>3. CASE p # edit[x].p
    BY <1>3, <1>5, <2>1, <2>3, EditSavesDoes
  <2> QED BY <2>2, <2>3
<1>6. ASSUME NEW s \in Walks, MarksPushed(s) PROVE KeysTrue(p)'
  <2> DEFINE m == walk[s].p
  <2>1. /\ walk[s].pc = "pushed" /\ there' = there
        /\ adrift' = IF ~Unmoved(s) THEN adrift \cup {m}
                     ELSE IF walk[s].alone THEN adrift \ {m} ELSE adrift
    BY <1>6 DEF MarksPushed
  <2>2. /\ here'[m].key = walk[s].key /\ here'[m].says = here[m].says
        /\ \A q \in People \ {m} : here'[q] = here[q]
    BY <1>6, MarksPushedDoes
  <2>3. CASE p = m
    <3>1. p \notin adrift' => here[p].says = walk[s].copy.says
      BY <2>1, <2>3 DEF Unmoved
    <3>2. there[p].key = walk[s].key => there[p].says = walk[s].copy.says
      BY <2>1, <2>3 DEF WalksSane, SentTrue
    <3> QED BY <2>1, <2>2, <2>3, <3>1, <3>2 DEF KeysTrue, Agrees
  <2>4. CASE p # m
    BY <1>3, <2>1, <2>2, <2>4
  <2> QED BY <2>3, <2>4
<1>7. ASSUME NEW s \in Walks, MarksFailed(s) PROVE KeysTrue(p)'
  <2> DEFINE m == walk[s].p
  <2>1. there' = there /\ adrift \subseteq adrift'
    BY <1>7 DEF MarksFailed
  <2>2. /\ here'[m].status = "failed"
        /\ \A q \in People \ {m} : here'[q] = here[q]
    BY <1>7, MarksFailedDoes
  <2>3. CASE p = m
    BY <2>2, <2>3 DEF KeysTrue, Agrees
  <2>4. CASE p # m
    BY <1>3, <2>1, <2>2, <2>4
  <2> QED BY <2>3, <2>4
<1>8. ASSUME NEW s \in Walks, MarksRemoved(s) PROVE KeysTrue(p)'
  <2>1. there' = there /\ adrift' = adrift
    BY <1>8 DEF MarksRemoved
  <2>2. here'[p] = here[p] \/ here'[p].status = "deleted_remote"
    BY <1>8, MarksRemovedDoes
  <2> QED BY <1>3, <2>1, <2>2 DEF KeysTrue, Agrees
<1>9. ASSUME NEW s \in Walks, NEW e \in walk[s].list, Saves(s, e) PROVE KeysTrue(p)'
  <2>1. there' = there /\ (p # e.p => (p \in adrift' <=> p \in adrift))
    BY <1>9 DEF Saves
  <2>2. e \in Entry /\ \A q \in People \ {e.p} : here'[q] = here[q]
    BY <1>9, SavesDoes
  <2>3. CASE p # e.p
    BY <1>3, <2>1, <2>2, <2>3
  <2>4. CASE p = e.p /\ p \notin adrift'
    <3>1. CASE /\ p \notin adrift /\ here'[p] = [here[p] EXCEPT !.touched = TRUE]
      <4>1. /\ here'[p].says = here[p].says /\ here'[p].key = here[p].key
            /\ here'[p].linked = here[p].linked /\ here'[p].status = here[p].status
        BY <1>1, <3>1 DEF Person
      <4> QED BY <2>1, <3>1, <4>1 DEF KeysTrue, Agrees
    <3>2. CASE here'[p].key = e.key /\ here'[p].says = e.says
      <4>1. e.key <= walk[s].next
        BY DEF WellTyped, Past, WalkPast
      <4>2. there[p].key = e.key => there[p].says = e.says
        BY <2>4, <4>1 DEF WalksSane, PageTrue
      <4> QED BY <2>1, <3>2, <4>2 DEF KeysTrue
    <3> QED BY <1>9, <2>4, <3>1, <3>2, SavesFaithful
  <2>5. CASE p \in adrift'
    BY <2>5 DEF KeysTrue, Agrees
  <2> QED BY <2>3, <2>4, <2>5
<1>10. ASSUME NEW s \in Walks, WalkStep(s), ~MarksPushed(s), ~MarksFailed(s), ~MarksRemoved(s),
              \A e \in walk[s].list : ~Saves(s, e)
       PROVE  UNCHANGED <<here, adrift>>
  BY <1>10 DEF WalkStep, WalkStarts, LoadsPending, Pushes, Fetches, TokenExpired,
               Loads, SavesToken, WalkThrows
<1> QED BY <1>2, <1>4, <1>5, <1>6, <1>7, <1>8, <1>9, <1>10
        DEF ContactNext, contactVars, WritesThere, RemovesThere, EditLoads, ContactCrash

(* While a walk is alone, a contact on its page changes only by hand, or by the walk's own save. *)
LEMMA PageHeld ==
  ASSUME WellTyped, WalksSane, [ContactNext]_contactVars,
         NEW s \in Walks, walk[s].alone, NEW e \in walk[s].list, e \in walk'[s].list, Agrees(e.p)'
  PROVE  Agrees(e.p) /\ here'[e.p].key = here[e.p].key /\ here'[e.p].says = here[e.p].says
<1> DEFINE p == e.p
<1>1. /\ walk[s].list \subseteq Entry /\ WalkSane(walk[s])
  BY DEF WellTyped, Shapes, Journey
<1>2. p \in People
  BY <1>1 DEF Entry
<1>3. walk[s].pc \notin Before \cup {"state", "idle"}
  BY <1>1, NoWalkIs DEF WalkSane
<1>4. \A q \in Walks \ {s} : walk[q].pc = "idle"
  BY <1>3 DEF WalksSane, AloneSane, Underway
<1>5. ASSUME here'[p] = here[p], p \notin adrift' => p \notin adrift
      PROVE  Agrees(p) /\ here'[p].key = here[p].key /\ here'[p].says = here[p].says
  BY <1>5 DEF Agrees
<1> HIDE DEF p
<1>6. ASSUME UNCHANGED <<here, adrift>>
      PROVE  Agrees(p) /\ here'[p].key = here[p].key /\ here'[p].says = here[p].says
  BY <1>5, <1>6
<1>7. ASSUME NEW q \in People, Touches(q)
      PROVE  Agrees(p) /\ here'[p].key = here[p].key /\ here'[p].says = here[p].says
  <2>1. /\ here'[p].says = here[p].says /\ here'[p].key = here[p].key
        /\ here'[p].linked = here[p].linked /\ here'[p].status = here[p].status
    BY <1>2, <1>7, TouchesDoes
  <2>2. adrift' = adrift
    BY <1>7 DEF Touches
  <2> QED BY <2>1, <2>2 DEF Agrees, p
<1>8. ASSUME NEW x \in Edits, EditSaves(x)
      PROVE  Agrees(p) /\ here'[p].key = here[p].key /\ here'[p].says = here[p].says
  <2>1. adrift \subseteq adrift' /\ p # edit[x].p
    BY <1>8, EditSavesDoes DEF Agrees, p
  <2>2. here'[p] = here[p]
    BY <1>2, <1>8, <2>1, EditSavesDoes
  <2> QED BY <1>5, <2>1, <2>2
<1>9. ASSUME NEW f \in walk[s].list, Saves(s, f)
      PROVE  Agrees(p) /\ here'[p].key = here[p].key /\ here'[p].says = here[p].says
  <2>1. /\ walk'[s].list = walk[s].list \ {f} /\ \A q \in People \ {f.p} : here'[q] = here[q]
    BY <1>9, SavesDoes
  <2>2. f.p # p
    BY <2>1 DEF WalksSane, PageTrue, p
  <2>3. p \notin adrift' => p \notin adrift
    BY <1>9, <2>2 DEF Saves
  <2> QED BY <1>2, <1>5, <2>1, <2>2, <2>3
<1>10. ~MarksPushed(s) /\ ~MarksFailed(s)
  BY <1>3 DEF MarksPushed, MarksFailed, Before
<1>11. ~MarksRemoved(s)
  BY MarksRemovedDoes
<1>12. ASSUME NEW q \in Walks \ {s}, WalkStep(q)
       PROVE  \E full \in BOOLEAN : WalkStarts(q, full)
  BY <1>4, <1>12 DEF WalkStep, LoadsPending, Pushes, MarksPushed, MarksFailed, Fetches, TokenExpired,
                     Loads, Saves, MarksRemoved, SavesToken, WalkThrows
<1>13. ASSUME WalkStep(s), \A f \in walk[s].list : ~Saves(s, f)
       PROVE  UNCHANGED <<here, adrift>>
  BY <1>10, <1>11, <1>13 DEF WalkStep, WalkStarts, LoadsPending, Pushes, Fetches, TokenExpired,
                             Loads, SavesToken, WalkThrows
<1>14. ASSUME NEW q \in Walks \ {s}, WalkStep(q) PROVE UNCHANGED <<here, adrift>>
  BY <1>12, <1>14 DEF WalkStarts
<1>15. ASSUME NEW q \in Walks, WalkStep(q)
       PROVE  Agrees(p) /\ here'[p].key = here[p].key /\ here'[p].says = here[p].says
  <2>1. CASE q = s
    BY <1>6, <1>9, <1>13, <1>15, <2>1
  <2>2. CASE q # s
    BY <1>6, <1>14, <1>15, <2>2
  <2> QED BY <2>1, <2>2
<1>16. Agrees(p) /\ here'[p].key = here[p].key /\ here'[p].says = here[p].says
  BY <1>6, <1>7, <1>8, <1>15
     DEF ContactNext, contactVars, WritesThere, RemovesThere, EditLoads, ContactCrash
<1> QED BY <1>16 DEF p

(* A walk that met another is alone no more. *)
LEMMA AloneMoves ==
  ASSUME WellTyped, [ContactNext]_contactVars, NEW s \in Walks, walk'[s].alone, walk[s].pc # "idle",
         walk'[s].pc # "idle"
  PROVE  walk[s].alone
<1>1. CASE walk'[s] = walk[s]
  BY <1>1
<1>2. CASE walk'[s] = NoWalk
  BY <1>2, NoWalkIs
<1>3. ASSUME NEW q \in Walks, NEW full \in BOOLEAN, WalkStarts(q, full)
      PROVE  walk[s].alone
  BY <1>3, WalkStartsDoes
<1>4. ASSUME WalkStep(s), \A full \in BOOLEAN : ~WalkStarts(s, full), walk'[s] # NoWalk
      PROVE  walk[s].alone
  <2>1. CASE LoadsPending(s)
    BY <2>1, LoadsPendingDoes DEF Carries
  <2>2. CASE MarksPushed(s) \/ MarksFailed(s)
    <3>1. walk[s].pc \in {"pushed", "refused"} /\ walk' = [walk EXCEPT ![s] = DoneWith(s, "push")]
      BY <2>2 DEF MarksPushed, MarksFailed
    <3> QED BY <3>1, SentDoes DEF Carries
  <2>3. ASSUME NEW e \in walk[s].list, Loads(s, e) \/ Saves(s, e) PROVE walk[s].alone
    BY <2>3, LoadsDoes, SavesDoes DEF Carries
  <2>4. ASSUME NEW d \in walk[s].pending, Pushes(s, d) PROVE walk[s].alone
    BY <2>4, PushesDoes DEF Carries
  <2>5. CASE Fetches(s) \/ MarksRemoved(s)
    BY <2>5, FetchesDoes, MarksRemovedDoes DEF Carries
  <2>6. CASE TokenExpired(s) \/ SavesToken(s) \/ WalkThrows(s)
    BY <1>4, <2>6, EndsDoes DEF TokenExpired, SavesToken, WalkThrows
  <2> QED BY <1>4, <2>1, <2>2, <2>3, <2>4, <2>5, <2>6 DEF WalkStep
<1>5. ASSUME NEW q \in Walks \ {s}, WalkStep(q), \A full \in BOOLEAN : ~WalkStarts(q, full)
      PROVE  walk'[s] = walk[s]
  BY <1>5, WalksApart
<1>6. CASE ContactCrash
  BY <1>2, <1>6 DEF ContactCrash
<1> QED BY <1>1, <1>2, <1>3, <1>4, <1>5, <1>6
        DEF ContactNext, contactVars, WritesThere, RemovesThere, Touches, EditSaves, EditLoads

LEMMA PageKeysSteps ==
  ASSUME WellTyped, WellTyped', WalksSane, \A p \in People : KeysTrue(p), [ContactNext]_contactVars
  PROVE  \A s \in Walks : PageKeys(s)'
<1> SUFFICES ASSUME NEW s \in Walks, walk'[s].alone, NEW e \in walk'[s].list, Agrees(e.p)',
                    here'[e.p].key = e.key
             PROVE  here'[e.p].says = e.says
  BY DEF PageKeys
<1>1. CASE walk'[s].list \subseteq walk[s].list
  <2>1. e \in walk[s].list
    BY <1>1
  <2>2. walk[s].pc # "idle" /\ walk'[s].pc # "idle"
    BY <2>1, NoWalkIs DEF WellTyped, WalkSane
  <2>3. walk[s].alone
    BY <2>2, AloneMoves
  <2>4. Agrees(e.p) /\ here'[e.p].key = here[e.p].key /\ here'[e.p].says = here[e.p].says
    BY <2>1, <2>3, PageHeld
  <2> QED BY <2>1, <2>3, <2>4 DEF WalksSane, PageKeys
<1>2. CASE Fetches(s)
  <2>1. e.p \in People /\ e.says = there[e.p].says /\ e.key = there[e.p].key
    BY <1>2, FetchesDoes
  <2>2. here' = here /\ adrift' = adrift
    BY <1>2 DEF Fetches
  <2> QED BY <2>1, <2>2 DEF KeysTrue, Agrees
<1> QED BY <1>1, <1>2, PagesMove

-------------------------------------------------------------------------------
(* What the bookmark has passed was taken.                                    *)

(* What was taken stays so while nothing of it is written. *)
LEMMA HasStays ==
  ASSUME NEW p \in People, there'[p] = there[p], here'[p].status = here[p].status,
         here'[p].says = here[p].says, here'[p].linked = here[p].linked,
         here'[p].removed = here[p].removed, p \in adrift => p \in adrift',
         unlisted \subseteq unlisted', SentSays(p) => SentSays(p)', Has(p)
  PROVE  Has(p)'
BY DEF Has

(* A step that leaves alone what was taken up to t, when no bound is past t. *)
LEMMA CoveringStays ==
  ASSUME WellTyped, WellTyped', Covering, NEW t \in Nat,
         \A p \in People : 0 < there'[p].key /\ there'[p].key <= t =>
           there'[p] = there[p] /\ (Has(p) => Has(p)'),
         bookmark # NoBookmark => bookmark <= t,
         \A s \in Walks : /\ walk[s].bookmark # NoBookmark => walk[s].bookmark <= t
                          /\ walk[s].pc \in After => walk[s].next <= t,
         bookmark' \in {NoBookmark, bookmark} \/ Covered(bookmark, {})',
         \A s \in Walks : walk'[s].bookmark \in {NoBookmark, bookmark, walk[s].bookmark},
         \A s \in Walks : walk'[s].pc \in After =>
           \/ walk[s].pc \in After /\ walk'[s].next = walk[s].next /\ walk'[s].list = walk[s].list
           \/ Covered(walk[s].next, walk[s].list)'
  PROVE  Covering'
<1>1. /\ bookmark \in {NoBookmark} \cup Nat /\ there' \in [People -> Remote]
      /\ \A s \in Walks : walk[s].bookmark \in {NoBookmark} \cup Nat /\ walk[s].next \in Nat
  BY DEF WellTyped, Shapes, Journey
<1>2. ASSUME NEW b \in Nat, b <= t, NEW L, Covered(b, L)
      PROVE  \A p \in People : 0 < there'[p].key /\ there'[p].key <= b =>
               Has(p)' \/ \E e \in L : e.p = p
  <2> SUFFICES ASSUME NEW p \in People, 0 < there'[p].key, there'[p].key <= b
               PROVE  Has(p)' \/ \E e \in L : e.p = p
    OBVIOUS
  <2>1. there'[p].key <= t
    BY <1>1, <1>2 DEF Remote
  <2>2. there'[p] = there[p] /\ (Has(p) => Has(p)')
    BY <2>1
  <2> QED BY <1>2, <2>2 DEF Covered
<1>3. bookmark' # NoBookmark => Covered(bookmark, {})'
  <2> SUFFICES ASSUME bookmark' # NoBookmark, bookmark' = bookmark PROVE Covered(bookmark, {})'
    OBVIOUS
  <2>1. bookmark \in Nat /\ bookmark <= t /\ Covered(bookmark, {})
    BY <1>1 DEF Covering
  <2>2. \A p \in People : 0 < there'[p].key /\ there'[p].key <= bookmark =>
          Has(p)' \/ \E e \in {} : e.p = p
    BY <1>2, <2>1
  <2> QED BY <2>1, <2>2 DEF Covered
<1>4. ASSUME NEW s \in Walks, walk'[s].bookmark # NoBookmark PROVE Covered(walk[s].bookmark, {})'
  <2> DEFINE b == walk'[s].bookmark
  <2>1. b \in {bookmark, walk[s].bookmark} /\ b # NoBookmark
    BY <1>4
  <2>2. b \in Nat /\ b <= t /\ Covered(b, {})
    BY <1>1, <2>1 DEF Covering
  <2>3. \A p \in People : 0 < there'[p].key /\ there'[p].key <= b =>
          Has(p)' \/ \E e \in {} : e.p = p
    BY <1>2, <2>2
  <2> QED BY <2>3 DEF Covered
<1>5. ASSUME NEW s \in Walks, walk'[s].pc \in After PROVE Covered(walk[s].next, walk[s].list)'
  <2> SUFFICES ASSUME walk[s].pc \in After, walk'[s].next = walk[s].next,
                      walk'[s].list = walk[s].list
               PROVE  Covered(walk[s].next, walk[s].list)'
    BY <1>5
  <2>1. Covered(walk[s].next, walk[s].list) /\ walk[s].next \in Nat /\ walk[s].next <= t
    BY <1>1 DEF Covering
  <2>2. \A p \in People : 0 < there'[p].key /\ there'[p].key <= walk[s].next =>
          Has(p)' \/ \E e \in walk[s].list : e.p = p
    BY <1>2, <2>1
  <2> QED BY <2>2 DEF Covered
<1> QED BY <1>3, <1>4, <1>5 DEF Covering

(* Bookmarks come from the stored one, and pages move in four ways only. *)
LEMMA TakingMoves ==
  ASSUME WellTyped, [ContactNext]_contactVars, NEW s \in Walks
  PROVE  /\ walk'[s].bookmark \in {NoBookmark, bookmark, walk[s].bookmark}
         /\ walk'[s].pc \in After =>
              \/ walk[s].pc \in After /\ walk'[s].next = walk[s].next /\ walk'[s].list = walk[s].list
              \/ Fetches(s) \/ MarksRemoved(s) \/ \E e \in walk[s].list : Saves(s, e)
<1>1. CASE walk'[s] = walk[s]
  BY <1>1
<1>2. CASE walk'[s] = NoWalk
  BY <1>2, NoWalkIs DEF After
<1>3. ASSUME NEW q \in Walks, NEW full \in BOOLEAN, WalkStarts(q, full)
      PROVE  /\ walk'[s].bookmark \in {NoBookmark, bookmark, walk[s].bookmark}
             /\ walk'[s].pc \in After =>
                  walk[s].pc \in After /\ walk'[s].next = walk[s].next /\ walk'[s].list = walk[s].list
  <2>1. CASE q = s
    BY <1>3, <2>1, WalkStartsDoes DEF After
  <2>2. CASE q # s
    <3>1. /\ walk'[s].bookmark = walk[s].bookmark /\ walk'[s].pc = walk[s].pc
          /\ walk'[s].next = walk[s].next /\ walk'[s].list = walk[s].list
      BY <1>3, <2>2, WalkStartsDoes
    <3> QED BY <3>1
  <2> QED BY <2>1, <2>2
<1>4. ASSUME WalkStep(s), \A full \in BOOLEAN : ~WalkStarts(s, full), walk'[s] # NoWalk
      PROVE  /\ walk'[s].bookmark \in {NoBookmark, bookmark, walk[s].bookmark}
             /\ walk'[s].pc \in After =>
                  \/ walk[s].pc \in After /\ walk'[s].next = walk[s].next /\ walk'[s].list = walk[s].list
                  \/ Fetches(s) \/ MarksRemoved(s) \/ \E e \in walk[s].list : Saves(s, e)
  <2>1. CASE LoadsPending(s)
    BY <2>1, LoadsPendingDoes DEF Carries, After
  <2>2. CASE MarksPushed(s) \/ MarksFailed(s)
    <3>1. walk[s].pc \in {"pushed", "refused"} /\ walk' = [walk EXCEPT ![s] = DoneWith(s, "push")]
      BY <2>2 DEF MarksPushed, MarksFailed
    <3> QED BY <3>1, SentDoes DEF Carries, After
  <2>3. ASSUME NEW e \in walk[s].list, Saves(s, e)
        PROVE  walk'[s].bookmark \in {NoBookmark, bookmark, walk[s].bookmark}
    BY <2>3, SavesDoes DEF Carries
  <2>4. ASSUME NEW e \in walk[s].list, Loads(s, e)
        PROVE  /\ walk'[s].bookmark \in {NoBookmark, bookmark, walk[s].bookmark}
               /\ walk[s].pc \in After /\ walk'[s].next = walk[s].next /\ walk'[s].list = walk[s].list
    BY <2>4, LoadsDoes DEF Carries, After
  <2>5. ASSUME NEW d \in walk[s].pending, Pushes(s, d)
        PROVE  /\ walk'[s].bookmark \in {NoBookmark, bookmark, walk[s].bookmark}
               /\ walk'[s].pc \notin After
    BY <2>5, PushesDoes DEF Carries, After
  <2>6. CASE Fetches(s) \/ MarksRemoved(s)
    BY <2>6, FetchesDoes, MarksRemovedDoes DEF Carries
  <2>7. CASE TokenExpired(s) \/ SavesToken(s) \/ WalkThrows(s)
    BY <1>4, <2>7, EndsDoes DEF TokenExpired, SavesToken, WalkThrows
  <2> QED BY <1>4, <2>1, <2>2, <2>3, <2>4, <2>5, <2>6, <2>7 DEF WalkStep
<1>5. ASSUME NEW q \in Walks \ {s}, WalkStep(q), \A full \in BOOLEAN : ~WalkStarts(q, full)
      PROVE  walk'[s] = walk[s]
  BY <1>5, WalksApart
<1>6. CASE ContactCrash
  BY <1>2, <1>6 DEF ContactCrash
<1> QED BY <1>1, <1>2, <1>3, <1>4, <1>5, <1>6
        DEF ContactNext, contactVars, WritesThere, RemovesThere, Touches, EditSaves, EditLoads

(* What was sent stays what Outlook says, but for one just written there. *)
LEMMA SentSaysMoves ==
  ASSUME WellTyped, WellTyped', [ContactNext]_contactVars, NEW p \in People, there'[p].key <= clock
  PROVE  SentSays(p) => SentSays(p)'
<1>1. ASSUME NEW s \in Walks, NEW d \in walk[s].pending, Pushes(s, d), walk'[s].pc = "pushed",
             walk'[s].p = p
      PROVE  FALSE
  <2> DEFINE v == walk'[s].copy.says
  <2>1. /\ d[1] \in People /\ v \in Nat /\ d[1] = p /\ clock' = clock + 1
        /\ \/ there' = [there EXCEPT ![d[1]].says = v, ![d[1]].key = clock + 1]
           \/ clock' = clock
    BY <1>1, PushesDoes
  <2> HIDE DEF v
  <2>2. clock \in Nat /\ there \in [People -> Remote]
    BY DEF WellTyped, Shapes
  <2>3. there' = [there EXCEPT ![p].says = v, ![p].key = clock + 1]
    BY <2>1, <2>2
  <2> DEFINE r == [there[p] EXCEPT !.says = v, !.key = clock + 1]
  <2>4. there[p] \in Remote /\ clock + 1 \in Nat
    BY <2>2
  <2>5. r.key = clock + 1
    BY <2>1, <2>4 DEF Remote
  <2>6. there' = [there EXCEPT ![p] = r]
    BY <2>2, <2>3
  <2> HIDE DEF r
  <2>7. there'[p].key = clock + 1
    BY <2>2, <2>5, <2>6
  <2> QED BY <2>2, <2>7
<1>2. \A s \in Walks : walk'[s].pc = "pushed" /\ walk'[s].p = p =>
        walk[s].pc = "pushed" /\ walk[s].p = p /\ walk'[s].copy = walk[s].copy
  BY <1>1, SentMoves
<1>3. there'[p] = there[p]
  <2>1. clock \in Nat /\ ~(clock + 1 <= clock)
    BY DEF WellTyped, Shapes
  <2> QED BY <2>1, ThereMoves
<1> QED BY <1>2, <1>3 DEF SentSays

(* What was taken stays so, but for a save, and a mark that ends the excuse of a contact adrift. *)
LEMMA HasMoves ==
  ASSUME WellTyped, WellTyped', [ContactNext]_contactVars, NEW p \in People, there'[p].key <= clock,
         \A s \in Walks : MarksPushed(s) /\ walk[s].p = p => ~walk[s].alone,
         \A s \in Walks : \A e \in walk[s].list : Saves(s, e) => e.p # p,
         Has(p)
  PROVE  Has(p)'
<1>1. clock \in Nat /\ said \in Nat /\ there'[p] = there[p]
  <2>1. clock \in Nat /\ said \in Nat /\ ~(clock + 1 <= clock)
    BY Constants DEF WellTyped, Shapes
  <2> QED BY <2>1, ThereMoves
<1>2. ASSUME here'[p].status = here[p].status, here'[p].says = here[p].says,
             here'[p].linked = here[p].linked, here'[p].removed = here[p].removed,
             p \in adrift => p \in adrift', unlisted \subseteq unlisted'
      PROVE  Has(p)'
  BY <1>1, <1>2, SentSaysMoves, HasStays
<1>3. ASSUME UNCHANGED <<here, adrift>>, unlisted \subseteq unlisted' PROVE Has(p)'
  BY <1>2, <1>3
<1>4. ASSUME NEW q \in People, Touches(q) PROVE Has(p)'
  <2>1. /\ here'[p].status = here[p].status /\ here'[p].says = here[p].says
        /\ here'[p].linked = here[p].linked /\ here'[p].removed = here[p].removed
    BY <1>4, TouchesDoes
  <2>2. adrift' = adrift /\ unlisted' = unlisted
    BY <1>4 DEF Touches
  <2> QED BY <1>2, <2>1, <2>2
<1>5. ASSUME NEW x \in Edits, EditSaves(x) PROVE Has(p)'
  <2>1. unlisted' = unlisted /\ walk' = walk
    BY <1>5 DEF EditSaves
  <2>2. CASE p # edit[x].p
    <3>1. here'[p] = here[p] /\ adrift \subseteq adrift'
      BY <1>5, <2>2, EditSavesDoes
    <3> QED BY <1>2, <2>1, <3>1
  <2>3. CASE p = edit[x].p
    <3>1. /\ here'[p].linked = here[p].linked /\ here'[p].removed = here[p].removed
          /\ here'[p].status = "synced" => p \in adrift'
          /\ adrift \subseteq adrift'
      BY <1>5, <2>3, EditSavesDoes
    <3>2. SentSays(p) => SentSays(p)'
      BY SentSaysMoves
    <3> QED BY <1>1, <2>1, <3>1, <3>2 DEF Has
  <2> QED BY <2>2, <2>3
<1>6. ASSUME NEW s \in Walks, MarksPushed(s) PROVE Has(p)'
  <2> DEFINE m == walk[s].p
  <2>1. /\ walk[s].pc = "pushed" /\ there' = there /\ unlisted' = unlisted
        /\ adrift' = IF ~Unmoved(s) THEN adrift \cup {m}
                     ELSE IF walk[s].alone THEN adrift \ {m} ELSE adrift
    BY <1>6 DEF MarksPushed
  <2>2. /\ here'[m].status = "synced" /\ here'[m].says = here[m].says
        /\ here'[m].linked = here[m].linked /\ here'[m].removed = here[m].removed
        /\ \A q \in People \ {m} : here'[q] = here[q]
    BY <1>6, MarksPushedDoes
  <2>3. CASE p # m
    BY <1>2, <2>1, <2>2, <2>3
  <2>4. CASE p = m
    <3>1. adrift \subseteq adrift' /\ (p \notin adrift' => Unmoved(s))
      BY <1>6, <2>1, <2>4
    <3>2. p \notin adrift' /\ SentSays(p) => here[p].says = there[p].says
      BY <2>1, <2>4, <3>1 DEF SentSays, Unmoved
    <3>3. SentSays(p) => SentSays(p)'
      BY SentSaysMoves
    <3> QED BY <1>1, <2>1, <2>2, <2>4, <3>1, <3>2, <3>3 DEF Has
  <2> QED BY <2>3, <2>4
<1>7. ASSUME NEW s \in Walks, MarksFailed(s) PROVE Has(p)'
  <2> DEFINE m == walk[s].p
  <2>1. there' = there /\ adrift \subseteq adrift' /\ unlisted' = unlisted
    BY <1>7 DEF MarksFailed
  <2>2. /\ here'[m].status = "failed" /\ here'[m].says = here[m].says
        /\ here'[m].linked = here[m].linked /\ here'[m].removed = here[m].removed
        /\ \A q \in People \ {m} : here'[q] = here[q]
    BY <1>7, MarksFailedDoes
  <2>3. CASE p # m
    BY <1>2, <2>1, <2>2, <2>3
  <2>4. CASE p = m
    <3>1. (SentSays(p) => SentSays(p)') /\ here'[p].status # "synced"
      BY <2>2, <2>4, SentSaysMoves
    <3> QED BY <1>1, <2>1, <2>2, <2>4, <3>1 DEF Has
  <2> QED BY <2>3, <2>4
<1>8. ASSUME NEW s \in Walks, MarksRemoved(s) PROVE Has(p)'
  <2>1. there' = there /\ adrift' = adrift /\ unlisted' = unlisted
    BY <1>8 DEF MarksRemoved
  <2>2. CASE here'[p] = here[p]
    BY <1>2, <2>1, <2>2
  <2>3. CASE /\ here'[p].linked = here[p].linked /\ here'[p].removed
             /\ here'[p].status = "deleted_remote"
    <3>1. (SentSays(p) => SentSays(p)') /\ here'[p].status # "synced"
      BY <2>3, SentSaysMoves
    <3> QED BY <1>1, <2>1, <2>3, <3>1 DEF Has
  <2> QED BY <1>8, <2>2, <2>3, MarksRemovedDoes
<1>9. ASSUME NEW s \in Walks, NEW e \in walk[s].list, Saves(s, e) PROVE Has(p)'
  <2>1. unlisted' = unlisted /\ (p # e.p => (p \in adrift' <=> p \in adrift))
    BY <1>9 DEF Saves
  <2>2. \A q \in People \ {e.p} : here'[q] = here[q]
    BY <1>9, SavesDoes
  <2>3. p # e.p
    BY <1>9
  <2> QED BY <1>2, <2>1, <2>2, <2>3
<1>10. ASSUME NEW s \in Walks, WalkStep(s), ~MarksPushed(s), ~MarksFailed(s), ~MarksRemoved(s),
              \A e \in walk[s].list : ~Saves(s, e)
       PROVE  UNCHANGED <<here, adrift>> /\ unlisted \subseteq unlisted'
  BY <1>10 DEF WalkStep, WalkStarts, LoadsPending, Pushes, Fetches, TokenExpired,
               Loads, SavesToken, WalkThrows
<1> QED BY <1>3, <1>4, <1>5, <1>6, <1>7, <1>8, <1>9, <1>10
        DEF ContactNext, contactVars, WritesThere, RemovesThere, EditLoads, ContactCrash

(* The bounds are in the past. *)
LEMMA BoundsPast ==
  ASSUME WellTyped
  PROVE  /\ clock \in Nat
         /\ bookmark # NoBookmark => bookmark <= clock
         /\ \A s \in Walks : /\ walk[s].bookmark # NoBookmark => walk[s].bookmark <= clock
                             /\ walk[s].pc \in After => walk[s].next <= clock
                             /\ walk[s].next \in Nat /\ walk[s].next <= clock
BY DEF WellTyped, Shapes, Past, WalkPast, Journey

(* Who is written at Outlook is past every bound. *)
LEMMA ThereStays ==
  ASSUME WellTyped, WellTyped', [ContactNext]_contactVars, NEW p \in People, there'[p].key <= clock
  PROVE  there'[p] = there[p]
<1>1. clock \in Nat
  BY DEF WellTyped, Shapes
<1>2. ~(clock + 1 <= clock)
  BY <1>1
<1> QED BY <1>2, ThereMoves

(* When a walk moves, no other walk marks or saves. *)
LEMMA OneWalkMarks ==
  ASSUME WellTyped, NEW s \in Walks, walk'[s] # walk[s], NEW q \in Walks, MarksPushed(q)
  PROVE  q = s
<1>1. walk[q].pc \in {"pushed", "refused"} /\ walk' = [walk EXCEPT ![q] = DoneWith(q, "push")]
  BY DEF MarksPushed
<1>2. Others(q)
  BY <1>1, SentDoes
<1> QED BY <1>2 DEF Others

LEMMA OneWalkSaves ==
  ASSUME WellTyped, NEW s \in Walks, walk'[s] # walk[s], NEW q \in Walks, NEW e \in walk[q].list, Saves(q, e)
  PROVE  q = s
<1>1. Others(q)
  BY SavesDoes
<1> QED BY <1>1 DEF Others

LEMMA FetchesCovers ==
  ASSUME WellTyped, WellTyped', WalksSane, Covering, [ContactNext]_contactVars, NEW s \in Walks, Fetches(s)
  PROVE  Covering'
<1>1. there' = there /\ here' = here /\ bookmark' = bookmark
  BY DEF Fetches
<1>2. /\ walk[s].pc = "push" /\ Others(s) /\ walk'[s].next = clock
      /\ \A p \in People :
           0 < there[p].key
           /\ (IF walk[s].bookmark = NoBookmark THEN ~there[p].gone
               ELSE there[p].key > walk[s].bookmark) =>
             \E e \in walk'[s].list : e.p = p
  BY FetchesDoes
<1>3. walk'[s].pc = "take"
  BY FetchesDoes
<1>4. (\A q \in Walks : ~MarksPushed(q)) /\ \A q \in Walks : \A e \in walk[q].list : ~Saves(q, e)
  <2>1. walk'[s] # walk[s] /\ ~MarksPushed(s) /\ \A e \in walk[s].list : ~Saves(s, e)
    BY <1>2, <1>3 DEF MarksPushed, Saves
  <2>2. \A q \in Walks : ~MarksPushed(q)
    BY <2>1, OneWalkMarks
  <2>3. ASSUME NEW q \in Walks, NEW e \in walk[q].list, Saves(q, e) PROVE FALSE
    BY <2>1, <2>3, OneWalkSaves
  <2> QED BY <2>2, <2>3
<1>5. \A p \in People : there'[p].key <= clock => there'[p] = there[p] /\ (Has(p) => Has(p)')
  BY <1>1, <1>3, <1>4, HasMoves
<1>6. Covered(walk[s].next, walk[s].list)'
  <2> SUFFICES ASSUME NEW p \in People, 0 < there[p].key, there[p].key <= clock
               PROVE  Has(p)' \/ \E e \in walk'[s].list : e.p = p
    BY <1>1, <1>2 DEF Covered
  <2>1. CASE walk[s].bookmark = NoBookmark
    <3>1. CASE ~there[p].gone
      BY <1>2, <2>1, <3>1
    <3>2. CASE there[p].gone
      <4>1. ~here[p].removed => p \in unlisted'
        BY <2>1, <3>2 DEF Fetches
      <4> QED BY <1>1, <3>2, <4>1 DEF Has
    <3> QED BY <3>1, <3>2
  <2>2. CASE walk[s].bookmark # NoBookmark
    <3>1. walk[s].bookmark \in Nat /\ there[p].key \in Nat /\ Covered(walk[s].bookmark, {})
      BY <2>2 DEF Covering, WellTyped, Shapes, Journey, Remote
    <3>2. CASE there[p].key > walk[s].bookmark
      BY <1>2, <2>2, <3>2
    <3>3. CASE there[p].key <= walk[s].bookmark
      BY <1>1, <1>5, <3>1, <3>3 DEF Covered
    <3> QED BY <3>1, <3>2, <3>3
  <2> QED BY <2>1, <2>2
<1>7. \A q \in Walks : walk'[q].pc \in After =>
        \/ walk[q].pc \in After /\ walk'[q].next = walk[q].next /\ walk'[q].list = walk[q].list
        \/ Covered(walk[q].next, walk[q].list)'
  <2> SUFFICES ASSUME NEW q \in Walks, q # s, walk'[q].pc \in After
               PROVE  walk[q].pc \in After /\ walk'[q].next = walk[q].next
                      /\ walk'[q].list = walk[q].list
    BY <1>6
  <2> QED BY <1>2 DEF Others
<1>8. \A q \in Walks : walk'[q].bookmark \in {NoBookmark, bookmark, walk[q].bookmark}
  BY TakingMoves
<1> QED BY <1>1, <1>5, <1>7, <1>8, BoundsPast, CoveringStays

(* A save takes what the page says. *)
LEMMA SavesHas ==
  ASSUME WellTyped, WalksSane, [ContactNext]_contactVars, NEW s \in Walks, NEW e \in walk[s].list,
         Saves(s, e), walk[s].alone => there[e.p].key <= walk[s].next
  PROVE  Has(e.p)'
<1> DEFINE p == e.p
<1>1. there' = there /\ unlisted' = unlisted
  BY DEF Saves
<1>2. /\ walk[s].pc = "save" /\ walk[s].p = p /\ e \in Entry /\ p \in People /\ ~e.gone
      /\ here[p] \in Person /\ walk[s].copy \in Person
      /\ walk'[s].pc = "take" /\ Others(s)
  BY SavesDoes
<1>3. here'[p].linked
  <2> DEFINE now == here[p]
             copy == walk[s].copy
  <2>1. PICK touched \in BOOLEAN : here'[p] = Taken(now, copy, e, touched)
    BY SavesDoes
  <2>2. now \in Person /\ copy \in Person
    BY <1>2
  <2>3. copy.linked => now.linked
    BY <1>2 DEF WalksSane, CopyLinked
  <2> HIDE DEF now, copy
  <2>4. LET h == Taken(now, copy, e, touched) IN
        /\ copy.linked => h.linked = now.linked
        /\ ~copy.linked => h.linked
    BY <1>2, <2>2, TakenIs
  <2>5. copy.linked \in BOOLEAN /\ now.linked \in BOOLEAN
    BY <2>2 DEF Person
  <2> HIDE DEF p
  <2> QED BY <2>1, <2>3, <2>4, <2>5
<1>4. CASE p \in adrift'
  BY <1>3, <1>4 DEF Has
<1>5. CASE p \notin adrift'
  <2>1. /\ here[p] = walk[s].copy /\ walk[s].alone
        /\ \/ /\ p \notin adrift /\ here[p].linked /\ here[p].key = e.key
              /\ here'[p] = [here[p] EXCEPT !.touched = TRUE]
           \/ here'[p].key = e.key /\ here'[p].says = e.says
    BY <1>5, SavesFaithful
  <2>2. e.says = there[p].says /\ e.gone = there[p].gone
    BY <2>1 DEF WalksSane, PageTrue
  <2>3. SentSays(p)'
    <3>1. \A q \in Walks \ {s} : walk'[q].pc = "idle"
      BY <1>2, <2>1 DEF WalksSane, AloneSane, Underway, Others
    <3> QED BY <1>2, <3>1 DEF SentSays
  <2>4. here'[p].status = "synced" => here'[p].says = e.says
    <3>1. CASE /\ p \notin adrift /\ here[p].linked /\ here[p].key = e.key
               /\ here'[p] = [here[p] EXCEPT !.touched = TRUE]
      <4>1. here'[p].status = here[p].status /\ here'[p].says = here[p].says
        BY <1>2, <3>1 DEF Person
      <4>2. here[p].status = "synced" => here[p].says = e.says
        BY <2>1, <3>1 DEF WalksSane, PageKeys, Agrees
      <4> QED BY <4>1, <4>2
    <3> QED BY <2>1, <3>1
  <2> QED BY <1>1, <1>2, <1>3, <2>2, <2>3, <2>4 DEF Has
<1> QED BY <1>4, <1>5

LEMMA SavesCovers ==
  ASSUME WellTyped, WellTyped', WalksSane, Covering, [ContactNext]_contactVars,
         NEW s \in Walks, NEW e \in walk[s].list, Saves(s, e)
  PROVE  Covering'
<1>1. there' = there /\ bookmark' = bookmark
  BY DEF Saves
<1>2. /\ walk[s].pc = "save" /\ walk'[s].pc = "take" /\ Others(s) /\ e.p \in People
      /\ walk'[s].list = walk[s].list \ {e} /\ walk'[s].next = walk[s].next
      /\ \A q \in People \ {e.p} : here'[q] = here[q]
  BY SavesDoes
<1>3. walk[s].bookmark = NoBookmark
  BY <1>2 DEF WellTyped, WalkSane, After
<1> DEFINE t == IF walk[s].alone THEN walk[s].next ELSE clock
<1>4. /\ clock \in Nat /\ t \in Nat /\ t <= clock /\ walk[s].next <= t
      /\ bookmark # NoBookmark => bookmark <= t
      /\ \A q \in Walks : /\ walk[q].bookmark # NoBookmark => walk[q].bookmark <= t
                          /\ walk[q].pc \in After => walk[q].next <= t
  <2>1. CASE ~walk[s].alone
    BY <2>1, BoundsPast
  <2>2. CASE walk[s].alone
    <3>1. /\ bookmark # NoBookmark => bookmark <= walk[s].next
          /\ \A q \in Walks \ {s} : walk[q].pc = "idle"
      BY <1>2, <2>2 DEF WalksSane, AloneSane, Underway, Beforehand, After
    <3>2. \A q \in Walks \ {s} : walk[q].bookmark = NoBookmark /\ walk[q].pc \notin After
      BY <3>1, NoWalkIs DEF WellTyped, WalkSane, After
    <3>3. clock \in Nat /\ walk[s].next \in Nat /\ walk[s].next <= clock
      BY BoundsPast
    <3> QED BY <1>3, <2>2, <3>1, <3>2, <3>3
  <2> QED BY <2>1, <2>2
<1>5. there \in [People -> Remote] /\ walk[s].next \in Nat
  BY BoundsPast DEF WellTyped, Shapes
<1>6. there[e.p].key <= t => Has(e.p)'
  BY <1>2, SavesHas
<1>7. ASSUME NEW p \in People, p # e.p, there'[p].key <= t
      PROVE  Has(p) => Has(p)'
  <2>1. there'[p].key <= clock
    BY <1>1, <1>4, <1>5, <1>7 DEF Remote
  <2>2. \A q \in Walks : ~MarksPushed(q)
    BY <1>2, OneWalkMarks DEF MarksPushed
  <2>3. \A q \in Walks : \A f \in walk[q].list : Saves(q, f) => f.p # p
    <3> SUFFICES ASSUME NEW q \in Walks, NEW f \in walk[q].list, Saves(q, f) PROVE f.p # p
      OBVIOUS
    <3>1. q = s
      BY <1>2, OneWalkSaves
    <3>2. walk[s].p = e.p /\ walk[s].p = f.p
      BY <3>1 DEF Saves
    <3> QED BY <1>7, <3>2
  <2> QED BY <2>1, <2>2, <2>3, HasMoves
<1> HIDE DEF t
<1>8. \A p \in People : 0 < there'[p].key /\ there'[p].key <= t =>
        there'[p] = there[p] /\ (Has(p) => Has(p)')
  BY <1>1, <1>6, <1>7
<1>9. Covered(walk[s].next, walk[s].list)'
  <2> SUFFICES ASSUME NEW p \in People, 0 < there[p].key, there[p].key <= walk[s].next
               PROVE  Has(p)' \/ \E f \in walk'[s].list : f.p = p
    BY <1>1, <1>2 DEF Covered
  <2>1. there[p].key <= t
    BY <1>4, <1>5 DEF Remote
  <2>2. Has(p) \/ \E f \in walk[s].list : f.p = p
    BY <1>2 DEF Covering, Covered, After
  <2>3. CASE p = e.p
    BY <1>6, <2>1, <2>3
  <2>4. CASE p # e.p
    <3>1. Has(p) => Has(p)'
      BY <1>1, <1>7, <2>1, <2>4
    <3>2. (\E f \in walk[s].list : f.p = p) => \E f \in walk'[s].list : f.p = p
      BY <1>2, <2>4
    <3> QED BY <2>2, <3>1, <3>2
  <2> QED BY <2>3, <2>4
<1>10. \A q \in Walks : walk'[q].pc \in After =>
        \/ walk[q].pc \in After /\ walk'[q].next = walk[q].next /\ walk'[q].list = walk[q].list
        \/ Covered(walk[q].next, walk[q].list)'
  <2> SUFFICES ASSUME NEW q \in Walks, q # s, walk'[q].pc \in After
               PROVE  walk[q].pc \in After /\ walk'[q].next = walk[q].next
                      /\ walk'[q].list = walk[q].list
    BY <1>9
  <2> QED BY <1>2 DEF Others
<1>11. \A q \in Walks : walk'[q].bookmark \in {NoBookmark, bookmark, walk[q].bookmark}
  BY TakingMoves
<1> QED BY <1>1, <1>4, <1>8, <1>10, <1>11, CoveringStays

(* A contact marked while it is adrift was written past every bound. *)
LEMMA MarksPushedCovers ==
  ASSUME WellTyped, WellTyped', WalksSane, Covering, [ContactNext]_contactVars,
         NEW s \in Walks, MarksPushed(s), walk[s].alone
  PROVE  Covering'
<1>1. /\ there' = there /\ bookmark' = bookmark /\ walk[s].pc = "pushed"
      /\ walk' = [walk EXCEPT ![s] = DoneWith(s, "push")]
  BY DEF MarksPushed
<1>2. Others(s) /\ walk'[s].pc = "push" /\ walk[s].p \in People
  BY <1>1, SentDoes
<1>3. /\ bookmark = NoBookmark \/ bookmark < walk[s].key
      /\ walk[s].bookmark = NoBookmark \/ walk[s].bookmark < walk[s].key
      /\ \A q \in Walks \ {s} : walk[q].pc = "idle"
      /\ there[walk[s].p].key >= walk[s].key
  BY <1>1 DEF WalksSane, AloneSane, SentTrue, Underway
<1>4. /\ clock \in Nat /\ walk[s].key \in Nat /\ walk[s].key <= clock /\ there \in [People -> Remote]
      /\ bookmark \in {NoBookmark} \cup Nat
      /\ \A q \in Walks : walk[q].bookmark \in {NoBookmark} \cup Nat
  BY DEF WellTyped, Shapes, Past, WalkPast, Journey
<1>5. \A q \in Walks \ {s} : walk[q].bookmark = NoBookmark /\ walk[q].pc \notin After
  BY <1>3, NoWalkIs DEF WellTyped, WalkSane, After
<1>6. walk[s].pc \notin After
  BY <1>1 DEF After
<1>7. CASE walk[s].key = 0
  <2>1. bookmark = NoBookmark /\ \A q \in Walks : walk[q].bookmark = NoBookmark /\ walk[q].pc \notin After
    BY <1>3, <1>4, <1>5, <1>6, <1>7
  <2>2. \A q \in Walks : walk'[q].bookmark = NoBookmark
    BY <2>1, TakingMoves
  <2>3. \A q \in Walks : walk'[q].pc \notin After
    BY <1>2, <2>1 DEF Others, After
  <2> QED BY <1>1, <2>1, <2>2, <2>3 DEF Covering
<1>8. CASE walk[s].key > 0
  <2> DEFINE t == walk[s].key - 1
  <2>1. /\ t \in Nat /\ t < walk[s].key /\ t <= clock
        /\ bookmark # NoBookmark => bookmark <= t
        /\ walk[s].bookmark # NoBookmark => walk[s].bookmark <= t
    BY <1>3, <1>4, <1>8
  <2>2. ASSUME NEW p \in People, there'[p].key <= t
        PROVE  Has(p) => Has(p)'
    <3>1. there'[p].key <= clock /\ p # walk[s].p
      BY <1>1, <1>2, <1>3, <1>4, <2>1, <2>2 DEF Remote
    <3>2. \A q \in Walks : MarksPushed(q) /\ walk[q].p = p => ~walk[q].alone
      BY <1>1, <1>2, <3>1, OneWalkMarks
    <3>3. \A q \in Walks : \A e \in walk[q].list : ~Saves(q, e)
      BY <1>1, <1>2, OneWalkSaves DEF Saves
    <3> QED BY <3>1, <3>2, <3>3, HasMoves
  <2> HIDE DEF t
  <2>3. \A p \in People : 0 < there'[p].key /\ there'[p].key <= t =>
          there'[p] = there[p] /\ (Has(p) => Has(p)')
    BY <1>1, <2>2
  <2>4. \A q \in Walks : /\ walk[q].bookmark # NoBookmark => walk[q].bookmark <= t
                         /\ walk[q].pc \in After => walk[q].next <= t
    BY <1>5, <1>6, <2>1
  <2>5. \A q \in Walks : walk'[q].pc \notin After
    BY <1>2, <1>5 DEF Others, After
  <2>6. \A q \in Walks : walk'[q].bookmark \in {NoBookmark, bookmark, walk[q].bookmark}
    BY TakingMoves
  <2> QED BY <1>1, <2>1, <2>3, <2>4, <2>5, <2>6, CoveringStays
<1> QED BY <1>4, <1>7, <1>8

LEMMA CoveringSteps ==
  ASSUME WellTyped, WellTyped', WalksSane, Covering, [ContactNext]_contactVars
  PROVE  Covering'
<1>1. ASSUME NEW s \in Walks, Fetches(s) PROVE Covering'
  BY <1>1, FetchesCovers
<1>2. ASSUME NEW s \in Walks, NEW e \in walk[s].list, Saves(s, e) PROVE Covering'
  BY <1>2, SavesCovers
<1>3. ASSUME NEW s \in Walks, MarksPushed(s), walk[s].alone PROVE Covering'
  BY <1>3, MarksPushedCovers
<1>4. ASSUME \A s \in Walks : ~Fetches(s) /\ ~(MarksPushed(s) /\ walk[s].alone),
             \A s \in Walks : \A e \in walk[s].list : ~Saves(s, e)
      PROVE  Covering'
  <2>1. \A p \in People : there'[p].key <= clock => there'[p] = there[p] /\ (Has(p) => Has(p)')
    BY <1>4, ThereStays, HasMoves
  <2>2. \A s \in Walks : walk'[s].bookmark \in {NoBookmark, bookmark, walk[s].bookmark}
    BY TakingMoves
  <2>3. ASSUME NEW s \in Walks, MarksRemoved(s) PROVE Covered(walk[s].next, walk[s].list)'
    <3>1. /\ walk[s].pc = "take" /\ walk'[s].next = walk[s].next
          /\ \A e \in walk[s].list : e.gone
          /\ \A p \in People :
               \/ /\ here'[p] = here[p]
                  /\ (\E e \in walk[s].list : e.p = p) /\ here[p].linked => here[p].removed
               \/ here'[p].removed
      BY <2>3, MarksRemovedDoes
    <3>2. there' = there
      BY <2>3 DEF MarksRemoved
    <3>3. there \in [People -> Remote] /\ clock \in Nat /\ walk[s].next \in Nat /\ walk[s].next <= clock
      BY BoundsPast DEF WellTyped, Shapes
    <3> SUFFICES ASSUME NEW p \in People, 0 < there[p].key, there[p].key <= walk[s].next
                 PROVE  Has(p)'
      BY <3>1, <3>2 DEF Covered
    <3>4. there[p].key <= clock
      BY <3>3 DEF Remote
    <3>5. Has(p) \/ \E e \in walk[s].list : e.p = p
      BY <3>1 DEF Covering, Covered, After
    <3>6. CASE Has(p)
      BY <2>1, <3>2, <3>4, <3>6
    <3>7. ASSUME NEW e \in walk[s].list, e.p = p PROVE Has(p)'
      <4>1. there[p].gone
        BY <3>1, <3>7 DEF WalksSane, PageTrue
      <4>2. here'[p].linked => here'[p].removed
        BY <3>1, <3>7
      <4> QED BY <3>2, <4>1, <4>2 DEF Has
    <3> QED BY <3>5, <3>6, <3>7
  <2>4. ASSUME NEW s \in Walks, SavesToken(s) PROVE Covered(bookmark, {})'
    <3>1. walk[s].pc = "state" /\ bookmark' = walk[s].next /\ there' = there
      BY <2>4 DEF SavesToken
    <3>2. walk[s].list = {}
      BY <3>1 DEF WellTyped, WalkSane
    <3>3. Covered(walk[s].next, {})
      BY <3>1, <3>2 DEF Covering, After
    <3>4. there \in [People -> Remote] /\ clock \in Nat /\ walk[s].next \in Nat /\ walk[s].next <= clock
      BY BoundsPast DEF WellTyped, Shapes
    <3> SUFFICES ASSUME NEW p \in People, 0 < there[p].key, there[p].key <= walk[s].next
                 PROVE  Has(p)'
      BY <3>1 DEF Covered
    <3>5. there[p].key <= clock
      BY <3>4 DEF Remote
    <3>6. Has(p)
      BY <3>3 DEF Covered
    <3> QED BY <2>1, <3>1, <3>5, <3>6
  <2>5. bookmark' \in {NoBookmark, bookmark} \/ \E s \in Walks : SavesToken(s)
    BY DEF ContactNext, contactVars, WalkStep, WritesThere, RemovesThere, Touches, EditSaves,
           EditLoads, ContactCrash, WalkStarts, LoadsPending, Pushes, MarksPushed, MarksFailed,
           Fetches, TokenExpired, Loads, Saves, MarksRemoved, WalkThrows
  <2>6. \A s \in Walks : walk'[s].pc \in After =>
          \/ walk[s].pc \in After /\ walk'[s].next = walk[s].next /\ walk'[s].list = walk[s].list
          \/ Covered(walk[s].next, walk[s].list)'
    BY <1>4, <2>3, TakingMoves
  <2>7. bookmark' \in {NoBookmark, bookmark} \/ Covered(bookmark, {})'
    BY <2>4, <2>5
  <2> QED BY <2>1, <2>2, <2>6, <2>7, BoundsPast, CoveringStays
<1> QED BY <1>1, <1>2, <1>3, <1>4

-------------------------------------------------------------------------------
(* What Outlook was told.                                                     *)

LEMMA ReachedMoves ==
  ASSUME WellTyped, [ContactNext]_contactVars, NEW p \in People, there[p].says \in reached[p]
  PROVE  reached[p] \subseteq reached'[p] /\ there'[p].says \in reached'[p]
<1>1. there \in [People -> Remote] /\ reached \in [People -> SUBSET Nat] /\ clock \in Nat
  BY DEF WellTyped, Shapes
<1>2. CASE UNCHANGED <<there, reached>>
  BY <1>2
<1>3. ASSUME NEW q \in People, WritesThere(q)
      PROVE  reached[p] \subseteq reached'[p] /\ there'[p].says \in reached'[p]
  BY <1>3, WritesThereDoes
<1>4. ASSUME NEW q \in People, RemovesThere(q)
      PROVE  reached[p] \subseteq reached'[p] /\ there'[p].says \in reached'[p]
  <2>1. there'[p].says = there[p].says
    BY <1>4, RemovesThereDoes
  <2> QED BY <1>4, <2>1 DEF RemovesThere
<1>5. ASSUME NEW s \in Walks, NEW d \in walk[s].pending, Pushes(s, d), ~UNCHANGED <<there, reached>>
      PROVE  reached[p] \subseteq reached'[p] /\ there'[p].says \in reached'[p]
  <2> DEFINE v == walk'[s].copy.says
  <2>1. /\ d[1] \in People /\ v \in Nat
        /\ there' = [there EXCEPT ![d[1]].says = v, ![d[1]].key = clock + 1]
        /\ reached' = [reached EXCEPT ![d[1]] = @ \cup {v}]
    BY <1>5, PushesDoes
  <2> DEFINE r == [there[d[1]] EXCEPT !.says = v, !.key = clock + 1]
  <2> HIDE DEF v
  <2>2. there[d[1]] \in Remote /\ clock + 1 \in Nat
    BY <1>1, <2>1
  <2>3. r.says = v
    BY <2>1, <2>2 DEF Remote
  <2>4. there' = [there EXCEPT ![d[1]] = r]
    BY <1>1, <2>1
  <2> HIDE DEF r
  <2>5. CASE p = d[1]
    BY <1>1, <2>1, <2>3, <2>4, <2>5
  <2>6. CASE p # d[1]
    BY <1>1, <2>1, <2>4, <2>6
  <2> QED BY <2>5, <2>6
<1>6. ASSUME NEW s \in Walks, WalkStep(s), \A d \in walk[s].pending : ~Pushes(s, d)
      PROVE  UNCHANGED <<there, reached>>
  BY <1>6 DEF WalkStep, WalkStarts, LoadsPending, MarksPushed, MarksFailed, Fetches, TokenExpired,
              Loads, Saves, MarksRemoved, SavesToken, WalkThrows
<1> QED BY <1>2, <1>3, <1>4, <1>5, <1>6
        DEF ContactNext, contactVars, Touches, EditSaves, EditLoads, ContactCrash

(* An edit Outlook was not told of has touched the contact. *)
OwnTouched(p) ==
  p \notin adrift /\ here[p].linked /\ here[p].says \notin reached[p] => here[p].touched

LEMMA TouchedSteps ==
  ASSUME WellTyped, WalksSane, Heard, [ContactNext]_contactVars, NEW p \in People
  PROVE  OwnTouched(p)'
<1>1. OwnTouched(p) /\ reached[p] \subseteq reached'[p] /\ here \in [People -> Person]
  BY ReachedMoves DEF Heard, OwnTouched, WellTyped, Shapes
<1>2. ASSUME here'[p] = here[p], p \notin adrift' => p \notin adrift PROVE OwnTouched(p)'
  BY <1>1, <1>2 DEF OwnTouched
<1>3. CASE UNCHANGED <<here, adrift>>
  BY <1>2, <1>3
<1>4. ASSUME NEW q \in People, Touches(q) PROVE OwnTouched(p)'
  <2>1. CASE p = q
    BY <1>4, <2>1, TouchesDoes DEF OwnTouched
  <2>2. CASE p # q
    BY <1>2, <1>4, <2>2, TouchesDoes DEF Touches
  <2> QED BY <2>1, <2>2
<1>5. ASSUME NEW x \in Edits, EditSaves(x) PROVE OwnTouched(p)'
  <2>1. CASE p = edit[x].p
    BY <1>5, <2>1, EditSavesDoes DEF OwnTouched
  <2>2. CASE p # edit[x].p
    BY <1>2, <1>5, <2>2, EditSavesDoes
  <2> QED BY <2>1, <2>2
<1>6. ASSUME NEW s \in Walks, MarksPushed(s) \/ MarksFailed(s) PROVE OwnTouched(p)'
  <2> DEFINE m == walk[s].p
  <2>1. /\ here'[m].says = here[m].says /\ \A q \in People \ {m} : here'[q] = here[q]
    BY <1>6, MarksPushedDoes, MarksFailedDoes
  <2>2. p # m => (p \in adrift' <=> p \in adrift)
    BY <1>6 DEF MarksPushed, MarksFailed
  <2>3. CASE p # m
    BY <1>2, <2>1, <2>2, <2>3
  <2>4. CASE p = m /\ walk[s].pc = "pushed"
    <3>1. p \notin adrift' => here[p].says = walk[s].copy.says
      BY <1>6, <2>4 DEF MarksPushed, MarksFailed, Unmoved
    <3>2. walk[s].copy.says \in reached'[p]
      BY <1>1, <2>4 DEF Heard
    <3> QED BY <2>1, <2>4, <3>1, <3>2 DEF OwnTouched
  <2>5. CASE p = m /\ walk[s].pc = "refused"
    <3>1. MarksFailed(s)
      BY <1>6, <2>5 DEF MarksPushed
    <3>2. here'[m].touched
      BY <2>5, <3>1, MarksFailedDoes
    <3> QED BY <2>5, <3>2 DEF OwnTouched
  <2> QED BY <1>6, <2>3, <2>4, <2>5 DEF MarksPushed, MarksFailed
<1>7. ASSUME NEW s \in Walks, MarksRemoved(s) PROVE OwnTouched(p)'
  <2>1. here'[p] = here[p] \/ here'[p].touched
    BY <1>7, MarksRemovedDoes
  <2> QED BY <1>2, <1>7, <2>1 DEF OwnTouched, MarksRemoved
<1>8. ASSUME NEW s \in Walks, NEW e \in walk[s].list, Saves(s, e) PROVE OwnTouched(p)'
  <2>1. \A q \in People \ {e.p} : here'[q] = here[q]
    BY <1>8, SavesDoes
  <2>2. p # e.p => (p \in adrift' <=> p \in adrift)
    BY <1>8 DEF Saves
  <2>3. CASE p # e.p
    BY <1>2, <2>1, <2>2, <2>3
  <2>4. CASE p = e.p /\ p \notin adrift'
    <3>1. here'[p] = [here[p] EXCEPT !.touched = TRUE] \/ here'[p].says = e.says
      BY <1>8, <2>4, SavesFaithful
    <3>2. here'[p] = [here[p] EXCEPT !.touched = TRUE] => here'[p].touched
      BY <1>1 DEF Person
    <3>3. e.says \in reached'[p]
      BY <1>1, <2>4 DEF Heard
    <3> QED BY <3>1, <3>2, <3>3 DEF OwnTouched
  <2>5. CASE p \in adrift'
    BY <2>5 DEF OwnTouched
  <2> QED BY <2>3, <2>4, <2>5
<1>9. ASSUME NEW s \in Walks, WalkStep(s), ~MarksPushed(s), ~MarksFailed(s), ~MarksRemoved(s),
             \A e \in walk[s].list : ~Saves(s, e)
      PROVE  UNCHANGED <<here, adrift>>
  BY <1>9 DEF WalkStep, WalkStarts, LoadsPending, Pushes, Fetches, TokenExpired,
              Loads, SavesToken, WalkThrows
<1> QED BY <1>3, <1>4, <1>5, <1>6, <1>7, <1>8, <1>9
        DEF ContactNext, contactVars, WritesThere, RemovesThere, EditLoads, ContactCrash

LEMMA HeardSteps ==
  ASSUME WellTyped, WellTyped', WalksSane, Heard, [ContactNext]_contactVars
  PROVE  Heard'
<1>1. \A p \in People : there'[p].says \in reached'[p] /\ reached[p] \subseteq reached'[p]
  BY ReachedMoves DEF Heard
<1>2. \A p \in People : OwnTouched(p)'
  BY TouchedSteps
<1>3. ASSUME NEW s \in Walks, NEW e \in walk'[s].list PROVE e.says \in reached'[e.p]
  <2>1. e.p \in People
    BY DEF WellTyped, Shapes, Journey, Entry
  <2>2. CASE walk'[s].list \subseteq walk[s].list
    BY <1>1, <2>1, <2>2 DEF Heard
  <2>3. CASE Fetches(s)
    <3>1. e.says = there[e.p].says /\ there' = there
      BY <2>3, FetchesDoes DEF Fetches
    <3> QED BY <1>1, <2>1, <3>1
  <2> QED BY <2>2, <2>3, PagesMove
<1>4. ASSUME NEW s \in Walks, walk'[s].pc = "pushed"
      PROVE  walk'[s].copy.says \in reached'[walk'[s].p]
  <2>1. CASE walk[s].pc = "pushed" /\ walk'[s].p = walk[s].p /\ walk'[s].copy = walk[s].copy
    <3>1. walk[s].p \in People
      BY <2>1 DEF WellTyped, WalkSane
    <3> QED BY <1>1, <2>1, <3>1 DEF Heard
  <2>2. ASSUME NEW d \in walk[s].pending, Pushes(s, d)
        PROVE  walk'[s].copy.says \in reached'[walk'[s].p]
    <3>1. /\ d[1] \in People /\ walk'[s].p = d[1] /\ clock' = clock + 1
          /\ \/ reached' = [reached EXCEPT ![d[1]] = @ \cup {walk'[s].copy.says}]
             \/ clock' = clock
      BY <1>4, <2>2, PushesDoes
    <3>2. clock \in Nat /\ reached \in [People -> SUBSET Nat]
      BY DEF WellTyped, Shapes
    <3>3. clock' # clock
      BY <3>1, <3>2
    <3> QED BY <3>1, <3>2, <3>3
  <2> QED BY <1>4, <2>1, <2>2, SentMoves
<1> QED BY <1>1, <1>2, <1>3, <1>4 DEF Heard, OwnTouched

-------------------------------------------------------------------------------
(* The invariant, and what it gives.                                          *)

LEMMA InitSound == ContactInit => Sound
<1> SUFFICES ASSUME ContactInit PROVE Sound
  OBVIOUS
<1>1. WellTyped
  BY InitTyped
<1>2. \A s \in Walks : walk[s] = NoWalk
  BY DEF ContactInit
<1>3. \A p \in People : ~here[p].linked /\ here[p].status # "synced"
  <2>1. /\ ~NoContact.linked /\ NoContact.status # "synced"
        /\ ~ByHandContact.linked /\ ByHandContact.status # "synced"
    BY DEF NoContact, ByHandContact
  <2>2. \A p \in People : here[p] \in {NoContact, ByHandContact}
    BY DEF ContactInit
  <2> QED BY <2>1, <2>2
<1>4. bookmark = NoBookmark /\ \A p \in People : reached[p] = {there[p].says}
  BY DEF ContactInit
<1>5. WalksSane
  BY <1>2, NoWalkIs DEF WalksSane, AloneSane, Underway, PageTrue, SentTrue, CopyLinked, PageKeys
<1>6. \A p \in People : KeysTrue(p)
  BY <1>3 DEF KeysTrue, Agrees
<1>7. Covering
  BY <1>2, <1>4, NoWalkIs DEF Covering, After
<1>8. Heard
  BY <1>2, <1>3, <1>4, NoWalkIs DEF Heard
<1> QED BY <1>1, <1>5, <1>6, <1>7, <1>8 DEF Sound

LEMMA StepSound == Sound /\ [ContactNext]_contactVars => Sound'
<1> SUFFICES ASSUME Sound, [ContactNext]_contactVars PROVE Sound'
  OBVIOUS
<1>1. WellTyped /\ WalksSane /\ (\A p \in People : KeysTrue(p)) /\ Covering /\ Heard
  BY DEF Sound
<1>2. WellTyped'
  BY <1>1, StepTyped
<1>3. \A s \in Walks : AloneSane(s)'
  BY <1>1, <1>2, AloneSteps DEF WalksSane
<1>4. \A s \in Walks : PageTrue(s)' /\ SentTrue(s)' /\ CopyLinked(s)'
  BY <1>1, PageTrueSteps, SentTrueSteps, CopyLinkedSteps DEF WalksSane
<1>5. \A s \in Walks : PageKeys(s)'
  BY <1>1, <1>2, PageKeysSteps
<1>6. \A p \in People : KeysTrue(p)'
  BY <1>1, KeysTrueSteps
<1>7. Covering' /\ Heard'
  BY <1>1, <1>2, CoveringSteps, HeardSteps
<1> QED BY <1>2, <1>3, <1>4, <1>5, <1>6, <1>7 DEF Sound, WalksSane

LEMMA AlwaysSound == ContactSpec => []Sound
BY InitSound, StepSound, PTL DEF ContactSpec

LEMMA SoundIsSound == Sound => ContactSound
<1> SUFFICES ASSUME Sound PROVE ContactSound
  OBVIOUS
<1>1. ASSUME NEW p \in People, PassedBy(p) PROVE Has(p)
  BY <1>1 DEF Sound, Covering, Covered, PassedBy
<1>2. InStep
  BY <1>1 DEF InStep, Has
<1>3. Taking
  BY <1>1 DEF Taking, Has
<1> QED BY <1>2, <1>3 DEF ContactSound

(* However many walks and edits meet, fail or die, the bookmark never passes what was not taken, *)
(* and whoever is marked synced says what Outlook says, but for the contacts the code lets drift. *)
THEOREM ContactIsSound == ContactSpec => []ContactSound
BY AlwaysSound, SoundIsSound, PTL

LEMMA StepSees ==
  ASSUME Sound, [ContactNext]_contactVars
  PROVE  [\A p \in People : Vanishes(p) => Blank \in {here[p].says, here'[p].says}]_here
<1> SUFFICES ASSUME NEW p \in People, p \notin adrift, here[p].linked, edit' = edit,
                    here[p].says \notin reached[p], here'[p].says \in reached[p],
                    here'[p].status # "conflict",
                    ~ \E s \in Walks : walk[s].pc = "save" /\ walk[s].p = p /\ walk[s].copy # here[p],
                    Blank \notin {here[p].says, here'[p].says}
             PROVE  FALSE
  BY DEF Vanishes
<1>1. WellTyped /\ WalksSane /\ Heard /\ here \in [People -> Person] /\ here'[p].says # here[p].says
  BY DEF Sound, WellTyped, Shapes
<1>2. said \in Nat /\ \A n \in reached[p] : n \in Nat /\ n <= said
  BY <1>1, Constants DEF WellTyped, Shapes, Past
<1>3. ~UNCHANGED here
  BY <1>1
<1>4. ASSUME NEW q \in People, Touches(q) PROVE FALSE
  BY <1>1, <1>4, TouchesDoes
<1>5. ASSUME NEW x \in Edits, EditSaves(x) PROVE FALSE
  <2>1. p = edit[x].p => here'[p].says \in Sayings
    BY <1>1, <1>5, EditSavesDoes
  <2>2. p # edit[x].p => here'[p] = here[p]
    BY <1>1, <1>5, EditSavesDoes
  <2>3. \A n \in Sayings : n = Blank \/ n \notin reached[p]
    BY <1>2 DEF Sayings
  <2> QED BY <1>1, <2>1, <2>2, <2>3
<1>6. ASSUME NEW s \in Walks, MarksPushed(s) \/ MarksFailed(s) PROVE FALSE
  BY <1>1, <1>6, MarksPushedDoes, MarksFailedDoes
<1>7. ASSUME NEW s \in Walks, MarksRemoved(s) PROVE FALSE
  BY <1>1, <1>7, MarksRemovedDoes
<1>8. ASSUME NEW s \in Walks, NEW e \in walk[s].list, Saves(s, e)
      PROVE  FALSE
  <2> DEFINE now == here[p]
             copy == walk[s].copy
  <2>1. /\ p = e.p /\ walk[s].pc = "save" /\ walk[s].p = p /\ copy \in Person /\ e \in Entry
        /\ now \in Person
    BY <1>1, <1>8, SavesDoes
  <2>2. now = copy
    BY <2>1
  <2>3. PICK touched \in BOOLEAN : here'[p] = Taken(now, copy, e, touched)
    <3>1. \E touched \in BOOLEAN : here'[e.p] = Taken(here[e.p], walk[s].copy, e, touched)
      BY <1>1, <1>8, SavesDoes
    <3> QED BY <2>1, <3>1
  <2>4. copy.linked /\ copy.touched /\ e.says # copy.says
    <3>1. now.touched
      BY <1>1 DEF Heard
    <3>2. e.says \in reached[p]
      BY <1>1, <2>1 DEF Heard
    <3> QED BY <2>2, <3>1, <3>2
  <2>6. here'[p].says # now.says /\ Blank \notin {now.says, here'[p].says}
    BY <1>1
  <2> HIDE DEF now, copy
  <2>7. LET h == Taken(now, copy, e, touched) IN
        /\ copy.linked /\ copy.key = e.key => h = [now EXCEPT !.touched = TRUE]
        /\ copy.linked /\ copy.key # e.key =>
             /\ h.key = e.key /\ h.says = Kept(e.says, copy.says, now.says)
             /\ h.status = Kept(IF Clashes(copy, e) THEN "conflict" ELSE "synced", copy.status,
                                now.status)
    BY <2>1, TakenIs
  <2>8. copy.key # e.key
    BY <2>1, <2>3, <2>4, <2>6, <2>7 DEF Person
  <2>9. here'[p].says = e.says
    BY <2>2, <2>3, <2>4, <2>6, <2>7, <2>8 DEF Kept
  <2>10. Clashes(copy, e)
    BY <2>2, <2>4, <2>6, <2>9 DEF Clashes
  <2> QED BY <2>2, <2>3, <2>4, <2>7, <2>8, <2>10 DEF Kept
<1>9. ASSUME NEW s \in Walks, WalkStep(s), ~MarksPushed(s), ~MarksFailed(s), ~MarksRemoved(s),
             \A e \in walk[s].list : ~Saves(s, e)
      PROVE  UNCHANGED here
  BY <1>9 DEF WalkStep, WalkStarts, LoadsPending, Pushes, Fetches, TokenExpired,
              Loads, SavesToken, WalkThrows
<1> QED BY <1>3, <1>4, <1>5, <1>6, <1>7, <1>8, <1>9
        DEF ContactNext, contactVars, WritesThere, RemovesThere, EditLoads, ContactCrash

(* What was said here and never reached Outlook gives way to what Outlook says only with the *)
(* conflict marked, or where one of the two is blank, however many walks and edits there are. *)
THEOREM EditIsSeen == ContactSpec => EditSeen
BY AlwaysSound, StepSees, PTL DEF ContactSpec, EditSeen

(* While one of the two is at work the other stands still, so whatever either keeps on its    *)
(* own it keeps beside the other.                                                             *)
THEOREM PeopleStepEither == PeopleSpec => Spec /\ ContactSpec
<1>1. PeopleInit => Init /\ ContactInit
  BY DEF PeopleInit
<1>2. [PeopleNext]_<<side, vars, contactVars>> => [Next]_vars /\ [ContactNext]_contactVars
  BY Zenon DEF PeopleNext
<1> QED BY <1>1, <1>2, PTL DEF PeopleSpec, Spec, ContactSpec

(* The documents, walks, campaigns and requests of the run hold what the code may put there.  *)
THEOREM PeopleTypesHold == PeopleSpec => []PeopleTypes
<1>1. Typed /\ ContactTypes => PeopleTypes
  BY DEF Typed, PeopleTypes
<1> QED BY <1>1, PeopleStepEither, CampaignTypes, ContactTypesHold, PTL
================================================================================
