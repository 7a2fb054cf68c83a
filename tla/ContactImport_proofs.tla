-------------------------- MODULE ContactImport_proofs -------------------------
(****************************************************************************)
(* The import of contacts: types, what a rollback leaves behind, and that an *)
(* import that breaks off and is run again makes no twins and skips no row.  *)
(****************************************************************************)
EXTENDS ContactImport, FiniteSetTheorems, WellFoundedInduction, TLAPS

Pcs == {"idle", "analyse", "lock", "chunk", "save", "finish", "catch", "remove", "record", "over"}

(* What a request is, and what it holds at each of its calls. *)
CallRecord ==
  [pc : Pcs, cursor : 0 .. Cardinality(Rows), failed : BOOLEAN, fresh : SUBSET Rows,
   known : SUBSET Rows, action : {"skip", "update", "anyway"}, ids : SUBSET FromRow,
   came : SUBSET Emails]

Holds(a, w) ==
  /\ w.pc \notin {"save", "remove", "record"} => w.ids = {}
  /\ w.pc = "save" => w.ids \subseteq Rows \X {a}
  /\ w.fresh \cap w.known = {}
  /\ \A r \in w.fresh \cup w.known : FirstOfFile(r)

(* What was inserted came from a row that is the first with its address. *)
FromFirsts == \A r \in Rows : \A a \in Calls : book[<<r, a>>] # "none" => FirstOfFile(r)

Types == ImportTypes /\ \A a \in Calls : Holds(a, call[a])

Typed == Types /\ FromFirsts

JobRecord ==
  [status : {"draft", "running", "completed", "partial", "failed", "rolled_back"},
   cursor : 0 .. Cardinality(Rows), failed : BOOLEAN, lock : {"free", "held", "stale"},
   rows : BOOLEAN, action : {"skip", "update", "anyway"}, created : SUBSET FromRow,
   rolledBack : BOOLEAN]

LEMMA FileShape ==
  ASSUME file \in Files
  PROVE  /\ Cardinality(Rows) \in Nat /\ Rows = 1 .. Cardinality(Rows) /\ IsFiniteSet(Rows)
         /\ \A r \in Rows : r \in Nat \ {0} /\ file[r].email \in Emails \cup {NoEmail}
                            /\ file[r].fits \in BOOLEAN
<1>1. IsFiniteSet(Rows) /\ Rows = 1 .. Cardinality(Rows)
      /\ \A r \in Rows : file[r] \in [email : Emails \cup {NoEmail}, fits : BOOLEAN]
  BY ImportAssumption DEF ImportAssumption, Rows
<1>2. Cardinality(Rows) \in Nat
  BY <1>1, FS_CardinalityType
<1> QED BY <1>1, <1>2

LEMMA TypedFile == ASSUME ImportTypes PROVE file \in Files
BY DEF ImportTypes

(* Contacts made from a row are not those made by hand. *)
LEMMA KeyShape ==
  ASSUME file \in Files
  PROVE  /\ \A r \in Rows, a \in Calls : <<r, a>> \in FromRow /\ <<r, a>> \notin ByHand
                                         /\ Email(<<r, a>>) = file[r].email
         /\ \A e \in Emails : <<0, e>> \in ByHand /\ Email(<<0, e>>) = e /\ <<0, e>> \notin FromRow
         /\ \A k \in FromRow : \E r \in Rows, a \in Calls : k = <<r, a>>
         /\ \A k \in ByHand : \E e \in Emails : k = <<0, e>>
<1>1. \A r \in Rows : r \in Nat \ {0}
  BY FileShape
<1> QED BY <1>1 DEF FromRow, ByHand, Email

LEMMA FirstIsUsable == ASSUME file \in Files, NEW r \in Rows, FirstOfFile(r) PROVE file[r].email \in Emails
BY FileShape DEF FirstOfFile, Usable

(* Two rows that are the first with their addresses have different ones. *)
LEMMA FirstsDiffer ==
  ASSUME file \in Files, NEW r \in Rows, NEW q \in Rows, FirstOfFile(r), FirstOfFile(q),
         file[r].email = file[q].email
  PROVE  r = q
<1>1. r \in Nat /\ q \in Nat
  BY FileShape
<1>2. ~(q < r) /\ ~(r < q)
  BY DEF FirstOfFile
<1> QED BY <1>1, <1>2

(* Of the rows with one address there is a first. *)
LEMMA FirstExists ==
  ASSUME file \in Files, NEW r \in Rows, Usable(r)
  PROVE  \E q \in Rows : q <= r /\ file[q].email = file[r].email /\ FirstOfFile(q)
<1> DEFINE T == {q \in Rows : file[q].email = file[r].email}
           R == OpToRel(<, Nat)
<1>1. Rows \subseteq Nat
  BY FileShape
<1>2. T \subseteq Nat /\ T # {}
  BY <1>1
<1>3. PICK q \in T : \A p \in T : ~(<<p, q>> \in R)
  <2> HIDE DEF T, R
  <2>1. IsWellFoundedOn(R, Nat)
    BY NatLessThanWellFounded DEF R
  <2> QED BY <1>2, <2>1, WFMin
<1>4. \A p \in T : ~(p < q)
  BY <1>2, <1>3 DEF OpToRel
<1>5. q <= r
  BY <1>1, <1>4
<1>6. FirstOfFile(q)
  BY <1>1, <1>4 DEF FirstOfFile, Usable
<1> QED BY <1>5, <1>6

-------------------------------------------------------------------------------
(* Types.                                                                    *)

LEMMA NoCallType == ASSUME file \in Files, NEW a \in Calls
                    PROVE  NoCall \in CallRecord /\ Over \in CallRecord /\ Holds(a, NoCall) /\ Holds(a, Over)
<1>1. 0 \in 0 .. Cardinality(Rows)
  BY FileShape
<1> QED BY <1>1 DEF NoCall, Over, CallRecord, Holds, Pcs

LEMMA TypedInit == ImportInit => Types
<1> SUFFICES ASSUME ImportInit PROVE Types
  OBVIOUS
<1>1. file \in Files
  BY DEF ImportInit
<1>2. Cardinality(Rows) \in Nat
  BY <1>1, FileShape
<1>3. call \in [Calls -> CallRecord] /\ \A a \in Calls : Holds(a, call[a])
  BY <1>1, NoCallType DEF ImportInit
<1>4. book \in [Keys -> {"none", "live", "gone"}]
  BY DEF ImportInit, Keys
<1> QED BY <1>1, <1>2, <1>3, <1>4 DEF ImportInit, Typed, Types, ImportTypes, CallRecord, Pcs

(* One request moves on. *)
LEMMA CallPut ==
  ASSUME Typed, NEW a \in Calls, NEW w \in CallRecord, Holds(a, w), call' = [call EXCEPT ![a] = w],
         UNCHANGED file
  PROVE  call' \in [Calls -> CallRecord'] /\ (\A b \in Calls : Holds(b, call[b]))'
<1>1. call \in [Calls -> CallRecord]
  BY DEF Typed, Types, ImportTypes, CallRecord, Pcs
<1>2. CallRecord' = CallRecord
  BY DEF CallRecord, Rows, FromRow
<1>3. \A b \in Calls : \A v : Holds(b, v)' <=> Holds(b, v)
  BY DEF Holds, FirstOfFile, Usable, Rows
<1> QED BY <1>1, <1>2 DEF Typed, Types, Holds, FirstOfFile, Usable, Rows

LEMMA CallsTyped == ASSUME Typed PROVE call \in [Calls -> CallRecord]
BY DEF Typed, Types, ImportTypes, CallRecord, Pcs

(* The pieces of a typed step. *)
LEMMA TypesFrom ==
  ASSUME Typed, UNCHANGED file,
         book' \in [Keys -> {"none", "live", "gone"}], job' \in JobRecord,
         call' \in [Calls -> CallRecord'], (\A b \in Calls : Holds(b, call[b]))',
         breaks' \in Nat, astray' \subseteq Keys, missed' \subseteq Keys, restored' \subseteq Keys,
         mixed' \subseteq Emails
  PROVE  Types'
<1>1. Rows' = Rows /\ FromRow' = FromRow /\ Keys' = Keys /\ CallRecord' = CallRecord
  BY DEF Rows, FromRow, Keys, CallRecord
<1>2. file' \in Files
  BY TypedFile DEF Typed, Types
<1> QED BY <1>1, <1>2 DEF Types, ImportTypes, JobRecord, CallRecord, Pcs

LEMMA OldTypes ==
  ASSUME Typed
  PROVE  /\ book \in [Keys -> {"none", "live", "gone"}] /\ job \in JobRecord
         /\ breaks \in Nat /\ breaks + 1 \in Nat
         /\ astray \subseteq Keys /\ missed \subseteq Keys /\ restored \subseteq Keys
         /\ mixed \subseteq Emails
<1>1. job \in JobRecord
  BY DEF Typed, Types, ImportTypes, JobRecord
<1> QED BY <1>1 DEF Typed, Types, ImportTypes

LEMMA RunLoadsType == ASSUME Typed, NEW a \in Calls, RunLoads(a) PROVE Types'
<1> DEFINE w == [call[a] EXCEPT !.pc = "analyse", !.cursor = job.cursor, !.failed = job.failed]
<1>1. w \in CallRecord /\ Holds(a, w)
  <2>1. call[a] \in CallRecord /\ Holds(a, call[a]) /\ call[a].pc = "idle"
    BY CallsTyped DEF RunLoads, Typed, Types
  <2>2. job.cursor \in 0 .. Cardinality(Rows) /\ job.failed \in BOOLEAN
    BY DEF Typed, Types, ImportTypes
  <2> QED BY <2>1, <2>2 DEF CallRecord, Holds, Pcs
<1>2. call' = [call EXCEPT ![a] = w] /\ UNCHANGED file
  BY CallsTyped DEF RunLoads, CallRecord
<1> HIDE DEF w
<1>3. call' \in [Calls -> CallRecord'] /\ (\A b \in Calls : Holds(b, call[b]))'
  BY <1>1, <1>2, CallPut
<1> QED BY <1>3 DEF RunLoads, Typed, Types, ImportTypes, CallRecord, Pcs, importHistory, Rows, Keys, FromRow

LEMMA AnalyseType == ASSUME Typed, NEW a \in Calls, Analyse(a) PROVE Types'
<1> DEFINE first == {r \in Rows : FirstOfFile(r)}
           there == {r \in first : Live(file[r].email) # {}}
           w == [call[a] EXCEPT !.pc = "lock", !.fresh = first \ there, !.known = there, !.came = {}]
<1>1. w \in CallRecord /\ Holds(a, w)
  <2>1. call[a] \in CallRecord /\ Holds(a, call[a]) /\ call[a].pc = "analyse"
    BY CallsTyped DEF Analyse, Typed, Types
  <2>2. there \subseteq first /\ first \subseteq Rows /\ \A r \in first : FirstOfFile(r)
    OBVIOUS
  <2> HIDE DEF first, there
  <2> QED BY <2>1, <2>2 DEF CallRecord, Holds, Pcs
<1>2. call' = [call EXCEPT ![a] = w] /\ UNCHANGED file
  BY CallsTyped DEF Analyse, CallRecord
<1> HIDE DEF w
<1>3. call' \in [Calls -> CallRecord'] /\ (\A b \in Calls : Holds(b, call[b]))'
  BY <1>1, <1>2, CallPut
<1> QED BY <1>3 DEF Analyse, Typed, Types, ImportTypes, CallRecord, Pcs, importHistory, Rows, Keys, FromRow

LEMMA OverType == ASSUME Typed, NEW a \in Calls, call' = [call EXCEPT ![a] = Over], UNCHANGED file
                  PROVE  call' \in [Calls -> CallRecord'] /\ (\A b \in Calls : Holds(b, call[b]))'
BY NoCallType, CallPut, TypedFile DEF Typed, Types

LEMMA LockType == ASSUME Typed, NEW a \in Calls, LockImport(a) PROVE Types'
<1>1. CASE job.lock = "held"
  <2>1. call' = [call EXCEPT ![a] = Over]
    BY <1>1 DEF LockImport
  <2>2. call' \in [Calls -> CallRecord'] /\ (\A b \in Calls : Holds(b, call[b]))'
    BY <2>1, OverType DEF LockImport
  <2> QED BY <1>1, <2>2 DEF LockImport, Typed, Types, ImportTypes, CallRecord, Pcs, importHistory, Rows, Keys, FromRow
<1>2. CASE job.lock # "held"
  <2> DEFINE w == [call[a] EXCEPT !.action = job.action,
                     !.pc = IF call[a].cursor < Cardinality(Rows) THEN "chunk" ELSE "finish"]
  <2>1. w \in CallRecord /\ Holds(a, w)
    <3>1. call[a] \in CallRecord /\ Holds(a, call[a]) /\ call[a].pc = "lock"
      BY CallsTyped DEF LockImport, Typed, Types
    <3>2. job.action \in {"skip", "update", "anyway"}
      BY DEF Typed, Types, ImportTypes
    <3> QED BY <3>1, <3>2 DEF CallRecord, Holds, Pcs
  <2>2. call' = [call EXCEPT ![a] = w] /\ UNCHANGED file
    BY <1>2, CallsTyped DEF LockImport, CallRecord
  <2> HIDE DEF w
  <2>3. call' \in [Calls -> CallRecord'] /\ (\A b \in Calls : Holds(b, call[b]))'
    BY <2>1, <2>2, CallPut
  <2> QED BY <1>2, <2>3 DEF LockImport, Typed, Types, ImportTypes, CallRecord, Pcs, importHistory, Rows, Keys, FromRow
<1> QED BY <1>1, <1>2

(* How far a chunk goes, and what it is about to insert. *)
LEMMA ChunkShape ==
  ASSUME Typed, NEW a \in Calls
  PROVE  /\ ChunkEnd(a) \in 0 .. Cardinality(Rows) /\ call[a].cursor <= ChunkEnd(a)
         /\ Inserted(a) \subseteq ToInsert(a) /\ ToInsert(a) \subseteq Chunk(a) /\ Chunk(a) \subseteq Rows
         /\ \A r \in ToInsert(a) : FirstOfFile(r)
<1>1. Cardinality(Rows) \in Nat /\ ChunkRows \in Nat /\ call[a].cursor \in 0 .. Cardinality(Rows)
  BY FileShape, TypedFile, CallsTyped, ImportAssumption DEF Typed, Types, ImportAssumption, CallRecord
<1>2. ChunkEnd(a) \in 0 .. Cardinality(Rows) /\ call[a].cursor <= ChunkEnd(a)
  BY <1>1 DEF ChunkEnd
<1>3. \A r \in ToInsert(a) : FirstOfFile(r)
  BY DEF ToInsert, Typed, Types, Holds
<1> QED BY <1>2, <1>3 DEF Inserted, ToInsert, Chunk

(* What a chunk does, whatever landed of it. *)
LandStep(a, landed, known, failed) ==
  /\ call[a].pc = "chunk"
  /\ landed \subseteq Inserted(a) /\ known \subseteq landed /\ failed \in BOOLEAN
  /\ landed # Inserted(a) => failed
  /\ Land(a, landed, known, failed)
  /\ breaks' \in {breaks, breaks + 1}
  /\ UNCHANGED <<file, job, missed, restored>>

LEMMA ChunkLands ==
  ASSUME Typed, NEW a \in Calls, InsertChunk(a) \/ RowsRefused(a) \/ AnswerLost(a)
  PROVE  \E landed, known \in SUBSET Inserted(a), failed \in BOOLEAN :
            LandStep(a, landed, known, failed)
<1>1. CASE InsertChunk(a)
  BY <1>1 DEF InsertChunk, LandStep, importHistory
<1>2. CASE RowsRefused(a)
  BY <1>2 DEF RowsRefused, LandStep, Breaks
<1>3. CASE AnswerLost(a)
  <2>1. AllFailed(a) = TRUE
    BY <1>3, ChunkShape DEF AnswerLost, AllFailed
  <2>2. PICK landed \in SUBSET Inserted(a) : Land(a, landed, {}, TRUE)
    BY <1>3, <2>1 DEF AnswerLost
  <2>3. LandStep(a, landed, {}, TRUE)
    BY <1>3, <2>2 DEF AnswerLost, LandStep, Breaks
  <2> QED BY <2>3
<1> QED BY <1>1, <1>2, <1>3

(* The requests after a chunk. *)
LEMMA LandCalls ==
  ASSUME Typed, NEW a \in Calls, NEW landed, NEW known, NEW failed, LandStep(a, landed, known, failed)
  PROVE  /\ call' \in [Calls -> CallRecord'] /\ (\A b \in Calls : Holds(b, call[b]))'
         /\ call'[a].pc = "save" /\ call'[a].cursor = ChunkEnd(a) /\ call'[a].ids = known \X {a}
         /\ call'[a].failed = (call[a].failed \/ failed)
         /\ \A b \in Calls \ {a} :
              /\ call'[b].pc = call[b].pc /\ call'[b].cursor = call[b].cursor
              /\ call'[b].ids = call[b].ids /\ call'[b].failed = call[b].failed
              /\ b \in Running => call'[b].came = call[b].came \cup {file[r].email : r \in landed}
         /\ \A b \in Calls :
              /\ call'[b].fresh = call[b].fresh /\ call'[b].known = call[b].known
              /\ call'[b].action = call[b].action
         /\ call'[a].came = call[a].came
<1> DEFINE came == {file[r].email : r \in landed}
           w == [call[a] EXCEPT !.pc = "save", !.cursor = ChunkEnd(a), !.ids = known \X {a},
                                !.failed = @ \/ failed]
           v(b) == [call[b] EXCEPT !.came = @ \cup came]
<1>1. call \in [Calls -> CallRecord] /\ call[a].pc = "chunk" /\ \A b \in Calls : Holds(b, call[b])
  BY CallsTyped DEF LandStep, Typed, Types
<1>2. landed \subseteq Rows /\ known \subseteq landed /\ failed \in BOOLEAN
      /\ \A r \in landed : FirstOfFile(r)
  BY ChunkShape DEF LandStep
<1>3. came \subseteq Emails
  BY <1>2, FirstIsUsable, TypedFile DEF Typed, Types
<1>4. call' = [b \in Calls |-> IF b = a THEN w ELSE IF b \in Running THEN v(b) ELSE call[b]]
  BY DEF LandStep, Land
<1> HIDE DEF came
<1>5. w \in CallRecord /\ Holds(a, w)
  <2>1. known \X {a} \subseteq FromRow /\ known \X {a} \subseteq Rows \X {a}
    BY <1>2 DEF FromRow
  <2>2. ChunkEnd(a) \in 0 .. Cardinality(Rows)
    BY ChunkShape
  <2>3. (call[a].failed \/ failed) \in BOOLEAN
    OBVIOUS
  <2>4. call[a] \in CallRecord /\ Holds(a, call[a])
    BY <1>1
  <2> DEFINE f == call[a].failed \/ failed
             ids == known \X {a}
             n == ChunkEnd(a)
  <2>5. w = [call[a] EXCEPT !.pc = "save", !.cursor = n, !.ids = ids, !.failed = f]
    BY <2>4 DEF CallRecord
  <2> HIDE DEF w, f, ids, n
  <2>6. n \in 0 .. Cardinality(Rows) /\ f \in BOOLEAN /\ ids \subseteq FromRow /\ ids \subseteq Rows \X {a}
    BY <2>1, <2>2, <2>3 DEF n, f, ids
  <2> QED BY <2>4, <2>5, <2>6 DEF CallRecord, Holds, Pcs
<1>6. \A b \in Calls : v(b) \in CallRecord /\ Holds(b, v(b))
  BY <1>1, <1>3 DEF CallRecord, Holds
<1>7. CallRecord' = CallRecord /\ UNCHANGED file
  BY DEF CallRecord, Rows, FromRow, LandStep
<1>8. call' \in [Calls -> CallRecord] /\ \A b \in Calls : Holds(b, call'[b])
  <2> HIDE DEF w, v
  <2> QED BY <1>1, <1>4, <1>5, <1>6
<1>9. (\A b \in Calls : Holds(b, call[b]))'
  BY <1>7, <1>8 DEF Holds, FirstOfFile, Usable, Rows
<1>10. call'[a] = w /\ \A b \in Calls \ {a} : call'[b] = IF b \in Running THEN v(b) ELSE call[b]
  BY <1>4
<1>11. call[a] \in CallRecord
  BY <1>1
<1>12. \A b \in Calls \ {a} : v(b).pc = call[b].pc /\ v(b).cursor = call[b].cursor
         /\ v(b).ids = call[b].ids /\ v(b).failed = call[b].failed /\ v(b).fresh = call[b].fresh
         /\ v(b).known = call[b].known /\ v(b).action = call[b].action
         /\ v(b).came = call[b].came \cup came
  BY <1>1 DEF CallRecord
<1>13. w.pc = "save" /\ w.cursor = ChunkEnd(a) /\ w.ids = known \X {a} /\ w.failed = (call[a].failed \/ failed)
       /\ w.fresh = call[a].fresh /\ w.known = call[a].known /\ w.action = call[a].action
       /\ w.came = call[a].came
  BY <1>11 DEF CallRecord
<1> HIDE DEF w, v
<1>14. \A b \in Calls \ {a} :
         /\ call'[b].pc = call[b].pc /\ call'[b].cursor = call[b].cursor
         /\ call'[b].ids = call[b].ids /\ call'[b].failed = call[b].failed
         /\ b \in Running => call'[b].came = call[b].came \cup came
         /\ call'[b].fresh = call[b].fresh /\ call'[b].known = call[b].known
         /\ call'[b].action = call[b].action
  BY <1>10, <1>12
<1> QED BY <1>7, <1>8, <1>9, <1>10, <1>13, <1>14 DEF came

LEMMA LandType ==
  ASSUME Typed, NEW a \in Calls, NEW landed, NEW known, NEW failed, LandStep(a, landed, known, failed)
  PROVE  Types'
<1>1. call' \in [Calls -> CallRecord'] /\ (\A b \in Calls : Holds(b, call[b]))'
  BY LandCalls
<1>2. landed \subseteq Rows /\ known \subseteq landed /\ \A r \in landed : FirstOfFile(r)
  BY ChunkShape DEF LandStep
<1>3. landed \X {a} \subseteq FromRow
  BY <1>2 DEF FromRow
<1>4. {file[r].email : r \in landed} \subseteq Emails
  BY <1>2, FirstIsUsable, TypedFile DEF Typed, Types
<1>5. mixed' \subseteq Emails
  <2>1. {file[r].email : r \in landed \cap call[a].known} \subseteq {file[r].email : r \in landed}
    OBVIOUS
  <2> QED BY <1>4, <2>1 DEF LandStep, Land, Typed, Types, ImportTypes
<1>6. book' \in [Keys -> {"none", "live", "gone"}] /\ astray' \subseteq Keys
  BY <1>3 DEF LandStep, Land, Typed, Types, ImportTypes, Keys
<1>7. breaks' \in Nat
  BY DEF LandStep, Typed, Types, ImportTypes
<1>8. UNCHANGED <<file, job, missed, restored>>
  BY DEF LandStep
<1> QED BY <1>1, <1>5, <1>6, <1>7, <1>8 DEF Typed, Types, ImportTypes, CallRecord, Pcs, Rows, Keys, FromRow

LEMMA SaveChunkType == ASSUME Typed, NEW a \in Calls, SaveChunk(a) PROVE Types'
<1> DEFINE w == [call[a] EXCEPT !.ids = {}, !.pc = IF call[a].cursor < Cardinality(Rows) THEN "chunk" ELSE "finish"]
<1>1. w \in CallRecord /\ Holds(a, w)
  <2>1. call[a] \in CallRecord /\ Holds(a, call[a]) /\ call[a].pc = "save"
    BY CallsTyped DEF SaveChunk, Typed, Types
  <2> QED BY <2>1 DEF CallRecord, Holds, Pcs
<1>2. call' = [call EXCEPT ![a] = w] /\ UNCHANGED file
  BY CallsTyped DEF SaveChunk, CallRecord, Moves
<1>3. call[a] \in CallRecord
  BY CallsTyped
<1> HIDE DEF w
<1>4. call' \in [Calls -> CallRecord'] /\ (\A b \in Calls : Holds(b, call[b]))'
  BY <1>1, <1>2, CallPut
<1> QED BY <1>3, <1>4 DEF SaveChunk, Typed, Types, ImportTypes, CallRecord, Pcs, importHistory, Rows, Keys, FromRow, Breaks, Lengthens

LEMMA WriteFailsType == ASSUME Typed, NEW a \in Calls, WriteFails(a) PROVE Types'
<1> DEFINE w == [call[a] EXCEPT !.pc = "catch", !.ids = {}]
<1>1. w \in CallRecord /\ Holds(a, w)
  <2>1. call[a] \in CallRecord /\ Holds(a, call[a]) /\ call[a].pc \in {"save", "finish"}
    BY CallsTyped DEF WriteFails, Typed, Types
  <2> QED BY <2>1 DEF CallRecord, Holds, Pcs
<1>2. call' = [call EXCEPT ![a] = w] /\ UNCHANGED file
  BY CallsTyped DEF WriteFails, CallRecord, Moves
<1>3. call[a] \in CallRecord
  BY CallsTyped
<1> HIDE DEF w
<1>4. call' \in [Calls -> CallRecord'] /\ (\A b \in Calls : Holds(b, call[b]))'
  BY <1>1, <1>2, CallPut
<1> QED BY <1>3, <1>4 DEF WriteFails, Typed, Types, ImportTypes, CallRecord, Pcs, importHistory, Rows, Keys, FromRow, Breaks

LEMMA RollbackLoadsType == ASSUME Typed, NEW a \in Calls, RollbackLoads(a) PROVE Types'
<1> DEFINE w == [call[a] EXCEPT !.pc = IF job.created = {} THEN "record" ELSE "remove", !.ids = job.created]
<1>1. w \in CallRecord /\ Holds(a, w)
  <2>1. call[a] \in CallRecord /\ Holds(a, call[a]) /\ call[a].pc = "idle" /\ job.created \subseteq FromRow
    BY CallsTyped DEF RollbackLoads, Typed, Types, ImportTypes
  <2> QED BY <2>1 DEF CallRecord, Holds, Pcs
<1>2. call' = [call EXCEPT ![a] = w] /\ UNCHANGED file
  BY CallsTyped DEF RollbackLoads, CallRecord, Moves
<1>3. call[a] \in CallRecord
  BY CallsTyped
<1> HIDE DEF w
<1>4. call' \in [Calls -> CallRecord'] /\ (\A b \in Calls : Holds(b, call[b]))'
  BY <1>1, <1>2, CallPut
<1> QED BY <1>3, <1>4 DEF RollbackLoads, Typed, Types, ImportTypes, CallRecord, Pcs, importHistory, Rows, Keys, FromRow, Breaks

LEMMA RollbackRemovesType == ASSUME Typed, NEW a \in Calls, RollbackRemoves(a) PROVE Types'
<1> DEFINE w == [call[a] EXCEPT !.pc = "record"]
<1>1. w \in CallRecord /\ Holds(a, w)
  <2>1. call[a] \in CallRecord /\ Holds(a, call[a]) /\ call[a].pc = "remove"
    BY CallsTyped DEF RollbackRemoves, Typed, Types
  <2> QED BY <2>1 DEF CallRecord, Holds, Pcs
<1>2. call' = [call EXCEPT ![a] = w] /\ UNCHANGED file
  BY CallsTyped DEF RollbackRemoves, CallRecord, Moves
<1>3. call[a] \in CallRecord
  BY CallsTyped
<1> HIDE DEF w
<1>4. call' \in [Calls -> CallRecord'] /\ (\A b \in Calls : Holds(b, call[b]))'
  BY <1>1, <1>2, CallPut
<1> QED BY <1>3, <1>4 DEF RollbackRemoves, Typed, Types, ImportTypes, CallRecord, Pcs, importHistory, Rows, Keys, FromRow, Breaks

LEMMA FinishType == ASSUME Typed, NEW a \in Calls, FinishImport(a) PROVE Types'
<1>1. call[a] \in CallRecord
  BY CallsTyped
<1>2. call' \in [Calls -> CallRecord'] /\ (\A b \in Calls : Holds(b, call[b]))'
  BY OverType DEF FinishImport
<1> QED BY <1>1, <1>2 DEF FinishImport, Typed, Types, ImportTypes, CallRecord, Pcs, importHistory, Rows, Keys, FromRow, Breaks

LEMMA CatchType == ASSUME Typed, NEW a \in Calls, Catch(a) PROVE Types'
<1>1. call[a] \in CallRecord
  BY CallsTyped
<1>2. call' \in [Calls -> CallRecord'] /\ (\A b \in Calls : Holds(b, call[b]))'
  BY OverType DEF Catch
<1>3. call[a].cursor \in 0 .. Cardinality(Rows) /\ call[a].failed \in BOOLEAN
  BY <1>1 DEF CallRecord
<1>4. job' \in JobRecord
  BY <1>3, OldTypes DEF Catch, JobRecord
<1>5. breaks' \in Nat /\ UNCHANGED <<file, book, importHistory>>
  BY OldTypes DEF Catch, Breaks
<1> QED BY <1>2, <1>4, <1>5, OldTypes, TypesFrom DEF importHistory

LEMMA RollbackRecordsType == ASSUME Typed, NEW a \in Calls, RollbackRecords(a) PROVE Types'
<1>1. call[a] \in CallRecord
  BY CallsTyped
<1>2. call' \in [Calls -> CallRecord'] /\ (\A b \in Calls : Holds(b, call[b]))'
  BY OverType DEF RollbackRecords
<1>3. missed' \subseteq Keys
  BY OldTypes DEF RollbackRecords, JobRecord, Keys
<1>4. job' \in JobRecord
  BY OldTypes DEF RollbackRecords, JobRecord
<1>5. UNCHANGED <<file, book, breaks, astray, restored, mixed>>
  BY DEF RollbackRecords
<1> QED BY <1>2, <1>3, <1>4, <1>5, OldTypes, TypesFrom

(* An address enters the book: the requests on their way take note. *)
LEMMA EntersType ==
  ASSUME Typed, NEW e \in Emails, Enters(e), UNCHANGED file
  PROVE  /\ call' \in [Calls -> CallRecord'] /\ (\A b \in Calls : Holds(b, call[b]))'
         /\ mixed' \subseteq Emails
<1> DEFINE v(b) == [call[b] EXCEPT !.came = @ \cup {e}]
<1>1. call \in [Calls -> CallRecord] /\ \A b \in Calls : Holds(b, call[b])
  BY CallsTyped DEF Typed, Types
<1>2. \A b \in Calls : v(b) \in CallRecord /\ Holds(b, v(b))
  BY <1>1 DEF CallRecord, Holds
<1>3. call' = [b \in Calls |-> IF b \in Running THEN v(b) ELSE call[b]]
  BY DEF Enters
<1>4. CallRecord' = CallRecord
  BY DEF CallRecord, Rows, FromRow
<1> HIDE DEF v
<1>5. call' \in [Calls -> CallRecord] /\ \A b \in Calls : Holds(b, call'[b])
  BY <1>1, <1>2, <1>3
<1>6. mixed' \subseteq Emails
  BY DEF Enters, Typed, Types, ImportTypes
<1> QED BY <1>4, <1>5, <1>6 DEF Holds, FirstOfFile, Usable, Rows

LEMMA PeopleType ==
  ASSUME Typed, \/ \E e \in Emails : PersonCreates(e)
                \/ \E k \in DOMAIN book : PersonDeletes(k) \/ PersonRestores(k)
  PROVE  Types'
<1>1. ASSUME NEW e \in Emails, PersonCreates(e) PROVE Types'
  <2>1. /\ call' \in [Calls -> CallRecord'] /\ (\A b \in Calls : Holds(b, call[b]))'
        /\ mixed' \subseteq Emails
    BY <1>1, EntersType DEF PersonCreates
  <2>2. book' \in [Keys -> {"none", "live", "gone"}]
    BY <1>1, OldTypes DEF PersonCreates
  <2>3. breaks' \in Nat /\ UNCHANGED <<file, job, astray, missed, restored>>
    BY <1>1, OldTypes DEF PersonCreates, Breaks
  <2> QED BY <2>1, <2>2, <2>3, OldTypes, TypesFrom
<1>2. ASSUME NEW k \in DOMAIN book, PersonDeletes(k) PROVE Types'
  <2>1. call' \in [Calls -> CallRecord'] /\ (\A b \in Calls : Holds(b, call[b]))'
    BY <1>2, CallsTyped DEF PersonDeletes, Typed, Types, CallRecord, Holds, FirstOfFile, Usable, Rows, FromRow
  <2> QED BY <1>2, <2>1 DEF PersonDeletes, Typed, Types, ImportTypes, CallRecord, Pcs, importHistory, Rows, Keys, FromRow, Breaks
<1>3. ASSUME NEW k \in DOMAIN book, PersonRestores(k) PROVE Types'
  <2>1. k \in Keys /\ book[k] = "gone"
    BY <1>3 DEF Typed, Types, ImportTypes, PersonRestores
  <2>2. Email(k) \in Emails
    <3>1. CASE k \in ByHand
      BY <3>1, KeyShape, TypedFile DEF Typed, Types
    <3>2. CASE k \in FromRow
      <4>1. PICK r \in Rows, a \in Calls : k = <<r, a>>
        BY <3>2, KeyShape, TypedFile DEF Typed, Types
      <4>2. FirstOfFile(r) /\ Email(k) = file[r].email
        BY <2>1, <4>1, KeyShape, TypedFile DEF Typed, Types, FromFirsts
      <4> QED BY <4>2, FirstIsUsable, TypedFile DEF Typed, Types
    <3> QED BY <2>1, <3>1, <3>2 DEF Keys
  <2>3. /\ call' \in [Calls -> CallRecord'] /\ (\A b \in Calls : Holds(b, call[b]))'
        /\ mixed' \subseteq Emails
    BY <1>3, <2>2, EntersType DEF PersonRestores
  <2> QED BY <1>3, <2>1, <2>3 DEF PersonRestores, Typed, Types, ImportTypes, CallRecord, Pcs, importHistory, Rows, Keys, FromRow, Breaks
<1> QED BY <1>1, <1>2, <1>3

LEMMA DeathType == ASSUME Typed, ImportLockExpires \/ ImportCrash PROVE Types'
<1>1. CASE ImportLockExpires
  <2>1. call' \in [Calls -> CallRecord'] /\ (\A b \in Calls : Holds(b, call[b]))'
    BY <1>1, CallsTyped DEF ImportLockExpires, Typed, Types, CallRecord, Holds, FirstOfFile, Usable, Rows, FromRow
  <2> QED BY <1>1, <2>1 DEF ImportLockExpires, Typed, Types, ImportTypes, CallRecord, Pcs, importHistory, Rows, Keys, FromRow, Breaks
<1>2. CASE ImportCrash
  <2>1. \A b \in Calls : Over \in CallRecord /\ Holds(b, Over)
    BY NoCallType, TypedFile DEF Typed, Types
  <2>2. call' \in [Calls -> CallRecord] /\ \A b \in Calls : Holds(b, call'[b])
    BY <1>2, <2>1, CallsTyped DEF ImportCrash, Typed, Types
  <2>3. UNCHANGED file
    BY <1>2 DEF ImportCrash
  <2>4. call' \in [Calls -> CallRecord'] /\ (\A b \in Calls : Holds(b, call[b]))'
    BY <2>2, <2>3 DEF CallRecord, Holds, FirstOfFile, Usable, Rows, FromRow
  <2>5. \A b \in Calls : call[b].ids \subseteq FromRow
    BY CallsTyped DEF CallRecord
  <2>6. astray' \subseteq Keys
    BY <1>2, <2>5 DEF ImportCrash, Typed, Types, ImportTypes, Keys
  <2> QED BY <1>2, <2>4, <2>6 DEF ImportCrash, Typed, Types, ImportTypes, CallRecord, Pcs, importHistory, Rows, Keys, FromRow, Breaks
<1> QED BY <1>1, <1>2

(* Every step but a chunk that lands. *)
Quiet(a) ==
  \/ RunLoads(a) \/ Analyse(a) \/ LockImport(a) \/ SaveChunk(a) \/ FinishImport(a) \/ WriteFails(a)
  \/ Catch(a) \/ RollbackLoads(a) \/ RollbackRemoves(a) \/ RollbackRecords(a)

People ==
  \/ \E e \in Emails : PersonCreates(e)
  \/ \E k \in DOMAIN book : PersonDeletes(k) \/ PersonRestores(k)

Fate == ImportLockExpires \/ ImportCrash \/ UNCHANGED importVars

LEMMA Steps ==
  ASSUME Typed, [ImportNext]_importVars
  PROVE  \/ \E a \in Calls : \E landed, known \in SUBSET Inserted(a) : \E failed \in BOOLEAN :
              LandStep(a, landed, known, failed)
         \/ \E a \in Calls : Quiet(a)
         \/ People \/ Fate
<1>1. ASSUME NEW a \in Calls, InsertChunk(a) \/ RowsRefused(a) \/ AnswerLost(a)
      PROVE  \E landed, known \in SUBSET Inserted(a) : \E failed \in BOOLEAN :
                LandStep(a, landed, known, failed)
  BY <1>1, ChunkLands
<1> QED BY <1>1 DEF ImportNext, ImportStep, Quiet, People, Fate

LEMMA TypesStep == ASSUME Typed, [ImportNext]_importVars PROVE Types'
<1>1. ASSUME NEW a \in Calls, Quiet(a) PROVE Types'
  BY <1>1, RunLoadsType, AnalyseType, LockType, SaveChunkType, FinishType, WriteFailsType, CatchType,
     RollbackLoadsType, RollbackRemovesType, RollbackRecordsType DEF Quiet
<1>2. CASE UNCHANGED importVars
  <2>1. (\A b \in Calls : Holds(b, call[b]))'
    BY <1>2 DEF importVars, Typed, Types, Holds, FirstOfFile, Usable, Rows
  <2>2. call' \in [Calls -> CallRecord']
    BY <1>2, CallsTyped DEF importVars, CallRecord, Rows, FromRow
  <2> QED BY <1>2, <2>1, <2>2, OldTypes, TypesFrom DEF importVars, importHistory
<1> QED BY <1>1, <1>2, Steps, LandType, PeopleType, DeathType DEF People, Fate

(* Only a chunk makes contacts of rows. *)
LEMMA BookStays ==
  ASSUME Typed, NEW k \in FromRow, (\E a \in Calls : Quiet(a)) \/ People \/ Fate
  PROVE  (book'[k] = "none") <=> (book[k] = "none")
<1>1. book \in [Keys -> {"none", "live", "gone"}] /\ k \in Keys
  BY OldTypes DEF Keys
<1>2. ASSUME NEW a \in Calls, Quiet(a) PROVE (book'[k] = "none") <=> (book[k] = "none")
  BY <1>1, <1>2 DEF Quiet, RunLoads, Analyse, LockImport, SaveChunk, FinishImport, WriteFails,
     Catch, RollbackLoads, RollbackRemoves, RollbackRecords
<1>3. ASSUME People PROVE (book'[k] = "none") <=> (book[k] = "none")
  <2>1. ASSUME NEW e \in Emails, PersonCreates(e) PROVE book'[k] = book[k]
    <3>1. k # <<0, e>>
      BY KeyShape, TypedFile DEF Typed, Types
    <3> QED BY <1>1, <2>1, <3>1 DEF PersonCreates
  <2> QED BY <1>1, <1>3, <2>1 DEF People, PersonDeletes, PersonRestores
<1>4. ASSUME Fate PROVE book'[k] = book[k]
  BY <1>4 DEF Fate, ImportLockExpires, ImportCrash, importVars
<1> QED BY <1>2, <1>3, <1>4

(* What a chunk makes of the book. *)
LEMMA LandBook ==
  ASSUME Typed, NEW a \in Calls, NEW landed, NEW known, NEW failed, LandStep(a, landed, known, failed)
  PROVE  /\ landed \subseteq Rows /\ known \subseteq landed
         /\ \A k \in Keys : IF k \in landed \X {a} THEN book'[k] = "live" ELSE book'[k] = book[k]
         /\ \A r \in landed : FirstOfFile(r) /\ call[a].cursor < r /\ r <= ChunkEnd(a)
<1>1. landed \subseteq Chunk(a) /\ known \subseteq landed /\ \A r \in landed : FirstOfFile(r)
  BY ChunkShape DEF LandStep
<1>2. \A k \in Keys : IF k \in landed \X {a} THEN book'[k] = "live" ELSE book'[k] = book[k]
  BY OldTypes DEF LandStep, Land
<1> QED BY <1>1, <1>2 DEF Chunk

LEMMA FileStays == ASSUME Typed, [ImportNext]_importVars PROVE UNCHANGED file
<1>1. ASSUME NEW a \in Calls, Quiet(a) PROVE UNCHANGED file
  BY <1>1 DEF Quiet, RunLoads, Analyse, LockImport, SaveChunk, FinishImport, WriteFails, Catch,
     RollbackLoads, RollbackRemoves, RollbackRecords
<1>2. People \/ Fate => UNCHANGED file
  BY DEF People, PersonCreates, PersonDeletes, PersonRestores, Fate, ImportLockExpires, ImportCrash, importVars
<1> QED BY <1>1, <1>2, Steps DEF LandStep

LEMMA FromFirstsStep == ASSUME Typed, [ImportNext]_importVars PROVE FromFirsts'
<1> SUFFICES ASSUME NEW r \in Rows, NEW b \in Calls, book'[<<r, b>>] # "none"
             PROVE  FirstOfFile(r)
  BY FileStays DEF FromFirsts, FirstOfFile, Usable, Rows
<1>1. <<r, b>> \in FromRow /\ <<r, b>> \in Keys
  BY DEF FromRow, Keys
<1>2. book[<<r, b>>] # "none" => FirstOfFile(r)
  BY DEF Typed, FromFirsts
<1>3. ASSUME NEW a \in Calls, NEW landed, NEW known, NEW failed, LandStep(a, landed, known, failed)
      PROVE  FirstOfFile(r)
  BY <1>1, <1>2, <1>3, LandBook
<1> QED BY <1>1, <1>2, <1>3, Steps, BookStays

(* Which request moves, and where. *)
LEMMA QuietCalls ==
  ASSUME Typed, NEW a \in Calls, Quiet(a)
  PROVE  /\ \A b \in Calls \ {a} : call'[b] = call[b]
         /\ call'[a].pc \notin {"idle", "analyse", "lock"} \/ call[a].pc \in {"idle", "analyse"}
         /\ call'[a].pc = "chunk" =>
              call[a].pc \in {"lock", "save"} /\ call'[a].cursor = call[a].cursor
         /\ call'[a].pc = "save" => FALSE
<1>1. call \in [Calls -> CallRecord] /\ call[a] \in CallRecord
  BY CallsTyped
<1>2. CASE RunLoads(a) \/ Analyse(a)
  <2>1. CASE RunLoads(a)
    BY <1>1, <2>1 DEF RunLoads, CallRecord
  <2>2. CASE Analyse(a)
    <3>1. \E fresh, known : call' = [call EXCEPT ![a].pc = "lock", ![a].fresh = fresh, ![a].known = known,
                                                 ![a].came = {}]
      BY <2>2 DEF Analyse
    <3> QED BY <1>1, <2>2, <3>1 DEF Analyse, CallRecord
  <2> QED BY <1>2, <2>1, <2>2
<1>3. CASE LockImport(a)
  <2>1. CASE job.lock = "held"
    BY <1>1, <1>3, <2>1 DEF LockImport, Over, NoCall
  <2>2. CASE job.lock # "held"
    BY <1>1, <1>3, <2>2 DEF LockImport, CallRecord
  <2> QED BY <2>1, <2>2
<1>4. CASE SaveChunk(a) \/ WriteFails(a)
  BY <1>1, <1>4 DEF SaveChunk, WriteFails, CallRecord
<1>5. CASE RollbackLoads(a) \/ RollbackRemoves(a)
  BY <1>1, <1>5 DEF RollbackLoads, RollbackRemoves, Moves, CallRecord
<1>6. CASE FinishImport(a) \/ Catch(a) \/ RollbackRecords(a)
  <2>1. call' = [call EXCEPT ![a] = Over]
    BY <1>6 DEF FinishImport, Catch, RollbackRecords
  <2> QED BY <1>1, <2>1 DEF Over, NoCall
<1> QED BY <1>2, <1>3, <1>4, <1>5, <1>6 DEF Quiet

(* People only leave word with the runs on their way; a crash ends requests. *)
LEMMA PeopleCalls ==
  ASSUME Typed, People, NEW b \in Calls
  PROVE  /\ call'[b].pc = call[b].pc /\ call'[b].cursor = call[b].cursor /\ call'[b].ids = call[b].ids
         /\ call'[b].failed = call[b].failed /\ call'[b].fresh = call[b].fresh
         /\ call'[b].known = call[b].known /\ call'[b].action = call[b].action
<1>1. call \in [Calls -> CallRecord] /\ call[b] \in CallRecord
  BY CallsTyped
<1>2. ASSUME NEW e, Enters(e)
      PROVE  call'[b] = [call[b] EXCEPT !.came = @ \cup {e}] \/ call'[b] = call[b]
  BY <1>1, <1>2 DEF Enters
<1>3. (\E e : Enters(e)) \/ call' = call
  BY DEF People, PersonCreates, PersonDeletes, PersonRestores
<1> QED BY <1>1, <1>2, <1>3 DEF CallRecord

LEMMA FateCalls ==
  ASSUME Typed, Fate, NEW b \in Calls
  PROVE  call'[b] = call[b] \/ (call'[b] = Over /\ call[b].pc # "idle" /\ ImportCrash)
<1>1. call \in [Calls -> CallRecord]
  BY CallsTyped
<1> QED BY <1>1 DEF Fate, ImportLockExpires, ImportCrash, importVars

LEMMA TypedHolds == ImportSpec => []Typed
<1>1. ImportInit => Typed
  <2>1. ImportInit => FromFirsts
    BY DEF ImportInit, FromFirsts, FromRow
  <2> QED BY <2>1, TypedInit DEF Typed
<1>2. Typed /\ [ImportNext]_importVars => Typed'
  BY TypesStep, FromFirstsStep DEF Typed
<1> QED BY <1>1, <1>2, PTL DEF ImportSpec

(* Every variable of the import stays in range, whatever overlaps, fails and dies. *)
THEOREM ImportTypesHold == ImportSpec => []ImportTypes
<1>1. Typed => ImportTypes
  BY DEF Typed, Types
<1> QED BY <1>1, TypedHolds, PTL

-------------------------------------------------------------------------------
(* What a rollback removes.                                                  *)

(* A call inserts a row once, when it reaches it. *)
Placed ==
  \A r \in Rows : \A a \in Calls : book[<<r, a>>] # "none" =>
    /\ call[a].pc \notin {"idle", "analyse", "lock"}
    /\ call[a].pc \in {"chunk", "save"} => r <= call[a].cursor

(* The ids on the job, and those a request holds, are of contacts that were inserted. *)
Listed ==
  /\ \A k \in job.created : book[k] # "none"
  /\ \A a \in Calls : \A k \in call[a].ids : book[k] # "none"

(* What was inserted is on the job, about to be put there, or astray. *)
Accounted ==
  \A k \in FromRow : book[k] # "none" =>
    k \in job.created \cup astray \/ \E a \in Calls : call[a].pc = "save" /\ k \in call[a].ids

(* A rollback about to be recorded has removed what it read. *)
Removed ==
  \A a \in Calls : call[a].pc = "record" => \A k \in call[a].ids : book[k] = "live" => k \in restored

LEMMA PlacedStep == ASSUME Typed, Placed, [ImportNext]_importVars PROVE Placed'
<1> SUFFICES ASSUME NEW r \in Rows, NEW b \in Calls, book'[<<r, b>>] # "none"
             PROVE  /\ call'[b].pc \notin {"idle", "analyse", "lock"}
                    /\ call'[b].pc \in {"chunk", "save"} => r <= call'[b].cursor
  BY FileStays DEF Placed, Rows
<1>1. <<r, b>> \in FromRow /\ <<r, b>> \in Keys /\ call[b] \in CallRecord /\ call \in [Calls -> CallRecord]
  BY CallsTyped DEF FromRow, Keys
<1>2. book[<<r, b>>] # "none" => /\ call[b].pc \notin {"idle", "analyse", "lock"}
                                 /\ call[b].pc \in {"chunk", "save"} => r <= call[b].cursor
  BY DEF Placed
<1>3. ASSUME NEW a \in Calls, NEW landed, NEW known, NEW failed, LandStep(a, landed, known, failed)
      PROVE  /\ call'[b].pc \notin {"idle", "analyse", "lock"}
             /\ call'[b].pc \in {"chunk", "save"} => r <= call'[b].cursor
  <2>1. CASE a = b
    <3>1. book'[<<r, b>>] = book[<<r, b>>] \/ r \in landed
      BY <1>1, <1>3, <2>1, LandBook
    <3>2. r <= call[b].cursor \/ r <= ChunkEnd(a)
      BY <1>2, <1>3, <2>1, <3>1, LandBook DEF LandStep
    <3>3. r \in Nat /\ call[b].cursor \in Nat /\ ChunkEnd(a) \in Nat /\ call[a].cursor <= ChunkEnd(a)
      BY <1>1, ChunkShape, FileShape, TypedFile DEF Typed, Types, CallRecord
    <3>4. r <= ChunkEnd(a)
      BY <2>1, <3>2, <3>3
    <3> QED BY <1>3, <2>1, <3>4, LandCalls
  <2>2. CASE a # b
    BY <1>1, <1>2, <1>3, <2>2, LandCalls, LandBook
  <2> QED BY <2>1, <2>2
<1>4. ASSUME book[<<r, b>>] # "none", NEW a \in Calls, Quiet(a)
      PROVE  /\ call'[b].pc \notin {"idle", "analyse", "lock"}
             /\ call'[b].pc \in {"chunk", "save"} => r <= call'[b].cursor
  <2>1. CASE a = b
    BY <1>2, <1>4, <2>1, QuietCalls
  <2>2. CASE a # b
    BY <1>2, <1>4, <2>2, QuietCalls
  <2> QED BY <2>1, <2>2
<1>5. ASSUME book[<<r, b>>] # "none", People
      PROVE  /\ call'[b].pc \notin {"idle", "analyse", "lock"}
             /\ call'[b].pc \in {"chunk", "save"} => r <= call'[b].cursor
  BY <1>2, <1>5, PeopleCalls
<1>6. ASSUME book[<<r, b>>] # "none", Fate
      PROVE  /\ call'[b].pc \notin {"idle", "analyse", "lock"}
             /\ call'[b].pc \in {"chunk", "save"} => r <= call'[b].cursor
  <2>1. Over.pc = "over"
    BY DEF Over, NoCall
  <2> QED BY <1>2, <1>6, <2>1, FateCalls
<1> QED BY <1>1, <1>3, <1>4, <1>5, <1>6, Steps, BookStays

(* What the ids on the job and in the hands of requests become. *)
LEMMA QuietIds ==
  ASSUME Typed, NEW a \in Calls, Quiet(a)
  PROVE  /\ call'[a].ids \subseteq call[a].ids \cup job.created
         /\ job'.created = job.created \/ job'.created = job.created \cup call[a].ids
         /\ call[a].pc = "save" => call[a].ids \subseteq job'.created \cup astray'
         /\ call[a].pc = "save" /\ job.rolledBack => call[a].ids \subseteq astray' \cup missed'
         /\ job'.rolledBack => job.rolledBack \/ RollbackRecords(a)
         /\ job.created \subseteq job'.created /\ astray \subseteq astray' /\ missed \subseteq missed'
         /\ restored' = restored
<1>1. call \in [Calls -> CallRecord] /\ call[a] \in CallRecord /\ job \in JobRecord /\ Holds(a, call[a])
  BY CallsTyped, OldTypes DEF Typed, Types
<1>2. CASE RunLoads(a)
  BY <1>1, <1>2 DEF RunLoads, CallRecord, Holds, importHistory
<1>3. CASE Analyse(a)
  <2>1. \E fresh, known : call' = [call EXCEPT ![a].pc = "lock", ![a].fresh = fresh, ![a].known = known,
                                               ![a].came = {}]
    BY <1>3 DEF Analyse
  <2> QED BY <1>1, <1>3, <2>1 DEF Analyse, CallRecord, Holds, importHistory
<1>4. CASE LockImport(a)
  <2>1. call'[a].ids = {}
    BY <1>1, <1>4 DEF LockImport, CallRecord, Holds, Over, NoCall
  <2>2. job'.created = job.created /\ job'.rolledBack = job.rolledBack
    BY <1>1, <1>4 DEF LockImport, JobRecord
  <2> QED BY <1>4, <2>1, <2>2 DEF LockImport, importHistory
<1>5. CASE SaveChunk(a)
  BY <1>1, <1>5 DEF SaveChunk, CallRecord, JobRecord, Lengthens
<1>6. CASE WriteFails(a)
  BY <1>1, <1>6 DEF WriteFails, CallRecord
<1>7. CASE RollbackLoads(a) \/ RollbackRemoves(a)
  BY <1>1, <1>7 DEF RollbackLoads, RollbackRemoves, Moves, CallRecord, importHistory
<1>8. CASE FinishImport(a) \/ Catch(a)
  <2>1. call'[a].ids = {}
    BY <1>1, <1>8 DEF FinishImport, Catch, Over, NoCall
  <2>2. job'.created = job.created /\ job'.rolledBack = job.rolledBack
    BY <1>1, <1>8 DEF FinishImport, Catch, JobRecord
  <2> QED BY <1>8, <2>1, <2>2 DEF FinishImport, Catch, importHistory
<1>9. CASE RollbackRecords(a)
  <2>1. call'[a].ids = {}
    BY <1>1, <1>9 DEF RollbackRecords, Over, NoCall
  <2>2. job'.created = job.created
    BY <1>1, <1>9 DEF RollbackRecords, JobRecord
  <2> QED BY <1>9, <2>1, <2>2 DEF RollbackRecords
<1> QED BY <1>2, <1>3, <1>4, <1>5, <1>6, <1>7, <1>8, <1>9 DEF Quiet

LEMMA OthersIds ==
  ASSUME Typed, People \/ Fate
  PROVE  /\ job'.created = job.created /\ job'.rolledBack = job.rolledBack
         /\ astray \subseteq astray' /\ missed' = missed /\ restored \subseteq restored'
         /\ \A b \in Calls :
              \/ call'[b].ids = call[b].ids /\ call'[b].pc = call[b].pc
              \/ call'[b].ids = {} /\ call'[b].pc = "over" /\ (call[b].pc = "save" => call[b].ids \subseteq astray')
<1>1. job \in JobRecord
  BY OldTypes
<1>2. CASE People
  <2>1. UNCHANGED <<job, astray, missed>> /\ restored \subseteq restored'
    BY <1>2 DEF People, PersonCreates, PersonDeletes, PersonRestores, importHistory
  <2> QED BY <1>2, <2>1, PeopleCalls
<1>3. CASE Fate
  <2>1. /\ job'.created = job.created /\ job'.rolledBack = job.rolledBack
        /\ astray \subseteq astray' /\ missed' = missed /\ restored' = restored
    BY <1>1, <1>3 DEF Fate, ImportLockExpires, ImportCrash, importVars, importHistory, JobRecord
  <2>2. ASSUME NEW b \in Calls, ImportCrash, call[b].pc = "save" PROVE call[b].ids \subseteq astray'
    BY <2>2 DEF ImportCrash
  <2>3. Over.pc = "over" /\ Over.ids = {}
    BY DEF Over, NoCall
  <2> QED BY <1>3, <2>1, <2>2, <2>3, FateCalls
<1> QED BY <1>2, <1>3

LEMMA NeverNone ==
  ASSUME Typed, [ImportNext]_importVars, NEW k \in FromRow, book[k] # "none"
  PROVE  book'[k] # "none"
<1>1. ASSUME NEW a \in Calls, NEW landed, NEW known, NEW failed, LandStep(a, landed, known, failed)
      PROVE  book'[k] # "none"
  BY <1>1, LandBook DEF Keys
<1> QED BY <1>1, Steps, BookStays

LEMMA IdsAreContacts == ASSUME Typed PROVE job.created \subseteq FromRow /\ \A b \in Calls : call[b].ids \subseteq FromRow
BY OldTypes, CallsTyped DEF JobRecord, CallRecord

LEMMA ListedStep == ASSUME Typed, Listed, [ImportNext]_importVars PROVE Listed'
<1>1. \A k \in FromRow : book[k] # "none" => book'[k] # "none"
  BY NeverNone
<1>2. ASSUME NEW a \in Calls, NEW landed, NEW known, NEW failed, LandStep(a, landed, known, failed)
      PROVE  Listed'
  <2>1. known \X {a} \subseteq landed \X {a} /\ landed \X {a} \subseteq Keys
    BY <1>2, LandBook DEF Keys, FromRow
  <2>2. \A k \in call'[a].ids : book'[k] # "none"
    BY <1>2, <2>1, LandCalls, LandBook
  <2>3. \A b \in Calls \ {a} : call'[b].ids = call[b].ids
    BY <1>2, LandCalls
  <2>4. job' = job
    BY <1>2 DEF LandStep
  <2> QED BY <1>1, <2>2, <2>3, <2>4, IdsAreContacts DEF Listed
<1>3. ASSUME NEW a \in Calls, Quiet(a) PROVE Listed'
  <2>1. \A b \in Calls \ {a} : call'[b].ids = call[b].ids
    BY <1>3, QuietCalls
  <2> QED BY <1>1, <1>3, <2>1, QuietIds, IdsAreContacts DEF Listed
<1>4. ASSUME People \/ Fate PROVE Listed'
  BY <1>1, <1>4, OthersIds, IdsAreContacts DEF Listed
<1> QED BY <1>2, <1>3, <1>4, Steps

LEMMA AccountedStep == ASSUME Typed, Accounted, [ImportNext]_importVars PROVE Accounted'
<1> SUFFICES ASSUME NEW k \in FromRow, book'[k] # "none"
             PROVE  \/ k \in job'.created \cup astray'
                    \/ \E b \in Calls : call'[b].pc = "save" /\ k \in call'[b].ids
  BY FileStays DEF Accounted, FromRow, Rows
<1>1. book[k] # "none" => \/ k \in job.created \cup astray
                          \/ \E b \in Calls : call[b].pc = "save" /\ k \in call[b].ids
  BY DEF Accounted
<1>2. ASSUME NEW a \in Calls, NEW landed, NEW known, NEW failed, LandStep(a, landed, known, failed)
      PROVE  \/ k \in job'.created \cup astray'
             \/ \E b \in Calls : call'[b].pc = "save" /\ k \in call'[b].ids
  <2>1. job' = job /\ astray' = astray \cup ((landed \X {a}) \ (known \X {a})) /\ call[a].pc = "chunk"
    BY <1>2 DEF LandStep, Land
  <2>2. CASE k \in landed \X {a}
    BY <1>2, <2>1, <2>2, LandCalls
  <2>3. CASE k \notin landed \X {a}
    <3>1. book[k] # "none"
      BY <1>2, <2>3, LandBook DEF Keys
    <3>2. \A b \in Calls : call[b].pc = "save" => call'[b].pc = "save" /\ call'[b].ids = call[b].ids
      BY <1>2, <2>1, LandCalls
    <3> QED BY <1>1, <2>1, <3>1, <3>2
  <2> QED BY <2>2, <2>3
<1>3. ASSUME book[k] # "none", NEW a \in Calls, Quiet(a)
      PROVE  \/ k \in job'.created \cup astray'
             \/ \E b \in Calls : call'[b].pc = "save" /\ k \in call'[b].ids
  BY <1>1, <1>3, QuietCalls, QuietIds
<1>4. ASSUME book[k] # "none", People \/ Fate
      PROVE  \/ k \in job'.created \cup astray'
             \/ \E b \in Calls : call'[b].pc = "save" /\ k \in call'[b].ids
  BY <1>1, <1>4, OthersIds
<1> QED BY <1>2, <1>3, <1>4, Steps, BookStays

LEMMA RemovedStep == ASSUME Typed, Listed, Placed, Removed, [ImportNext]_importVars PROVE Removed'
<1> SUFFICES ASSUME NEW b \in Calls, call'[b].pc = "record", NEW k \in call'[b].ids, book'[k] = "live"
             PROVE  k \in restored'
  BY DEF Removed
<1>1. job.created \subseteq FromRow /\ call[b].ids \subseteq FromRow
  BY IdsAreContacts
<1>2. ASSUME NEW a \in Calls, NEW landed, NEW known, NEW failed, LandStep(a, landed, known, failed)
      PROVE  k \in restored'
  <2>1. a # b /\ call[b].pc = "record" /\ k \in call[b].ids
    BY <1>2, LandCalls
  <2>2. book[k] # "none"
    BY <2>1 DEF Listed
  <2>3. k \notin landed \X {a}
    <3> SUFFICES ASSUME NEW r \in landed, k = <<r, a>> PROVE FALSE
      OBVIOUS
    <3>1. r \in Rows /\ call[a].cursor < r /\ call[a].pc = "chunk"
      BY <1>2, LandBook DEF LandStep
    <3>2. r <= call[a].cursor
      BY <2>2, <3>1 DEF Placed
    <3>3. r \in Nat /\ call[a].cursor \in Nat
      BY <3>1, FileShape, TypedFile, CallsTyped DEF Typed, Types, CallRecord
    <3> QED BY <3>1, <3>2, <3>3
  <2>4. book[k] = "live"
    BY <1>1, <1>2, <2>1, <2>3, LandBook DEF Keys
  <2>5. restored' = restored
    BY <1>2 DEF LandStep
  <2> QED BY <2>1, <2>4, <2>5 DEF Removed
<1>3. ASSUME NEW a \in Calls, Quiet(a) PROVE k \in restored'
  <2>1. CASE a = b
    <3>1. call \in [Calls -> CallRecord] /\ call[a] \in CallRecord
      BY CallsTyped
    <3>2. CASE RunLoads(a) \/ SaveChunk(a) \/ WriteFails(a)
      BY <2>1, <3>1, <3>2 DEF RunLoads, SaveChunk, WriteFails, CallRecord
    <3>3. CASE Analyse(a)
      <4>1. \E fresh, known : call' = [call EXCEPT ![a].pc = "lock", ![a].fresh = fresh, ![a].known = known,
                                                   ![a].came = {}]
        BY <3>3 DEF Analyse
      <4> QED BY <2>1, <3>1, <4>1 DEF CallRecord
    <3>4. CASE LockImport(a)
      BY <2>1, <3>1, <3>4 DEF LockImport, CallRecord, Over, NoCall
    <3>5. CASE FinishImport(a) \/ Catch(a) \/ RollbackRecords(a)
      BY <2>1, <3>1, <3>5 DEF FinishImport, Catch, RollbackRecords, Over, NoCall
    <3>6. CASE RollbackLoads(a)
      BY <2>1, <3>1, <3>6 DEF RollbackLoads, CallRecord
    <3>7. CASE RollbackRemoves(a)
      <4>1. k \in call[a].ids /\ k \in DOMAIN book
        BY <1>1, <2>1, <3>1, <3>7, OldTypes DEF RollbackRemoves, Moves, CallRecord, Keys
      <4> QED BY <3>7, <4>1 DEF RollbackRemoves
    <3> QED BY <1>3, <3>2, <3>3, <3>4, <3>5, <3>6, <3>7 DEF Quiet
  <2>2. CASE a # b
    <3>1. call'[b] = call[b]
      BY <1>3, <2>2, QuietCalls
    <3>2. book'[k] = "live" => book[k] = "live"
      <4>1. k \in DOMAIN book
        BY <1>1, <3>1, OldTypes DEF Keys
      <4> QED BY <1>3, <4>1 DEF Quiet, RunLoads, Analyse, LockImport, SaveChunk, FinishImport, WriteFails,
                 Catch, RollbackLoads, RollbackRemoves, RollbackRecords
    <3> QED BY <1>3, <3>1, <3>2, QuietIds DEF Removed
  <2> QED BY <2>1, <2>2
<1>4. ASSUME People PROVE k \in restored'
  <2>1. call[b].pc = "record" /\ k \in call[b].ids
    BY <1>4, PeopleCalls
  <2>2. book[k] # "none" /\ k \in FromRow
    BY <1>1, <2>1 DEF Listed
  <2>3. book[k] = "live" \/ k \in restored'
    <3>1. k \in DOMAIN book /\ book \in [Keys -> {"none", "live", "gone"}]
      BY <2>2, OldTypes DEF Keys
    <3>2. ASSUME NEW e \in Emails, PersonCreates(e) PROVE book'[k] = book[k]
      <4>1. k # <<0, e>>
        BY <2>2, KeyShape, TypedFile DEF Typed, Types
      <4> QED BY <3>1, <3>2, <4>1 DEF PersonCreates
    <3> QED BY <1>4, <3>1, <3>2 DEF People, PersonDeletes, PersonRestores
  <2>4. restored \subseteq restored'
    BY <1>4, OthersIds
  <2> QED BY <2>1, <2>3, <2>4 DEF Removed
<1>5. ASSUME Fate PROVE k \in restored'
  <2>1. Over.ids = {}
    BY DEF Over, NoCall
  <2>2. call'[b] = call[b]
    BY <1>5, <2>1, FateCalls
  <2>3. book' = book /\ restored' = restored
    BY <1>5 DEF Fate, ImportLockExpires, ImportCrash, importVars, importHistory
  <2> QED BY <2>2, <2>3 DEF Removed
<1> QED BY <1>2, <1>3, <1>4, <1>5, Steps

LEMMA RollbackStep ==
  ASSUME Typed, Accounted, Removed, RollbackExact, [ImportNext]_importVars
  PROVE  RollbackExact'
<1> SUFFICES ASSUME job'.rolledBack, NEW k \in FromRow, book'[k] = "live"
             PROVE  \/ k \in astray' \cup missed' \cup restored'
                    \/ \E b \in Calls : call'[b].pc = "save" /\ k \in call'[b].ids
  BY FileStays DEF RollbackExact, FromRow, Rows, Running
<1> DEFINE Excused == \/ k \in astray' \cup missed' \cup restored'
                      \/ \E b \in Calls : call'[b].pc = "save" /\ k \in call'[b].ids
<1>1. job.rolledBack /\ book[k] = "live" =>
        \/ k \in astray \cup missed \cup restored
        \/ \E b \in Calls : call[b].pc = "save" /\ k \in call[b].ids
  BY DEF RollbackExact, Running, Typed, Types, Holds
<1>2. ASSUME NEW a \in Calls, NEW landed, NEW known, NEW failed, LandStep(a, landed, known, failed)
      PROVE  Excused
  <2>1. /\ job' = job /\ astray' = astray \cup ((landed \X {a}) \ (known \X {a}))
        /\ UNCHANGED <<missed, restored>> /\ call[a].pc = "chunk"
    BY <1>2 DEF LandStep, Land
  <2>2. CASE k \in landed \X {a}
    BY <1>2, <2>1, <2>2, LandCalls
  <2>3. CASE k \notin landed \X {a}
    <3>1. book[k] = "live"
      BY <1>2, <2>3, LandBook DEF Keys
    <3>2. \A b \in Calls : call[b].pc = "save" => call'[b].pc = "save" /\ call'[b].ids = call[b].ids
      BY <1>2, <2>1, LandCalls
    <3> QED BY <1>1, <2>1, <3>1, <3>2
  <2> QED BY <2>2, <2>3
<1>3. ASSUME NEW a \in Calls, Quiet(a) PROVE Excused
  <2>1. book[k] = "live"
    <3>1. k \in DOMAIN book
      BY OldTypes DEF Keys
    <3> QED BY <1>3, <3>1 DEF Quiet, RunLoads, Analyse, LockImport, SaveChunk, FinishImport, WriteFails,
               Catch, RollbackLoads, RollbackRemoves, RollbackRecords
  <2>2. CASE job.rolledBack
    BY <1>1, <1>3, <2>1, <2>2, QuietCalls, QuietIds
  <2>3. CASE ~job.rolledBack
    <3>1. RollbackRecords(a)
      BY <1>3, <2>3, QuietIds
    <3>2. \/ k \in job.created \cup astray
          \/ \E b \in Calls : call[b].pc = "save" /\ k \in call[b].ids
      BY <2>1 DEF Accounted
    <3>3. CASE k \in job.created
      BY <2>1, <3>1, <3>3 DEF RollbackRecords, Removed
    <3>4. CASE \E b \in Calls : call[b].pc = "save" /\ k \in call[b].ids
      BY <1>3, <3>1, <3>4, QuietCalls DEF RollbackRecords
    <3> QED BY <1>3, <3>2, <3>3, <3>4, QuietIds
  <2> QED BY <2>2, <2>3
<1>4. ASSUME People PROVE Excused
  <2>1. book[k] = "live" \/ k \in restored'
    <3>1. k \in DOMAIN book /\ book \in [Keys -> {"none", "live", "gone"}]
      BY OldTypes DEF Keys
    <3>2. ASSUME NEW e \in Emails, PersonCreates(e) PROVE book'[k] = book[k]
      <4>1. k # <<0, e>>
        BY KeyShape, TypedFile DEF Typed, Types
      <4> QED BY <3>1, <3>2, <4>1 DEF PersonCreates
    <3> QED BY <1>4, <3>1, <3>2 DEF People, PersonDeletes, PersonRestores
  <2>2. job.rolledBack
    BY <1>4, OthersIds
  <2> QED BY <1>1, <1>4, <2>1, <2>2, OthersIds
<1>5. ASSUME Fate PROVE Excused
  <2>1. book' = book
    BY <1>5 DEF Fate, ImportLockExpires, ImportCrash, importVars
  <2> QED BY <1>1, <1>5, <2>1, OthersIds
<1> QED BY <1>2, <1>3, <1>4, <1>5, Steps

(* A rollback leaves nothing of the import behind, but what it cannot know of: contacts whose
   ids a failure or a crash kept off the job, or that a run put there after the rollback had
   read the list, or is about to; and contacts people took back. *)
THEOREM RollbackIsExact == ImportSpec => []RollbackExact
<1> DEFINE Inv == Placed /\ Listed /\ Accounted /\ Removed /\ RollbackExact
<1>1. ImportInit => Inv
  <2> SUFFICES ASSUME ImportInit PROVE Inv
    OBVIOUS
  <2>1. \A k \in FromRow : book[k] = "none"
    BY DEF ImportInit
  <2>2. \A a \in Calls : call[a] = NoCall
    BY DEF ImportInit
  <2>3. job.created = {} /\ ~job.rolledBack
    BY DEF ImportInit
  <2> QED BY <2>1, <2>2, <2>3 DEF Placed, Listed, Accounted, Removed, RollbackExact, NoCall, FromRow
<1>2. Typed /\ Inv /\ [ImportNext]_importVars => Inv'
  BY PlacedStep, ListedStep, AccountedStep, RemovedStep, RollbackStep
<1> QED BY <1>1, <1>2, TypedHolds, PTL DEF ImportSpec

-------------------------------------------------------------------------------
(* No twins.                                                                 *)

Twinless ==
  \A k, l \in Keys : book[k] = "live" /\ book[l] = "live" /\ Email(k) = Email(l) /\ Email(k) \notin mixed
                       => k = l

(* What a run is still to insert was not in the book when it looked; whatever came since is
   on record. *)
NewsKept ==
  \A a \in Calls : call[a].pc \in {"lock", "chunk", "save"} =>
    \A r \in call[a].fresh : call[a].cursor < r =>
      \A k \in Keys : book[k] = "live" /\ Email(k) = file[r].email => file[r].email \in call[a].came \cup mixed

LEMMA EmailStays == ASSUME Typed, [ImportNext]_importVars PROVE Keys' = Keys /\ \A k : Email(k)' = Email(k)
BY FileStays DEF Keys, FromRow, Rows, Email

LEMMA CallFacts ==
  ASSUME Typed, NEW a \in Calls
  PROVE  /\ call[a] \in CallRecord /\ call[a].cursor \in Nat /\ ChunkEnd(a) \in Nat
         /\ call[a].cursor <= ChunkEnd(a) /\ Rows \subseteq Nat \ {0}
BY CallsTyped, ChunkShape, FileShape, TypedFile DEF Typed, Types, CallRecord

(* A step that brings a contact to life says so to every run on its way. *)
LEMMA PeopleBook ==
  ASSUME Typed, People
  PROVE  \/ /\ \A k \in Keys : book'[k] = "live" => book[k] = "live"
            /\ mixed' = mixed /\ \A b \in Calls : call'[b].came = call[b].came
         \/ \E k \in Keys :
              /\ Email(k) \in Emails /\ book[k] # "live"
              /\ \A l \in Keys \ {k} : book'[l] = book[l]
              /\ mixed \subseteq mixed'
              /\ (\E l \in Keys : book[l] = "live" /\ Email(l) = Email(k)) => Email(k) \in mixed'
              /\ \A b \in Running : call'[b].came = call[b].came \cup {Email(k)}
<1>1. book \in [Keys -> {"none", "live", "gone"}] /\ call \in [Calls -> CallRecord]
  BY OldTypes, CallsTyped
<1>2. ASSUME NEW e \in Emails, Enters(e)
      PROVE  /\ mixed \subseteq mixed'
             /\ (\E l \in Keys : book[l] = "live" /\ Email(l) = e) => e \in mixed'
             /\ \A b \in Running : call'[b].came = call[b].came \cup {e}
  <2>1. (\E l \in Keys : book[l] = "live" /\ Email(l) = e) => Live(e) # {}
    BY <1>1 DEF Live
  <2>2. \A b \in Running : call'[b].came = call[b].came \cup {e}
    BY <1>1, <1>2 DEF Enters, Running, CallRecord
  <2> QED BY <1>2, <2>1, <2>2 DEF Enters
<1>3. ASSUME NEW e \in Emails, PersonCreates(e)
      PROVE  \E k \in Keys :
               /\ Email(k) \in Emails /\ book[k] # "live"
               /\ \A l \in Keys \ {k} : book'[l] = book[l]
               /\ mixed \subseteq mixed'
               /\ (\E l \in Keys : book[l] = "live" /\ Email(l) = Email(k)) => Email(k) \in mixed'
               /\ \A b \in Running : call'[b].came = call[b].came \cup {Email(k)}
  <2>1. <<0, e>> \in Keys /\ Email(<<0, e>>) = e
    BY KeyShape, TypedFile DEF Typed, Types, Keys
  <2>2. /\ book[<<0, e>>] # "live" /\ \A l \in Keys \ {<<0, e>>} : book'[l] = book[l]
    BY <1>1, <1>3 DEF PersonCreates
  <2>3. Enters(e)
    BY <1>3 DEF PersonCreates
  <2> QED BY <1>2, <2>1, <2>2, <2>3
<1>4. ASSUME NEW k \in Keys, PersonRestores(k)
      PROVE  /\ Email(k) \in Emails /\ book[k] # "live"
             /\ \A l \in Keys \ {k} : book'[l] = book[l]
             /\ mixed \subseteq mixed'
             /\ (\E l \in Keys : book[l] = "live" /\ Email(l) = Email(k)) => Email(k) \in mixed'
             /\ \A b \in Running : call'[b].came = call[b].came \cup {Email(k)}
  <2>1. book[k] = "gone" /\ \A l \in Keys \ {k} : book'[l] = book[l]
    BY <1>1, <1>4 DEF PersonRestores
  <2>2. Email(k) \in Emails
    <3>1. CASE k \in ByHand
      BY <3>1, KeyShape, TypedFile DEF Typed, Types
    <3>2. CASE k \in FromRow
      <4>1. PICK r \in Rows, a \in Calls : k = <<r, a>>
        BY <3>2, KeyShape, TypedFile DEF Typed, Types
      <4>2. FirstOfFile(r) /\ Email(k) = file[r].email
        BY <2>1, <4>1, KeyShape, TypedFile DEF Typed, Types, FromFirsts
      <4> QED BY <4>2, FirstIsUsable, TypedFile DEF Typed, Types
    <3> QED BY <3>1, <3>2 DEF Keys
  <2>3. Enters(Email(k))
    BY <1>4 DEF PersonRestores
  <2> QED BY <1>2, <2>1, <2>2, <2>3
<1>5. ASSUME NEW k \in Keys, PersonDeletes(k)
      PROVE  /\ \A l \in Keys : book'[l] = "live" => book[l] = "live"
             /\ mixed' = mixed /\ \A b \in Calls : call'[b].came = call[b].came
  BY <1>1, <1>5 DEF PersonDeletes, importHistory
<1> QED BY <1>1, <1>3, <1>4, <1>5 DEF People

LEMMA QuietBook ==
  ASSUME Typed, (\E a \in Calls : Quiet(a)) \/ Fate
  PROVE  /\ mixed' = mixed
         /\ \A k \in Keys : book'[k] = "live" => book[k] = "live"
         /\ \A k \in Keys : book[k] # "none" => book'[k] # "none"
<1>1. ASSUME NEW a \in Calls, Quiet(a)
      PROVE  /\ mixed' = mixed
             /\ \A k \in Keys : book'[k] = "live" => book[k] = "live"
             /\ \A k \in Keys : book[k] # "none" => book'[k] # "none"
  BY <1>1, OldTypes DEF Quiet, RunLoads, Analyse, LockImport, SaveChunk, FinishImport, WriteFails,
     Catch, RollbackLoads, RollbackRemoves, RollbackRecords, importHistory
<1>2. Fate => book' = book /\ mixed' = mixed
  BY DEF Fate, ImportLockExpires, ImportCrash, importVars, importHistory
<1> QED BY <1>1, <1>2

LEMMA TwinlessStep == ASSUME Typed, Twinless, NewsKept, [ImportNext]_importVars PROVE Twinless'
<1> SUFFICES ASSUME NEW k \in Keys, NEW l \in Keys, book'[k] = "live", book'[l] = "live",
                    Email(k) = Email(l), Email(k) \notin mixed'
             PROVE  k = l
  BY EmailStays DEF Twinless
<1>1. Email(k) \notin mixed /\ book[k] = "live" /\ book[l] = "live" => k = l
  BY DEF Twinless
<1>2. ASSUME NEW a \in Calls, NEW landed \in SUBSET Inserted(a), NEW known, NEW failed,
             LandStep(a, landed, known, failed)
      PROVE  k = l
  <2>1. /\ landed \subseteq Rows /\ \A r \in landed : FirstOfFile(r) /\ call[a].cursor < r
        /\ \A j \in Keys : IF j \in landed \X {a} THEN book'[j] = "live" ELSE book'[j] = book[j]
    BY <1>2, LandBook
  <2>2. /\ mixed \subseteq mixed'
        /\ \A r \in landed : file[r].email \in call[a].came => file[r].email \in mixed'
        /\ \A r \in landed : r \in call[a].known => file[r].email \in mixed'
    BY <1>2 DEF LandStep, Land
  <2>3. ASSUME NEW r \in landed, NEW j \in Keys, book[j] = "live", Email(j) = file[r].email
        PROVE  file[r].email \in mixed'
    <3>1. r \in call[a].fresh \cup call[a].known /\ call[a].pc = "chunk"
      BY <1>2 DEF Inserted, ToInsert, LandStep
    <3> QED BY <2>1, <2>2, <2>3, <3>1 DEF NewsKept
  <2>4. \A r \in landed : Email(<<r, a>>) = file[r].email
    BY <2>1, KeyShape, TypedFile DEF Typed, Types
  <2>5. CASE k \in landed \X {a} /\ l \in landed \X {a}
    <3>1. PICK r \in landed, q \in landed : k = <<r, a>> /\ l = <<q, a>>
      BY <2>5
    <3>2. file[r].email = file[q].email
      BY <2>4, <3>1
    <3> QED BY <2>1, <3>1, <3>2, FirstsDiffer, TypedFile DEF Typed, Types
  <2>6. CASE k \in landed \X {a} /\ l \notin landed \X {a}
    <3>1. PICK r \in landed : k = <<r, a>>
      BY <2>6
    <3> QED BY <2>1, <2>3, <2>4, <2>6, <3>1
  <2>7. CASE k \notin landed \X {a} /\ l \in landed \X {a}
    <3>1. PICK r \in landed : l = <<r, a>>
      BY <2>7
    <3> QED BY <2>1, <2>3, <2>4, <2>7, <3>1
  <2>8. CASE k \notin landed \X {a} /\ l \notin landed \X {a}
    BY <1>1, <2>1, <2>2, <2>8
  <2> QED BY <2>5, <2>6, <2>7, <2>8
<1>3. ASSUME (\E a \in Calls : Quiet(a)) \/ Fate PROVE k = l
  <2>1. mixed' = mixed /\ \A j \in Keys : book'[j] = "live" => book[j] = "live"
    BY <1>3, QuietBook
  <2> QED BY <1>1, <2>1
<1>4. ASSUME People PROVE k = l
  <2>1. CASE \A j \in Keys : book'[j] = "live" => book[j] = "live"
    BY <1>1, <1>4, <2>1, PeopleBook
  <2>2. CASE ~ \A j \in Keys : book'[j] = "live" => book[j] = "live"
    <3>1. PICK j \in Keys :
              /\ book[j] # "live" /\ \A i \in Keys \ {j} : book'[i] = book[i]
              /\ mixed \subseteq mixed'
              /\ (\E i \in Keys : book[i] = "live" /\ Email(i) = Email(j)) => Email(j) \in mixed'
      BY <1>4, <2>2, PeopleBook
    <3> QED BY <1>1, <3>1
  <2> QED BY <2>1, <2>2
<1> QED BY <1>2, <1>3, <1>4, Steps

(* A request comes to a chunk with what it found when it analysed the file. *)
LEMMA QuietFresh ==
  ASSUME Typed, NEW a \in Calls, Quiet(a), call'[a].pc \in {"lock", "chunk", "save"}
  PROVE  \/ /\ Analyse(a)
            /\ \A r \in call'[a].fresh : r \in Rows /\ Live(file[r].email) = {}
            /\ \A r \in call'[a].known : r \in Rows /\ Live(file[r].email) # {}
            /\ \A r \in Rows : FirstOfFile(r) => r \in call'[a].fresh \cup call'[a].known
         \/ /\ call[a].pc \in {"lock", "save"} /\ call'[a].cursor = call[a].cursor
            /\ call'[a].fresh = call[a].fresh /\ call'[a].known = call[a].known
            /\ call'[a].came = call[a].came
<1>1. call \in [Calls -> CallRecord] /\ call[a] \in CallRecord
  BY CallsTyped
<1>2. CASE Analyse(a)
  <2> DEFINE first == {r \in Rows : FirstOfFile(r)}
             there == {r \in first : Live(file[r].email) # {}}
  <2>1. call' = [call EXCEPT ![a].pc = "lock", ![a].fresh = first \ there, ![a].known = there, ![a].came = {}]
    BY <1>2 DEF Analyse
  <2>2. call'[a].fresh = first \ there /\ call'[a].known = there
    <3> HIDE DEF first, there
    <3> QED BY <1>1, <2>1 DEF CallRecord
  <2> QED BY <1>2, <2>2
<1>3. CASE LockImport(a)
  <2>1. CASE job.lock = "held"
    BY <1>1, <1>3, <2>1 DEF LockImport, Over, NoCall
  <2>2. CASE job.lock # "held"
    BY <1>1, <1>3, <2>2 DEF LockImport, CallRecord
  <2> QED BY <2>1, <2>2
<1>4. CASE SaveChunk(a)
  BY <1>1, <1>4 DEF SaveChunk, CallRecord
<1>5. CASE RunLoads(a) \/ WriteFails(a) \/ RollbackLoads(a) \/ RollbackRemoves(a)
  BY <1>1, <1>5 DEF RunLoads, WriteFails, RollbackLoads, RollbackRemoves, Moves, CallRecord
<1>6. CASE FinishImport(a) \/ Catch(a) \/ RollbackRecords(a)
  <2>1. call' = [call EXCEPT ![a] = Over]
    BY <1>6 DEF FinishImport, Catch, RollbackRecords
  <2> QED BY <1>1, <2>1 DEF Over, NoCall
<1> QED BY <1>2, <1>3, <1>4, <1>5, <1>6 DEF Quiet

LEMMA NewsKeptStep == ASSUME Typed, NewsKept, [ImportNext]_importVars PROVE NewsKept'
<1> SUFFICES ASSUME NEW b \in Calls, call'[b].pc \in {"lock", "chunk", "save"},
                    NEW r \in call'[b].fresh, call'[b].cursor < r,
                    NEW k \in Keys, book'[k] = "live", Email(k) = file[r].email
             PROVE  file[r].email \in call'[b].came \cup mixed'
  BY FileStays, EmailStays DEF NewsKept
<1>1. call[b].pc \in {"lock", "chunk", "save"} /\ r \in call[b].fresh /\ call[b].cursor < r /\ book[k] = "live"
        => file[r].email \in call[b].came \cup mixed
  BY DEF NewsKept
<1>2. ASSUME NEW a \in Calls, NEW landed \in SUBSET Inserted(a), NEW known, NEW failed,
             LandStep(a, landed, known, failed)
      PROVE  file[r].email \in call'[b].came \cup mixed'
  <2>1. /\ landed \subseteq Rows /\ \A q \in landed : FirstOfFile(q) /\ q <= ChunkEnd(a)
        /\ \A j \in Keys : IF j \in landed \X {a} THEN book'[j] = "live" ELSE book'[j] = book[j]
    BY <1>2, LandBook
  <2>2. mixed \subseteq mixed' /\ call[a].pc = "chunk"
    BY <1>2 DEF LandStep, Land
  <2>3. \A q \in landed : Email(<<q, a>>) = file[q].email
    BY <2>1, KeyShape, TypedFile DEF Typed, Types
  <2>4. r \in call[b].fresh /\ r \in Rows /\ FirstOfFile(r)
    BY <1>2, LandCalls, CallsTyped DEF Typed, Types, Holds, CallRecord
  <2>5. CASE b = a
    <3>1. call'[a].cursor = ChunkEnd(a) /\ call'[a].came = call[a].came
      BY <1>2, LandCalls
    <3>2. call[a].cursor < r /\ ~(r <= ChunkEnd(a))
      BY <2>4, <2>5, <3>1, CallFacts
    <3>3. k \notin landed \X {a}
      BY <2>1, <2>3, <2>4, <3>2, FirstsDiffer, TypedFile DEF Typed, Types
    <3> QED BY <1>1, <2>1, <2>2, <2>4, <2>5, <3>1, <3>2, <3>3
  <2>6. CASE b # a
    <3>1. call'[b].pc = call[b].pc /\ call'[b].cursor = call[b].cursor
      BY <1>2, <2>6, LandCalls
    <3>2. call'[b].came = call[b].came \cup {file[q].email : q \in landed}
      BY <1>2, <2>6, <3>1, LandCalls DEF Running
    <3>3. CASE k \in landed \X {a}
      BY <2>3, <3>2, <3>3
    <3>4. CASE k \notin landed \X {a}
      BY <1>1, <2>1, <2>2, <2>4, <3>1, <3>2, <3>4
    <3> QED BY <3>3, <3>4
  <2> QED BY <2>5, <2>6
<1>3. ASSUME NEW a \in Calls, Quiet(a) PROVE file[r].email \in call'[b].came \cup mixed'
  <2>1. mixed' = mixed /\ book[k] = "live"
    BY <1>3, QuietBook
  <2>2. CASE a = b
    <3>1. CASE Analyse(a) /\ Live(file[r].email) = {}
      BY <2>1, <3>1, OldTypes DEF Live
    <3>2. CASE /\ call[a].pc \in {"lock", "save"} /\ call'[a].cursor = call[a].cursor
               /\ call'[a].fresh = call[a].fresh /\ call'[a].came = call[a].came
      BY <1>1, <2>1, <2>2, <3>2
    <3> QED BY <1>3, <2>2, <3>1, <3>2, QuietFresh
  <2>3. CASE a # b
    BY <1>1, <1>3, <2>1, <2>3, QuietCalls
  <2> QED BY <2>2, <2>3
<1>4. ASSUME People PROVE file[r].email \in call'[b].came \cup mixed'
  <2>1. call[b].pc \in {"lock", "chunk", "save"} /\ r \in call[b].fresh /\ call[b].cursor < r /\ b \in Running
    BY <1>4, PeopleCalls DEF Running
  <2>2. CASE /\ \A l \in Keys : book'[l] = "live" => book[l] = "live"
             /\ mixed' = mixed /\ \A c \in Calls : call'[c].came = call[c].came
    BY <1>1, <2>1, <2>2
  <2>3. CASE \E j \in Keys :
               /\ \A l \in Keys \ {j} : book'[l] = book[l]
               /\ mixed \subseteq mixed'
               /\ \A c \in Running : call'[c].came = call[c].came \cup {Email(j)}
    BY <1>1, <2>1, <2>3
  <2> QED BY <1>4, <2>2, <2>3, PeopleBook
<1>5. ASSUME Fate PROVE file[r].email \in call'[b].came \cup mixed'
  <2>1. Over.pc = "over"
    BY DEF Over, NoCall
  <2>2. call'[b] = call[b]
    BY <1>5, <2>1, FateCalls
  <2>3. mixed' = mixed /\ book[k] = "live"
    BY <1>5, QuietBook
  <2> QED BY <1>1, <2>2, <2>3
<1> QED BY <1>2, <1>3, <1>4, <1>5, Steps

(* No import makes twins. *)
LEMMA NoTwinsHold == ImportSpec => []NoTwins
<1>1. ImportInit => Twinless /\ NewsKept
  <2> SUFFICES ASSUME ImportInit PROVE Twinless /\ NewsKept
    OBVIOUS
  <2>1. file \in Files /\ \A a \in Calls : call[a].pc = "idle"
    BY DEF ImportInit, NoCall
  <2>2. \A k \in Keys : book[k] = "live" => k \in ByHand
    BY DEF ImportInit, Keys
  <2>3. \A k, l \in ByHand : Email(k) = Email(l) => k = l
    BY <2>1, KeyShape
  <2> QED BY <2>1, <2>2, <2>3 DEF Twinless, NewsKept
<1>2. Typed /\ Twinless /\ NewsKept /\ [ImportNext]_importVars => (Twinless /\ NewsKept)'
  BY TwinlessStep, NewsKeptStep
<1>3. Typed /\ Twinless => NoTwins
  <2> SUFFICES ASSUME Typed, Twinless, NEW e \in Emails \ mixed PROVE Cardinality(Live(e)) <= 1
    BY DEF NoTwins
  <2>1. \A k, l \in Live(e) : k = l
    BY OldTypes DEF Live, Twinless
  <2>2. CASE Live(e) = {}
    BY <2>2, FS_EmptySet
  <2>3. ASSUME NEW k \in Live(e) PROVE Cardinality(Live(e)) <= 1
    <3>1. Live(e) = {k}
      BY <2>1
    <3>2. Cardinality({k}) = 1
      BY FS_Singleton
    <3> QED BY <3>1, <3>2
  <2> QED BY <2>2, <2>3
<1> QED BY <1>1, <1>2, <1>3, TypedHolds, PTL DEF ImportSpec

-------------------------------------------------------------------------------
(* No row is passed over.                                                    *)

(* The row is in the book, or it or an earlier row with its address does not fit. *)
Done(r) ==
  InBook(r) \/ \E q \in Rows : q <= r /\ file[q].email = file[r].email /\ ~file[q].fits

(* The rows a run has behind it are done, or it knows that some failed. *)
RunsSettled ==
  \A a \in Calls : \A r \in Rows :
    r <= call[a].cursor /\ Usable(r) => call[a].failed \/ Done(r)

(* What a run found in the book was there, and between that and what is new it has every row
   that is the first with its address. *)
Analysed ==
  /\ \A a \in Calls : \A r \in call[a].known : InBook(r)
  /\ \A a \in Calls : call[a].pc \in {"lock", "chunk", "save"} =>
       \A r \in Rows : FirstOfFile(r) => r \in call[a].fresh \cup call[a].known

LEMMA BooksGrow ==
  ASSUME Typed, [ImportNext]_importVars, NEW k \in Keys, book[k] # "none"
  PROVE  book'[k] # "none"
<1>1. ASSUME NEW a \in Calls, NEW landed, NEW known, NEW failed, LandStep(a, landed, known, failed)
      PROVE  book'[k] # "none"
  BY <1>1, LandBook
<1>2. ASSUME People PROVE book'[k] # "none"
  BY <1>2, OldTypes DEF People, PersonCreates, PersonDeletes, PersonRestores
<1>3. ASSUME (\E a \in Calls : Quiet(a)) \/ Fate PROVE book'[k] # "none"
  BY <1>3, QuietBook
<1> QED BY <1>1, <1>2, <1>3, Steps

LEMMA DoneStays ==
  ASSUME Typed, [ImportNext]_importVars, NEW r \in Rows
  PROVE  /\ InBook(r) => InBook(r)'
         /\ Done(r) => Done(r)'
         /\ r \in Rows' /\ (Usable(r)' <=> Usable(r)) /\ (FirstOfFile(r)' <=> FirstOfFile(r))
<1>1. InBook(r) => InBook(r)'
  <2> SUFFICES ASSUME NEW k \in Keys, book[k] # "none", Email(k) = file[r].email PROVE InBook(r)'
    BY DEF InBook
  <2>1. book'[k] # "none"
    BY BooksGrow
  <2> QED BY <2>1, EmailStays, FileStays DEF InBook
<1> QED BY <1>1, FileStays DEF Done, Usable, FirstOfFile, Rows

LEMMA AnalysedStep == ASSUME Typed, Analysed, [ImportNext]_importVars PROVE Analysed'
<1>1. \A r \in Rows : /\ InBook(r) => InBook(r)'
                      /\ FirstOfFile(r)' <=> FirstOfFile(r)
  BY DoneStays
<1>2. Rows' = Rows
  BY FileStays DEF Rows
<1>3. \A b \in Calls : call[b].known \subseteq Rows
  BY CallsTyped DEF CallRecord
<1>4. SUFFICES ASSUME NEW b \in Calls
      PROVE  /\ \A r \in call'[b].known : r \in Rows /\ InBook(r)'
             /\ call'[b].pc \in {"lock", "chunk", "save"} =>
                  \A r \in Rows : FirstOfFile(r) => r \in call'[b].fresh \cup call'[b].known
  BY <1>1, <1>2 DEF Analysed
<1>5. CASE /\ call'[b].known = call[b].known /\ call'[b].fresh = call[b].fresh
           /\ call'[b].pc \in {"lock", "chunk", "save"} => call[b].pc \in {"lock", "chunk", "save"}
  BY <1>1, <1>3, <1>5 DEF Analysed
<1>6. CASE call'[b] = Over
  BY <1>6 DEF Over, NoCall
<1>7. ASSUME NEW a \in Calls, NEW landed, NEW known, NEW failed, LandStep(a, landed, known, failed)
      PROVE  /\ call'[b].known = call[b].known /\ call'[b].fresh = call[b].fresh
             /\ call'[b].pc \in {"lock", "chunk", "save"} => call[b].pc \in {"lock", "chunk", "save"}
  <2>1. call[a].pc = "chunk"
    BY <1>7 DEF LandStep
  <2> QED BY <1>7, <2>1, LandCalls
<1>8. ASSUME NEW a \in Calls, Quiet(a)
      PROVE  /\ \A r \in call'[b].known : r \in Rows /\ InBook(r)'
             /\ call'[b].pc \in {"lock", "chunk", "save"} =>
                  \A r \in Rows : FirstOfFile(r) => r \in call'[b].fresh \cup call'[b].known
  <2>1. CASE a # b
    BY <1>5, <1>8, <2>1, QuietCalls
  <2>2. CASE a = b /\ call'[b].pc \in {"lock", "chunk", "save"}
    <3>1. CASE Analyse(a)
      <4>1. /\ \A r \in call'[a].known : r \in Rows /\ Live(file[r].email) # {}
            /\ \A r \in Rows : FirstOfFile(r) => r \in call'[a].fresh \cup call'[a].known
        BY <1>8, <2>2, <3>1, QuietFresh DEF Analyse
      <4>2. \A r \in Rows : Live(file[r].email) # {} => InBook(r)
        BY OldTypes DEF Live, InBook
      <4> QED BY <1>1, <2>2, <4>1, <4>2
    <3>2. CASE ~Analyse(a)
      BY <1>5, <1>8, <2>2, <3>2, QuietFresh
    <3> QED BY <3>1, <3>2
  <2>3. CASE a = b /\ call'[b].pc \notin {"lock", "chunk", "save"}
    <3>1. call'[b].known = call[b].known \/ call'[b] = Over
      <4>1. call \in [Calls -> CallRecord] /\ call[a] \in CallRecord
        BY CallsTyped
      <4>2. CASE Analyse(a)
        <5>1. \E fresh, known : call' = [call EXCEPT ![a].pc = "lock", ![a].fresh = fresh, ![a].known = known,
                                                     ![a].came = {}]
          BY <4>2 DEF Analyse
        <5> QED BY <2>3, <4>1, <5>1 DEF CallRecord
      <4>5. CASE LockImport(a)
        BY <2>3, <4>1, <4>5 DEF LockImport, CallRecord
      <4>3. CASE SaveChunk(a) \/ RunLoads(a) \/ WriteFails(a) \/ RollbackLoads(a) \/ RollbackRemoves(a)
        BY <2>3, <4>1, <4>3 DEF SaveChunk, RunLoads, WriteFails, RollbackLoads, RollbackRemoves, Moves, CallRecord
      <4>4. CASE FinishImport(a) \/ Catch(a) \/ RollbackRecords(a)
        BY <2>3, <4>1, <4>4 DEF FinishImport, Catch, RollbackRecords
      <4> QED BY <1>8, <4>2, <4>3, <4>4, <4>5 DEF Quiet
    <3> QED BY <1>1, <1>3, <1>6, <2>3, <3>1 DEF Analysed
  <2> QED BY <2>1, <2>2, <2>3
<1>9. ASSUME People \/ Fate
      PROVE  \/ /\ call'[b].known = call[b].known /\ call'[b].fresh = call[b].fresh
                /\ call'[b].pc \in {"lock", "chunk", "save"} => call[b].pc \in {"lock", "chunk", "save"}
             \/ call'[b] = Over
  BY <1>9, PeopleCalls, FateCalls
<1> QED BY <1>5, <1>6, <1>7, <1>8, <1>9, Steps

LEMMA DoneOfFirst ==
  ASSUME Typed, NEW r \in Rows, NEW q \in Rows, q <= r, file[q].email = file[r].email, Done(q)
  PROVE  Done(r)
<1>1. CASE InBook(q)
  BY <1>1 DEF InBook, Done
<1>2. ASSUME NEW p \in Rows, p <= q, file[p].email = file[q].email, ~file[p].fits PROVE Done(r)
  <2>1. p <= r
    BY <1>2, CallFacts, FileShape, TypedFile DEF Typed, Types
  <2> QED BY <1>2, <2>1 DEF Done
<1> QED BY <1>1, <1>2 DEF Done

(* A chunk that lands does every row it covers, or knows that some failed. *)
LEMMA LandSettles ==
  ASSUME Typed, Analysed, RunsSettled, [ImportNext]_importVars,
         NEW a \in Calls, NEW landed \in SUBSET Inserted(a), NEW known, NEW failed,
         LandStep(a, landed, known, failed),
         NEW r \in Rows, r <= ChunkEnd(a), Usable(r), ~call[a].failed, ~failed
  PROVE  Done(r)'
<1>1. PICK q \in Rows : q <= r /\ file[q].email = file[r].email /\ FirstOfFile(q)
  BY FirstExists, TypedFile DEF Typed, Types
<1>2. call[a].pc = "chunk" /\ landed = Inserted(a)
  BY DEF LandStep
<1>3. Usable(q)
  BY <1>1 DEF Usable
<1>4. r \in Nat /\ q \in Nat /\ call[a].cursor \in Nat /\ ChunkEnd(a) \in Nat
  BY CallFacts
<1>5. CASE Done(q)
  BY <1>1, <1>5, DoneOfFirst, DoneStays
<1>6. CASE ~Done(q)
  <2>1. ~(q <= call[a].cursor)
    BY <1>3, <1>6 DEF RunsSettled
  <2>2. q \in call[a].fresh
    BY <1>1, <1>2, <1>6 DEF Analysed, Done
  <2>3. file[q].fits
    BY <1>4, <1>6 DEF Done
  <2>4. q \in landed
    BY <1>1, <1>2, <1>4, <2>1, <2>2, <2>3 DEF Inserted, ToInsert, Chunk
  <2>5. <<q, a>> \in Keys /\ book'[<<q, a>>] = "live"
    <3>1. <<q, a>> \in landed \X {a} /\ <<q, a>> \in Keys
      BY <2>4 DEF Keys, FromRow
    <3> QED BY <3>1, LandBook
  <2>6. Email(<<q, a>>) = file[r].email
    BY <1>1, KeyShape, TypedFile DEF Typed, Types
  <2>7. InBook(r)'
    BY <2>5, <2>6, EmailStays, FileStays DEF InBook
  <2> QED BY <2>7 DEF Done
<1> QED BY <1>5, <1>6

(* A request that starts, ends or goes on has behind it what it, or the job, had. *)
LEMMA QuietCursor ==
  ASSUME Typed, NEW a \in Calls, Quiet(a)
  PROVE  /\ \/ call'[a].cursor = call[a].cursor /\ call'[a].failed = call[a].failed
            \/ call'[a].cursor = job.cursor /\ call'[a].failed = job.failed
            \/ call'[a].cursor = 0
         /\ \/ job'.cursor = job.cursor /\ job'.failed = job.failed
            \/ job'.cursor = call[a].cursor /\ job'.failed = call[a].failed
<1>1. call \in [Calls -> CallRecord] /\ call[a] \in CallRecord /\ job \in JobRecord
  BY CallsTyped, OldTypes
<1>2. CASE Analyse(a)
  <2>1. \E fresh, known : call' = [call EXCEPT ![a].pc = "lock", ![a].fresh = fresh, ![a].known = known,
                                               ![a].came = {}]
    BY <1>2 DEF Analyse
  <2> QED BY <1>1, <1>2, <2>1 DEF Analyse, CallRecord
<1>3. CASE LockImport(a)
  <2>1. CASE job.lock = "held"
    BY <1>1, <1>3, <2>1 DEF LockImport, Over, NoCall
  <2>2. CASE job.lock # "held"
    BY <1>1, <1>3, <2>2 DEF LockImport, CallRecord, JobRecord
  <2> QED BY <2>1, <2>2
<1>4. CASE SaveChunk(a)
  BY <1>1, <1>4 DEF SaveChunk, CallRecord, JobRecord
<1>5. CASE RunLoads(a) \/ WriteFails(a) \/ RollbackLoads(a) \/ RollbackRemoves(a)
  BY <1>1, <1>5 DEF RunLoads, WriteFails, RollbackLoads, RollbackRemoves, Moves, CallRecord
<1>6. CASE FinishImport(a) \/ Catch(a) \/ RollbackRecords(a)
  <2>1. call'[a].cursor = 0
    BY <1>1, <1>6 DEF FinishImport, Catch, RollbackRecords, Over, NoCall
  <2>2. \/ job'.cursor = job.cursor /\ job'.failed = job.failed
        \/ job'.cursor = call[a].cursor /\ job'.failed = call[a].failed
    BY <1>1, <1>6 DEF FinishImport, Catch, RollbackRecords, JobRecord
  <2> QED BY <2>1, <2>2
<1> QED BY <1>2, <1>3, <1>4, <1>5, <1>6 DEF Quiet

LEMMA SettledStep ==
  ASSUME Typed, Analysed, RunsSettled, RowsSettled, [ImportNext]_importVars
  PROVE  (RunsSettled /\ RowsSettled)'
<1>1. /\ \A r \in Rows : r <= job.cursor /\ Usable(r) => job.failed \/ Done(r)
      /\ \A r \in Rows : r \in Nat /\ ~(r <= 0) /\ (Done(r) => Done(r)')
  BY CallFacts, DoneStays, FileShape, TypedFile DEF RowsSettled, Done, Typed, Types
<1> SUFFICES /\ \A b \in Calls : \A r \in Rows : r <= call'[b].cursor /\ Usable(r) => call'[b].failed \/ Done(r)'
             /\ \A r \in Rows : r <= job'.cursor /\ Usable(r) => job'.failed \/ Done(r)'
  <2>1. Rows' = Rows /\ \A r \in Rows : Usable(r)' <=> Usable(r)
    BY FileStays, DoneStays DEF Rows
  <2> QED BY <2>1 DEF RunsSettled, RowsSettled, Done
<1>2. ASSUME NEW a \in Calls, NEW landed \in SUBSET Inserted(a), NEW known, NEW failed,
             LandStep(a, landed, known, failed)
      PROVE  /\ \A b \in Calls : \A r \in Rows : r <= call'[b].cursor /\ Usable(r) => call'[b].failed \/ Done(r)'
             /\ \A r \in Rows : r <= job'.cursor /\ Usable(r) => job'.failed \/ Done(r)'
  <2>1. job' = job
    BY <1>2 DEF LandStep
  <2>2. call'[a].cursor = ChunkEnd(a) /\ call'[a].failed = (call[a].failed \/ failed)
    BY <1>2, LandCalls
  <2>3. \A r \in Rows : r <= call'[a].cursor /\ Usable(r) => call'[a].failed \/ Done(r)'
    <3>1. ASSUME NEW r \in Rows, r <= ChunkEnd(a), Usable(r), ~call[a].failed, ~failed PROVE Done(r)'
      BY <1>2, <3>1, LandSettles
    <3> QED BY <2>2, <3>1
  <2>4. \A b \in Calls \ {a} : call'[b].cursor = call[b].cursor /\ call'[b].failed = call[b].failed
    BY <1>2, LandCalls
  <2> QED BY <1>1, <2>1, <2>3, <2>4 DEF RunsSettled
<1>3. ASSUME NEW a \in Calls, Quiet(a)
      PROVE  /\ \A b \in Calls : \A r \in Rows : r <= call'[b].cursor /\ Usable(r) => call'[b].failed \/ Done(r)'
             /\ \A r \in Rows : r <= job'.cursor /\ Usable(r) => job'.failed \/ Done(r)'
  <2>1. \A b \in Calls \ {a} : call'[b] = call[b]
    BY <1>3, QuietCalls
  <2>2. \A r \in Rows : r <= call'[a].cursor /\ Usable(r) => call'[a].failed \/ Done(r)'
    BY <1>1, <1>3, QuietCursor DEF RunsSettled
  <2>3. \A r \in Rows : r <= job'.cursor /\ Usable(r) => job'.failed \/ Done(r)'
    BY <1>1, <1>3, QuietCursor DEF RunsSettled
  <2> QED BY <1>1, <2>1, <2>2, <2>3 DEF RunsSettled
<1>4. ASSUME People \/ Fate
      PROVE  /\ \A b \in Calls : \A r \in Rows : r <= call'[b].cursor /\ Usable(r) => call'[b].failed \/ Done(r)'
             /\ \A r \in Rows : r <= job'.cursor /\ Usable(r) => job'.failed \/ Done(r)'
  <2>1. job'.cursor = job.cursor /\ job'.failed = job.failed
    BY <1>4, OldTypes DEF People, PersonCreates, PersonDeletes, PersonRestores, Fate, ImportLockExpires,
       ImportCrash, importVars, JobRecord
  <2>2. Over.cursor = 0
    BY DEF Over, NoCall
  <2>3. \A b \in Calls : \/ call'[b].cursor = call[b].cursor /\ call'[b].failed = call[b].failed
                         \/ call'[b].cursor = 0
    BY <1>4, <2>2, PeopleCalls, FateCalls
  <2> QED BY <1>1, <2>1, <2>3 DEF RunsSettled
<1> QED BY <1>2, <1>3, <1>4, Steps

LEMMA RowsSettledHold == ImportSpec => []RowsSettled
<1>1. ImportInit => Analysed /\ RunsSettled /\ RowsSettled
  <2> SUFFICES ASSUME ImportInit PROVE Analysed /\ RunsSettled /\ RowsSettled
    OBVIOUS
  <2>1. file \in Files /\ job.cursor = 0 /\ \A a \in Calls : call[a] = NoCall
    BY DEF ImportInit
  <2>2. \A r \in Rows : ~(r <= 0)
    BY <2>1, FileShape
  <2> QED BY <2>1, <2>2 DEF Analysed, RunsSettled, RowsSettled, NoCall
<1>2. /\ Typed /\ Analysed /\ RunsSettled /\ RowsSettled /\ [ImportNext]_importVars
      => (Analysed /\ RunsSettled /\ RowsSettled)'
  BY AnalysedStep, SettledStep
<1> QED BY <1>1, <1>2, TypedHolds, PTL DEF ImportSpec

(* However often an import breaks off and is run again, and however many requests overlap, it
   makes no twins but those that came while it was on its way, and passes no row over in
   silence. *)
THEOREM ImportIsSound == ImportSpec => []ImportSound
BY NoTwinsHold, RowsSettledHold, PTL DEF ImportSound
=============================================================================
