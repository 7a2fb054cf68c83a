----------------------------- MODULE ContactImport -----------------------------
(****************************************************************************)
(* The import of a file of contacts: the rows are compared with each other  *)
(* and with the address book, and inserted a chunk at a time.  A run that   *)
(* breaks off may be run again, and an import may be rolled back.  Requests *)
(* to run and to roll back overlap, and people edit the address book.       *)
(*                                                                          *)
(*   src/src/modules/import/services/importEngine.service.js   the engine    *)
(*   src/src/modules/import/controllers/import.controller.js   the requests  *)
(****************************************************************************)
EXTENDS Naturals, FiniteSets

CONSTANTS
  Emails,     \* addresses
  NoEmail,    \* the address of a row that has none, or is invalid, or is empty
  Files,      \* the files there may be: the address of each row, and whether the
              \* document of the row fits the schema of contacts
  ChunkRows,  \* CHUNK_SIZE
  Calls,      \* requests to run or to roll back the import
  MaxBreaks   \* bound on failures, crashes, locks that expire under a run, and what people
              \* do to contacts, all told

ASSUME ImportAssumption ==
  /\ NoEmail \notin Emails
  /\ \A f \in Files :
       /\ IsFiniteSet(DOMAIN f) /\ DOMAIN f = 1 .. Cardinality(DOMAIN f)
       /\ \A r \in DOMAIN f : f[r] \in [email : Emails \cup {NoEmail}, fits : BOOLEAN]
  /\ ChunkRows \in Nat \ {0}
  /\ MaxBreaks \in Nat

VARIABLES
  file,    \* the rows
  book,    \* the contacts: those made from a row by a call, and one by hand for each address
  job,     \* the ImportJob document
  call,    \* each request
  breaks,  \* how much of the bound is used
  \* History, read by properties only:
  astray,   \* contacts whose ids were lost before they were on the job
  missed,   \* contacts put on the job after a rollback had read its list
  restored, \* contacts people took back
  mixed     \* addresses that came into the book while a run was on its way to insert them, or
            \* that were to be there twice

importHistory == <<astray, missed, restored, mixed>>
importVars    == <<file, book, job, call, breaks, importHistory>>

Rows == DOMAIN file
ByHand == {0} \X Emails
FromRow == Rows \X Calls
Email(k) == IF k[1] = 0 THEN k[2] ELSE file[k[1]].email
Live(e) == {k \in DOMAIN book : book[k] = "live" /\ Email(k) = e}

NoCall == [pc |-> "idle", cursor |-> 0, failed |-> FALSE, fresh |-> {}, known |-> {},
           action |-> "skip", ids |-> {}, came |-> {}]

ImportInit ==
  /\ file \in Files
  /\ book \in {b \in [ByHand \cup FromRow -> {"none", "live"}] : \A k \in FromRow : b[k] = "none"}
  /\ \E action \in {"skip", "update", "anyway"} :
       job = [status |-> "draft", cursor |-> 0, failed |-> FALSE, lock |-> "free", rows |-> TRUE,
              action |-> action, created |-> {}, rolledBack |-> FALSE]
  /\ call = [a \in Calls |-> NoCall]
  /\ breaks = 0
  /\ astray = {} /\ missed = {} /\ restored = {} /\ mixed = {}

\* The bound on what disturbs the import.
Breaks == breaks < MaxBreaks /\ breaks' = breaks + 1

Moves(a, pc) == call' = [call EXCEPT ![a].pc = pc]

\* Requests that insert, or have analysed and are about to.
Running == {a \in Calls : call[a].pc \in {"lock", "chunk", "save", "finish", "catch"}}

\* A request that is over keeps nothing.
Over == [NoCall EXCEPT !.pc = "over"]

-------------------------------------------------------------------------------
(* POST /import/jobs/:id/run                                                 *)

RunLoads(a) ==
  /\ call[a].pc = "idle"
  /\ job.status \notin {"completed", "rolled_back"} /\ job.rows
  /\ call' = [call EXCEPT ![a].pc = "analyse", ![a].cursor = job.cursor, ![a].failed = job.failed]
  /\ UNCHANGED <<file, book, job, breaks, importHistory>>

Usable(r) == file[r].email # NoEmail

\* Mutant: rows are compared with those of their own chunk only.
FirstOfChunk(r) ==
  Usable(r) /\ \A q \in Rows : q < r /\ (q - 1) \div ChunkRows = (r - 1) \div ChunkRows =>
                                 file[q].email # file[r].email

\* The row is not a duplicate of an earlier one.
FirstOfFile(r) == Usable(r) /\ \A q \in Rows : q < r => file[q].email # file[r].email

\* analyseJob: which rows are to be inserted, and which are in the book already.
Analyse(a) ==
  /\ call[a].pc = "analyse"
  /\ LET first == {r \in Rows : FirstOfFile(r)}
         there == {r \in first : Live(file[r].email) # {}}
     IN  call' = [call EXCEPT ![a].pc = "lock", ![a].fresh = first \ there, ![a].known = there,
                              ![a].came = {}]
  /\ UNCHANGED <<file, book, job, breaks, importHistory>>

\* runImport takes the lock, whatever the job has become meanwhile, and goes on from the
\* cursor it read before.
LockImport(a) ==
  /\ call[a].pc = "lock"
  /\ IF job.lock = "held"
     THEN call' = [call EXCEPT ![a] = Over] /\ UNCHANGED job
     ELSE /\ job' = [job EXCEPT !.lock = "held", !.status = "running"]
          /\ call' = [call EXCEPT ![a].action = job.action,
                        ![a].pc = IF call[a].cursor < Cardinality(Rows) THEN "chunk" ELSE "finish"]
  /\ UNCHANGED <<file, book, breaks, importHistory>>

-------------------------------------------------------------------------------
(* A chunk.                                                                  *)

ChunkEnd(a) ==
  IF call[a].cursor + ChunkRows < Cardinality(Rows) THEN call[a].cursor + ChunkRows ELSE Cardinality(Rows)

Chunk(a) == {r \in Rows : call[a].cursor < r /\ r <= ChunkEnd(a)}

\* toInsert: those that are new, and those that are to be imported anyway.
ToInsert(a) ==
  Chunk(a) \cap (call[a].fresh \cup (IF call[a].action = "anyway" THEN call[a].known ELSE {}))

\* A document that does not fit the schema is left out of an unordered insertMany, which says
\* nothing of it.
Inserted(a) == {r \in ToInsert(a) : file[r].fits}

\* The rows of the chunk have become contacts; those of known are on result.createdIds.
Land(a, landed, known, failed) ==
  LET made == landed \X {a}
      came == {file[r].email : r \in landed}
  IN
  /\ book' = [k \in DOMAIN book |-> IF k \in made THEN "live" ELSE book[k]]
  /\ call' = [b \in Calls |->
       IF b = a THEN [call[a] EXCEPT !.pc = "save", !.cursor = ChunkEnd(a), !.ids = known \X {a},
                                     !.failed = @ \/ failed]
       ELSE IF b \in Running THEN [call[b] EXCEPT !.came = @ \cup came] ELSE call[b]]
  /\ astray' = astray \cup (made \ (known \X {a}))
  /\ mixed' = mixed \cup (came \cap call[a].came)
                    \cup {file[r].email : r \in landed \cap call[a].known}

\* processChunk: existing contacts are updated (which takes none away and adds none), and
\* new ones inserted.
InsertChunk(a) ==
  /\ call[a].pc = "chunk"
  /\ Land(a, Inserted(a), Inserted(a), FALSE)
  /\ UNCHANGED <<file, job, breaks, missed, restored>>

\* Documents the database refuses, or an existing contact that could not be saved: the rest
\* of the chunk is in.
RowsRefused(a) ==
  /\ call[a].pc = "chunk" /\ Breaks
  /\ \E landed \in SUBSET Inserted(a) :
       /\ \/ landed # Inserted(a)
          \/ call[a].action = "update" /\ Chunk(a) \cap call[a].known # {}
       /\ Land(a, landed, landed, TRUE)
  /\ UNCHANGED <<file, job, missed, restored>>

\* Mutant: what did not land is left to the next run.
NothingFailed(a) == FALSE

\* toInsert.length - inserted.length, for an error that does not say what landed.
AllFailed(a) == ToInsert(a) # {}

\* The insertion breaks off and does not say what landed.
AnswerLost(a) ==
  /\ call[a].pc = "chunk" /\ Breaks
  /\ Inserted(a) # {}
  /\ \E landed \in SUBSET Inserted(a) : Land(a, landed, {}, AllFailed(a))
  /\ UNCHANGED <<file, job, missed, restored>>

\* Mutant: the ids of the chunk replace the list.
ReplacesList(ids) == ids

\* $push of createdContactIds.
Lengthens(ids) == job.created \cup ids

\* The chunk is put on the job.
SaveChunk(a) ==
  /\ call[a].pc = "save"
  /\ job' = [job EXCEPT !.cursor = call[a].cursor, !.failed = call[a].failed, !.lock = "held",
                        !.created = Lengthens(call[a].ids)]
  /\ call' = [call EXCEPT ![a].ids = {},
                ![a].pc = IF call[a].cursor < Cardinality(Rows) THEN "chunk" ELSE "finish"]
  /\ missed' = IF job.rolledBack THEN missed \cup call[a].ids ELSE missed
  /\ UNCHANGED <<file, book, breaks, astray, restored, mixed>>

FinishImport(a) ==
  /\ call[a].pc = "finish"
  /\ job' = [job EXCEPT !.status = IF call[a].failed THEN "partial" ELSE "completed",
                        !.cursor = call[a].cursor, !.failed = call[a].failed,
                        !.lock = "free", !.rows = FALSE]
  /\ call' = [call EXCEPT ![a] = Over]
  /\ UNCHANGED <<file, book, breaks, importHistory>>

\* A write to the job fails.
WriteFails(a) ==
  /\ call[a].pc \in {"save", "finish"} /\ Breaks
  /\ call' = [call EXCEPT ![a].pc = "catch", ![a].ids = {}]
  /\ astray' = astray \cup call[a].ids
  /\ UNCHANGED <<file, book, job, missed, restored, mixed>>

\* Its catch, which may fail like the rest; without the ids of the chunk.
Catch(a) ==
  /\ call[a].pc = "catch"
  /\ call' = [call EXCEPT ![a] = Over]
  /\ \/ /\ job' = [job EXCEPT !.status = "failed", !.cursor = call[a].cursor,
                              !.failed = call[a].failed, !.lock = "free"]
        /\ UNCHANGED breaks
     \/ Breaks /\ UNCHANGED job
  /\ UNCHANGED <<file, book, importHistory>>

-------------------------------------------------------------------------------
(* POST /import/jobs/:id/rollback                                            *)

RollbackLoads(a) ==
  /\ call[a].pc = "idle" /\ ~job.rolledBack
  /\ call' = [call EXCEPT ![a].pc = IF job.created = {} THEN "record" ELSE "remove",
                          ![a].ids = job.created]
  /\ UNCHANGED <<file, book, job, breaks, importHistory>>

RollbackRemoves(a) ==
  /\ call[a].pc = "remove"
  /\ book' = [k \in DOMAIN book |->
                IF k \in call[a].ids /\ book[k] = "live" THEN "gone" ELSE book[k]]
  /\ Moves(a, "record")
  /\ UNCHANGED <<file, job, breaks, importHistory>>

RollbackRecords(a) ==
  /\ call[a].pc = "record"
  /\ job' = [job EXCEPT !.rolledBack = TRUE, !.status = "rolled_back"]
  /\ call' = [call EXCEPT ![a] = Over]
  /\ missed' = missed \cup (job.created \ call[a].ids)
  /\ UNCHANGED <<file, book, breaks, astray, restored, mixed>>

-------------------------------------------------------------------------------
(* People, time, and the death of the process.                               *)

\* An address comes into the book by hand.
Enters(e) ==
  /\ call' = [a \in Calls |->
                IF a \in Running THEN [call[a] EXCEPT !.came = @ \cup {e}] ELSE call[a]]
  /\ mixed' = IF Live(e) = {} THEN mixed ELSE mixed \cup {e}

PersonCreates(e) ==
  /\ book[<<0, e>>] = "none" /\ Breaks
  /\ book' = [book EXCEPT ![<<0, e>>] = "live"]
  /\ Enters(e)
  /\ UNCHANGED <<file, job, astray, missed, restored>>

PersonDeletes(k) ==
  /\ book[k] = "live" /\ Breaks
  /\ book' = [book EXCEPT ![k] = "gone"]
  /\ UNCHANGED <<file, job, call, importHistory>>

PersonRestores(k) ==
  /\ book[k] = "gone" /\ Breaks
  /\ book' = [book EXCEPT ![k] = "live"]
  /\ restored' = restored \cup {k}
  /\ Enters(Email(k))
  /\ UNCHANGED <<file, job, astray, missed>>

\* IMPORT_LOCK_TTL_MS have passed since the last chunk.
ImportLockExpires ==
  /\ job.lock = "held"
  /\ job' = [job EXCEPT !.lock = "stale"]
  /\ IF \E a \in Calls : call[a].pc \in {"chunk", "save", "finish", "catch"}
     THEN Breaks ELSE UNCHANGED breaks
  /\ UNCHANGED <<file, book, call, importHistory>>

ImportCrash ==
  /\ \E a \in Calls : call[a].pc \notin {"idle", "over"}
  /\ Breaks
  /\ call' = [a \in Calls |-> IF call[a].pc = "idle" THEN call[a] ELSE Over]
  /\ astray' = astray \cup UNION {call[a].ids : a \in {a \in Calls : call[a].pc = "save"}}
  /\ UNCHANGED <<file, book, job, missed, restored, mixed>>

-------------------------------------------------------------------------------

ImportStep(a) ==
  \/ RunLoads(a) \/ Analyse(a) \/ LockImport(a)
  \/ InsertChunk(a) \/ RowsRefused(a) \/ AnswerLost(a)
  \/ SaveChunk(a) \/ FinishImport(a) \/ WriteFails(a) \/ Catch(a)
  \/ RollbackLoads(a) \/ RollbackRemoves(a) \/ RollbackRecords(a)

ImportNext ==
  \/ \E a \in Calls : ImportStep(a)
  \/ \E e \in Emails : PersonCreates(e)
  \/ \E k \in DOMAIN book : PersonDeletes(k) \/ PersonRestores(k)
  \/ ImportLockExpires \/ ImportCrash

ImportSpec == ImportInit /\ [][ImportNext]_importVars

-------------------------------------------------------------------------------
(* Properties.                                                               *)

Keys == ByHand \cup FromRow

\* Every variable holds what the code may put there, and no cursor is past the file.
ImportTypes ==
  /\ file \in Files
  /\ book \in [Keys -> {"none", "live", "gone"}]
  /\ job \in [status : {"draft", "running", "completed", "partial", "failed", "rolled_back"},
              cursor : 0 .. Cardinality(Rows), failed : BOOLEAN, lock : {"free", "held", "stale"},
              rows : BOOLEAN, action : {"skip", "update", "anyway"}, created : SUBSET FromRow,
              rolledBack : BOOLEAN]
  /\ call \in [Calls ->
       [pc : {"idle", "analyse", "lock", "chunk", "save", "finish", "catch", "remove", "record",
              "over"},
        cursor : 0 .. Cardinality(Rows), failed : BOOLEAN, fresh : SUBSET Rows, known : SUBSET Rows,
        action : {"skip", "update", "anyway"}, ids : SUBSET FromRow, came : SUBSET Emails]]
  /\ breaks \in Nat
  /\ {astray, missed, restored} \subseteq SUBSET Keys /\ mixed \subseteq Emails

\* A rollback removes what the import created: none of it is left, unless its id was lost in
\* a failure or a crash, or a run put it on the job after the rollback had read the list, or a
\* person took it back (importEngine.service.js:19-23).
RollbackExact ==
  job.rolledBack =>
    \A k \in FromRow : book[k] = "live" =>
      k \in astray \cup missed \cup restored \/ \E a \in Running : k \in call[a].ids

\* An import makes no twins, however often it breaks off and is run again: two contacts have
\* one address only if one of them came while a run was on its way, or was meant to
\* (import.controller.js:285-286).
NoTwins == \A e \in Emails \ mixed : Cardinality(Live(e)) <= 1

\* The address of a row is in the book, or was.
InBook(r) == \E k \in Keys : book[k] # "none" /\ Email(k) = file[r].email

\* A row behind the cursor is settled, for every run that goes on from there: it is in the
\* book, or the job says that rows failed, which makes it partial; but for rows whose
\* document, or that of an earlier row with their address, does not fit the schema.
RowsSettled ==
  \A r \in Rows : r <= job.cursor /\ Usable(r) =>
    \/ job.failed \/ InBook(r)
    \/ \E q \in Rows : q <= r /\ file[q].email = file[r].email /\ ~file[q].fits

\* However often an import breaks off and is run again, it makes no twins and leaves no row
\* behind.
ImportSound == NoTwins /\ RowsSettled
=============================================================================
