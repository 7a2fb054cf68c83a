--------------------------- MODULE WorkbookRun_proofs --------------------------
(****************************************************************************)
(* The workbook run: types and what each step touches; the lock and the file; *)
(* the resume point, the cancel and the contract; the introductions;          *)
(* what a finished job leaves behind.                                         *)
(****************************************************************************)
EXTENDS WorkbookRun, FiniteSetTheorems, SequenceTheorems, TLAPS

LEMMA SheetType ==
  ASSUME NEW j \in Jobs
  PROVE  /\ Len(Sheet[j]) \in Nat
         /\ Rows(j) = 1..Len(Sheet[j])
         /\ \A i \in Rows(j) : /\ RefOf(j, i) \in Refs \cup {NoRef}
                              /\ Sheet[j][i].val \in [Fields -> Vals \cup {Blank}]
<1> DEFINE R == [ref : Refs \cup {NoRef}, val : [Fields -> Vals \cup {Blank}]]
<1>1. Sheet[j] \in Seq(R)
  BY WorkbookAssumption
<1>2. Len(Sheet[j]) \in Nat /\ DOMAIN Sheet[j] = 1..Len(Sheet[j])
  BY <1>1, LenProperties
<1>3. \A i \in 1..Len(Sheet[j]) : Sheet[j][i] \in R
  BY <1>1, ElementOfSeq
<1> QED BY <1>2, <1>3 DEF Rows, RefOf

LEMMA ReadyRow ==
  ASSUME TypeOK, NEW p \in Procs, run[p].job \in Jobs
  PROVE  ChunkEnd(p) \in Nat /\ ChunkEnd(p) <= Len(Sheet[run[p].job])
<1>1. Len(Sheet[run[p].job]) \in Nat
  BY SheetType
<1>2. run[p].start \in Nat
  BY DEF TypeOK, Worker
<1> QED BY <1>1, <1>2, WorkbookAssumption DEF ChunkEnd

(* What a worker holds, beyond its types: the rows it took for new or updated are valid
   rows of its job, and it is saving one of the leads it set out to write to. *)
SaneWorker(w) ==
  /\ w.pc # "idle" => w.job \in Jobs
  /\ \A i \in w.fresh \cup w.changed :
       w.job \in Jobs /\ i \in Rows(w.job) /\ ~IsInvalid(w.job, i)
  /\ w.pc = "save" => w.cur \in w.todo

WorkerOK ==
  \A p \in Procs : SaneWorker(run[p]) /\ (up[p] = "down" => run[p] = IdleRun)

LEMMA ValidRef ==
  ASSUME NEW j \in Jobs, NEW i \in Rows(j), ~IsInvalid(j, i)
  PROVE  RefOf(j, i) \in Refs
BY SheetType DEF IsInvalid

LEMMA IdleType ==
  IdleRun \in Worker
BY DEF IdleRun, Worker, Working

LEMMA UnwindType ==
  ASSUME run \in [Procs -> Worker], NEW p \in Procs, NEW pc \in Working, Unwind(p, pc)
  PROVE  run' \in [Procs -> Worker]
<1> DEFINE j == run[p].job
           file == run[p].file
           w == [IdleRun EXCEPT !.pc = pc, !.job = j, !.file = file]
<1>1. j \in Jobs \cup {None} /\ file \in BOOLEAN
  BY DEF Worker
<1>2. w \in Worker
  <2> HIDE DEF j, file
  <2> QED BY <1>1, IdleType DEF Worker
<1>3. run' = [run EXCEPT ![p] = w]
  BY DEF Unwind
<1> HIDE DEF w
<1> QED BY <1>2, <1>3

LEMMA PastLeadType ==
  ASSUME run \in [Procs -> Worker], NEW p \in Procs, NEW r \in Refs
  PROVE  PastLead(p, r) \in Worker
<1> DEFINE w == run[p]
           pc == IF w.todo \ {r} = {} THEN "complete" ELSE "mail"
           left == w.todo \ {r}
           next == w.idx + 1
<1>1. w \in Worker
  OBVIOUS
<1>2. pc \in Working /\ left \in SUBSET Refs /\ next \in Nat
  BY <1>1 DEF Worker, Working
<1>3. PastLead(p, r) = [w EXCEPT !.todo = left, !.idx = next, !.cur = None, !.pc = pc]
  BY DEF PastLead
<1> HIDE DEF w, pc, left, next
<1> QED BY <1>1, <1>2, <1>3 DEF Worker

LEMMA PastSendType ==
  ASSUME run \in [Procs -> Worker], NEW p \in Procs, NEW r \in Refs
  PROVE  PastSend(p, r) \in Worker
BY PastLeadType DEF PastSend, Worker, Working

(* A person's save touches one editable field of one lead that exists. *)
LEMMA EditEffect ==
  ASSUME TypeOK, NEW r \in Refs, Edit(r)
  PROVE  /\ lead' \in [Refs -> LeadDoc] /\ \A q \in Refs \ {r} : lead'[q] = lead[q]
         /\ lead[r].exists /\ lead'[r].exists /\ lead'[r].first = lead[r].first
         /\ lead'[r].status = lead[r].status
         /\ \E f \in Fields : /\ \A g \in Fields \ {f} : lead'[r].val[g] = lead[r].val[g]
                             /\ edited' = edited \cup {<<j, r, f>> : j \in Jobs}
<1>1. PICK f \in Editable : \E v \in (Vals \cup {Blank}) \ {lead[r].val[f]} :
        /\ lead' = [lead EXCEPT ![r].val[f] = v]
        /\ edited' = edited \cup {<<j, r, f>> : j \in Jobs}
  BY DEF Edit
<1>2. PICK v \in Vals \cup {Blank} : lead' = [lead EXCEPT ![r].val[f] = v]
  BY <1>1
<1>3. f \in Fields /\ lead \in [Refs -> LeadDoc] /\ lead[r] \in LeadDoc
  BY WorkbookAssumption DEF TypeOK
<1> DEFINE val == [lead[r].val EXCEPT ![f] = v]
           d == [lead[r] EXCEPT !.val = val]
<1>4. val \in [Fields -> Vals \cup {Blank}] /\ \A g \in Fields \ {f} : val[g] = lead[r].val[g]
  BY <1>3 DEF LeadDoc
<1>5. lead' = [lead EXCEPT ![r] = d]
  BY <1>2, <1>3
<1> HIDE DEF val
<1>6. /\ d \in LeadDoc /\ d.val = val /\ d.exists = lead[r].exists /\ d.first = lead[r].first
      /\ d.status = lead[r].status
  BY <1>3, <1>4 DEF LeadDoc
<1> HIDE DEF d
<1>7. lead' \in [Refs -> LeadDoc] /\ lead'[r] = d /\ \A q \in Refs \ {r} : lead'[q] = lead[q]
  BY <1>3, <1>5, <1>6
<1>8. lead[r].exists
  BY DEF Edit
<1> QED BY <1>1, <1>3, <1>4, <1>6, <1>7, <1>8

(* What an updated row makes of its lead. *)
LEMMA UpdateEffect ==
  ASSUME TypeOK, WorkerOK, NEW p \in Procs, UpdateLead(p),
         NEW j, j = run[p].job, NEW i, i = run[p].at + 1, NEW r, r = RefOf(j, i)
  PROVE  /\ j \in Jobs /\ i \in Rows(j) /\ ~IsInvalid(j, i) /\ r \in Refs
         /\ lead' \in [Refs -> LeadDoc] /\ \A q \in Refs \ {r} : lead'[q] = lead[q]
         /\ lead'[r].exists = lead[r].exists /\ lead'[r].first = lead[r].first
         /\ lead'[r].status = lead[r].status
         /\ \A f \in Fields : Agrees(j, i, f)'
         /\ edited' = EditedSince(j, {r})
<1>1. j \in Jobs /\ i \in Rows(j) /\ ~IsInvalid(j, i)
  BY DEF UpdateLead, At, WorkerOK, SaneWorker
<1>2. r \in Refs /\ Sheet[j][i].val \in [Fields -> Vals \cup {Blank}]
  BY <1>1, ValidRef, SheetType
<1>3. lead \in [Refs -> LeadDoc] /\ lead[r] \in LeadDoc
  BY <1>2 DEF TypeOK
<1> DEFINE val == Written(j, i)
           d == [lead[r] EXCEPT !.val = val]
<1>4. /\ val \in [Fields -> Vals \cup {Blank}]
      /\ \A f \in Fields : Sheet[j][i].val[f] \in {Blank, val[f]}
  BY <1>2, <1>3 DEF Written, LeadDoc
<1>5. lead' = [lead EXCEPT ![r] = d] /\ edited' = EditedSince(j, {r})
  BY <1>3 DEF UpdateLead
<1> HIDE DEF val
<1>6. /\ d \in LeadDoc /\ d.val = val /\ d.exists = lead[r].exists /\ d.first = lead[r].first
      /\ d.status = lead[r].status
  BY <1>3, <1>4 DEF LeadDoc
<1> HIDE DEF d
<1>7. lead' \in [Refs -> LeadDoc] /\ lead'[r] = d /\ \A q \in Refs \ {r} : lead'[q] = lead[q]
  BY <1>2, <1>3, <1>5, <1>6
<1>8. \A f \in Fields : Agrees(j, i, f)'
  BY <1>4, <1>6, <1>7 DEF Agrees
<1> QED BY <1>1, <1>2, <1>5, <1>6, <1>7, <1>8

LEMMA TypeStep ==
  ASSUME TypeOK, WorkerOK, [Next]_vars
  PROVE  TypeOK'
<1>job. job \in [Jobs -> JobDoc]
  BY DEF TypeOK
<1>lead. lead \in [Refs -> LeadDoc]
  BY DEF TypeOK
<1>run. run \in [Procs -> Worker]
  BY DEF TypeOK
<1>store. store \in [Jobs -> Procs \cup {None}]
  BY DEF TypeOK
<1>cancel. cancel \in [Jobs -> [by : Procs \cup {None}, saw : InFlight]]
  BY DEF TypeOK
<1>resend. resend \in [Refs -> Procs \cup {None}]
  BY DEF TypeOK
<1>auto. auto \in [Refs -> Nat]
  BY DEF TypeOK
<1>torn. torn \subseteq Refs
  BY DEF TypeOK
<1>late. late \in [Jobs -> Nat]
  BY DEF TypeOK
<1>1. ASSUME NEW p \in Procs, NEW j \in Jobs, Upload(p, j) PROVE TypeOK'
  <2>1. Cardinality({k \in Jobs : job[k].status # "absent"}) \in Nat
    BY WorkbookAssumption, FS_Subset, FS_CardinalityType
  <2> DEFINE n == 1 + Cardinality({k \in Jobs : job[k].status # "absent"})
             d == [job[j] EXCEPT !.status = "queued", !.queuedAt = n]
  <2>a. job' = [job EXCEPT ![j] = d]
    BY <1>1 DEF Upload
  <2>b. n \in Nat
    BY <2>1
  <2>c. d \in JobDoc
    <3> HIDE DEF n
    <3> QED BY <1>job, <2>b DEF JobDoc, InFlight
  <2>2. job' \in [Jobs -> JobDoc]
    <3> HIDE DEF d
    <3> QED BY <1>job, <2>a, <2>c
  <2>3. store' \in [Jobs -> Procs \cup {None}]
    BY <1>store, <1>1 DEF Upload
  <2> QED
    BY <1>1, <2>2, <2>3 DEF Upload, documents, requests, used, history, TypeOK
<1>2. ASSUME NEW j \in Jobs, StoreFile(j) PROVE TypeOK'
  <2>1. job' \in [Jobs -> JobDoc]
    BY <1>job, <1>2 DEF StoreFile, JobDoc, InFlight, Terminal
  <2>2. store' \in [Jobs -> Procs \cup {None}]
    BY <1>store, <1>2 DEF StoreFile
  <2> QED
    BY <1>2, <2>1, <2>2 DEF StoreFile, documents, requests, used, history, TypeOK
<1>3. ASSUME NEW j \in Jobs, StoreFails(j) PROVE TypeOK'
  <2>1. job' \in [Jobs -> JobDoc]
    BY <1>job, <1>3 DEF StoreFails, JobDoc, InFlight, Terminal
  <2>2. store' \in [Jobs -> Procs \cup {None}]
    BY <1>store, <1>3 DEF StoreFails
  <2> QED
    BY <1>3, <2>1, <2>2 DEF StoreFails, documents, requests, used, history, TypeOK
<1>4. ASSUME NEW p \in Procs, NEW j \in Jobs, CancelRead(p, j) PROVE TypeOK'
  <2>1. cancel' \in [Jobs -> [by : Procs \cup {None}, saw : InFlight]]
    BY <1>cancel, <1>4 DEF CancelRead, InFlight
  <2> QED
    BY <1>4, <2>1 DEF CancelRead, documents, requests, used, history, TypeOK
<1>5. ASSUME NEW j \in Jobs, CancelWrite(j) PROVE TypeOK'
  <2>1. job' \in [Jobs -> JobDoc]
    <3>1. CASE cancel[j].saw = "queued"
      BY <1>job, <1>5, <3>1 DEF CancelWrite, JobDoc, Terminal
    <3>2. CASE cancel[j].saw # "queued"
      BY <1>job, <1>5, <3>2 DEF CancelWrite, JobDoc
    <3> QED BY <3>1, <3>2
  <2>2. cancel' \in [Jobs -> [by : Procs \cup {None}, saw : InFlight]]
    BY <1>cancel, <1>5 DEF CancelWrite
  <2> QED
    BY <1>5, <2>1, <2>2 DEF CancelWrite, documents, requests, used, history, TypeOK
<1>6. ASSUME NEW r \in Refs, OptOut(r) PROVE TypeOK'
  <2>1. lead' \in [Refs -> LeadDoc]
    BY <1>lead, <1>6 DEF OptOut, LeadDoc
  <2> QED
    BY <1>6, <2>1 DEF OptOut, documents, requests, used, history, TypeOK
<1>edit. ASSUME NEW r \in Refs, Edit(r) PROVE TypeOK'
  <2>1. lead' \in [Refs -> LeadDoc]
    BY <1>edit, EditEffect
  <2>2. edits' \in Nat
    BY <1>edit DEF Edit, TypeOK
  <2>3. edited' \subseteq Jobs \X Refs \X Fields
    BY <1>edit, EditEffect DEF TypeOK
  <2> QED
    BY <1>edit, <2>1, <2>2, <2>3 DEF Edit, requests, TypeOK
<1>7. ASSUME NEW p \in Procs, NEW r \in Refs, ResendLoad(p, r) PROVE TypeOK'
  <2>1. resend' \in [Refs -> Procs \cup {None}]
    BY <1>resend, <1>7 DEF ResendLoad
  <2> QED
    BY <1>7, <2>1 DEF ResendLoad, documents, requests, used, history, TypeOK
<1>8. ASSUME NEW r \in Refs, ResendSave(r) PROVE TypeOK'
  <2>1. lead' \in [Refs -> LeadDoc]
    BY <1>lead, <1>8 DEF ResendSave, LeadDoc
  <2>2. resend' \in [Refs -> Procs \cup {None}]
    BY <1>resend, <1>8 DEF ResendSave
  <2> QED
    BY <1>8, <2>1, <2>2 DEF ResendSave, documents, requests, used, history, TypeOK
<1>9. ASSUME NEW p \in Procs, NEW j \in Jobs, Claim(p, j) PROVE TypeOK'
  <2>1. job' \in [Jobs -> JobDoc]
    BY <1>job, <1>9 DEF Claim, JobDoc, InFlight, Terminal
  <2>2. run' \in [Procs -> Worker]
    BY <1>job, <1>run, <1>9 DEF Claim, IdleRun, JobDoc, Worker, Working
  <2> QED
    BY <1>9, <2>1, <2>2 DEF Claim, documents, requests, used, history, TypeOK
<1>10. ASSUME NEW p \in Procs, Prepare(p) PROVE TypeOK'
  <2>1. run' \in [Procs -> Worker]
    <3>1. CASE Unwind(p, "cancelled")
      BY <1>run, <3>1, UnwindType DEF Working
    <3>2. CASE \E m \in BOOLEAN : run' = [run EXCEPT ![p].pc = "compare", ![p].mail = m]
      <4>1. PICK m \in BOOLEAN : run' = [run EXCEPT ![p].pc = "compare", ![p].mail = m]
        BY <3>2
      <4>2. [run[p] EXCEPT !.pc = "compare", !.mail = m] \in Worker
        <5>1. run[p] \in Worker
          BY <1>run
        <5> QED BY <5>1 DEF Worker, Working
      <4> QED BY <1>run, <4>1, <4>2
    <3> QED BY <1>10, <3>1, <3>2 DEF Prepare
  <2> QED
    BY <1>10, <2>1 DEF Prepare, documents, requests, used, history, TypeOK
<1>11. ASSUME NEW p \in Procs, Compare(p) PROVE TypeOK'
  <2>1. run[p].job \in Jobs
    BY <1>11 DEF Compare, At, WorkerOK, SaneWorker
  <2>2. ResumeFrom(run[p].job) \in Nat
    BY <1>job, <2>1 DEF ResumeFrom, JobDoc
  <2>3. NewRows(run[p].job) \subseteq Nat /\ UpdatedRows(run[p].job) \subseteq Nat
    BY <2>1, SheetType DEF NewRows, UpdatedRows
  <2>4. run' \in [Procs -> Worker]
    <3> DEFINE j == run[p].job
               pc == IF ResumeFrom(j) < Len(Sheet[j]) THEN "rows" ELSE "list"
               bad == \E i \in Rows(j) : IsInvalid(j, i)
               w == [run[p] EXCEPT !.pc = pc, !.fresh = NewRows(j), !.changed = UpdatedRows(j),
                                   !.start = ResumeFrom(j), !.at = ResumeFrom(j),
                                   !.failed = bad]
    <3>1. run' = [run EXCEPT ![p] = w]
      BY <1>11 DEF Compare
    <3>2. pc \in Working /\ bad \in BOOLEAN
      BY DEF Working
    <3>3. w \in Worker
      <4> HIDE DEF pc, bad, j
      <4>1. run[p] \in Worker
        BY <1>run
      <4>2. ResumeFrom(j) \in Nat /\ NewRows(j) \in SUBSET Nat /\ UpdatedRows(j) \in SUBSET Nat
        BY <2>2, <2>3 DEF j
      <4> QED BY <3>2, <4>1, <4>2 DEF Worker
    <3> HIDE DEF w
    <3> QED BY <1>run, <3>1, <3>3
  <2>5. edited' \subseteq Jobs \X Refs \X Fields
    BY <1>11 DEF Compare, EditedSince, TypeOK
  <2> QED
    BY <1>11, <2>4, <2>5 DEF Compare, documents, requests, used, history, TypeOK
<1>12. ASSUME NEW p \in Procs, SkipRow(p) PROVE TypeOK'
  <2>1. run[p].job \in Jobs
    BY <1>12 DEF SkipRow, At, WorkerOK, SaneWorker
  <2>2. run' \in [Procs -> Worker]
    BY <1>run, <2>1, <1>12 DEF SkipRow, Worker, Working
  <2>3. late' \in [Jobs -> Nat]
    BY <1>late, <2>1, <1>12 DEF SkipRow, WalkPast
  <2> QED
    BY <1>12, <2>2, <2>3 DEF SkipRow, documents, requests, used, history, TypeOK
<1>13. ASSUME NEW p \in Procs, CreateLead(p) PROVE TypeOK'
  <2>1. run[p].job \in Jobs
    BY <1>13 DEF CreateLead, At, WorkerOK, SaneWorker
  <2>2. run[p].at + 1 \in Rows(run[p].job) /\ ~IsInvalid(run[p].job, run[p].at + 1)
    BY <1>13 DEF CreateLead, At, WorkerOK, SaneWorker
  <2>3. /\ RefOf(run[p].job, run[p].at + 1) \in Refs
        /\ Sheet[run[p].job][run[p].at + 1].val \in [Fields -> Vals \cup {Blank}]
    BY <2>1, <2>2, ValidRef, SheetType
  <2>4. lead' \in [Refs -> LeadDoc]
    <3> DEFINE j == run[p].job
               r == RefOf(j, run[p].at + 1)
               v == Sheet[j][run[p].at + 1].val
               d == [lead[r] EXCEPT !.exists = TRUE, !.val = v, !.first = j]
    <3>1. lead' = [lead EXCEPT ![r] = d]
      BY <1>13 DEF CreateLead
    <3>2. d \in LeadDoc
      <4>1. r \in Refs /\ v \in [Fields -> Vals \cup {Blank}] /\ j \in Jobs
        BY <2>1, <2>3
      <4>2. lead[r] \in LeadDoc
        BY <1>lead, <4>1
      <4> HIDE DEF r, v, j
      <4> QED BY <4>1, <4>2 DEF LeadDoc
    <3> HIDE DEF d
    <3> QED BY <1>lead, <3>1, <3>2
  <2>5. run' \in [Procs -> Worker]
    <3> DEFINE r == RefOf(run[p].job, run[p].at + 1)
               made == run[p].made \cup {r}
               at == run[p].at + 1
               w == [run[p] EXCEPT !.at = at, !.made = made]
    <3>1. run' = [run EXCEPT ![p] = w]
      BY <1>13 DEF CreateLead
    <3>2. w \in Worker
      <4>1. run[p] \in Worker
        BY <1>run
      <4>2. made \in SUBSET Refs /\ at \in Nat
        BY <4>1, <2>3 DEF Worker
      <4> HIDE DEF made, at
      <4> QED BY <4>1, <4>2 DEF Worker
    <3> HIDE DEF w
    <3> QED BY <1>run, <3>1, <3>2
  <2>6. late' \in [Jobs -> Nat]
    BY <1>late, <2>1, <1>13 DEF CreateLead, WalkPast
  <2> QED
    BY <1>13, <2>4, <2>5, <2>6 DEF CreateLead, documents, requests, used, history, TypeOK
<1>14. ASSUME NEW p \in Procs, UpdateLead(p) PROVE TypeOK'
  <2>1. run[p].job \in Jobs
    BY <1>14 DEF UpdateLead, At, WorkerOK, SaneWorker
  <2>4. lead' \in [Refs -> LeadDoc]
    BY <1>14, UpdateEffect
  <2>5. run' \in [Procs -> Worker]
    BY <1>run, <2>1, <1>14 DEF UpdateLead, Worker, Working
  <2>6. late' \in [Jobs -> Nat]
    BY <1>late, <2>1, <1>14 DEF UpdateLead, WalkPast
  <2>7. edited' \subseteq Jobs \X Refs \X Fields
    BY <1>14 DEF UpdateLead, EditedSince, TypeOK
  <2> QED
    BY <1>14, <2>4, <2>5, <2>6, <2>7 DEF UpdateLead, documents, requests, used, history, TypeOK
<1>15. ASSUME NEW p \in Procs, RowThrows(p) PROVE TypeOK'
  <2>1. run[p].job \in Jobs
    BY <1>15 DEF RowThrows, At, WorkerOK, SaneWorker
  <2>2. run' \in [Procs -> Worker]
    <3> DEFINE at == run[p].at + 1
               w == [run[p] EXCEPT !.at = at, !.failed = TRUE]
    <3>1. run' = [run EXCEPT ![p] = w]
      BY <1>15 DEF RowThrows
    <3>2. w \in Worker
      <4>1. run[p] \in Worker /\ at \in Nat
        BY <1>run DEF Worker
      <4> HIDE DEF at
      <4> QED BY <4>1 DEF Worker
    <3> HIDE DEF w
    <3> QED BY <1>run, <3>1, <3>2
  <2>3. late' \in [Jobs -> Nat]
    BY <1>late, <2>1, <1>15 DEF RowThrows, WalkPast
  <2> QED
    <3>1. rowFails' \subseteq Jobs \X Nat
      <4>1. run[p].at + 1 \in Nat
        BY <1>run DEF Worker
      <4>2. <<run[p].job, run[p].at + 1>> \in Jobs \X Nat
        BY <2>1, <4>1
      <4> QED BY <1>15, <4>2 DEF RowThrows, TypeOK
    <3> QED BY <1>15, <2>2, <2>3, <3>1 DEF RowThrows, documents, requests, used, history, TypeOK
<1>16. ASSUME NEW p \in Procs, SaveCursor(p) PROVE TypeOK'
  <2>1. run[p].job \in Jobs
    BY <1>16 DEF SaveCursor, At, WorkerOK, SaneWorker
  <2>2. job' \in [Jobs -> JobDoc]
    BY <1>job, <1>run, <2>1, <1>16 DEF SaveCursor, JobDoc, InFlight, Terminal, Worker
  <2>3. run' \in [Procs -> Worker]
    BY <1>run, <2>1, <1>16 DEF SaveCursor, Goto, Worker, Working
  <2> QED
    BY <1>16, <2>2, <2>3 DEF SaveCursor, documents, requests, used, history, TypeOK
<1>17. ASSUME NEW p \in Procs, RowProgress(p) PROVE TypeOK'
  <2>1. job' \in [Jobs -> JobDoc]
    BY <1>job, <1>17 DEF RowProgress, JobDoc, InFlight, Terminal
  <2>2. run' \in [Procs -> Worker]
    <3> DEFINE pc == IF run[p].at < Len(Sheet[run[p].job]) THEN "rows" ELSE "list"
               w == [run[p] EXCEPT !.pc = pc, !.start = run[p].at]
    <3>1. w \in Worker
      <4>1. run[p] \in Worker /\ run[p].at \in Nat
        BY <1>run DEF Worker
      <4>2. pc \in Working
        BY DEF Working
      <4> HIDE DEF pc
      <4> QED BY <4>1, <4>2 DEF Worker
    <3>2. CASE IsCancelled(run[p].job)
      BY <1>run, <1>17, <3>2, UnwindType DEF RowProgress, Working
    <3>3. CASE ~IsCancelled(run[p].job)
      <4>1. run' = [run EXCEPT ![p] = w]
        BY <1>17, <3>3 DEF RowProgress
      <4> HIDE DEF w
      <4> QED BY <1>run, <3>1, <4>1
    <3> QED BY <3>2, <3>3
  <2> QED
    BY <1>17, <2>1, <2>2 DEF RowProgress, documents, requests, used, history, TypeOK
<1>18. ASSUME NEW p \in Procs, ListOwed(p) PROVE TypeOK'
  <2>1. run[p].job \in Jobs
    BY <1>18 DEF ListOwed, At, WorkerOK, SaneWorker
  <2>2. run' \in [Procs -> Worker]
    <3> DEFINE j == run[p].job
               owed == run[p].made \cup StillOwed(j)
               pc == IF owed = {} THEN "complete" ELSE "mail"
               ref == {r \in owed \ run[p].made : lead[r].optOut \/ lead[r].status = "sent"}
               w == [run[p] EXCEPT !.pc = pc, !.todo = owed, !.made = {}, !.refused = ref]
               v == [run[p] EXCEPT !.pc = "complete", !.made = {}]
    <3>1. run[p] \in Worker
      BY <1>run
    <3>2. owed \in SUBSET Refs
      BY <3>1 DEF Worker, StillOwed
    <3>3. ref \in SUBSET Refs /\ pc \in Working
      BY <3>2 DEF Working
    <3>4. w \in Worker
      <4> HIDE DEF pc, ref, owed
      <4> QED BY <3>1, <3>2, <3>3 DEF Worker
    <3>5. v \in Worker
      BY <3>1 DEF Worker, Working
    <3>6. run' = [run EXCEPT ![p] = w] \/ run' = [run EXCEPT ![p] = v]
      BY <1>18 DEF ListOwed
    <3> HIDE DEF w, v
    <3> QED BY <1>run, <3>4, <3>5, <3>6
  <2> QED
    <3>1. wrote' \subseteq Jobs
      BY <2>1, <1>18 DEF ListOwed, TypeOK
    <3> QED BY <1>18, <2>2, <3>1 DEF ListOwed, documents, requests, used, history, TypeOK
<1>19. ASSUME NEW p \in Procs, NEW r \in Refs, SkipMail(p, r) PROVE TypeOK'
  <2>1. lead' \in [Refs -> LeadDoc]
    BY <1>lead, <1>19 DEF SkipMail, LeadDoc
  <2>2. run' \in [Procs -> Worker]
    BY <1>run, <1>19, PastLeadType DEF SkipMail
  <2> QED
    BY <1>19, <2>1, <2>2 DEF SkipMail, documents, requests, used, history, TypeOK
<1>20. ASSUME NEW p \in Procs, NEW r \in Refs, HoldBack(p, r) PROVE TypeOK'
  <2>1. run' \in [Procs -> Worker]
    BY <1>run, <1>20, PastLeadType DEF HoldBack
  <2> QED
    <3>1. run[p].job \in Jobs
      BY <1>20 DEF HoldBack, At, WorkerOK, SaneWorker
    <3>2. held' \subseteq Jobs \X Refs
      BY <1>20, <3>1 DEF HoldBack, TypeOK
    <3> QED BY <1>20, <2>1, <3>2 DEF HoldBack, documents, requests, used, history, TypeOK
<1>21. ASSUME NEW p \in Procs, NEW r \in Refs, Send(p, r) PROVE TypeOK'
  <2>1. auto' \in [Refs -> Nat]
    BY <1>auto, <1>21 DEF Send
  <2>2. run' \in [Procs -> Worker]
    <3> DEFINE w == [run[p] EXCEPT !.pc = "save", !.cur = r]
    <3>1. run' = [run EXCEPT ![p] = w]
      BY <1>21 DEF Send
    <3>2. w \in Worker
      <4>1. run[p] \in Worker
        BY <1>run
      <4> QED BY <4>1 DEF Worker, Working
    <3> HIDE DEF w
    <3> QED BY <1>run, <3>1, <3>2
  <2> QED
    BY <1>21, <2>1, <2>2 DEF Send, documents, requests, used, history, TypeOK
<1>22. ASSUME NEW p \in Procs, NEW r \in Refs, SendRefused(p, r) PROVE TypeOK'
  <2>1. lead' \in [Refs -> LeadDoc]
    BY <1>lead, <1>22 DEF SendRefused, LeadDoc
  <2>2. run' \in [Procs -> Worker]
    BY <1>run, <1>22, PastSendType DEF SendRefused
  <2> QED
    BY <1>22, <2>1, <2>2 DEF SendRefused, documents, requests, used, history, TypeOK
<1>23. ASSUME NEW p \in Procs, SaveSent(p) PROVE TypeOK'
  <2>1. run[p].cur \in Refs
    BY <1>run, <1>23 DEF SaveSent, At, WorkerOK, SaneWorker, Worker
  <2>2. lead' \in [Refs -> LeadDoc]
    BY <1>lead, <2>1, <1>23 DEF SaveSent, LeadDoc
  <2>3. run' \in [Procs -> Worker]
    <3> DEFINE w == [PastSend(p, run[p].cur) EXCEPT !.sent = @ + 1]
    <3>1. run' = [run EXCEPT ![p] = w]
      BY <1>23 DEF SaveSent
    <3>2. w \in Worker
      BY <1>run, <2>1, PastSendType DEF Worker
    <3> HIDE DEF w
    <3> QED BY <1>run, <3>1, <3>2
  <2> QED
    BY <1>23, <2>2, <2>3 DEF SaveSent, documents, requests, used, history, TypeOK
<1>24. ASSUME NEW p \in Procs, SaveThrows(p) PROVE TypeOK'
  <2>1. run[p].cur \in Refs
    BY <1>run, <1>24 DEF SaveThrows, At, WorkerOK, SaneWorker, Worker
  <2>2. lead' \in [Refs -> LeadDoc]
    <3>1. UNCHANGED lead \/ lead' = [lead EXCEPT ![run[p].cur].status = "failed"]
      BY <1>24 DEF SaveThrows
    <3> QED BY <1>lead, <2>1, <3>1 DEF LeadDoc
  <2>3. run' \in [Procs -> Worker]
    <3>1. PastSend(p, run[p].cur) \in Worker
      BY <1>run, <2>1, PastSendType
    <3> QED BY <1>run, <1>24, <3>1, UnwindType DEF SaveThrows, Working
  <2> QED
    BY <1>24, <2>1, <2>2, <2>3 DEF SaveThrows, documents, requests, used, history, TypeOK
<1>25. ASSUME NEW p \in Procs, MailProgress(p) PROVE TypeOK'
  <2>1. job' \in [Jobs -> JobDoc]
    BY <1>job, <1>25 DEF MailProgress, JobDoc, InFlight, Terminal
  <2>2. run' \in [Procs -> Worker]
    <3>1. Unwind(p, "cancelled") \/ Goto(p, "complete") \/ Goto(p, "mail")
      BY <1>25 DEF MailProgress
    <3>2. CASE Goto(p, "complete") \/ Goto(p, "mail")
      BY <1>run, <3>2 DEF Goto, Worker, Working
    <3> QED BY <1>run, <3>1, <3>2, UnwindType DEF Working
  <2> QED
    BY <1>25, <2>1, <2>2 DEF MailProgress, documents, requests, used, history, TypeOK
<1>26. ASSUME NEW p \in Procs, Complete(p) PROVE TypeOK'
  <2>1. job' \in [Jobs -> JobDoc]
    <3> DEFINE s == IF run[p].failed THEN "partial" ELSE "completed"
    <3>1. job' = [job EXCEPT ![run[p].job].status = s]
      BY <1>26 DEF Complete
    <3>2. s \in Terminal
      BY DEF Terminal
    <3> HIDE DEF s
    <3> QED BY <1>job, <3>1, <3>2 DEF JobDoc
  <2>2. run' \in [Procs -> Worker]
    BY <1>run, <1>26, UnwindType DEF Complete, Working
  <2> QED
    BY <1>26, <2>1, <2>2 DEF Complete, documents, requests, used, history, TypeOK
<1>27. ASSUME NEW p \in Procs, Release(p) PROVE TypeOK'
  <2>1. job' \in [Jobs -> JobDoc]
    BY <1>job, <1>27 DEF Release, JobDoc, InFlight, Terminal
  <2>2. run' \in [Procs -> Worker]
    BY <1>run, <1>27 DEF Release, Goto, Worker, Working
  <2> QED
    BY <1>27, <2>1, <2>2 DEF Release, documents, requests, used, history, TypeOK
<1>28. ASSUME NEW p \in Procs, Discard(p) PROVE TypeOK'
  <2>1. run' \in [Procs -> Worker]
    BY <1>run, IdleType, <1>28 DEF Discard
  <2> QED
    BY <1>28, <2>1 DEF Discard, documents, requests, used, history, TypeOK
<1>29. ASSUME NEW p \in Procs, RecordFailure(p) PROVE TypeOK'
  <2>1. job' \in [Jobs -> JobDoc]
    BY <1>job, <1>29 DEF RecordFailure, JobDoc, InFlight, Terminal
  <2>2. run' \in [Procs -> Worker]
    BY <1>run, IdleType, <1>29 DEF RecordFailure
  <2> QED
    BY <1>29, <2>1, <2>2 DEF RecordFailure, documents, requests, used, history, TypeOK
<1>30. ASSUME NEW p \in Procs, RecordCancelled(p) PROVE TypeOK'
  <2>1. job' \in [Jobs -> JobDoc]
    BY <1>job, <1>30 DEF RecordCancelled, JobDoc, InFlight, Terminal
  <2>2. run' \in [Procs -> Worker]
    BY <1>run, <1>30 DEF RecordCancelled, Goto, Worker, Working
  <2> QED
    BY <1>30, <2>1, <2>2 DEF RecordCancelled, documents, requests, used, history, TypeOK
<1>31. ASSUME NEW p \in Procs, Boot(p) PROVE TypeOK'
  <2>1. job' \in [Jobs -> JobDoc]
    BY <1>job, <1>31 DEF Boot, Requeued, JobDoc, InFlight, Terminal
  <2> QED
    <3>1. stolen' \subseteq Jobs
      BY <1>31 DEF Boot, Interrupted, TypeOK
    <3> QED BY <1>31, <2>1, <3>1 DEF Boot, documents, requests, used, history, TypeOK
<1>32. ASSUME NEW p \in Procs, BlindBoot(p) PROVE TypeOK'
  BY <1>32 DEF BlindBoot, documents, requests, used, history, TypeOK
<1>33. ASSUME NEW p \in Procs, Stop(p) PROVE TypeOK'
  BY <1>33 DEF Stop, documents, requests, used, history, TypeOK
<1>34. ASSUME NEW p \in Procs, Die(p) PROVE TypeOK'
  <2>1. run[p].pc = "save" => run[p].cur \in Refs
    BY <1>run DEF WorkerOK, SaneWorker, Worker
  <2>2. run' \in [Procs -> Worker]
    BY <1>run, IdleType, <1>34 DEF Die
  <2>3. store' \in [Jobs -> Procs \cup {None}]
    BY <1>store, <1>34 DEF Die
  <2>4. cancel' \in [Jobs -> [by : Procs \cup {None}, saw : InFlight]]
    BY <1>cancel, <1>34 DEF Die
  <2>5. resend' \in [Refs -> Procs \cup {None}]
    BY <1>resend, <1>34 DEF Die
  <2>6. torn' \subseteq Refs
    BY <1>torn, <2>1, <1>34 DEF Die, Worker
  <2> QED
    BY <1>34, <2>2, <2>3, <2>4, <2>5, <2>6 DEF Die, documents, requests, used, history, TypeOK
<1>35. ASSUME NEW j \in Jobs, LockExpires(j) PROVE TypeOK'
  <2>1. job' \in [Jobs -> JobDoc]
    BY <1>job, <1>35 DEF LockExpires, JobDoc, InFlight, Terminal
  <2> QED
    BY <1>35, <2>1 DEF LockExpires, documents, requests, used, history, TypeOK
<1>37. ASSUME NEW p \in Procs, Throws(p) PROVE TypeOK'
  <2>1. run' \in [Procs -> Worker]
    BY <1>run, <1>37, UnwindType DEF Throws, Working
  <2> QED
    BY <1>37, <2>1 DEF Throws, documents, requests, used, history, TypeOK
<1>38. ASSUME NEW p \in Procs, RecordThrows(p) PROVE TypeOK'
  <2>1. run' \in [Procs -> Worker]
    BY <1>run, IdleType, <1>38 DEF RecordThrows
  <2> QED
    BY <1>38, <2>1 DEF RecordThrows, documents, requests, used, history, TypeOK
<1>36. CASE UNCHANGED vars
  BY <1>36 DEF vars, documents, requests, used, history, TypeOK
<1> QED
  BY <1>1, <1>2, <1>3, <1>4, <1>5, <1>6, <1>7, <1>8, <1>9, <1>10, <1>11, <1>12, <1>13, <1>14,
     <1>15, <1>16, <1>17, <1>18, <1>19, <1>20, <1>21, <1>22, <1>23, <1>24, <1>25, <1>26, <1>27,
     <1>28, <1>29, <1>30, <1>31, <1>32, <1>33, <1>34, <1>35, <1>36, <1>37, <1>38, <1>edit
  DEF Next, RequestStep, WorkerStep, ProcessStep, RowStep, MailStep, CloseStep

(* Where a worker may be when it is done with lead r. *)
PastStates(p, r) ==
  {PastLead(p, r), PastSend(p, r), [PastSend(p, r) EXCEPT !.sent = @ + 1]}

(* What moving on to the next lead changes, and what it leaves alone. *)
LEMMA PastFields ==
  ASSUME run \in [Procs -> Worker], NEW p \in Procs, NEW r \in Refs,
         NEW w \in PastStates(p, r)
  PROVE  /\ w.pc \in {"mail", "beat", "complete"}
         /\ w.pc = "mail" => w.todo # {}
         /\ w.pc = "complete" => w.todo = {}
         /\ w.job = run[p].job /\ w.mail = run[p].mail /\ w.file = run[p].file
         /\ w.fresh = run[p].fresh /\ w.changed = run[p].changed
         /\ w.start = run[p].start /\ w.at = run[p].at /\ w.failed = run[p].failed
         /\ w.made = run[p].made /\ w.todo = run[p].todo \ {r} /\ w.cur = None
<1> DEFINE left == run[p].todo \ {r}
           pc == IF left = {} THEN "complete" ELSE "mail"
           next == run[p].idx + 1
           v == PastLead(p, r)
<1>1. v = [run[p] EXCEPT !.todo = left, !.idx = next, !.cur = None, !.pc = pc]
  BY DEF PastLead
<1>2. pc \in {"mail", "complete"} /\ (pc = "mail" <=> left # {})
  OBVIOUS
<1>3. /\ v.job = run[p].job /\ v.mail = run[p].mail /\ v.file = run[p].file
      /\ v.fresh = run[p].fresh /\ v.changed = run[p].changed
      /\ v.start = run[p].start /\ v.at = run[p].at /\ v.failed = run[p].failed
      /\ v.made = run[p].made /\ v.todo = left /\ v.cur = None /\ v.pc = pc
  <2>1. run[p] \in Worker
    OBVIOUS
  <2> HIDE DEF left, pc, next, v
  <2> QED BY <1>1, <2>1 DEF Worker
<1>4. v \in Worker
  BY PastLeadType
<1>5. \/ w = v
      \/ w = [v EXCEPT !.pc = "beat"]
      \/ w = [v EXCEPT !.sent = @ + 1]
      \/ w = [[v EXCEPT !.pc = "beat"] EXCEPT !.sent = @ + 1]
  BY DEF PastStates, PastSend
<1> HIDE DEF left, pc, next, v
<1>6. /\ w.job = v.job /\ w.mail = v.mail /\ w.file = v.file
      /\ w.fresh = v.fresh /\ w.changed = v.changed
      /\ w.start = v.start /\ w.at = v.at /\ w.failed = v.failed
      /\ w.made = v.made /\ w.todo = v.todo /\ w.cur = v.cur
      /\ w.pc \in {v.pc, "beat"}
  BY <1>4, <1>5 DEF Worker
<1> QED BY <1>2, <1>3, <1>6 DEF left

LEMMA WorkerStepOK ==
  ASSUME TypeOK, WorkerOK, [Next]_vars
  PROVE  WorkerOK'
<1>run. run \in [Procs -> Worker]
  BY DEF TypeOK
<1>sane. \A p \in Procs : SaneWorker(run[p]) /\ (up[p] = "down" => run[p] = IdleRun)
  BY DEF WorkerOK
<1>still. ASSUME UNCHANGED <<up, run>> PROVE WorkerOK'
  BY <1>still, <1>sane DEF WorkerOK
<1>put. ASSUME NEW p \in Procs, UNCHANGED up, up[p] # "down", NEW w, SaneWorker(w),
               run' = [run EXCEPT ![p] = w]
        PROVE  WorkerOK'
  <2>1. \A q \in Procs : run'[q] = (IF q = p THEN w ELSE run[q])
    BY <1>run, <1>put
  <2> QED BY <1>sane, <1>put, <2>1 DEF WorkerOK
<1>unwind. ASSUME NEW p \in Procs, UNCHANGED up, up[p] # "down", run[p].job \in Jobs,
                  NEW pc \in {"failed", "cancelled", "release"}, Unwind(p, pc)
           PROVE  WorkerOK'
  <2> DEFINE w == [IdleRun EXCEPT !.pc = pc, !.job = run[p].job, !.file = run[p].file]
  <2>1. SaneWorker(w)
    BY <1>unwind DEF SaneWorker, IdleRun
  <2>2. run' = [run EXCEPT ![p] = w]
    BY <1>unwind DEF Unwind
  <2> HIDE DEF w
  <2> QED BY <1>put, <1>unwind, <2>1, <2>2
<1>1. ASSUME NEW p \in Procs, NEW j \in Jobs, Upload(p, j) PROVE WorkerOK'
  BY <1>1, <1>still DEF Upload
<1>2. ASSUME NEW j \in Jobs, StoreFile(j) PROVE WorkerOK'
  BY <1>2, <1>still DEF StoreFile
<1>3. ASSUME NEW j \in Jobs, StoreFails(j) PROVE WorkerOK'
  BY <1>3, <1>still DEF StoreFails
<1>4. ASSUME NEW p \in Procs, NEW j \in Jobs, CancelRead(p, j) PROVE WorkerOK'
  BY <1>4, <1>still DEF CancelRead
<1>5. ASSUME NEW j \in Jobs, CancelWrite(j) PROVE WorkerOK'
  BY <1>5, <1>still DEF CancelWrite
<1>6. ASSUME NEW r \in Refs, OptOut(r) PROVE WorkerOK'
  BY <1>6, <1>still DEF OptOut
<1>edit. ASSUME NEW r \in Refs, Edit(r) PROVE WorkerOK'
  BY <1>edit, <1>still DEF Edit
<1>7. ASSUME NEW p \in Procs, NEW r \in Refs, ResendLoad(p, r) PROVE WorkerOK'
  BY <1>7, <1>still DEF ResendLoad
<1>8. ASSUME NEW r \in Refs, ResendSave(r) PROVE WorkerOK'
  BY <1>8, <1>still DEF ResendSave
<1>9. ASSUME NEW p \in Procs, NEW j \in Jobs, Claim(p, j) PROVE WorkerOK'
  <2> DEFINE w == [IdleRun EXCEPT !.pc = "load", !.job = j, !.file = job[j].file]
  <2>1. SaneWorker(w)
    BY DEF SaneWorker, IdleRun
  <2>2. run' = [run EXCEPT ![p] = w] /\ UNCHANGED up /\ up[p] = "up"
    BY <1>9 DEF Claim
  <2> HIDE DEF w
  <2> QED BY <1>put, <2>1, <2>2
<1>10. ASSUME NEW p \in Procs, Prepare(p) PROVE WorkerOK'
  <2>1. SaneWorker(run[p]) /\ run[p] \in Worker
    BY <1>run, <1>sane
  <2>2. run[p].job \in Jobs
    BY <1>10, <2>1 DEF Prepare, At, SaneWorker
  <2>3. ASSUME NEW m \in BOOLEAN PROVE SaneWorker([run[p] EXCEPT !.pc = "compare", !.mail = m])
    BY <1>10, <2>1 DEF Prepare, At, SaneWorker, Worker
  <2>4. \/ Unwind(p, "cancelled")
        \/ \E m \in BOOLEAN :
             run' = [run EXCEPT ![p] = [run[p] EXCEPT !.pc = "compare", !.mail = m]]
    BY <1>10 DEF Prepare
  <2>5. UNCHANGED up /\ up[p] # "down"
    BY <1>10 DEF Prepare, At
  <2> QED BY <1>put, <1>unwind, <2>2, <2>3, <2>4, <2>5
<1>11. ASSUME NEW p \in Procs, Compare(p) PROVE WorkerOK'
  <2> DEFINE j == run[p].job
             pc == IF ResumeFrom(j) < Len(Sheet[j]) THEN "rows" ELSE "list"
             bad == \E i \in Rows(j) : IsInvalid(j, i)
             w == [run[p] EXCEPT !.pc = pc, !.fresh = NewRows(j), !.changed = UpdatedRows(j),
                                 !.start = ResumeFrom(j), !.at = ResumeFrom(j), !.failed = bad]
  <2>1. run[p] \in Worker /\ j \in Jobs /\ pc \in {"rows", "list"}
    BY <1>11, <1>run, <1>sane DEF Compare, At, SaneWorker
  <2>2. \A i \in NewRows(j) \cup UpdatedRows(j) : i \in Rows(j) /\ ~IsInvalid(j, i)
    BY DEF NewRows, UpdatedRows
  <2>3. w.pc = pc /\ w.job = j /\ w.fresh = NewRows(j) /\ w.changed = UpdatedRows(j)
    <3> HIDE DEF pc, j, bad
    <3> QED BY <2>1 DEF Worker, j
  <2>4. SaneWorker(w)
    <3> HIDE DEF w
    <3> QED BY <2>1, <2>2, <2>3 DEF SaneWorker
  <2>5. run' = [run EXCEPT ![p] = w] /\ UNCHANGED up /\ up[p] # "down"
    BY <1>11 DEF Compare, At
  <2> HIDE DEF w
  <2> QED BY <1>put, <2>4, <2>5
<1>12. ASSUME NEW p \in Procs, SkipRow(p) PROVE WorkerOK'
  BY <1>12, <1>run, <1>sane DEF SkipRow, At, Goto, WorkerOK, SaneWorker
<1>13. ASSUME NEW p \in Procs, CreateLead(p) PROVE WorkerOK'
  BY <1>13, <1>run, <1>sane DEF CreateLead, At, Goto, WorkerOK, SaneWorker
<1>14. ASSUME NEW p \in Procs, UpdateLead(p) PROVE WorkerOK'
  BY <1>14, <1>run, <1>sane DEF UpdateLead, At, Goto, WorkerOK, SaneWorker
<1>15. ASSUME NEW p \in Procs, RowThrows(p) PROVE WorkerOK'
  BY <1>15, <1>run, <1>sane DEF RowThrows, At, Goto, WorkerOK, SaneWorker
<1>16. ASSUME NEW p \in Procs, SaveCursor(p) PROVE WorkerOK'
  BY <1>16, <1>run, <1>sane DEF SaveCursor, At, Goto, WorkerOK, SaneWorker
<1>17. ASSUME NEW p \in Procs, RowProgress(p) PROVE WorkerOK'
  <2>1. SaneWorker(run[p]) /\ run[p] \in Worker
    BY <1>run, <1>sane
  <2>2. run[p].job \in Jobs
    BY <1>17, <2>1 DEF RowProgress, At, SaneWorker
  <2>3. ASSUME NEW pc \in {"rows", "list"}
        PROVE  SaneWorker([run[p] EXCEPT !.pc = pc, !.start = run[p].at])
    BY <1>17, <2>1 DEF RowProgress, At, SaneWorker, Worker
  <2>4. \/ Unwind(p, "cancelled")
        \/ \E pc \in {"rows", "list"} :
             run' = [run EXCEPT ![p] = [run[p] EXCEPT !.pc = pc, !.start = run[p].at]]
    BY <1>17 DEF RowProgress
  <2>5. UNCHANGED up /\ up[p] # "down"
    BY <1>17 DEF RowProgress, At
  <2> QED BY <1>put, <1>unwind, <2>2, <2>3, <2>4, <2>5
<1>18. ASSUME NEW p \in Procs, ListOwed(p) PROVE WorkerOK'
  <2> DEFINE j == run[p].job
             owed == run[p].made \cup StillOwed(j)
             pc == IF owed = {} THEN "complete" ELSE "mail"
             ref == {r \in owed \ run[p].made : lead[r].optOut \/ lead[r].status = "sent"}
             w == [run[p] EXCEPT !.pc = pc, !.todo = owed, !.made = {}, !.refused = ref]
             v == [run[p] EXCEPT !.pc = "complete", !.made = {}]
  <2>1. SaneWorker(run[p]) /\ run[p] \in Worker
    BY <1>run, <1>sane
  <2>2. SaneWorker(v)
    BY <1>18, <2>1 DEF ListOwed, At, SaneWorker, Worker
  <2>3. SaneWorker(w)
    <3>1. pc \in {"complete", "mail"}
      OBVIOUS
    <3> HIDE DEF pc, ref, owed
    <3> QED BY <1>18, <2>1, <3>1 DEF ListOwed, At, SaneWorker, Worker
  <2>4. run' = [run EXCEPT ![p] = w] \/ run' = [run EXCEPT ![p] = v]
    BY <1>18 DEF ListOwed
  <2>5. UNCHANGED up /\ up[p] # "down"
    BY <1>18 DEF ListOwed, At
  <2> HIDE DEF w, v
  <2> QED BY <1>put, <2>2, <2>3, <2>4, <2>5
<1>19. ASSUME NEW p \in Procs, NEW r \in Refs, SkipMail(p, r) PROVE WorkerOK'
  <2>1. SaneWorker(run[p]) /\ run[p].pc = "mail"
    BY <1>19, <1>sane DEF SkipMail, At
  <2>2. SaneWorker(PastLead(p, r))
    BY <1>run, <2>1, PastFields DEF PastStates, SaneWorker
  <2> QED BY <1>19, <1>put, <2>2 DEF SkipMail, At
<1>20. ASSUME NEW p \in Procs, NEW r \in Refs, HoldBack(p, r) PROVE WorkerOK'
  <2>1. SaneWorker(run[p]) /\ run[p].pc = "mail"
    BY <1>20, <1>sane DEF HoldBack, At
  <2>2. SaneWorker(PastLead(p, r))
    BY <1>run, <2>1, PastFields DEF PastStates, SaneWorker
  <2> QED BY <1>20, <1>put, <2>2 DEF HoldBack, At
<1>21. ASSUME NEW p \in Procs, NEW r \in Refs, Send(p, r) PROVE WorkerOK'
  BY <1>21, <1>run, <1>sane DEF Send, At, Goto, WorkerOK, SaneWorker
<1>22. ASSUME NEW p \in Procs, NEW r \in Refs, SendRefused(p, r) PROVE WorkerOK'
  <2>1. SaneWorker(run[p]) /\ run[p].pc = "mail"
    BY <1>22, <1>sane DEF SendRefused, At
  <2>2. SaneWorker(PastSend(p, r))
    BY <1>run, <2>1, PastFields DEF PastStates, SaneWorker
  <2> QED BY <1>22, <1>put, <2>2 DEF SendRefused, At
<1>23. ASSUME NEW p \in Procs, SaveSent(p) PROVE WorkerOK'
  <2> DEFINE w == [PastSend(p, run[p].cur) EXCEPT !.sent = @ + 1]
  <2>1. SaneWorker(run[p]) /\ run[p].pc = "save"
    BY <1>23, <1>sane DEF SaveSent, At
  <2>2. run[p].cur \in Refs
    BY <1>run, <2>1 DEF SaneWorker, Worker
  <2>3. SaneWorker(w)
    BY <1>run, <2>1, <2>2, PastFields DEF PastStates, SaneWorker
  <2>4. run' = [run EXCEPT ![p] = w] /\ UNCHANGED up /\ up[p] # "down"
    BY <1>23 DEF SaveSent, At
  <2> HIDE DEF w
  <2> QED BY <1>put, <2>3, <2>4
<1>24. ASSUME NEW p \in Procs, SaveThrows(p) PROVE WorkerOK'
  <2>1. SaneWorker(run[p]) /\ run[p].pc = "save" /\ run[p] \in Worker
    BY <1>24, <1>run, <1>sane DEF SaveThrows, At
  <2>2. run[p].cur \in Refs
    BY <2>1 DEF SaneWorker, Worker
  <2>3. SaneWorker(PastSend(p, run[p].cur))
    BY <1>run, <2>1, <2>2, PastFields DEF PastStates, SaneWorker
  <2>4. run[p].job \in Jobs
    BY <2>1 DEF SaneWorker
  <2> QED BY <1>24, <1>put, <1>unwind, <2>3, <2>4 DEF SaveThrows, At
<1>25. ASSUME NEW p \in Procs, MailProgress(p) PROVE WorkerOK'
  <2>1. SaneWorker(run[p]) /\ run[p] \in Worker /\ run[p].job \in Jobs
    BY <1>25, <1>run, <1>sane DEF MailProgress, At, SaneWorker
  <2>2. SaneWorker([run[p] EXCEPT !.pc = "complete"]) /\ SaneWorker([run[p] EXCEPT !.pc = "mail"])
    BY <2>1 DEF SaneWorker, Worker
  <2>3. Unwind(p, "cancelled") \/ Goto(p, "complete") \/ Goto(p, "mail")
    BY <1>25 DEF MailProgress
  <2> QED BY <1>25, <1>put, <1>unwind, <2>1, <2>2, <2>3 DEF MailProgress, At, Goto
<1>26. ASSUME NEW p \in Procs, Complete(p) PROVE WorkerOK'
  <2>1. run[p].job \in Jobs
    BY <1>26, <1>sane DEF Complete, At, SaneWorker
  <2> QED BY <1>26, <1>unwind, <2>1 DEF Complete, At
<1>27. ASSUME NEW p \in Procs, Release(p) PROVE WorkerOK'
  BY <1>27, <1>run, <1>sane DEF Release, At, Goto, WorkerOK, SaneWorker
<1>28. ASSUME NEW p \in Procs, Discard(p) PROVE WorkerOK'
  <2>1. SaneWorker(IdleRun)
    BY DEF SaneWorker, IdleRun
  <2> QED BY <1>28, <1>put, <2>1 DEF Discard, At
<1>29. ASSUME NEW p \in Procs, RecordFailure(p) PROVE WorkerOK'
  <2>1. SaneWorker(IdleRun)
    BY DEF SaneWorker, IdleRun
  <2> QED BY <1>29, <1>put, <2>1 DEF RecordFailure, At
<1>30. ASSUME NEW p \in Procs, RecordCancelled(p) PROVE WorkerOK'
  BY <1>30, <1>run, <1>sane DEF RecordCancelled, At, Goto, WorkerOK, SaneWorker
<1>31. ASSUME NEW p \in Procs, Boot(p) PROVE WorkerOK'
  BY <1>31, <1>sane DEF Boot, TypeOK, WorkerOK
<1>32. ASSUME NEW p \in Procs, BlindBoot(p) PROVE WorkerOK'
  BY <1>32, <1>sane DEF BlindBoot, TypeOK, WorkerOK
<1>33. ASSUME NEW p \in Procs, Stop(p) PROVE WorkerOK'
  BY <1>33, <1>sane DEF Stop, TypeOK, WorkerOK
<1>34. ASSUME NEW p \in Procs, Die(p) PROVE WorkerOK'
  <2>1. SaneWorker(IdleRun)
    BY DEF SaneWorker, IdleRun
  <2>2. \A q \in Procs : run'[q] = (IF q = p THEN IdleRun ELSE run[q])
    BY <1>34, <1>run DEF Die
  <2>3. \A q \in Procs \ {p} : up'[q] = up[q]
    BY <1>34 DEF Die, TypeOK
  <2> QED BY <1>sane, <2>1, <2>2, <2>3 DEF WorkerOK
<1>35. ASSUME NEW j \in Jobs, LockExpires(j) PROVE WorkerOK'
  BY <1>35, <1>still DEF LockExpires
<1>37. ASSUME NEW p \in Procs, Throws(p) PROVE WorkerOK'
  <2>1. SaneWorker(run[p]) /\ run[p].pc # "idle" /\ up[p] # "down"
    BY <1>37, <1>sane DEF Throws
  <2> QED BY <1>37, <1>unwind, <2>1 DEF Throws, SaneWorker
<1>38. ASSUME NEW p \in Procs, RecordThrows(p) PROVE WorkerOK'
  <2>1. SaneWorker(IdleRun)
    BY DEF SaneWorker, IdleRun
  <2> QED BY <1>38, <1>put, <2>1 DEF RecordThrows
<1>36. CASE UNCHANGED vars
  BY <1>36, <1>still DEF vars
<1> QED
  BY <1>1, <1>2, <1>3, <1>4, <1>5, <1>6, <1>7, <1>8, <1>9, <1>10, <1>11, <1>12, <1>13, <1>14,
     <1>15, <1>16, <1>17, <1>18, <1>19, <1>20, <1>21, <1>22, <1>23, <1>24, <1>25, <1>26, <1>27,
     <1>28, <1>29, <1>30, <1>31, <1>32, <1>33, <1>34, <1>35, <1>36, <1>37, <1>38, <1>edit
  DEF Next, RequestStep, WorkerStep, ProcessStep, RowStep, MailStep, CloseStep

-------------------------------------------------------------------------------
(* Every variable always has its type: the workers' bookkeeping is what keeps the row
   and lead they index in range. *)
THEOREM TypeCorrect == Spec => [](TypeOK /\ WorkerOK)
<1>1. Init => TypeOK /\ WorkerOK
  <2> SUFFICES ASSUME Init PROVE TypeOK /\ WorkerOK
    OBVIOUS
  <2>1. run \in [Procs -> Worker]
    BY IdleType DEF Init
  <2>2. job \in [Jobs -> JobDoc] /\ lead \in [Refs -> LeadDoc]
    BY DEF Init, JobDoc, LeadDoc
  <2>3. /\ up \in [Procs -> {"down", "up", "stopping"}]
        /\ store \in [Jobs -> Procs \cup {None}]
        /\ cancel \in [Jobs -> [by : Procs \cup {None}, saw : InFlight]]
        /\ resend \in [Refs -> Procs \cup {None}]
    BY DEF Init, InFlight
  <2>4. TypeOK
    BY <2>1, <2>2, <2>3 DEF Init, TypeOK
  <2>5. WorkerOK
    BY DEF Init, WorkerOK, SaneWorker, IdleRun
  <2> QED BY <2>4, <2>5
<1>2. TypeOK /\ WorkerOK /\ [Next]_vars => (TypeOK /\ WorkerOK)'
  BY TypeStep, WorkerStepOK
<1> QED BY <1>1, <1>2, PTL DEF Spec

(* Every variable of a run, of its job and of its leads always holds what the code may
   put there: no handler, crash or recovery leaves a document or a worker half written. *)
THEOREM TypeSafe == Spec => []TypeOK
BY TypeCorrect, PTL

-------------------------------------------------------------------------------
(* What each step of a worker does to the worker's own state, field by       *)
(* field: the form in which the invariants' proofs use the actions.          *)

OnlyWorker(p) == \A q \in Procs \ {p} : run'[q] = run[q]

Keeps(p, F) == \A f \in F : run'[p][f] = run[p][f]

LEMMA PutWorker ==
  ASSUME run \in [Procs -> Worker], NEW p \in Procs, NEW w, run' = [run EXCEPT ![p] = w]
  PROVE  OnlyWorker(p) /\ run'[p] = w
BY DEF OnlyWorker

LEMMA GotoEffect ==
  ASSUME run \in [Procs -> Worker], NEW p \in Procs, NEW pc, Goto(p, pc)
  PROVE  /\ OnlyWorker(p) /\ run'[p].pc = pc
         /\ Keeps(p, {"job", "file", "mail", "fresh", "changed", "start", "at", "failed",
                      "made", "todo", "refused", "cur", "idx", "sent"})
BY DEF Goto, OnlyWorker, Keeps, Worker

LEMMA UnwindEffect ==
  ASSUME run \in [Procs -> Worker], NEW p \in Procs, NEW pc, Unwind(p, pc)
  PROVE  /\ OnlyWorker(p) /\ run'[p].pc = pc /\ Keeps(p, {"job", "file"})
         /\ run'[p].made = {} /\ run'[p].todo = {} /\ ~run'[p].mail /\ run'[p].cur = None
<1> DEFINE j == run[p].job
           file == run[p].file
           w == [IdleRun EXCEPT !.pc = pc, !.job = j, !.file = file]
<1>1. run' = [run EXCEPT ![p] = w]
  BY DEF Unwind
<1>2. /\ w.pc = pc /\ w.job = j /\ w.file = file
      /\ w.made = {} /\ w.todo = {} /\ ~w.mail /\ w.cur = None
  BY DEF IdleRun
<1> HIDE DEF w
<1> QED BY <1>1, <1>2, PutWorker DEF Keeps

LEMMA IdleEffect ==
  ASSUME run \in [Procs -> Worker], NEW p \in Procs, run' = [run EXCEPT ![p] = IdleRun]
  PROVE  /\ OnlyWorker(p)
         /\ run'[p].pc = "idle" /\ run'[p].job = None /\ run'[p].made = {} /\ run'[p].todo = {}
         /\ ~run'[p].mail /\ run'[p].cur = None
BY DEF OnlyWorker, IdleRun

LEMMA ClaimEffect ==
  ASSUME run \in [Procs -> Worker], NEW p \in Procs, NEW j \in Jobs, Claim(p, j)
  PROVE  /\ OnlyWorker(p)
         /\ run'[p].pc = "load" /\ run'[p].job = j /\ run'[p].made = {} /\ run'[p].todo = {}
         /\ ~run'[p].mail /\ run'[p].cur = None /\ run'[p].file = job[j].file
<1> DEFINE file == job[j].file
           w == [IdleRun EXCEPT !.pc = "load", !.job = j, !.file = file]
<1>1. run' = [run EXCEPT ![p] = w]
  BY DEF Claim
<1>2. /\ w.pc = "load" /\ w.job = j /\ w.made = {} /\ w.todo = {}
      /\ ~w.mail /\ w.cur = None /\ w.file = file
  BY DEF IdleRun
<1> HIDE DEF w
<1> QED BY <1>1, <1>2, PutWorker

LEMMA PrepareEffect ==
  ASSUME run \in [Procs -> Worker], NEW p \in Procs, Prepare(p)
  PROVE  \/ Unwind(p, "cancelled")
         \/ /\ OnlyWorker(p) /\ run'[p].pc = "compare" /\ ~IsCancelled(run[p].job)
            /\ run'[p].mail => run[p].job \in MailOn
            /\ Keeps(p, {"job", "file", "fresh", "changed", "start", "at", "failed",
                         "made", "todo", "refused", "cur", "idx", "sent"})
<1>1. CASE Unwind(p, "cancelled")
  BY <1>1
<1>2. CASE /\ ~IsCancelled(run[p].job)
           /\ \E m \in BOOLEAN :
                /\ m => run[p].job \in MailOn
                /\ run' = [run EXCEPT ![p].pc = "compare", ![p].mail = m]
  <2>1. PICK m \in BOOLEAN : /\ m => run[p].job \in MailOn
                             /\ run' = [run EXCEPT ![p].pc = "compare", ![p].mail = m]
    BY <1>2
  <2> DEFINE w == [run[p] EXCEPT !.pc = "compare", !.mail = m]
  <2>2. run' = [run EXCEPT ![p] = w]
    BY <2>1
  <2>3. /\ w.pc = "compare" /\ w.mail = m
        /\ \A f \in {"job", "file", "fresh", "changed", "start", "at", "failed",
                     "made", "todo", "refused", "cur", "idx", "sent"} : w[f] = run[p][f]
    <3>1. run[p] \in Worker
      OBVIOUS
    <3> QED BY <3>1 DEF Worker
  <2> HIDE DEF w
  <2> QED BY <1>2, <2>1, <2>2, <2>3, PutWorker DEF Keeps
<1> QED BY <1>1, <1>2 DEF Prepare

LEMMA CompareEffect ==
  ASSUME run \in [Procs -> Worker], NEW p \in Procs, Compare(p), NEW j, j = run[p].job
  PROVE  /\ OnlyWorker(p) /\ run'[p].pc = IF ResumeFrom(j) < Len(Sheet[j]) THEN "rows" ELSE "list"
         /\ run'[p].fresh = NewRows(j) /\ run'[p].changed = UpdatedRows(j)
         /\ run'[p].start = ResumeFrom(j) /\ run'[p].at = ResumeFrom(j)
         /\ Keeps(p, {"job", "file", "mail", "made", "todo", "refused", "cur", "idx", "sent"})
<1> DEFINE pc == IF ResumeFrom(j) < Len(Sheet[j]) THEN "rows" ELSE "list"
           bad == \E i \in Rows(j) : IsInvalid(j, i)
           w == [run[p] EXCEPT !.pc = pc, !.fresh = NewRows(j), !.changed = UpdatedRows(j),
                               !.start = ResumeFrom(j), !.at = ResumeFrom(j), !.failed = bad]
<1>1. run' = [run EXCEPT ![p] = w]
  BY DEF Compare
<1>2. run[p] \in Worker
  OBVIOUS
<1>3. /\ w.pc = pc /\ w.fresh = NewRows(j) /\ w.changed = UpdatedRows(j)
      /\ w.start = ResumeFrom(j) /\ w.at = ResumeFrom(j)
      /\ \A f \in {"job", "file", "mail", "made", "todo", "refused", "cur", "idx", "sent"} :
           w[f] = run[p][f]
  <2> HIDE DEF pc, bad
  <2> QED BY <1>2 DEF Worker
<1> HIDE DEF w
<1> QED BY <1>1, <1>3, PutWorker DEF Keeps, pc

RowFields == {"pc", "job", "file", "mail", "fresh", "changed", "start", "todo", "refused",
              "cur", "idx", "sent"}

LEMMA RowEffect ==
  ASSUME run \in [Procs -> Worker], NEW p \in Procs,
         SkipRow(p) \/ CreateLead(p) \/ UpdateLead(p) \/ RowThrows(p)
  PROVE  /\ OnlyWorker(p) /\ Keeps(p, RowFields) /\ run'[p].at = run[p].at + 1
         /\ run'[p].made = IF CreateLead(p)
                           THEN run[p].made \cup {RefOf(run[p].job, run[p].at + 1)}
                           ELSE run[p].made
<1> DEFINE at == run[p].at + 1
           made == run[p].made \cup {RefOf(run[p].job, at)}
           w == [run[p] EXCEPT !.at = at]
           c == [run[p] EXCEPT !.at = at, !.made = made]
           t == [run[p] EXCEPT !.at = at, !.failed = TRUE]
<1>1. run[p] \in Worker
  OBVIOUS
<1>2. CASE CreateLead(p)
  <2>1. run' = [run EXCEPT ![p] = c]
    BY <1>2 DEF CreateLead
  <2>2. c.at = at /\ c.made = made /\ \A f \in RowFields : c[f] = run[p][f]
    <3> HIDE DEF at, made
    <3> QED BY <1>1 DEF Worker, RowFields
  <2> HIDE DEF c
  <2> QED BY <1>2, <2>1, <2>2, PutWorker DEF Keeps
<1>3. CASE ~CreateLead(p)
  <2>1. run' = [run EXCEPT ![p] = w] \/ run' = [run EXCEPT ![p] = t]
    BY <1>3 DEF SkipRow, UpdateLead, RowThrows
  <2>2. w.at = at /\ w.made = run[p].made /\ \A f \in RowFields : w[f] = run[p][f]
    <3> HIDE DEF at
    <3> QED BY <1>1 DEF Worker, RowFields
  <2>3. t.at = at /\ t.made = run[p].made /\ \A f \in RowFields : t[f] = run[p][f]
    <3> HIDE DEF at
    <3> QED BY <1>1 DEF Worker, RowFields
  <2> HIDE DEF w, t
  <2> QED BY <1>3, <2>1, <2>2, <2>3, PutWorker DEF Keeps
<1> QED BY <1>2, <1>3

LEMMA RowProgressEffect ==
  ASSUME run \in [Procs -> Worker], NEW p \in Procs, RowProgress(p), NEW j, j = run[p].job
  PROVE  \/ IsCancelled(j) /\ Unwind(p, "cancelled")
         \/ /\ ~IsCancelled(j) /\ OnlyWorker(p) /\ run'[p].start = run[p].at
            /\ run'[p].pc = IF run[p].at < Len(Sheet[j]) THEN "rows" ELSE "list"
            /\ Keeps(p, {"job", "file", "mail", "fresh", "changed", "at", "failed",
                         "made", "todo", "refused", "cur", "idx", "sent"})
<1>1. CASE IsCancelled(j)
  BY <1>1 DEF RowProgress
<1>2. CASE ~IsCancelled(j)
  <2> DEFINE pc == IF run[p].at < Len(Sheet[j]) THEN "rows" ELSE "list"
             w == [run[p] EXCEPT !.pc = pc, !.start = run[p].at]
  <2>1. run' = [run EXCEPT ![p] = w]
    BY <1>2 DEF RowProgress
  <2>2. run[p] \in Worker
    OBVIOUS
  <2>3. /\ w.pc = pc /\ w.start = run[p].at
        /\ \A f \in {"job", "file", "mail", "fresh", "changed", "at", "failed",
                     "made", "todo", "refused", "cur", "idx", "sent"} : w[f] = run[p][f]
    <3> HIDE DEF pc
    <3> QED BY <2>2 DEF Worker
  <2> HIDE DEF w
  <2> QED BY <1>2, <2>1, <2>3, PutWorker DEF Keeps, pc
<1> QED BY <1>1, <1>2

ListFields == {"job", "file", "mail", "fresh", "changed", "start", "at", "failed", "cur",
               "idx", "sent"}

LEMMA ListOwedEffect ==
  ASSUME run \in [Procs -> Worker], NEW p \in Procs, ListOwed(p),
         NEW owed, owed = run[p].made \cup StillOwed(run[p].job)
  PROVE  /\ OnlyWorker(p) /\ Keeps(p, ListFields) /\ run'[p].made = {}
         /\ ~run[p].mail => run'[p].pc = "complete" /\ run'[p].todo = run[p].todo
         /\ run[p].mail => /\ run'[p].todo = owed
                           /\ run'[p].pc = IF owed = {} THEN "complete" ELSE "mail"
<1> DEFINE pc == IF owed = {} THEN "complete" ELSE "mail"
           ref == {r \in owed \ run[p].made : lead[r].optOut \/ lead[r].status = "sent"}
           w == [run[p] EXCEPT !.pc = pc, !.todo = owed, !.made = {}, !.refused = ref]
           v == [run[p] EXCEPT !.pc = "complete", !.made = {}]
<1>1. run[p] \in Worker
  OBVIOUS
<1>2. IF run[p].mail THEN run' = [run EXCEPT ![p] = w] ELSE run' = [run EXCEPT ![p] = v]
  BY DEF ListOwed
<1>3. /\ w.pc = pc /\ w.todo = owed /\ w.made = {}
      /\ \A f \in ListFields : w[f] = run[p][f]
  <2> HIDE DEF pc, ref
  <2> QED BY <1>1 DEF Worker, ListFields
<1>4. /\ v.pc = "complete" /\ v.made = {} /\ v.todo = run[p].todo
      /\ \A f \in ListFields : v[f] = run[p][f]
  BY <1>1 DEF Worker, ListFields
<1> HIDE DEF w, v
<1> QED BY <1>1, <1>2, <1>3, <1>4, PutWorker DEF Keeps, pc, Worker

PastLeadFields == {"job", "mail", "file", "fresh", "changed", "start", "at", "failed", "made"}

(* The worker is done with lead r, one way or another. *)
MovesPast(p, r) ==
  /\ OnlyWorker(p) /\ Keeps(p, PastLeadFields)
  /\ run'[p].pc \in {"mail", "beat", "complete"}
  /\ run'[p].todo = run[p].todo \ {r} /\ run'[p].cur = None
  /\ run'[p].pc = "complete" => run'[p].todo = {}

LEMMA PastEffect ==
  ASSUME run \in [Procs -> Worker], NEW p \in Procs, NEW r \in Refs, NEW w \in PastStates(p, r),
         run' = [run EXCEPT ![p] = w]
  PROVE  MovesPast(p, r)
<1>1. /\ w.pc \in {"mail", "beat", "complete"}
      /\ w.pc = "complete" => w.todo = {}
      /\ w.todo = run[p].todo \ {r} /\ w.cur = None
  BY PastFields
<1>2. /\ w.job = run[p].job /\ w.mail = run[p].mail /\ w.file = run[p].file
      /\ w.fresh = run[p].fresh /\ w.changed = run[p].changed
      /\ w.start = run[p].start /\ w.at = run[p].at /\ w.failed = run[p].failed
      /\ w.made = run[p].made
  BY PastFields
<1>3. \A f \in PastLeadFields : w[f] = run[p][f]
  BY <1>2 DEF PastLeadFields
<1> QED BY <1>1, <1>3, PutWorker DEF MovesPast, Keeps

LEMMA MailEffect ==
  ASSUME run \in [Procs -> Worker], NEW p \in Procs, NEW r \in Refs,
         SkipMail(p, r) \/ HoldBack(p, r) \/ SendRefused(p, r)
  PROVE  MovesPast(p, r)
<1>1. \/ run' = [run EXCEPT ![p] = PastLead(p, r)]
      \/ run' = [run EXCEPT ![p] = PastSend(p, r)]
  BY DEF SkipMail, HoldBack, SendRefused
<1> QED BY <1>1, PastEffect DEF PastStates

LEMMA SaveSentEffect ==
  ASSUME run \in [Procs -> Worker], NEW p \in Procs, run[p].cur \in Refs, SaveSent(p)
  PROVE  MovesPast(p, run[p].cur)
<1>1. run' = [run EXCEPT ![p] = [PastSend(p, run[p].cur) EXCEPT !.sent = @ + 1]]
  BY DEF SaveSent
<1> QED BY <1>1, PastEffect DEF PastStates

LEMMA SaveThrowsEffect ==
  ASSUME run \in [Procs -> Worker], NEW p \in Procs, run[p].cur \in Refs, SaveThrows(p)
  PROVE  \/ MovesPast(p, run[p].cur) /\ lead' = [lead EXCEPT ![run[p].cur].status = "failed"]
         \/ Unwind(p, "failed") /\ UNCHANGED lead
<1>1. CASE run' = [run EXCEPT ![p] = PastSend(p, run[p].cur)]
           /\ lead' = [lead EXCEPT ![run[p].cur].status = "failed"]
  BY <1>1, PastEffect DEF PastStates
<1> QED BY <1>1 DEF SaveThrows

LEMMA SendEffect ==
  ASSUME run \in [Procs -> Worker], NEW p \in Procs, NEW r \in Refs, Send(p, r)
  PROVE  /\ OnlyWorker(p) /\ run'[p].pc = "save" /\ run'[p].cur = r
         /\ Keeps(p, PastLeadFields \cup {"todo", "refused", "idx", "sent"})
<1> DEFINE w == [run[p] EXCEPT !.pc = "save", !.cur = r]
<1>1. run' = [run EXCEPT ![p] = w]
  BY DEF Send
<1>2. run[p] \in Worker
  OBVIOUS
<1>3. /\ w.pc = "save" /\ w.cur = r
      /\ \A f \in PastLeadFields \cup {"todo", "refused", "idx", "sent"} : w[f] = run[p][f]
  BY <1>2 DEF Worker, PastLeadFields
<1> HIDE DEF w
<1> QED BY <1>1, <1>3, PutWorker DEF Keeps


-------------------------------------------------------------------------------
(* Which steps may change each variable.                                     *)

ChangesJob ==
  \/ UNCHANGED job
  \/ \E p \in Procs : \E j \in Jobs : Upload(p, j) \/ Claim(p, j)
  \/ \E j \in Jobs : StoreFile(j) \/ StoreFails(j) \/ CancelWrite(j) \/ LockExpires(j)
  \/ \E p \in Procs :
       \/ SaveCursor(p) \/ RowProgress(p) \/ MailProgress(p) \/ Complete(p)
       \/ Release(p) \/ RecordFailure(p) \/ RecordCancelled(p) \/ Boot(p)

ChangesDisk ==
  \/ UNCHANGED disk
  \/ \E j \in Jobs : StoreFile(j) \/ StoreFails(j)
  \/ \E p \in Procs : Discard(p)

ChangesLead ==
  \/ UNCHANGED lead
  \/ \E r \in Refs : OptOut(r) \/ Edit(r) \/ ResendSave(r)
  \/ \E p \in Procs : CreateLead(p) \/ UpdateLead(p) \/ SaveSent(p) \/ SaveThrows(p)
  \/ \E p \in Procs : \E r \in Refs : SkipMail(p, r) \/ SendRefused(p, r)

ChangesUp ==
  \/ UNCHANGED up
  \/ \E p \in Procs : Boot(p) \/ BlindBoot(p) \/ Stop(p) \/ Die(p)

ChangesRun ==
  \/ UNCHANGED run
  \/ \E p \in Procs : \E j \in Jobs : Claim(p, j)
  \/ \E p \in Procs :
       \/ Prepare(p) \/ Compare(p) \/ SkipRow(p) \/ CreateLead(p)
       \/ UpdateLead(p) \/ RowThrows(p) \/ SaveCursor(p) \/ RowProgress(p)
       \/ ListOwed(p) \/ SaveSent(p) \/ SaveThrows(p) \/ MailProgress(p)
       \/ Complete(p) \/ Release(p) \/ Discard(p) \/ Throws(p)
       \/ RecordFailure(p) \/ RecordCancelled(p) \/ RecordThrows(p) \/ Die(p)
  \/ \E p \in Procs : \E r \in Refs :
       \/ SkipMail(p, r) \/ HoldBack(p, r) \/ Send(p, r) \/ SendRefused(p, r)

ChangesStore ==
  \/ UNCHANGED store
  \/ \E p \in Procs : \E j \in Jobs : Upload(p, j)
  \/ \E j \in Jobs : StoreFile(j) \/ StoreFails(j)
  \/ \E p \in Procs : Die(p)

ChangesAuto ==
  \/ UNCHANGED auto
  \/ \E p \in Procs : \E r \in Refs : Send(p, r)

ChangesTorn ==
  \/ UNCHANGED torn
  \/ \E p \in Procs : SaveThrows(p) \/ Die(p)

ChangesStolen ==
  \/ UNCHANGED stolen
  \/ \E p \in Procs : \E j \in Jobs : Claim(p, j)
  \/ \E p \in Procs : Boot(p)

ChangesHeld ==
  \/ UNCHANGED held
  \/ \E p \in Procs : \E r \in Refs : HoldBack(p, r)

ChangesWrote ==
  \/ UNCHANGED wrote
  \/ \E p \in Procs : ListOwed(p)

ChangesRowFails ==
  \/ UNCHANGED rowFails
  \/ \E p \in Procs : RowThrows(p)

ChangesLate ==
  \/ UNCHANGED late
  \/ \E p \in Procs : SkipRow(p) \/ CreateLead(p) \/ UpdateLead(p) \/ RowThrows(p)

Attributed ==
  /\ ChangesJob /\ ChangesDisk /\ ChangesLead /\ ChangesUp /\ ChangesRun
  /\ ChangesStore /\ ChangesAuto /\ ChangesTorn /\ ChangesStolen /\ ChangesHeld
  /\ ChangesWrote /\ ChangesRowFails /\ ChangesLate

LEMMA WhoChanges ==
  ASSUME [Next]_vars
  PROVE  Attributed
<1>1. ASSUME NEW p \in Procs, NEW j \in Jobs, Upload(p, j) PROVE Attributed
  <2>1. UNCHANGED <<disk, lead, up, run, auto, torn, stolen, held, wrote, rowFails, late>>
    BY <1>1 DEF Upload, documents, requests, history
  <2> QED
    BY <1>1, <2>1 DEF Attributed, ChangesJob, ChangesDisk, ChangesLead, ChangesUp,
       ChangesRun, ChangesStore, ChangesAuto, ChangesTorn, ChangesStolen, ChangesHeld,
       ChangesWrote, ChangesRowFails, ChangesLate
<1>2. ASSUME NEW j \in Jobs, StoreFile(j) PROVE Attributed
  <2>1. UNCHANGED <<lead, up, run, auto, torn, stolen, held, wrote, rowFails, late>>
    BY <1>2 DEF StoreFile, documents, requests, history
  <2> QED
    BY <1>2, <2>1 DEF Attributed, ChangesJob, ChangesDisk, ChangesLead, ChangesUp,
       ChangesRun, ChangesStore, ChangesAuto, ChangesTorn, ChangesStolen, ChangesHeld,
       ChangesWrote, ChangesRowFails, ChangesLate
<1>3. ASSUME NEW j \in Jobs, StoreFails(j) PROVE Attributed
  <2>1. UNCHANGED <<lead, up, run, auto, torn, stolen, held, wrote, rowFails, late>>
    BY <1>3 DEF StoreFails, documents, requests, history
  <2> QED
    BY <1>3, <2>1 DEF Attributed, ChangesJob, ChangesDisk, ChangesLead, ChangesUp,
       ChangesRun, ChangesStore, ChangesAuto, ChangesTorn, ChangesStolen, ChangesHeld,
       ChangesWrote, ChangesRowFails, ChangesLate
<1>4. ASSUME NEW p \in Procs, NEW j \in Jobs, CancelRead(p, j) PROVE Attributed
  <2>1. UNCHANGED <<job, disk, lead, up, run, store, auto, torn, stolen, held, wrote,
     rowFails, late>>
    BY <1>4 DEF CancelRead, documents, requests, history
  <2> QED
    BY <1>4, <2>1 DEF Attributed, ChangesJob, ChangesDisk, ChangesLead, ChangesUp,
       ChangesRun, ChangesStore, ChangesAuto, ChangesTorn, ChangesStolen, ChangesHeld,
       ChangesWrote, ChangesRowFails, ChangesLate
<1>5. ASSUME NEW j \in Jobs, CancelWrite(j) PROVE Attributed
  <2>1. UNCHANGED <<disk, lead, up, run, store, auto, torn, stolen, held, wrote, rowFails,
     late>>
    BY <1>5 DEF CancelWrite, documents, requests, history
  <2> QED
    BY <1>5, <2>1 DEF Attributed, ChangesJob, ChangesDisk, ChangesLead, ChangesUp,
       ChangesRun, ChangesStore, ChangesAuto, ChangesTorn, ChangesStolen, ChangesHeld,
       ChangesWrote, ChangesRowFails, ChangesLate
<1>6. ASSUME NEW r \in Refs, OptOut(r) PROVE Attributed
  <2>1. UNCHANGED <<job, disk, up, run, store, auto, torn, stolen, held, wrote, rowFails,
     late>>
    BY <1>6 DEF OptOut, documents, requests, history
  <2> QED
    BY <1>6, <2>1 DEF Attributed, ChangesJob, ChangesDisk, ChangesLead, ChangesUp,
       ChangesRun, ChangesStore, ChangesAuto, ChangesTorn, ChangesStolen, ChangesHeld,
       ChangesWrote, ChangesRowFails, ChangesLate
<1>edit. ASSUME NEW r \in Refs, Edit(r) PROVE Attributed
  <2>1. UNCHANGED <<job, disk, up, run, store, auto, torn, stolen, held, wrote, rowFails,
     late>>
    BY <1>edit DEF Edit, requests
  <2> QED
    BY <1>edit, <2>1 DEF Attributed, ChangesJob, ChangesDisk, ChangesLead, ChangesUp,
       ChangesRun, ChangesStore, ChangesAuto, ChangesTorn, ChangesStolen, ChangesHeld,
       ChangesWrote, ChangesRowFails, ChangesLate
<1>7. ASSUME NEW p \in Procs, NEW r \in Refs, ResendLoad(p, r) PROVE Attributed
  <2>1. UNCHANGED <<job, disk, lead, up, run, store, auto, torn, stolen, held, wrote,
     rowFails, late>>
    BY <1>7 DEF ResendLoad, documents, requests, history
  <2> QED
    BY <1>7, <2>1 DEF Attributed, ChangesJob, ChangesDisk, ChangesLead, ChangesUp,
       ChangesRun, ChangesStore, ChangesAuto, ChangesTorn, ChangesStolen, ChangesHeld,
       ChangesWrote, ChangesRowFails, ChangesLate
<1>8. ASSUME NEW r \in Refs, ResendSave(r) PROVE Attributed
  <2>1. UNCHANGED <<job, disk, up, run, store, auto, torn, stolen, held, wrote, rowFails,
     late>>
    BY <1>8 DEF ResendSave, documents, requests, history
  <2> QED
    BY <1>8, <2>1 DEF Attributed, ChangesJob, ChangesDisk, ChangesLead, ChangesUp,
       ChangesRun, ChangesStore, ChangesAuto, ChangesTorn, ChangesStolen, ChangesHeld,
       ChangesWrote, ChangesRowFails, ChangesLate
<1>9. ASSUME NEW p \in Procs, NEW j \in Jobs, Claim(p, j) PROVE Attributed
  <2>1. UNCHANGED <<disk, lead, up, store, auto, torn, held, wrote, rowFails, late>>
    BY <1>9 DEF Claim, documents, requests, history
  <2> QED
    BY <1>9, <2>1 DEF Attributed, ChangesJob, ChangesDisk, ChangesLead, ChangesUp,
       ChangesRun, ChangesStore, ChangesAuto, ChangesTorn, ChangesStolen, ChangesHeld,
       ChangesWrote, ChangesRowFails, ChangesLate
<1>10. ASSUME NEW p \in Procs, Prepare(p) PROVE Attributed
  <2>1. UNCHANGED <<job, disk, lead, up, store, auto, torn, stolen, held, wrote, rowFails,
     late>>
    BY <1>10 DEF Prepare, documents, requests, history
  <2> QED
    BY <1>10, <2>1 DEF Attributed, ChangesJob, ChangesDisk, ChangesLead, ChangesUp,
       ChangesRun, ChangesStore, ChangesAuto, ChangesTorn, ChangesStolen, ChangesHeld,
       ChangesWrote, ChangesRowFails, ChangesLate
<1>11. ASSUME NEW p \in Procs, Compare(p) PROVE Attributed
  <2>1. UNCHANGED <<job, disk, lead, up, store, auto, torn, stolen, held, wrote, rowFails,
     late>>
    BY <1>11 DEF Compare, documents, requests, history
  <2> QED
    BY <1>11, <2>1 DEF Attributed, ChangesJob, ChangesDisk, ChangesLead, ChangesUp,
       ChangesRun, ChangesStore, ChangesAuto, ChangesTorn, ChangesStolen, ChangesHeld,
       ChangesWrote, ChangesRowFails, ChangesLate
<1>12. ASSUME NEW p \in Procs, SkipRow(p) PROVE Attributed
  <2>1. UNCHANGED <<job, disk, lead, up, store, auto, torn, stolen, held, wrote, rowFails>>
    BY <1>12 DEF SkipRow, documents, requests, history
  <2> QED
    BY <1>12, <2>1 DEF Attributed, ChangesJob, ChangesDisk, ChangesLead, ChangesUp,
       ChangesRun, ChangesStore, ChangesAuto, ChangesTorn, ChangesStolen, ChangesHeld,
       ChangesWrote, ChangesRowFails, ChangesLate
<1>13. ASSUME NEW p \in Procs, CreateLead(p) PROVE Attributed
  <2>1. UNCHANGED <<job, disk, up, store, auto, torn, stolen, held, wrote, rowFails>>
    BY <1>13 DEF CreateLead, documents, requests, history
  <2> QED
    BY <1>13, <2>1 DEF Attributed, ChangesJob, ChangesDisk, ChangesLead, ChangesUp,
       ChangesRun, ChangesStore, ChangesAuto, ChangesTorn, ChangesStolen, ChangesHeld,
       ChangesWrote, ChangesRowFails, ChangesLate
<1>14. ASSUME NEW p \in Procs, UpdateLead(p) PROVE Attributed
  <2>1. UNCHANGED <<job, disk, up, store, auto, torn, stolen, held, wrote, rowFails>>
    BY <1>14 DEF UpdateLead, documents, requests, history
  <2> QED
    BY <1>14, <2>1 DEF Attributed, ChangesJob, ChangesDisk, ChangesLead, ChangesUp,
       ChangesRun, ChangesStore, ChangesAuto, ChangesTorn, ChangesStolen, ChangesHeld,
       ChangesWrote, ChangesRowFails, ChangesLate
<1>15. ASSUME NEW p \in Procs, RowThrows(p) PROVE Attributed
  <2>1. UNCHANGED <<job, disk, lead, up, store, auto, torn, stolen, held, wrote>>
    BY <1>15 DEF RowThrows, documents, requests, history
  <2> QED
    BY <1>15, <2>1 DEF Attributed, ChangesJob, ChangesDisk, ChangesLead, ChangesUp,
       ChangesRun, ChangesStore, ChangesAuto, ChangesTorn, ChangesStolen, ChangesHeld,
       ChangesWrote, ChangesRowFails, ChangesLate
<1>16. ASSUME NEW p \in Procs, SaveCursor(p) PROVE Attributed
  <2>1. UNCHANGED <<disk, lead, up, store, auto, torn, stolen, held, wrote, rowFails, late>>
    BY <1>16 DEF SaveCursor, documents, requests, history
  <2> QED
    BY <1>16, <2>1 DEF Attributed, ChangesJob, ChangesDisk, ChangesLead, ChangesUp,
       ChangesRun, ChangesStore, ChangesAuto, ChangesTorn, ChangesStolen, ChangesHeld,
       ChangesWrote, ChangesRowFails, ChangesLate
<1>17. ASSUME NEW p \in Procs, RowProgress(p) PROVE Attributed
  <2>1. UNCHANGED <<disk, lead, up, store, auto, torn, stolen, held, wrote, rowFails, late>>
    BY <1>17 DEF RowProgress, documents, requests, history
  <2> QED
    BY <1>17, <2>1 DEF Attributed, ChangesJob, ChangesDisk, ChangesLead, ChangesUp,
       ChangesRun, ChangesStore, ChangesAuto, ChangesTorn, ChangesStolen, ChangesHeld,
       ChangesWrote, ChangesRowFails, ChangesLate
<1>18. ASSUME NEW p \in Procs, ListOwed(p) PROVE Attributed
  <2>1. UNCHANGED <<job, disk, lead, up, store, auto, torn, stolen, held, rowFails, late>>
    BY <1>18 DEF ListOwed, documents, requests, history
  <2> QED
    BY <1>18, <2>1 DEF Attributed, ChangesJob, ChangesDisk, ChangesLead, ChangesUp,
       ChangesRun, ChangesStore, ChangesAuto, ChangesTorn, ChangesStolen, ChangesHeld,
       ChangesWrote, ChangesRowFails, ChangesLate
<1>19. ASSUME NEW p \in Procs, NEW r \in Refs, SkipMail(p, r) PROVE Attributed
  <2>1. UNCHANGED <<job, disk, up, store, auto, torn, stolen, held, wrote, rowFails, late>>
    BY <1>19 DEF SkipMail, documents, requests, history
  <2> QED
    BY <1>19, <2>1 DEF Attributed, ChangesJob, ChangesDisk, ChangesLead, ChangesUp,
       ChangesRun, ChangesStore, ChangesAuto, ChangesTorn, ChangesStolen, ChangesHeld,
       ChangesWrote, ChangesRowFails, ChangesLate
<1>20. ASSUME NEW p \in Procs, NEW r \in Refs, HoldBack(p, r) PROVE Attributed
  <2>1. UNCHANGED <<job, disk, lead, up, store, auto, torn, stolen, wrote, rowFails, late>>
    BY <1>20 DEF HoldBack, documents, requests, history
  <2> QED
    BY <1>20, <2>1 DEF Attributed, ChangesJob, ChangesDisk, ChangesLead, ChangesUp,
       ChangesRun, ChangesStore, ChangesAuto, ChangesTorn, ChangesStolen, ChangesHeld,
       ChangesWrote, ChangesRowFails, ChangesLate
<1>21. ASSUME NEW p \in Procs, NEW r \in Refs, Send(p, r) PROVE Attributed
  <2>1. UNCHANGED <<job, disk, lead, up, store, torn, stolen, held, wrote, rowFails, late>>
    BY <1>21 DEF Send, documents, requests, history
  <2> QED
    BY <1>21, <2>1 DEF Attributed, ChangesJob, ChangesDisk, ChangesLead, ChangesUp,
       ChangesRun, ChangesStore, ChangesAuto, ChangesTorn, ChangesStolen, ChangesHeld,
       ChangesWrote, ChangesRowFails, ChangesLate
<1>22. ASSUME NEW p \in Procs, NEW r \in Refs, SendRefused(p, r) PROVE Attributed
  <2>1. UNCHANGED <<job, disk, up, store, auto, torn, stolen, held, wrote, rowFails, late>>
    BY <1>22 DEF SendRefused, documents, requests, history
  <2> QED
    BY <1>22, <2>1 DEF Attributed, ChangesJob, ChangesDisk, ChangesLead, ChangesUp,
       ChangesRun, ChangesStore, ChangesAuto, ChangesTorn, ChangesStolen, ChangesHeld,
       ChangesWrote, ChangesRowFails, ChangesLate
<1>23. ASSUME NEW p \in Procs, SaveSent(p) PROVE Attributed
  <2>1. UNCHANGED <<job, disk, up, store, auto, torn, stolen, held, wrote, rowFails, late>>
    BY <1>23 DEF SaveSent, documents, requests, history
  <2> QED
    BY <1>23, <2>1 DEF Attributed, ChangesJob, ChangesDisk, ChangesLead, ChangesUp,
       ChangesRun, ChangesStore, ChangesAuto, ChangesTorn, ChangesStolen, ChangesHeld,
       ChangesWrote, ChangesRowFails, ChangesLate
<1>24. ASSUME NEW p \in Procs, SaveThrows(p) PROVE Attributed
  <2>1. UNCHANGED <<job, disk, up, store, auto, stolen, held, wrote, rowFails, late>>
    BY <1>24 DEF SaveThrows, documents, requests, history
  <2> QED
    BY <1>24, <2>1 DEF Attributed, ChangesJob, ChangesDisk, ChangesLead, ChangesUp,
       ChangesRun, ChangesStore, ChangesAuto, ChangesTorn, ChangesStolen, ChangesHeld,
       ChangesWrote, ChangesRowFails, ChangesLate
<1>25. ASSUME NEW p \in Procs, MailProgress(p) PROVE Attributed
  <2>1. UNCHANGED <<disk, lead, up, store, auto, torn, stolen, held, wrote, rowFails, late>>
    BY <1>25 DEF MailProgress, documents, requests, history
  <2> QED
    BY <1>25, <2>1 DEF Attributed, ChangesJob, ChangesDisk, ChangesLead, ChangesUp,
       ChangesRun, ChangesStore, ChangesAuto, ChangesTorn, ChangesStolen, ChangesHeld,
       ChangesWrote, ChangesRowFails, ChangesLate
<1>26. ASSUME NEW p \in Procs, Complete(p) PROVE Attributed
  <2>1. UNCHANGED <<disk, lead, up, store, auto, torn, stolen, held, wrote, rowFails, late>>
    BY <1>26 DEF Complete, documents, requests, history
  <2> QED
    BY <1>26, <2>1 DEF Attributed, ChangesJob, ChangesDisk, ChangesLead, ChangesUp,
       ChangesRun, ChangesStore, ChangesAuto, ChangesTorn, ChangesStolen, ChangesHeld,
       ChangesWrote, ChangesRowFails, ChangesLate
<1>27. ASSUME NEW p \in Procs, Release(p) PROVE Attributed
  <2>1. UNCHANGED <<disk, lead, up, store, auto, torn, stolen, held, wrote, rowFails, late>>
    BY <1>27 DEF Release, documents, requests, history
  <2> QED
    BY <1>27, <2>1 DEF Attributed, ChangesJob, ChangesDisk, ChangesLead, ChangesUp,
       ChangesRun, ChangesStore, ChangesAuto, ChangesTorn, ChangesStolen, ChangesHeld,
       ChangesWrote, ChangesRowFails, ChangesLate
<1>28. ASSUME NEW p \in Procs, Discard(p) PROVE Attributed
  <2>1. UNCHANGED <<job, lead, up, store, auto, torn, stolen, held, wrote, rowFails, late>>
    BY <1>28 DEF Discard, documents, requests, history
  <2> QED
    BY <1>28, <2>1 DEF Attributed, ChangesJob, ChangesDisk, ChangesLead, ChangesUp,
       ChangesRun, ChangesStore, ChangesAuto, ChangesTorn, ChangesStolen, ChangesHeld,
       ChangesWrote, ChangesRowFails, ChangesLate
<1>29. ASSUME NEW p \in Procs, Throws(p) PROVE Attributed
  <2>1. UNCHANGED <<job, disk, lead, up, store, auto, torn, stolen, held, wrote, rowFails,
     late>>
    BY <1>29 DEF Throws, documents, requests, history
  <2> QED
    BY <1>29, <2>1 DEF Attributed, ChangesJob, ChangesDisk, ChangesLead, ChangesUp,
       ChangesRun, ChangesStore, ChangesAuto, ChangesTorn, ChangesStolen, ChangesHeld,
       ChangesWrote, ChangesRowFails, ChangesLate
<1>30. ASSUME NEW p \in Procs, RecordFailure(p) PROVE Attributed
  <2>1. UNCHANGED <<disk, lead, up, store, auto, torn, stolen, held, wrote, rowFails, late>>
    BY <1>30 DEF RecordFailure, documents, requests, history
  <2> QED
    BY <1>30, <2>1 DEF Attributed, ChangesJob, ChangesDisk, ChangesLead, ChangesUp,
       ChangesRun, ChangesStore, ChangesAuto, ChangesTorn, ChangesStolen, ChangesHeld,
       ChangesWrote, ChangesRowFails, ChangesLate
<1>31. ASSUME NEW p \in Procs, RecordCancelled(p) PROVE Attributed
  <2>1. UNCHANGED <<disk, lead, up, store, auto, torn, stolen, held, wrote, rowFails, late>>
    BY <1>31 DEF RecordCancelled, documents, requests, history
  <2> QED
    BY <1>31, <2>1 DEF Attributed, ChangesJob, ChangesDisk, ChangesLead, ChangesUp,
       ChangesRun, ChangesStore, ChangesAuto, ChangesTorn, ChangesStolen, ChangesHeld,
       ChangesWrote, ChangesRowFails, ChangesLate
<1>32. ASSUME NEW p \in Procs, RecordThrows(p) PROVE Attributed
  <2>1. UNCHANGED <<job, disk, lead, up, store, auto, torn, stolen, held, wrote, rowFails,
     late>>
    BY <1>32 DEF RecordThrows, documents, requests, history
  <2> QED
    BY <1>32, <2>1 DEF Attributed, ChangesJob, ChangesDisk, ChangesLead, ChangesUp,
       ChangesRun, ChangesStore, ChangesAuto, ChangesTorn, ChangesStolen, ChangesHeld,
       ChangesWrote, ChangesRowFails, ChangesLate
<1>33. ASSUME NEW p \in Procs, Boot(p) PROVE Attributed
  <2>1. UNCHANGED <<disk, lead, run, store, auto, torn, held, wrote, rowFails, late>>
    BY <1>33 DEF Boot, documents, requests, history
  <2> QED
    BY <1>33, <2>1 DEF Attributed, ChangesJob, ChangesDisk, ChangesLead, ChangesUp,
       ChangesRun, ChangesStore, ChangesAuto, ChangesTorn, ChangesStolen, ChangesHeld,
       ChangesWrote, ChangesRowFails, ChangesLate
<1>34. ASSUME NEW p \in Procs, BlindBoot(p) PROVE Attributed
  <2>1. UNCHANGED <<job, disk, lead, run, store, auto, torn, stolen, held, wrote, rowFails,
     late>>
    BY <1>34 DEF BlindBoot, documents, requests, history
  <2> QED
    BY <1>34, <2>1 DEF Attributed, ChangesJob, ChangesDisk, ChangesLead, ChangesUp,
       ChangesRun, ChangesStore, ChangesAuto, ChangesTorn, ChangesStolen, ChangesHeld,
       ChangesWrote, ChangesRowFails, ChangesLate
<1>35. ASSUME NEW p \in Procs, Stop(p) PROVE Attributed
  <2>1. UNCHANGED <<job, disk, lead, run, store, auto, torn, stolen, held, wrote, rowFails,
     late>>
    BY <1>35 DEF Stop, documents, requests, history
  <2> QED
    BY <1>35, <2>1 DEF Attributed, ChangesJob, ChangesDisk, ChangesLead, ChangesUp,
       ChangesRun, ChangesStore, ChangesAuto, ChangesTorn, ChangesStolen, ChangesHeld,
       ChangesWrote, ChangesRowFails, ChangesLate
<1>36. ASSUME NEW p \in Procs, Die(p) PROVE Attributed
  <2>1. UNCHANGED <<job, disk, lead, auto, stolen, held, wrote, rowFails, late>>
    BY <1>36 DEF Die, documents, requests, history
  <2> QED
    BY <1>36, <2>1 DEF Attributed, ChangesJob, ChangesDisk, ChangesLead, ChangesUp,
       ChangesRun, ChangesStore, ChangesAuto, ChangesTorn, ChangesStolen, ChangesHeld,
       ChangesWrote, ChangesRowFails, ChangesLate
<1>37. ASSUME NEW j \in Jobs, LockExpires(j) PROVE Attributed
  <2>1. UNCHANGED <<disk, lead, up, run, store, auto, torn, stolen, held, wrote, rowFails,
     late>>
    BY <1>37 DEF LockExpires, documents, requests, history
  <2> QED
    BY <1>37, <2>1 DEF Attributed, ChangesJob, ChangesDisk, ChangesLead, ChangesUp,
       ChangesRun, ChangesStore, ChangesAuto, ChangesTorn, ChangesStolen, ChangesHeld,
       ChangesWrote, ChangesRowFails, ChangesLate
<1>38. CASE UNCHANGED vars
  BY <1>38 DEF vars, documents, requests, history, Attributed, ChangesJob, ChangesDisk,
     ChangesLead, ChangesUp, ChangesRun, ChangesStore, ChangesAuto, ChangesTorn,
     ChangesStolen, ChangesHeld, ChangesWrote, ChangesRowFails, ChangesLate
<1> QED
  BY <1>1, <1>2, <1>3, <1>4, <1>5, <1>6, <1>7, <1>8, <1>9, <1>10, <1>11, <1>12, <1>13,
     <1>14, <1>15, <1>16, <1>17, <1>18, <1>19, <1>20, <1>21, <1>22, <1>23, <1>24, <1>25,
     <1>edit, <1>26, <1>27, <1>28, <1>29, <1>30, <1>31, <1>32, <1>33, <1>34, <1>35, <1>36, <1>37,
     <1>38
  DEF Next, RequestStep, WorkerStep, ProcessStep, RowStep, MailStep, CloseStep

--------------------------------------------------------------------------------
(* The claim is a lock; a finished job stays finished; its file outlives the *)
(* work on it.                                                               *)

(* A job somebody works on is locked, and nobody else works on it. *)
LockInv ==
  \A p \in Procs : \A j \in Jobs \ stolen : Runs(p, j) =>
    /\ job[j].lock # "none"
    /\ \A q \in Procs : Runs(q, j) => q = p

LEMMA SavedRef ==
  ASSUME TypeOK, WorkerOK, NEW p \in Procs, run[p].pc = "save"
  PROVE  run[p].cur \in Refs /\ run[p].cur \in run[p].todo
BY DEF TypeOK, WorkerOK, SaneWorker, Worker

OwnStep(q) ==
  \/ \E j \in Jobs : Claim(q, j)
  \/ Prepare(q) \/ Compare(q) \/ SkipRow(q) \/ CreateLead(q)
  \/ UpdateLead(q) \/ RowThrows(q) \/ SaveCursor(q) \/ RowProgress(q)
  \/ ListOwed(q) \/ SaveSent(q) \/ SaveThrows(q) \/ MailProgress(q)
  \/ Complete(q) \/ Release(q) \/ Discard(q) \/ Throws(q)
  \/ RecordFailure(q) \/ RecordCancelled(q) \/ RecordThrows(q) \/ Die(q)
  \/ \E r \in Refs : SkipMail(q, r) \/ HoldBack(q, r) \/ Send(q, r) \/ SendRefused(q, r)

(* A worker changes in its own steps only. *)
LEMMA OnlyOwnSteps ==
  ASSUME TypeOK, WorkerOK, Attributed, NEW q \in Procs
  PROVE  run'[q] = run[q] \/ OwnStep(q)
<1>run. run \in [Procs -> Worker]
  BY DEF TypeOK
<1>other. ASSUME NEW p \in Procs, OnlyWorker(p), p # q PROVE run'[q] = run[q]
  BY <1>other DEF OnlyWorker
<1>1. ASSUME NEW p \in Procs, p # q, NEW j \in Jobs, Claim(p, j) PROVE run'[q] = run[q]
  BY <1>1, <1>run, <1>other, ClaimEffect
<1>2. ASSUME NEW p \in Procs, p # q, Prepare(p) \/ Compare(p) \/ RowProgress(p) \/ ListOwed(p)
      PROVE  run'[q] = run[q]
  BY <1>2, <1>run, <1>other, PrepareEffect, CompareEffect, RowProgressEffect, ListOwedEffect,
     UnwindEffect
<1>3. ASSUME NEW p \in Procs, p # q, SkipRow(p) \/ CreateLead(p) \/ UpdateLead(p) \/ RowThrows(p)
      PROVE  run'[q] = run[q]
  BY <1>3, <1>run, <1>other, RowEffect
<1>4. ASSUME NEW p \in Procs, p # q, SaveSent(p) \/ SaveThrows(p) PROVE run'[q] = run[q]
  <2>1. run[p].cur \in Refs
    BY <1>4, SavedRef DEF SaveSent, SaveThrows, At
  <2>2. MovesPast(p, run[p].cur) \/ Unwind(p, "failed")
    BY <1>4, <1>run, <2>1, SaveSentEffect, SaveThrowsEffect
  <2> QED BY <1>4, <1>run, <2>2, <1>other, UnwindEffect DEF MovesPast
<1>5. ASSUME NEW p \in Procs, p # q,
             \/ SaveCursor(p) \/ MailProgress(p) \/ Complete(p) \/ Release(p) \/ Throws(p)
             \/ RecordCancelled(p)
      PROVE  run'[q] = run[q]
  <2>1. \E pc \in Working \cup {"discard"} : Goto(p, pc) \/ Unwind(p, pc)
    BY <1>5 DEF SaveCursor, MailProgress, Complete, Release, Throws, RecordCancelled, Working
  <2> QED BY <1>5, <1>run, <2>1, <1>other, GotoEffect, UnwindEffect
<1>6. ASSUME NEW p \in Procs, p # q, Discard(p) \/ RecordFailure(p) \/ RecordThrows(p) \/ Die(p)
      PROVE  run'[q] = run[q]
  BY <1>6, <1>run, <1>other, IdleEffect DEF Discard, RecordFailure, RecordThrows, Die
<1>7. ASSUME NEW p \in Procs, p # q, NEW r \in Refs,
             SkipMail(p, r) \/ HoldBack(p, r) \/ Send(p, r) \/ SendRefused(p, r)
      PROVE  run'[q] = run[q]
  BY <1>7, <1>run, <1>other, MailEffect, SendEffect DEF MovesPast
<1> QED
  BY <1>1, <1>2, <1>3, <1>4, <1>5, <1>6, <1>7 DEF Attributed, ChangesRun, OwnStep

(* A worker starts on a job by claiming it, and in no other way. *)
LEMMA OnlyClaimStarts ==
  ASSUME TypeOK, WorkerOK, Attributed, NEW q \in Procs, NEW k \in Jobs, Runs(q, k)'
  PROVE  Runs(q, k) \/ Claim(q, k)
<1>run. run \in [Procs -> Worker]
  BY DEF TypeOK
<1>keep. ASSUME NEW p \in Procs, OnlyWorker(p), run'[p].job = run[p].job, run[p].pc \in Working
         PROVE  Runs(q, k)
  BY <1>keep DEF Runs, OnlyWorker
<1>1. CASE UNCHANGED run
  BY <1>1 DEF Runs
<1>2. ASSUME NEW p \in Procs, NEW j \in Jobs, Claim(p, j) PROVE Runs(q, k) \/ Claim(q, k)
  BY <1>2, <1>run, ClaimEffect DEF Runs, OnlyWorker
<1>3. ASSUME NEW p \in Procs, Prepare(p) PROVE Runs(q, k)
  BY <1>3, <1>run, <1>keep, PrepareEffect, UnwindEffect DEF Prepare, At, Keeps, Working
<1>4. ASSUME NEW p \in Procs, Compare(p) PROVE Runs(q, k)
  BY <1>4, <1>run, <1>keep, CompareEffect DEF Compare, At, Keeps, Working
<1>5. ASSUME NEW p \in Procs, SkipRow(p) \/ CreateLead(p) \/ UpdateLead(p) \/ RowThrows(p)
      PROVE  Runs(q, k)
  <2>1. run[p].pc = "rows"
    BY <1>5 DEF SkipRow, CreateLead, UpdateLead, RowThrows, At
  <2>2. OnlyWorker(p) /\ Keeps(p, RowFields)
    BY <1>5, <1>run, RowEffect
  <2> QED BY <1>keep, <2>1, <2>2 DEF Keeps, RowFields, Working
<1>6. ASSUME NEW p \in Procs, RowProgress(p) PROVE Runs(q, k)
  BY <1>6, <1>run, <1>keep, RowProgressEffect, UnwindEffect DEF RowProgress, At, Keeps, Working
<1>7. ASSUME NEW p \in Procs, ListOwed(p) PROVE Runs(q, k)
  BY <1>7, <1>run, <1>keep, ListOwedEffect DEF ListOwed, At, Keeps, ListFields, Working
<1>8. ASSUME NEW p \in Procs, NEW r \in Refs, SkipMail(p, r) \/ HoldBack(p, r) \/ SendRefused(p, r)
      PROVE  Runs(q, k)
  <2>1. run[p].pc = "mail"
    BY <1>8 DEF SkipMail, HoldBack, SendRefused, At
  <2> QED BY <1>8, <1>run, <1>keep, <2>1, MailEffect DEF MovesPast, Keeps, PastLeadFields, Working
<1>9. ASSUME NEW p \in Procs, NEW r \in Refs, Send(p, r) PROVE Runs(q, k)
  BY <1>9, <1>run, <1>keep, SendEffect DEF Send, At, Keeps, PastLeadFields, Working
<1>10. ASSUME NEW p \in Procs, SaveSent(p) \/ SaveThrows(p) PROVE Runs(q, k)
  <2>1. run[p].pc = "save"
    BY <1>10 DEF SaveSent, SaveThrows, At
  <2>2. MovesPast(p, run[p].cur) \/ Unwind(p, "failed")
    BY <1>10, <1>run, <2>1, SavedRef, SaveSentEffect, SaveThrowsEffect
  <2> QED BY <1>run, <1>keep, <2>1, <2>2, UnwindEffect DEF MovesPast, Keeps, PastLeadFields, Working
<1>11. ASSUME NEW p \in Procs, NEW pc, Goto(p, pc), run[p].pc \in Working PROVE Runs(q, k)
  BY <1>11, <1>run, <1>keep, GotoEffect DEF Keeps
<1>12. ASSUME NEW p \in Procs, NEW pc, Unwind(p, pc), run[p].pc \in Working PROVE Runs(q, k)
  BY <1>12, <1>run, <1>keep, UnwindEffect DEF Keeps
<1>13. ASSUME NEW p \in Procs,
              SaveCursor(p) \/ MailProgress(p) \/ Complete(p) \/ Release(p) \/ RecordCancelled(p)
       PROVE  Runs(q, k)
  BY <1>13, <1>11, <1>12
  DEF SaveCursor, MailProgress, Complete, Release, RecordCancelled, At, Working
<1>14. ASSUME NEW p \in Procs, Throws(p) PROVE Runs(q, k)
  BY <1>14, <1>12 DEF Throws, Working
<1>15. ASSUME NEW p \in Procs, Discard(p) \/ RecordFailure(p) \/ RecordThrows(p) \/ Die(p)
       PROVE  Runs(q, k)
  BY <1>15, <1>run, IdleEffect
  DEF Discard, RecordFailure, RecordThrows, Die, Runs, OnlyWorker, Working
<1> QED
  BY <1>1, <1>2, <1>3, <1>4, <1>5, <1>6, <1>7, <1>8, <1>9, <1>10, <1>13, <1>14, <1>15
  DEF Attributed, ChangesRun

(* A lock is given back by a worker that leaves the job, or by a boot that takes it. *)
LEMMA WhoUnlocks ==
  ASSUME TypeOK, WorkerOK, Attributed, NEW k \in Jobs, job[k].lock # "none", job'[k].lock = "none"
  PROVE  \/ \E p \in Procs : /\ Runs(p, k)
                             /\ \A q \in Procs : Runs(q, k)' => q # p
         \/ k \in Interrupted /\ \E p \in Procs : Boot(p)
<1>run. run \in [Procs -> Worker]
  BY DEF TypeOK
<1>job. job \in [Jobs -> JobDoc]
  BY DEF TypeOK
<1>1. ASSUME NEW p \in Procs, NEW j \in Jobs, Upload(p, j) \/ Claim(p, j) PROVE FALSE
  BY <1>1, <1>job DEF Upload, Claim, JobDoc
<1>2. ASSUME NEW j \in Jobs, StoreFile(j) \/ StoreFails(j) \/ CancelWrite(j) \/ LockExpires(j)
      PROVE  FALSE
  BY <1>2, <1>job DEF StoreFile, StoreFails, CancelWrite, LockExpires, JobDoc
<1>3. ASSUME NEW p \in Procs, SaveCursor(p) \/ RowProgress(p) \/ MailProgress(p) PROVE FALSE
  <2>1. \/ job' = [job EXCEPT ![run[p].job].cursor = run[p].at]
        \/ job' = [job EXCEPT ![run[p].job].lock = "held"]
    BY <1>3 DEF SaveCursor, RowProgress, MailProgress
  <2> QED BY <2>1, <1>job DEF JobDoc
<1>4. ASSUME NEW p \in Procs, Complete(p) PROVE FALSE
  <2>1. \E s \in {"partial", "completed"} : job' = [job EXCEPT ![run[p].job].status = s]
    BY <1>4 DEF Complete
  <2> QED BY <2>1, <1>job DEF JobDoc
<1>5. ASSUME NEW p \in Procs, Release(p) \/ RecordFailure(p) \/ RecordCancelled(p)
      PROVE  Runs(p, k) /\ \A q \in Procs : Runs(q, k)' => q # p
  <2>1. \E s \in {"failed", "cancelled", job[run[p].job].status} :
          job' = [job EXCEPT ![run[p].job].status = s, ![run[p].job].lock = "none"]
    BY <1>5, <1>job DEF Release, RecordFailure, RecordCancelled, JobDoc
  <2>2. run[p].job = k
    BY <2>1, <1>job DEF JobDoc
  <2>3. run'[p].pc \in {"discard", "idle"}
    BY <1>5, <1>run, GotoEffect, IdleEffect DEF Release, RecordFailure, RecordCancelled
  <2> QED BY <1>5, <2>2, <2>3 DEF Release, RecordFailure, RecordCancelled, Runs, At, Working
<1>6. ASSUME NEW p \in Procs, Boot(p) PROVE k \in Interrupted
  BY <1>6, <1>job DEF Boot, Requeued
<1> QED BY <1>1, <1>2, <1>3, <1>4, <1>5, <1>6 DEF Attributed, ChangesJob

LEMMA LockStep ==
  ASSUME TypeOK, WorkerOK, LockInv, Attributed
  PROVE  LockInv'
<1>stolen. stolen \subseteq stolen'
  BY DEF Attributed, ChangesStolen, Claim, Boot
<1> SUFFICES ASSUME NEW p \in Procs, NEW j \in Jobs, j \notin stolen', Runs(p, j)'
             PROVE  /\ job'[j].lock # "none"
                    /\ \A q \in Procs : Runs(q, j)' => q = p
  BY DEF LockInv
<1>1. CASE Claim(p, j)
  <2>1. OnlyWorker(p) /\ run'[p].pc = "load" /\ run[p].pc = "idle"
    BY <1>1, ClaimEffect DEF TypeOK, Claim
  <2>2. job'[j].lock = "held"
    BY <1>1 DEF Claim, TypeOK, JobDoc
  <2>3. ASSUME NEW q \in Procs, q # p, Claim(q, j) PROVE FALSE
    BY <2>1, <2>3, ClaimEffect DEF TypeOK, OnlyWorker
  <2>4. ASSUME NEW q \in Procs, Runs(q, j) PROVE FALSE
    BY <1>1, <1>stolen, <2>4 DEF Claim, Claimable, LockFree, LockInv
  <2> QED BY <2>2, <2>3, <2>4, OnlyClaimStarts
<1>2. CASE Runs(p, j)
  <2>1. job[j].lock # "none" /\ \A q \in Procs : Runs(q, j) => q = p
    BY <1>2, <1>stolen DEF LockInv
  <2>2. job'[j].lock # "none"
    <3>1. j \in Interrupted => ~ \E q \in Procs : Boot(q)
      BY <1>2 DEF Boot
    <3> QED BY <2>1, <3>1, WhoUnlocks
  <2>3. ASSUME NEW q \in Procs, Claim(q, j) PROVE FALSE
    BY <1>2, <1>stolen, <2>1, <2>3 DEF Claim, Claimable, LockFree
  <2> QED BY <2>1, <2>2, <2>3, OnlyClaimStarts
<1> QED BY <1>1, <1>2, OnlyClaimStarts

LEMMA LockCorrect == Spec => []LockInv
<1>1. Init => LockInv
  BY DEF Init, LockInv, Runs, IdleRun, Working
<1>2. TypeOK /\ WorkerOK /\ LockInv /\ [Next]_vars => LockInv'
  BY LockStep, WhoChanges
<1> QED BY <1>1, <1>2, TypeCorrect, PTL DEF Spec

(* claimNextJob: two workers are never on one job, unless it was taken from a live one. *)
THEOREM OneRunnerHolds == Spec => []OneRunner
<1>1. LockInv => OneRunner
  BY DEF LockInv, OneRunner
<1> QED BY <1>1, LockCorrect, PTL

-------------------------------------------------------------------------------
(* A finished job stays finished, and its file goes no earlier.              *)

(* What one step may make of a job's status, its claim to a file and its cancel flag. *)
LEMMA JobMoves ==
  ASSUME TypeOK, Attributed, NEW j \in Jobs
  PROVE  /\ \/ job'[j].status = job[j].status
            \/ job'[j].status \in Terminal
            \/ job[j].status \in InFlight /\ job'[j].status \in InFlight
            \/ job[j].status = "absent" /\ \E p \in Procs : Upload(p, j)
         /\ job'[j].file = job[j].file \/ StoreFile(j)
         /\ job[j].cancelReq => job'[j].cancelReq
<1>job. job \in [Jobs -> JobDoc]
  BY DEF TypeOK
<1> DEFINE Goal ==
             /\ \/ job'[j].status = job[j].status
                \/ job'[j].status \in Terminal
                \/ job[j].status \in InFlight /\ job'[j].status \in InFlight
                \/ job[j].status = "absent" /\ \E p \in Procs : Upload(p, j)
             /\ job'[j].file = job[j].file \/ StoreFile(j)
             /\ job[j].cancelReq => job'[j].cancelReq
<1>1. ASSUME NEW p \in Procs, NEW k \in Jobs, Upload(p, k) PROVE Goal
  BY <1>1, <1>job DEF Upload, JobDoc
<1>2. ASSUME NEW p \in Procs, NEW k \in Jobs, Claim(p, k) PROVE Goal
  BY <1>2, <1>job DEF Claim, Claimable, InFlight, JobDoc
<1>3. ASSUME NEW k \in Jobs, StoreFile(k) PROVE Goal
  BY <1>3, <1>job DEF StoreFile, JobDoc
<1>4. ASSUME NEW k \in Jobs, StoreFails(k) \/ CancelWrite(k) \/ LockExpires(k) PROVE Goal
  BY <1>4, <1>job DEF StoreFails, CancelWrite, LockExpires, JobDoc, Terminal
<1>5. ASSUME NEW p \in Procs, SaveCursor(p) PROVE Goal
  BY <1>5, <1>job DEF SaveCursor, JobDoc
<1>6. ASSUME NEW p \in Procs, RowProgress(p) \/ MailProgress(p) \/ Release(p) PROVE Goal
  <2>1. \E l \in {"held", "none"} : job' = [job EXCEPT ![run[p].job].lock = l]
    BY <1>6 DEF RowProgress, MailProgress, Release
  <2> QED BY <2>1, <1>job DEF JobDoc
<1>7. ASSUME NEW p \in Procs, Complete(p) PROVE Goal
  <2>1. \E s \in {"partial", "completed"} : job' = [job EXCEPT ![run[p].job].status = s]
    BY <1>7 DEF Complete
  <2> QED BY <2>1, <1>job DEF JobDoc, Terminal
<1>8. ASSUME NEW p \in Procs, RecordFailure(p) \/ RecordCancelled(p) PROVE Goal
  BY <1>8, <1>job DEF RecordFailure, RecordCancelled, JobDoc, Terminal
<1>9. ASSUME NEW p \in Procs, Boot(p) PROVE Goal
  BY <1>9, <1>job DEF Boot, Requeued, Interrupted, InFlight, JobDoc
<1> QED
  BY <1>1, <1>2, <1>3, <1>4, <1>5, <1>6, <1>7, <1>8, <1>9 DEF Attributed, ChangesJob

(* claimNextJob, recoverInterruptedJobs, cancel: none of them puts a finished job back. *)
THEOREM TerminalIsFinalHolds == Spec => TerminalIsFinal
<1>1. TypeOK /\ WorkerOK /\ [Next]_vars
        => \A j \in Jobs : job[j].status \in Terminal => job'[j].status \in Terminal
  BY WhoChanges, JobMoves DEF Terminal, InFlight
<1>2. TypeOK /\ WorkerOK /\ [Next]_vars
        => [\A j \in Jobs : job[j].status \in Terminal => job'[j].status \in Terminal]_vars
  BY <1>1
<1> QED BY <1>2, TypeCorrect, PTL DEF Spec, TerminalIsFinal

(* A worker that has closed its job left the job finished. *)
Closed(w) == w.pc \in {"release", "discard"} => job[w.job].status \in Terminal

FileInv ==
  /\ \A p \in Procs : Closed(run[p])
  /\ \A j \in Jobs : job[j].status = "absent" => ~job[j].file /\ store[j] = None
  /\ FileKept

(* A worker closes its job by completing it, or by recording that it was cancelled. *)
LEMMA WhoCloses ==
  ASSUME TypeOK, WorkerOK, Attributed, NEW q \in Procs, run'[q].pc \in {"release", "discard"}
  PROVE  /\ run'[q].job = run[q].job
         /\ \/ run'[q] = run[q]
            \/ Complete(q) \/ Release(q) \/ RecordCancelled(q)
<1>run. run \in [Procs -> Worker]
  BY DEF TypeOK
<1>other. ASSUME NEW p \in Procs, OnlyWorker(p), run'[p].pc \notin {"release", "discard"}
          PROVE  run'[q] = run[q]
  BY <1>other DEF OnlyWorker
<1>off. ASSUME NEW p \in Procs, NEW pc \in {"cancelled", "failed"}, Unwind(p, pc)
        PROVE  run'[q] = run[q]
  BY <1>off, <1>run, <1>other, UnwindEffect
<1>1. CASE UNCHANGED run
  BY <1>1
<1>2. ASSUME NEW p \in Procs, NEW j \in Jobs, Claim(p, j) PROVE run'[q] = run[q]
  BY <1>2, <1>run, <1>other, ClaimEffect
<1>3. ASSUME NEW p \in Procs, Prepare(p) PROVE run'[q] = run[q]
  BY <1>3, <1>run, <1>other, <1>off, PrepareEffect
<1>4. ASSUME NEW p \in Procs, Compare(p) PROVE run'[q] = run[q]
  BY <1>4, <1>run, <1>other, CompareEffect
<1>5. ASSUME NEW p \in Procs, SkipRow(p) \/ CreateLead(p) \/ UpdateLead(p) \/ RowThrows(p)
      PROVE  run'[q] = run[q]
  <2>1. run[p].pc = "rows"
    BY <1>5 DEF SkipRow, CreateLead, UpdateLead, RowThrows, At
  <2> QED BY <1>5, <2>1, <1>run, <1>other, RowEffect DEF Keeps, RowFields
<1>6. ASSUME NEW p \in Procs, RowProgress(p) PROVE run'[q] = run[q]
  BY <1>6, <1>run, <1>other, <1>off, RowProgressEffect
<1>7. ASSUME NEW p \in Procs, ListOwed(p) PROVE run'[q] = run[q]
  BY <1>7, <1>run, <1>other, ListOwedEffect
<1>8. ASSUME NEW p \in Procs, NEW r \in Refs, SkipMail(p, r) \/ HoldBack(p, r) \/ SendRefused(p, r)
      PROVE  run'[q] = run[q]
  BY <1>8, <1>run, <1>other, MailEffect DEF MovesPast
<1>9. ASSUME NEW p \in Procs, NEW r \in Refs, Send(p, r) PROVE run'[q] = run[q]
  BY <1>9, <1>run, <1>other, SendEffect
<1>10. ASSUME NEW p \in Procs, SaveSent(p) \/ SaveThrows(p) PROVE run'[q] = run[q]
  <2>1. run[p].cur \in Refs
    BY <1>10, SavedRef DEF SaveSent, SaveThrows, At
  <2> QED BY <1>10, <1>run, <2>1, <1>other, <1>off, SaveSentEffect, SaveThrowsEffect DEF MovesPast
<1>11. ASSUME NEW p \in Procs, SaveCursor(p) PROVE run'[q] = run[q]
  BY <1>11, <1>run, <1>other, GotoEffect DEF SaveCursor
<1>12. ASSUME NEW p \in Procs, MailProgress(p) \/ Throws(p) PROVE run'[q] = run[q]
  <2>1. CASE \E pc \in {"cancelled", "failed"} : Unwind(p, pc)
    BY <2>1, <1>off
  <2>2. CASE \E pc \in {"complete", "mail"} : Goto(p, pc)
    BY <2>2, <1>run, <1>other, GotoEffect
  <2> QED BY <1>12, <2>1, <2>2 DEF MailProgress, Throws
<1>13. ASSUME NEW p \in Procs, Complete(p) \/ Release(p) \/ RecordCancelled(p)
       PROVE  /\ run'[q].job = run[q].job
              /\ run'[q] = run[q] \/ p = q
  <2>1. \E pc \in {"release", "discard"} : Unwind(p, pc) \/ Goto(p, pc)
    BY <1>13 DEF Complete, Release, RecordCancelled
  <2> QED BY <2>1, <1>run, UnwindEffect, GotoEffect DEF OnlyWorker, Keeps
<1>14. ASSUME NEW p \in Procs, Discard(p) \/ RecordFailure(p) \/ RecordThrows(p) \/ Die(p)
       PROVE  run'[q] = run[q]
  BY <1>14, <1>run, <1>other, IdleEffect DEF Discard, RecordFailure, RecordThrows, Die
<1> QED
  BY <1>1, <1>2, <1>3, <1>4, <1>5, <1>6, <1>7, <1>8, <1>9, <1>10, <1>11, <1>12, <1>13, <1>14
  DEF Attributed, ChangesRun

LEMMA FileStep ==
  ASSUME TypeOK, WorkerOK, FileInv, Attributed
  PROVE  FileInv'
<1>job. job \in [Jobs -> JobDoc]
  BY DEF TypeOK
<1>final. \A j \in Jobs : job[j].status \in Terminal => job'[j].status \in Terminal
  BY JobMoves DEF Terminal, InFlight
<1>1. ASSUME NEW q \in Procs PROVE Closed(run[q])'
  <2> SUFFICES ASSUME run'[q].pc \in {"release", "discard"}
               PROVE  job'[run'[q].job].status \in Terminal
    BY DEF Closed
  <2>1. run'[q].job = run[q].job
    BY WhoCloses
  <2>2. CASE run'[q] = run[q]
    BY <2>2, <1>final DEF FileInv, Closed, WorkerOK, SaneWorker
  <2>3. CASE Release(q)
    BY <2>1, <2>3, <1>final DEF FileInv, Closed, Release, At, WorkerOK, SaneWorker
  <2>4. CASE Complete(q)
    <3>1. run[q].job \in Jobs
      BY <2>4 DEF Complete, At, WorkerOK, SaneWorker
    <3>2. \E s \in {"partial", "completed"} : job' = [job EXCEPT ![run[q].job].status = s]
      BY <2>4 DEF Complete
    <3> QED BY <2>1, <3>1, <3>2, <1>job DEF JobDoc, Terminal
  <2>5. CASE RecordCancelled(q)
    <3>1. run[q].job \in Jobs
      BY <2>5 DEF RecordCancelled, At, WorkerOK, SaneWorker
    <3> QED BY <2>1, <2>5, <3>1, <1>job DEF RecordCancelled, JobDoc, Terminal
  <2> QED BY <2>2, <2>3, <2>4, <2>5, WhoCloses
<1>2. ASSUME NEW j \in Jobs, job'[j].status = "absent" PROVE ~job'[j].file /\ store'[j] = None
  <2>1. ASSUME NEW p \in Procs, Upload(p, j) PROVE FALSE
    BY <1>2, <2>1, <1>job DEF Upload, JobDoc
  <2>2. job[j].status = "absent"
    BY <1>2, <2>1, JobMoves DEF Terminal, InFlight
  <2>3. ~job[j].file /\ store[j] = None
    BY <2>2 DEF FileInv
  <2>4. ~StoreFile(j)
    BY <2>3 DEF StoreFile
  <2>5. store'[j] = None
    <3>1. ASSUME NEW p \in Procs, NEW k \in Jobs, k # j, Upload(p, k) PROVE store'[j] = store[j]
      BY <3>1 DEF Upload, TypeOK
    <3>2. ASSUME NEW k \in Jobs, StoreFile(k) \/ StoreFails(k) PROVE store'[j] \in {store[j], None}
      BY <3>2 DEF StoreFile, StoreFails, TypeOK
    <3>3. ASSUME NEW p \in Procs, Die(p) PROVE store'[j] \in {store[j], None}
      BY <3>3 DEF Die
    <3> QED BY <2>1, <2>3, <3>1, <3>2, <3>3 DEF Attributed, ChangesStore
  <2> QED BY <2>3, <2>4, <2>5, JobMoves
<1>3. ASSUME NEW j \in Jobs, job'[j].file, job'[j].status \in InFlight PROVE j \in disk'
  <2>1. CASE StoreFile(j)
    BY <2>1 DEF StoreFile
  <2>2. CASE ~StoreFile(j)
    <3>1. job[j].file
      BY <1>3, <2>2, JobMoves
    <3>2. job[j].status \in InFlight
      BY <1>3, <3>1, JobMoves DEF FileInv, Terminal, InFlight
    <3>3. j \in disk
      BY <3>1, <3>2 DEF FileInv, FileKept
    <3>4. ASSUME NEW p \in Procs, Discard(p) PROVE disk' = disk \/ run[p].job # j
      BY <3>2, <3>4 DEF Discard, At, FileInv, Closed, Terminal, InFlight
    <3>5. ASSUME NEW p \in Procs, Discard(p) PROVE disk \ {run[p].job} \subseteq disk'
      BY <3>5 DEF Discard
    <3>6. ASSUME NEW k \in Jobs, StoreFile(k) \/ StoreFails(k) PROVE disk \subseteq disk'
      BY <3>6 DEF StoreFile, StoreFails
    <3> QED BY <3>3, <3>4, <3>5, <3>6 DEF Attributed, ChangesDisk
  <2> QED BY <2>1, <2>2
<1> QED BY <1>1, <1>2, <1>3 DEF FileInv, FileKept

(* discardFile: a job the worker may still pick up has its workbook, if it ever had. *)
THEOREM FileKeptHolds == Spec => []FileKept
<1>1. Init => FileInv
  BY DEF Init, FileInv, FileKept, Closed, IdleRun, InFlight
<1>2. TypeOK /\ WorkerOK /\ FileInv /\ [Next]_vars => FileInv'
  BY FileStep, WhoChanges
<1>3. FileInv => FileKept
  BY DEF FileInv
<1> QED BY <1>1, <1>2, <1>3, TypeCorrect, PTL DEF Spec

--------------------------------------------------------------------------------
(* The resume point never runs ahead of the work, a cancel ends it within a  *)
(* chunk, and a run in one process keeps the contract of its job.            *)

Settled(j, i) ==
  IsInvalid(j, i) \/ lead[RefOf(j, i)].exists \/ <<j, i>> \in rowFails

(* A worker in the row loop has settled every row up to its place, and a row it did not
   take for new, or took for changed, has its lead. *)
RowsDone(w) ==
  w.pc \in {"rows", "progress"} =>
    /\ w.start \in Nat /\ w.at \in Nat /\ w.at <= Len(Sheet[w.job])
    /\ \A i \in 1..w.at : Settled(w.job, i)
    /\ \A i \in Rows(w.job) :
         i \notin w.fresh \/ i \in w.changed => IsInvalid(w.job, i) \/ lead[RefOf(w.job, i)].exists

RowInv == \A p \in Procs : RowsDone(run[p])

(* A lead, once created, stays; and so does the record of a row that threw. *)
LEMMA LeadsStay ==
  ASSUME TypeOK, WorkerOK, Attributed
  PROVE  /\ \A r \in Refs : lead[r].exists => lead'[r].exists
         /\ rowFails \subseteq rowFails'
<1>lead. lead \in [Refs -> LeadDoc]
  BY DEF TypeOK
<1>1. \A r \in Refs : lead[r].exists => lead'[r].exists
  <2>1. ASSUME NEW r \in Refs, OptOut(r) \/ ResendSave(r)
        PROVE  \A q \in Refs : lead[q].exists => lead'[q].exists
    BY <2>1, <1>lead DEF OptOut, ResendSave, LeadDoc
  <2>edit. ASSUME NEW r \in Refs, Edit(r)
           PROVE  \A q \in Refs : lead[q].exists => lead'[q].exists
    BY <2>edit, EditEffect
  <2>2. ASSUME NEW p \in Procs, CreateLead(p)
        PROVE  \A q \in Refs : lead[q].exists => lead'[q].exists
    BY <2>2, <1>lead DEF CreateLead, LeadDoc
  <2>5. ASSUME NEW p \in Procs, UpdateLead(p)
        PROVE  \A q \in Refs : lead[q].exists => lead'[q].exists
    BY <2>5, UpdateEffect
  <2>4. ASSUME NEW p \in Procs, SaveSent(p) \/ SaveThrows(p)
        PROVE  \A q \in Refs : lead[q].exists => lead'[q].exists
    <3>1. \/ UNCHANGED lead
          \/ \E s \in {"sent", "failed"} : lead' = [lead EXCEPT ![run[p].cur].status = s]
      BY <2>4 DEF SaveSent, SaveThrows
    <3> QED BY <3>1, <1>lead DEF LeadDoc
  <2>3. ASSUME NEW p \in Procs, NEW r \in Refs, SkipMail(p, r) \/ SendRefused(p, r)
        PROVE  \A q \in Refs : lead[q].exists => lead'[q].exists
    BY <2>3, <1>lead DEF SkipMail, SendRefused, LeadDoc
  <2> QED BY <2>1, <2>edit, <2>2, <2>3, <2>4, <2>5 DEF Attributed, ChangesLead
<1>2. rowFails \subseteq rowFails'
  BY DEF Attributed, ChangesRowFails, RowThrows
<1> QED BY <1>1, <1>2

LEMMA SettledStays ==
  ASSUME TypeOK, WorkerOK, Attributed, NEW j \in Jobs, NEW i \in Rows(j)
  PROVE  /\ Settled(j, i) => Settled(j, i)'
         /\ IsInvalid(j, i) \/ lead[RefOf(j, i)].exists
              => IsInvalid(j, i) \/ lead'[RefOf(j, i)].exists
<1>1. ~IsInvalid(j, i) => RefOf(j, i) \in Refs
  BY ValidRef
<1> QED BY <1>1, LeadsStay DEF Settled

(* Only a worker's cursor step moves the cursor, and only to the worker's place. *)
LEMMA CursorMoves ==
  ASSUME TypeOK, WorkerOK, Attributed, NEW j \in Jobs
  PROVE  \/ job'[j].cursor = job[j].cursor
         \/ \E p \in Procs : SaveCursor(p) /\ run[p].job = j /\ job'[j].cursor = run[p].at
<1>job. job \in [Jobs -> JobDoc]
  BY DEF TypeOK
<1>1. ASSUME NEW p \in Procs, NEW k \in Jobs, Upload(p, k) \/ Claim(p, k)
      PROVE  job'[j].cursor = job[j].cursor
  BY <1>1, <1>job DEF Upload, Claim, JobDoc
<1>2. ASSUME NEW k \in Jobs, StoreFile(k) \/ StoreFails(k) \/ CancelWrite(k) \/ LockExpires(k)
      PROVE  job'[j].cursor = job[j].cursor
  BY <1>2, <1>job DEF StoreFile, StoreFails, CancelWrite, LockExpires, JobDoc
<1>3. ASSUME NEW p \in Procs, RowProgress(p) \/ MailProgress(p) \/ Release(p)
      PROVE  job'[j].cursor = job[j].cursor
  <2>1. \E l \in {"held", "none"} : job' = [job EXCEPT ![run[p].job].lock = l]
    BY <1>3 DEF RowProgress, MailProgress, Release
  <2> QED BY <2>1, <1>job DEF JobDoc
<1>6. ASSUME NEW p \in Procs, RecordFailure(p) \/ RecordCancelled(p)
      PROVE  job'[j].cursor = job[j].cursor
  BY <1>6, <1>job DEF RecordFailure, RecordCancelled, JobDoc
<1>7. ASSUME NEW p \in Procs, Complete(p) PROVE job'[j].cursor = job[j].cursor
  <2>1. \E s \in {"partial", "completed"} : job' = [job EXCEPT ![run[p].job].status = s]
    BY <1>7 DEF Complete
  <2> QED BY <2>1, <1>job DEF JobDoc
<1>4. ASSUME NEW p \in Procs, Boot(p) PROVE job'[j].cursor = job[j].cursor
  BY <1>4, <1>job DEF Boot, Requeued, JobDoc
<1>5. ASSUME NEW p \in Procs, SaveCursor(p)
      PROVE  job'[j].cursor = IF run[p].job = j THEN run[p].at ELSE job[j].cursor
  BY <1>5, <1>job DEF SaveCursor, JobDoc
<1> QED BY <1>1, <1>2, <1>3, <1>4, <1>5, <1>6, <1>7 DEF Attributed, ChangesJob

LEMMA RowStepOK ==
  ASSUME TypeOK, WorkerOK, CursorSound, RowInv, Attributed
  PROVE  RowInv'
<1>run. run \in [Procs -> Worker]
  BY DEF TypeOK
<1> DEFINE Walking(q) == run[q].pc \in {"rows", "progress"}
<1>stay. ASSUME NEW q \in Procs, run'[q] = run[q] PROVE RowsDone(run[q])'
  <2> SUFFICES ASSUME Walking(q) PROVE RowsDone(run[q])'
    BY <1>stay DEF RowsDone
  <2>1. run[q].job \in Jobs
    BY DEF WorkerOK, SaneWorker
  <2>2. 1..run[q].at \subseteq Rows(run[q].job)
    BY <2>1, SheetType DEF RowInv, RowsDone
  <2> QED BY <1>stay, <2>1, <2>2, SettledStays DEF RowInv, RowsDone
<1>put. ASSUME NEW p \in Procs, OnlyWorker(p), RowsDone(run[p])' PROVE RowInv'
  BY <1>put, <1>stay DEF RowInv, OnlyWorker
<1>out. ASSUME NEW p \in Procs, OnlyWorker(p), run'[p].pc \notin {"rows", "progress"} PROVE RowInv'
  BY <1>out, <1>put DEF RowsDone
<1>1. CASE UNCHANGED run
  BY <1>1, <1>stay DEF RowInv
<1>off. ASSUME NEW p \in Procs, NEW pc \in {"release", "cancelled", "failed"}, Unwind(p, pc)
        PROVE  RowInv'
  BY <1>off, <1>run, <1>out, UnwindEffect
<1>2. ASSUME NEW p \in Procs, NEW j \in Jobs, Claim(p, j) PROVE RowInv'
  BY <1>2, <1>run, <1>out, ClaimEffect
<1>3. ASSUME NEW p \in Procs, Prepare(p) PROVE RowInv'
  BY <1>3, <1>run, <1>out, <1>off, PrepareEffect
<1>4. ASSUME NEW p \in Procs, Compare(p) PROVE RowInv'
  <2> DEFINE j == run[p].job
  <2>1. j \in Jobs
    BY <1>4 DEF Compare, At, WorkerOK, SaneWorker
  <2>2. /\ OnlyWorker(p) /\ run'[p].job = j /\ run'[p].fresh = NewRows(j)
        /\ run'[p].changed = UpdatedRows(j)
        /\ run'[p].start = job[j].cursor /\ run'[p].at = job[j].cursor
    BY <1>4, <1>run, CompareEffect DEF Keeps, ResumeFrom
  <2>3. job[j].cursor \in Nat /\ job[j].cursor <= Len(Sheet[j]) /\ Len(Sheet[j]) \in Nat
    BY <2>1, SheetType DEF TypeOK, JobDoc, CursorSound
  <2>4. \A i \in 1..job[j].cursor : i \in Rows(j) /\ Settled(j, i)
    BY <2>1, <2>3, SheetType DEF CursorSound, Settled
  <2>5. \A i \in Rows(j) : i \notin NewRows(j) \/ i \in UpdatedRows(j)
                             => IsInvalid(j, i) \/ lead[RefOf(j, i)].exists
    BY DEF NewRows, UpdatedRows
  <2>6. RowsDone(run[p])'
    BY <2>1, <2>2, <2>3, <2>4, <2>5, SettledStays DEF RowsDone
  <2> QED BY <1>put, <2>2, <2>6
<1>5. ASSUME NEW p \in Procs, SkipRow(p) \/ CreateLead(p) \/ UpdateLead(p) \/ RowThrows(p)
      PROVE  RowInv'
  <2>1. At(p, "rows") /\ run[p].at < ChunkEnd(p)
    BY <1>5 DEF SkipRow, CreateLead, UpdateLead, RowThrows
  <2>j. PICK j \in Jobs : j = run[p].job
    BY <2>1 DEF At, WorkerOK, SaneWorker
  <2>2. Len(Sheet[j]) \in Nat /\ Rows(j) = 1..Len(Sheet[j])
    BY SheetType
  <2>i. PICK i \in Rows(j) : i = run[p].at + 1
    BY <2>1, <2>j, <2>2, <1>run, ReadyRow DEF Worker
  <2>3. run[p].at \in Nat /\ i <= Len(Sheet[j])
    BY <2>2, <2>i, <1>run DEF Worker
  <2>4. /\ OnlyWorker(p) /\ Keeps(p, RowFields) /\ run'[p].at = i
    BY <1>5, <1>run, <2>i, RowEffect
  <2>5. RowsDone(run[p]) /\ run[p].pc = "rows"
    BY <2>1 DEF RowInv, At
  <2>6. Settled(j, i)'
    <3>1. CASE SkipRow(p) \/ UpdateLead(p)
      <4>1. i \notin run[p].fresh \/ i \in run[p].changed
        BY <3>1, <2>i DEF SkipRow, UpdateLead
      <4>2. IsInvalid(j, i) \/ lead[RefOf(j, i)].exists
        BY <2>j, <2>5, <4>1 DEF RowsDone
      <4> QED BY <4>2, SettledStays DEF Settled
    <3>2. CASE CreateLead(p)
      <4>1. ~IsInvalid(j, i)
        BY <3>2, <2>j, <2>i DEF CreateLead, WorkerOK, SaneWorker
      <4>2. RefOf(j, i) \in Refs
        BY <4>1, ValidRef
      <4> DEFINE r == RefOf(j, i)
                 v == Sheet[j][i].val
      <4>3. lead' = [lead EXCEPT ![r].exists = TRUE, ![r].val = v, ![r].first = j]
        BY <3>2, <2>j, <2>i DEF CreateLead
      <4>4. lead'[r].exists
        <5> HIDE DEF r, v
        <5> QED BY <4>2, <4>3 DEF TypeOK, LeadDoc, r
      <4> QED BY <4>4 DEF Settled
    <3>3. CASE RowThrows(p)
      BY <3>3, <2>j, <2>i DEF RowThrows, Settled
    <3> QED BY <1>5, <3>1, <3>2, <3>3
  <2>7. \A k \in 1..i : Settled(j, k)'
    <3>1. \A k \in 1..run[p].at : k \in Rows(j) /\ Settled(j, k)
      BY <2>j, <2>2, <2>3, <2>5 DEF RowsDone
    <3>2. \A k \in 1..i : k \in 1..run[p].at \/ k = i
      BY <2>3, <2>i
    <3>3. \A k \in 1..run[p].at : Settled(j, k)'
      BY <2>2, <3>1, SettledStays
    <3> QED BY <2>6, <3>2, <3>3
  <2>8. RowsDone(run[p])'
    BY <2>j, <2>i, <2>2, <2>3, <2>4, <2>5, <2>7, SettledStays DEF RowsDone, Keeps, RowFields
  <2> QED BY <1>put, <2>4, <2>8
<1>6. ASSUME NEW p \in Procs, SaveCursor(p) PROVE RowInv'
  <2>1. RowsDone(run[p]) /\ run[p].pc = "rows" /\ run[p].job \in Jobs
    BY <1>6 DEF SaveCursor, At, RowInv, WorkerOK, SaneWorker
  <2>2. /\ OnlyWorker(p) /\ run'[p].pc = "progress"
        /\ Keeps(p, {"job", "fresh", "changed", "start", "at"})
    BY <1>6, <1>run, GotoEffect DEF SaveCursor, Keeps
  <2>3. 1..run[p].at \subseteq Rows(run[p].job)
    BY <2>1, SheetType DEF RowsDone
  <2>4. RowsDone(run[p])'
    BY <2>1, <2>2, <2>3, SettledStays DEF RowsDone, Keeps
  <2> QED BY <1>put, <2>2, <2>4
<1>7. ASSUME NEW p \in Procs, RowProgress(p) PROVE RowInv'
  <2>1. RowsDone(run[p]) /\ run[p].pc = "progress" /\ run[p].job \in Jobs
    BY <1>7 DEF RowProgress, At, RowInv, WorkerOK, SaneWorker
  <2>2. CASE Unwind(p, "cancelled")
    BY <2>2, <1>off
  <2>3. CASE ~Unwind(p, "cancelled")
    <3>1. /\ OnlyWorker(p) /\ Keeps(p, {"job", "fresh", "changed", "at"})
          /\ run'[p].start = run[p].at
      BY <1>7, <1>run, <2>3, RowProgressEffect DEF Keeps
    <3>2. 1..run[p].at \subseteq Rows(run[p].job)
      BY <2>1, SheetType DEF RowsDone
    <3>3. RowsDone(run[p])'
      BY <2>1, <3>1, <3>2, SettledStays DEF RowsDone, Keeps
    <3> QED BY <1>put, <3>1, <3>3
  <2> QED BY <2>2, <2>3
<1>8. ASSUME NEW p \in Procs, ListOwed(p) PROVE RowInv'
  BY <1>8, <1>run, <1>out, ListOwedEffect
<1>9. ASSUME NEW p \in Procs, NEW r \in Refs, SkipMail(p, r) \/ HoldBack(p, r) \/ SendRefused(p, r)
      PROVE  RowInv'
  BY <1>9, <1>run, <1>out, MailEffect DEF MovesPast
<1>10. ASSUME NEW p \in Procs, NEW r \in Refs, Send(p, r) PROVE RowInv'
  BY <1>10, <1>run, <1>out, SendEffect
<1>11. ASSUME NEW p \in Procs, SaveSent(p) \/ SaveThrows(p) PROVE RowInv'
  <2>1. run[p].cur \in Refs
    BY <1>11, SavedRef DEF SaveSent, SaveThrows, At
  <2>2. MovesPast(p, run[p].cur) \/ Unwind(p, "failed")
    BY <1>11, <1>run, <2>1, SaveSentEffect, SaveThrowsEffect
  <2> QED BY <1>out, <1>off, <2>2 DEF MovesPast
<1>12. ASSUME NEW p \in Procs, MailProgress(p) \/ Complete(p) \/ Throws(p) PROVE RowInv'
  <2>1. CASE \E pc \in {"release", "cancelled", "failed"} : Unwind(p, pc)
    BY <2>1, <1>off
  <2>2. CASE \E pc \in {"complete", "mail"} : Goto(p, pc)
    BY <2>2, <1>run, <1>out, GotoEffect
  <2> QED BY <1>12, <2>1, <2>2 DEF MailProgress, Complete, Throws
<1>13. ASSUME NEW p \in Procs, Release(p) \/ RecordCancelled(p) PROVE RowInv'
  BY <1>13, <1>run, <1>out, GotoEffect DEF Release, RecordCancelled
<1>14. ASSUME NEW p \in Procs, Discard(p) \/ RecordFailure(p) \/ RecordThrows(p) \/ Die(p)
       PROVE  RowInv'
  BY <1>14, <1>run, <1>out, IdleEffect DEF Discard, RecordFailure, RecordThrows, Die
<1> QED
  BY <1>1, <1>2, <1>3, <1>4, <1>5, <1>6, <1>7, <1>8, <1>9, <1>10, <1>11, <1>12, <1>13,
     <1>14
  DEF Attributed, ChangesRun

LEMMA CursorStep ==
  ASSUME TypeOK, WorkerOK, CursorSound, RowInv, Attributed
  PROVE  CursorSound'
<1> SUFFICES ASSUME NEW j \in Jobs
             PROVE  /\ job'[j].cursor <= Len(Sheet[j])
                    /\ \A i \in 1..job'[j].cursor : Settled(j, i)'
  BY DEF CursorSound, Settled
<1>len. Len(Sheet[j]) \in Nat /\ Rows(j) = 1..Len(Sheet[j]) /\ job[j].cursor \in Nat
  BY SheetType DEF TypeOK, JobDoc
<1>1. CASE job'[j].cursor = job[j].cursor
  <2>1. \A i \in 1..job[j].cursor : i \in Rows(j) /\ Settled(j, i)
    BY <1>len DEF CursorSound, Settled
  <2> QED BY <1>1, <2>1, SettledStays DEF CursorSound
<1>2. ASSUME NEW p \in Procs, SaveCursor(p), run[p].job = j, job'[j].cursor = run[p].at
      PROVE  /\ job'[j].cursor <= Len(Sheet[j])
             /\ \A i \in 1..job'[j].cursor : Settled(j, i)'
  <2>1. RowsDone(run[p]) /\ run[p].pc = "rows"
    BY <1>2 DEF RowInv, SaveCursor, At
  <2>2. \A i \in 1..run[p].at : i \in Rows(j) /\ Settled(j, i)
    BY <1>len, <1>2, <2>1 DEF RowsDone
  <2> QED BY <1>2, <2>1, <2>2, SettledStays DEF RowsDone
<1> QED BY <1>1, <1>2, CursorMoves

(* Every row behind the resume point is settled, whatever crashed or ran twice. *)
THEOREM CursorHolds == Spec => []CursorSound
<1>1. Init => CursorSound /\ RowInv
  <2> SUFFICES ASSUME Init PROVE CursorSound /\ RowInv
    OBVIOUS
  <2>1. \A j \in Jobs : job[j].cursor = 0 /\ Len(Sheet[j]) \in Nat
    BY SheetType DEF Init
  <2>2. CursorSound
    BY <2>1 DEF CursorSound
  <2>3. RowInv
    BY DEF Init, RowInv, RowsDone, IdleRun
  <2> QED BY <2>2, <2>3
<1>2. TypeOK /\ WorkerOK /\ (CursorSound /\ RowInv) /\ [Next]_vars => (CursorSound /\ RowInv)'
  BY WhoChanges, RowStepOK, CursorStep
<1> QED BY <1>1, <1>2, TypeCorrect, PTL DEF Spec

-------------------------------------------------------------------------------
(* A cancelled run stops at the end of its chunk.                            *)

RowMove(p) == SkipRow(p) \/ CreateLead(p) \/ UpdateLead(p) \/ RowThrows(p)

(* A worker in the row loop walked the rows that outlived a cancel in its current chunk;
   once there are any it goes nowhere but out. *)
LateOK(w, n) ==
  IF w.pc = "rows"
  THEN w.start + n <= w.at
  ELSE n = 0 \/ w.pc \in {"load", "progress", "cancelled", "failed", "release"}

LateInv ==
  \A j \in Jobs \ stolen :
    /\ late[j] <= ChunkSize
    /\ late[j] > 0 => job[j].cancelReq
    /\ \A p \in Procs : Runs(p, j) => LateOK(run[p], late[j])

(* Only a worker on the job adds to its late rows, one at a time, once it is cancelled. *)
LEMMA LateMoves ==
  ASSUME TypeOK, Attributed, NEW j \in Jobs
  PROVE  \/ late'[j] = late[j]
         \/ \E p \in Procs : /\ RowMove(p) /\ Runs(p, j)
                             /\ job[j].cancelReq /\ late'[j] = late[j] + 1
<1>1. ASSUME NEW p \in Procs, RowMove(p)
      PROVE  late'[j] = late[j] \/ (Runs(p, j) /\ job[j].cancelReq /\ late'[j] = late[j] + 1)
  <2>1. WalkPast(p) /\ run[p].pc = "rows"
    BY <1>1 DEF RowMove, SkipRow, CreateLead, UpdateLead, RowThrows, At
  <2> QED BY <2>1 DEF WalkPast, TypeOK, Runs, Working
<1> QED BY <1>1 DEF Attributed, ChangesLate, RowMove

(* What a step on a job nobody took does to the worker on it. *)
LEMMA LateWorker ==
  ASSUME TypeOK, WorkerOK, LockInv, LateInv, Attributed,
         NEW j \in Jobs \ stolen, NEW q \in Procs, Runs(q, j), Runs(q, j)'
  PROVE  LateOK(run'[q], late'[j]) /\ late'[j] <= ChunkSize
<1>run. run \in [Procs -> Worker] /\ run[q].job = j /\ run'[q].job = j
  BY DEF TypeOK, Runs
<1>nat. late[j] \in Nat /\ ChunkSize \in Nat /\ run[q].at \in Nat /\ run[q].start \in Nat
  BY <1>run, WorkbookAssumption DEF TypeOK, Worker
<1>ok. LateOK(run[q], late[j]) /\ late[j] <= ChunkSize /\ (late[j] > 0 => job[j].cancelReq)
  BY DEF LateInv
<1>late. late'[j] = late[j] \/ (RowMove(q) /\ job[j].cancelReq /\ late'[j] = late[j] + 1)
  BY LateMoves DEF LockInv
<1> DEFINE Goal == LateOK(run'[q], late'[j]) /\ late'[j] <= ChunkSize
<1>stays. ASSUME late'[j] = late[j], run'[q] = run[q] PROVE Goal
  BY <1>stays, <1>ok
<1>out. ASSUME late'[j] = late[j],
               run'[q].pc \in {"load", "progress", "cancelled", "failed", "release"}
        PROVE  Goal
  BY <1>out, <1>ok DEF LateOK
<1>none. ASSUME late'[j] = late[j], late[j] = 0, run'[q].pc # "rows" PROVE Goal
  BY <1>none, <1>ok DEF LateOK
<1>1. CASE RowMove(q)
  <2>1. /\ run[q].pc = "rows" /\ run[q].at < ChunkEnd(q)
        /\ run'[q].pc = "rows" /\ run'[q].start = run[q].start /\ run'[q].at = run[q].at + 1
    BY <1>1, <1>run, RowEffect
    DEF RowMove, SkipRow, CreateLead, UpdateLead, RowThrows, At, Keeps, RowFields
  <2>2. Len(Sheet[j]) \in Nat
    BY SheetType
  <2>3. ChunkEnd(q) \in Nat /\ ChunkEnd(q) <= run[q].start + ChunkSize
    BY <1>run, <1>nat, <2>2 DEF ChunkEnd
  <2>4. run[q].start + late[j] <= run[q].at
    BY <1>ok, <2>1 DEF LateOK
  <2> QED BY <1>nat, <1>late, <1>ok, <2>1, <2>3, <2>4 DEF LateOK
<1>2. CASE ~RowMove(q)
  <2>same. late'[j] = late[j]
    BY <1>late, <1>2
  <2>unw. ASSUME NEW pc \in {"cancelled", "failed", "release"}, Unwind(q, pc) PROVE Goal
    BY <1>run, <1>out, <2>same, <2>unw, UnwindEffect
  <2>late. ASSUME run[q].pc \notin {"rows", "load", "progress", "cancelled", "failed", "release"}
           PROVE  late[j] = 0
    BY <1>ok, <2>late DEF LateOK
  <2>other. ASSUME NEW p \in Procs, OnlyWorker(p), p # q PROVE Goal
    BY <1>stays, <2>same, <2>other DEF OnlyWorker
  <2>1. CASE UNCHANGED run
    BY <2>1, <2>same, <1>stays
  <2>2. ASSUME NEW p \in Procs, NEW k \in Jobs, Claim(p, k) PROVE Goal
    BY <2>2, <1>run, <1>out, <2>same, <2>other, ClaimEffect
  <2>3. ASSUME NEW p \in Procs, Prepare(p) PROVE Goal
    <3>1. CASE Unwind(p, "cancelled")
      BY <3>1, <1>run, <2>unw, <2>other, UnwindEffect
    <3>2. CASE ~Unwind(p, "cancelled")
      <4>1. OnlyWorker(p) /\ run'[p].pc = "compare" /\ ~IsCancelled(run[p].job)
        BY <2>3, <3>2, <1>run, PrepareEffect
      <4>2. p = q => late[j] = 0
        BY <4>1, <1>run, <1>ok, <1>nat DEF IsCancelled
      <4> QED BY <4>1, <4>2, <2>same, <2>other, <1>none
    <3> QED BY <3>1, <3>2
  <2>4. ASSUME NEW p \in Procs, Compare(p) PROVE Goal
    <3>1. /\ OnlyWorker(p) /\ run'[p].pc \in {"rows", "list"}
          /\ run'[p].start = ResumeFrom(run[p].job) /\ run'[p].at = ResumeFrom(run[p].job)
      BY <2>4, <1>run, CompareEffect
    <3>2. p = q => late[j] = 0
      BY <2>4, <2>late DEF Compare, At
    <3>3. ResumeFrom(j) \in Nat
      BY DEF ResumeFrom, TypeOK, JobDoc
    <3> QED BY <3>1, <3>2, <3>3, <1>run, <1>ok, <2>same, <2>other DEF LateOK
  <2>5. ASSUME NEW p \in Procs, SkipRow(p) \/ CreateLead(p) \/ UpdateLead(p) \/ RowThrows(p)
        PROVE  Goal
    BY <2>5, <1>2, <1>run, <2>other, RowEffect DEF RowMove
  <2>6. ASSUME NEW p \in Procs, SaveCursor(p) PROVE Goal
    BY <2>6, <1>run, <1>out, <2>same, <2>other, GotoEffect DEF SaveCursor
  <2>7. ASSUME NEW p \in Procs, RowProgress(p) PROVE Goal
    <3>1. CASE Unwind(p, "cancelled")
      BY <3>1, <1>run, <2>unw, <2>other, UnwindEffect
    <3>2. CASE ~Unwind(p, "cancelled")
      <4>1. /\ ~IsCancelled(run[p].job) /\ OnlyWorker(p) /\ run'[p].start = run[p].at
            /\ run'[p].pc \in {"rows", "list"} /\ run'[p].at = run[p].at
        BY <2>7, <3>2, <1>run, RowProgressEffect DEF Keeps
      <4>2. p = q => late[j] = 0
        BY <4>1, <1>run, <1>ok, <1>nat DEF IsCancelled
      <4> QED BY <4>1, <4>2, <1>ok, <1>nat, <2>same, <2>other DEF LateOK
    <3> QED BY <3>1, <3>2
  <2>8. ASSUME NEW p \in Procs, ListOwed(p) PROVE Goal
    <3>1. OnlyWorker(p) /\ run'[p].pc \in {"mail", "complete"} /\ run[p].pc = "list"
      BY <2>8, <1>run, ListOwedEffect DEF ListOwed, At
    <3> QED BY <3>1, <1>none, <2>same, <2>late, <2>other
  <2>past. ASSUME NEW p \in Procs, NEW r, MovesPast(p, r), run[p].pc \in {"mail", "save"} PROVE Goal
    BY <2>past, <1>none, <2>same, <2>late, <2>other DEF MovesPast
  <2>9. ASSUME NEW p \in Procs, NEW r \in Refs, SkipMail(p, r) \/ HoldBack(p, r) \/ SendRefused(p, r)
        PROVE  Goal
    <3>1. run[p].pc = "mail"
      BY <2>9 DEF SkipMail, HoldBack, SendRefused, At
    <3> QED BY <2>9, <3>1, <1>run, <2>past, MailEffect
  <2>10. ASSUME NEW p \in Procs, NEW r \in Refs, Send(p, r) PROVE Goal
    <3>1. OnlyWorker(p) /\ run'[p].pc = "save" /\ run[p].pc = "mail"
      BY <2>10, <1>run, SendEffect DEF Send, At
    <3> QED BY <3>1, <1>none, <2>same, <2>late, <2>other
  <2>11. ASSUME NEW p \in Procs, SaveSent(p) \/ SaveThrows(p) PROVE Goal
    <3>1. run[p].cur \in Refs /\ run[p].pc = "save"
      BY <2>11, SavedRef DEF SaveSent, SaveThrows, At
    <3>2. MovesPast(p, run[p].cur) \/ Unwind(p, "failed")
      BY <2>11, <3>1, <1>run, SaveSentEffect, SaveThrowsEffect
    <3> QED BY <3>1, <3>2, <1>run, <2>past, <2>unw, <2>other, UnwindEffect
  <2>12. ASSUME NEW p \in Procs, MailProgress(p) \/ Complete(p) \/ Throws(p) PROVE Goal
    <3>1. CASE \E pc \in {"cancelled", "failed", "release"} : Unwind(p, pc)
      BY <3>1, <1>run, <2>unw, <2>other, UnwindEffect
    <3>2. CASE run[p].pc = "beat" /\ \E pc \in {"complete", "mail"} : Goto(p, pc)
      BY <3>2, <1>run, <1>none, <2>same, <2>late, <2>other, GotoEffect
    <3> QED BY <2>12, <3>1, <3>2 DEF MailProgress, Complete, Throws, At
  <2>13. ASSUME NEW p \in Procs, Release(p) \/ RecordCancelled(p) PROVE Goal
    <3>1. OnlyWorker(p) /\ run'[p].pc = "discard"
      BY <2>13, <1>run, GotoEffect DEF Release, RecordCancelled
    <3> QED BY <3>1, <2>other DEF Runs, Working
  <2>14. ASSUME NEW p \in Procs, Discard(p) \/ RecordFailure(p) \/ RecordThrows(p) \/ Die(p)
         PROVE  Goal
    <3>1. OnlyWorker(p) /\ run'[p].pc = "idle"
      BY <2>14, <1>run, IdleEffect DEF Discard, RecordFailure, RecordThrows, Die
    <3> QED BY <3>1, <2>other DEF Runs, Working
  <2> QED
    BY <2>1, <2>2, <2>3, <2>4, <2>5, <2>6, <2>7, <2>8, <2>9, <2>10, <2>11, <2>12, <2>13, <2>14
    DEF Attributed, ChangesRun
<1> QED BY <1>1, <1>2

LEMMA LateStep ==
  ASSUME TypeOK, WorkerOK, LockInv, LateInv, Attributed
  PROVE  LateInv'
<1> SUFFICES ASSUME NEW j \in Jobs, j \notin stolen'
             PROVE  /\ late'[j] <= ChunkSize
                    /\ late'[j] > 0 => job'[j].cancelReq
                    /\ \A p \in Procs : Runs(p, j)' => LateOK(run'[p], late'[j])
  BY DEF LateInv
<1>old. j \notin stolen
  BY DEF Attributed, ChangesStolen, Claim, Boot
<1>nat. late[j] \in Nat /\ ChunkSize \in Nat
  BY WorkbookAssumption DEF TypeOK
<1>1. late'[j] > 0 => job'[j].cancelReq
  BY <1>old, <1>nat, LateMoves, JobMoves DEF LateInv
<1>2. late'[j] <= ChunkSize
  <2>1. CASE late'[j] = late[j]
    BY <2>1, <1>old DEF LateInv
  <2>2. ASSUME NEW p \in Procs, RowMove(p), Runs(p, j) PROVE late'[j] <= ChunkSize
    <3>1. Runs(p, j)'
      <4>1. run'[p].pc = "rows" /\ run'[p].job = run[p].job
        BY <2>2, RowEffect
        DEF RowMove, SkipRow, CreateLead, UpdateLead, RowThrows, At, Keeps, RowFields, TypeOK
      <4> QED BY <2>2, <4>1 DEF Runs, Working
    <3> QED BY <2>2, <3>1, <1>old, LateWorker
  <2> QED BY <2>1, <2>2, LateMoves
<1>3. ASSUME NEW p \in Procs, Runs(p, j)' PROVE LateOK(run'[p], late'[j])
  <2>1. CASE Runs(p, j)
    BY <1>3, <2>1, <1>old, LateWorker
  <2>2. CASE Claim(p, j)
    BY <2>2, ClaimEffect DEF TypeOK, LateOK
  <2> QED BY <1>3, <2>1, <2>2, OnlyClaimStarts
<1> QED BY <1>1, <1>2, <1>3

(* isCancelled: at most one chunk of rows is walked after a cancel, restarts included,
   on a job that was not taken from a live worker. *)
THEOREM CancelStopsHolds == Spec => []CancelStops
<1>1. Init => LateInv
  <2> SUFFICES ASSUME Init PROVE LateInv
    OBVIOUS
  <2>1. ChunkSize \in Nat /\ \A j \in Jobs : late[j] = 0
    BY WorkbookAssumption DEF Init
  <2>2. \A p \in Procs : run[p].pc = "idle"
    BY DEF Init, IdleRun
  <2> QED BY <2>1, <2>2 DEF LateInv, Runs, Working
<1>2. TypeOK /\ WorkerOK /\ LockInv /\ LateInv /\ [Next]_vars => LateInv'
  BY LateStep, WhoChanges
<1>3. LateInv => CancelStops
  BY DEF LateInv, CancelStops
<1> QED BY <1>1, <1>2, <1>3, TypeCorrect, LockCorrect, PTL DEF Spec

-------------------------------------------------------------------------------
(* A run in one process keeps the contract of its job.                       *)

(* How far the resume point is, by where the worker is. *)
CursorAt(w) ==
  LET c == job[w.job].cursor IN
  /\ w.pc = "rows" => c <= w.at
  /\ w.pc = "progress" => c = w.at
  /\ w.pc \in {"list", "mail", "save", "beat", "complete"} => c = Len(Sheet[w.job])

CursorInv ==
  \A p \in Procs : \A j \in Jobs \ stolen : Runs(p, j) => CursorAt(run[p])

LEMMA CursorAtStep ==
  ASSUME TypeOK, WorkerOK, LockInv, CursorSound, RowInv, CursorInv, Attributed
  PROVE  CursorInv'
<1>run. run \in [Procs -> Worker] /\ job \in [Jobs -> JobDoc]
  BY DEF TypeOK
<1> SUFFICES ASSUME NEW q \in Procs, NEW j \in Jobs, j \notin stolen', Runs(q, j)'
             PROVE  CursorAt(run[q])'
  BY DEF CursorInv
<1>old. j \notin stolen /\ run'[q].job = j
  BY DEF Attributed, ChangesStolen, Claim, Boot, Runs
<1>1. CASE Claim(q, j)
  BY <1>1, <1>run, ClaimEffect DEF CursorAt
<1>2. CASE Runs(q, j) /\ SaveCursor(q)
  <2>1. /\ run'[q].pc = "progress" /\ run'[q].at = run[q].at /\ run[q].job = j
    BY <1>2, <1>run, GotoEffect DEF SaveCursor, Keeps, Runs
  <2>2. job'[j].cursor = run[q].at
    BY <1>2, <1>run, <2>1 DEF SaveCursor, JobDoc
  <2> QED BY <1>old, <2>1, <2>2 DEF CursorAt
<1>3. CASE Runs(q, j) /\ ~SaveCursor(q)
  <2>j. run[q].job = j
    BY <1>3 DEF Runs
  <2>c. job'[j].cursor = job[j].cursor
    <3>1. ASSUME NEW p \in Procs, SaveCursor(p), run[p].job = j PROVE p = q
      <4>1. Runs(p, j)
        BY <3>1 DEF SaveCursor, At, Runs, Working
      <4> QED BY <1>3, <1>old, <4>1 DEF LockInv
    <3> QED BY <1>3, <3>1, CursorMoves
  <2>ok. CursorAt(run[q]) /\ RowsDone(run[q])
    BY <1>3, <1>old DEF CursorInv, RowInv
  <2>nat. /\ job[j].cursor \in Nat /\ job[j].cursor <= Len(Sheet[j]) /\ Len(Sheet[j]) \in Nat
          /\ run[q].at \in Nat
    BY <1>run, SheetType DEF JobDoc, CursorSound, Worker
  <2> DEFINE Goal == CursorAt(run[q])'
  <2>off. ASSUME run'[q].pc \in {"load", "compare", "release", "cancelled", "failed", "idle", "discard"}
          PROVE  Goal
    BY <2>off DEF CursorAt
  <2>unw. ASSUME NEW pc \in {"cancelled", "failed", "release"}, Unwind(q, pc) PROVE Goal
    BY <1>run, <2>unw, <2>off, UnwindEffect
  <2>end. ASSUME run[q].pc \in {"list", "mail", "save", "beat", "complete"},
                 run'[q].pc \in {"list", "mail", "save", "beat", "complete"}
          PROVE  Goal
    BY <1>old, <2>j, <2>c, <2>ok, <2>end DEF CursorAt
  <2>1. CASE run'[q] = run[q]
    BY <2>1, <2>j, <2>c, <2>ok DEF CursorAt
  <2>2. ASSUME NEW k \in Jobs, Claim(q, k) PROVE Goal
    BY <2>2, <1>run, <2>off, ClaimEffect
  <2>3. CASE Prepare(q)
    BY <2>3, <1>run, <2>off, <2>unw, PrepareEffect
  <2>4. CASE Compare(q)
    <3>1. /\ run'[q].pc = IF job[j].cursor < Len(Sheet[j]) THEN "rows" ELSE "list"
          /\ run'[q].at = job[j].cursor
      BY <2>4, <2>j, <1>run, CompareEffect DEF ResumeFrom
    <3> QED BY <1>old, <2>c, <2>nat, <3>1 DEF CursorAt
  <2>5. CASE SkipRow(q) \/ CreateLead(q) \/ UpdateLead(q) \/ RowThrows(q)
    <3>1. run[q].pc = "rows" /\ run'[q].pc = "rows" /\ run'[q].at = run[q].at + 1
      BY <2>5, <1>run, RowEffect
      DEF SkipRow, CreateLead, UpdateLead, RowThrows, At, Keeps, RowFields
    <3> QED BY <1>old, <2>j, <2>c, <2>ok, <2>nat, <3>1 DEF CursorAt
  <2>6. CASE RowProgress(q)
    <3>1. CASE Unwind(q, "cancelled")
      BY <3>1, <2>unw
    <3>2. CASE ~Unwind(q, "cancelled")
      <4>1. /\ run[q].pc = "progress" /\ run'[q].at = run[q].at
            /\ run'[q].pc = IF run[q].at < Len(Sheet[j]) THEN "rows" ELSE "list"
        BY <2>6, <2>j, <3>2, <1>run, RowProgressEffect DEF RowProgress, At, Keeps
      <4>2. job[j].cursor = run[q].at /\ run[q].at <= Len(Sheet[j])
        BY <2>j, <2>ok, <4>1 DEF CursorAt, RowsDone
      <4> QED BY <1>old, <2>c, <2>nat, <4>1, <4>2 DEF CursorAt
    <3> QED BY <3>1, <3>2
  <2>7. CASE ListOwed(q)
    BY <2>7, <1>run, <2>end, ListOwedEffect DEF ListOwed, At
  <2>8. CASE SaveSent(q) \/ SaveThrows(q)
    <3>1. run[q].cur \in Refs /\ run[q].pc = "save"
      BY <2>8, SavedRef DEF SaveSent, SaveThrows, At
    <3> QED BY <2>8, <3>1, <1>run, <2>end, <2>unw, SaveSentEffect, SaveThrowsEffect DEF MovesPast
  <2>9. CASE MailProgress(q)
    <3>1. run[q].pc = "beat"
      BY <2>9 DEF MailProgress, At
    <3>2. CASE \E pc \in {"complete", "mail"} : Goto(q, pc)
      BY <3>1, <3>2, <1>run, <2>end, GotoEffect
    <3> QED BY <2>9, <3>2, <2>unw DEF MailProgress
  <2>10. CASE Complete(q) \/ Throws(q)
    BY <2>10, <2>unw DEF Complete, Throws
  <2>11. CASE Release(q) \/ RecordCancelled(q)
    BY <2>11, <1>run, <2>off, GotoEffect DEF Release, RecordCancelled
  <2>12. CASE Discard(q) \/ RecordFailure(q) \/ RecordThrows(q) \/ Die(q)
    BY <2>12, <1>run, <2>off, IdleEffect DEF Discard, RecordFailure, RecordThrows, Die
  <2>13. ASSUME NEW r \in Refs, SkipMail(q, r) \/ HoldBack(q, r) \/ SendRefused(q, r) PROVE Goal
    <3>1. run[q].pc = "mail"
      BY <2>13 DEF SkipMail, HoldBack, SendRefused, At
    <3> QED BY <2>13, <3>1, <1>run, <2>end, MailEffect DEF MovesPast
  <2>14. ASSUME NEW r \in Refs, Send(q, r) PROVE Goal
    BY <2>14, <1>run, <2>end, SendEffect DEF Send, At
  <2> QED
    BY <1>3, <2>1, <2>2, <2>3, <2>4, <2>5, <2>6, <2>7, <2>8, <2>9, <2>10, <2>11, <2>12, <2>13,
       <2>14, OnlyOwnSteps
    DEF OwnStep
<1> QED BY <1>1, <1>2, <1>3, OnlyClaimStarts

(* Nobody holds on to a job that was never uploaded. *)
Present ==
  /\ \A p \in Procs : run[p].pc # "idle" => job[run[p].job].status # "absent"
  /\ \A j \in Jobs : cancel[j].by # None => job[j].status # "absent"

ChangesCancel ==
  \/ UNCHANGED cancel
  \/ \E p \in Procs : \E j \in Jobs : CancelRead(p, j)
  \/ \E j \in Jobs : CancelWrite(j)
  \/ \E p \in Procs : Die(p)

LEMMA WhoCancels ==
  ASSUME [Next]_vars
  PROVE  ChangesCancel
<1>1. CASE RequestStep
  <2>1. ASSUME NEW p \in Procs, NEW j \in Jobs, Upload(p, j) PROVE UNCHANGED cancel
    BY <2>1 DEF Upload
  <2>2. ASSUME NEW p \in Procs, NEW r \in Refs, ResendLoad(p, r) PROVE UNCHANGED cancel
    BY <2>2 DEF ResendLoad
  <2>3. ASSUME NEW j \in Jobs, StoreFile(j) \/ StoreFails(j) PROVE UNCHANGED cancel
    BY <2>3 DEF StoreFile, StoreFails
  <2>4. ASSUME NEW r \in Refs, OptOut(r) \/ Edit(r) \/ ResendSave(r) PROVE UNCHANGED cancel
    BY <2>4 DEF OptOut, Edit, ResendSave, requests
  <2> QED BY <1>1, <2>1, <2>2, <2>3, <2>4 DEF RequestStep, ChangesCancel
<1>2. ASSUME NEW p \in Procs, WorkerStep(p) PROVE UNCHANGED cancel
  <2>1. CASE (\E j \in Jobs : Claim(p, j)) \/ Prepare(p)
    BY <2>1 DEF Claim, Prepare, requests
  <2>2. CASE RowStep(p)
    BY <2>2 DEF RowStep, Compare, SkipRow, CreateLead, UpdateLead, RowThrows, SaveCursor,
       RowProgress, requests
  <2>3. CASE ListOwed(p) \/ SaveSent(p) \/ SaveThrows(p) \/ MailProgress(p)
    BY <2>3 DEF ListOwed, SaveSent, SaveThrows, MailProgress, requests
  <2>4. ASSUME NEW r \in Refs, SkipMail(p, r) \/ HoldBack(p, r) \/ Send(p, r) \/ SendRefused(p, r)
        PROVE  UNCHANGED cancel
    BY <2>4 DEF SkipMail, HoldBack, Send, SendRefused, requests
  <2>5. CASE CloseStep(p)
    BY <2>5 DEF CloseStep, Complete, Release, Discard, Throws, RecordFailure, RecordCancelled,
       RecordThrows, requests
  <2> QED BY <1>2, <2>1, <2>2, <2>3, <2>4, <2>5 DEF WorkerStep, MailStep
<1>3. ASSUME NEW p \in Procs, Boot(p) \/ BlindBoot(p) \/ Stop(p) PROVE UNCHANGED cancel
  BY <1>3 DEF Boot, BlindBoot, Stop, requests
<1>4. ASSUME NEW j \in Jobs, LockExpires(j) PROVE UNCHANGED cancel
  BY <1>4 DEF LockExpires, requests
<1>5. CASE UNCHANGED vars
  BY <1>5 DEF vars, requests, ChangesCancel
<1> QED BY <1>1, <1>2, <1>3, <1>4, <1>5 DEF Next, ProcessStep, ChangesCancel

LEMMA PresentStep ==
  ASSUME TypeOK, WorkerOK, Present, Attributed, ChangesCancel
  PROVE  Present'
<1>run. run \in [Procs -> Worker] /\ job \in [Jobs -> JobDoc]
  BY DEF TypeOK
<1>stay. ASSUME NEW j \in Jobs, job[j].status # "absent" PROVE job'[j].status # "absent"
  BY <1>stay, JobMoves DEF Terminal, InFlight
<1>kept. ASSUME NEW p \in Procs, run[p].pc # "idle", run'[p].job = run[p].job
         PROVE  job'[run'[p].job].status # "absent"
  BY <1>kept, <1>stay DEF Present, WorkerOK, SaneWorker
<1>1. ASSUME NEW p \in Procs, run'[p].pc # "idle" PROVE job'[run'[p].job].status # "absent"
  <2>1. CASE run'[p] = run[p]
    BY <1>1, <2>1, <1>kept
  <2>2. ASSUME NEW j \in Jobs, Claim(p, j) PROVE job'[run'[p].job].status # "absent"
    <3>1. job'[j].status = "running"
      BY <2>2, <1>run DEF Claim, JobDoc
    <3>2. run'[p].job = j
      BY <2>2, <1>run, ClaimEffect
    <3> QED BY <3>1, <3>2
  <2>3. CASE Prepare(p) \/ Compare(p) \/ RowProgress(p) \/ ListOwed(p)
    BY <2>3, <1>run, <1>kept, PrepareEffect, CompareEffect, RowProgressEffect, ListOwedEffect,
       UnwindEffect
    DEF Prepare, Compare, RowProgress, ListOwed, At, Keeps, ListFields
  <2>4. CASE SkipRow(p) \/ CreateLead(p) \/ UpdateLead(p) \/ RowThrows(p)
    BY <2>4, <1>run, <1>kept, RowEffect
    DEF SkipRow, CreateLead, UpdateLead, RowThrows, At, Keeps, RowFields
  <2>5. CASE SaveSent(p) \/ SaveThrows(p)
    <3>1. run[p].cur \in Refs /\ run[p].pc = "save"
      BY <2>5, SavedRef DEF SaveSent, SaveThrows, At
    <3>2. MovesPast(p, run[p].cur) \/ Unwind(p, "failed")
      BY <2>5, <3>1, <1>run, SaveSentEffect, SaveThrowsEffect
    <3> QED BY <3>1, <3>2, <1>run, <1>kept, UnwindEffect DEF MovesPast, Keeps, PastLeadFields
  <2>6. CASE \/ SaveCursor(p) \/ MailProgress(p) \/ Complete(p) \/ Release(p) \/ Throws(p)
             \/ RecordCancelled(p)
    <3>1. run[p].pc # "idle" /\ \E pc \in Working \cup {"discard"} : Goto(p, pc) \/ Unwind(p, pc)
      BY <2>6
      DEF SaveCursor, MailProgress, Complete, Release, Throws, RecordCancelled, At, Working
    <3> QED BY <3>1, <1>run, <1>kept, GotoEffect, UnwindEffect DEF Keeps
  <2>7. CASE Discard(p) \/ RecordFailure(p) \/ RecordThrows(p) \/ Die(p)
    BY <1>1, <2>7, <1>run, IdleEffect DEF Discard, RecordFailure, RecordThrows, Die
  <2>8. ASSUME NEW r \in Refs, SkipMail(p, r) \/ HoldBack(p, r) \/ Send(p, r) \/ SendRefused(p, r)
        PROVE  job'[run'[p].job].status # "absent"
    <3>1. run[p].pc = "mail"
      BY <2>8 DEF SkipMail, HoldBack, Send, SendRefused, At
    <3>2. run'[p].job = run[p].job
      BY <2>8, <1>run, MailEffect, SendEffect DEF MovesPast, Keeps, PastLeadFields
    <3> QED BY <3>1, <3>2, <1>kept
  <2> QED BY <2>1, <2>2, <2>3, <2>4, <2>5, <2>6, <2>7, <2>8, OnlyOwnSteps DEF OwnStep
<1>2. ASSUME NEW j \in Jobs, cancel'[j].by # None PROVE job'[j].status # "absent"
  <2>1. ASSUME NEW p \in Procs, NEW k \in Jobs, CancelRead(p, k)
        PROVE  job[j].status # "absent"
    BY <1>2, <2>1 DEF CancelRead, InFlight, Present, TypeOK
  <2>2. ASSUME NEW k \in Jobs, CancelWrite(k) PROVE cancel[j].by # None
    BY <1>2, <2>2 DEF CancelWrite, TypeOK
  <2>3. ASSUME NEW p \in Procs, Die(p) PROVE cancel[j].by # None
    BY <1>2, <2>3 DEF Die, TypeOK
  <2> QED BY <1>2, <1>stay, <2>1, <2>2, <2>3 DEF ChangesCancel, Present
<1> QED BY <1>1, <1>2 DEF Present

LEMMA StatusBecomes ==
  ASSUME NEW j \in Jobs, NEW s,
         \A k \in Jobs : job'[k].status = IF k = j THEN s ELSE job[k].status,
         \A k \in Jobs : job'[k].cursor = job[k].cursor
  PROVE  Contract!Becomes(j, s)
BY DEF Contract!Becomes

LEMMA NothingSeen ==
  ASSUME \A k \in Jobs : job'[k].status = job[k].status,
         \A k \in Jobs : job'[k].cursor = job[k].cursor
  PROVE  UNCHANGED Contract!vars
BY DEF Contract!vars

LEMMA CursorSettles ==
  ASSUME NEW j \in Jobs, job[j].status # "absent",
         NEW n \in job[j].cursor..Len(Sheet[j]),
         \A k \in Jobs : job'[k].cursor = IF k = j THEN n ELSE job[k].cursor,
         \A k \in Jobs : job'[k].status = job[k].status
  PROVE  Contract!Settle(j)
<1>1. [k \in Jobs |-> job[k].cursor]' = [[k \in Jobs |-> job[k].cursor] EXCEPT ![j] = n]
  OBVIOUS
<1>2. UNCHANGED [k \in Jobs |-> job[k].status]
  OBVIOUS
<1>3. n \in [k \in Jobs |-> job[k].cursor][j]..[k \in Jobs |-> Len(Sheet[k])][j]
  OBVIOUS
<1> QED BY <1>1, <1>2, <1>3 DEF Contract!Settle

(* Every step on a job is one its contract allows, or one its watchers do not see. *)
LEMMA ContractStep ==
  ASSUME TypeOK, WorkerOK, CursorSound, RowInv, FileInv, Present, CursorInv, stolen = {},
         Attributed
  PROVE  [Contract!Next]_(Contract!vars)
<1>job. job \in [Jobs -> JobDoc]
  BY DEF TypeOK
<1> DEFINE Goal == Contract!Next \/ UNCHANGED Contract!vars
<1>idle. ASSUME \A k \in Jobs : job'[k].status = job[k].status /\ job'[k].cursor = job[k].cursor
         PROVE  Goal
  BY <1>idle, NothingSeen
<1>quits. ASSUME NEW j \in Jobs, NEW s \in {"failed", "cancelled"}, job[j].status # "absent",
                 \A k \in Jobs : job'[k].status = IF k = j THEN s ELSE job[k].status,
                 \A k \in Jobs : job'[k].cursor = job[k].cursor
          PROVE  Goal
  <2>1. Contract!Becomes(j, s)
    BY <1>quits, StatusBecomes
  <2> QED BY <1>quits, <2>1 DEF Contract!GiveUp, Contract!Next
<1>1. CASE UNCHANGED job
  BY <1>1, <1>idle
<1>2. ASSUME NEW p \in Procs, NEW j \in Jobs, Upload(p, j) PROVE Goal
  <2>1. /\ \A k \in Jobs : job'[k].status = IF k = j THEN "queued" ELSE job[k].status
        /\ \A k \in Jobs : job'[k].cursor = job[k].cursor
    BY <1>2, <1>job DEF Upload, JobDoc
  <2>2. Contract!Becomes(j, "queued")
    BY <2>1, StatusBecomes
  <2> QED BY <1>2, <2>2 DEF Upload, Contract!Accept, Contract!Next
<1>3. ASSUME NEW p \in Procs, NEW j \in Jobs, Claim(p, j) PROVE Goal
  <2>1. /\ \A k \in Jobs : job'[k].status = IF k = j THEN "running" ELSE job[k].status
        /\ \A k \in Jobs : job'[k].cursor = job[k].cursor
    BY <1>3, <1>job DEF Claim, JobDoc
  <2>2. Contract!Becomes(j, "running")
    BY <2>1, StatusBecomes
  <2>3. job[j].status \in Contract!InFlight
    BY <1>3 DEF Claim, Claimable, InFlight, Contract!InFlight
  <2> QED BY <2>2, <2>3 DEF Contract!Begin, Contract!Next
<1>4. ASSUME NEW j \in Jobs, StoreFile(j) \/ LockExpires(j) PROVE Goal
  <2>1. \A k \in Jobs : job'[k].status = job[k].status /\ job'[k].cursor = job[k].cursor
    BY <1>4, <1>job DEF StoreFile, LockExpires, JobDoc
  <2> QED BY <2>1, <1>idle
<1>5. ASSUME NEW j \in Jobs, StoreFails(j) PROVE Goal
  <2>1. /\ \A k \in Jobs : job'[k].status = IF k = j THEN "failed" ELSE job[k].status
        /\ \A k \in Jobs : job'[k].cursor = job[k].cursor
    BY <1>5, <1>job DEF StoreFails, JobDoc
  <2>2. job[j].status # "absent"
    BY <1>5 DEF StoreFails, FileInv
  <2> QED BY <2>1, <2>2, <1>quits
<1>6. ASSUME NEW j \in Jobs, CancelWrite(j) PROVE Goal
  <2>1. job[j].status # "absent"
    BY <1>6 DEF CancelWrite, Present
  <2>2. CASE cancel[j].saw = "queued"
    <3>1. /\ \A k \in Jobs : job'[k].status = IF k = j THEN "cancelled" ELSE job[k].status
          /\ \A k \in Jobs : job'[k].cursor = job[k].cursor
      BY <1>6, <2>2, <1>job DEF CancelWrite, JobDoc
    <3> QED BY <2>1, <3>1, <1>quits
  <2>3. CASE cancel[j].saw # "queued"
    <3>1. \A k \in Jobs : job'[k].status = job[k].status /\ job'[k].cursor = job[k].cursor
      BY <1>6, <2>3, <1>job DEF CancelWrite, JobDoc
    <3> QED BY <3>1, <1>idle
  <2> QED BY <2>2, <2>3
<1>7. ASSUME NEW p \in Procs, RowProgress(p) \/ MailProgress(p) \/ Release(p) PROVE Goal
  <2>1. \E l \in {"held", "none"} : job' = [job EXCEPT ![run[p].job].lock = l]
    BY <1>7 DEF RowProgress, MailProgress, Release
  <2>2. \A k \in Jobs : job'[k].status = job[k].status /\ job'[k].cursor = job[k].cursor
    BY <2>1, <1>job DEF JobDoc
  <2> QED BY <2>2, <1>idle
<1>8. ASSUME NEW p \in Procs, SaveCursor(p) PROVE Goal
  <2>1. run[p].pc = "rows" /\ run[p].job \in Jobs /\ run[p].at \in Nat
    BY <1>8 DEF SaveCursor, At, WorkerOK, SaneWorker, TypeOK, Worker
  <2>j. PICK j \in Jobs, n \in Nat : j = run[p].job /\ n = run[p].at
    BY <2>1
  <2>2. Runs(p, j) /\ job[j].status # "absent"
    BY <2>1, <2>j DEF Runs, Working, Present
  <2>3. job[j].cursor <= n /\ n <= Len(Sheet[j])
    BY <2>1, <2>j, <2>2 DEF CursorInv, CursorAt, RowInv, RowsDone
  <2>4. job[j].cursor \in Nat /\ Len(Sheet[j]) \in Nat
    BY <1>job, SheetType DEF JobDoc
  <2>5. n \in job[j].cursor..Len(Sheet[j])
    BY <2>3, <2>4
  <2>6. job' = [job EXCEPT ![j].cursor = n]
    BY <1>8, <2>j DEF SaveCursor
  <2>7. /\ \A k \in Jobs : job'[k].cursor = IF k = j THEN n ELSE job[k].cursor
        /\ \A k \in Jobs : job'[k].status = job[k].status
    BY <2>6, <1>job DEF JobDoc
  <2>8. Contract!Settle(j)
    BY <2>2, <2>5, <2>7, CursorSettles
  <2> QED BY <2>8 DEF Contract!Next
<1>9. ASSUME NEW p \in Procs, Complete(p) PROVE Goal
  <2>1. run[p].pc = "complete" /\ run[p].job \in Jobs
    BY <1>9 DEF Complete, At, WorkerOK, SaneWorker
  <2>j. PICK j \in Jobs : j = run[p].job
    BY <2>1
  <2>2. Runs(p, j) /\ job[j].status # "absent"
    BY <2>1, <2>j DEF Runs, Working, Present
  <2>3. job[j].cursor = Len(Sheet[j])
    BY <2>1, <2>j, <2>2 DEF CursorInv, CursorAt
  <2>4. PICK s \in {"completed", "partial"} : job' = [job EXCEPT ![j].status = s]
    BY <1>9, <2>j DEF Complete
  <2>5. /\ \A k \in Jobs : job'[k].status = IF k = j THEN s ELSE job[k].status
        /\ \A k \in Jobs : job'[k].cursor = job[k].cursor
    BY <2>4, <1>job DEF JobDoc
  <2>6. Contract!Becomes(j, s)
    BY <2>5, StatusBecomes
  <2>7. Contract!Finish(j)
    BY <2>2, <2>3, <2>6 DEF Contract!Finish
  <2> QED BY <2>7 DEF Contract!Next
<1>10. ASSUME NEW p \in Procs, RecordFailure(p) \/ RecordCancelled(p) PROVE Goal
  <2>1. run[p].pc # "idle" /\ run[p].job \in Jobs /\ job[run[p].job].status # "absent"
    BY <1>10 DEF RecordFailure, RecordCancelled, At, WorkerOK, SaneWorker, Present
  <2>2. PICK s \in {"failed", "cancelled"} :
          job' = [job EXCEPT ![run[p].job].status = s, ![run[p].job].lock = "none"]
    BY <1>10 DEF RecordFailure, RecordCancelled
  <2>3. /\ \A k \in Jobs : job'[k].status = IF k = run[p].job THEN s ELSE job[k].status
        /\ \A k \in Jobs : job'[k].cursor = job[k].cursor
    BY <2>2, <1>job DEF JobDoc
  <2> QED BY <2>1, <2>3, <1>quits
<1>11. ASSUME NEW p \in Procs, Boot(p) PROVE Goal
  <2>1. \A k \in Jobs : /\ job'[k].status = IF k \in Interrupted THEN "queued" ELSE job[k].status
                        /\ job'[k].cursor = job[k].cursor
    BY <1>11, <1>job DEF Boot, Requeued, JobDoc
  <2>2. Contract!Interrupt
    BY <2>1 DEF Contract!Interrupt, Interrupted
  <2> QED BY <2>2 DEF Contract!Next
<1> QED
  BY <1>1, <1>2, <1>3, <1>4, <1>5, <1>6, <1>7, <1>8, <1>9, <1>10, <1>11
  DEF Attributed, ChangesJob

(* With one process no job is ever taken from a live worker. *)
LEMMA NoneStolen ==
  ASSUME TypeOK, WorkerOK, \A p, q \in Procs : p = q, stolen = {}, Attributed
  PROVE  stolen' = {}
<1>1. ASSUME NEW p \in Procs, NEW j \in Jobs, Claim(p, j) PROVE stolen' = {}
  BY <1>1 DEF Claim, Runs, Working
<1>2. ASSUME NEW p \in Procs, Boot(p) PROVE stolen' = {}
  <2>1. \A q \in Procs : run[q].pc = "idle"
    BY <1>2 DEF Boot, MayBoot, WorkerOK, IdleRun
  <2> QED BY <1>2, <2>1 DEF Boot, Runs, Working
<1> QED BY <1>1, <1>2 DEF Attributed, ChangesStolen

(* The run implements RunContract: with one process, whatever restarts, expires, fails or
   is cancelled, a watcher of the job sees only what its contract allows: the resume point
   moves forward only, and a job is finished only when its whole sheet is settled. *)
THEOREM ContractKept ==
  ASSUME \A p, q \in Procs : p = q
  PROVE  Spec => ContractSpec
<1> DEFINE Inv == /\ LockInv /\ CursorSound /\ RowInv /\ FileInv /\ Present /\ CursorInv
                  /\ stolen = {}
<1>1. Init => Inv /\ Contract!Init
  <2> SUFFICES ASSUME Init PROVE Inv /\ Contract!Init
    OBVIOUS
  <2>1. \A p \in Procs : run[p].pc = "idle"
    BY DEF Init, IdleRun
  <2>2. \A j \in Jobs : /\ job[j].status = "absent" /\ ~job[j].file /\ job[j].cursor = 0
                        /\ store[j] = None /\ cancel[j].by = None /\ Len(Sheet[j]) \in Nat
    BY SheetType DEF Init
  <2>3. LockInv /\ CursorInv /\ RowInv
    BY <2>1 DEF LockInv, CursorInv, RowInv, RowsDone, Runs, Working
  <2>4. CursorSound /\ FileInv /\ Present
    BY <2>1, <2>2 DEF CursorSound, FileInv, FileKept, Closed, Present, InFlight
  <2>5. Contract!Init
    BY <2>2 DEF Contract!Init
  <2> QED BY <2>3, <2>4, <2>5 DEF Init
<1>2. TypeOK /\ WorkerOK /\ Inv /\ [Next]_vars => Inv' /\ [Contract!Next]_(Contract!vars)
  <2> SUFFICES ASSUME TypeOK, WorkerOK, Inv, [Next]_vars
               PROVE  Inv' /\ [Contract!Next]_(Contract!vars)
    OBVIOUS
  <2>1. Attributed /\ ChangesCancel
    BY WhoChanges, WhoCancels
  <2>2. LockInv' /\ CursorSound' /\ RowInv' /\ FileInv' /\ Present' /\ CursorInv' /\ stolen' = {}
    BY <2>1, LockStep, CursorStep, RowStepOK, FileStep, PresentStep, CursorAtStep, NoneStolen
  <2> QED BY <2>1, <2>2, ContractStep
<1> QED BY <1>1, <1>2, TypeCorrect, PTL DEF Spec, ContractSpec, Contract!Spec

--------------------------------------------------------------------------------
(* An enquiry is introduced once, and a finished run owes no introduction.   *)

(* The leads a worker has in hand: created and not yet listed, listed and not yet done. *)
Hand(w) == w.made \cup w.todo

(* A worker that has left its run has nothing in hand, and one that mails has listed all. *)
SaneHand(w) ==
  /\ w.pc \in {"idle", "discard", "release", "cancelled", "failed"} => Hand(w) = {}
  /\ w.pc \in {"mail", "save", "beat"} => w.made = {}

HandsOK == \A p \in Procs : SaneHand(run[p])

(* Nothing happened to lead r that the runs do not answer for. *)
Accountable(r) == r \notin torn /\ lead[r].first \notin stolen

BeingSaved(r) == \E p \in Procs : run[p].pc = "save" /\ run[p].cur = r

(* A lead that was written to exists, and was written to once; a pending one has its mark
   on the way. *)
MarkOK(r) ==
  /\ auto[r] > 0 => lead[r].exists
  /\ Accountable(r) => auto[r] <= 1
  /\ Accountable(r) /\ auto[r] > 0 /\ lead[r].status = "pending" => BeingSaved(r)

(* What a worker has in hand its own job created, and nobody wrote to it yet. *)
HandFresh(p) ==
  \A r \in Hand(run[p]) :
    /\ lead[r].exists /\ lead[r].first = run[p].job
    /\ Accountable(r) => auto[r] = 0 \/ (run[p].pc = "save" /\ run[p].cur = r)

MailInv ==
  /\ HandsOK
  /\ \A r \in Refs : MarkOK(r)
  /\ \A p \in Procs : HandFresh(p)

-------------------------------------------------------------------------------
(* A lead keeps the job that created it, and never becomes pending again. *)
LEMMA LeadFrame ==
  ASSUME TypeOK, WorkerOK, Attributed, NEW r \in Refs
  PROVE  /\ lead[r].exists => lead'[r].exists /\ lead'[r].first = lead[r].first
         /\ lead'[r].status = "pending" => lead[r].status = "pending"
<1>lead. lead \in [Refs -> LeadDoc]
  BY DEF TypeOK
<1>1. ASSUME NEW q \in Refs, NEW s \in {"sent", "failed", "skipped"},
             lead' = [lead EXCEPT ![q].status = s]
      PROVE  /\ lead[r].exists => lead'[r].exists /\ lead'[r].first = lead[r].first
             /\ lead'[r].status = "pending" => lead[r].status = "pending"
  BY <1>1, <1>lead DEF LeadDoc
<1>2. ASSUME NEW q \in Refs, OptOut(q)
      PROVE  /\ lead[r].exists => lead'[r].exists /\ lead'[r].first = lead[r].first
             /\ lead'[r].status = lead[r].status
  BY <1>2, <1>lead DEF OptOut, LeadDoc
<1>edit. ASSUME NEW q \in Refs, Edit(q)
         PROVE  /\ lead[r].exists => lead'[r].exists /\ lead'[r].first = lead[r].first
                /\ lead'[r].status = lead[r].status
  BY <1>edit, EditEffect
<1>3. ASSUME NEW p \in Procs, UpdateLead(p)
      PROVE  /\ lead[r].exists => lead'[r].exists /\ lead'[r].first = lead[r].first
             /\ lead'[r].status = lead[r].status
  BY <1>3, UpdateEffect
<1>4. ASSUME NEW p \in Procs, CreateLead(p)
      PROVE  /\ lead[r].exists => lead'[r].exists /\ lead'[r].first = lead[r].first
             /\ lead'[r].status = lead[r].status
  BY <1>4, <1>lead DEF CreateLead, LeadDoc
<1>5. ASSUME NEW q \in Refs, ResendSave(q)
      PROVE  \E s \in {"sent", "failed", "skipped"} : lead' = [lead EXCEPT ![q].status = s]
  BY <1>5 DEF ResendSave
<1>6. ASSUME NEW p \in Procs, SaveSent(p) \/ SaveThrows(p)
      PROVE  \/ UNCHANGED lead
             \/ \E s \in {"sent", "failed", "skipped"} :
                  run[p].cur \in Refs /\ lead' = [lead EXCEPT ![run[p].cur].status = s]
  BY <1>6, SavedRef DEF SaveSent, SaveThrows, At
<1>7. ASSUME NEW p \in Procs, NEW q \in Refs, SkipMail(p, q) \/ SendRefused(p, q)
      PROVE  \E s \in {"sent", "failed", "skipped"} : lead' = [lead EXCEPT ![q].status = s]
  BY <1>7 DEF SkipMail, SendRefused
<1> QED BY <1>1, <1>2, <1>edit, <1>3, <1>4, <1>5, <1>6, <1>7 DEF Attributed, ChangesLead

(* What is beyond the runs' answering for stays so, for a lead that exists. *)
LEMMA BlameStays ==
  ASSUME TypeOK, WorkerOK, Attributed, NEW r \in Refs, lead[r].exists, Accountable(r)'
  PROVE  Accountable(r)
<1>1. torn \subseteq torn'
  BY DEF Attributed, ChangesTorn, SaveThrows, Die
<1>2. stolen \subseteq stolen'
  BY DEF Attributed, ChangesStolen, Claim, Boot
<1> QED BY <1>1, <1>2, LeadFrame DEF Accountable

(* A worker that saves a mark stays at it until the mark is saved or lost. *)
LEMMA MarkMoves ==
  ASSUME TypeOK, WorkerOK, Attributed, NEW p \in Procs, run[p].pc = "save"
  PROVE  \/ run'[p] = run[p]
         \/ /\ SaveSent(p) /\ lead'[run[p].cur].status = "sent"
            /\ run'[p].todo = run[p].todo \ {run[p].cur} /\ run'[p].made = run[p].made
         \/ run[p].cur \in torn'
<1>run. run \in [Procs -> Worker]
  BY DEF TypeOK
<1>cur. run[p].cur \in Refs
  BY SavedRef
<1>other. ASSUME NEW q \in Procs, OnlyWorker(q), run[q].pc # "save" PROVE run'[p] = run[p]
  BY <1>other DEF OnlyWorker
<1>1. CASE UNCHANGED run
  BY <1>1
<1>2. ASSUME NEW q \in Procs, NEW j \in Jobs, Claim(q, j) PROVE run'[p] = run[p]
  BY <1>2, <1>run, <1>other, ClaimEffect DEF Claim
<1>3. ASSUME NEW q \in Procs, Prepare(q) PROVE run'[p] = run[p]
  BY <1>3, <1>run, <1>other, PrepareEffect, UnwindEffect DEF Prepare, At
<1>4. ASSUME NEW q \in Procs, Compare(q) PROVE run'[p] = run[p]
  BY <1>4, <1>run, <1>other, CompareEffect DEF Compare, At
<1>5. ASSUME NEW q \in Procs, SkipRow(q) \/ CreateLead(q) \/ UpdateLead(q) \/ RowThrows(q)
      PROVE  run'[p] = run[p]
  <2>1. run[q].pc = "rows"
    BY <1>5 DEF SkipRow, CreateLead, UpdateLead, RowThrows, At
  <2> QED BY <1>5, <1>run, <1>other, <2>1, RowEffect
<1>6. ASSUME NEW q \in Procs, RowProgress(q) PROVE run'[p] = run[p]
  BY <1>6, <1>run, <1>other, RowProgressEffect, UnwindEffect DEF RowProgress, At
<1>7. ASSUME NEW q \in Procs, ListOwed(q) PROVE run'[p] = run[p]
  BY <1>7, <1>run, <1>other, ListOwedEffect DEF ListOwed, At
<1>8. ASSUME NEW q \in Procs, NEW r \in Refs, SkipMail(q, r) \/ HoldBack(q, r) \/ SendRefused(q, r)
      PROVE  run'[p] = run[p]
  <2>1. run[q].pc = "mail"
    BY <1>8 DEF SkipMail, HoldBack, SendRefused, At
  <2> QED BY <1>8, <1>run, <1>other, <2>1, MailEffect DEF MovesPast
<1>9. ASSUME NEW q \in Procs, NEW r \in Refs, Send(q, r) PROVE run'[p] = run[p]
  BY <1>9, <1>run, <1>other, SendEffect DEF Send, At
<1>10. ASSUME NEW q \in Procs, q # p, SaveSent(q) \/ SaveThrows(q) PROVE run'[p] = run[p]
  <2>1. run[q].cur \in Refs
    BY <1>10, SavedRef DEF SaveSent, SaveThrows, At
  <2>2. MovesPast(q, run[q].cur) \/ Unwind(q, "failed")
    BY <1>10, <1>run, <2>1, SaveSentEffect, SaveThrowsEffect
  <2> QED BY <1>10, <1>run, <2>2, UnwindEffect DEF MovesPast, OnlyWorker
<1>11. CASE SaveThrows(p)
  BY <1>11 DEF SaveThrows
<1>12. CASE SaveSent(p)
  <2>1. lead' = [lead EXCEPT ![run[p].cur].status = "sent"]
    BY <1>12 DEF SaveSent
  <2>2. lead'[run[p].cur].status = "sent"
    BY <1>cur, <2>1 DEF TypeOK, LeadDoc
  <2> QED BY <1>12, <1>run, <1>cur, <2>2, SaveSentEffect DEF MovesPast, Keeps, PastLeadFields
<1>13. ASSUME NEW q \in Procs, NEW pc, Goto(q, pc) \/ Unwind(q, pc), run[q].pc # "save"
       PROVE  run'[p] = run[p]
  BY <1>13, <1>run, <1>other, GotoEffect, UnwindEffect
<1>14. ASSUME NEW q \in Procs,
              SaveCursor(q) \/ MailProgress(q) \/ Complete(q) \/ Release(q) \/ RecordCancelled(q)
       PROVE  run'[p] = run[p]
  BY <1>14, <1>13 DEF SaveCursor, MailProgress, Complete, Release, RecordCancelled, At
<1>15. ASSUME NEW q \in Procs, Throws(q) PROVE run'[p] = run[p]
  BY <1>15, <1>13 DEF Throws
<1>16. ASSUME NEW q \in Procs, RecordFailure(q) \/ RecordThrows(q) PROVE run'[p] = run[p]
  BY <1>16, <1>run, <1>other, IdleEffect DEF RecordFailure, RecordThrows, At
<1>17. ASSUME NEW q \in Procs, Discard(q) PROVE run'[p] = run[p]
  BY <1>17, <1>run, <1>other, IdleEffect DEF Discard, At
<1>18. ASSUME NEW q \in Procs, Die(q) PROVE run'[p] = run[p] \/ run[p].cur \in torn'
  BY <1>18, <1>run, IdleEffect DEF Die, OnlyWorker
<1> QED
  BY <1>1, <1>2, <1>3, <1>4, <1>5, <1>6, <1>7, <1>8, <1>9, <1>10, <1>11, <1>12, <1>14, <1>15,
     <1>16, <1>17, <1>18
  DEF Attributed, ChangesRun

(* A lead comes into a worker's hands by being created, or by being listed as owed. *)
LEMMA HandMoves ==
  ASSUME TypeOK, WorkerOK, HandsOK, Attributed, NEW p \in Procs, NEW r \in Hand(run'[p])
  PROVE  /\ run'[p].job = run[p].job
         /\ \/ r \in Hand(run[p])
            \/ CreateLead(p) /\ r = RefOf(run[p].job, run[p].at + 1)
            \/ ListOwed(p) /\ r \in StillOwed(run[p].job)
<1>run. run \in [Procs -> Worker]
  BY DEF TypeOK
<1> DEFINE Goal == /\ run'[p].job = run[p].job
                   /\ \/ r \in Hand(run[p])
                      \/ CreateLead(p) /\ r = RefOf(run[p].job, run[p].at + 1)
                      \/ ListOwed(p) /\ r \in StillOwed(run[p].job)
<1>other. ASSUME NEW q \in Procs, OnlyWorker(q), q # p PROVE Goal
  BY <1>other DEF OnlyWorker
<1>keep. ASSUME NEW q \in Procs, OnlyWorker(q), run'[q].job = run[q].job,
                run'[q].made \subseteq run[q].made, run'[q].todo \subseteq run[q].todo
         PROVE  Goal
  BY <1>keep, <1>other DEF Hand
<1>idle. ASSUME NEW q \in Procs, OnlyWorker(q), run'[q].made = {}, run'[q].todo = {} PROVE Goal
  BY <1>idle, <1>other DEF Hand
<1>goto. ASSUME NEW q \in Procs, NEW pc, Goto(q, pc) \/ Unwind(q, pc) PROVE Goal
  BY <1>goto, <1>run, <1>keep, <1>idle, GotoEffect, UnwindEffect DEF Keeps
<1>past. ASSUME NEW q \in Procs, NEW s, MovesPast(q, s) PROVE Goal
  BY <1>past, <1>keep DEF MovesPast, Keeps, PastLeadFields
<1>1. CASE UNCHANGED run
  BY <1>1
<1>2. ASSUME NEW q \in Procs, NEW j \in Jobs, Claim(q, j) PROVE Goal
  BY <1>2, <1>run, <1>idle, ClaimEffect
<1>3. ASSUME NEW q \in Procs, Prepare(q) PROVE Goal
  BY <1>3, <1>run, <1>keep, <1>goto, PrepareEffect DEF Keeps
<1>4. ASSUME NEW q \in Procs, Compare(q) PROVE Goal
  BY <1>4, <1>run, <1>keep, CompareEffect DEF Keeps
<1>5. ASSUME NEW q \in Procs, SkipRow(q) \/ CreateLead(q) \/ UpdateLead(q) \/ RowThrows(q)
      PROVE  Goal
  <2>1. /\ OnlyWorker(q) /\ run'[q].job = run[q].job /\ run'[q].todo = run[q].todo
        /\ run'[q].made = IF CreateLead(q)
                          THEN run[q].made \cup {RefOf(run[q].job, run[q].at + 1)}
                          ELSE run[q].made
    BY <1>5, <1>run, RowEffect DEF Keeps, RowFields
  <2> QED BY <2>1, <1>other DEF Hand
<1>6. ASSUME NEW q \in Procs, RowProgress(q) PROVE Goal
  BY <1>6, <1>run, <1>keep, <1>goto, RowProgressEffect DEF Keeps
<1>7. ASSUME NEW q \in Procs, ListOwed(q) PROVE Goal
  <2>1. /\ OnlyWorker(q) /\ run'[q].job = run[q].job /\ run'[q].made = {}
        /\ \/ run'[q].todo = run[q].todo
           \/ run'[q].todo = run[q].made \cup StillOwed(run[q].job)
    BY <1>7, <1>run, ListOwedEffect DEF Keeps, ListFields
  <2> QED BY <1>7, <2>1, <1>other DEF Hand
<1>8. ASSUME NEW q \in Procs, NEW s \in Refs, SkipMail(q, s) \/ HoldBack(q, s) \/ SendRefused(q, s)
      PROVE  Goal
  BY <1>8, <1>run, <1>past, MailEffect
<1>9. ASSUME NEW q \in Procs, NEW s \in Refs, Send(q, s) PROVE Goal
  BY <1>9, <1>run, <1>keep, SendEffect DEF Keeps, PastLeadFields
<1>10. ASSUME NEW q \in Procs, SaveSent(q) \/ SaveThrows(q) PROVE Goal
  <2>1. run[q].cur \in Refs
    BY <1>10, SavedRef DEF SaveSent, SaveThrows, At
  <2> QED BY <1>10, <1>run, <2>1, <1>past, <1>goto, SaveSentEffect, SaveThrowsEffect
<1>11. ASSUME NEW q \in Procs,
              \/ SaveCursor(q) \/ MailProgress(q) \/ Complete(q) \/ Release(q)
              \/ RecordCancelled(q) \/ Throws(q)
       PROVE  Goal
  BY <1>11, <1>goto DEF SaveCursor, MailProgress, Complete, Release, RecordCancelled, Throws
<1>12. ASSUME NEW q \in Procs, Discard(q) \/ RecordFailure(q) \/ RecordThrows(q) \/ Die(q)
       PROVE  Goal
  BY <1>12, <1>run, <1>idle, IdleEffect DEF Discard, RecordFailure, RecordThrows, Die
<1> QED
  BY <1>1, <1>2, <1>3, <1>4, <1>5, <1>6, <1>7, <1>8, <1>9, <1>10, <1>11, <1>12
  DEF Attributed, ChangesRun

LEMMA HandsStep ==
  ASSUME TypeOK, WorkerOK, HandsOK, Attributed
  PROVE  HandsOK'
<1>run. run \in [Procs -> Worker]
  BY DEF TypeOK
<1>put. ASSUME NEW p \in Procs, OnlyWorker(p), SaneHand(run'[p]) PROVE HandsOK'
  BY <1>put DEF HandsOK, OnlyWorker
<1>idle. ASSUME NEW p \in Procs, OnlyWorker(p), run'[p].made = {}, run'[p].todo = {} PROVE HandsOK'
  BY <1>idle, <1>put DEF SaneHand, Hand
<1>row. ASSUME NEW p \in Procs, OnlyWorker(p),
               run'[p].pc \in {"compare", "rows", "progress", "list", "complete"}
        PROVE  HandsOK'
  BY <1>row, <1>put DEF SaneHand
<1>mail. ASSUME NEW p \in Procs, OnlyWorker(p), run'[p].made = {},
                run'[p].pc \in {"mail", "save", "beat", "complete"}
         PROVE  HandsOK'
  BY <1>mail, <1>put DEF SaneHand
<1>unw. ASSUME NEW p \in Procs, NEW pc, Unwind(p, pc) PROVE HandsOK'
  BY <1>unw, <1>run, <1>idle, UnwindEffect
<1>past. ASSUME NEW p \in Procs, NEW s, MovesPast(p, s), run[p].pc \in {"mail", "save"}
         PROVE  HandsOK'
  BY <1>past, <1>mail DEF MovesPast, Keeps, PastLeadFields, HandsOK, SaneHand
<1>1. CASE UNCHANGED run
  BY <1>1 DEF HandsOK
<1>2. ASSUME NEW p \in Procs, NEW j \in Jobs, Claim(p, j) PROVE HandsOK'
  BY <1>2, <1>run, <1>idle, ClaimEffect
<1>3. ASSUME NEW p \in Procs, Prepare(p) PROVE HandsOK'
  BY <1>3, <1>run, <1>row, <1>unw, PrepareEffect
<1>4. ASSUME NEW p \in Procs, Compare(p) PROVE HandsOK'
  BY <1>4, <1>run, <1>row, CompareEffect
<1>5. ASSUME NEW p \in Procs, SkipRow(p) \/ CreateLead(p) \/ UpdateLead(p) \/ RowThrows(p)
      PROVE  HandsOK'
  <2>1. run[p].pc = "rows"
    BY <1>5 DEF SkipRow, CreateLead, UpdateLead, RowThrows, At
  <2> QED BY <1>5, <1>run, <2>1, <1>row, RowEffect DEF Keeps, RowFields
<1>6. ASSUME NEW p \in Procs, RowProgress(p) PROVE HandsOK'
  BY <1>6, <1>run, <1>row, <1>unw, RowProgressEffect
<1>7. ASSUME NEW p \in Procs, ListOwed(p) PROVE HandsOK'
  BY <1>7, <1>run, <1>mail, ListOwedEffect
<1>8. ASSUME NEW p \in Procs, NEW s \in Refs, SkipMail(p, s) \/ HoldBack(p, s) \/ SendRefused(p, s)
      PROVE  HandsOK'
  <2>1. run[p].pc = "mail"
    BY <1>8 DEF SkipMail, HoldBack, SendRefused, At
  <2> QED BY <1>8, <1>run, <2>1, <1>past, MailEffect
<1>9. ASSUME NEW p \in Procs, NEW s \in Refs, Send(p, s) PROVE HandsOK'
  <2>1. run[p].made = {}
    BY <1>9 DEF Send, At, HandsOK, SaneHand
  <2> QED BY <1>9, <1>run, <2>1, <1>mail, SendEffect DEF Keeps, PastLeadFields
<1>10. ASSUME NEW p \in Procs, SaveSent(p) \/ SaveThrows(p) PROVE HandsOK'
  <2>1. run[p].cur \in Refs /\ run[p].pc = "save"
    BY <1>10, SavedRef DEF SaveSent, SaveThrows, At
  <2> QED BY <1>10, <1>run, <2>1, <1>past, <1>unw, SaveSentEffect, SaveThrowsEffect
<1>11. ASSUME NEW p \in Procs, SaveCursor(p) PROVE HandsOK'
  BY <1>11, <1>run, <1>row, GotoEffect DEF SaveCursor
<1>12. ASSUME NEW p \in Procs, MailProgress(p) PROVE HandsOK'
  <2>1. run[p].made = {}
    BY <1>12 DEF MailProgress, At, HandsOK, SaneHand
  <2>2. CASE Unwind(p, "cancelled")
    BY <2>2, <1>unw
  <2>3. CASE \E pc \in {"complete", "mail"} : Goto(p, pc)
    BY <2>1, <2>3, <1>run, <1>mail, GotoEffect DEF Keeps
  <2> QED BY <1>12, <2>2, <2>3 DEF MailProgress
<1>13. ASSUME NEW p \in Procs, Complete(p) \/ Throws(p) PROVE HandsOK'
  BY <1>13, <1>unw DEF Complete, Throws
<1>14. ASSUME NEW p \in Procs, Release(p) \/ RecordCancelled(p) PROVE HandsOK'
  <2>1. Hand(run[p]) = {} /\ Goto(p, "discard")
    BY <1>14 DEF Release, RecordCancelled, At, HandsOK, SaneHand
  <2> QED BY <1>run, <2>1, <1>idle, GotoEffect DEF Keeps, Hand
<1>15. ASSUME NEW p \in Procs, Discard(p) \/ RecordFailure(p) \/ RecordThrows(p) \/ Die(p)
       PROVE  HandsOK'
  BY <1>15, <1>run, <1>idle, IdleEffect DEF Discard, RecordFailure, RecordThrows, Die
<1> QED
  BY <1>1, <1>2, <1>3, <1>4, <1>5, <1>6, <1>7, <1>8, <1>9, <1>10, <1>11, <1>12, <1>13, <1>14,
     <1>15
  DEF Attributed, ChangesRun

(* Two workers with the same lead in hand, on a job nobody took, are one worker. *)
LEMMA OneHand ==
  ASSUME TypeOK, WorkerOK, LockInv, MailInv, NEW p \in Procs, NEW q \in Procs, NEW r \in Refs,
         r \in Hand(run[p]), Accountable(r),
         Hand(run[q]) # {} \/ run[q].pc \in Working, run[q].job = lead[r].first
  PROVE  p = q
<1>1. run[p].pc \in Working /\ run[q].pc \in Working
  BY DEF MailInv, HandsOK, SaneHand, TypeOK, Worker, Working
<1>2. lead[r].first = run[p].job /\ run[p].job \in Jobs
  BY <1>1 DEF MailInv, HandFresh, WorkerOK, SaneWorker, Working
<1> QED BY <1>1, <1>2 DEF LockInv, Runs, Accountable

LEMMA SendMoves ==
  ASSUME TypeOK, Attributed, NEW r \in Refs
  PROVE  \/ auto'[r] = auto[r]
         \/ \E p \in Procs : Send(p, r) /\ auto'[r] = auto[r] + 1
<1>1. ASSUME NEW p \in Procs, NEW s \in Refs, Send(p, s)
      PROVE  auto'[r] = IF r = s THEN auto[r] + 1 ELSE auto[r]
  BY <1>1 DEF Send, TypeOK
<1> QED BY <1>1 DEF Attributed, ChangesAuto

(* Only what a worker has in hand and has not written to is sent. *)
LEMMA SendIsFirst ==
  ASSUME TypeOK, WorkerOK, MailInv, NEW p \in Procs, NEW r \in Refs, Send(p, r)
  PROVE  /\ r \in Hand(run[p]) /\ lead[r].exists
         /\ Accountable(r) => auto[r] = 0
<1>1. r \in Hand(run[p]) /\ run[p].pc = "mail"
  BY DEF Send, At, Hand
<1> QED BY <1>1 DEF MailInv, HandFresh

LEMMA MarkStep ==
  ASSUME TypeOK, WorkerOK, LockInv, MailInv, Attributed, NEW r \in Refs
  PROVE  MarkOK(r)'
<1>auto. auto[r] \in Nat /\ auto'[r] \in Nat
  BY SendMoves DEF TypeOK
<1>1. CASE auto'[r] = auto[r]
  <2>1. auto'[r] > 0 => lead[r].exists /\ lead'[r].exists
    BY <1>1, LeadFrame DEF MailInv, MarkOK
  <2>2. ASSUME Accountable(r)' PROVE auto'[r] <= 1
    BY <1>1, <1>auto, <2>1, <2>2, BlameStays DEF MailInv, MarkOK
  <2>3. ASSUME Accountable(r)', auto'[r] > 0, lead'[r].status = "pending"
        PROVE  BeingSaved(r)'
    <3>1. Accountable(r) /\ lead[r].status = "pending"
      BY <2>1, <2>3, BlameStays, LeadFrame
    <3>2. PICK p \in Procs : run[p].pc = "save" /\ run[p].cur = r
      BY <1>1, <2>3, <3>1 DEF MailInv, MarkOK, BeingSaved
    <3>3. run'[p] = run[p]
      BY <2>3, <3>2, MarkMoves DEF Accountable
    <3> QED BY <3>2, <3>3 DEF BeingSaved
  <2> QED BY <2>1, <2>2, <2>3 DEF MarkOK
<1>2. ASSUME NEW p \in Procs, Send(p, r), auto'[r] = auto[r] + 1
      PROVE  MarkOK(r)'
  <2>1. lead'[r].exists
    BY <1>2, SendIsFirst, LeadFrame
  <2>2. Accountable(r)' => auto'[r] = 1
    BY <1>2, SendIsFirst, BlameStays
  <2>3. BeingSaved(r)'
    BY <1>2, SendEffect DEF TypeOK, BeingSaved
  <2> QED BY <2>1, <2>2, <2>3 DEF MarkOK
<1> QED BY <1>1, <1>2, SendMoves

LEMMA CreateEffect ==
  ASSUME TypeOK, WorkerOK, NEW p \in Procs, CreateLead(p),
         NEW r, r = RefOf(run[p].job, run[p].at + 1)
  PROVE  r \in Refs /\ ~lead[r].exists /\ lead'[r].exists /\ lead'[r].first = run[p].job
<1> DEFINE j == run[p].job
           i == run[p].at + 1
           v == Sheet[j][i].val
<1>1. j \in Jobs /\ i \in Rows(j) /\ ~IsInvalid(j, i)
  BY DEF CreateLead, WorkerOK, SaneWorker
<1>2. r \in Refs
  BY <1>1, ValidRef
<1>3. /\ ~lead[r].exists
      /\ lead' = [lead EXCEPT ![r].exists = TRUE, ![r].val = v, ![r].first = j]
  BY DEF CreateLead
<1> HIDE DEF j, i, v
<1>4. lead'[r].exists /\ lead'[r].first = j
  BY <1>2, <1>3 DEF TypeOK, LeadDoc
<1> QED BY <1>2, <1>3, <1>4 DEF j

LEMMA HandStep ==
  ASSUME TypeOK, WorkerOK, LockInv, MailInv, Attributed, NEW q \in Procs
  PROVE  HandFresh(q)'
<1> SUFFICES ASSUME NEW r \in Hand(run'[q])
             PROVE  /\ lead'[r].exists /\ lead'[r].first = run'[q].job
                    /\ Accountable(r)' => auto'[r] = 0 \/ (run'[q].pc = "save" /\ run'[q].cur = r)
  BY DEF HandFresh, Hand
<1>moves. /\ run'[q].job = run[q].job
          /\ \/ r \in Hand(run[q])
             \/ CreateLead(q) /\ r = RefOf(run[q].job, run[q].at + 1)
             \/ ListOwed(q) /\ r \in StillOwed(run[q].job)
  BY HandMoves DEF MailInv
<1>1. CASE r \in Hand(run[q])
  <2>r. r \in Refs /\ auto[r] \in Nat
    BY <1>1 DEF TypeOK, Worker, Hand
  <2>1. lead[r].exists /\ lead[r].first = run[q].job
    BY <1>1 DEF MailInv, HandFresh
  <2>2. ASSUME Accountable(r)', auto'[r] # 0
        PROVE  run'[q].pc = "save" /\ run'[q].cur = r
    <3>acc. Accountable(r)
      BY <2>r, <2>1, <2>2, BlameStays
    <3>1. CASE auto'[r] = auto[r]
      <4>1. run[q].pc = "save" /\ run[q].cur = r
        BY <1>1, <2>2, <3>1, <3>acc DEF MailInv, HandFresh
      <4>2. run[q].made = {}
        BY <4>1 DEF MailInv, HandsOK, SaneHand
      <4>3. ~(run'[q].todo = run[q].todo \ {r} /\ run'[q].made = run[q].made)
        BY <4>2 DEF Hand
      <4>4. run'[q] = run[q]
        BY <2>2, <4>1, <4>3, MarkMoves DEF Accountable
      <4> QED BY <4>1, <4>4
    <3>2. ASSUME NEW p \in Procs, Send(p, r) PROVE run'[q].pc = "save" /\ run'[q].cur = r
      <4>1. r \in Hand(run[p])
        BY <2>r, <3>2, SendIsFirst
      <4>2. p = q
        BY <1>1, <2>r, <2>1, <3>acc, <4>1, OneHand
      <4> QED BY <2>r, <3>2, <4>2, SendEffect DEF TypeOK
    <3> QED BY <2>r, <3>1, <3>2, SendMoves
  <2> QED BY <1>moves, <2>r, <2>1, <2>2, LeadFrame
<1>2. CASE CreateLead(q) /\ r = RefOf(run[q].job, run[q].at + 1)
  <2>1. r \in Refs /\ ~lead[r].exists /\ lead'[r].exists /\ lead'[r].first = run[q].job
    BY <1>2, CreateEffect
  <2>2. auto[r] = 0
    BY <2>1 DEF MailInv, MarkOK, TypeOK
  <2>3. auto'[r] = 0
    BY <2>1, <2>2, SendMoves, SendIsFirst
  <2> QED BY <1>moves, <2>1, <2>3
<1>3. CASE ListOwed(q) /\ r \in StillOwed(run[q].job)
  <2>1. /\ r \in Refs /\ auto[r] \in Nat /\ run[q].pc = "list"
        /\ lead[r].exists /\ lead[r].first = run[q].job /\ lead[r].status = "pending"
    BY <1>3 DEF StillOwed, ListOwed, At, TypeOK
  <2>same. ASSUME NEW p \in Procs, r \in Hand(run[p]), Accountable(r) PROVE p = q
    BY <2>same, <2>1, OneHand DEF Working
  <2>2. ASSUME Accountable(r)' PROVE auto'[r] = 0
    <3>acc. Accountable(r)
      BY <2>1, <2>2, BlameStays
    <3>1. auto[r] = 0
      <4> SUFFICES ASSUME auto[r] # 0 PROVE FALSE
        OBVIOUS
      <4>1. PICK p \in Procs : run[p].pc = "save" /\ run[p].cur = r
        BY <2>1, <3>acc DEF MailInv, MarkOK, BeingSaved
      <4>2. r \in Hand(run[p])
        BY <4>1, SavedRef DEF Hand
      <4> QED BY <2>1, <2>same, <3>acc, <4>1, <4>2
    <3>2. ASSUME NEW p \in Procs, Send(p, r) PROVE FALSE
      <4>1. r \in Hand(run[p]) /\ run[p].pc = "mail"
        BY <3>2, <2>1, SendIsFirst DEF Send, At
      <4> QED BY <2>1, <2>same, <3>acc, <4>1
    <3> QED BY <2>1, <3>1, <3>2, SendMoves
  <2> QED BY <1>moves, <2>1, <2>2, LeadFrame
<1> QED BY <1>moves, <1>1, <1>2, <1>3

(* sendIntroduction: the runs introduce the company to an enquiry at most once, unless the
   message went out and its mark did not, or the job was taken from a live worker. *)
THEOREM IntroducedOnceHolds == Spec => []IntroducedOnce
<1>1. Init => MailInv
  <2> SUFFICES ASSUME Init PROVE MailInv
    OBVIOUS
  <2>1. \A p \in Procs : run[p].pc = "idle" /\ Hand(run[p]) = {}
    BY DEF Init, IdleRun, Hand
  <2>2. \A r \in Refs : auto[r] = 0
    BY DEF Init
  <2> QED BY <2>1, <2>2 DEF MailInv, HandsOK, SaneHand, MarkOK, HandFresh
<1>2. TypeOK /\ WorkerOK /\ LockInv /\ MailInv /\ [Next]_vars => MailInv'
  <2> SUFFICES ASSUME TypeOK, WorkerOK, LockInv, MailInv, Attributed PROVE MailInv'
    BY WhoChanges
  <2>1. HandsOK'
    BY HandsStep DEF MailInv
  <2> QED BY <2>1, MarkStep, HandStep DEF MailInv
<1>3. MailInv /\ TypeOK => IntroducedOnce
  <2> SUFFICES ASSUME MailInv, TypeOK, NEW r \in Refs, auto[r] > 1
               PROVE  r \in torn \/ lead[r].first \in stolen
    BY DEF IntroducedOnce
  <2>1. ~(auto[r] <= 1)
    BY DEF TypeOK
  <2> QED BY <2>1 DEF MailInv, MarkOK, Accountable
<1> QED BY <1>1, <1>2, <1>3, TypeCorrect, LockCorrect, PTL DEF Spec

-------------------------------------------------------------------------------
(* A finished run that mailed leaves nothing owed.                           *)

Done == {"completed", "partial"}

(* A worker that mails for j has in hand every lead j still owes, but what was held back. *)
MailsAll(w, j) ==
  w.pc \in {"mail", "save", "beat", "complete"} =>
    /\ w.pc = "complete" => w.todo = {}
    /\ \A r \in StillOwed(j) : r \in w.todo \/ <<j, r>> \in held

OwedInv ==
  \A j \in Jobs \ stolen :
    /\ \A p \in Procs : Runs(p, j) =>
         /\ job[j].status \in Done => run[p].pc \in {"release", "failed"}
         /\ j \in wrote => MailsAll(run[p], j)
    /\ j \in wrote /\ job[j].status \in Done => \A r \in StillOwed(j) : <<j, r>> \in held

(* A lead is owed from its creation by the job on, and no lead is owed again. *)
LEMMA OwedMoves ==
  ASSUME TypeOK, WorkerOK, Attributed, NEW j \in Jobs, NEW r \in StillOwed(j)'
  PROVE  r \in StillOwed(j) \/ \E p \in Procs : CreateLead(p) /\ Runs(p, j)
<1>r. r \in Refs /\ lead'[r].exists /\ lead'[r].first = j /\ lead'[r].status = "pending"
  BY DEF StillOwed
<1>1. CASE lead[r].exists
  BY <1>1, <1>r, LeadFrame DEF StillOwed
<1>2. CASE ~lead[r].exists
  <2>lead. lead \in [Refs -> LeadDoc]
    BY DEF TypeOK
  <2>1. ASSUME NEW q \in Refs, NEW s \in {"sent", "failed", "skipped"},
               lead' = [lead EXCEPT ![q].status = s]
        PROVE  FALSE
    BY <1>2, <1>r, <2>1, <2>lead DEF LeadDoc
  <2>2. ASSUME NEW q \in Refs, OptOut(q) \/ ResendSave(q) PROVE FALSE
    BY <1>2, <1>r, <2>2, <2>lead DEF OptOut, ResendSave, LeadDoc
  <2>edit. ASSUME NEW q \in Refs, Edit(q) PROVE FALSE
    BY <1>2, <1>r, <2>edit, EditEffect
  <2>3. ASSUME NEW p \in Procs, UpdateLead(p) PROVE FALSE
    BY <1>2, <1>r, <2>3, UpdateEffect
  <2>4. ASSUME NEW p \in Procs, SaveSent(p) \/ SaveThrows(p) PROVE FALSE
    BY <1>2, <1>r, <2>1, <2>4, SavedRef DEF SaveSent, SaveThrows, At
  <2>5. ASSUME NEW p \in Procs, NEW q \in Refs, SkipMail(p, q) \/ SendRefused(p, q) PROVE FALSE
    BY <2>1, <2>5 DEF SkipMail, SendRefused
  <2>6. ASSUME NEW p \in Procs, CreateLead(p) PROVE Runs(p, j)
    <3> DEFINE s == RefOf(run[p].job, run[p].at + 1)
               v == Sheet[run[p].job][run[p].at + 1].val
    <3>1. s \in Refs /\ lead'[s].first = run[p].job
      BY <2>6, CreateEffect
    <3>2. lead' = [lead EXCEPT ![s].exists = TRUE, ![s].val = v, ![s].first = run[p].job]
      BY <2>6 DEF CreateLead
    <3>3. r = s
      <4> HIDE DEF s, v
      <4> QED BY <1>2, <1>r, <3>2, <2>lead DEF LeadDoc
    <3> QED BY <1>r, <2>6, <3>1, <3>3 DEF CreateLead, At, Runs, Working
  <2> QED BY <1>r, <1>2, <2>2, <2>edit, <2>3, <2>4, <2>5, <2>6 DEF Attributed, ChangesLead
<1> QED BY <1>1, <1>2

(* Only its own worker finishes a job. *)
LEMMA DoneMoves ==
  ASSUME TypeOK, WorkerOK, Attributed, NEW j \in Jobs, job'[j].status \in Done
  PROVE  job[j].status \in Done \/ \E p \in Procs : Complete(p) /\ Runs(p, j)
<1>job. job \in [Jobs -> JobDoc]
  BY DEF TypeOK
<1> DEFINE Goal == job[j].status \in Done \/ \E p \in Procs : Complete(p) /\ Runs(p, j)
<1>1. ASSUME NEW p \in Procs, NEW k \in Jobs, Upload(p, k) \/ Claim(p, k) PROVE Goal
  BY <1>1, <1>job DEF Upload, Claim, JobDoc, Done
<1>2. ASSUME NEW k \in Jobs, StoreFile(k) \/ StoreFails(k) \/ CancelWrite(k) \/ LockExpires(k)
      PROVE  Goal
  BY <1>2, <1>job DEF StoreFile, StoreFails, CancelWrite, LockExpires, JobDoc, Done
<1>3. ASSUME NEW p \in Procs, SaveCursor(p) PROVE Goal
  BY <1>3, <1>job DEF SaveCursor, JobDoc
<1>4. ASSUME NEW p \in Procs, RowProgress(p) \/ MailProgress(p) \/ Release(p) PROVE Goal
  <2>1. \E l \in {"held", "none"} : job' = [job EXCEPT ![run[p].job].lock = l]
    BY <1>4 DEF RowProgress, MailProgress, Release
  <2> QED BY <2>1, <1>job DEF JobDoc
<1>5. ASSUME NEW p \in Procs, Complete(p) PROVE Goal
  <2>1. \E s \in Done : job' = [job EXCEPT ![run[p].job].status = s]
    BY <1>5 DEF Complete, Done
  <2>2. run[p].job # j => job'[j] = job[j]
    BY <2>1, <1>job
  <2> QED BY <1>5, <2>2 DEF Complete, At, Runs, Working
<1>6. ASSUME NEW p \in Procs, RecordFailure(p) \/ RecordCancelled(p) PROVE Goal
  BY <1>6, <1>job DEF RecordFailure, RecordCancelled, JobDoc, Done
<1>7. ASSUME NEW p \in Procs, Boot(p) PROVE Goal
  BY <1>7, <1>job DEF Boot, Requeued, JobDoc, Done
<1> QED
  BY <1>1, <1>2, <1>3, <1>4, <1>5, <1>6, <1>7 DEF Attributed, ChangesJob

(* From a closed or failed run a worker goes nowhere but out. *)
LEMMA OffMoves ==
  ASSUME TypeOK, WorkerOK, Attributed, NEW q \in Procs, NEW j \in Jobs,
         Runs(q, j), Runs(q, j)', run[q].pc \in {"release", "failed"}
  PROVE  run'[q].pc \in {"release", "failed"}
<1>run. run \in [Procs -> Worker]
  BY DEF TypeOK
<1>1. ASSUME NEW k \in Jobs, Claim(q, k) PROVE FALSE
  BY <1>1 DEF Claim
<1>2. ~(Prepare(q) \/ Compare(q) \/ SaveCursor(q) \/ RowProgress(q) \/ ListOwed(q))
  BY DEF Prepare, Compare, SaveCursor, RowProgress, ListOwed, At
<1>3. ~(SkipRow(q) \/ CreateLead(q) \/ UpdateLead(q) \/ RowThrows(q))
  BY DEF SkipRow, CreateLead, UpdateLead, RowThrows, At
<1>4. ~(SaveSent(q) \/ SaveThrows(q) \/ MailProgress(q) \/ Complete(q) \/ Discard(q)
        \/ RecordCancelled(q))
  BY DEF SaveSent, SaveThrows, MailProgress, Complete, Discard, RecordCancelled, At
<1>5. ASSUME NEW r \in Refs, SkipMail(q, r) \/ HoldBack(q, r) \/ Send(q, r) \/ SendRefused(q, r)
      PROVE  FALSE
  BY <1>5 DEF SkipMail, HoldBack, Send, SendRefused, At
<1>6. CASE Release(q)
  BY <1>6, <1>run, GotoEffect DEF Release, Runs, Working
<1>7. CASE Throws(q)
  BY <1>7, <1>run, UnwindEffect DEF Throws
<1>8. CASE RecordFailure(q) \/ RecordThrows(q) \/ Die(q)
  BY <1>8, <1>run, IdleEffect DEF RecordFailure, RecordThrows, Die, Runs, Working
<1> QED
  BY <1>1, <1>2, <1>3, <1>4, <1>5, <1>6, <1>7, <1>8, OnlyOwnSteps DEF OwnStep

(* The leads of j the worker has in hand shrink only as they are written to or held back. *)
LEMMA MailsAllStays ==
  ASSUME TypeOK, WorkerOK, Attributed, NEW j \in Jobs, NEW q \in Procs, run[q].job = j,
         MailsAll(run[q], j), ~ListOwed(q), StillOwed(j)' \subseteq StillOwed(j)
  PROVE  MailsAll(run[q], j)'
<1>run. run \in [Procs -> Worker]
  BY DEF TypeOK
<1>held. held \subseteq held'
  BY DEF Attributed, ChangesHeld, HoldBack
<1> DEFINE Goal == MailsAll(run[q], j)'
<1>off. ASSUME run'[q].pc \notin {"mail", "save", "beat", "complete"} PROVE Goal
  BY <1>off DEF MailsAll
<1>same. ASSUME run'[q].todo = run[q].todo, run[q].pc \in {"mail", "save", "beat", "complete"},
                run'[q].pc = "complete" => run'[q].todo = {}
         PROVE  Goal
  BY <1>same, <1>held DEF MailsAll
<1>past. ASSUME NEW r \in Refs, MovesPast(q, r), run[q].pc \in {"mail", "save"},
                r \notin StillOwed(j)' \/ <<j, r>> \in held'
         PROVE  Goal
  BY <1>past, <1>held DEF MailsAll, MovesPast
<1>unw. ASSUME NEW pc \in {"cancelled", "failed", "release"}, Unwind(q, pc) PROVE Goal
  BY <1>unw, <1>run, <1>off, UnwindEffect
<1>marked. ASSUME NEW r \in Refs, NEW s \in {"sent", "failed", "skipped"},
                  lead' = [lead EXCEPT ![r].status = s]
           PROVE  r \notin StillOwed(j)'
  BY <1>marked DEF StillOwed, TypeOK, LeadDoc
<1>1. CASE run'[q] = run[q]
  BY <1>1, <1>held DEF MailsAll
<1>2. ASSUME NEW k \in Jobs, Claim(q, k) PROVE Goal
  BY <1>2, <1>run, <1>off, ClaimEffect
<1>3. CASE Prepare(q)
  BY <1>3, <1>run, <1>off, <1>unw, PrepareEffect
<1>4. CASE Compare(q)
  BY <1>4, <1>run, <1>off, CompareEffect
<1>5. CASE SkipRow(q) \/ CreateLead(q) \/ UpdateLead(q) \/ RowThrows(q)
  <2>1. run[q].pc = "rows"
    BY <1>5 DEF SkipRow, CreateLead, UpdateLead, RowThrows, At
  <2> QED BY <1>5, <2>1, <1>run, <1>off, RowEffect DEF Keeps, RowFields
<1>6. CASE SaveCursor(q)
  BY <1>6, <1>run, <1>off, GotoEffect DEF SaveCursor
<1>7. CASE RowProgress(q)
  BY <1>7, <1>run, <1>off, <1>unw, RowProgressEffect
<1>8. CASE SaveSent(q)
  <2>1. run[q].cur \in Refs /\ run[q].pc = "save"
    BY <1>8, SavedRef DEF SaveSent, At
  <2>2. lead' = [lead EXCEPT ![run[q].cur].status = "sent"]
    BY <1>8 DEF SaveSent
  <2> QED BY <1>8, <2>1, <2>2, <1>run, <1>past, <1>marked, SaveSentEffect
<1>9. CASE SaveThrows(q)
  <2>1. run[q].cur \in Refs /\ run[q].pc = "save"
    BY <1>9, SavedRef DEF SaveThrows, At
  <2> QED BY <1>9, <2>1, <1>run, <1>past, <1>unw, <1>marked, SaveThrowsEffect
<1>10. CASE MailProgress(q)
  <2>1. run[q].pc = "beat"
    BY <1>10 DEF MailProgress, At
  <2>2. CASE Unwind(q, "cancelled")
    BY <2>2, <1>unw
  <2>3. CASE Goto(q, IF run[q].todo = {} THEN "complete" ELSE "mail")
    <3>1. /\ run'[q].pc = IF run[q].todo = {} THEN "complete" ELSE "mail"
          /\ run'[q].todo = run[q].todo
      BY <2>3, <1>run, GotoEffect DEF Keeps
    <3> QED BY <2>1, <3>1, <1>same
  <2> QED BY <1>10, <2>2, <2>3 DEF MailProgress
<1>11. CASE Complete(q) \/ Throws(q)
  BY <1>11, <1>unw DEF Complete, Throws
<1>12. CASE Release(q) \/ RecordCancelled(q)
  BY <1>12, <1>run, <1>off, GotoEffect DEF Release, RecordCancelled
<1>13. CASE Discard(q) \/ RecordFailure(q) \/ RecordThrows(q) \/ Die(q)
  BY <1>13, <1>run, <1>off, IdleEffect DEF Discard, RecordFailure, RecordThrows, Die
<1>14. ASSUME NEW r \in Refs, SkipMail(q, r) \/ SendRefused(q, r) PROVE Goal
  <2>1. run[q].pc = "mail" /\ \E s \in {"sent", "failed", "skipped"} : lead' = [lead EXCEPT ![r].status = s]
    BY <1>14 DEF SkipMail, SendRefused, At
  <2> QED BY <1>14, <2>1, <1>run, <1>past, <1>marked, MailEffect
<1>15. ASSUME NEW r \in Refs, HoldBack(q, r) PROVE Goal
  <2>1. run[q].pc = "mail" /\ <<j, r>> \in held'
    BY <1>15 DEF HoldBack, At
  <2> QED BY <1>15, <2>1, <1>run, <1>past, MailEffect
<1>16. ASSUME NEW r \in Refs, Send(q, r) PROVE Goal
  <2>1. /\ run[q].pc = "mail" /\ run'[q].pc = "save" /\ run'[q].todo = run[q].todo
    BY <1>16, <1>run, SendEffect DEF Send, At, Keeps
  <2> QED BY <2>1, <1>same
<1> QED
  BY <1>1, <1>2, <1>3, <1>4, <1>5, <1>6, <1>7, <1>8, <1>9, <1>10, <1>11, <1>12, <1>13, <1>14,
     <1>15, <1>16, OnlyOwnSteps
  DEF OwnStep

LEMMA WroteMoves ==
  ASSUME TypeOK, WorkerOK, Attributed, NEW j \in Jobs, j \in wrote'
  PROVE  j \in wrote \/ \E p \in Procs : ListOwed(p) /\ Runs(p, j)
<1>1. ASSUME NEW p \in Procs, ListOwed(p) PROVE j \in wrote \/ Runs(p, j)
  <2>1. wrote' \subseteq wrote \cup {run[p].job} /\ run[p].pc = "list"
    BY <1>1 DEF ListOwed, At
  <2> QED BY <2>1 DEF Runs, Working
<1> QED BY <1>1 DEF Attributed, ChangesWrote

LEMMA OwedStep ==
  ASSUME TypeOK, WorkerOK, LockInv, OwedInv, Attributed
  PROVE  OwedInv'
<1>run. run \in [Procs -> Worker]
  BY DEF TypeOK
<1> SUFFICES ASSUME NEW j \in Jobs, j \notin stolen'
             PROVE  /\ \A p \in Procs : Runs(p, j)' =>
                         /\ job'[j].status \in Done => run'[p].pc \in {"release", "failed"}
                         /\ j \in wrote' => MailsAll(run[p], j)'
                    /\ j \in wrote' /\ job'[j].status \in Done
                         => \A r \in StillOwed(j)' : <<j, r>> \in held'
  BY DEF OwedInv
<1>old. j \notin stolen
  BY DEF Attributed, ChangesStolen, Claim, Boot
<1>held. held \subseteq held'
  BY DEF Attributed, ChangesHeld, HoldBack
<1>alone. ASSUME NEW p \in Procs, NEW q \in Procs, Runs(p, j), Runs(q, j) PROVE p = q
  BY <1>old, <1>alone DEF LockInv
<1>1. ASSUME NEW q \in Procs, Runs(q, j)', job'[j].status \in Done
      PROVE  run'[q].pc \in {"release", "failed"}
  <2>1. ~Claim(q, j)
    BY <1>1 DEF Claim, TypeOK, JobDoc, Done
  <2>2. Runs(q, j)
    BY <1>1, <2>1, OnlyClaimStarts
  <2>3. CASE job[j].status \in Done
    BY <1>1, <1>old, <2>2, <2>3, OffMoves DEF OwedInv
  <2>4. CASE Complete(q)
    BY <2>4, <1>run, UnwindEffect DEF Complete
  <2> QED BY <1>1, <2>2, <2>3, <2>4, <1>alone, DoneMoves
<1>2. ASSUME NEW q \in Procs, Runs(q, j)', j \in wrote' PROVE MailsAll(run[q], j)'
  <2>1. CASE Claim(q, j)
    BY <2>1, <1>run, ClaimEffect DEF MailsAll
  <2>2. CASE Runs(q, j) /\ ListOwed(q)
    <3>1. lead' = lead /\ run[q].job = j
      BY <2>2 DEF ListOwed, documents, Runs
    <3>2. run[q].mail
      <4>1. ~run[q].mail => wrote' = wrote \ {j}
        BY <2>2, <3>1 DEF ListOwed
      <4> QED BY <1>2, <4>1
    <3>3. /\ run'[q].todo = run[q].made \cup StillOwed(j)
          /\ run'[q].pc = IF run[q].made \cup StillOwed(j) = {} THEN "complete" ELSE "mail"
      BY <2>2, <3>1, <3>2, <1>run, ListOwedEffect
    <3>4. StillOwed(j)' = StillOwed(j)
      BY <3>1 DEF StillOwed
    <3> QED BY <3>3, <3>4 DEF MailsAll
  <2>3. CASE Runs(q, j) /\ CreateLead(q)
    <3>1. run'[q].pc = "rows"
      BY <2>3, <1>run, RowEffect DEF CreateLead, At, Keeps, RowFields
    <3> QED BY <3>1 DEF MailsAll
  <2>4. CASE Runs(q, j) /\ ~ListOwed(q) /\ ~CreateLead(q)
    <3>1. j \in wrote
      BY <1>2, <2>4, <1>alone, WroteMoves
    <3>2. MailsAll(run[q], j) /\ run[q].job = j
      BY <1>old, <2>4, <3>1 DEF OwedInv, Runs
    <3>3. StillOwed(j)' \subseteq StillOwed(j)
      BY <2>4, <1>alone, OwedMoves
    <3> QED BY <2>4, <3>2, <3>3, MailsAllStays
  <2> QED BY <1>2, <2>1, <2>2, <2>3, <2>4, OnlyClaimStarts
<1>3. ASSUME j \in wrote', job'[j].status \in Done, NEW r \in StillOwed(j)'
      PROVE  <<j, r>> \in held'
  <2>1. CASE job[j].status \in Done
    <3>1. ASSUME NEW p \in Procs, Runs(p, j) PROVE ~ListOwed(p) /\ ~CreateLead(p)
      BY <1>old, <2>1, <3>1 DEF OwedInv, ListOwed, CreateLead, At
    <3>2. j \in wrote /\ r \in StillOwed(j)
      BY <1>3, <3>1, WroteMoves, OwedMoves
    <3> QED BY <1>old, <1>held, <2>1, <3>2 DEF OwedInv
  <2>2. ASSUME NEW p \in Procs, Complete(p), Runs(p, j) PROVE <<j, r>> \in held'
    <3>1. run[p].pc = "complete" /\ lead' = lead /\ wrote' = wrote
      BY <2>2 DEF Complete, At, history
    <3>2. r \in StillOwed(j)
      BY <1>3, <3>1 DEF StillOwed
    <3>3. MailsAll(run[p], j)
      BY <1>3, <1>old, <2>2, <3>1 DEF OwedInv
    <3> QED BY <1>held, <3>1, <3>2, <3>3 DEF MailsAll
  <2> QED BY <1>3, <2>1, <2>2, DoneMoves
<1> QED BY <1>1, <1>2, <1>3

(* syncWorkbook's stillOwed: a finished run that had mail to send and a mailbox leaves no
   lead of its job waiting, those of an interrupted attempt included, but what the ceiling
   held back. *)
THEOREM NothingOwedHolds == Spec => []NothingOwed
<1>1. Init => OwedInv
  BY DEF Init, OwedInv, Runs, IdleRun, Working
<1>2. TypeOK /\ WorkerOK /\ LockInv /\ OwedInv /\ [Next]_vars => OwedInv'
  BY OwedStep, WhoChanges
<1>3. TypeOK /\ OwedInv => NothingOwed
  BY DEF OwedInv, NothingOwed, StillOwed, TypeOK, Done
<1> QED BY <1>1, <1>2, <1>3, TypeCorrect, LockCorrect, PTL DEF Spec

-------------------------------------------------------------------------------
(* What a finished job leaves behind: with one process, what its sheet says,  *)
(* but for what people saved since.                                          *)

ChangesEdited ==
  \/ UNCHANGED edited
  \/ \E r \in Refs : Edit(r)
  \/ \E p \in Procs : Compare(p) \/ UpdateLead(p)

LEMMA WhoEdits ==
  ASSUME [Next]_vars
  PROVE  ChangesEdited
<1>1. CASE RequestStep
  <2>1. ASSUME NEW p \in Procs, NEW j \in Jobs, Upload(p, j) \/ CancelRead(p, j)
        PROVE  UNCHANGED edited
    BY <2>1 DEF Upload, CancelRead, history
  <2>2. ASSUME NEW p \in Procs, NEW r \in Refs, ResendLoad(p, r) PROVE UNCHANGED edited
    BY <2>2 DEF ResendLoad, history
  <2>3. ASSUME NEW j \in Jobs, StoreFile(j) \/ StoreFails(j) \/ CancelWrite(j)
        PROVE  UNCHANGED edited
    BY <2>3 DEF StoreFile, StoreFails, CancelWrite, history
  <2>4. ASSUME NEW r \in Refs, OptOut(r) \/ ResendSave(r) PROVE UNCHANGED edited
    BY <2>4 DEF OptOut, ResendSave, history
  <2> QED BY <1>1, <2>1, <2>2, <2>3, <2>4 DEF RequestStep, ChangesEdited
<1>2. ASSUME NEW p \in Procs, WorkerStep(p) PROVE ChangesEdited
  <2>1. CASE (\E j \in Jobs : Claim(p, j)) \/ Prepare(p)
    BY <2>1 DEF Claim, Prepare, history, ChangesEdited
  <2>2. CASE RowStep(p)
    BY <2>2 DEF RowStep, SkipRow, CreateLead, RowThrows, SaveCursor, RowProgress, history,
       ChangesEdited
  <2>3. CASE ListOwed(p) \/ SaveSent(p) \/ SaveThrows(p) \/ MailProgress(p)
    BY <2>3 DEF ListOwed, SaveSent, SaveThrows, MailProgress, history, ChangesEdited
  <2>4. ASSUME NEW r \in Refs, SkipMail(p, r) \/ HoldBack(p, r) \/ Send(p, r) \/ SendRefused(p, r)
        PROVE  UNCHANGED edited
    BY <2>4 DEF SkipMail, HoldBack, Send, SendRefused, history
  <2>5. CASE CloseStep(p)
    BY <2>5 DEF CloseStep, Complete, Release, Discard, Throws, RecordFailure, RecordCancelled,
       RecordThrows, history, ChangesEdited
  <2> QED BY <1>2, <2>1, <2>2, <2>3, <2>4, <2>5 DEF WorkerStep, MailStep, ChangesEdited
<1>3. ASSUME NEW p \in Procs, ProcessStep(p) PROVE UNCHANGED edited
  BY <1>3 DEF ProcessStep, Boot, BlindBoot, Stop, Die, history
<1>4. ASSUME NEW j \in Jobs, LockExpires(j) PROVE UNCHANGED edited
  BY <1>4 DEF LockExpires, history
<1>5. CASE UNCHANGED vars
  BY <1>5 DEF vars, history, ChangesEdited
<1> QED BY <1>1, <1>2, <1>3, <1>4, <1>5 DEF Next, ChangesEdited

(* The row's lead says what the row says, but for the fields people saved since; or it is no row
   to apply, or applying it threw. *)
Reflected(j, i) ==
  \/ IsInvalid(j, i) \/ <<j, i>> \in rowFails
  \/ /\ lead[RefOf(j, i)].exists
     /\ \A f \in Fields : Agrees(j, i, f) \/ <<j, RefOf(j, i), f>> \in edited

Uploaded == {j \in Jobs : job[j].status # "absent"}

(* The queue: jobs that wait hold no lock, and are ordered by their upload; a job is running only
   in the hands of a worker, or while the process is down. *)
QueueInv ==
  /\ \A j \in Jobs :
       /\ job[j].status \in {"absent", "queued"} =>
            job[j].lock = "none" /\ \A p \in Procs : ~Runs(p, j)
       /\ job[j].status = "absent" => job[j].cursor = 0
       /\ job[j].status = "running" => \A p \in Procs : up[p] = "down" \/ Runs(p, j)
       /\ job[j].status # "absent" => job[j].queuedAt <= Cardinality(Uploaded)
  /\ \A j, k \in Uploaded : j # k => job[j].queuedAt # job[k].queuedAt

(* A job on which something was done comes before all that wait, and while a worker is on a job
   nothing was done on those that come after. *)
TurnInv ==
  \A j, k \in Jobs : j # k /\ job[k].status \in InFlight =>
    /\ job[j].status \in InFlight /\ job[j].cursor > 0 => job[j].queuedAt < job[k].queuedAt
    /\ \A p \in Procs : Runs(p, j) => job[k].cursor = 0 /\ job[j].queuedAt < job[k].queuedAt

(* What the worker has walked over, and what it will skip, is as the sheet says. *)
WalkKept(w) ==
  w.pc \in {"rows", "progress"} =>
    \A i \in Rows(w.job) : i <= w.at \/ i \notin w.fresh \cup w.changed => Reflected(w.job, i)

SheetInv ==
  /\ \A j \in Jobs :
       job[j].status \in InFlight \/ (\E p \in Procs : Runs(p, j)) =>
         \A i \in 1..job[j].cursor : Reflected(j, i)
  /\ \A p \in Procs : WalkKept(run[p])

(* A row that its lead reflects stays so, unless a worker updates the leads of another job, or
   compares its own job afresh. *)
LEMMA ReflectedStays ==
  ASSUME TypeOK, WorkerOK, Attributed, ChangesEdited,
         NEW j \in Jobs, NEW i \in Rows(j), Reflected(j, i),
         \A p \in Procs : UpdateLead(p) => run[p].job = j,
         \A p \in Procs : Compare(p) /\ run[p].job = j => i <= ResumeFrom(j)
  PROVE  Reflected(j, i)'
<1> SUFFICES ASSUME ~IsInvalid(j, i), lead[RefOf(j, i)].exists,
                    \A f \in Fields : Agrees(j, i, f) \/ <<j, RefOf(j, i), f>> \in edited
             PROVE  /\ lead'[RefOf(j, i)].exists
                    /\ \A f \in Fields : Agrees(j, i, f)' \/ <<j, RefOf(j, i), f>> \in edited'
  BY LeadsStay DEF Reflected
<1> DEFINE r == RefOf(j, i)
           Goal == \A f \in Fields : Agrees(j, i, f)' \/ <<j, r, f>> \in edited'
           Same == lead'[r].val = lead[r].val
           Kept == \A f \in Fields : <<j, r, f>> \in edited => <<j, r, f>> \in edited'
<1>r. r \in Refs
  BY ValidRef
<1>exists. lead'[r].exists
  BY <1>r, LeadsStay
<1>lead. lead \in [Refs -> LeadDoc] /\ lead[r] \in LeadDoc
  BY <1>r DEF TypeOK
<1>same. Same /\ Kept => Goal
  BY DEF Agrees
<1>update. ASSUME NEW p \in Procs, UpdateLead(p) PROVE Goal \/ (Same /\ Kept)
  <2>k. PICK k : k = run[p].at + 1
    OBVIOUS
  <2>q. PICK q : q = RefOf(j, k)
    OBVIOUS
  <2>1. run[p].job = j
    BY <1>update
  <2>2. /\ k \in Rows(j) /\ ~IsInvalid(j, k) /\ \A s \in Refs \ {q} : lead'[s] = lead[s]
        /\ \A f \in Fields : Agrees(j, k, f)'
        /\ edited' = EditedSince(j, {q})
    BY <1>update, <2>k, <2>q, <2>1, UpdateEffect
  <2>3. CASE k = i
    BY <2>2, <2>3
  <2>4. CASE k # i
    <3>1. q # r
      BY <2>q, <2>2, <2>4 DEF IsInvalid
    <3> QED BY <1>r, <2>2, <3>1 DEF EditedSince
  <2> QED BY <2>3, <2>4
<1>edit. ASSUME NEW q \in Refs, Edit(q) PROVE Goal
  <2>1. PICK f \in Fields : /\ \A g \in Fields \ {f} : lead'[q].val[g] = lead[q].val[g]
                            /\ edited' = edited \cup {<<k, q, f>> : k \in Jobs}
    BY <1>edit, EditEffect
  <2>2. \A s \in Refs \ {q} : lead'[s] = lead[s]
    BY <1>edit, EditEffect
  <2>3. CASE q = r
    <3>1. ASSUME NEW g \in Fields PROVE Agrees(j, i, g)' \/ <<j, r, g>> \in edited'
      <4>1. CASE g = f
        BY <2>1, <2>3, <4>1
      <4>2. CASE g # f
        BY <2>1, <2>3, <4>2 DEF Agrees
      <4> QED BY <4>1, <4>2
    <3> QED BY <3>1
  <2>4. CASE q # r
    BY <1>r, <1>same, <2>1, <2>2, <2>4
  <2> QED BY <2>3, <2>4
<1>val. Goal \/ Same
  <2>1. ASSUME NEW q \in Refs, OptOut(q) \/ ResendSave(q) PROVE Same
    <3> HIDE DEF r
    <3> QED BY <2>1, <1>r, <1>lead DEF OptOut, ResendSave, LeadDoc, r
  <2>2. ASSUME NEW p \in Procs, CreateLead(p) PROVE Same
    <3> DEFINE q == RefOf(run[p].job, run[p].at + 1)
               v == Sheet[run[p].job][run[p].at + 1].val
    <3>1. /\ ~lead[q].exists
          /\ lead' = [lead EXCEPT ![q].exists = TRUE, ![q].val = v, ![q].first = run[p].job]
      BY <2>2 DEF CreateLead
    <3> HIDE DEF q, v
    <3> QED BY <3>1, <1>r, <1>lead DEF LeadDoc
  <2>3. ASSUME NEW p \in Procs, SaveSent(p) \/ SaveThrows(p) PROVE Same
    <3>1. \/ UNCHANGED lead
          \/ \E s \in {"sent", "failed"} : lead' = [lead EXCEPT ![run[p].cur].status = s]
      BY <2>3 DEF SaveSent, SaveThrows
    <3> HIDE DEF r
    <3> QED BY <3>1, <1>r, <1>lead DEF LeadDoc, r
  <2>4. ASSUME NEW p \in Procs, NEW q \in Refs, SkipMail(p, q) \/ SendRefused(p, q) PROVE Same
    <3> HIDE DEF r
    <3> QED BY <2>4, <1>r, <1>lead DEF SkipMail, SendRefused, LeadDoc, r
  <2> QED BY <1>update, <1>edit, <2>1, <2>2, <2>3, <2>4 DEF Attributed, ChangesLead
<1>kept. Goal \/ Kept
  <2>1. ASSUME NEW p \in Procs, Compare(p) PROVE Kept
    <3> DEFINE c == run[p].job
               refs == {RefOf(c, k) : k \in {n \in Rows(c) : n > ResumeFrom(c)}}
    <3>1. edited' = EditedSince(c, refs)
      BY <2>1 DEF Compare
    <3>2. CASE c # j
      BY <3>1, <3>2 DEF EditedSince
    <3>3. CASE c = j
      <4>1. i <= ResumeFrom(j) /\ i \in Nat /\ ResumeFrom(j) \in Nat
        <5>1. job[j].cursor \in Nat
          BY DEF TypeOK, JobDoc
        <5>2. i \in Nat
          BY SheetType
        <5> QED BY <2>1, <3>3, <5>1, <5>2 DEF ResumeFrom
      <4>2. ASSUME NEW k \in Rows(j), k > ResumeFrom(j) PROVE RefOf(j, k) # r
        <5>1. k # i
          BY <4>1, <4>2
        <5> QED BY <5>1 DEF IsInvalid
      <4> QED BY <3>1, <3>3, <4>2 DEF EditedSince
    <3> QED BY <3>2, <3>3
  <2> QED BY <1>update, <1>edit, <2>1 DEF ChangesEdited
<1> QED BY <1>exists, <1>same, <1>val, <1>kept

(* A job's status and its lock, from one step to the next. *)
LEMMA StatusMoves ==
  ASSUME TypeOK, WorkerOK, FileInv, Present, Attributed, NEW j \in Jobs
  PROVE  /\ \/ job'[j].status = job[j].status
            \/ job[j].status # "absent" /\ job'[j].status \in Terminal
            \/ job[j].status = "absent" /\ job'[j].status = "queued" /\ \E p \in Procs : Upload(p, j)
            \/ job'[j].status = "running" /\ \E p \in Procs : Claim(p, j)
            \/ job'[j].status = "queued" /\ job'[j].lock = "none" /\ \E p \in Procs : Boot(p)
         /\ \/ job'[j].lock = job[j].lock \/ job'[j].lock = "none" \/ job[j].lock = "held"
            \/ \E p \in Procs : Claim(p, j) \/ Runs(p, j)
<1>job. job \in [Jobs -> JobDoc]
  BY DEF TypeOK
<1> DEFINE Goal ==
         /\ \/ job'[j].status = job[j].status
            \/ job[j].status # "absent" /\ job'[j].status \in Terminal
            \/ job[j].status = "absent" /\ job'[j].status = "queued" /\ \E p \in Procs : Upload(p, j)
            \/ job'[j].status = "running" /\ \E p \in Procs : Claim(p, j)
            \/ job'[j].status = "queued" /\ job'[j].lock = "none" /\ \E p \in Procs : Boot(p)
         /\ \/ job'[j].lock = job[j].lock \/ job'[j].lock = "none" \/ job[j].lock = "held"
            \/ \E p \in Procs : Claim(p, j) \/ Runs(p, j)
<1>1. ASSUME NEW p \in Procs, NEW k \in Jobs, Upload(p, k) PROVE Goal
  BY <1>1, <1>job DEF Upload, JobDoc
<1>2. ASSUME NEW p \in Procs, NEW k \in Jobs, Claim(p, k) PROVE Goal
  BY <1>2, <1>job DEF Claim, JobDoc
<1>3. ASSUME NEW k \in Jobs, StoreFile(k) PROVE Goal
  BY <1>3, <1>job DEF StoreFile, JobDoc
<1>4. ASSUME NEW k \in Jobs, StoreFails(k) PROVE Goal
  BY <1>4, <1>job DEF StoreFails, JobDoc, Terminal, FileInv
<1>5. ASSUME NEW k \in Jobs, CancelWrite(k) PROVE Goal
  BY <1>5, <1>job DEF CancelWrite, JobDoc, Terminal, Present
<1>6. ASSUME NEW k \in Jobs, LockExpires(k) PROVE Goal
  BY <1>6, <1>job DEF LockExpires, JobDoc
<1>7. ASSUME NEW p \in Procs, SaveCursor(p) PROVE Goal
  BY <1>7, <1>job DEF SaveCursor, JobDoc
<1>8. ASSUME NEW p \in Procs, RowProgress(p) \/ MailProgress(p) \/ Release(p) PROVE Goal
  <2>1. \E l \in {"held", "none"} : job' = [job EXCEPT ![run[p].job].lock = l]
    BY <1>8 DEF RowProgress, MailProgress, Release
  <2>2. run[p].job = j => Runs(p, j)
    BY <1>8 DEF RowProgress, MailProgress, Release, At, Runs, Working
  <2> QED BY <2>1, <2>2, <1>job DEF JobDoc
<1>9. ASSUME NEW p \in Procs, Complete(p) \/ RecordFailure(p) \/ RecordCancelled(p) PROVE Goal
  <2>1. /\ run[p].pc # "idle"
        /\ \E s \in Terminal, l \in {"none", job[run[p].job].lock} :
             job' = [job EXCEPT ![run[p].job].status = s, ![run[p].job].lock = l]
    <3>1. CASE Complete(p)
      <4>1. PICK s \in Terminal : job' = [job EXCEPT ![run[p].job].status = s]
        BY <3>1 DEF Complete, Terminal
      <4>2. job' = [job EXCEPT ![run[p].job].status = s, ![run[p].job].lock = job[run[p].job].lock]
        BY <4>1, <1>job DEF JobDoc
      <4> QED BY <3>1, <4>2 DEF Complete, At
    <3> QED BY <1>9, <3>1 DEF RecordFailure, RecordCancelled, At, Terminal
  <2>2. run[p].job = j => job[j].status # "absent"
    BY <2>1 DEF Present
  <2> QED BY <2>1, <2>2, <1>job DEF JobDoc
<1>10. ASSUME NEW p \in Procs, Boot(p) PROVE Goal
  BY <1>10, <1>job DEF Boot, Requeued, Interrupted, JobDoc
<1> QED
  BY <1>1, <1>2, <1>3, <1>4, <1>5, <1>6, <1>7, <1>8, <1>9, <1>10 DEF Attributed, ChangesJob

(* A job gets its place in the queue by its upload, and keeps it. *)
LEMMA QueuedAtStays ==
  ASSUME TypeOK, Attributed, NEW j \in Jobs
  PROVE  job'[j].queuedAt = job[j].queuedAt \/ \E p \in Procs : Upload(p, j)
<1>job. job \in [Jobs -> JobDoc]
  BY DEF TypeOK
<1> DEFINE Same == job'[j].queuedAt = job[j].queuedAt
<1>1. ASSUME NEW p \in Procs, NEW k \in Jobs, Upload(p, k), j # k PROVE Same
  BY <1>1, <1>job DEF Upload
<1>2. ASSUME NEW p \in Procs, NEW k \in Jobs, Claim(p, k) PROVE Same
  BY <1>2, <1>job DEF Claim, JobDoc
<1>3. ASSUME NEW k \in Jobs, StoreFile(k) \/ StoreFails(k) \/ CancelWrite(k) \/ LockExpires(k)
      PROVE  Same
  BY <1>3, <1>job DEF StoreFile, StoreFails, CancelWrite, LockExpires, JobDoc
<1>4. ASSUME NEW p \in Procs, SaveCursor(p) \/ RecordFailure(p) \/ RecordCancelled(p) PROVE Same
  BY <1>4, <1>job DEF SaveCursor, RecordFailure, RecordCancelled, JobDoc
<1>5. ASSUME NEW p \in Procs, RowProgress(p) \/ MailProgress(p) \/ Release(p) PROVE Same
  <2>1. \E l \in {"held", "none"} : job' = [job EXCEPT ![run[p].job].lock = l]
    BY <1>5 DEF RowProgress, MailProgress, Release
  <2> QED BY <2>1, <1>job DEF JobDoc
<1>6. ASSUME NEW p \in Procs, Complete(p) PROVE Same
  <2>1. \E s \in {"partial", "completed"} : job' = [job EXCEPT ![run[p].job].status = s]
    BY <1>6 DEF Complete
  <2> QED BY <2>1, <1>job DEF JobDoc
<1>7. ASSUME NEW p \in Procs, Boot(p) PROVE Same
  BY <1>7, <1>job DEF Boot, Requeued, JobDoc
<1> QED
  BY <1>1, <1>2, <1>3, <1>4, <1>5, <1>6, <1>7 DEF Attributed, ChangesJob

(* A worker lets go of a job only by giving back its lock, by recording how it ended, by failing
   to, or by dying with its process. *)
LEMMA WhoLetsGo ==
  ASSUME TypeOK, WorkerOK, Attributed, NEW p \in Procs, NEW j \in Jobs, Runs(p, j), ~Runs(p, j)'
  PROVE  Release(p) \/ RecordFailure(p) \/ RecordCancelled(p) \/ RecordThrows(p) \/ Die(p)
<1>run. run \in [Procs -> Worker]
  BY DEF TypeOK
<1>on. ASSUME run'[p].job = run[p].job, run'[p].pc \in Working PROVE FALSE
  BY <1>on DEF Runs
<1>1. CASE run'[p] = run[p]
  BY <1>1 DEF Runs
<1>2. ASSUME NEW k \in Jobs, Claim(p, k) PROVE FALSE
  BY <1>2 DEF Claim, Runs, Working
<1>3. CASE Prepare(p) \/ Compare(p) \/ RowProgress(p) \/ ListOwed(p)
  BY <1>3, <1>run, <1>on, PrepareEffect, CompareEffect, RowProgressEffect, ListOwedEffect,
     UnwindEffect
  DEF Keeps, ListFields, Working
<1>4. CASE SkipRow(p) \/ CreateLead(p) \/ UpdateLead(p) \/ RowThrows(p)
  BY <1>4, <1>run, <1>on, RowEffect
  DEF SkipRow, CreateLead, UpdateLead, RowThrows, At, Keeps, RowFields, Working
<1>5. CASE SaveSent(p) \/ SaveThrows(p)
  <2>1. run[p].cur \in Refs /\ run[p].pc = "save"
    BY <1>5, SavedRef DEF SaveSent, SaveThrows, At
  <2>2. MovesPast(p, run[p].cur) \/ Unwind(p, "failed")
    BY <1>5, <2>1, <1>run, SaveSentEffect, SaveThrowsEffect
  <2> QED BY <2>2, <1>run, <1>on, UnwindEffect DEF MovesPast, Keeps, PastLeadFields, Working
<1>6. CASE SaveCursor(p) \/ MailProgress(p) \/ Complete(p) \/ Throws(p)
  <2>1. \E pc \in Working : Goto(p, pc) \/ Unwind(p, pc)
    BY <1>6 DEF SaveCursor, MailProgress, Complete, Throws, Working
  <2> QED BY <2>1, <1>run, <1>on, GotoEffect, UnwindEffect DEF Keeps
<1>7. CASE Discard(p)
  BY <1>7 DEF Discard, At, Runs, Working
<1>8. ASSUME NEW r \in Refs, SkipMail(p, r) \/ HoldBack(p, r) \/ Send(p, r) \/ SendRefused(p, r)
      PROVE  FALSE
  BY <1>8, <1>run, <1>on, MailEffect, SendEffect DEF MovesPast, Keeps, PastLeadFields, Working
<1> QED BY <1>1, <1>2, <1>3, <1>4, <1>5, <1>6, <1>7, <1>8, OnlyOwnSteps DEF OwnStep

(* One process, whose recovery and whose records of a failure go through. *)
Orderly == (\A p, q \in Procs : p = q) /\ ~BlindBoots /\ MaxFaults = 0

(* With one process a running job has its worker, or the process is down and its boot will
   put the job back in the queue. *)
LEMMA RunningStays ==
  ASSUME Orderly, TypeOK, WorkerOK, FileInv, Present, QueueInv, Attributed,
         NEW j \in Jobs, job'[j].status = "running", NEW p \in Procs
  PROVE  up'[p] = "down" \/ Runs(p, j)'
<1>run. run \in [Procs -> Worker] /\ job \in [Jobs -> JobDoc] /\ faults \in Nat
  BY DEF TypeOK
<1>1. ASSUME NEW q \in Procs, Claim(q, j) PROVE Runs(p, j)'
  BY <1>1, <1>run, ClaimEffect DEF Orderly, Runs, Working
<1>2. CASE job[j].status = "running"
  <2>1. up[p] = "down" \/ Runs(p, j)
    BY <1>2 DEF QueueInv
  <2>2. CASE up[p] = "down" /\ up'[p] # "down"
    <3>1. PICK q \in Procs : Boot(q) \/ Stop(q) \/ Die(q)
      BY <2>2, WorkbookAssumption DEF Attributed, ChangesUp, BlindBoot, Orderly
    <3>2. q = p
      BY DEF Orderly
    <3>3. Boot(p)
      BY <2>2, <3>1, <3>2 DEF Stop, Die
    <3> QED BY <1>2, <1>run, <3>3 DEF Boot, Requeued, Interrupted, JobDoc
  <2>3. CASE Runs(p, j) /\ ~Runs(p, j)' /\ up'[p] # "down"
    <3>1. Release(p) \/ RecordFailure(p) \/ RecordCancelled(p) \/ RecordThrows(p) \/ Die(p)
      BY <2>3, WhoLetsGo
    <3>2. ~RecordThrows(p)
      BY <1>run DEF RecordThrows, Orderly
    <3>3. ~Die(p)
      BY <2>3 DEF Die, TypeOK
    <3>4. ~Release(p)
      BY <1>2, <2>3 DEF Release, At, FileInv, Closed, Runs, Terminal
    <3>5. run[p].job = j
      BY <2>3 DEF Runs
    <3>6. ~RecordFailure(p) /\ ~RecordCancelled(p)
      BY <1>run, <3>5 DEF RecordFailure, RecordCancelled, JobDoc
    <3> QED BY <3>1, <3>2, <3>3, <3>4, <3>6
  <2> QED BY <2>1, <2>2, <2>3
<1> QED BY <1>1, <1>2, StatusMoves DEF Terminal

(* Every step keeps the queue in order. *)
LEMMA QueueStep ==
  ASSUME Orderly, TypeOK, WorkerOK, FileInv, Present, QueueInv, Attributed
  PROVE  QueueInv'
<1>run. run \in [Procs -> Worker] /\ job \in [Jobs -> JobDoc]
  BY DEF TypeOK
<1>fin. IsFiniteSet(Uploaded) /\ Cardinality(Uploaded) \in Nat
  BY WorkbookAssumption, FS_Subset, FS_CardinalityType DEF Uploaded
<1>1. ASSUME NEW j \in Jobs, job'[j].status \in {"absent", "queued"}
      PROVE  job'[j].lock = "none" /\ \A p \in Procs : ~Runs(p, j)'
  <2>1. CASE job'[j].status = job[j].status
    <3>1. job[j].lock = "none" /\ \A p \in Procs : ~Runs(p, j)
      BY <1>1, <2>1 DEF QueueInv
    <3>2. ASSUME NEW p \in Procs, Claim(p, j) PROVE FALSE
      BY <1>1, <1>run, <3>2 DEF Claim, JobDoc
    <3>3. job'[j].lock = "none"
      BY <3>1, <3>2, StatusMoves
    <3> QED BY <3>1, <3>2, <3>3, OnlyClaimStarts
  <2>2. ASSUME NEW p \in Procs, Upload(p, j) PROVE job'[j].lock = "none" /\ UNCHANGED run
                                                    /\ \A q \in Procs : ~Runs(q, j)
    BY <1>run, <2>2 DEF Upload, QueueInv, JobDoc
  <2>3. ASSUME NEW p \in Procs, Boot(p) PROVE \A q \in Procs : ~Runs(q, j)'
    BY <2>3 DEF Boot, MayBoot, Orderly, WorkerOK, IdleRun, Runs, Working
  <2> QED BY <1>1, <2>1, <2>2, <2>3, StatusMoves DEF Terminal, Runs
<1>2. ASSUME NEW j \in Jobs, job'[j].status = "absent" PROVE job'[j].cursor = 0
  <2>1. job[j].status = "absent"
    BY <1>2, StatusMoves DEF Terminal
  <2>2. ASSUME NEW p \in Procs, SaveCursor(p), run[p].job = j PROVE FALSE
    BY <2>1, <2>2 DEF SaveCursor, At, Present
  <2> QED BY <2>1, <2>2, CursorMoves DEF QueueInv
<1>3. CASE \E p \in Procs, u \in Jobs : Upload(p, u)
  <2>1. PICK p \in Procs, u \in Jobs : Upload(p, u)
    BY <1>3
  <2>2. job[u].status = "absent" /\ u \notin Uploaded
    BY <2>1 DEF Upload, Uploaded
  <2> DEFINE n == Cardinality(Uploaded)
  <2>3. job' = [job EXCEPT ![u].status = "queued", ![u].queuedAt = 1 + n]
    BY <2>1 DEF Upload, Uploaded
  <2> HIDE DEF n
  <2>4. /\ job'[u].status = "queued" /\ job'[u].queuedAt = 1 + n
        /\ \A j \in Jobs \ {u} : job'[j] = job[j]
    BY <1>run, <2>3 DEF JobDoc
  <2>5. Uploaded' = Uploaded \cup {u}
    BY <2>2, <2>4 DEF Uploaded
  <2>6. Cardinality(Uploaded') = n + 1
    BY <1>fin, <2>2, <2>5, FS_AddElement DEF n
  <2>7. n \in Nat /\ \A j \in Uploaded : job[j].queuedAt <= n /\ job[j].queuedAt \in Nat
    BY <1>fin, <1>run DEF Uploaded, QueueInv, n, JobDoc
  <2>8. \A j \in Uploaded' : job'[j].queuedAt <= Cardinality(Uploaded')
    BY <2>4, <2>5, <2>6, <2>7 DEF Uploaded
  <2>9. \A j, k \in Uploaded' : j # k => job'[j].queuedAt # job'[k].queuedAt
    BY <2>4, <2>5, <2>7 DEF QueueInv, Uploaded
  <2> QED BY <1>1, <1>2, <2>8, <2>9, RunningStays DEF QueueInv, Uploaded
<1>4. CASE ~\E p \in Procs, u \in Jobs : Upload(p, u)
  <2>1. \A j \in Jobs : /\ job'[j].queuedAt = job[j].queuedAt
                        /\ job'[j].status = "absent" <=> job[j].status = "absent"
    <3>1. ASSUME NEW j \in Jobs PROVE job'[j].status = "absent" <=> job[j].status = "absent"
      <4>1. ASSUME NEW p \in Procs, Claim(p, j) PROVE job[j].status # "absent"
        BY <4>1 DEF Claim, Claimable, InFlight
      <4>2. ASSUME NEW p \in Procs, Boot(p), job'[j].status # job[j].status
            PROVE  job[j].status # "absent"
        BY <4>2, <1>run DEF Boot, Requeued, Interrupted, JobDoc
      <4> QED BY <1>4, <4>1, <4>2, StatusMoves DEF Terminal
    <3> QED BY <1>4, <3>1, QueuedAtStays
  <2>2. Uploaded' = Uploaded
    BY <2>1 DEF Uploaded
  <2>3. ASSUME NEW j \in Jobs, job'[j].status # "absent"
        PROVE  job'[j].queuedAt <= Cardinality(Uploaded')
    BY <2>1, <2>2, <2>3 DEF QueueInv
  <2>4. \A j, k \in Uploaded' : j # k => job'[j].queuedAt # job'[k].queuedAt
    BY <2>1, <2>2 DEF QueueInv, Uploaded
  <2> QED BY <1>1, <1>2, <2>3, <2>4, RunningStays DEF QueueInv, Uploaded
<1> QED BY <1>3, <1>4

(* No job is overtaken: the claim takes the oldest, and a boot puts back what was begun. *)
LEMMA TurnStep ==
  ASSUME Orderly, TypeOK, WorkerOK, FileInv, Present, QueueInv, TurnInv, Attributed
  PROVE  TurnInv'
<1>run. run \in [Procs -> Worker] /\ job \in [Jobs -> JobDoc]
  BY DEF TypeOK
<1>fin. IsFiniteSet(Uploaded) /\ Cardinality(Uploaded) \in Nat
  BY WorkbookAssumption, FS_Subset, FS_CardinalityType DEF Uploaded
<1> SUFFICES ASSUME NEW j \in Jobs, NEW k \in Jobs, j # k, job'[k].status \in InFlight
             PROVE  /\ job'[j].status \in InFlight /\ job'[j].cursor > 0 =>
                         job'[j].queuedAt < job'[k].queuedAt
                    /\ \A p \in Procs : Runs(p, j)' =>
                         job'[k].cursor = 0 /\ job'[j].queuedAt < job'[k].queuedAt
  BY DEF TurnInv
<1>cursor. ASSUME NEW i \in Jobs, job'[i].cursor # job[i].cursor
           PROVE  \E p \in Procs : SaveCursor(p) /\ Runs(p, i)
  BY <1>cursor, CursorMoves DEF SaveCursor, At, Runs, Working
<1>1. CASE \E p \in Procs, u \in Jobs : Upload(p, u)
  <2>1. PICK p \in Procs, u \in Jobs : Upload(p, u)
    BY <1>1
  <2>2. job[u].status = "absent" /\ u \notin Uploaded /\ UNCHANGED run
    BY <2>1 DEF Upload, Uploaded
  <2> DEFINE n == Cardinality(Uploaded)
  <2>3. job' = [job EXCEPT ![u].status = "queued", ![u].queuedAt = 1 + n]
    BY <2>1 DEF Upload, Uploaded
  <2> HIDE DEF n
  <2>4. /\ job'[u].queuedAt = 1 + n /\ job'[u].cursor = job[u].cursor
        /\ \A i \in Jobs \ {u} : job'[i] = job[i]
    BY <1>run, <2>3 DEF JobDoc
  <2>5. n \in Nat /\ \A i \in Uploaded : job[i].queuedAt <= n /\ job[i].queuedAt \in Nat
    BY <1>fin, <1>run DEF Uploaded, QueueInv, n, JobDoc
  <2>6. job[u].cursor = 0 /\ \A q \in Procs : ~Runs(q, u)
    BY <2>2 DEF QueueInv
  <2>7. \A q \in Procs : \A i \in Jobs : Runs(q, i)' <=> Runs(q, i)
    BY <2>2 DEF Runs
  <2>8. CASE k = u
    <3>1. job'[j].status \in InFlight => j \in Uploaded
      BY <2>4, <2>8 DEF Uploaded, InFlight
    <3>2. \A q \in Procs : Runs(q, j) => j \in Uploaded
      BY DEF Uploaded, QueueInv
    <3> QED BY <2>4, <2>5, <2>6, <2>7, <2>8, <3>1, <3>2
  <2>9. CASE j = u
    BY <2>4, <2>6, <2>7, <2>9
  <2>10. CASE j # u /\ k # u
    BY <2>4, <2>7, <2>10 DEF TurnInv
  <2> QED BY <2>8, <2>9, <2>10
<1>2. CASE ~\E p \in Procs, u \in Jobs : Upload(p, u)
  <2>1. \A i \in Jobs : job'[i].queuedAt = job[i].queuedAt
    BY <1>2, QueuedAtStays
  <2>2. \A i \in Jobs : job'[i].status \in InFlight => job[i].status \in InFlight
    <3>1. ASSUME NEW i \in Jobs, NEW p \in Procs, Claim(p, i) PROVE job[i].status \in InFlight
      BY <3>1 DEF Claim, Claimable
    <3>2. ASSUME NEW i \in Jobs, NEW p \in Procs, Boot(p), job'[i].status # job[i].status
          PROVE  job[i].status \in InFlight
      BY <3>2, <1>run DEF Boot, Requeued, Interrupted, JobDoc, InFlight
    <3> QED BY <1>2, <3>1, <3>2, StatusMoves DEF Terminal, InFlight
  <2>3. job[k].status \in InFlight
    BY <2>2
  <2>4. ASSUME job'[j].status \in InFlight, job'[j].cursor > 0
        PROVE  job'[j].queuedAt < job'[k].queuedAt
    <3>1. CASE job'[j].cursor = job[j].cursor
      BY <2>1, <2>2, <2>3, <2>4, <3>1 DEF TurnInv
    <3>2. CASE job'[j].cursor # job[j].cursor
      BY <1>cursor, <2>1, <2>3, <3>2 DEF TurnInv
    <3> QED BY <3>1, <3>2
  <2>5. ASSUME NEW p \in Procs, Runs(p, j)'
        PROVE  job'[k].cursor = 0 /\ job'[j].queuedAt < job'[k].queuedAt
    <3>1. CASE Runs(p, j)
      <4>1. job[k].cursor = 0 /\ job[j].queuedAt < job[k].queuedAt
        BY <2>3, <3>1 DEF TurnInv
      <4>2. ASSUME NEW q \in Procs, Runs(q, k) PROVE FALSE
        BY <3>1, <4>2 DEF Orderly, Runs
      <4> QED BY <1>cursor, <2>1, <4>1, <4>2
    <3>2. CASE Claim(p, j)
      <4>1. up[p] = "up" /\ run[p].pc = "idle" /\ job[j].status \in InFlight
        BY <3>2 DEF Claim, Claimable
      <4>2. job[k].status = "queued"
        BY <2>3, <4>1 DEF InFlight, QueueInv, Runs, Working
      <4>3. Claimable(k)
        BY <4>2 DEF Claimable, LockFree, InFlight, QueueInv
      <4>4. job[j].queuedAt <= job[k].queuedAt
        BY <3>2, <4>3 DEF Claim
      <4>5. job[j].queuedAt # job[k].queuedAt
        BY <4>1, <4>2 DEF QueueInv, Uploaded, InFlight
      <4>6. {job[j].queuedAt, job[k].queuedAt, job[k].cursor} \subseteq Nat
        BY <1>run DEF JobDoc
      <4>7. ~(job[k].cursor > 0)
        BY <2>3, <4>1, <4>4, <4>6 DEF TurnInv
      <4>8. job'[k].cursor = job[k].cursor
        BY <3>2, <1>run DEF Claim, JobDoc
      <4> QED BY <2>1, <4>4, <4>5, <4>6, <4>7, <4>8
    <3> QED BY <2>5, <3>1, <3>2, OnlyClaimStarts
  <2> QED BY <2>4, <2>5
<1> QED BY <1>1, <1>2

(* What is behind the cursor and behind the worker stays as the sheet says. *)
LEMMA SheetStep ==
  ASSUME Orderly, TypeOK, WorkerOK, CursorSound, RowInv, FileInv, Present, QueueInv, TurnInv,
         SheetInv, Attributed, ChangesEdited
  PROVE  SheetInv'
<1>run. run \in [Procs -> Worker] /\ job \in [Jobs -> JobDoc]
  BY DEF TypeOK
<1>rows. ASSUME NEW j \in Jobs PROVE /\ Len(Sheet[j]) \in Nat /\ Rows(j) = 1..Len(Sheet[j])
                                     /\ job[j].cursor \in Nat /\ 1..job[j].cursor \subseteq Rows(j)
  <2>1. Len(Sheet[j]) \in Nat /\ Rows(j) = 1..Len(Sheet[j])
    BY SheetType
  <2>2. job[j].cursor \in Nat /\ job[j].cursor <= Len(Sheet[j])
    BY <1>run DEF JobDoc, CursorSound
  <2> QED BY <2>1, <2>2
(* The job a worker is on keeps the rows it has. *)
<1>own. ASSUME NEW p \in Procs, NEW j \in Jobs, run[p].job = j, NEW i \in Rows(j), Reflected(j, i),
               ~Compare(p) \/ i <= ResumeFrom(j)
        PROVE  Reflected(j, i)'
  BY <1>own, ReflectedStays DEF Orderly
<1>1. ASSUME NEW j \in Jobs, job'[j].status \in InFlight \/ (\E p \in Procs : Runs(p, j)'),
             NEW i \in 1..job'[j].cursor
      PROVE  Reflected(j, i)'
  <2>1. CASE \E p \in Procs : SaveCursor(p) /\ run[p].job = j /\ job'[j].cursor = run[p].at
    <3>1. PICK p \in Procs : SaveCursor(p) /\ run[p].job = j /\ job'[j].cursor = run[p].at
      BY <2>1
    <3>2. run[p].pc = "rows"
      BY <3>1 DEF SaveCursor, At
    <3>3. i \in Rows(j)
      BY <1>1, <1>rows, <3>1, <3>2 DEF RowInv, RowsDone
    <3>4. Reflected(j, i)
      BY <1>1, <3>1, <3>2, <3>3 DEF SheetInv, WalkKept
    <3> QED BY <1>own, <3>1, <3>2, <3>3, <3>4 DEF Compare, At
  <2>2. CASE job'[j].cursor = job[j].cursor
    <3>1. i \in Rows(j) /\ i \in 1..job[j].cursor /\ job[j].cursor > 0
      BY <1>1, <1>rows, <2>2
    <3>2. job[j].status \in InFlight \/ \E p \in Procs : Runs(p, j)
      <4>1. ASSUME NEW p \in Procs, Claim(p, j) PROVE job[j].status \in InFlight
        BY <4>1 DEF Claim, Claimable
      <4>2. ASSUME NEW p \in Procs, Boot(p), job'[j].status # job[j].status
            PROVE  job[j].status \in InFlight
        BY <4>2, <1>run DEF Boot, Requeued, Interrupted, JobDoc, InFlight
      <4>3. job[j].status # "absent"
        BY <3>1 DEF QueueInv
      <4>4. CASE job'[j].status \in InFlight
        BY <4>1, <4>2, <4>3, <4>4, StatusMoves DEF Terminal, InFlight
      <4> QED BY <1>1, <4>1, <4>4, OnlyClaimStarts
    <3>3. Reflected(j, i)
      BY <3>1, <3>2 DEF SheetInv
    <3>4. ASSUME NEW p \in Procs, UpdateLead(p), run[p].job # j PROVE FALSE
      <4>1. run[p].job \in Jobs /\ Runs(p, run[p].job)
        BY <3>4 DEF UpdateLead, At, WorkerOK, SaneWorker, Runs, Working
      <4>2. ~Runs(p, j)
        BY <3>4 DEF Runs
      <4>3. job[j].status \in InFlight
        BY <3>2, <4>2 DEF Orderly
      <4>4. job[j].cursor = 0
        BY <3>4, <4>1, <4>3 DEF TurnInv
      <4> QED BY <3>1, <4>4
    <3>5. i <= ResumeFrom(j)
      BY <3>1, <1>rows DEF ResumeFrom
    <3> QED BY <3>1, <3>3, <3>4, <3>5, ReflectedStays
  <2> QED BY <2>1, <2>2, CursorMoves
<1>2. ASSUME NEW p \in Procs PROVE WalkKept(run[p])'
  <2> DEFINE Goal == WalkKept(run[p])'
  <2>out. ASSUME run'[p].pc \notin {"rows", "progress"} PROVE Goal
    BY <2>out DEF WalkKept
  <2>unw. ASSUME NEW pc \in {"cancelled", "failed", "release"}, Unwind(p, pc) PROVE Goal
    BY <1>run, <2>unw, <2>out, UnwindEffect
  <2>keep. ASSUME run[p].pc \in {"rows", "progress"}, run'[p].job = run[p].job,
                  run'[p].fresh = run[p].fresh, run'[p].changed = run[p].changed,
                  run'[p].at = run[p].at
           PROVE  Goal
    <3>1. run[p].job \in Jobs
      BY <2>keep DEF WorkerOK, SaneWorker
    <3> QED BY <1>own, <2>keep, <3>1 DEF SheetInv, WalkKept, Compare, At
  <2>1. CASE run'[p] = run[p]
    BY <2>1, <2>keep, <2>out
  <2>2. ASSUME NEW k \in Jobs, Claim(p, k) PROVE Goal
    BY <2>2, <1>run, <2>out, ClaimEffect
  <2>3. CASE Prepare(p)
    BY <2>3, <1>run, <2>out, <2>unw, PrepareEffect
  <2>4. CASE Compare(p)
    <3>1. PICK j \in Jobs : j = run[p].job
      BY <2>4 DEF Compare, At, WorkerOK, SaneWorker
    <3>2. /\ run'[p].job = j /\ run'[p].fresh = NewRows(j) /\ run'[p].changed = UpdatedRows(j)
          /\ run'[p].at = job[j].cursor
      BY <2>4, <3>1, <1>run, CompareEffect DEF Keeps, ResumeFrom
    <3>3. Runs(p, j)
      BY <2>4, <3>1 DEF Compare, At, Runs, Working
    <3>4. ASSUME NEW i \in Rows(j), i <= job[j].cursor PROVE Reflected(j, i)
      BY <1>rows, <3>3, <3>4 DEF SheetInv
    <3>5. ASSUME NEW i \in Rows(j), i <= job[j].cursor PROVE Reflected(j, i)'
      BY <1>own, <3>1, <3>4, <3>5 DEF ResumeFrom
    <3>6. ASSUME NEW i \in Rows(j), i \notin NewRows(j) \cup UpdatedRows(j) PROVE Reflected(j, i)'
      <4>1. UNCHANGED lead
        BY <2>4 DEF Compare, documents
      <4> QED BY <3>6, <4>1 DEF NewRows, UpdatedRows, Reflected, Agrees
    <3> QED BY <3>2, <3>5, <3>6 DEF WalkKept
  <2>5. CASE SkipRow(p) \/ CreateLead(p) \/ UpdateLead(p) \/ RowThrows(p)
    <3>1. At(p, "rows") /\ run[p].at < ChunkEnd(p) /\ run[p].pc = "rows" /\ ~Compare(p)
      BY <2>5 DEF SkipRow, CreateLead, UpdateLead, RowThrows, At, Compare
    <3>j. PICK j \in Jobs : j = run[p].job
      BY <3>1 DEF At, WorkerOK, SaneWorker
    <3>i. PICK i \in Rows(j) : i = run[p].at + 1
      BY <3>1, <3>j, <1>rows, <1>run, ReadyRow DEF Worker
    <3>2. run[p].at \in Nat
      BY <1>run DEF Worker
    <3>3. /\ run'[p].job = j /\ run'[p].fresh = run[p].fresh /\ run'[p].changed = run[p].changed
          /\ run'[p].at = i
      BY <2>5, <1>run, <3>j, <3>i, RowEffect DEF Keeps, RowFields
    <3>4. Reflected(j, i)'
      <4>1. CASE SkipRow(p)
        <5>1. i \notin run[p].fresh \cup run[p].changed
          BY <4>1, <3>i DEF SkipRow
        <5>2. Reflected(j, i)
          BY <3>1, <3>j, <5>1 DEF SheetInv, WalkKept
        <5> QED BY <1>own, <3>1, <3>j, <5>2
      <4>2. CASE CreateLead(p)
        <5> DEFINE r == RefOf(j, i)
                   v == Sheet[j][i].val
        <5>1. r \in Refs
          BY <4>2, <3>i, <3>j, ValidRef DEF CreateLead, WorkerOK, SaneWorker
        <5>2. lead' = [lead EXCEPT ![r].exists = TRUE, ![r].val = v, ![r].first = j]
          BY <4>2, <3>i, <3>j DEF CreateLead
        <5>3. lead'[r].exists /\ lead'[r].val = v
          <6> HIDE DEF r, v
          <6> QED BY <5>1, <5>2 DEF TypeOK, LeadDoc
        <5> QED BY <5>3 DEF Reflected, Agrees
      <4>4. CASE UpdateLead(p)
        <5>1. /\ lead'[RefOf(j, i)].exists = lead[RefOf(j, i)].exists
              /\ \A f \in Fields : Agrees(j, i, f)'
          BY <4>4, <3>i, <3>j, UpdateEffect
        <5>2. lead[RefOf(j, i)].exists \/ IsInvalid(j, i)
          BY <4>4, <3>i, <3>j, <3>1 DEF UpdateLead, RowInv, RowsDone
        <5> QED BY <5>1, <5>2 DEF Reflected
      <4>3. CASE RowThrows(p)
        BY <4>3, <3>j, <3>i DEF RowThrows, Reflected
      <4> QED BY <2>5, <4>1, <4>2, <4>3, <4>4
    <3>5. ASSUME NEW k \in Rows(j), k <= i \/ k \notin run[p].fresh \cup run[p].changed
          PROVE  Reflected(j, k)'
      <4>1. CASE k = i
        BY <3>4, <4>1
      <4>2. CASE k # i
        <5>1. k <= run[p].at \/ k \notin run[p].fresh \cup run[p].changed
          BY <3>i, <3>2, <3>5, <4>2, <1>rows
        <5>2. Reflected(j, k)
          BY <3>1, <3>j, <5>1 DEF SheetInv, WalkKept
        <5> QED BY <1>own, <3>1, <3>j, <5>2
      <4> QED BY <4>1, <4>2
    <3> QED BY <3>3, <3>5 DEF WalkKept
  <2>6. CASE SaveCursor(p)
    BY <2>6, <1>run, <2>keep, GotoEffect DEF SaveCursor, At, Keeps
  <2>7. CASE RowProgress(p)
    BY <2>7, <1>run, <2>keep, <2>unw, RowProgressEffect DEF RowProgress, At, Keeps
  <2>8. CASE ListOwed(p)
    BY <2>8, <1>run, <2>out, ListOwedEffect
  <2>9. CASE SaveSent(p) \/ SaveThrows(p)
    <3>1. run[p].cur \in Refs
      BY <2>9, SavedRef DEF SaveSent, SaveThrows, At
    <3> QED BY <2>9, <3>1, <1>run, <2>out, <2>unw, SaveSentEffect, SaveThrowsEffect DEF MovesPast
  <2>10. CASE MailProgress(p) \/ Complete(p) \/ Throws(p)
    <3>1. CASE \E pc \in {"release", "cancelled", "failed"} : Unwind(p, pc)
      BY <3>1, <2>unw
    <3>2. CASE \E pc \in {"complete", "mail"} : Goto(p, pc)
      BY <3>2, <1>run, <2>out, GotoEffect
    <3> QED BY <2>10, <3>1, <3>2 DEF MailProgress, Complete, Throws
  <2>11. CASE Release(p) \/ RecordCancelled(p)
    BY <2>11, <1>run, <2>out, GotoEffect DEF Release, RecordCancelled
  <2>12. CASE Discard(p) \/ RecordFailure(p) \/ RecordThrows(p) \/ Die(p)
    BY <2>12, <1>run, <2>out, IdleEffect DEF Discard, RecordFailure, RecordThrows, Die
  <2>13. ASSUME NEW r \in Refs, SkipMail(p, r) \/ HoldBack(p, r) \/ SendRefused(p, r) PROVE Goal
    BY <2>13, <1>run, <2>out, MailEffect DEF MovesPast
  <2>14. ASSUME NEW r \in Refs, Send(p, r) PROVE Goal
    BY <2>14, <1>run, <2>out, SendEffect
  <2> QED
    BY <2>1, <2>2, <2>3, <2>4, <2>5, <2>6, <2>7, <2>8, <2>9, <2>10, <2>11, <2>12, <2>13, <2>14,
       OnlyOwnSteps
    DEF OwnStep
<1> QED BY <1>1, <1>2 DEF SheetInv

(* The step that reports a job finished finds every row behind the cursor. *)
LEMMA FinishShows ==
  ASSUME TypeOK, WorkerOK, CursorInv, SheetInv, stolen = {}, Attributed, NEW j \in Jobs,
         job[j].status \notin Terminal, job'[j].status \in Done
  PROVE  \A i \in Rows(j) : Reflected(j, i)
<1>1. PICK p \in Procs : Complete(p) /\ Runs(p, j)
  BY DoneMoves DEF Done, Terminal
<1>2. job[j].cursor = Len(Sheet[j])
  BY <1>1 DEF CursorInv, CursorAt, Complete, At, Runs
<1>3. Rows(j) = 1..Len(Sheet[j])
  BY SheetType
<1> QED BY <1>1, <1>2, <1>3 DEF SheetInv

(* With one process, whose recovery goes through and whose failures are recorded, a job that is
   reported finished has left every lead as its sheet says, however often it broke off, was
   taken up again, or was cancelled meanwhile; people save the same fields all the while, and
   only what they saved since the row was settled differs. *)
THEOREM FinishHolds ==
  ASSUME \A p, q \in Procs : p = q, ~BlindBoots, MaxFaults = 0
  PROVE  Spec => FinishReflectsSheet
<1>o. Orderly
  BY DEF Orderly
<1> DEFINE Inv == /\ LockInv /\ CursorSound /\ RowInv /\ FileInv /\ Present /\ CursorInv
                  /\ stolen = {} /\ QueueInv /\ TurnInv /\ SheetInv
<1>1. Init => Inv
  <2> SUFFICES ASSUME Init PROVE Inv
    OBVIOUS
  <2>1. \A p \in Procs : run[p].pc = "idle" /\ \A j \in Jobs : ~Runs(p, j)
    BY DEF Init, IdleRun, Runs, Working
  <2>2. \A j \in Jobs : /\ job[j].status = "absent" /\ ~job[j].file /\ job[j].cursor = 0
                        /\ job[j].lock = "none" /\ job[j].queuedAt = 0
                        /\ store[j] = None /\ cancel[j].by = None /\ Len(Sheet[j]) \in Nat
    BY SheetType DEF Init
  <2>3. LockInv /\ CursorInv /\ RowInv /\ stolen = {}
    BY <2>1 DEF LockInv, CursorInv, RowInv, RowsDone, Init
  <2>4. CursorSound /\ FileInv /\ Present
    BY <2>1, <2>2 DEF CursorSound, FileInv, FileKept, Closed, Present, InFlight
  <2>5. QueueInv /\ TurnInv /\ SheetInv
    BY <2>1, <2>2 DEF QueueInv, TurnInv, SheetInv, WalkKept, Uploaded, InFlight
  <2> QED BY <2>3, <2>4, <2>5
<1>2. TypeOK /\ WorkerOK /\ Inv /\ [Next]_vars =>
        /\ Inv'
        /\ [\A j \in Jobs :
             job[j].status \notin Terminal /\ job'[j].status \in {"completed", "partial"} =>
               \A i \in Rows(j) :
                 \/ IsInvalid(j, i) \/ <<j, i>> \in rowFails
                 \/ /\ lead[RefOf(j, i)].exists
                    /\ \A f \in Fields : Agrees(j, i, f) \/ <<j, RefOf(j, i), f>> \in edited]_vars
  <2> SUFFICES ASSUME TypeOK, WorkerOK, Inv, [Next]_vars
               PROVE  /\ Inv'
                      /\ \A j \in Jobs :
                           /\ job[j].status \notin Terminal
                           /\ job'[j].status \in {"completed", "partial"}
                           => \A i \in Rows(j) : Reflected(j, i)
    BY DEF Reflected
  <2>1. Attributed /\ ChangesCancel /\ ChangesEdited
    BY WhoChanges, WhoCancels, WhoEdits
  <2>2. LockInv' /\ CursorSound' /\ RowInv' /\ FileInv' /\ Present' /\ CursorInv' /\ stolen' = {}
    BY <2>1, LockStep, CursorStep, RowStepOK, FileStep, PresentStep, CursorAtStep, NoneStolen
  <2>3. QueueInv' /\ TurnInv' /\ SheetInv'
    BY <1>o, <2>1, QueueStep, TurnStep, SheetStep
  <2>4. \A j \in Jobs :
          job[j].status \notin Terminal /\ job'[j].status \in Done
            => \A i \in Rows(j) : Reflected(j, i)
    BY <2>1, FinishShows
  <2> QED BY <2>2, <2>3, <2>4 DEF Done
<1> QED BY <1>1, <1>2, TypeCorrect, PTL DEF Spec, FinishReflectsSheet
================================================================================
