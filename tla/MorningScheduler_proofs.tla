------------------------ MODULE MorningScheduler_proofs ------------------------
(****************************************************************************)
(* Types, mutual exclusion and uniqueness of the job for the morning run.    *)
(****************************************************************************)
EXTENDS MorningScheduler, TLAPS

ActOK == act \in [Actors -> Actor] /\ \A a \in Actors : HasBook(act[a])

(* The steps of one actor: what it becomes is an actor again. *)
LEMMA ActorPut ==
  ASSUME TypeOK, NEW a \in Actors, NEW w \in Actor, HasBook(w),
         act' = [act EXCEPT ![a] = w]
  PROVE  ActOK'
BY DEF TypeOK, ActOK

(* Taking a claim leaves the setting and the actors in range. *)
LEMMA ClaimType ==
  ASSUME TypeOK, NEW a \in Actors, NEW n \in Nat, TakeClaim(a, n)
  PROVE  lastRun' \in Setting /\ ActOK' /\ stolen' \in BOOLEAN
<1>1. lastRun' \in Setting
  BY DEF TakeClaim, TypeOK, Setting
<1>2. ActOK'
  <2> DEFINE w == [Idle EXCEPT !.pc = "look", !.attempts = n]
  <2>1. w \in Actor /\ HasBook(w)
    BY DEF Idle, Actor, HasBook, Final
  <2>2. act' = [act EXCEPT ![a] = w]
    BY DEF TakeClaim
  <2> HIDE DEF w
  <2> QED BY <2>1, <2>2, ActorPut
<1>3. stolen' \in BOOLEAN
  BY DEF TakeClaim
<1> QED BY <1>1, <1>2, <1>3

LEMMA OutcomeType ==
  ASSUME TypeOK, NEW a \in Actors, NEW s \in {"retrying"} \cup Final, Outcome(a, s),
         s = "queued" => act[a].book # None
  PROVE  ActOK'
<1> DEFINE w == [act[a] EXCEPT !.pc = "record", !.outcome = s]
<1>1. w \in Actor /\ HasBook(w)
  BY DEF TypeOK, Actor, HasBook
<1>2. act' = [act EXCEPT ![a] = w]
  BY DEF Outcome, TypeOK, Actor
<1> HIDE DEF w
<1> QED BY <1>1, <1>2, ActorPut

LEMMA TypeStep ==
  ASSUME TypeOK, [Next]_vars
  PROVE  TypeOK'
<1> USE MorningAssumption DEF MorningAssumption
<1>1. CASE WorldStep
  <2>1. CASE TimeComes \/ ChangeSettings
    <3>1. due' \in BOOLEAN /\ enabled' \in BOOLEAN /\ changes' \in Nat
      <4>1. changes' \in Nat
        BY <2>1 DEF TimeComes, ChangeSettings, TypeOK, used
      <4>2. due' \in BOOLEAN
        BY <2>1 DEF TimeComes, ChangeSettings, TypeOK
      <4>3. enabled' \in BOOLEAN
        BY <2>1 DEF TimeComes, ChangeSettings, TypeOK
      <4> QED BY <4>1, <4>2, <4>3
    <3>2. UNCHANGED <<day, files, records, up, act, deaths, throws, losses, presses, history>>
      BY <2>1 DEF TimeComes, ChangeSettings, used
    <3> QED BY <3>1, <3>2 DEF TypeOK, files, records, history
  <2>2. CASE NewDay
    <3>1. day' \in 1..MaxDay
      BY <2>2 DEF NewDay, TypeOK
    <3>2. due' \in BOOLEAN /\ decided' \in Nat
      BY <2>2 DEF NewDay
    <3> QED BY <2>2, <3>1, <3>2 DEF NewDay, TypeOK, files, records, used
  <2>3. CASE Settles \/ \E b \in Books : Arrives(b)
    <3>1. inbox' \in Books \cup {None} /\ settled' \in BOOLEAN
      BY <2>3 DEF Settles, Arrives, TypeOK
    <3> QED BY <2>3, <3>1 DEF Settles, Arrives, TypeOK, clock, records, used, history
  <2>4. CASE RetryComes \/ ClaimExpires
    <3>1. lastRun' \in Setting
      BY <2>4 DEF RetryComes, ClaimExpires, TypeOK, Setting
    <3> QED BY <2>4, <3>1 DEF RetryComes, ClaimExpires, TypeOK, clock, files, used, history
  <2> QED BY <1>1, <2>1, <2>2, <2>3, <2>4 DEF WorldStep
<1>2. ASSUME NEW p \in Procs, TickClaims(p) PROVE TypeOK'
  <2> DEFINE n == IF lastRun.day = day THEN lastRun.attempts + 1 ELSE 1
  <2>1. n \in Nat
    BY DEF TypeOK, Setting
  <2>2. <<p, "tick">> \in Actors /\ TakeClaim(<<p, "tick">>, n)
    BY <1>2 DEF Actors, TickClaims
  <2> HIDE DEF n
  <2>3. lastRun' \in Setting /\ ActOK' /\ stolen' \in BOOLEAN
    BY <2>1, <2>2, ClaimType
  <2> QED BY <1>2, <2>3 DEF TickClaims, TypeOK, ActOK, clock, files, used
<1>3. ASSUME NEW p \in Procs, PressRunNow(p) PROVE TypeOK'
  <2>1. <<p, "now">> \in Actors /\ TakeClaim(<<p, "now">>, 1)
    BY <1>3 DEF Actors, PressRunNow
  <2>2. lastRun' \in Setting /\ ActOK' /\ stolen' \in BOOLEAN
    BY <2>1, ClaimType
  <2> QED BY <1>3, <2>2 DEF PressRunNow, TypeOK, ActOK, clock, files
<1>4. ASSUME NEW p \in Procs, Boot(p) \/ Stop(p) PROVE TypeOK'
  <2>1. up' \in [Procs -> {"down", "up", "stopping"}] /\ deaths' \in Nat
    BY <1>4 DEF Boot, Stop, TypeOK, used
  <2> QED BY <1>4, <2>1 DEF Boot, Stop, TypeOK, clock, files, records, used, history
<1>5. ASSUME NEW p \in Procs, Die(p) PROVE TypeOK'
  <2>1. ActOK'
    BY <1>5 DEF Die, TypeOK, Idle, Actor, HasBook, ActOK, Final
  <2>2. lost' \subseteq Books
    <3>1. \A a \in Actors : Unrecorded(a) \subseteq Books
      BY DEF Unrecorded, TypeOK, Actor, HasBook
    <3>2. {p} \X {"tick", "now"} \subseteq Actors
      BY DEF Actors
    <3> QED BY <1>5, <3>1, <3>2 DEF Die, TypeOK
  <2>3. up' \in [Procs -> {"down", "up", "stopping"}] /\ deaths' \in Nat
    BY <1>5 DEF Die, TypeOK
  <2> QED BY <1>5, <2>1, <2>2, <2>3 DEF Die, TypeOK, ActOK, clock, files, records
<1>6. ASSUME NEW a \in Actors, RunStep(a) PROVE TypeOK'
  <2>1. CASE Look(a)
    <3>1. ActOK'
      <4>1. CASE inbox # None /\ act' = [act EXCEPT ![a].pc = "check", ![a].book = inbox]
        <5> DEFINE w == [act[a] EXCEPT !.pc = "check", !.book = inbox]
        <5>1. w \in Actor /\ HasBook(w)
          BY <4>1 DEF TypeOK, Actor, HasBook
        <5>2. act' = [act EXCEPT ![a] = w]
          BY <4>1 DEF TypeOK, Actor
        <5> HIDE DEF w
        <5> QED BY <5>1, <5>2, ActorPut
      <4>2. CASE act' = [act EXCEPT ![a].pc = "record", ![a].outcome = "skipped", ![a].copying = inbox]
        <5> DEFINE w == [act[a] EXCEPT !.pc = "record", !.outcome = "skipped", !.copying = inbox]
        <5>1. act[a] \in Actor /\ inbox \in Books \cup {None}
          BY DEF TypeOK
        <5>3. w \in Actor
          BY <5>1 DEF Actor, Final
        <5>4. w.pc = "record" /\ w.outcome = "skipped"
          BY <5>1 DEF Actor
        <5>2. act' = [act EXCEPT ![a] = w]
          BY <4>2 DEF TypeOK, Actor
        <5> HIDE DEF w
        <5> QED BY <5>2, <5>3, <5>4, ActorPut DEF HasBook
      <4>3. CASE Outcome(a, "skipped")
        BY <2>1, <4>3, OutcomeType DEF Final, Look, At, TypeOK
      <4> QED BY <2>1, <4>1, <4>2, <4>3 DEF Look
    <3> QED BY <2>1, <3>1 DEF Look, TypeOK, ActOK, clock, files, records, used, history
  <2>2. CASE Check(a)
    <3>1. ActOK'
      <4>1. CASE Outcome(a, "skipped")
        BY <4>1, OutcomeType DEF Final
      <4>2. CASE act' = [act EXCEPT ![a].pc = "enqueue"]
        <5> DEFINE w == [act[a] EXCEPT !.pc = "enqueue"]
        <5>1. w \in Actor /\ HasBook(w)
          BY <2>2 DEF TypeOK, Actor, HasBook, Check, At
        <5>2. act' = [act EXCEPT ![a] = w]
          BY <4>2 DEF TypeOK, Actor
        <5> HIDE DEF w
        <5> QED BY <5>1, <5>2, ActorPut
      <4> QED BY <2>2, <4>1, <4>2 DEF Check
    <3> QED BY <2>2, <3>1 DEF Check, TypeOK, ActOK, clock, files, records, used, history
  <2>3. CASE Enqueue(a)
    <3>1. ActOK'
      BY <2>3, OutcomeType DEF Enqueue, TypeOK, HasBook, At, Final
    <3>2. jobs' \in [Books -> Nat]
      BY <2>3 DEF Enqueue, TypeOK, HasBook, At, Actor
    <3> QED BY <2>3, <3>1, <3>2 DEF Enqueue, TypeOK, ActOK, clock, files, used, history
  <2>4. CASE RunThrows(a)
    <3>1. ActOK'
      <4>1. PlanRetry(a) \in {"retrying", "failed"}
        BY DEF PlanRetry
      <4> HIDE DEF PlanRetry
      <4> QED BY <2>4, <4>1, OutcomeType DEF RunThrows, Final
    <3> QED BY <2>4, <3>1 DEF RunThrows, TypeOK, ActOK, clock, files, records, history
  <2>5. CASE Record(a)
    <3>1. ActOK'
      <4> DEFINE w == [act[a] EXCEPT !.pc = "close"]
      <4>1. w \in Actor /\ HasBook(w)
        BY DEF TypeOK, Actor, HasBook
      <4>2. act' = [act EXCEPT ![a] = w]
        BY <2>5 DEF Record, TypeOK, Actor
      <4> HIDE DEF w
      <4> QED BY <4>1, <4>2, ActorPut
    <3>2. ledger' \subseteq Books
      BY <2>5 DEF Record, TypeOK, HasBook, Actor
    <3> QED BY <2>5, <3>1, <3>2 DEF Record, TypeOK, ActOK, clock, files, used, history
  <2>6. CASE Close(a) \/ CannotRecord(a)
    <3>1. ActOK'
      <4>1. Idle \in Actor /\ HasBook(Idle)
        BY DEF Idle, Actor, HasBook, Final
      <4> HIDE DEF Idle
      <4> QED BY <2>6, <4>1, ActorPut DEF Close, CannotRecord
    <3>2. lastRun' \in Setting
      <4>1. act[a] \in Actor /\ lastRun \in Setting
        BY DEF TypeOK
      <4> QED BY <2>6, <4>1 DEF Close, CannotRecord, Setting, Actor, Final, records
    <3>5. decided' \in Nat
      BY <2>6 DEF Close, CannotRecord, TypeOK
    <3>3. lost' \subseteq Books /\ losses' \in Nat
      BY <2>6 DEF Close, CannotRecord, TypeOK, Actor, Unrecorded, HasBook, used
    <3>4. UNCHANGED <<clock, files, ledger, jobs, up, deaths, throws, presses, changes, stolen>>
      BY <2>6 DEF Close, CannotRecord, used, records
    <3> QED BY <3>1, <3>2, <3>3, <3>4, <3>5 DEF TypeOK, ActOK, clock, files
  <2> QED BY <1>6, <2>1, <2>2, <2>3, <2>4, <2>5, <2>6 DEF RunStep
<1>7. CASE UNCHANGED vars
  BY <1>7 DEF TypeOK, vars, clock, files, records, used, history
<1> QED BY <1>1, <1>2, <1>3, <1>4, <1>5, <1>6, <1>7 DEF Next

(* Every variable of the scheduler stays in range. *)
THEOREM MorningTypes == Spec => []TypeOK
<1>1. Init => TypeOK
  <2> SUFFICES ASSUME Init PROVE TypeOK
    OBVIOUS
  <2>1. Idle \in Actor /\ HasBook(Idle)
    BY DEF Idle, Actor, HasBook, Final
  <2>2. act \in [Actors -> Actor] /\ \A a \in Actors : HasBook(act[a])
    BY <2>1 DEF Init
  <2>3. lastRun \in Setting
    BY MorningAssumption DEF MorningAssumption, Init, Setting
  <2>4. day \in 1..MaxDay
    BY MorningAssumption DEF MorningAssumption, Init
  <2> QED BY <2>2, <2>3, <2>4 DEF Init, TypeOK
<1> QED BY <1>1, TypeStep, PTL DEF Spec

-------------------------------------------------------------------------------
(* The lock.  A live run holds the setting's claim, alone, until one of them outlives
   its claim. *)
ClaimInv ==
  ~stolen => \A a \in Actors : Active(a) =>
    lastRun.status = "running" /\ \A b \in Actors : Active(b) => b = a

(* A claim is taken when nobody is at it, unless from a live run. *)
LEMMA ClaimAlone ==
  ASSUME TypeOK, ClaimInv, NobodyRuns, NEW a \in Actors, NEW n \in Nat, TakeClaim(a, n),
         ~stolen'
  PROVE  /\ ~stolen /\ \A b \in Actors : ~Active(b)
         /\ lastRun'.status = "running"
         /\ act'[a].pc = "look" /\ \A b \in Actors : b # a => act'[b] = act[b]
<1>1. ~stolen /\ \A b \in Actors : ~Active(b)
  BY DEF TakeClaim, ClaimInv, NobodyRuns
<1>2. lastRun'.status = "running"
  BY DEF TakeClaim
<1>3. act'[a].pc = "look" /\ \A b \in Actors : b # a => act'[b] = act[b]
  BY DEF TakeClaim, TypeOK, Idle
<1> QED BY <1>1, <1>2, <1>3

(* A step of a run touches that actor alone. *)
LEMMA RunEffect ==
  ASSUME TypeOK, NEW a \in Actors, RunStep(a)
  PROVE  /\ stolen' = stolen /\ Active(a)
         /\ \A b \in Actors : b # a => act'[b] = act[b]
         /\ lastRun' = lastRun \/ act'[a] = Idle
<1> USE DEF TypeOK, At, Active, Outcome, history, records
<1>1. CASE Look(a)
  BY <1>1 DEF Look
<1>2. CASE Check(a)
  BY <1>2 DEF Check
<1>3. CASE Enqueue(a)
  BY <1>3 DEF Enqueue
<1>4. CASE RunThrows(a)
  BY <1>4 DEF RunThrows
<1>5. CASE Record(a)
  BY <1>5 DEF Record
<1>6. CASE Close(a)
  BY <1>6 DEF Close
<1>7. CASE CannotRecord(a)
  BY <1>7 DEF CannotRecord
<1> QED BY <1>1, <1>2, <1>3, <1>4, <1>5, <1>6, <1>7 DEF RunStep

(* Around the runs: no actor goes on by itself, and the claim stays as it is. *)
LEMMA WorldEffect ==
  ASSUME TypeOK, WorldStep \/ UNCHANGED vars \/ \E p \in Procs : Boot(p) \/ Stop(p)
  PROVE  /\ stolen' = stolen /\ act' = act /\ lastRun'.status = lastRun.status
         /\ lost' = lost /\ ledger' = ledger /\ jobs' = jobs
<1> USE DEF records, history
<1>1. CASE RetryComes \/ ClaimExpires
  BY <1>1 DEF RetryComes, ClaimExpires, TypeOK, Setting
<1>2. CASE TimeComes \/ NewDay \/ ChangeSettings \/ Settles \/ \E b \in Books : Arrives(b)
  BY <1>2 DEF TimeComes, NewDay, ChangeSettings, Settles, Arrives
<1>3. CASE UNCHANGED vars \/ \E p \in Procs : Boot(p) \/ Stop(p)
  BY <1>3 DEF vars, Boot, Stop
<1> QED BY <1>1, <1>2, <1>3 DEF WorldStep

(* A tick and a press both take the claim, when nobody is at it. *)
LEMMA WhoClaims ==
  ASSUME TypeOK, NEW p \in Procs, TickClaims(p) \/ PressRunNow(p)
  PROVE  /\ \E c \in Actors : \E n \in Nat : NobodyRuns /\ TakeClaim(c, n)
         /\ ledger' = ledger /\ jobs' = jobs /\ lost' = lost
<1>1. <<p, "tick">> \in Actors /\ <<p, "now">> \in Actors
  BY DEF Actors
<1>2. lastRun.attempts + 1 \in Nat
  BY DEF TypeOK, Setting
<1>3. CASE TickClaims(p)
  <2> DEFINE n == IF lastRun.day = day THEN lastRun.attempts + 1 ELSE 1
  <2>1. n \in Nat /\ TakeClaim(<<p, "tick">>, n)
    BY <1>2, <1>3 DEF TickClaims
  <2> HIDE DEF n
  <2> QED BY <1>1, <1>3, <2>1 DEF TickClaims
<1> QED BY <1>1, <1>3 DEF PressRunNow

LEMMA ClaimStep ==
  ASSUME TypeOK, ClaimInv, [Next]_vars
  PROVE  ClaimInv'
<1> SUFFICES ASSUME ~stolen', NEW a \in Actors, Active(a)'
             PROVE  lastRun'.status = "running" /\ \A b \in Actors : Active(b)' => b = a
  BY DEF ClaimInv
<1>1. ASSUME NEW c \in Actors, NEW n \in Nat, NobodyRuns, TakeClaim(c, n)
      PROVE  lastRun'.status = "running" /\ \A b \in Actors : Active(b)' => b = a
  BY <1>1, ClaimAlone DEF Active
<1>2. ASSUME NEW c \in Actors, RunStep(c)
      PROVE  lastRun'.status = "running" /\ \A b \in Actors : Active(b)' => b = a
  <2>1. c = a /\ ~stolen /\ \A b \in Actors : b # a => ~Active(b)
    BY <1>2, RunEffect DEF ClaimInv, Active
  <2>2. act'[a] # Idle
    BY DEF Active, Idle
  <2> QED BY <1>2, <2>1, <2>2, RunEffect DEF ClaimInv, Active
<1>3. ASSUME NEW p \in Procs, Die(p)
      PROVE  lastRun'.status = "running" /\ \A b \in Actors : Active(b)' => b = a
  <2>1. \A b \in Actors : Active(b)' => Active(b)
    BY <1>3 DEF Die, Active, Idle
  <2>2. lastRun' = lastRun /\ stolen' = stolen
    BY <1>3 DEF Die, records
  <2> QED BY <2>1, <2>2 DEF ClaimInv
<1>4. CASE WorldStep \/ UNCHANGED vars \/ \E p \in Procs : Boot(p) \/ Stop(p)
  BY <1>4, WorldEffect DEF ClaimInv, Active
<1>5. ASSUME NEW p \in Procs, TickClaims(p) \/ PressRunNow(p)
      PROVE  \E c \in Actors : \E n \in Nat : NobodyRuns /\ TakeClaim(c, n)
  BY <1>5, WhoClaims
<1> QED BY <1>1, <1>2, <1>3, <1>4, <1>5 DEF Next

LEMMA ClaimHolds == Spec => [](TypeOK /\ ClaimInv)
<1>1. Init => ClaimInv
  BY DEF Init, ClaimInv, Active, Idle
<1> QED BY <1>1, ClaimStep, TypeStep, MorningTypes, PTL DEF Spec

(* claimScheduledRun and claimManualRun: two runs overlap only if one outlived its claim. *)
THEOREM OneRunHolds == Spec => []OneRunAtATime
<1>1. ClaimInv => OneRunAtATime
  BY DEF ClaimInv, OneRunAtATime
<1> QED BY <1>1, ClaimHolds, PTL

-------------------------------------------------------------------------------
(* One job per workbook. *)

\* Actor a has queued workbook b and has yet to record it.
HasQueued(a, b) == act[a].pc = "record" /\ act[a].outcome = "queued" /\ act[a].book = b

\* A workbook that was queued is in the ledger, or about to be; and a run that is about
\* to queue one has found it missing there.
JobsInv ==
  ~stolen =>
    /\ \A a \in Actors : act[a].pc = "enqueue" => act[a].book \notin ledger
    /\ \A b \in Books \ lost :
         /\ jobs[b] <= 1
         /\ jobs[b] = 1 => b \in ledger \/ \E a \in Actors : HasQueued(a, b)

(* The step of a run keeps its part of the invariant. *)
LEMMA RunJobs ==
  ASSUME TypeOK, ClaimInv, JobsInv, NEW a \in Actors, RunStep(a), ~stolen'
  PROVE  JobsInv'
<1>1. ~stolen /\ Active(a) /\ \A b \in Actors : b # a => act'[b] = act[b]
  BY RunEffect
<1>2. \A c \in Actors : c # a => act[c].pc = "idle" /\ act'[c].pc = "idle"
  BY <1>1 DEF ClaimInv, Active
<1>3. \A b \in Books \ lost :
        jobs[b] <= 1 /\ (jobs[b] = 1 => b \in ledger \/ HasQueued(a, b))
  BY <1>1, <1>2 DEF JobsInv, HasQueued
<1>type. act \in [Actors -> Actor] /\ act[a] \in Actor
  BY DEF TypeOK
<1>4. SUFFICES
        /\ act'[a].pc = "enqueue" => act'[a].book \notin ledger'
        /\ \A b \in Books \ lost' :
             jobs'[b] <= 1 /\ (jobs'[b] = 1 => b \in ledger' \/ HasQueued(a, b)')
  BY <1>2 DEF JobsInv, HasQueued
<1>5. CASE Look(a) \/ RunThrows(a)
  <2>1. act'[a].pc \in {"check", "record"} /\ act[a].pc # "record"
    BY <1>5, <1>type DEF Look, RunThrows, Outcome, At, Actor
  <2>2. ledger' = ledger /\ jobs' = jobs /\ lost' = lost
    BY <1>5 DEF Look, RunThrows, records, history
  <2> QED BY <1>3, <2>1, <2>2 DEF HasQueued
<1>6. CASE Check(a)
  <2>1. act'[a].pc = "enqueue" => act'[a].book \notin ledger
    BY <1>6, <1>type DEF Check, AlreadyProcessed, Outcome, Actor
  <2>2. ledger' = ledger /\ jobs' = jobs /\ lost' = lost /\ act[a].pc = "check"
    BY <1>6 DEF Check, records, history, At
  <2> QED BY <1>3, <2>1, <2>2 DEF HasQueued
<1>7. CASE Enqueue(a)
  <2>1. PICK k \in Books : act[a].book = k
    BY <1>7 DEF Enqueue, At, TypeOK, HasBook, Actor
  <2>2. act[a].pc = "enqueue" /\ k \notin ledger
    BY <1>1, <1>7, <2>1 DEF Enqueue, At, JobsInv
  <2>3. ledger' = ledger /\ lost' = lost /\ jobs' = [jobs EXCEPT ![k] = @ + 1]
    BY <1>7, <2>1 DEF Enqueue, history
  <2>4. act'[a].pc = "record" /\ act'[a].outcome = "queued" /\ act'[a].book = k
    BY <1>7, <1>type, <2>1 DEF Enqueue, Outcome, Actor
  <2>5. \A b \in Books : jobs[b] \in Nat
    BY DEF TypeOK
  <2>6. \A b \in Books \ {k} : jobs'[b] = jobs[b]
    BY <2>3 DEF TypeOK
  <2>7. k \notin lost => jobs'[k] = 1
    <3> HAVE k \notin lost
    <3>1. jobs[k] = 0
      BY <1>3, <2>2, <2>5 DEF HasQueued
    <3> QED BY <2>3, <3>1 DEF TypeOK
  <2>8. ASSUME NEW b \in Books \ lost'
        PROVE  jobs'[b] <= 1 /\ (jobs'[b] = 1 => b \in ledger' \/ HasQueued(a, b)')
    <3>1. CASE b = k
      BY <2>3, <2>4, <2>7, <3>1 DEF HasQueued
    <3>2. CASE b # k
      BY <1>3, <2>2, <2>3, <2>6, <3>2 DEF HasQueued
    <3> QED BY <3>1, <3>2
  <2> QED BY <2>4, <2>8
<1>8. CASE Record(a)
  <2>1. act'[a].pc = "close" /\ jobs' = jobs /\ lost' = lost
    BY <1>8, <1>type DEF Record, history, Actor
  <2>2. \A b \in Books : b \in ledger \/ HasQueued(a, b) => b \in ledger'
    BY <1>8 DEF Record, HasQueued
  <2> QED BY <1>3, <2>1, <2>2
<1>9. CASE Close(a) \/ CannotRecord(a)
  <2>1. act'[a].pc = "idle" /\ jobs' = jobs /\ ledger' = ledger
    BY <1>9, <1>type DEF Close, CannotRecord, records, Idle
  <2>2. \A b \in Books \ lost' : b \notin lost /\ ~HasQueued(a, b)
    BY <1>9 DEF Close, CannotRecord, Unrecorded, HasQueued, At
  <2> QED BY <1>3, <2>1, <2>2
<1> QED BY <1>5, <1>6, <1>7, <1>8, <1>9 DEF RunStep

LEMMA JobsStep ==
  ASSUME TypeOK, ClaimInv, JobsInv, [Next]_vars
  PROVE  JobsInv'
<1> SUFFICES ASSUME ~stolen' PROVE JobsInv'
  BY DEF JobsInv
<1>1. ASSUME NEW a \in Actors, RunStep(a) PROVE JobsInv'
  BY <1>1, RunJobs
<1>2. ASSUME NEW p \in Procs, TickClaims(p) \/ PressRunNow(p) PROVE JobsInv'
  <2>1. PICK c \in Actors : \E n \in Nat : NobodyRuns /\ TakeClaim(c, n)
    BY <1>2, WhoClaims
  <2>2. /\ ~stolen /\ \A b \in Actors : ~Active(b)
        /\ act'[c].pc = "look" /\ \A b \in Actors : b # c => act'[b] = act[b]
    BY <2>1, ClaimAlone
  <2>3. ledger' = ledger /\ jobs' = jobs /\ lost' = lost
    BY <1>2, WhoClaims
  <2>4. \A a \in Actors : act[a].pc = "idle" /\ act'[a].pc \in {"idle", "look"}
    BY <2>2 DEF Active
  <2> QED BY <2>2, <2>3, <2>4 DEF JobsInv, HasQueued
<1>3. ASSUME NEW p \in Procs, Die(p) PROVE JobsInv'
  <2>1. ledger' = ledger /\ jobs' = jobs /\ stolen' = stolen
    BY <1>3 DEF Die, records
  <2>2. \A a \in Actors : act'[a] = IF Proc(a) = p THEN Idle ELSE act[a]
    BY <1>3 DEF Die
  <2>3. ASSUME NEW b \in Books \ lost', NEW a \in Actors, HasQueued(a, b)
        PROVE  Proc(a) # p /\ HasQueued(a, b)'
    <3>1. Proc(a) = p => a \in {p} \X {"tick", "now"}
      BY DEF Proc, Actors
    <3>2. b \in Unrecorded(a)
      BY <2>3 DEF HasQueued, Unrecorded
    <3>3. Proc(a) # p
      BY <1>3, <2>3, <3>1, <3>2 DEF Die
    <3> QED BY <2>2, <2>3, <3>3 DEF HasQueued
  <2>4. lost \subseteq lost'
    BY <1>3 DEF Die
  <2>5. \A a \in Actors : act'[a].pc = "enqueue" => act'[a] = act[a]
    BY <2>2 DEF Idle
  <2> QED BY <2>1, <2>3, <2>4, <2>5 DEF JobsInv
<1>4. CASE WorldStep \/ UNCHANGED vars \/ \E p \in Procs : Boot(p) \/ Stop(p)
  BY <1>4, WorldEffect DEF JobsInv, HasQueued
<1> QED BY <1>1, <1>2, <1>3, <1>4 DEF Next

(* The same bytes become one job, unless a run died between the job and its record or
   outlived its claim: alreadyProcessed, under the claim. *)
THEOREM QueuedOnceHolds == Spec => []QueuedOnce
<1>1. Init => JobsInv
  BY DEF Init, JobsInv, Idle
<1>2. TypeOK /\ JobsInv => QueuedOnce
  <2> SUFFICES ASSUME TypeOK, JobsInv, NEW b \in Books, jobs[b] > 1, b \notin lost
               PROVE  stolen
    BY DEF QueuedOnce
  <2>1. jobs[b] \in Nat
    BY DEF TypeOK
  <2> QED BY <2>1 DEF JobsInv
<1> QED BY <1>1, <1>2, JobsStep, ClaimHolds, PTL DEF Spec

-------------------------------------------------------------------------------
(* The bound on attempts. *)

\* The live run counts attempts as its claim does, and plans a retry within the bound.
RetryInv ==
  ~stolen =>
    /\ lastRun.status = "retrying" => lastRun.attempts <= MaxRetries
    /\ \A a \in Actors : Active(a) =>
         /\ act[a].attempts = lastRun.attempts
         /\ act[a].outcome = "retrying" => act[a].attempts <= MaxRetries

LEMMA RunRetries ==
  ASSUME TypeOK, ClaimInv, RetryInv, NEW a \in Actors, RunStep(a), ~stolen'
  PROVE  RetryInv'
<1>1. ~stolen /\ Active(a) /\ \A b \in Actors : b # a => act'[b] = act[b]
  BY RunEffect
<1>2. \A c \in Actors : c # a => ~Active(c)'
  BY <1>1 DEF ClaimInv, Active
<1>3. /\ act[a].attempts = lastRun.attempts
      /\ act[a].outcome = "retrying" => act[a].attempts <= MaxRetries
      /\ lastRun.status = "retrying" => lastRun.attempts <= MaxRetries
  BY <1>1 DEF RetryInv
<1>type. act \in [Actors -> Actor] /\ act[a] \in Actor /\ lastRun \in Setting /\ MaxRetries \in Nat
  BY MorningAssumption DEF TypeOK, MorningAssumption
<1> SUFFICES
      /\ lastRun'.status = "retrying" => lastRun'.attempts <= MaxRetries
      /\ Active(a)' => /\ act'[a].attempts = lastRun'.attempts
                       /\ act'[a].outcome = "retrying" => act'[a].attempts <= MaxRetries
  BY <1>2 DEF RetryInv
<1>4. CASE Close(a) \/ CannotRecord(a)
  <2>1. ~Active(a)'
    BY <1>4, <1>type DEF Close, CannotRecord, Active, Idle
  <2>2. \/ lastRun' = lastRun
        \/ lastRun'.status = act[a].outcome /\ lastRun'.attempts = lastRun.attempts
    BY <1>4, <1>type DEF Close, CannotRecord, Setting, records
  <2> QED BY <1>3, <2>1, <2>2
<1>5. CASE Look(a) \/ Check(a) \/ Enqueue(a) \/ RunThrows(a) \/ Record(a)
  <2>1. lastRun' = lastRun
    BY <1>5 DEF Look, Check, Enqueue, RunThrows, Record, records
  <2>2. act'[a].attempts = act[a].attempts
    BY <1>5, <1>type DEF Look, Check, Enqueue, RunThrows, Record, Outcome, Actor
  <2>3. CASE RunThrows(a)
    <3>1. act'[a].outcome = PlanRetry(a)
      BY <2>3, <1>type DEF RunThrows, Outcome, Actor
    <3>2. PlanRetry(a) = "retrying" => act[a].attempts <= MaxRetries
      BY <1>type DEF PlanRetry, Actor
    <3> QED BY <1>3, <2>1, <2>2, <3>1, <3>2
  <2>4. CASE ~RunThrows(a)
    <3>1. act'[a].outcome \in {act[a].outcome, "skipped", "queued"}
      BY <1>5, <2>4, <1>type DEF Look, Check, Enqueue, Record, Outcome, Actor
    <3> QED BY <1>3, <2>1, <2>2, <3>1
  <2> QED BY <2>3, <2>4
<1> QED BY <1>4, <1>5 DEF RunStep

LEMMA RetryStep ==
  ASSUME TypeOK, ClaimInv, RetryInv, [Next]_vars
  PROVE  RetryInv'
<1> SUFFICES ASSUME ~stolen' PROVE RetryInv'
  BY DEF RetryInv
<1>1. ASSUME NEW a \in Actors, RunStep(a) PROVE RetryInv'
  BY <1>1, RunRetries
<1>2. ASSUME NEW p \in Procs, TickClaims(p) \/ PressRunNow(p) PROVE RetryInv'
  <2>1. PICK c \in Actors, n \in Nat : NobodyRuns /\ TakeClaim(c, n)
    BY <1>2, WhoClaims
  <2>2. \A b \in Actors : b # c => ~Active(b)'
    BY <2>1, ClaimAlone DEF Active
  <2>3. lastRun'.status = "running" /\ lastRun'.attempts = n
    BY <2>1 DEF TakeClaim
  <2>4. act'[c].attempts = n /\ act'[c].outcome = "skipped"
    BY <2>1 DEF TakeClaim, TypeOK, Idle
  <2> QED BY <2>2, <2>3, <2>4 DEF RetryInv
<1>3. ASSUME NEW p \in Procs, Die(p) PROVE RetryInv'
  <2>1. lastRun' = lastRun /\ stolen' = stolen
    BY <1>3 DEF Die, records
  <2>2. \A a \in Actors : Active(a)' => act'[a] = act[a] /\ Active(a)
    BY <1>3 DEF Die, Active, Idle
  <2> QED BY <2>1, <2>2 DEF RetryInv
<1>4. CASE WorldStep \/ UNCHANGED vars \/ \E p \in Procs : Boot(p) \/ Stop(p)
  <2>1. lastRun'.attempts = lastRun.attempts
    <3>1. CASE RetryComes \/ ClaimExpires
      BY <3>1 DEF RetryComes, ClaimExpires, TypeOK, Setting
    <3>2. CASE ~(RetryComes \/ ClaimExpires)
      BY <1>4, <3>2 DEF WorldStep, TimeComes, NewDay, ChangeSettings, Settles, Arrives,
                        vars, Boot, Stop, records
    <3> QED BY <3>1, <3>2
  <2> QED BY <1>4, <2>1, WorldEffect DEF RetryInv, Active
<1> QED BY <1>1, <1>2, <1>3, <1>4 DEF Next

(* An announced retry is one the claim will take: planRetry and claimScheduledRun draw
   the line at the same attempt. *)
THEOREM RetryIsRealHolds == Spec => []RetryIsReal
<1>1. Init => RetryInv
  BY DEF Init, RetryInv, Active, Idle
<1>2. TypeOK /\ RetryInv => RetryIsReal
  BY DEF RetryInv, RetryIsReal
<1> QED BY <1>1, <1>2, RetryStep, ClaimHolds, PTL DEF Spec
-------------------------------------------------------------------------------
(* A day is settled once. *)

\* A day nobody has claimed is not settled; and a day with a claim that is held, or a
\* retry to come, has been settled by fewer ticks than it may.
DayInv ==
  ~stolen =>
    /\ lastRun.day # day => decided = 0
    /\ lastRun.status \in {"retrying", "running"} => decided <= presses
    /\ decided <= 1 + presses

LEMMA RunDay ==
  ASSUME TypeOK, ClaimInv, DayInv, NEW a \in Actors, RunStep(a), ~stolen'
  PROVE  DayInv'
<1>1. ~stolen /\ Active(a)
  BY RunEffect
<1>2. lastRun.status = "running" /\ decided <= presses
  BY <1>1 DEF ClaimInv, DayInv
<1>type. /\ act[a] \in Actor /\ lastRun \in Setting
         /\ decided \in Nat /\ presses \in Nat
  BY DEF TypeOK
<1>3. CASE Close(a)
  <2>1. lastRun'.status = act[a].outcome /\ lastRun'.day = lastRun.day
    BY <1>3, <1>type DEF Close, Setting
  <2>2. day' = day /\ presses' = presses
    BY <1>3 DEF Close, clock, used
  <2>3. \/ decided' = decided
        \/ decided' = decided + 1 /\ act[a].outcome \in Final /\ lastRun.day = day
    BY <1>3 DEF Close
  <2> QED BY <1>1, <1>2, <1>type, <2>1, <2>2, <2>3 DEF DayInv, Final
<1>4. CASE Look(a) \/ Check(a) \/ Enqueue(a) \/ RunThrows(a) \/ Record(a) \/ CannotRecord(a)
  <2>1. lastRun' = lastRun /\ day' = day /\ decided' = decided /\ presses' = presses
    BY <1>4 DEF Look, Check, Enqueue, RunThrows, Record, CannotRecord,
                records, clock, used, history
  <2> QED BY <1>1, <2>1 DEF DayInv
<1> QED BY <1>3, <1>4 DEF RunStep

LEMMA DayStep ==
  ASSUME TypeOK, ClaimInv, DayInv, [Next]_vars
  PROVE  DayInv'
<1> SUFFICES ASSUME ~stolen' PROVE DayInv'
  BY DEF DayInv
<1>type. lastRun \in Setting /\ decided \in Nat /\ presses \in Nat
  BY DEF TypeOK
<1>1. ASSUME NEW a \in Actors, RunStep(a) PROVE DayInv'
  BY <1>1, RunDay
<1>2. ASSUME NEW p \in Procs, TickClaims(p) PROVE DayInv'
  <2>1. NobodyRuns /\ Outstanding
    BY <1>2 DEF TickClaims
  <2>2. lastRun'.status = "running" /\ lastRun'.day = day /\ ~stolen
    BY <1>2 DEF TickClaims, TakeClaim
  <2>3. day' = day /\ decided' = decided /\ presses' = presses
    BY <1>2 DEF TickClaims, clock, used
  <2>4. decided <= presses
    BY <1>type, <2>1, <2>2 DEF DayInv, Outstanding
  <2> QED BY <1>type, <2>2, <2>3, <2>4 DEF DayInv
<1>3. ASSUME NEW p \in Procs, PressRunNow(p) PROVE DayInv'
  <2>1. lastRun'.day = day /\ ~stolen
    BY <1>3 DEF PressRunNow, TakeClaim
  <2>2. day' = day /\ decided' = decided /\ presses' = presses + 1
    BY <1>3 DEF PressRunNow, clock
  <2> QED BY <1>type, <2>1, <2>2 DEF DayInv
<1>4. ASSUME NEW p \in Procs, Die(p) PROVE DayInv'
  BY <1>4 DEF Die, DayInv, clock, records
<1>5. CASE WorldStep \/ UNCHANGED vars \/ \E p \in Procs : Boot(p) \/ Stop(p)
  <2>1. stolen' = stolen /\ lastRun'.status = lastRun.status
    BY <1>5, WorldEffect
  <2>2. lastRun'.day = lastRun.day /\ presses' = presses
    <3>1. CASE RetryComes \/ ClaimExpires
      BY <1>type, <3>1 DEF RetryComes, ClaimExpires, Setting, used
    <3>2. CASE ~(RetryComes \/ ClaimExpires)
      BY <1>5, <3>2 DEF WorldStep, TimeComes, NewDay, ChangeSettings, Settles, Arrives,
                        vars, Boot, Stop, records, used
    <3> QED BY <3>1, <3>2
  <2>3. \/ decided' = 0
        \/ decided' = decided /\ day' = day
    BY <1>5 DEF WorldStep, TimeComes, NewDay, ChangeSettings, Settles, RetryComes,
                ClaimExpires, Arrives, vars, Boot, Stop, history, clock
  <2> QED BY <1>type, <2>1, <2>2, <2>3 DEF DayInv
<1> QED BY <1>1, <1>2, <1>3, <1>4, <1>5 DEF Next

(* The ticks settle a day once, and once more at most for each press of Run now, unless a
   run outlived its claim: the day key under the claim. *)
THEOREM DecidedOnceHolds == Spec => []DecidedOnce
<1>1. Init => DayInv
  BY DEF Init, DayInv
<1>2. DayInv => DecidedOnce
  BY DEF DayInv, DecidedOnce
<1> QED BY <1>1, <1>2, DayStep, ClaimHolds, PTL DEF Spec
=============================================================================
