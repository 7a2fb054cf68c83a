------------------------------ MODULE RunContract ------------------------------
(****************************************************************************)
(* What an ImportJob promises to whoever watches it: the status and the      *)
(* resume point, and nothing about workers, locks, files or mail.            *)
(* src/src/models/importJob.model.js and                                     *)
(* src/src/modules/import/constants/importConstants.js.                      *)
(****************************************************************************)
EXTENDS Naturals

CONSTANTS Jobs, Length
VARIABLES status, settled

vars == <<status, settled>>

InFlight == {"queued", "running"}

Init ==
  /\ status = [j \in Jobs |-> "absent"]
  /\ settled = [j \in Jobs |-> 0]

Becomes(j, s) == status' = [status EXCEPT ![j] = s] /\ UNCHANGED settled

Accept(j) == status[j] = "absent" /\ Becomes(j, "queued")

\* A worker takes the job, for the first time or again.
Begin(j) == status[j] \in InFlight /\ Becomes(j, "running")

\* More of the sheet is settled: the resume point only moves forward.
Settle(j) ==
  /\ status[j] # "absent"
  /\ \E n \in settled[j]..Length[j] : settled' = [settled EXCEPT ![j] = n]
  /\ UNCHANGED status

\* A restart puts any number of running jobs back, with what they had settled.
Interrupt ==
  /\ \E Back \in SUBSET {j \in Jobs : status[j] = "running"} :
       status' = [j \in Jobs |-> IF j \in Back THEN "queued" ELSE status[j]]
  /\ UNCHANGED settled

\* The run reports an end: only a sheet settled to its last row is finished.
Finish(j) ==
  /\ status[j] # "absent" /\ settled[j] = Length[j]
  /\ \E s \in {"completed", "partial"} : Becomes(j, s)

\* It failed, or was cancelled, at any point.
GiveUp(j) ==
  /\ status[j] # "absent"
  /\ \E s \in {"failed", "cancelled"} : Becomes(j, s)

Next ==
  \/ Interrupt
  \/ \E j \in Jobs : Accept(j) \/ Begin(j) \/ Settle(j) \/ Finish(j) \/ GiveUp(j)

Spec == Init /\ [][Next]_vars
=============================================================================
