------------------------------- MODULE MCMailbox -------------------------------
(* The two ways mail comes in and the registry of the mailboxes it comes from, one at a   *)
(* time: they share no document, so an interleaving of their steps would show nothing     *)
(* that each alone does not.                                                              *)
EXTENDS FolderSync, ReplySync, MailboxRegistry, TLC

CONSTANTS m1, m2, m3, l1, l2, r1, r2, u1, u2

VARIABLE side  \* the one at work

\* A person's answer that names no lead, one to a mail about l1, and an automatic answer
\* that quotes l2.
MCShapes == {
  [hint |-> None, direct |-> FALSE, sure |-> FALSE, human |-> TRUE],
  [hint |-> l1, direct |-> TRUE, sure |-> TRUE, human |-> TRUE],
  [hint |-> l2, direct |-> FALSE, sure |-> TRUE, human |-> FALSE]}

\* Two letters that name a lead name different ones.
Differ == \A m, n \in Letters : m # n /\ shape[m] = shape[n] => shape[m].hint = None

\* One user connects both mailboxes, the other is assigned to them.
MCOwner == [m \in Boxes |-> u1]

\* Boxes = Letters and Calls = Runs, so one permutation serves both.
Symmetric == Permutations(Letters) \cup Permutations(Runs)

MailInit ==
  /\ side \in {"folder", "replies", "registry"} /\ FolderInit /\ ReplyInit /\ RegistryInit
  /\ IF side = "replies" THEN Differ ELSE \A m \in Letters : shape[m].hint = None
  /\ side # "registry" => \A m \in Boxes : since[m] = 0

MailNext ==
  \/ side = "folder" /\ FolderNext /\ UNCHANGED <<side, replyVars, registryVars>>
  \/ side = "replies" /\ ReplyNext /\ UNCHANGED <<side, folderVars, registryVars>>
  \/ side = "registry" /\ RegistryNext /\ UNCHANGED <<side, folderVars, replyVars>>

MailSpec == MailInit /\ [][MailNext]_<<side, folderVars, replyVars, registryVars>>

\* Every variable of the one at work holds what the code may put there.
MailTypes ==
  /\ side = "folder" => FolderTypes
  /\ side = "replies" => ReplyTypes
  /\ side = "registry" => RegistryTypes
=============================================================================
