---------------------------- MODULE MCCampaignDrain ----------------------------
(* The people a user writes to: the campaigns they get, and their contacts kept in step   *)
(* with Outlook, one at a time, for the two share no field.                               *)
EXTENDS CampaignDrain, ContactSync, TLC

CONSTANTS c1, c2, k1, k2, a1, a2, p1, e1

VARIABLE side  \* the one at work

\* Walks = Requests, so one permutation serves both.
Symmetric == Permutations({a1, a2}) \cup Permutations({k1, k2})

PeopleInit ==
  /\ side \in {"campaign", "contacts"} /\ Init /\ ContactInit
  /\ side = "campaign" => \A p \in People : here[p] = NoContact /\ there[p] = Nobody

PeopleNext ==
  \/ side = "campaign" /\ Next /\ UNCHANGED <<side, contactVars>>
  \/ side = "contacts" /\ ContactNext /\ UNCHANGED <<side, vars>>

PeopleSpec == PeopleInit /\ [][PeopleNext]_<<side, vars, contactVars>>

\* Every variable of the one at work holds what the code may put there.
PeopleTypes == (side = "campaign" => TypeOK) /\ (side = "contacts" => ContactTypes)
=============================================================================
