------------------------------ MODULE MCExchange ------------------------------
(* What comes in from a file and what goes out to a client that works offline, one at a   *)
(* time: the import writes contacts, the feed and the mutations here are about leads.     *)
EXTENDS OfflineSync, ContactImport, TLC

CONSTANTS m1, x1, x2, x3, e1, e2

VARIABLE side  \* the one at work

Entered(email, fits) == [email |-> email, fits |-> fits]

\* An address again in the next chunk; a document that does not fit, and a row without an address.
MCFiles == {
  <<Entered(e1, TRUE), Entered(e2, TRUE), Entered(e1, TRUE)>>,
  <<Entered(e1, FALSE), Entered(NoEmail, TRUE), Entered(e1, TRUE)>>}

\* The third call of the import is no request of the client's, and the files tell the addresses
\* apart.
Symmetric == Permutations({x1, x2})

\* What the import starts from when it is not at work.
AtRest ==
  /\ file[1].fits
  /\ job.action = "skip" /\ \A k \in DOMAIN book : book[k] = "none"

ExchangeInit ==
  /\ side \in {"offline", "import"} /\ Init /\ ImportInit
  /\ side = "offline" => AtRest

ExchangeNext ==
  \/ side = "offline" /\ Next /\ UNCHANGED <<side, importVars>>
  \/ side = "import" /\ ImportNext /\ UNCHANGED <<side, vars>>

ExchangeSpec == ExchangeInit /\ [][ExchangeNext]_<<side, vars, importVars>>

\* Every variable of the one at work holds what the code may put there.
ExchangeTypes == (side = "offline" => TypeOK) /\ (side = "import" => ImportTypes)
=============================================================================
