-------------------------- MODULE MCMorningScheduler --------------------------
(* Workbooks for TLC.                                                        *)
EXTENDS MorningScheduler, TLC

CONSTANTS b1, b2

\* The properties excuse everything after a claim was taken from a live run: a
\* behaviour is followed up to that step and no further.
UntilStolen == ~stolen
=============================================================================
