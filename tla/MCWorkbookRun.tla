---------------------------- MODULE MCWorkbookRun ----------------------------
(* Small workbooks for TLC.                                                  *)
EXTENDS WorkbookRun, TLC

CONSTANTS j1, j2, r1, r2, city, pax, notes, a, b

row(r, v) == [ref |-> r, val |-> [f \in Fields |-> v]]

\* Yesterday's sheet, two enquiries and a row without a reference, and today's: of the first
\* one the city has changed, the pax has not, and the notes were left empty.
TwoDays == j1 :> <<row(r1, a), row(r2, a), row(NoRef, a)>>
        @@ j2 :> <<[ref |-> r1, val |-> [f \in Fields |-> CASE f = city -> b
                                                           [] f = pax -> a
                                                           [] OTHER -> Blank]]>>

\* One workbook of two enquiries.
OneDay == j1 :> <<row(r1, a), row(r2, a)>>

Symmetry == Permutations(Procs)
=============================================================================
