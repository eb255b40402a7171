---------------------------- MODULE MCPayrollRuns ----------------------------
(***************************************************************************)
(* Small instances of PayrollRuns for TLC.                                 *)
(***************************************************************************)
EXTENDS PayrollRuns, TLC

\* The code tells neither runs, people nor requests apart.
Alike == Permutations(Runs) \cup Permutations(People) \cup Permutations(Handlers)
=============================================================================
