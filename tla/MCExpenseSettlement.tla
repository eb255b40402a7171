------------------------- MODULE MCExpenseSettlement -------------------------
(***************************************************************************)
(* Small instances of ExpenseSettlement for TLC.                           *)
(***************************************************************************)
EXTENDS ExpenseSettlement, TLC

\* The code tells neither claims, batches nor requests apart.
Alike == Permutations(Claims) \cup Permutations(Batches) \cup Permutations(Handlers)
=============================================================================
