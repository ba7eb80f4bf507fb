------------------------- MODULE MCFinancialState -------------------------
(* The financial state of one user with interchangeable requests. *)
EXTENDS FinancialState, TLC

Symmetric == Permutations(Worker)
=============================================================================
