--------------------------- MODULE MCExpenseReport ---------------------------
(* ExpenseRefinement instances for TLC. *)
EXTENDS ExpenseRefinement, TLC

Orderly == {[alone |-> TRUE, items |-> Items, amounts |-> Amounts]}
=============================================================================
