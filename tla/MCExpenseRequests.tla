-------------------------- MODULE MCExpenseRequests -------------------------
(* ExpenseReport with requests that interleave, or run one at a time. *)
EXTENDS ExpenseReport, TLC

CONSTANTS i1, i2, i3

(* Two instances in one run: two requests that interleave over items of one
   amount, or requests that run one at a time over two items of any amount. *)
AloneOrNot ==
    {[alone |-> TRUE, items |-> {i1, i2}, amounts |-> Amounts],
     [alone |-> FALSE, items |-> Items, amounts |-> {1}]}

Sym == Permutations(Requests)
=============================================================================
