--------------------------- MODULE MCYearEndClose ---------------------------
(* YearEndClose instances for TLC: one request at a time beside the close. *)
EXTENDS YearEndClose, TLC

CONSTANTS p1, d2, cash, sales, returns, cost, summary, retained

Books(l) == l @@ [a \in {cash, sales, returns, cost, summary, retained} |-> 0]

(* The period of the year's end. *)
MCCovers == p1 :> {d2}

(* A sale at a cost: three of revenue, one of expense. *)
Trade == Books((cash :> 2) @@ (cost :> 1) @@ (sales :> -3))
Refund == Books((cash :> -1) @@ (returns :> 1))

Sale == Books((cash :> 3) @@ (sales :> -3))

MCInputs == {Trade, Sale}
MCInputsWithRefunds == {Sale, Refund}

EntrySym == Permutations(Entries)
=============================================================================
