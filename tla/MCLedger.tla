------------------------------ MODULE MCLedger ------------------------------
(* Ledger instances for TLC. *)
EXTENDS LedgerReports, TLC

CONSTANTS p1, d1, cash, sales

(* A single month. *)
MCOneMonth == p1 :> {d1}

(* One sale, and an unbalanced input that Create refuses. *)
Sale == (cash :> 2) @@ (sales :> -2)
Lopsided == (cash :> 2) @@ (sales :> -1)
MCInputs == {Sale, Lopsided}

(* In tenths of a cent: 1.5 cents, which are stored as two, and 0.4 cents,
   which the table refuses. *)
MCTenths == {(cash :> 15) @@ (sales :> -15), (cash :> 4) @@ (sales :> -4), Lopsided}

Sym == Permutations(Entries) \cup Permutations(Requests)
=============================================================================
