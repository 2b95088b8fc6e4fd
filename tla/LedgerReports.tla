---------------------------- MODULE LedgerReports ----------------------------
(***************************************************************************)
(* What the report queries of queries/journal_entries.sql compute over the *)
(* tables of Ledger.  The balance queries (TrialBalance,                   *)
(* AccountBalancesByPrefix, PeriodAccountBalances, AllAccountBalancesAsOf, *)
(* PeriodAllAccountBalances) LEFT JOIN the entries of their status and     *)
(* date range to the lines of an account and sum the LINES: a line whose   *)
(* entry does not match keeps its amount.                                  *)
(***************************************************************************)
EXTENDS Ledger

SumAmounts(S, a) ==
    FoldFunctionOnSet(LAMBDA x, y : x + y, 0, [e \in Entries |-> entry[e].lines[a]], S)

Stocked == {e \in Entries : entry[e].status # "none"}

PostedWithin(ds) == {e \in Entries : entry[e].status = "posted" /\ entry[e].date \in ds}

(* SUM(jl.debit) - SUM(jl.credit) of the LEFT JOIN, for dates ds. *)
AccountBalance(a, ds) == SumAmounts(Stocked, a)
=============================================================================
