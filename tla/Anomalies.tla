----------------------------- MODULE Anomalies -----------------------------
(***************************************************************************)
(* The anomalies of a session's transactions (anomaly_service.go): seven   *)
(* detectors over the same rows, in whole pesos.                           *)
(*                                                                         *)
(* A row is [desc, day, amount, vat, type, tin, source]; an index stands   *)
(* for its id, "" for no description, and `tin` says whether it names a    *)
(* taxpayer.  txnToMap gives the detectors no "type", so a bank entry is   *)
(* nowhere a credit.  An anomaly is [kind, severity, on], `on` the row it  *)
(* is filed under.                                                         *)
(***************************************************************************)
EXTENDS MatchEngine

Anomaly(kind, severity, on) == [kind |-> kind, severity |-> severity, on |-> on]

FromSource(source, txns) == {i \in DOMAIN txns : txns[i].source = source}
Earliest(group) == CHOOSE i \in group : \A j \in group : i <= j
AmountsOf(txns, group) == FoldSet(LAMBDA i, sum : sum + txns[i].amount, 0, group)

(* Rows that agree on date, amount and description are filed under the first. *)
DuplicatesOf(txns, i) ==
    {j \in DOMAIN txns : /\ txns[j].day = txns[i].day
                         /\ txns[j].amount = txns[i].amount
                         /\ txns[j].desc = txns[i].desc}
DetectDuplicates(txns) ==
    {Anomaly("duplicate", "medium", Earliest(DuplicatesOf(txns, i))) :
        i \in {k \in DOMAIN txns : DuplicatesOf(txns, k) # {k}}}

(* A VAT that is given is more than a fiftieth away from 12 %. *)
DetectVATMismatches(txns) ==
    {Anomaly("vat_mismatch", "high", i) : i \in
        {k \in DOMAIN txns : /\ txns[k].type = "vatable" /\ txns[k].amount > 0 /\ txns[k].vat > 0
                             /\ 100 * Size(100 * txns[k].vat - 12 * txns[k].amount)
                                    > 24 * txns[k].amount}}

DetectIncompleteTINs(txns) ==
    {Anomaly("incomplete_tin", "medium", i) : i \in
        {k \in DOMAIN txns : txns[k].amount >= 1000 /\ ~txns[k].tin}}

(* The square of a row's distance from the mean, times n - 1, and that of the
   standard deviation, both n*n-fold: their quotient is the z-score squared. *)
DetectUnusualAmounts(txns) ==
    LET positive == {i \in DOMAIN txns : txns[i].amount > 0}
        n == Cardinality(positive)
        Square(i) == (n * txns[i].amount - AmountsOf(txns, positive))^2
        spread == FoldSet(LAMBDA i, sum : sum + Square(i), 0, positive)
        AtLeast(i, z) == Square(i) * (n - 1) >= z * z * spread
    IN  IF n < 5 \/ spread = 0 THEN {}
        ELSE {Anomaly("unusual_amount", IF AtLeast(i, 5) THEN "high" ELSE "medium", i) :
                 i \in {k \in positive : AtLeast(k, 3)}}

(* Of three or more rows of a name, those a third or thrice the average. *)
DetectAbnormalSupplierAmounts(txns) ==
    LET Named(i) == {j \in DOMAIN txns : txns[j].desc = txns[i].desc /\ txns[j].amount > 0}
        Weighed(i) == Cardinality(Named(i)) * txns[i].amount  \* ratio times the sum
        SumFor(i) == AmountsOf(txns, Named(i))
        Far(i) == Weighed(i) >= 5 * SumFor(i) \/ 5 * Weighed(i) <= SumFor(i)
    IN  {Anomaly("abnormal_supplier_amount", IF Far(i) THEN "high" ELSE "medium", i) :
            i \in {k \in DOMAIN txns :
                      /\ txns[k].desc # "" /\ txns[k].amount > 0 /\ Cardinality(Named(k)) >= 3
                      /\ Weighed(k) >= 3 * SumFor(k) \/ 100 * Weighed(k) <= 33 * SumFor(k)}}

(* A bank entry of the name counts as a payment, and never as a collection. *)
DetectMissingCounterparts(txns) ==
    LET Named(source, desc) == {i \in FromSource(source, txns) : txns[i].desc = desc}
        Large(source, desc) == AmountsOf(txns, Named(source, desc)) >= 10000
        names == {txns[i].desc : i \in DOMAIN txns} \ {""}
    IN  {Anomaly("missing_collection", "medium", Earliest(Named("sales_record", d))) :
            d \in {e \in names : Large("sales_record", e)}}
        \cup {Anomaly("missing_payment", "medium", Earliest(Named("purchase_record", d))) :
            d \in {e \in names : Large("purchase_record", e) /\ Named("bank_statement", e) = {}}}

(* Amounts within a thousandth, dates within three days if both are there. *)
Corresponds(bank, rec) ==
    /\ 1000 * Size(bank.amount - rec.amount) <= Larger(10, Size(bank.amount))
    /\ NoDay \in {bank.day, rec.day} \/ Size(bank.day - rec.day) <= 3

(* Each bank entry in turn takes the first record that is left. *)
TakeFirst(txns, taken, b) ==
    LET others == DOMAIN txns \ FromSource("bank_statement", txns)
        fits == {r \in others \ {p[2] : p \in taken} : Corresponds(txns[b], txns[r])}
    IN  IF fits = {} THEN taken ELSE taken \cup {<<b, Earliest(fits)>>}

Taken(txns) ==
    FoldLeft(LAMBDA taken, b : TakeFirst(txns, taken, b), {},
             SetToSortSeq(FromSource("bank_statement", txns), <))

DetectMissingInvoices(txns) ==
    LET banks == FromSource("bank_statement", txns)
        taken == Taken(txns)
        Severity(b) == IF txns[b].amount >= 10000 THEN "high" ELSE "medium"
        Remaining(rows, pos) == {i \in rows \ {p[pos] : p \in taken} : txns[i].amount > 0}
    IN  IF banks = {} THEN {}
        ELSE {Anomaly("unmatched_payment", Severity(b), b) : b \in Remaining(banks, 1)}
             \cup {Anomaly("missing_invoice", "medium", r) :
                      r \in Remaining(DOMAIN txns \ banks, 2)}

RunAnomalyDetection(txns) ==
    UNION {DetectDuplicates(txns), DetectVATMismatches(txns), DetectIncompleteTINs(txns),
           DetectUnusualAmounts(txns), DetectAbnormalSupplierAmounts(txns),
           DetectMissingCounterparts(txns), DetectMissingInvoices(txns)}
=============================================================================
