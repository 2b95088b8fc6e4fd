----------------------------- MODULE MCTaxReport -----------------------------
(* TaxReport instances for TLC: one request at a time over a report and room
   for three amendments, and two requests over two reports. *)
EXTENDS TaxReport, TLC

Alone(r) == [requests |-> {r}, gone |-> {}, created |-> 1, versions |-> 4, faults |-> 2]
Together(xs) ==
    [requests |-> Requests, gone |-> xs, created |-> 4, versions |-> 4, faults |-> 1]

InstancesDef ==
    {Alone(r) : r \in Requests}
    \cup {Together(xs) : xs \in {ys \in SUBSET Reports : Cardinality(Reports \ ys) = 2}}

Sym == Permutations(Reports) \cup Permutations(Requests)
=============================================================================
