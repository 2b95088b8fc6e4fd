---------------------------- MODULE MCActionPlan ----------------------------
(* ActionPlan instances for TLC: three requests over four plans where nothing
   dies, and two requests over three plans where requests and the process may. *)
EXTENDS ActionPlan, TLC

Reliable == {[requests |-> Requests, plans |-> Plans, faults |-> FALSE]}
Failing ==
    {[requests |-> rs, plans |-> ps, faults |-> TRUE] :
        rs \in {ss \in SUBSET Requests : Cardinality(ss) = 2},
        ps \in {ss \in SUBSET Plans : Cardinality(ss) = 3}}
ReliableAndFailing == Reliable \cup Failing

Sym == Permutations(Plans) \cup Permutations(Requests)
=============================================================================
