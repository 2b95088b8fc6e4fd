------------------------------- MODULE Audit -------------------------------
(***************************************************************************)
(* The audit of a month's transactions (bot/audit.go, and once more in     *)
(* service/audit_tools.go): suspected duplicates, large amounts without a  *)
(* receipt, and doubtful classifications.                                  *)
(*                                                                         *)
(* A transaction is [day, amount, words, source, by, conf, from]: its      *)
(* description is a set of words, of which a part contains another as a    *)
(* string does; `by` says who classified it, `from` who submitted it.      *)
(***************************************************************************)
EXTENDS MatchEngine

CONSTANT NoDescription

(* Those with a day, the latest first, and each as often as its submitter has
   linked a Telegram account: the join is on the user. *)
ListTransactionsWithSubmitter(txns, accounts) ==
    LET Later(i, j) == txns[i].day > txns[j].day \/ (txns[i].day = txns[j].day /\ i > j)
        dated == SetToSortSeq({i \in DOMAIN txns : txns[i].day # NoDay}, Later)
    IN  FlattenSeq([k \in DOMAIN dated |->
            [a \in 1..Max({1, accounts[txns[dated[k]].from]}) |-> dated[k]]])

DescOrFallback(words) == IF words = {} THEN {NoDescription} ELSE words

(* Of the same amount, within three days, one description in the other. *)
IsSuspiciousPair(a, b) ==
    /\ a.day # NoDay /\ b.day # NoDay /\ Size(a.day - b.day) <= 3
    /\ \/ DescOrFallback(a.words) \subseteq DescOrFallback(b.words)
       \/ DescOrFallback(b.words) \subseteq DescOrFallback(a.words)

(* The rows after the i-th that go into a group with it. *)
ClusterOf(txns, bucket, i, used) ==
    {i} \cup {j \in (i + 1)..Len(bucket) :
                 j \notin used /\ IsSuspiciousPair(txns[bucket[i]], txns[bucket[j]])}

(* The groups of a bucket of one amount: sequences of rows, in their order. *)
Clusters(txns, bucket) ==
    LET places == [i \in DOMAIN bucket |-> i]
        Take(acc, i) ==
            LET cluster == ClusterOf(txns, bucket, i, acc.used)
            IN  IF i \in acc.used \/ Cardinality(cluster) < 2 THEN acc
                ELSE [used |-> acc.used \cup cluster, found |-> acc.found \cup {cluster}]
        Rows(group) == LET chosen == SelectSeq(places, LAMBDA i : i \in group)
                       IN  [k \in DOMAIN chosen |-> bucket[chosen[k]]]
    IN  {Rows(group) : group \in FoldLeft(Take, [used |-> {}, found |-> {}], places).found}

FindDuplicateGroups(txns, listed) ==
    UNION {Clusters(txns, SelectSeq(listed, LAMBDA i : txns[i].amount = amount)) :
              amount \in {txns[i].amount : i \in ToSet(listed)}}

ScanMissingReceipts(txns, listed, threshold) ==
    {i \in ToSet(listed) : txns[i].source # "receipt" /\ Size(txns[i].amount) >= threshold}

ScanClassificationIssues(txns, listed) ==
    {i \in ToSet(listed) : txns[i].conf < 60 \/ txns[i].by = "default"}
=============================================================================
