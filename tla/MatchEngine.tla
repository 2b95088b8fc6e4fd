---------------------------- MODULE MatchEngine ----------------------------
(***************************************************************************)
(* The matching of records with bank entries (MatchTransactions of         *)
(* reconciliation_engine.go, scoring in match_scorer.go): a greedy 1:1     *)
(* assignment by score, and then N:1 split matches of what is left.        *)
(*                                                                         *)
(* Records and bank entries are sequences of entries [amount, day, ref]; an *)
(* index stands for the id of an entry.  Amounts are whole units of money, *)
(* scores hundredths of a percent, rounded down.  A reference is the set   *)
(* of the parts it is made of, {} when there is none; descriptions are     *)
(* empty, which scores nothing.                                            *)
(***************************************************************************)
EXTENDS Integers, FiniteSets, Sequences, SequencesExt

CONSTANTS
    Tolerance,     \* amountTolerance of the request
    ToleranceDays, \* dateToleranceDays
    NoDay          \* an entry without a date

ASSUME MatchAssumption ==
    /\ Tolerance \in Nat
    /\ ToleranceDays \in Nat \ {0}

Size(x) == IF x < 0 THEN -x ELSE x
Larger(x, y) == IF x > y THEN x ELSE y

-----------------------------------------------------------------------------
(* ScoreMatch *)

Full == 10000
MinMatchScore == 5000

(* Within the tolerance, or a thousandth, amounts are equal; at a tenth of
   the larger they have nothing in common. *)
ScoreAmount(a, b) ==
    LET diff == Size(a - b)
        most == Larger(Size(a), Size(b))
    IN  IF a = 0 /\ b = 0 THEN Full
        ELSE IF a = 0 \/ b = 0 THEN 0
        ELSE IF 1000 * diff <= Larger(1000 * Tolerance, most) THEN Full
        ELSE IF 10 * diff >= most THEN 0
        ELSE Full - (10 * Full * diff) \div most

(* The bank entry is the record less a tax withheld at one of the rates. *)
EWTRates == {1, 2, 5, 10, 15}
IsNetOfTax(a, b) ==
    /\ 0 < b /\ b < a
    /\ \E rate \in EWTRates :
         LET expected == a * (100 - rate)
         IN  1000 * Size(100 * b - expected) <= Larger(1000, expected)

ScoreDate(d, e) ==
    IF d = NoDay \/ e = NoDay THEN Full \div 2
    ELSE IF Size(d - e) > ToleranceDays THEN 0
    ELSE Full - (Full * Size(d - e)) \div ToleranceDays

(* One reference contained in the other is a partial match. *)
ScoreReference(r, s) ==
    IF {} \in {r, s} THEN 0
    ELSE IF r = s THEN Full
    ELSE IF r \subseteq s \/ s \subseteq r THEN 8000 ELSE 0

Score(rec, bank) ==
    LET amount == IF IsNetOfTax(rec.amount, bank.amount) THEN Full
                  ELSE ScoreAmount(rec.amount, bank.amount)
    IN  (40 * amount + 20 * ScoreDate(rec.day, bank.day)
         + 25 * ScoreReference(rec.ref, bank.ref)) \div 100

-----------------------------------------------------------------------------
(* The greedy assignment *)

Candidates(recs, banks) ==
    {p \in (DOMAIN recs) \X (DOMAIN banks) : Score(recs[p[1]], banks[p[2]]) >= MinMatchScore}

(* Mutant: the pairs are taken in the order they were built. *)
FirstBuilt(p, q, recs, banks) ==
    p[1] < q[1] \/ (p[1] = q[1] /\ p[2] <= q[2])

(* The stable sort: by score, and as built where the scores are equal. *)
Precedes(p, q, recs, banks) ==
    LET s == Score(recs[p[1]], banks[p[2]])
        t == Score(recs[q[1]], banks[q[2]])
    IN  s > t \/ (s = t /\ (p[1] < q[1] \/ (p[1] = q[1] /\ p[2] <= q[2])))

Share(p, q) == p[1] = q[1] \/ p[2] = q[2]

(* The pairs are gone through in order; one that shares an entry with a pair
   taken before is skipped. *)
Assigned(recs, banks) ==
    LET Take[open \in SUBSET Candidates(recs, banks)] ==
            IF open = {} THEN {}
            ELSE LET p == CHOOSE p \in open : \A q \in open : Precedes(p, q, recs, banks)
                 IN  {p} \cup Take[{q \in open : ~Share(p, q)}]
    IN  Take[Candidates(recs, banks)]

-----------------------------------------------------------------------------
(* FindSplitMatches and its use *)

(* Positive records no larger than the entry, at most two weeks from it. *)
SplitCandidates(recs, left, bank) ==
    {i \in left :
       /\ 0 < recs[i].amount
       /\ recs[i].amount <= bank.amount + Tolerance
       /\ NoDay \in {recs[i].day, bank.day} \/ Size(recs[i].day - bank.day) <= 14}

AmountOf(recs, S) == FoldLeft(LAMBDA sum, i : sum + (IF i \in S THEN recs[i].amount ELSE 0),
                              0, [i \in DOMAIN recs |-> i])

Off(recs, S, bank) == Size(AmountOf(recs, S) - bank.amount)

(* Mutant: a group may make up less than the entry. *)
GroupsUpTo(n, recs, left, bank) ==
    {S \in SUBSET SplitCandidates(recs, left, bank) :
       Cardinality(S) = n /\ AmountOf(recs, S) <= bank.amount + Tolerance}

GroupsOf(n, recs, left, bank) ==
    {S \in SUBSET SplitCandidates(recs, left, bank) :
       Cardinality(S) = n /\ Off(recs, S, bank) <= Tolerance}

(* Pairs first; triples only when there is no pair, of twenty at most. *)
SplitGroups(recs, left, bank) ==
    LET pairs == GroupsOf(2, recs, left, bank)
    IN  IF bank.amount <= 0 THEN {}
        ELSE IF pairs # {} \/ Cardinality(SplitCandidates(recs, left, bank)) > 20
             THEN pairs
             ELSE GroupsOf(3, recs, left, bank)

(* Groups are found in lexicographic order, and the first nearest one wins:
   the least index that tells two groups apart decides. *)
FoundBefore(S, T) ==
    LET apart == (S \ T) \cup (T \ S)
    IN  apart = {} \/ \E i \in S : i \in apart /\ \A j \in apart : i <= j

BestGroup(recs, groups, bank) ==
    CHOOSE S \in groups : \A T \in groups :
        \/ Off(recs, S, bank) < Off(recs, T, bank)
        \/ Off(recs, S, bank) = Off(recs, T, bank) /\ FoundBefore(S, T)

Unpaired(group, splits) == \A s \in splits : s.recs \cap group = {}

(* Bank entries without a match are gone through in order.  Each proposes its
   best group of the records the 1:1 matching left over, also those another
   split has taken since, and goes without when that group is not free. *)
SplitsOf(recs, banks, pairs) ==
    LET left == DOMAIN recs \ {p[1] : p \in pairs}
        WithSplit(splits, j) ==
            LET groups == SplitGroups(recs, left, banks[j])
                best == BestGroup(recs, groups, banks[j])
            IN  IF j \notin {p[2] : p \in pairs} /\ groups # {} /\ Unpaired(best, splits)
                THEN splits \cup {[recs |-> best, bank |-> j]}
                ELSE splits
    IN  IF Cardinality(left) < 2 THEN {}
        ELSE FoldLeft(WithSplit, {}, [j \in DOMAIN banks |-> j])

(* MatchTransactions *)
MatchResult(recs, banks) ==
    LET pairs == Assigned(recs, banks)
        splits == SplitsOf(recs, banks, pairs)
    IN  [pairs |-> pairs, splits |-> splits,
         leftRecords |-> DOMAIN recs \ ({p[1] : p \in pairs} \cup UNION {s.recs : s \in splits}),
         leftBank |-> DOMAIN banks \ ({p[2] : p \in pairs} \cup {s.bank : s \in splits})]
=============================================================================
