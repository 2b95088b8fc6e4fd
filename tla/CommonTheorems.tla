--------------------------- MODULE CommonTheorems ---------------------------
(* What the proofs share: sums over finite sets, the greatest of a finite set,
   and the steps of a request. *)
EXTENDS Requests, Functions, FiniteSetTheorems, WellFoundedInduction, TLAPS

----
(* Sums over finite sets.  The fold of the community modules is a recursive
   function that takes the members in an order of its own. *)

FirstOf(s) == CHOOSE y \in s : TRUE
SumEquation(g, l, S) ==
    g = [s \in SUBSET S |-> IF s = {} THEN 0 ELSE l[FirstOf(s)] + g[s \ {FirstOf(s)}]]
SumSolution(l, S) == CHOOSE g : SumEquation(g, l, S)
SetSum(l, S) == SumSolution(l, S)[S]

(* Which is what the sums of the models are. *)
LEMMA FoldIsSum ==
    ASSUME NEW l, NEW S
    PROVE  FoldFunctionOnSet(LAMBDA x, y : x + y, 0, l, S) = SetSum(l, S)
BY DEF FoldFunctionOnSet, MapThenFoldSet, SetSum, SumSolution, SumEquation, FirstOf

(* Of a set of natural numbers that is not empty one is the least. *)
LEMMA HasLeast ==
    ASSUME NEW T, T \subseteq Nat, T # {}
    PROVE  \E m \in T : \A t \in T : m <= t
<1>1. PICK m \in T : \A y \in T : <<y, m>> \notin OpToRel(<, Nat) BY NatLessThanWellFounded, WFMin
<1>2. \A y \in T : ~(y < m) BY <1>1 DEF OpToRel
<1> QED BY <1>2

(* A set of subsets that has every subset that is empty, or is without a member
   in the set, has all of them. *)
LEMMA SubsetInduction ==
    ASSUME NEW S, IsFiniteSet(S), NEW X,
           \A T \in SUBSET S : (\A x \in T : T \ {x} \in X) => T \in X
    PROVE  \A T \in SUBSET S : T \in X
<1>1. \A T \in SUBSET S : IsFiniteSet(T) /\ Cardinality(T) \in Nat BY FS_Subset, FS_CardinalityType
<1>2. SUFFICES ASSUME NEW T \in SUBSET S, T \notin X PROVE FALSE OBVIOUS
<1> DEFINE Sizes == {n \in Nat : \E U \in SUBSET S : U \notin X /\ Cardinality(U) = n}
<1>3. Cardinality(T) \in Sizes BY <1>1, <1>2
<1>4. PICK m \in Sizes : \A n \in Sizes : m <= n
  <2> HIDE DEF Sizes
  <2>1. Sizes \subseteq Nat BY DEF Sizes
  <2> QED BY <1>3, <2>1, HasLeast
<1>5. PICK U \in SUBSET S : U \notin X /\ Cardinality(U) = m BY <1>4
<1>6. PICK x \in U : U \ {x} \notin X BY <1>5
<1>7. U \ {x} \in SUBSET S /\ Cardinality(U \ {x}) = Cardinality(U) - 1
  BY <1>1, <1>6, FS_RemoveElement
<1>8. Cardinality(U \ {x}) \in Sizes BY <1>1, <1>6, <1>7
<1>9. m \in Nat /\ m <= m - 1
  <2>1. m \in Nat /\ m - 1 \in Sizes
    <3>1. m \in Nat BY <1>4
    <3>2. Cardinality(U \ {x}) = m - 1 BY <1>5, <1>7
    <3> HIDE DEF Sizes
    <3> QED BY <1>8, <3>1, <3>2
  <2>2. m <= m - 1 BY <1>4, <2>1
  <2> QED BY <2>1, <2>2
<1> QED BY <1>9

(* The recursion has a solution, *)
LEMMA SumExists ==
    ASSUME NEW S, IsFiniteSet(S), NEW l
    PROVE  \E g : SumEquation(g, l, S)
<1> DEFINE Small(n) == {s \in SUBSET S : Cardinality(s) <= n}
           Step(g, s) == IF s = {} THEN 0 ELSE l[FirstOf(s)] + g[s \ {FirstOf(s)}]
           Solves(g, n) == g = [s \in Small(n) |-> Step(g, s)]
           Bad == {n \in Nat : ~\E g : Solves(g, n)}
<1>1. \A T \in SUBSET S : IsFiniteSet(T) /\ Cardinality(T) \in Nat BY FS_Subset, FS_CardinalityType
<1>2. \A T \in SUBSET S : T # {} =>
         FirstOf(T) \in T /\ Cardinality(T \ {FirstOf(T)}) = Cardinality(T) - 1
  BY <1>1, FS_RemoveElement DEF FirstOf
<1>3. Bad = {}
  <2>1. SUFFICES ASSUME Bad # {} PROVE FALSE OBVIOUS
  <2>2. PICK m \in Bad : \A n \in Bad : m <= n
    <3> HIDE DEF Bad
    <3>1. Bad \subseteq Nat BY DEF Bad
    <3> QED BY <2>1, <3>1, HasLeast
  <2>3. CASE m = 0
    <3>1. \A s \in Small(0) : s = {} BY <1>1, FS_EmptySet
    <3>2. Solves([s \in Small(0) |-> 0], 0) BY <3>1
    <3> QED BY <2>2, <2>3, <3>2
  <2>4. CASE m # 0
    <3>1. m \in Nat /\ m - 1 \in Nat /\ ~(m <= m - 1) BY <2>2, <2>4
    <3>2. m - 1 \notin Bad BY <2>2, <3>1
    <3>3. PICK g : Solves(g, m - 1) BY <3>1, <3>2
    <3> DEFINE h == [s \in Small(m) |-> Step(g, s)]
    <3>4. \A s \in Small(m) : s # {} => s \ {FirstOf(s)} \in Small(m - 1) BY <1>1, <1>2, <3>1
    <3>5. \A s \in Small(m - 1) : s \in Small(m) /\ g[s] = Step(g, s)
      <4>1. \A s \in Small(m - 1) : s \in Small(m) BY <1>1, <3>1
      <4>2. \A s \in Small(m - 1) : g[s] = Step(g, s)
        <5> HIDE DEF Small
        <5> QED BY <3>3
      <4> QED BY <4>1, <4>2
    <3>6. \A s \in Small(m - 1) : h[s] = g[s] BY <3>5
    <3>7. \A s \in Small(m) : Step(h, s) = Step(g, s)
      <4> HIDE DEF h, Small
      <4> QED BY <3>4, <3>6
    <3>8. Solves(h, m) BY <3>7
    <3> QED BY <2>2, <3>8
  <2> QED BY <2>3, <2>4
<1>4. PICK g : Solves(g, Cardinality(S)) BY <1>1, <1>3
<1>5. Small(Cardinality(S)) = SUBSET S
  <2>1. \A T \in SUBSET S : Cardinality(T) <= Cardinality(S) BY FS_Subset
  <2> QED BY <2>1
<1>6. SumEquation(g, l, S) BY <1>4, <1>5 DEF SumEquation
<1> QED BY <1>6

(* and is so solved. *)
LEMMA SumUnfolds ==
    ASSUME NEW S, IsFiniteSet(S), NEW l, NEW s \in SUBSET S
    PROVE  SumSolution(l, S)[s] = IF s = {} THEN 0
                             ELSE l[FirstOf(s)] + SumSolution(l, S)[s \ {FirstOf(s)}]
<1>1. SumEquation(SumSolution(l, S), l, S) BY SumExists DEF SumSolution
<1> DEFINE g == SumSolution(l, S)
<1>2. g = [t \in SUBSET S |-> IF t = {} THEN 0 ELSE l[FirstOf(t)] + g[t \ {FirstOf(t)}]]
  BY <1>1 DEF SumEquation
<1> HIDE DEF g
<1>3. g[s] = IF s = {} THEN 0 ELSE l[FirstOf(s)] + g[s \ {FirstOf(s)}] BY <1>2
<1> QED BY <1>3 DEF g

(* It does not matter of which set a sum is a part. *)
LEMMA SumOfPart ==
    ASSUME NEW S, IsFiniteSet(S), NEW l, NEW T \in SUBSET S
    PROVE  SumSolution(l, S)[T] = SetSum(l, T)
<1> DEFINE X == {U \in SUBSET T : SumSolution(l, S)[U] = SumSolution(l, T)[U]}
<1>1. IsFiniteSet(T) BY FS_Subset
<1>2. ASSUME NEW U \in SUBSET T, \A x \in U : U \ {x} \in X PROVE  U \in X
  <2>1. /\ SumSolution(l, S)[U] = IF U = {} THEN 0
                             ELSE l[FirstOf(U)] + SumSolution(l, S)[U \ {FirstOf(U)}]
        /\ SumSolution(l, T)[U] = IF U = {} THEN 0
                             ELSE l[FirstOf(U)] + SumSolution(l, T)[U \ {FirstOf(U)}]
    BY <1>1, SumUnfolds
  <2>2. U # {} => FirstOf(U) \in U BY DEF FirstOf
  <2> QED BY <1>2, <2>1, <2>2
<1>3. \A U \in SUBSET T : U \in X
  <2> HIDE DEF X
  <2> QED BY <1>1, <1>2, SubsetInduction
<1> QED BY <1>3 DEF SetSum

(* A sum is empty, or the first member and the sum of the others. *)
LEMMA SumIsFirstAndRest ==
    ASSUME NEW S, IsFiniteSet(S), NEW l
    PROVE  SetSum(l, S) = IF S = {} THEN 0 ELSE l[FirstOf(S)] + SetSum(l, S \ {FirstOf(S)})
<1>1. SetSum(l, S) = IF S = {} THEN 0 ELSE l[FirstOf(S)] + SumSolution(l, S)[S \ {FirstOf(S)}]
  BY SumUnfolds DEF SetSum
<1>2. SumSolution(l, S)[S \ {FirstOf(S)}] = SetSum(l, S \ {FirstOf(S)}) BY SumOfPart
<1> QED BY <1>1, <1>2

(* The sum of numbers is a number. *)
LEMMA SumType ==
    ASSUME NEW S, IsFiniteSet(S), NEW l, \A s \in S : l[s] \in Int
    PROVE  SetSum(l, S) \in Int
<1> DEFINE X == {T \in SUBSET S : SetSum(l, T) \in Int}
<1>1. ASSUME NEW T \in SUBSET S, \A x \in T : T \ {x} \in X PROVE  T \in X
  <2>1. SetSum(l, T) = IF T = {} THEN 0 ELSE l[FirstOf(T)] + SetSum(l, T \ {FirstOf(T)})
    BY FS_Subset, SumIsFirstAndRest
  <2>2. T # {} => FirstOf(T) \in T BY DEF FirstOf
  <2> QED BY <1>1, <2>1, <2>2
<1>2. \A T \in SUBSET S : T \in X
  <2> HIDE DEF X
  <2> QED BY <1>1, SubsetInduction
<1> QED BY <1>2

(* Any member may be taken first. *)
LEMMA SumTakes ==
    ASSUME NEW S, IsFiniteSet(S), NEW l, \A s \in S : l[s] \in Int, NEW e \in S
    PROVE  SetSum(l, S) = l[e] + SetSum(l, S \ {e})
<1> DEFINE X == {T \in SUBSET S : \A d \in T : SetSum(l, T) = l[d] + SetSum(l, T \ {d})}
<1>1. \A T \in SUBSET S : IsFiniteSet(T) /\ SetSum(l, T) \in Int
  <2> SUFFICES ASSUME NEW T \in SUBSET S PROVE IsFiniteSet(T) /\ SetSum(l, T) \in Int OBVIOUS
  <2>1. IsFiniteSet(T) BY FS_Subset
  <2> QED BY <2>1, SumType
<1>2. ASSUME NEW T \in SUBSET S, \A x \in T : T \ {x} \in X PROVE  T \in X
  <2> SUFFICES ASSUME NEW d \in T PROVE SetSum(l, T) = l[d] + SetSum(l, T \ {d}) OBVIOUS
  <2> DEFINE f == FirstOf(T)
  <2>1. f \in T BY DEF FirstOf
  <2>2. SetSum(l, T) = l[f] + SetSum(l, T \ {f}) BY <1>1, <2>1, SumIsFirstAndRest
  <2>3. CASE d = f BY <2>2, <2>3
  <2>4. CASE d # f
    <3>1. SetSum(l, T \ {f}) = l[d] + SetSum(l, (T \ {f}) \ {d}) BY <1>2, <2>1, <2>4
    <3>2. SetSum(l, T \ {d}) = l[f] + SetSum(l, (T \ {d}) \ {f}) BY <1>2, <2>1, <2>4
    <3>3. (T \ {f}) \ {d} = (T \ {d}) \ {f} OBVIOUS
    <3>4. l[d] \in Int /\ l[f] \in Int /\ SetSum(l, (T \ {d}) \ {f}) \in Int BY <1>1, <2>1
    <3> HIDE DEF f
    <3>5. PICK rest \in Int : rest = SetSum(l, (T \ {d}) \ {f}) BY <3>4
    <3>6. SetSum(l, T) = l[f] + (l[d] + rest) /\ SetSum(l, T \ {d}) = l[f] + rest
      BY <2>2, <3>1, <3>2, <3>3, <3>5
    <3> QED BY <3>4, <3>5, <3>6
  <2> QED BY <2>3, <2>4
<1>3. \A T \in SUBSET S : T \in X
  <2> HIDE DEF X
  <2> QED BY <1>2, SubsetInduction
<1> QED BY <1>3

(* The sum of natural numbers is a natural number, and one of positive numbers
   is positive unless there are none. *)
LEMMA SumOfNaturals ==
    ASSUME NEW S, IsFiniteSet(S), NEW l, \A s \in S : l[s] \in Nat
    PROVE  /\ SetSum(l, S) \in Nat
           /\ S # {} /\ (\A s \in S : l[s] # 0) => SetSum(l, S) # 0
<1> DEFINE X == {T \in SUBSET S : SetSum(l, T) \in Nat}
<1>1. ASSUME NEW T \in SUBSET S, \A x \in T : T \ {x} \in X PROVE  T \in X
  <2>1. SetSum(l, T) = IF T = {} THEN 0 ELSE l[FirstOf(T)] + SetSum(l, T \ {FirstOf(T)})
    BY FS_Subset, SumIsFirstAndRest
  <2>2. T # {} => FirstOf(T) \in T BY DEF FirstOf
  <2> QED BY <1>1, <2>1, <2>2
<1>2. \A T \in SUBSET S : T \in X
  <2> HIDE DEF X
  <2> QED BY <1>1, SubsetInduction
<1>3. SetSum(l, S) \in Nat BY <1>2
<1>4. ASSUME NEW s \in S, l[s] # 0 PROVE SetSum(l, S) # 0
  <2>1. SetSum(l, S \ {s}) \in Nat BY <1>2
  <2>2. SetSum(l, S) = l[s] + SetSum(l, S \ {s}) BY SumTakes
  <2> QED BY <1>4, <2>1, <2>2
<1> QED BY <1>3, <1>4

(* Only the members count. *)
LEMMA SumAgrees ==
    ASSUME NEW S, IsFiniteSet(S), NEW l, NEW m, \A s \in S : l[s] = m[s]
    PROVE  SetSum(l, S) = SetSum(m, S)
<1> DEFINE X == {T \in SUBSET S : SetSum(l, T) = SetSum(m, T)}
<1>1. ASSUME NEW T \in SUBSET S, \A x \in T : T \ {x} \in X PROVE  T \in X
  <2>1. /\ SetSum(l, T) = IF T = {} THEN 0 ELSE l[FirstOf(T)] + SetSum(l, T \ {FirstOf(T)})
        /\ SetSum(m, T) = IF T = {} THEN 0 ELSE m[FirstOf(T)] + SetSum(m, T \ {FirstOf(T)})
    BY FS_Subset, SumIsFirstAndRest
  <2>2. T # {} => FirstOf(T) \in T BY DEF FirstOf
  <2> QED BY <1>1, <2>1, <2>2
<1>2. \A T \in SUBSET S : T \in X
  <2> HIDE DEF X
  <2> QED BY <1>1, SubsetInduction
<1> QED BY <1>2

(* The sum of the opposites is the opposite of the sum. *)
LEMMA SumOfOpposites ==
    ASSUME NEW S, IsFiniteSet(S), NEW l, NEW m, \A s \in S : l[s] \in Int /\ m[s] = -l[s]
    PROVE  SetSum(m, S) = -SetSum(l, S)
<1> DEFINE X == {T \in SUBSET S : SetSum(m, T) = -SetSum(l, T)}
<1>1. ASSUME NEW T \in SUBSET S, \A x \in T : T \ {x} \in X PROVE  T \in X
  <2>1. /\ SetSum(l, T) = IF T = {} THEN 0 ELSE l[FirstOf(T)] + SetSum(l, T \ {FirstOf(T)})
        /\ SetSum(m, T) = IF T = {} THEN 0 ELSE m[FirstOf(T)] + SetSum(m, T \ {FirstOf(T)})
    BY FS_Subset, SumIsFirstAndRest
  <2>2. T # {} => FirstOf(T) \in T BY DEF FirstOf
  <2>3. SetSum(l, T \ {FirstOf(T)}) \in Int
    <3>1. IsFiniteSet(T \ {FirstOf(T)}) BY FS_Subset
    <3> QED BY <3>1, SumType
  <2>4. CASE T = {} BY <2>1, <2>4
  <2>5. CASE T # {}
    <3>1. /\ SetSum(m, T \ {FirstOf(T)}) = -SetSum(l, T \ {FirstOf(T)})
          /\ m[FirstOf(T)] = -l[FirstOf(T)] /\ l[FirstOf(T)] \in Int
      BY <1>1, <2>2, <2>5
    <3>2. SetSum(m, T) = -SetSum(l, T) BY <2>1, <2>3, <2>5, <3>1
    <3> QED BY <3>2
  <2> QED BY <2>4, <2>5
<1>2. \A T \in SUBSET S : T \in X
  <2> HIDE DEF X
  <2> QED BY <1>1, SubsetInduction
<1> QED BY <1>2

(* The sum of sums is the sum of both. *)
LEMMA SumOfSums ==
    ASSUME NEW S, IsFiniteSet(S), NEW l, NEW k, NEW m,
           \A s \in S : l[s] \in Int /\ k[s] \in Int /\ m[s] = l[s] + k[s]
    PROVE  SetSum(m, S) = SetSum(l, S) + SetSum(k, S)
<1> DEFINE X == {T \in SUBSET S : SetSum(m, T) = SetSum(l, T) + SetSum(k, T)}
<1>1. ASSUME NEW T \in SUBSET S, \A x \in T : T \ {x} \in X PROVE  T \in X
  <2>1. /\ SetSum(l, T) = IF T = {} THEN 0 ELSE l[FirstOf(T)] + SetSum(l, T \ {FirstOf(T)})
        /\ SetSum(m, T) = IF T = {} THEN 0 ELSE m[FirstOf(T)] + SetSum(m, T \ {FirstOf(T)})
        /\ SetSum(k, T) = IF T = {} THEN 0 ELSE k[FirstOf(T)] + SetSum(k, T \ {FirstOf(T)})
    BY FS_Subset, SumIsFirstAndRest
  <2>2. T # {} => FirstOf(T) \in T BY DEF FirstOf
  <2>3. SetSum(l, T \ {FirstOf(T)}) \in Int /\ SetSum(k, T \ {FirstOf(T)}) \in Int
    <3>1. IsFiniteSet(T \ {FirstOf(T)}) BY FS_Subset
    <3> QED BY <3>1, SumType
  <2>4. CASE T = {} BY <2>1, <2>4
  <2>5. CASE T # {}
    <3>1. /\ SetSum(m, T \ {FirstOf(T)}) = SetSum(l, T \ {FirstOf(T)}) + SetSum(k, T \ {FirstOf(T)})
          /\ m[FirstOf(T)] = l[FirstOf(T)] + k[FirstOf(T)]
          /\ l[FirstOf(T)] \in Int /\ k[FirstOf(T)] \in Int
      BY <1>1, <2>2, <2>5
    <3>2. SetSum(m, T) = SetSum(l, T) + SetSum(k, T) BY <2>1, <2>3, <2>5, <3>1
    <3> QED BY <3>2
  <2> QED BY <2>4, <2>5
<1>2. \A T \in SUBSET S : T \in X
  <2> HIDE DEF X
  <2> QED BY <1>1, SubsetInduction
<1> QED BY <1>2

(* Two sets without a common member are summed one after the other. *)
LEMMA SumOfBoth ==
    ASSUME NEW S, IsFiniteSet(S), NEW l, \A s \in S : l[s] \in Int,
           NEW A \in SUBSET S, NEW B \in SUBSET S, A \cap B = {}
    PROVE  SetSum(l, A \cup B) = SetSum(l, A) + SetSum(l, B)
<1> DEFINE X == {T \in SUBSET A : SetSum(l, T \cup B) = SetSum(l, T) + SetSum(l, B)}
<1>1. IsFiniteSet(A) /\ IsFiniteSet(B) /\ SetSum(l, B) \in Int BY FS_Subset, SumType
<1>2. ASSUME NEW T \in SUBSET A, \A x \in T : T \ {x} \in X PROVE T \in X
  <2>1. IsFiniteSet(T) /\ IsFiniteSet(T \cup B) BY <1>1, FS_Subset, FS_Union
  <2>2. CASE T = {}
    <3>1. SetSum(l, T) = 0 BY <2>1, <2>2, SumIsFirstAndRest
    <3> QED BY <1>1, <2>2, <3>1
  <2>3. ASSUME NEW x \in T PROVE T \in X
    <3>1. SetSum(l, T) = l[x] + SetSum(l, T \ {x}) BY <2>1, SumTakes
    <3>2. SetSum(l, T \cup B) = l[x] + SetSum(l, (T \cup B) \ {x}) BY <2>1, SumTakes
    <3>3. (T \cup B) \ {x} = (T \ {x}) \cup B OBVIOUS
    <3>4. SetSum(l, (T \ {x}) \cup B) = SetSum(l, T \ {x}) + SetSum(l, B) BY <1>2
    <3>5. SetSum(l, T \ {x}) \in Int /\ l[x] \in Int
      <4>1. IsFiniteSet(T \ {x}) BY <2>1, FS_Subset
      <4> QED BY <4>1, SumType
    <3>6. SetSum(l, T \cup B) = SetSum(l, T) + SetSum(l, B)
      <4> DEFINE a == SetSum(l, T \ {x})
                 b == SetSum(l, B)
      <4>1. /\ SetSum(l, T) = l[x] + a /\ SetSum(l, T \cup B) = l[x] + (a + b)
            /\ a \in Int /\ b \in Int /\ l[x] \in Int
        BY <1>1, <3>1, <3>2, <3>3, <3>4, <3>5
      <4> HIDE DEF a
      <4> QED BY <4>1
    <3> QED BY <3>6
  <2> QED BY <2>2, <2>3
<1>3. \A T \in SUBSET A : T \in X
  <2> HIDE DEF X
  <2> QED BY <1>1, <1>2, SubsetInduction
<1> QED BY <1>3

(* The sum of the sums of groups is the sum of all. *)
Group(S, key, k) == {s \in S : key[s] = k}

LEMMA SumOfGroups ==
    ASSUME NEW S, IsFiniteSet(S), NEW l, \A s \in S : l[s] \in Int,
           NEW K, IsFiniteSet(K), NEW key, \A s \in S : key[s] \in K,
           NEW m, \A k \in K : m[k] = SetSum(l, Group(S, key, k))
    PROVE  SetSum(m, K) = SetSum(l, S)
<1> DEFINE Of(T) == {s \in S : key[s] \in T}
           X == {T \in SUBSET K : SetSum(m, T) = SetSum(l, Of(T))}
<1>1. ASSUME NEW T \in SUBSET K, \A x \in T : T \ {x} \in X PROVE T \in X
  <2>1. IsFiniteSet(T) /\ \A U \in SUBSET S : IsFiniteSet(U) /\ SetSum(l, U) \in Int
    BY FS_Subset, SumType
  <2>2. \A k \in K : m[k] \in Int BY <2>1 DEF Group
  <2>3. CASE T = {}
    <3>1. SetSum(m, {}) = 0 /\ SetSum(l, {}) = 0 BY FS_EmptySet, SumIsFirstAndRest
    <3>2. Of(T) = {} BY <2>3
    <3> QED BY <2>3, <3>1, <3>2
  <2>4. ASSUME NEW x \in T PROVE T \in X
    <3>1. SetSum(m, T) = m[x] + SetSum(m, T \ {x}) BY <2>1, <2>2, SumTakes
    <3>2. SetSum(m, T \ {x}) = SetSum(l, Of(T \ {x})) BY <1>1
    <3>3. m[x] = SetSum(l, Of({x}))
      <4>1. Of({x}) = Group(S, key, x) BY DEF Group
      <4> QED BY <4>1
    <3>4. Of(T) = Of({x}) \cup Of(T \ {x}) /\ Of({x}) \cap Of(T \ {x}) = {} OBVIOUS
    <3>5. SetSum(l, Of(T)) = SetSum(l, Of({x})) + SetSum(l, Of(T \ {x})) BY <3>4, SumOfBoth
    <3> QED BY <3>1, <3>2, <3>3, <3>5
  <2> QED BY <2>3, <2>4
<1>2. \A T \in SUBSET K : T \in X
  <2> HIDE DEF X
  <2> QED BY <1>1, SubsetInduction
<1>3. Of(K) = S OBVIOUS
<1> QED BY <1>2, <1>3

(* Of natural numbers the sum is no less than any, or any two, of them. *)
LEMMA SumAtLeast ==
    ASSUME NEW S, IsFiniteSet(S), NEW l, \A s \in S : l[s] \in Nat, NEW a \in S
    PROVE  /\ SetSum(l, S) \in Nat /\ SetSum(l, S) >= l[a]
           /\ \A b \in S \ {a} : SetSum(l, S) >= l[a] + l[b]
<1>1. \A T \in SUBSET S : IsFiniteSet(T) /\ SetSum(l, T) \in Nat BY FS_Subset, SumOfNaturals
<1>2. SetSum(l, S) = l[a] + SetSum(l, S \ {a}) BY SumTakes
<1>3. ASSUME NEW b \in S \ {a} PROVE SetSum(l, S \ {a}) = l[b] + SetSum(l, (S \ {a}) \ {b})
  BY <1>1, SumTakes
<1>4. /\ SetSum(l, S) \in Nat /\ SetSum(l, S \ {a}) \in Nat
      /\ \A b \in S \ {a} : SetSum(l, (S \ {a}) \ {b}) \in Nat /\ l[b] \in Nat /\ l[a] \in Nat
  BY <1>1
<1>5. SetSum(l, S) >= l[a] BY <1>2, <1>4
<1>6. ASSUME NEW b \in S \ {a} PROVE SetSum(l, S) >= l[a] + l[b]
  <2> DEFINE rest == SetSum(l, (S \ {a}) \ {b})
  <2>1. /\ SetSum(l, S) = l[a] + (l[b] + rest)
        /\ rest \in Nat /\ l[b] \in Nat /\ l[a] \in Nat
    BY <1>2, <1>3, <1>4
  <2> HIDE DEF rest
  <2> QED BY <2>1
<1> QED BY <1>4, <1>5, <1>6

(* Division undoes multiplication. *)
LEMMA DivIs ==
    ASSUME NEW a \in Nat \ {0}, NEW q \in Int, NEW r \in Nat, r < a
    PROVE  (a * q + r) \div a = q
<1> DEFINE x == a * q + r
           d == x \div a
           m == x % a
<1>1. x \in Int /\ d \in Int /\ m \in 0..a - 1 OBVIOUS
<1>2. x = a * d + m OBVIOUS
<1> HIDE DEF x, d, m
<1>3. a * q + r = a * d + m BY <1>2 DEF x
<1>4. CASE d >= q + 1
  <2>1. a * d >= a * (q + 1) BY <1>1, <1>4
  <2>2. a * (q + 1) = a * q + a BY <1>1
  <2> QED BY <1>1, <1>3, <2>1, <2>2
<1>5. CASE d <= q - 1
  <2>1. a * d <= a * (q - 1) BY <1>1, <1>5
  <2>2. a * (q - 1) = a * q - a BY <1>1
  <2> QED BY <1>1, <1>3, <2>1, <2>2
<1>6. CASE d = q BY <1>6 DEF x, d
<1> QED BY <1>1, <1>4, <1>5, <1>6 DEF d, x

----
(* Finite sets. *)

(* The sum of the rows of a table. *)
LEMMA AddAllIsSum == \A l, S : AddAll(l, S) = SetSum(l, S)
BY FoldIsSum DEF AddAll

(* Of a finite set of numbers that is not empty one is the greatest. *)
LEMMA MaxIs ==
    ASSUME NEW S, IsFiniteSet(S), S \subseteq Int, S # {}
    PROVE  Max(S) \in S /\ \A x \in S : x <= Max(S)
<1> DEFINE X == {T \in SUBSET S : T = {} \/ \E x \in T : \A y \in T : x >= y}
<1>1. ASSUME NEW T \in SUBSET S, \A x \in T : T \ {x} \in X PROVE T \in X
  <2>1. CASE T = {} BY <2>1
  <2>2. CASE T # {}
    <3>1. PICK x \in T : TRUE BY <2>2
    <3>2. CASE T \ {x} = {} BY <3>1, <3>2
    <3>3. CASE T \ {x} # {}
      <4>1. PICK z \in T \ {x} : \A y \in T \ {x} : z >= y BY <1>1, <3>1, <3>3
      <4>2. CASE z >= x BY <4>1, <4>2
      <4>3. CASE x >= z BY <3>1, <4>1, <4>3
      <4> QED BY <3>1, <4>1, <4>2, <4>3
    <3> QED BY <3>2, <3>3
  <2> QED BY <2>1, <2>2
<1>2. \A T \in SUBSET S : T \in X
  <2> HIDE DEF X
  <2> QED BY <1>1, SubsetInduction
<1>3. \E x \in S : \A y \in S : x >= y BY <1>2
<1> QED BY <1>3 DEF Max

(* What a function takes a finite set to is finite. *)
LEMMA ImageFinite ==
    ASSUME NEW S, IsFiniteSet(S), NEW f, NEW T, \A t \in T : \E s \in S : f[s] = t
    PROVE  IsFiniteSet(T)
<1> DEFINE U == {s \in S : f[s] \in T}
           g == [s \in U |-> f[s]]
<1>1. IsFiniteSet(U) BY FS_Subset
<1>2. g \in [U -> T] /\ \A t \in T : \E s \in U : g[s] = t OBVIOUS
<1>3. g \in Surjection(U, T) BY <1>2 DEF Surjection
<1> HIDE DEF U, g
<1> QED BY <1>1, <1>3, FS_Surjection

(* A set whose members are the same. *)
LEMMA NoTwoMembers ==
    ASSUME NEW S, \A p, q \in S : p = q
    PROVE  IsFiniteSet(S) /\ Cardinality(S) \in Nat /\ Cardinality(S) <= 1
<1>1. CASE S = {} BY <1>1, FS_EmptySet
<1>2. CASE S # {}
  <2>1. PICK p \in S : TRUE BY <1>2
  <2>2. S = {p} BY <2>1
  <2> QED BY <2>2, FS_Singleton
<1> QED BY <1>1, <1>2

----
(* A request has moved: the others have not, and it is one that is there. *)
Moved(c) ==
    /\ DOMAIN calls' = Callers /\ \A d \in Callers \ {c} : calls'[d] = calls[d]
    /\ calls[c].at # "gone" /\ calls'[c].at # "gone"
(* Who is alone stays alone, and is the one that moves. *)
LEMMA AloneKept ==
    ASSUME NEW c \in Callers, Moved(c)
    PROVE  /\ Alone' <=> Alone
           /\ Alone => \A d \in Callers \ {c} : calls[d] = Gone
<1>1. Gone.at = "gone" BY DEF Gone
<1>2. ASSUME NEW e \in Callers, \A d \in Callers \ {e} : calls[d] = Gone PROVE e = c
  BY <1>1, <1>2 DEF Moved
<1>3. ASSUME NEW e \in Callers, \A d \in Callers \ {e} : calls'[d] = Gone PROVE e = c
  BY <1>1, <1>3 DEF Moved
<1>4. ASSUME Alone PROVE \A d \in Callers \ {c} : calls[d] = Gone BY <1>2, <1>4 DEF Alone
<1>5. ASSUME Alone' PROVE \A d \in Callers \ {c} : calls'[d] = Gone BY <1>3, <1>5 DEF Alone
<1>6. \A d \in Callers \ {c} : calls'[d] = calls[d] BY DEF Moved
<1>7. Alone => Alone' BY <1>4, <1>6 DEF Alone
<1>8. Alone' => Alone BY <1>5, <1>6 DEF Alone
<1> QED BY <1>1, <1>4, <1>7, <1>8

(* A request that arrives, goes on or is answered. *)
LEMMA Moves ==
    ASSUME DOMAIN calls = Callers, NEW c \in Callers, NEW call, calls[c].at # "gone",
           call.at # "gone",
           Begin(c, call) \/ Continue(c, call)
    PROVE  /\ Moved(c) /\ calls'[c] = call /\ part' = part
           /\ calls' = [calls EXCEPT ![c] = call]
BY DEF Moved, Begin, Continue

=============================================================================
