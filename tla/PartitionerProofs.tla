-------------------------- MODULE PartitionerProofs --------------------------
(***************************************************************************)
(* Proofs about Partitioner, for every number of workers, every RAM they   *)
(* report and every number of layers.                                      *)
(*                                                                         *)
(* Induction over the workers is done on a set: PrefixInduction says that  *)
(* a set which holds 0 and with k - 1 also k holds all of 0 .. N.          *)
(***************************************************************************)
EXTENDS Partitioner, FiniteSetTheorems, SequenceTheorems, WellFoundedInduction, TLAPS

-----------------------------------------------------------------------------
(* Induction, and the running sums.                                        *)

\* The number of workers is a positive natural number.
LEMMA NodeCount == N \in Nat /\ N >= 1
  BY PartitionerAssumption

\* Every nonempty set of natural numbers has a least element.
LEMMA NatMinimum ==
  ASSUME NEW T, T \subseteq Nat, T # {}
  PROVE  \E m \in T : \A k \in T : m <= k
<1>1. \E m \in T : \A k \in T : ~(<<k, m>> \in OpToRel(<, Nat))
  BY NatLessThanWellFounded, WFMin
<1>2. \A k, m \in Nat : k < m => <<k, m>> \in OpToRel(<, Nat)
  BY DEF OpToRel
<1>3. \A k, m \in Nat : ~(k < m) => m <= k
  OBVIOUS
<1>4. PICK m \in T : \A k \in T : ~(<<k, m>> \in OpToRel(<, Nat))
  BY <1>1
<1>5. ASSUME NEW k \in T PROVE m <= k
  <2>1. k \in Nat /\ m \in Nat
    OBVIOUS
  <2>2. ~(<<k, m>> \in OpToRel(<, Nat))
    BY <1>4
  <2> QED
    BY <2>1, <2>2, <1>2, <1>3
<1> QED
  BY <1>5

\* Induction over the nodes, on the set P of the prefixes a fact holds for.
LEMMA PrefixInduction ==
  ASSUME NEW n \in Nat, NEW P, 0 \in P,
         \A k \in 1 .. n : k - 1 \in P => k \in P
  PROVE  0 .. n \subseteq P
<1> DEFINE Bad == (0 .. n) \ P
<1> SUFFICES ASSUME Bad # {} PROVE FALSE
  OBVIOUS
<1>1. Bad \subseteq Nat
  OBVIOUS
<1>2. PICK m \in Bad : \A k \in Bad : m <= k
  <2> HIDE DEF Bad
  <2> QED BY <1>1, NatMinimum
<1>3. m \in 1 .. n /\ m - 1 \in 0 .. n /\ ~(m <= m - 1)
  OBVIOUS
<1>4. m - 1 \in P
  BY <1>2, <1>3
<1> QED
  BY <1>3, <1>4

\* A set that 1 .. n enumerates without repetition has n elements.
LEMMA Enumerated ==
  ASSUME NEW S, NEW n \in Nat, NEW f \in [1 .. n -> S],
         \A x \in S : \E k \in 1 .. n : f[k] = x,
         \A j, k \in 1 .. n : f[j] = f[k] => j = k
  PROVE  Cardinality(S) = n
<1>1. f \in Bijection(1 .. n, S)
  BY DEF Bijection, Injection, Surjection, IsInjective
<1>2. ExistsBijection(1 .. n, S)
  BY <1>1 DEF ExistsBijection
<1> QED
  BY <1>2, FS_CountingElements

\* The recursion of Sums has a solution.
LEMMA SumsExist ==
  ASSUME NEW f \in [Nodes -> Int]
  PROVE  \E g : g = [k \in 0 .. N |-> IF k = 0 THEN 0 ELSE g[k - 1] + f[k]]
<1> USE NodeCount
<1> DEFINE Upto(k, g) == /\ g \in [0 .. k -> Int]
                         /\ g[0] = 0
                         /\ \A j \in 1 .. k : g[j] = g[j - 1] + f[j]
           P == {k \in 0 .. N : \E g : Upto(k, g)}
<1>1. 0 \in P
  <2>1. Upto(0, [k \in 0 .. 0 |-> 0])
    OBVIOUS
  <2> HIDE DEF Upto
  <2> QED BY <2>1
<1>2. ASSUME NEW k \in 1 .. N, k - 1 \in P PROVE k \in P
  <2>1. PICK g : Upto(k - 1, g)
    BY <1>2
  <2> DEFINE h == [j \in 0 .. k |-> IF j = k THEN g[k - 1] + f[k] ELSE g[j]]
  <2>2. h \in [0 .. k -> Int]
    BY <2>1 DEF Nodes
  <2>3. h[0] = 0 /\ \A j \in 1 .. k : h[j] = h[j - 1] + f[j]
    BY <2>1
  <2>4. Upto(k, h)
    BY <2>2, <2>3
  <2> HIDE DEF Upto, h
  <2> QED BY <2>4
<1>3. N \in P
  <2> HIDE DEF P
  <2>1. 0 .. N \subseteq P
    BY <1>1, <1>2, PrefixInduction
  <2> QED BY <2>1
<1>4. PICK g : Upto(N, g)
  BY <1>3
<1>5. g = [k \in 0 .. N |-> IF k = 0 THEN 0 ELSE g[k - 1] + f[k]]
  BY <1>4
<1> QED
  BY <1>5

\* What Sums computes: nothing for no node, and one node more with each step.
LEMMA SumsSteps ==
  ASSUME NEW f \in [Nodes -> Int]
  PROVE  /\ Sums(f)[0] = 0
         /\ \A k \in 1 .. N : Sums(f)[k] = Sums(f)[k - 1] + f[k]
<1> DEFINE S == CHOOSE g : g = [k \in 0 .. N |->
                                  IF k = 0 THEN 0 ELSE g[k - 1] + f[k]]
<1>1. S = [k \in 0 .. N |-> IF k = 0 THEN 0 ELSE S[k - 1] + f[k]]
  BY SumsExist
<1>2. Sums(f) = S
  BY DEF Sums
<1> HIDE DEF S
<1>3. S[0] = 0 /\ \A k \in 1 .. N : S[k] = S[k - 1] + f[k]
  BY <1>1, NodeCount
<1> QED
  BY <1>2, <1>3

\* The sums over the workers are numbers.
LEMMA SumsType ==
  ASSUME NEW f \in [Nodes -> Int]
  PROVE  \A k \in 0 .. N : Sums(f)[k] \in Int
<1> DEFINE P == {k \in 0 .. N : Sums(f)[k] \in Int}
<1>1. 0 \in P
  BY SumsSteps, NodeCount
<1>2. ASSUME NEW k \in 1 .. N, k - 1 \in P PROVE k \in P
  <2>1. Sums(f)[k] = Sums(f)[k - 1] + f[k]
    BY SumsSteps
  <2>2. f[k] \in Int /\ Sums(f)[k - 1] \in Int /\ k \in 0 .. N
    BY <1>2 DEF Nodes
  <2> QED BY <2>1, <2>2
<1>3. 0 .. N \subseteq P
  <2> HIDE DEF P
  <2> QED BY <1>1, <1>2, NodeCount, PrefixInduction
<1> QED
  BY <1>3

\* A layer more or less for one node is a layer more or less in the sum.
LEMMA SumUpdate ==
  ASSUME NEW f \in [Nodes -> Int], NEW g \in [Nodes -> Int],
         NEW i \in Nodes, NEW c \in Int,
         g[i] = f[i] + c,
         \A k \in Nodes : k # i => g[k] = f[k]
  PROVE  Sum(g) = Sum(f) + c
<1> DEFINE P == {k \in 0 .. N : Sums(g)[k] = Sums(f)[k] + (IF i <= k THEN c ELSE 0)}
<1> USE NodeCount DEF Nodes
<1>1. 0 \in P
  <2>1. Sums(g)[0] = 0 /\ Sums(f)[0] = 0
    BY SumsSteps
  <2>2. ~(i <= 0) /\ 0 \in 0 .. N
    OBVIOUS
  <2> QED BY <2>1, <2>2
<1>2. ASSUME NEW k \in 1 .. N, k - 1 \in P PROVE k \in P
  <2>1. /\ Sums(g)[k] = Sums(g)[k - 1] + g[k]
        /\ Sums(f)[k] = Sums(f)[k - 1] + f[k]
    BY SumsSteps
  <2>2. Sums(f)[k - 1] \in Int /\ Sums(f)[k] \in Int /\ f[k] \in Int
    BY SumsType
  <2>3. Sums(g)[k - 1] = Sums(f)[k - 1] + (IF i <= k - 1 THEN c ELSE 0)
    BY <1>2
  <2>4. k \in 0 .. N /\ f[k] \in Int /\ c \in Int
    BY <2>2
  <2> HIDE DEF P, Nodes
  <2>5. Sums(g)[k] = Sums(f)[k] + (IF i <= k THEN c ELSE 0)
    <3>1. CASE k = i
      <4>1. g[k] = f[k] + c /\ ~(i <= k - 1) /\ i <= k
        BY <3>1, <2>4
      <4>2. Sums(g)[k - 1] = Sums(f)[k - 1]
        BY <2>2, <2>3, <4>1
      <4> QED BY <4>1, <4>2, <2>1, <2>2, <2>4
    <3>2. CASE k # i
      <4>1. g[k] = f[k] /\ (i <= k - 1 <=> i <= k)
        BY <3>2, <2>4 DEF Nodes
      <4> QED BY <4>1, <2>1, <2>2, <2>3, <2>4
    <3> QED BY <3>1, <3>2
  <2> QED BY <2>4, <2>5 DEF P
<1>3. N \in P
  <2> HIDE DEF P
  <2>1. 0 .. N \subseteq P
    BY <1>1, <1>2, PrefixInduction
  <2> QED BY <2>1
<1>4. i <= N
  OBVIOUS
<1>5. Sums(g)[N] = Sums(f)[N] + c
  BY <1>3, <1>4
<1> QED
  BY <1>5 DEF Sum

\* A sum of larger terms is larger.
LEMMA SumMonotone ==
  ASSUME NEW f \in [Nodes -> Int], NEW g \in [Nodes -> Int],
         \A i \in Nodes : f[i] <= g[i]
  PROVE  Sum(f) <= Sum(g)
<1> DEFINE P == {k \in 0 .. N : Sums(f)[k] <= Sums(g)[k]}
<1>1. 0 \in P
  <2>1. Sums(f)[0] = 0 /\ Sums(g)[0] = 0
    BY SumsSteps
  <2> QED BY <2>1, NodeCount
<1>2. ASSUME NEW k \in 1 .. N, k - 1 \in P PROVE k \in P
  <2>1. /\ Sums(f)[k] = Sums(f)[k - 1] + f[k]
        /\ Sums(g)[k] = Sums(g)[k - 1] + g[k]
    BY SumsSteps
  <2>2. f[k] \in Int /\ g[k] \in Int /\ f[k] <= g[k]
    BY DEF Nodes
  <2>3. k - 1 \in 0 .. N /\ k \in 0 .. N
    BY NodeCount
  <2>4. Sums(f)[k - 1] \in Int /\ Sums(g)[k - 1] \in Int
    BY <2>3, SumsType
  <2> QED BY <1>2, <2>1, <2>2, <2>3, <2>4
<1>3. N \in P
  <2> HIDE DEF P
  <2>1. 0 .. N \subseteq P
    BY <1>1, <1>2, NodeCount, PrefixInduction
  <2> QED BY <2>1, NodeCount
<1> QED
  BY <1>3 DEF Sum

\* The same number for every node.
LEMMA SumConstant ==
  ASSUME NEW c \in Int, NEW f \in [Nodes -> Int], \A i \in Nodes : f[i] = c
  PROVE  Sum(f) = N * c
<1> DEFINE P == {k \in 0 .. N : Sums(f)[k] = k * c}
<1>1. 0 \in P
  <2>1. Sums(f)[0] = 0
    BY SumsSteps
  <2> QED BY <2>1, NodeCount
<1>2. ASSUME NEW k \in 1 .. N, k - 1 \in P PROVE k \in P
  <2>1. Sums(f)[k] = Sums(f)[k - 1] + f[k] /\ f[k] = c
    BY SumsSteps DEF Nodes
  <2>2. k \in 0 .. N /\ Sums(f)[k - 1] = (k - 1) * c
    BY <1>2, NodeCount
  <2>3. (k - 1) * c + c = k * c
    BY NodeCount
  <2> QED BY <2>1, <2>2, <2>3
<1>3. N \in P
  <2> HIDE DEF P
  <2>1. 0 .. N \subseteq P
    BY <1>1, <1>2, NodeCount, PrefixInduction
  <2> QED BY <2>1, NodeCount
<1> QED
  BY <1>3 DEF Sum

\* Multiplication over a sum.
LEMMA Distributes ==
  \A a, b, c \in Int : /\ (a + b) * c = a * c + b * c
                       /\ c * (a + b) = c * a + c * b
OBVIOUS

\* Division with remainder, as Quota and Fraction use it.
LEMMA DivisionFacts ==
  ASSUME NEW a \in Nat, NEW t \in Nat, t > 0
  PROVE  /\ a \div t \in Nat
         /\ a % t \in 0 .. t - 1
         /\ a = t * (a \div t) + (a % t)
OBVIOUS

\* w layers of L divided by T give q and leave r.
Divided(w, L, T, q, r) == w * L = T * q + r

\* A division with remainder, term by term, adds up to one of the sums.
LEMMA SumDivision ==
  ASSUME NEW w \in [Nodes -> Int], NEW q \in [Nodes -> Int],
         NEW r \in [Nodes -> Int], NEW L \in Int, NEW T \in Int,
         \A i \in Nodes : Divided(w[i], L, T, q[i], r[i])
  PROVE  Divided(Sum(w), L, T, Sum(q), Sum(r))
<1> DEFINE P == {k \in 0 .. N : Sums(w)[k] * L = T * Sums(q)[k] + Sums(r)[k]}
<1>1. 0 \in P
  <2>1. Sums(w)[0] = 0 /\ Sums(q)[0] = 0 /\ Sums(r)[0] = 0
    BY SumsSteps
  <2>2. 0 * L = T * 0 + 0
    OBVIOUS
  <2> QED BY <2>1, <2>2, NodeCount
<1>2. ASSUME NEW k \in 1 .. N, k - 1 \in P PROVE k \in P
  <2>1. /\ Sums(w)[k] = Sums(w)[k - 1] + w[k]
        /\ Sums(q)[k] = Sums(q)[k - 1] + q[k]
        /\ Sums(r)[k] = Sums(r)[k - 1] + r[k]
    BY SumsSteps
  <2>2. k - 1 \in 0 .. N /\ k \in 0 .. N /\ k \in Nodes
    BY NodeCount DEF Nodes
  <2>3. /\ Sums(w)[k - 1] \in Int /\ Sums(q)[k - 1] \in Int
        /\ Sums(r)[k - 1] \in Int
    BY <2>2, SumsType
  <2>4. w[k] \in Int /\ q[k] \in Int /\ r[k] \in Int
    BY <2>2
  <2>5. Sums(w)[k - 1] * L = T * Sums(q)[k - 1] + Sums(r)[k - 1]
    BY <1>2
  <2>6. w[k] * L = T * q[k] + r[k]
    BY <2>2 DEF Divided
  <2> DEFINE A == Sums(w)[k - 1] * L   X == w[k] * L
             B == T * Sums(q)[k - 1]   Y == T * q[k]
  <2>7. /\ (Sums(w)[k - 1] + w[k]) * L = A + X
        /\ T * (Sums(q)[k - 1] + q[k]) = B + Y
    BY <2>3, <2>4, Distributes
  <2>8. A \in Int /\ X \in Int /\ B \in Int /\ Y \in Int
    BY <2>3, <2>4
  <2>9. A = B + Sums(r)[k - 1] /\ X = Y + r[k]
    BY <2>5, <2>6
  <2> HIDE DEF A, X, B, Y
  <2>10. A + X = (B + Y) + (Sums(r)[k - 1] + r[k])
    BY <2>3, <2>4, <2>8, <2>9
  <2> QED BY <2>1, <2>2, <2>7, <2>10
<1>3. N \in P
  <2> HIDE DEF P
  <2>1. 0 .. N \subseteq P
    BY <1>1, <1>2, NodeCount, PrefixInduction
  <2> QED BY <2>1, NodeCount
<1> QED
  BY <1>3 DEF Sum, Divided

\* When every node has a layer, every shard begins behind the one before it.
LEMMA SumsIncrease ==
  ASSUME NEW f \in [Nodes -> Int], \A i \in Nodes : f[i] >= 1,
         NEW j \in 0 .. N
  PROVE  \A k \in 0 .. N : j < k => Sums(f)[j] < Sums(f)[k]
<1> DEFINE P == {k \in 0 .. N : j < k => Sums(f)[j] < Sums(f)[k]}
<1>1. 0 \in P
  BY NodeCount
<1>2. ASSUME NEW k \in 1 .. N, k - 1 \in P PROVE k \in P
  <2>1. Sums(f)[k] = Sums(f)[k - 1] + f[k]
    BY SumsSteps
  <2>2. f[k] \in Int /\ f[k] >= 1 /\ k - 1 \in 0 .. N /\ k \in 0 .. N
    BY NodeCount DEF Nodes
  <2>3. Sums(f)[k - 1] \in Int /\ Sums(f)[j] \in Int
    BY <2>2, SumsType
  <2>4. CASE j = k - 1
    BY <2>1, <2>2, <2>3, <2>4
  <2>5. CASE j # k - 1
    BY <1>2, <2>1, <2>2, <2>3, <2>5
  <2> QED BY <2>4, <2>5
<1>3. 0 .. N \subseteq P
  <2> HIDE DEF P
  <2> QED BY <1>1, <1>2, NodeCount, PrefixInduction
<1> QED
  BY <1>3

\* Sums of natural numbers are natural numbers.
LEMMA SumsNatural ==
  ASSUME NEW f \in [Nodes -> Nat]
  PROVE  \A k \in 0 .. N : Sums(f)[k] \in Nat
<1> DEFINE P == {k \in 0 .. N : Sums(f)[k] \in Nat}
<1>0. f \in [Nodes -> Int]
  OBVIOUS
<1>1. 0 \in P
  BY <1>0, SumsSteps, NodeCount
<1>2. ASSUME NEW k \in 1 .. N, k - 1 \in P PROVE k \in P
  <2>1. Sums(f)[k] = Sums(f)[k - 1] + f[k]
    BY <1>0, SumsSteps
  <2>2. f[k] \in Nat /\ Sums(f)[k - 1] \in Nat /\ k \in 0 .. N
    BY <1>2 DEF Nodes
  <2> QED BY <2>1, <2>2
<1>3. 0 .. N \subseteq P
  <2> HIDE DEF P
  <2> QED BY <1>1, <1>2, NodeCount, PrefixInduction
<1> QED
  BY <1>3

-----------------------------------------------------------------------------
(* What the first loop leaves: the floors, and how many layers are over.   *)

\* The weights are natural numbers, and their sum is positive.
LEMMA Weights ==
  ASSUME TypeOK
  PROVE  /\ Weight \in [Nodes -> Nat]
         /\ Total \in Nat
         /\ Total > 0
         /\ Sum(Weight) = Total
         /\ layers \in Nat
<1>0. ram \in [Nodes -> Nat] /\ layers \in Nat
  BY PartitionerAssumption DEF TypeOK
<1>1. CASE Sum(ram) > 0
  <2>1. Weight = ram
    BY <1>1 DEF Weight
  <2>2. Sum(ram) \in Nat
    BY <1>0, SumsNatural, NodeCount DEF Sum
  <2> QED BY <1>0, <1>1, <2>1, <2>2 DEF Total
<1>2. CASE ~(Sum(ram) > 0)
  <2>1. Weight = [i \in Nodes |-> 1]
    BY <1>2 DEF Weight
  <2>2. Sum(Weight) = N * 1
    <3>1. Weight \in [Nodes -> Int] /\ \A i \in Nodes : Weight[i] = 1
      BY <2>1
    <3> QED BY <3>1, SumConstant
  <2>3. Total = N
    <3>1. N * 1 = N
      BY NodeCount
    <3> QED BY <2>2, <3>1 DEF Total
  <2> QED BY <1>0, <2>1, <2>3, NodeCount DEF Total
<1> QED
  BY <1>1, <1>2

\* What a node gets in the first loop and what is left of its share make the
\* share up, also where the double was rounded down.
LEMMA Shares ==
  ASSUME TypeOK, N <= layers, NEW low \in RoundedDown, NEW i \in Nodes
  PROVE  LET q == IF i \in low THEN Quota(i) - 1 ELSE Quota(i)
             r == IF i \in low THEN Total ELSE Fraction(i)
         IN  /\ q \in Nat
             /\ r \in 0 .. Total
             /\ Weight[i] * layers = Total * q + r
<1> DEFINE a == Weight[i] * layers
<1>1. /\ Weight \in [Nodes -> Nat] /\ Total \in Nat /\ Total > 0
      /\ layers \in Nat /\ Weight[i] \in Nat
  BY Weights
<1>2. a \in Nat
  BY <1>1
<1>3. /\ Quota(i) \in Nat
      /\ Fraction(i) \in 0 .. Total - 1
      /\ a = Total * Quota(i) + Fraction(i)
  <2>1. Quota(i) = a \div Total /\ Fraction(i) = a % Total
    BY DEF Quota, Fraction
  <2> HIDE DEF a
  <2> QED BY <1>1, <1>2, <2>1, DivisionFacts
<1> HIDE DEF a
<1>4. CASE i \notin low
  BY <1>1, <1>3, <1>4 DEF a
<1>5. CASE i \in low
  <2>1. Fraction(i) = 0 /\ Weight[i] > 0
    BY <1>1, <1>5 DEF RoundedDown
  <2>2. a = Total * Quota(i)
    <3>1. Total * Quota(i) \in Int
      BY <1>1, <1>3
    <3> QED BY <1>3, <2>1, <3>1
  <2>3. Quota(i) >= 1
    <3>1. a > 0
      <4>1. layers > 0 /\ Weight[i] > 0
        BY <1>1, <2>1, NodeCount
      <4>2. \A x, y \in Nat : x > 0 /\ y > 0 => x * y > 0
        OBVIOUS
      <4> QED BY <1>1, <4>1, <4>2 DEF a
    <3>2. Total * 0 = 0
      BY <1>1
    <3>3. Quota(i) # 0
      BY <2>2, <3>1, <3>2
    <3> QED BY <1>3, <3>3
  <2>4. Total * ((Quota(i) - 1) + 1) = Total * (Quota(i) - 1) + Total * 1
    BY <1>1, <1>3, Distributes
  <2>5. Total * 1 = Total /\ (Quota(i) - 1) + 1 = Quota(i)
    BY <1>1, <1>3
  <2>6. a = Total * (Quota(i) - 1) + Total
    BY <2>2, <2>4, <2>5
  <2> QED BY <1>1, <1>3, <1>5, <2>3, <2>6 DEF a
<1> QED
  BY <1>4, <1>5

\* The layers left over by the first loop are between none and one per node.
LEMMA LeftOver ==
  ASSUME TypeOK, NEW q \in [Nodes -> Nat], NEW r \in [Nodes -> 0 .. Total],
         \A i \in Nodes : Weight[i] * layers = Total * q[i] + r[i]
  PROVE  layers - Sum(q) \in 0 .. N
<1>0. /\ q \in [Nodes -> Int] /\ r \in [Nodes -> Int]
      /\ Weight \in [Nodes -> Int] /\ Total \in Nat /\ Total > 0
      /\ layers \in Nat
  BY Weights
<1>1. Sum(Weight) * layers = Total * Sum(q) + Sum(r)
  <2>1. layers \in Int /\ Total \in Int
    BY <1>0
  <2>2. \A i \in Nodes : Divided(Weight[i], layers, Total, q[i], r[i])
    BY DEF Divided
  <2>3. Divided(Sum(Weight), layers, Total, Sum(q), Sum(r))
    BY <1>0, <2>1, <2>2, SumDivision
  <2> QED BY <2>3 DEF Divided
<1>2. Sum(q) \in Nat /\ Sum(r) \in Int
  BY <1>0, SumsNatural, SumsType, NodeCount DEF Sum
<1>3. 0 <= Sum(r)
  <2>1. r \in [Nodes -> Nat]
    BY <1>0
  <2> QED BY <2>1, SumsNatural, NodeCount DEF Sum
<1>4. Sum(r) <= N * Total
  <2> DEFINE g == [i \in Nodes |-> Total]
  <2>1. g \in [Nodes -> Int] /\ \A i \in Nodes : g[i] = Total /\ r[i] <= g[i]
    BY <1>0
  <2> HIDE DEF g
  <2>2. Sum(r) <= Sum(g)
    BY <1>0, <2>1, SumMonotone
  <2>3. Sum(g) = N * Total
    BY <1>0, <2>1, SumConstant
  <2> QED BY <2>2, <2>3
<1> DEFINE d == layers - Sum(q)
<1>5. d \in Int /\ layers = Sum(q) + d
  BY <1>0, <1>2
<1> HIDE DEF d
<1>6. Total * layers = Total * Sum(q) + Total * d
  BY <1>0, <1>2, <1>5, Distributes
<1>7. Total * d = Sum(r)
  <2>1. Total * layers = Total * Sum(q) + Sum(r)
    <3>1. Total * layers = layers * Total
      BY <1>0
    <3>2. Sum(Weight) = Total
      BY Weights
    <3> QED BY <1>0, <1>1, <3>1, <3>2
  <2> DEFINE A == Total * Sum(q)   B == Total * d
  <2>2. A \in Int /\ B \in Int /\ A + B = A + Sum(r)
    BY <1>0, <1>2, <1>5, <1>6, <2>1
  <2> HIDE DEF A, B
  <2>3. B = Sum(r)
    BY <1>2, <2>2
  <2> QED BY <2>3 DEF B
<1>8. d >= 0
  <2> SUFFICES ASSUME d <= -1 PROVE FALSE
    BY <1>5
  <2>1. \A t \in Nat, x \in Int : t > 0 /\ x <= -1 => t * x < 0
    OBVIOUS
  <2>2. Total * d < 0
    BY <1>0, <1>5, <2>1
  <2> QED BY <1>2, <1>3, <1>7, <2>2
<1>9. d <= N
  <2> SUFFICES ASSUME d >= N + 1 PROVE FALSE
    BY <1>5, NodeCount
  <2>1. \A t \in Nat, x, n \in Int : t > 0 /\ x >= n + 1 => t * x > n * t
    <3>1. SUFFICES ASSUME NEW t \in Nat, NEW x \in Int, NEW n \in Int,
                          t > 0, x >= n + 1
                   PROVE  t * x > n * t
      OBVIOUS
    <3>2. t * (x - n) >= t
      <4>1. \A a \in Nat, y \in Int : y >= 1 => a * y >= a * 1
        OBVIOUS
      <4>2. x - n \in Int /\ x - n >= 1 /\ t * 1 = t
        BY <3>1
      <4> DEFINE y == x - n
      <4>3. t * y >= t * 1
        BY <4>1, <4>2
      <4> QED BY <4>2, <4>3
    <3>3. t * x = t * ((x - n) + n)
      OBVIOUS
    <3>4. t * ((x - n) + n) = t * (x - n) + t * n
      BY Distributes
    <3> QED BY <3>1, <3>2, <3>3, <3>4
  <2>2. Total * d > N * Total
    BY <1>0, <1>5, <2>1, NodeCount
  <2>3. N * Total \in Int
    BY <1>0, NodeCount
  <2> QED BY <1>2, <1>4, <1>7, <2>2, <2>3
<1> QED
  BY <1>5, <1>8, <1>9, NodeCount DEF d

-----------------------------------------------------------------------------
(* The inductive invariant of the allocation.                              *)

\* What has not been touched before its loop begins.
Fresh ==
    /\ phase = "floors" => given = {} /\ remaining = 0
    /\ phase \in {"floors", "spread"} => at = 1
    /\ phase \in {"floors", "spread", "least"} => start = 0 /\ shards = <<>>

\* From the first loop on, the layers allocated and the layers left over are
\* the layers of the model, and after the second loop none is left over.
Accounted ==
    phase \in {"spread", "least", "shards", "no_ram", "planned"} =>
        /\ N <= layers
        /\ Sum(result) + remaining = layers
        /\ phase # "spread" => remaining = 0

AllocInv == TypeOK /\ Fresh /\ Accounted /\ IndexInOrder

\* Nodes and what is left of them behind in order[] are finite.
LEMMA NodesFinite ==
  /\ IsFiniteSet(Nodes)
  /\ Cardinality(Nodes) = N
  /\ \A S \in SUBSET Nodes : IsFiniteSet(Nodes \ S) /\ Cardinality(Nodes \ S) \in Nat
<1>1. IsFiniteSet(Nodes) /\ Cardinality(Nodes) = N
  BY NodeCount, FS_Interval DEF Nodes
<1>2. ASSUME NEW S \in SUBSET Nodes
      PROVE  IsFiniteSet(Nodes \ S) /\ Cardinality(Nodes \ S) \in Nat
  BY <1>1, FS_Subset, FS_CardinalityType
<1> QED
  BY <1>1, <1>2

\* The initial state is an allocation in progress.
LEMMA InitAlloc == Init => AllocInv
<1> SUFFICES ASSUME Init PROVE AllocInv
  OBVIOUS
<1>1. TypeOK
  BY NodeCount DEF Init, TypeOK
<1>2. Fresh /\ Accounted
  BY DEF Init, Fresh, Accounted
<1>3. Cardinality(Nodes \ given) \in Nat
  BY <1>1, NodesFinite DEF TypeOK
<1>4. IndexInOrder
  BY <1>3 DEF Init, IndexInOrder
<1> QED
  BY <1>1, <1>2, <1>4 DEF AllocInv

\* The first loop, whatever is rounded.
LEMMA FloorsAlloc == AllocInv /\ Floors => AllocInv'
<1> SUFFICES ASSUME AllocInv, Floors PROVE AllocInv'
  OBVIOUS
<1>1. PICK low \in RoundedDown :
         /\ result' = [i \in Nodes |-> IF i \in low THEN Quota(i) - 1
                                                    ELSE Quota(i)]
         /\ rest' = [i \in Nodes |-> IF i \in low THEN Total ELSE Fraction(i)]
  BY DEF Floors
<1>2. TypeOK /\ N <= layers /\ layers \in Nat /\ Total \in Nat
  BY Weights DEF AllocInv, Floors
<1>3. /\ result' \in [Nodes -> Nat] /\ rest' \in [Nodes -> 0 .. Total]
      /\ \A i \in Nodes : Weight[i] * layers = Total * result'[i] + rest'[i]
  <2>1. \A i \in Nodes : LET q == IF i \in low THEN Quota(i) - 1 ELSE Quota(i)
                             r == IF i \in low THEN Total ELSE Fraction(i)
                         IN  /\ q \in Nat
                             /\ r \in 0 .. Total
                             /\ Weight[i] * layers = Total * q + r
    BY <1>2, Shares
  <2>2. \A i \in Nodes : /\ result'[i] \in Nat
                         /\ rest'[i] \in 0 .. Total
                         /\ Weight[i] * layers = Total * result'[i] + rest'[i]
    BY <1>1, <2>1
  <2> QED BY <1>1, <2>2
<1>4. remaining' = layers - Sum(result')
  BY DEF Floors
<1>5. remaining' \in 0 .. N
  BY <1>2, <1>3, <1>4, LeftOver
<1>6. Sum(result') \in Nat
  BY <1>3, SumsNatural, NodeCount DEF Sum
<1>7. given = {} /\ given' = {}
  BY DEF AllocInv, Fresh, Floors
<1>8. TypeOK'
  <2>1. rest' \in [Nodes -> Nat]
    BY <1>2, <1>3
  <2>2. remaining' \in Nat
    BY <1>5, NodeCount
  <2> QED BY <1>3, <2>1, <2>2 DEF AllocInv, TypeOK, Floors, inputs
<1>9. Fresh' /\ Accounted'
  <2>1. Fresh'
    BY DEF AllocInv, Floors, Fresh
  <2>2. Accounted'
    BY <1>2, <1>4, <1>6 DEF Floors, Accounted, inputs
  <2> QED BY <2>1, <2>2
<1>10. IndexInOrder'
  <2>1. Nodes \ given' = Nodes
    BY <1>7
  <2> QED BY <1>5, <2>1, NodesFinite, NodeCount DEF IndexInOrder
<1> QED
  BY <1>8, <1>9, <1>10 DEF AllocInv

\* A round of the second loop moves one layer from the rest to a node.
LEMMA SpreadAlloc == AllocInv /\ Spread => AllocInv'
<1> SUFFICES ASSUME AllocInv, Spread PROVE AllocInv'
  OBVIOUS
<1>1. PICK i \in Nodes \ given : /\ result' = [result EXCEPT ![i] = @ + 1]
                                 /\ given' = given \cup {i}
  BY DEF Spread
<1>2. result \in [Nodes -> Int] /\ result \in [Nodes -> Nat] /\ remaining \in Nat
  BY DEF AllocInv, TypeOK
<1>3. TypeOK'
  BY <1>1 DEF AllocInv, TypeOK, Spread, inputs
<1>4. Sum(result') = Sum(result) + 1 /\ Sum(result) \in Nat
  <2>1. /\ result' \in [Nodes -> Int] /\ result'[i] = result[i] + 1
        /\ \A k \in Nodes : k # i => result'[k] = result[k]
    BY <1>1, <1>2
  <2>2. Sum(result') = Sum(result) + 1
    BY <1>2, <2>1, SumUpdate
  <2> QED BY <1>2, <2>2, SumsNatural, NodeCount DEF Sum
<1>5. Fresh' /\ Accounted'
  BY <1>2, <1>4 DEF AllocInv, Spread, Fresh, Accounted, inputs
<1>6. IndexInOrder'
  <2> DEFINE S == Nodes \ given
  <2>1. IsFiniteSet(S) /\ i \in S /\ Nodes \ given' = S \ {i}
    BY <1>1, NodesFinite DEF AllocInv, TypeOK
  <2>2. Cardinality(S) \in Nat
    BY <2>1, FS_CardinalityType
  <2>3. Cardinality(Nodes \ given') = Cardinality(S) - 1
    BY <2>1, FS_RemoveElement
  <2> QED BY <1>2, <2>2, <2>3 DEF AllocInv, IndexInOrder, Spread
<1> QED
  BY <1>3, <1>5, <1>6 DEF AllocInv

\* A layer that changes hands in the third loop.
LEMMA TransferKeepsSum ==
  ASSUME NEW f \in [Nodes -> Int], NEW d \in Nodes, NEW i \in Nodes, d # i
  PROVE  Sum([f EXCEPT ![d] = @ - 1, ![i] = @ + 1]) = Sum(f)
<1> DEFINE g == [f EXCEPT ![d] = f[d] - 1]
           h == [f EXCEPT ![d] = @ - 1, ![i] = @ + 1]
<1>1. /\ g \in [Nodes -> Int] /\ g[d] = f[d] + (-1)
      /\ \A k \in Nodes : k # d => g[k] = f[k]
  OBVIOUS
<1>2. /\ h \in [Nodes -> Int] /\ h[i] = g[i] + 1
      /\ \A k \in Nodes : k # i => h[k] = g[k]
  OBVIOUS
<1> HIDE DEF g, h
<1>3. Sum(g) = Sum(f) + (-1)
  BY <1>1, SumUpdate
<1>4. Sum(h) = Sum(g) + 1
  BY <1>1, <1>2, SumUpdate
<1>5. Sum(f) \in Int
  BY SumsType, NodeCount DEF Sum
<1> QED
  BY <1>3, <1>4, <1>5 DEF h

\* The pass that gives every worker a layer keeps the allocation.
LEMMA AtLeastOneAlloc == AllocInv /\ AtLeastOne => AllocInv'
<1> SUFFICES ASSUME AllocInv, AtLeastOne PROVE AllocInv'
  OBVIOUS
<1>1. result \in [Nodes -> Int] /\ result \in [Nodes -> Nat]
      /\ at \in Nodes /\ at' = at + 1 /\ phase = "least" /\ phase' = phase
  BY DEF AllocInv, TypeOK, AtLeastOne, Nodes
<1>2. result' \in [Nodes -> Nat] /\ Sum(result') = Sum(result)
  <2>1. CASE UNCHANGED result
    BY <1>1, <2>1
  <2>2. CASE \E d \in Nodes :
                /\ IsFirstLargest(d, Donors(at))
                /\ result' = [result EXCEPT ![d] = @ - 1, ![at] = @ + 1]
    <3>1. PICK d \in Nodes :
             /\ d # at /\ result[d] > 1
             /\ result' = [result EXCEPT ![d] = @ - 1, ![at] = @ + 1]
      BY <2>2 DEF IsFirstLargest, Donors
    <3>2. result' \in [Nodes -> Nat]
      BY <1>1, <3>1
    <3>3. Sum(result') = Sum(result)
      BY <1>1, <3>1, TransferKeepsSum
    <3> QED BY <3>2, <3>3
  <2> QED BY <2>1, <2>2 DEF AtLeastOne
<1>3. TypeOK'
  BY <1>1, <1>2, NodeCount DEF AllocInv, TypeOK, AtLeastOne, inputs, Nodes
<1>4. Fresh' /\ Accounted' /\ IndexInOrder'
  BY <1>1, <1>2 DEF AllocInv, AtLeastOne, Fresh, Accounted, IndexInOrder, inputs
<1> QED
  BY <1>3, <1>4 DEF AllocInv

\* The steps that leave the allocation alone.
LEMMA OtherAlloc ==
  ASSUME AllocInv,
         \/ TooFewLayers \/ SpreadEnds \/ AtLeastOneEnds \/ MakeShard
         \/ InsufficientRam \/ Return \/ UNCHANGED vars
  PROVE  AllocInv'
<1> USE DEF AllocInv
<1>1. CASE TooFewLayers
  BY <1>1 DEF TooFewLayers, TypeOK, Ended, Fresh, Accounted, IndexInOrder, inputs
<1>2. CASE SpreadEnds
  BY <1>2 DEF SpreadEnds, TypeOK, Fresh, Accounted, IndexInOrder, inputs
<1>3. CASE AtLeastOneEnds
  BY <1>3 DEF AtLeastOneEnds, TypeOK, Fresh, Accounted, IndexInOrder, inputs
<1>4. CASE MakeShard
  <2> DEFINE i == Len(shards) + 1
             end == start + result[i]
             s == [start_layer |-> start, end_layer |-> end,
                   is_first |-> start = 0, is_last |-> end = layers]
  <2>1. shards' = Append(shards, s) /\ start' = end
    BY <1>4 DEF MakeShard
  <2>2. i \in Nodes
    BY <1>4, NodeCount DEF MakeShard, TypeOK, Nodes
  <2>3. end \in Nat /\ start \in Nat
    BY <2>2 DEF TypeOK
  <2>4. s \in Shard
    BY <2>3 DEF Shard
  <2>5. shards' \in Seq(Shard)
    <3> HIDE DEF s
    <3> QED BY <2>1, <2>4 DEF TypeOK
  <2> HIDE DEF i, end, s
  <2> QED BY <1>4, <2>1, <2>3, <2>5
          DEF MakeShard, TypeOK, Fresh, Accounted, IndexInOrder, inputs
<1>5. CASE InsufficientRam
  BY <1>5 DEF InsufficientRam, TypeOK, Ended, Fresh, Accounted, IndexInOrder, inputs
<1>6. CASE Return
  BY <1>6 DEF Return, TypeOK, Ended, Fresh, Accounted, IndexInOrder, inputs
<1>7. CASE UNCHANGED vars
  BY <1>7 DEF vars, TypeOK, Fresh, Accounted, IndexInOrder, inputs
<1> QED
  BY <1>1, <1>2, <1>3, <1>4, <1>5, <1>6, <1>7

\* The allocation invariant holds always.
LEMMA AllocInvariant == Spec => []AllocInv
<1>1. AllocInv /\ [Next]_vars => AllocInv'
  BY FloorsAlloc, SpreadAlloc, AtLeastOneAlloc, OtherAlloc DEF Next
<1> QED
  BY <1>1, InitAlloc, PTL DEF Spec

\* Once the second loop is over the allocation adds up.
LEMMA AllocatedSum == AllocInv => AllLayersAllocated
<1> SUFFICES ASSUME AllocInv, phase \in {"least", "shards", "planned"}
             PROVE  Sum(result) = layers
  BY DEF AllLayersAllocated
<1>1. Sum(result) + remaining = layers /\ remaining = 0
  BY DEF AllocInv, Accounted
<1>2. Sum(result) \in Nat
  BY SumsNatural, NodeCount DEF AllocInv, TypeOK, Sum
<1> QED
  BY <1>1, <1>2

\* The allocation of every accepted request adds up to the layers of the model,
\* and the loop that hands out the rest stays inside order[]: the loops of
\* allocate_layers_proportionally, for every RAM the workers report.
THEOREM LayersAllocated == Spec => [](TypeOK /\ AllLayersAllocated /\ IndexInOrder)
BY AllocatedSum, AllocInvariant, PTL DEF AllocInv

\* The second loop of allocate_layers_proportionally never indexes order[]
\* behind its end: there is less to hand out than there are workers.
THEOREM OrderNotExceeded == Spec => []IndexInOrder
BY LayersAllocated, PTL

-----------------------------------------------------------------------------
(* The third loop.                                                         *)

\* If nobody could spare a layer the nodes would hold fewer layers than there
\* are nodes, but there are at least as many layers as nodes.
LEMMA SomeoneCanSpare == AllocInv => SpareLayer
<1> SUFFICES ASSUME AllocInv, phase = "least", at <= N, result[at] = 0,
                    Donors(at) = {}
             PROVE  FALSE
  BY DEF SpareLayer
<1>1. /\ result \in [Nodes -> Int] /\ result \in [Nodes -> Nat] /\ at \in Nodes
      /\ layers \in Nat /\ N <= layers
      /\ Sum(result) + remaining = layers /\ remaining = 0
  BY PartitionerAssumption DEF AllocInv, Accounted, TypeOK, Nodes
<1>2. \A i \in Nodes : i # at => result[i] <= 1
  BY <1>1 DEF Donors
<1> DEFINE g == [result EXCEPT ![at] = 1]
           one == [i \in Nodes |-> 1]
<1>3. /\ g \in [Nodes -> Int] /\ one \in [Nodes -> Int]
      /\ \A i \in Nodes : one[i] = 1
      /\ \A i \in Nodes : g[i] <= one[i]
      /\ g[at] = result[at] + 1
      /\ \A i \in Nodes : i # at => g[i] = result[i]
  BY <1>1, <1>2
<1> HIDE DEF g, one
<1>4. Sum(g) = Sum(result) + 1
  BY <1>1, <1>3, SumUpdate
<1>5. Sum(one) = N * 1
  BY <1>3, SumConstant
<1>6. Sum(g) <= Sum(one)
  BY <1>3, SumMonotone
<1>7. Sum(result) \in Nat
  BY <1>1, SumsNatural, NodeCount DEF Sum
<1> QED
  BY <1>1, <1>4, <1>5, <1>6, <1>7, NodeCount

\* The exception "cannot guarantee 1 layer/node" is never thrown.
THEOREM AlwaysSpareLayer == Spec => []SpareLayer
  BY SomeoneCanSpare, AllocInvariant, PTL

\* The nodes the third loop has been through keep a layer to the end.
Served ==
    /\ phase = "least" => \A i \in Nodes : i < at => result[i] >= 1
    /\ phase \in {"shards", "planned"} => \A i \in Nodes : result[i] >= 1

\* Every step keeps a layer with each worker the third loop has passed.
LEMMA ServedStep == AllocInv /\ Served /\ [Next]_vars => Served'
<1> SUFFICES ASSUME AllocInv, Served, [Next]_vars PROVE Served'
  OBVIOUS
<1>0. result \in [Nodes -> Nat] /\ at \in 1 .. N + 1
  BY DEF AllocInv, TypeOK
<1>1. CASE TooFewLayers
  BY <1>1 DEF TooFewLayers, Served
<1>2. CASE Floors
  BY <1>2 DEF Floors, Served
<1>3. CASE Spread
  BY <1>3 DEF Spread, Served
<1>4. CASE SpreadEnds
  <2>1. at = 1
    BY <1>4 DEF SpreadEnds, AllocInv, Fresh
  <2> QED BY <1>4, <2>1 DEF SpreadEnds, Served, Nodes
<1>5. CASE AtLeastOne
  <2>1. phase = "least" /\ phase' = "least" /\ at' = at + 1 /\ at \in Nodes
    BY <1>0, <1>5 DEF AtLeastOne, Nodes
  <2>2. \A i \in Nodes : i < at => result[i] >= 1
    BY <2>1 DEF Served
  <2>3. ASSUME NEW i \in Nodes, i < at' PROVE result'[i] >= 1
    <3>1. i <= at
      BY <2>1, <2>3 DEF Nodes
    <3>2. CASE result[at] > 0 /\ UNCHANGED result
      BY <1>0, <2>2, <3>1, <3>2 DEF Nodes
    <3>3. CASE /\ result[at] <= 0
               /\ \E d \in Nodes :
                     /\ IsFirstLargest(d, Donors(at))
                     /\ result' = [result EXCEPT ![d] = @ - 1, ![at] = @ + 1]
      <4>1. PICK d \in Nodes :
               /\ d # at /\ result[d] > 1
               /\ result' = [result EXCEPT ![d] = @ - 1, ![at] = @ + 1]
        BY <3>3 DEF IsFirstLargest, Donors
      <4>2. CASE i = at
        BY <1>0, <2>1, <4>1, <4>2
      <4>3. CASE i = d
        BY <1>0, <2>1, <4>1, <4>3
      <4>4. CASE i # at /\ i # d
        <5>1. i < at
          BY <2>1, <3>1, <4>4 DEF Nodes
        <5> QED BY <1>0, <2>2, <4>1, <4>4, <5>1
      <4> QED BY <4>2, <4>3, <4>4
    <3> QED BY <1>5, <3>2, <3>3 DEF AtLeastOne
  <2> QED BY <2>1, <2>3 DEF Served
<1>6. CASE AtLeastOneEnds
  BY <1>0, <1>6, NodeCount DEF AtLeastOneEnds, Served, Nodes
<1>7. CASE MakeShard
  BY <1>7 DEF MakeShard, Served
<1>8. CASE InsufficientRam
  BY <1>8 DEF InsufficientRam, Served
<1>9. CASE Return
  BY <1>9 DEF Return, Served
<1>10. CASE UNCHANGED vars
  BY <1>10 DEF vars, Served
<1> QED
  BY <1>1, <1>2, <1>3, <1>4, <1>5, <1>6, <1>7, <1>8, <1>9, <1>10 DEF Next

-----------------------------------------------------------------------------
(* Workers with the same RAM.                                              *)

\* In the second loop twins have the same remainder, and the same number of
\* layers but for the one that loop has already given to some of them.
Bonus(i) == IF i \in given THEN 1 ELSE 0

TwinInv ==
    /\ phase = "spread" =>
          \A i, j \in Nodes : ram[i] = ram[j] =>
              result[i] + Bonus(j) = result[j] + Bonus(i)
    /\ TwinsShareAlike

\* Twins have the same weight, also when no worker reports any RAM.
LEMMA TwinWeights ==
  \A i, j \in Nodes : ram[i] = ram[j] => Weight[i] = Weight[j]
BY DEF Weight

\* A layer that goes from the first largest allocation to a node without one
\* leaves twins as close as they were.
LEMMA TransferKeepsTwins ==
  ASSUME NEW f \in [Nodes -> Nat], NEW a \in Nodes, NEW d \in Nodes,
         NEW R, d # a, f[a] = 0, f[d] > 1,
         \A j \in Nodes : j # a /\ f[j] > 1 => f[j] <= f[d],
         \A i, j \in Nodes : R[i] = R[j] => f[i] <= f[j] + 1,
         NEW g, g = [f EXCEPT ![d] = @ - 1, ![a] = @ + 1]
  PROVE  \A i, j \in Nodes : R[i] = R[j] => g[i] <= g[j] + 1
<1> SUFFICES ASSUME NEW i \in Nodes, NEW j \in Nodes, R[i] = R[j]
             PROVE  g[i] <= g[j] + 1
  OBVIOUS
<1>1. g[a] = 1 /\ g[d] = f[d] - 1 /\ \A k \in Nodes : k # a /\ k # d => g[k] = f[k]
  OBVIOUS
<1>2. f[i] <= f[j] + 1 /\ f[j] <= f[i] + 1
  OBVIOUS
<1>3. \A k \in Nodes : f[k] \in Nat /\ g[k] \in Nat
  BY <1>1
<1>4. CASE i = a
  BY <1>1, <1>3, <1>4
<1>5. CASE j = a
  BY <1>1, <1>2, <1>3, <1>5
<1>6. CASE i # a /\ j # a
  <2>1. f[i] <= f[d]
    BY <1>3, <1>6
  <2>2. CASE j = d
    BY <1>1, <1>3, <1>6, <2>1, <2>2
  <2>3. CASE j # d
    BY <1>1, <1>2, <1>3, <1>6, <2>3
  <2> QED BY <2>2, <2>3
<1> QED
  BY <1>4, <1>5, <1>6

\* Every step keeps workers of equal RAM close.
LEMMA TwinStep == AllocInv /\ TwinInv /\ [Next]_vars => TwinInv'
<1> SUFFICES ASSUME AllocInv, TwinInv, [Next]_vars PROVE TwinInv'
  OBVIOUS
<1>0. result \in [Nodes -> Nat] /\ at \in 1 .. N + 1
  BY DEF AllocInv, TypeOK
<1>1. CASE TooFewLayers
  BY <1>1 DEF TooFewLayers, TwinInv, TwinsShareAlike
<1>2. CASE Floors
  <2>1. PICK low \in RoundedDown :
           result' = [i \in Nodes |-> IF i \in low THEN Quota(i) - 1 ELSE Quota(i)]
    BY <1>2 DEF Floors
  <2>2. \A i, j \in Nodes : ram[i] = ram[j] => result'[i] = result'[j]
    <3>1. SUFFICES ASSUME NEW i \in Nodes, NEW j \in Nodes, ram[i] = ram[j]
                   PROVE  result'[i] = result'[j]
      OBVIOUS
    <3>2. Weight[i] = Weight[j]
      BY <3>1, TwinWeights
    <3>3. Quota(i) = Quota(j)
      BY <3>2 DEF Quota
    <3>4. i \in low <=> j \in low
      BY <3>2 DEF RoundedDown
    <3> QED BY <2>1, <3>3, <3>4
  <2>3. given' = {} /\ ram' = ram /\ phase' = "spread"
    BY <1>2 DEF Floors, AllocInv, Fresh, inputs
  <2> QED BY <2>2, <2>3 DEF TwinInv, TwinsShareAlike, Bonus
<1>3. CASE Spread
  <2>1. PICK n \in Nodes \ given : /\ result' = [result EXCEPT ![n] = @ + 1]
                                   /\ given' = given \cup {n}
    BY <1>3 DEF Spread
  <2>2. phase = "spread" /\ phase' = "spread" /\ ram' = ram
    BY <1>3 DEF Spread, inputs
  <2>3. ASSUME NEW k \in Nodes
        PROVE  result'[k] - Bonus(k)' = result[k] - Bonus(k)
    BY <1>0, <2>1 DEF Bonus
  <2>4. ASSUME NEW i \in Nodes, NEW j \in Nodes, ram[i] = ram[j]
        PROVE  result'[i] + Bonus(j)' = result'[j] + Bonus(i)'
    <3>1. result[i] + Bonus(j) = result[j] + Bonus(i)
      BY <2>2, <2>4 DEF TwinInv
    <3>2. /\ result'[i] \in Nat /\ result'[j] \in Nat
          /\ result[i] \in Nat /\ result[j] \in Nat
      BY <1>0, <2>1
    <3>3. /\ Bonus(i) \in Nat /\ Bonus(j) \in Nat
          /\ Bonus(i)' \in Nat /\ Bonus(j)' \in Nat
      BY DEF Bonus
    <3>4. /\ result'[i] - Bonus(i)' = result[i] - Bonus(i)
          /\ result'[j] - Bonus(j)' = result[j] - Bonus(j)
      BY <2>3
    <3> QED BY <3>1, <3>2, <3>3, <3>4
  <2> QED BY <2>2, <2>4 DEF TwinInv, TwinsShareAlike
<1>4. CASE SpreadEnds
  <2>1. \A i \in Nodes : Bonus(i) \in 0 .. 1
    BY DEF Bonus
  <2>2. ASSUME NEW i \in Nodes, NEW j \in Nodes, ram[i] = ram[j]
        PROVE  result[i] <= result[j] + 1
    <3>1. result[i] + Bonus(j) = result[j] + Bonus(i)
      BY <1>4, <2>2 DEF SpreadEnds, TwinInv
    <3> QED BY <1>0, <2>1, <3>1
  <2> QED BY <1>4, <2>2 DEF SpreadEnds, inputs, TwinInv, TwinsShareAlike
<1>5. CASE AtLeastOne
  <2>1. /\ phase = "least" /\ phase' = "least" /\ ram' = ram /\ at \in Nodes
        /\ \A i, j \in Nodes : ram[i] = ram[j] => result[i] <= result[j] + 1
    BY <1>0, <1>5 DEF AtLeastOne, inputs, Nodes, TwinInv, TwinsShareAlike
  <2>2. \A i, j \in Nodes : ram[i] = ram[j] => result'[i] <= result'[j] + 1
    <3>1. CASE UNCHANGED result
      BY <2>1, <3>1
    <3>2. CASE /\ result[at] <= 0
               /\ \E d \in Nodes :
                     /\ IsFirstLargest(d, Donors(at))
                     /\ result' = [result EXCEPT ![d] = @ - 1, ![at] = @ + 1]
      <4>1. PICK d \in Nodes :
               /\ d # at /\ result[d] > 1
               /\ \A j \in Nodes : j # at /\ result[j] > 1 =>
                     result[j] < result[d] \/ result[j] = result[d]
               /\ result' = [result EXCEPT ![d] = @ - 1, ![at] = @ + 1]
        BY <3>2 DEF IsFirstLargest, Donors
      <4>2. result[at] = 0
        BY <1>0, <2>1, <3>2
      <4>3. \A j \in Nodes : j # at /\ result[j] > 1 => result[j] <= result[d]
        BY <1>0, <4>1
      <4> QED BY <1>0, <2>1, <4>1, <4>2, <4>3, TransferKeepsTwins
    <3> QED BY <1>5, <3>1, <3>2 DEF AtLeastOne
  <2> QED BY <2>1, <2>2 DEF TwinInv, TwinsShareAlike
<1>6. CASE AtLeastOneEnds
  BY <1>6 DEF AtLeastOneEnds, inputs, TwinInv, TwinsShareAlike
<1>7. CASE MakeShard
  BY <1>7 DEF MakeShard, inputs, TwinInv, TwinsShareAlike
<1>8. CASE InsufficientRam
  BY <1>8 DEF InsufficientRam, TwinInv, TwinsShareAlike
<1>9. CASE Return
  BY <1>9 DEF Return, inputs, TwinInv, TwinsShareAlike
<1>10. CASE UNCHANGED vars
  BY <1>10 DEF vars, inputs, TwinInv, TwinsShareAlike, Bonus
<1> QED
  BY <1>1, <1>2, <1>3, <1>4, <1>5, <1>6, <1>7, <1>8, <1>9, <1>10 DEF Next

\* Workers with the same RAM differ by at most one layer.
THEOREM TwinsStayClose == Spec => []TwinsShareAlike
<1>1. Init => TwinInv
  BY DEF Init, TwinInv, TwinsShareAlike
<1>2. TwinInv => TwinsShareAlike
  BY DEF TwinInv
<1> QED
  BY <1>1, <1>2, TwinStep, AllocInvariant, PTL DEF Spec

-----------------------------------------------------------------------------
(* Shares rounded once.                                                    *)

\* A sum of natural numbers of which one is not 0 is not 0.
LEMMA SumPositive ==
  ASSUME NEW f \in [Nodes -> Int], \A k \in Nodes : f[k] >= 0,
         NEW i \in Nodes, f[i] > 0
  PROVE  Sum(f) > 0
<1> DEFINE zero == [k \in Nodes |-> 0]
           g == [k \in Nodes |-> IF k = i THEN f[i] ELSE 0]
<1>1. /\ zero \in [Nodes -> Int] /\ \A k \in Nodes : zero[k] = 0
      /\ g \in [Nodes -> Int] /\ g[i] = zero[i] + f[i]
      /\ \A k \in Nodes : k # i => g[k] = zero[k]
      /\ \A k \in Nodes : g[k] <= f[k]
      /\ f[i] \in Int
  OBVIOUS
<1> HIDE DEF zero, g
<1>2. Sum(zero) = N * 0
  BY <1>1, SumConstant
<1>3. Sum(g) = Sum(zero) + f[i]
  BY <1>1, SumUpdate
<1>4. Sum(g) <= Sum(f)
  BY <1>1, SumMonotone
<1>5. N * 0 = 0 /\ Sum(f) \in Int
  BY NodeCount, SumsType DEF Sum
<1> QED
  BY <1>1, <1>2, <1>3, <1>4, <1>5

\* A sum of numbers that are not positive, one of them negative, is not 0.
LEMMA SumNegative ==
  ASSUME NEW f \in [Nodes -> Int], \A k \in Nodes : f[k] <= 0,
         NEW i \in Nodes, f[i] < 0
  PROVE  Sum(f) < 0
<1> DEFINE zero == [k \in Nodes |-> 0]
           g == [k \in Nodes |-> IF k = i THEN f[i] ELSE 0]
<1>1. /\ zero \in [Nodes -> Int] /\ \A k \in Nodes : zero[k] = 0
      /\ g \in [Nodes -> Int] /\ g[i] = zero[i] + f[i]
      /\ \A k \in Nodes : k # i => g[k] = zero[k]
      /\ \A k \in Nodes : f[k] <= g[k]
      /\ f[i] \in Int
  OBVIOUS
<1> HIDE DEF zero, g
<1>2. Sum(zero) = N * 0
  BY <1>1, SumConstant
<1>3. Sum(g) = Sum(zero) + f[i]
  BY <1>1, SumUpdate
<1>4. Sum(f) <= Sum(g)
  BY <1>1, SumMonotone
<1>5. N * 0 = 0 /\ Sum(f) \in Int
  BY NodeCount, SumsType DEF Sum
<1> QED
  BY <1>1, <1>2, <1>3, <1>4, <1>5

\* Up to the third loop every allocation is the floor of the first loop, and
\* one layer more for the nodes the second loop has been through, which are
\* those with the largest remainders.
ShareInv ==
    phase = "spread" \/ (phase = "least" /\ at = 1) =>
        /\ \A i \in Nodes :
              /\ rest[i] \in 0 .. Total
              /\ Divided(Weight[i], layers, Total, result[i] - Bonus(i), rest[i])
        /\ \A i \in Nodes \ given, j \in given : rest[i] <= rest[j]

\* The weights depend on the RAM only.
LEMMA WeightsStay ==
  ASSUME ram' = ram
  PROVE  Weight' = Weight /\ Total' = Total
BY DEF Weight, Total, Sum, Sums

\* Every step keeps the allocations next to the shares.
LEMMA ShareStep == AllocInv /\ ShareInv /\ [Next]_vars => ShareInv'
<1> SUFFICES ASSUME AllocInv, ShareInv, [Next]_vars PROVE ShareInv'
  OBVIOUS
<1>0. /\ TypeOK /\ result \in [Nodes -> Nat] /\ at \in 1 .. N + 1
      /\ rest \in [Nodes -> Nat] /\ given \subseteq Nodes
  BY DEF AllocInv, TypeOK
<1>1. CASE TooFewLayers
  BY <1>1 DEF TooFewLayers, ShareInv
<1>2. CASE Floors
  <2>1. PICK low \in RoundedDown :
           /\ result' = [i \in Nodes |-> IF i \in low THEN Quota(i) - 1
                                                      ELSE Quota(i)]
           /\ rest' = [i \in Nodes |-> IF i \in low THEN Total ELSE Fraction(i)]
    BY <1>2 DEF Floors
  <2>2. /\ given' = {} /\ ram' = ram /\ layers' = layers /\ N <= layers
    BY <1>2 DEF Floors, AllocInv, Fresh, inputs
  <2>3. \A i \in Nodes : /\ result'[i] \in Nat
                         /\ rest'[i] \in 0 .. Total
                         /\ Weight[i] * layers = Total * result'[i] + rest'[i]
    <3>1. \A i \in Nodes : LET q == IF i \in low THEN Quota(i) - 1 ELSE Quota(i)
                               r == IF i \in low THEN Total ELSE Fraction(i)
                           IN  /\ q \in Nat
                               /\ r \in 0 .. Total
                               /\ Weight[i] * layers = Total * q + r
      BY <1>0, <2>2, Shares
    <3> QED BY <2>1, <3>1
  <2>4. Weight' = Weight /\ Total' = Total
    BY <2>2, WeightsStay
  <2>5. ASSUME NEW i \in Nodes
        PROVE  /\ rest'[i] \in 0 .. Total'
               /\ Divided(Weight'[i], layers', Total', result'[i] - Bonus(i)', rest'[i])
    <3>1. Bonus(i)' = 0
      BY <2>2 DEF Bonus
    <3>2. result'[i] - 0 = result'[i]
      BY <2>3
    <3> QED BY <2>2, <2>3, <2>4, <3>1, <3>2 DEF Divided
  <2>6. (\A i \in Nodes \ given, j \in given : rest[i] <= rest[j])'
    BY <2>2
  <2> QED BY <2>5, <2>6 DEF ShareInv
<1>3. CASE Spread
  <2>1. PICK n \in Nodes \ given : /\ \A j \in Nodes \ given : ~Behind(n, j)
                                   /\ result' = [result EXCEPT ![n] = @ + 1]
                                   /\ given' = given \cup {n}
    BY <1>3 DEF Spread
  <2>2. /\ phase = "spread" /\ ram' = ram /\ rest' = rest /\ layers' = layers
    BY <1>3 DEF Spread, inputs
  <2>3. Weight' = Weight /\ Total' = Total
    BY <2>2, WeightsStay
  <2>4. ASSUME NEW i \in Nodes
        PROVE  result'[i] - Bonus(i)' = result[i] - Bonus(i)
    BY <1>0, <2>1 DEF Bonus
  <2>5. ASSUME NEW i \in Nodes
        PROVE  /\ rest'[i] \in 0 .. Total'
               /\ Divided(Weight'[i], layers', Total', result'[i] - Bonus(i)', rest'[i])
    BY <2>2, <2>3, <2>4 DEF ShareInv
  <2>6. ASSUME NEW i \in Nodes \ given', NEW j \in given'
        PROVE  rest[i] <= rest[j]
    <3>1. i \in Nodes \ given
      BY <2>1
    <3>2. CASE j = n
      <4>1. ~(rest[i] > rest[n])
        BY <2>1, <3>1 DEF Behind
      <4>2. rest[i] \in Nat /\ rest[n] \in Nat
        BY <1>0, <2>1, <3>1
      <4> QED BY <3>2, <4>1, <4>2
    <3>3. CASE j # n
      BY <2>1, <2>2, <3>1, <3>3 DEF ShareInv
    <3> QED BY <3>2, <3>3
  <2> QED BY <2>2, <2>5, <2>6 DEF ShareInv
<1>4. CASE SpreadEnds
  <2>1. /\ phase = "spread" /\ ram' = ram /\ rest' = rest /\ layers' = layers
        /\ result' = result /\ given' = given
    BY <1>4 DEF SpreadEnds, inputs
  <2>2. Weight' = Weight /\ Total' = Total
    BY <2>1, WeightsStay
  <2> QED BY <2>1, <2>2 DEF ShareInv, Bonus
<1>5. CASE AtLeastOne
  <2>1. phase' = "least" /\ at' # 1
    BY <1>0, <1>5, NodeCount DEF AtLeastOne
  <2> QED BY <2>1 DEF ShareInv
<1>6. CASE AtLeastOneEnds
  BY <1>6 DEF AtLeastOneEnds, ShareInv
<1>7. CASE MakeShard
  BY <1>7 DEF MakeShard, ShareInv
<1>8. CASE InsufficientRam
  BY <1>8 DEF InsufficientRam, ShareInv
<1>9. CASE Return
  BY <1>9 DEF Return, ShareInv
<1>10. CASE UNCHANGED vars
  <2>1. Weight' = Weight /\ Total' = Total
    BY <1>10, WeightsStay DEF vars, inputs
  <2> QED BY <1>10, <2>1 DEF vars, inputs, ShareInv, Bonus
<1> QED
  BY <1>1, <1>2, <1>3, <1>4, <1>5, <1>6, <1>7, <1>8, <1>9, <1>10 DEF Next

\* What a node has more than its share, times the total weight.
Missing(i) == rest[i] - Total * Bonus(i)

\* The layers too many and too few cancel out: were one node a whole layer
\* away from its share, the others could not make up for it.
LEMMA WithinOne ==
  ASSUME AllocInv, ShareInv, phase = "least", at = 1, NEW i \in Nodes
  PROVE  /\ Missing(i) \in Int
         /\ Missing(i) < Total
         /\ Missing(i) > 0 - Total
         /\ Weight[i] * layers = Total * result[i] + Missing(i)
<1>0. /\ Weight \in [Nodes -> Nat] /\ Weight \in [Nodes -> Int]
      /\ Total \in Nat /\ Total > 0 /\ Sum(Weight) = Total /\ layers \in Nat
      /\ result \in [Nodes -> Int] /\ result \in [Nodes -> Nat]
      /\ given \subseteq Nodes
  BY Weights DEF AllocInv, TypeOK
<1>1. /\ \A k \in Nodes :
            /\ rest[k] \in 0 .. Total
            /\ Divided(Weight[k], layers, Total, result[k] - Bonus(k), rest[k])
      /\ \A k \in Nodes \ given, j \in given : rest[k] <= rest[j]
  BY DEF ShareInv
<1>2. \A k \in Nodes : /\ k \in given => Missing(k) = rest[k] - Total
                       /\ k \notin given => Missing(k) = rest[k]
  <2>1. Total * 0 = 0 /\ Total * 1 = Total
    BY <1>0
  <2>2. \A k \in Nodes : rest[k] - 0 = rest[k]
    BY <1>0, <1>1
  <2> QED BY <2>1, <2>2 DEF Missing, Bonus
<1> DEFINE d == [k \in Nodes |-> Missing(k)]
<1>3. d \in [Nodes -> Int] /\ \A k \in Nodes : d[k] = Missing(k) /\ d[k] \in Int
  BY <1>0, <1>1, <1>2
<1> HIDE DEF d
<1>4. ASSUME NEW k \in Nodes
      PROVE  Weight[k] * layers = Total * result[k] + d[k]
  <2>1. Weight[k] * layers = Total * (result[k] - Bonus(k)) + rest[k]
    BY <1>1 DEF Divided
  <2>2. CASE k \notin given
    <3>1. Bonus(k) = 0 /\ result[k] - 0 = result[k]
      BY <1>0, <2>2 DEF Bonus
    <3> QED BY <1>2, <1>3, <2>1, <2>2, <3>1
  <2>3. CASE k \in given
    <3> DEFINE b == result[k] - 1
               X == Total * b
    <3>1. Bonus(k) = 1 /\ b \in Int /\ b + 1 = result[k]
      BY <1>0, <2>3 DEF Bonus
    <3> HIDE DEF b
    <3>2. Total * (b + 1) = Total * b + Total * 1
      BY <1>0, <3>1, Distributes
    <3>3. Total * 1 = Total /\ X \in Int /\ rest[k] \in Int
      BY <1>0, <1>1, <3>1
    <3>4. Weight[k] * layers = X + rest[k] /\ Total * result[k] = X + Total
      BY <2>1, <3>1, <3>2, <3>3 DEF b
    <3>5. d[k] = rest[k] - Total
      BY <1>2, <1>3, <2>3
    <3> HIDE DEF X
    <3>6. X + rest[k] = (X + Total) + (rest[k] - Total)
      BY <1>0, <3>3
    <3> QED BY <3>4, <3>5, <3>6
  <2> QED BY <2>2, <2>3
<1>5. Sum(d) = 0
  <2>1. Divided(Sum(Weight), layers, Total, Sum(result), Sum(d))
    <3>1. \A k \in Nodes : Divided(Weight[k], layers, Total, result[k], d[k])
      BY <1>4 DEF Divided
    <3>2. layers \in Int /\ Total \in Int
      BY <1>0
    <3> QED BY <1>0, <1>3, <3>1, <3>2, SumDivision
  <2>2. Sum(result) = layers
    BY AllocatedSum DEF AllLayersAllocated
  <2> DEFINE A == Total * layers
  <2>3. A \in Int /\ A = A + Sum(d)
    BY <1>0, <2>1, <2>2 DEF Divided
  <2>4. Sum(d) \in Int
    BY <1>3, SumsType, NodeCount DEF Sum
  <2> HIDE DEF A
  <2> QED BY <2>3, <2>4
<1>6. d[i] < Total
  <2> SUFFICES ASSUME d[i] >= Total PROVE FALSE
    BY <1>0, <1>3
  <2>1. i \notin given /\ rest[i] = Total
    BY <1>0, <1>1, <1>2, <1>3
  <2>2. \A k \in Nodes : d[k] >= 0
    <3> SUFFICES ASSUME NEW k \in Nodes PROVE d[k] >= 0
      OBVIOUS
    <3>1. CASE k \in given
      <4>1. rest[i] <= rest[k]
        BY <1>1, <2>1, <3>1
      <4> QED BY <1>0, <1>1, <1>2, <1>3, <2>1, <3>1, <4>1
    <3>2. CASE k \notin given
      BY <1>0, <1>1, <1>2, <1>3, <3>2
    <3> QED BY <3>1, <3>2
  <2>3. d[i] > 0
    BY <1>0, <1>3
  <2>4. Sum(d) > 0
    BY <1>3, <2>2, <2>3, SumPositive
  <2> QED BY <1>5, <2>4
<1>7. d[i] > 0 - Total
  <2> SUFFICES ASSUME d[i] <= 0 - Total PROVE FALSE
    BY <1>0, <1>3
  <2>1. i \in given /\ rest[i] = 0
    BY <1>0, <1>1, <1>2, <1>3
  <2>2. \A k \in Nodes : d[k] <= 0
    <3> SUFFICES ASSUME NEW k \in Nodes PROVE d[k] <= 0
      OBVIOUS
    <3>1. CASE k \in given
      BY <1>0, <1>1, <1>2, <1>3, <3>1
    <3>2. CASE k \notin given
      <4>1. rest[k] <= rest[i]
        BY <1>1, <2>1, <3>2
      <4> QED BY <1>0, <1>1, <1>2, <1>3, <2>1, <3>2, <4>1
    <3> QED BY <3>1, <3>2
  <2>3. d[i] < 0
    BY <1>0, <1>3
  <2>4. Sum(d) < 0
    BY <1>3, <2>2, <2>3, SumNegative
  <2> QED BY <1>5, <2>4
<1> QED
  BY <1>3, <1>4, <1>6, <1>7

\* A node that is less than a layer away from its share has the share rounded.
LEMMA RoundedOnce == AllocInv /\ ShareInv => ShareRoundedOnce
<1> SUFFICES ASSUME AllocInv, ShareInv, phase = "least", at = 1, NEW i \in Nodes
             PROVE  /\ Quota(i) <= result[i]
                    /\ result[i] * Total < Weight[i] * layers + Total
  BY DEF ShareRoundedOnce
<1> DEFINE a == Weight[i] * layers
           T == Total
           c == Missing(i)
           q == result[i]
           Q == Quota(i)
           X == T * q
<1>1. /\ c \in Int /\ c < T /\ c > 0 - T /\ a = X + c
      /\ T \in Nat /\ T > 0 /\ q \in Nat /\ a \in Nat /\ X = q * T /\ X \in Nat
  <2>1. Weight[i] \in Nat /\ layers \in Nat /\ Total \in Nat /\ Total > 0
        /\ result[i] \in Nat
    BY Weights DEF AllocInv, TypeOK
  <2>2. Weight[i] * layers \in Nat /\ Total * result[i] = result[i] * Total
        /\ Total * result[i] \in Nat
    BY <2>1
  <2> QED BY <2>1, <2>2, WithinOne
<1>2. /\ Q \in Nat /\ a % T \in 0 .. T - 1 /\ a = T * Q + (a % T)
  <2>1. Q = a \div T
    BY DEF Quota
  <2> HIDE DEF a, T, Q
  <2> QED BY <1>1, <2>1, DivisionFacts
<1> HIDE DEF a, T, c, q, Q
<1>3. Q <= q
  <2> SUFFICES ASSUME Q >= q + 1 PROVE FALSE
    BY <1>1, <1>2
  <2> DEFINE e == Q - (q + 1)
             Y == T * e
  <2>1. e \in Nat /\ Q = (q + 1) + e
    BY <1>1, <1>2
  <2> HIDE DEF e
  <2>2. /\ T * ((q + 1) + e) = T * (q + 1) + T * e
        /\ T * (q + 1) = T * q + T * 1 /\ T * 1 = T
    BY <1>1, <2>1, Distributes
  <2>3. Y \in Nat /\ T * Q = (X + T) + Y
    BY <1>1, <2>1, <2>2
  <2> DEFINE Z == T * Q
             f == a % T
  <2>4. Z = (X + T) + Y /\ a = Z + f /\ f \in Nat
    BY <1>2, <2>3
  <2> HIDE DEF X, Y, Z, f
  <2> QED BY <1>1, <2>3, <2>4
<1>4. X < a + T
  <2> HIDE DEF X
  <2> QED BY <1>1
<1> QED
  BY <1>1, <1>3, <1>4 DEF a, T, q, Q

\* Largest remainder does what its name says: before the third loop no worker
\* is a whole layer away from its share, whatever the doubles were rounded to.
THEOREM SharesRoundedOnce == Spec => []ShareRoundedOnce
<1>1. Init => ShareInv
  BY DEF Init, ShareInv
<1> QED
  BY <1>1, RoundedOnce, ShareStep, AllocInvariant, PTL DEF Spec

-----------------------------------------------------------------------------
(* The shards.                                                             *)

\* The shards made so far are cut at the running sums of the allocation.
Cut ==
    /\ phase \in {"floors", "spread", "least"} => start = 0 /\ shards = <<>>
    /\ phase \in {"shards", "planned"} =>
          /\ Len(shards) <= N
          /\ start = Sums(result)[Len(shards)]
          /\ \A k \in 1 .. Len(shards) :
                /\ shards[k].start_layer = Sums(result)[k - 1]
                /\ shards[k].end_layer = Sums(result)[k]
                /\ shards[k].is_first <=> Sums(result)[k - 1] = 0
                /\ shards[k].is_last <=> Sums(result)[k] = layers
    /\ phase = "planned" => Len(shards) = N

\* Every step keeps the shards cut so far contiguous.
LEMMA CutStep == AllocInv /\ Cut /\ [Next]_vars => Cut'
<1> SUFFICES ASSUME AllocInv, Cut, [Next]_vars PROVE Cut'
  OBVIOUS
<1>0. result \in [Nodes -> Int] /\ result \in [Nodes -> Nat] /\ shards \in Seq(Shard)
  BY DEF AllocInv, TypeOK
<1>1. CASE TooFewLayers
  BY <1>1 DEF TooFewLayers, Cut
<1>2. CASE Floors
  BY <1>2 DEF Floors, Cut
<1>3. CASE Spread
  BY <1>3 DEF Spread, Cut
<1>4. CASE SpreadEnds
  BY <1>4 DEF SpreadEnds, Cut
<1>5. CASE AtLeastOne
  BY <1>5 DEF AtLeastOne, Cut
<1>6. CASE AtLeastOneEnds
  <2>1. phase' = "shards" /\ start' = 0 /\ shards' = <<>> /\ result' = result
    BY <1>6 DEF AtLeastOneEnds, Cut
  <2>2. Sums(result)[0] = 0
    BY <1>0, SumsSteps
  <2> QED BY <2>1, <2>2, NodeCount DEF Cut
<1>7. CASE MakeShard
  <2> DEFINE n == Len(shards)
             end == start + result[n + 1]
             s == [start_layer |-> start, end_layer |-> end,
                   is_first |-> start = 0, is_last |-> end = layers]
  <2>1. /\ phase = "shards" /\ phase' = "shards" /\ n < N
        /\ shards' = Append(shards, s) /\ start' = end
        /\ result' = result /\ layers' = layers
    BY <1>7 DEF MakeShard, inputs
  <2>2. n \in Nat /\ n + 1 \in 1 .. N
    BY <1>0, <2>1, NodeCount
  <2>3. /\ start = Sums(result)[n]
        /\ \A k \in 1 .. n :
              /\ shards[k].start_layer = Sums(result)[k - 1]
              /\ shards[k].end_layer = Sums(result)[k]
              /\ shards[k].is_first <=> Sums(result)[k - 1] = 0
              /\ shards[k].is_last <=> Sums(result)[k] = layers
    BY <2>1 DEF Cut
  <2>4. Sums(result)[n + 1] = Sums(result)[(n + 1) - 1] + result[n + 1]
    BY <1>0, <2>2, SumsSteps
  <2>5. end = Sums(result)[n + 1] /\ (n + 1) - 1 = n
    BY <2>2, <2>3, <2>4
  <2>6. /\ Len(shards') = n + 1
        /\ shards'[n + 1] = s
        /\ \A k \in 1 .. n : shards'[k] = shards[k]
    <3> HIDE DEF s
    <3>1. shards \in Seq(Shard \cup {s}) /\ s \in Shard \cup {s}
      BY <1>0
    <3> QED BY <2>1, <3>1, AppendProperties
  <2>7. ASSUME NEW k \in 1 .. n + 1
        PROVE  /\ shards'[k].start_layer = Sums(result)[k - 1]
               /\ shards'[k].end_layer = Sums(result)[k]
               /\ shards'[k].is_first <=> Sums(result)[k - 1] = 0
               /\ shards'[k].is_last <=> Sums(result)[k] = layers
    <3>1. CASE k = n + 1
      <4>1. /\ s.start_layer = start /\ s.end_layer = end
            /\ s.is_first <=> start = 0
            /\ s.is_last <=> end = layers
        BY Zenon
      <4>2. /\ shards'[k] = s /\ Sums(result)[k - 1] = start
            /\ Sums(result)[k] = end
        BY <2>2, <2>3, <2>5, <2>6, <3>1
      <4> HIDE DEF s, end
      <4> QED BY <4>1, <4>2
    <3>2. CASE k # n + 1
      <4>1. k \in 1 .. n
        BY <2>2, <3>2
      <4> QED BY <2>3, <2>6, <4>1
    <3> QED BY <3>1, <3>2
  <2> HIDE DEF s, end
  <2> QED BY <2>1, <2>2, <2>5, <2>6, <2>7 DEF Cut
<1>8. CASE InsufficientRam
  BY <1>8 DEF InsufficientRam, Cut
<1>9. CASE Return
  BY <1>9 DEF Return, inputs, Cut
<1>10. CASE UNCHANGED vars
  BY <1>10 DEF vars, inputs, Cut
<1> QED
  BY <1>1, <1>2, <1>3, <1>4, <1>5, <1>6, <1>7, <1>8, <1>9, <1>10 DEF Next

\* What the three parts say about a finished plan.
LEMMA CutIsPipeline == AllocInv /\ Served /\ Cut => PlanIsPipeline
<1> SUFFICES ASSUME AllocInv, Served, Cut, phase = "planned"
             PROVE  /\ Len(shards) = N
                    /\ shards[1].start_layer = 0
                    /\ shards[N].end_layer = layers
                    /\ \A k \in Nodes :
                          /\ shards[k].start_layer < shards[k].end_layer
                          /\ k < N => shards[k].end_layer = shards[k + 1].start_layer
                          /\ shards[k].is_first <=> k = 1
                          /\ shards[k].is_last <=> k = N
  BY DEF PlanIsPipeline
<1> DEFINE S == Sums(result)
<1>1. result \in [Nodes -> Int] /\ \A i \in Nodes : result[i] >= 1
  BY DEF AllocInv, TypeOK, Served
<1>2. /\ Len(shards) = N
      /\ \A k \in Nodes : /\ shards[k].start_layer = S[k - 1]
                          /\ shards[k].end_layer = S[k]
                          /\ shards[k].is_first <=> S[k - 1] = 0
                          /\ shards[k].is_last <=> S[k] = layers
  BY DEF Cut, Nodes
<1>3. S[0] = 0
  BY <1>1, SumsSteps
<1>4. S[N] = layers
  <2>1. Sum(result) + remaining = layers /\ remaining = 0
    BY DEF AllocInv, Accounted
  <2>2. Sum(result) \in Int
    BY <1>1, SumsType, NodeCount DEF Sum
  <2> QED BY <2>1, <2>2 DEF Sum
<1>5. \A j, k \in 0 .. N : j < k => S[j] < S[k]
  BY <1>1, SumsIncrease
<1>6. \A k \in 0 .. N : S[k] \in Int
  BY <1>1, SumsType
<1> HIDE DEF S
<1>7. 1 \in Nodes /\ N \in Nodes /\ 1 - 1 = 0
  BY NodeCount DEF Nodes
<1>8. ASSUME NEW k \in Nodes
      PROVE  /\ S[k - 1] < S[k]
             /\ k < N => S[(k + 1) - 1] = S[k] /\ k + 1 \in Nodes
             /\ S[k - 1] = 0 <=> k = 1
             /\ S[k] = layers <=> k = N
  <2>1. k - 1 \in 0 .. N /\ k \in 0 .. N /\ 0 \in 0 .. N /\ N \in 0 .. N
        /\ k - 1 < k /\ (k < N => k + 1 \in Nodes /\ (k + 1) - 1 = k)
    BY NodeCount DEF Nodes
  <2>2. k # 1 => 0 < k - 1
    BY DEF Nodes
  <2>3. k # N => k < N
    BY NodeCount DEF Nodes
  <2>4. S[k - 1] < S[k]
    BY <1>5, <2>1
  <2>5. S[k - 1] = 0 <=> k = 1
    <3>1. k # 1 => S[0] < S[k - 1]
      BY <1>5, <2>1, <2>2
    <3> QED BY <1>3, <1>6, <1>7, <2>1, <3>1
  <2>6. S[k] = layers <=> k = N
    <3>1. k # N => S[k] < S[N]
      BY <1>5, <2>1, <2>3
    <3> QED BY <1>4, <1>6, <2>1, <3>1
  <2> QED BY <2>1, <2>4, <2>5, <2>6
<1>9. shards[1].start_layer = 0 /\ shards[N].end_layer = layers
  BY <1>2, <1>3, <1>4, <1>7
<1>10. ASSUME NEW k \in Nodes
       PROVE  /\ shards[k].start_layer < shards[k].end_layer
              /\ k < N => shards[k].end_layer = shards[k + 1].start_layer
              /\ shards[k].is_first <=> k = 1
              /\ shards[k].is_last <=> k = N
  <2>1. shards[k].start_layer < shards[k].end_layer
    BY <1>2, <1>8
  <2>2. k < N => shards[k].end_layer = shards[k + 1].start_layer
    BY <1>2, <1>8
  <2>3. shards[k].is_first <=> k = 1
    BY <1>2, <1>8
  <2>4. shards[k].is_last <=> k = N
    BY <1>2, <1>8
  <2> QED BY <2>1, <2>2, <2>3, <2>4
<1> QED
  BY <1>2, <1>9, <1>10

\* Every plan that is returned is a pipeline: no worker without a layer, no
\* layer lost or done twice, and only the ends embed and compute the logits.
THEOREM PlansArePipelines == Spec => []PlanIsPipeline
<1>1. Init => Served /\ Cut
  BY DEF Init, Served, Cut
<1>2. AllocInv /\ Served /\ Cut => PlanIsPipeline
  BY CutIsPipeline
<1> QED
  BY <1>1, <1>2, ServedStep, CutStep, AllocInvariant, PTL DEF Spec
=============================================================================
