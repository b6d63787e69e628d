----------------------------- MODULE FoldLemmas -----------------------------
(***************************************************************************)
(* Facts about numbers, recursions over finite sets and sums that the      *)
(* proofs of several components cite.  Induction is by a least             *)
(* counterexample, and a recursion is over a function for its step, so     *)
(* that no fact here takes an operator as a parameter.                     *)
(***************************************************************************)
EXTENDS Integers, SequencesExt, FiniteSetTheorems, TLAPS

\* A set of natural numbers that is not empty has a least element.
LEMMA LeastNumber ==
  ASSUME NEW T \in SUBSET Nat, T # {}
  PROVE  \E m \in T : \A k \in T : m <= k
<1> DEFINE R == OpToRel(<, Nat)
<1>1. \A x, y \in Nat : x < y => <<x, y>> \in R
  BY DEF OpToRel
<1> HIDE DEF R
<1>2. PICK m \in T : \A k \in T : ~ (<<k, m>> \in R)
  BY NatLessThanWellFounded, WFMin DEF R
<1>3. ASSUME NEW k \in T PROVE m <= k
  <2>1. m \in Nat /\ k \in Nat
    OBVIOUS
  <2>2. ~ (k < m)
    BY <1>1, <1>2, <2>1
  <2> QED
    BY <2>1, <2>2
<1> QED
  BY <1>3, Zenon

\* Induction over 0 .. n, for a set.
LEMMA IndexInduction ==
  ASSUME NEW n \in Nat, NEW G, 0 \in G, \A i \in 1 .. n : i - 1 \in G => i \in G
  PROVE  \A i \in 0 .. n : i \in G
<1> DEFINE Bad == (0 .. n) \ G
<1> SUFFICES ASSUME Bad # {} PROVE FALSE
  OBVIOUS
<1>1. Bad \in SUBSET Nat
  OBVIOUS
<1>2. PICK m \in Bad : \A k \in Bad : m <= k
  BY <1>1, LeastNumber
<1>3. m \in 1 .. n /\ m - 1 \in 0 .. n /\ m - 1 \notin Bad
  BY <1>2
<1> QED
  BY <1>3

\* Induction over a finite set, for a set of its subsets.
LEMMA SubsetInduction ==
  ASSUME NEW S, IsFiniteSet(S), NEW G, {} \in G,
         \A T \in SUBSET S : T # {} /\ (\A x \in T : T \ {x} \in G) => T \in G
  PROVE  S \in G
<1> DEFINE N == Cardinality(S)
           Small == {i \in 0 .. N : \A T \in SUBSET S : Cardinality(T) = i => T \in G}
<1>1. \A T \in SUBSET S : IsFiniteSet(T) /\ Cardinality(T) \in Nat /\ (Cardinality(T) = 0 <=> T = {})
  BY FS_Subset, FS_CardinalityType, FS_EmptySet
<1>2. N \in Nat
  BY <1>1
<1>3. 0 \in Small
  <2>1. \A T \in SUBSET S : Cardinality(T) = 0 => T \in G
    BY <1>1
  <2> QED
    BY <1>2, <2>1
<1>4. ASSUME NEW i \in 1 .. N, i - 1 \in Small PROVE i \in Small
  <2> SUFFICES ASSUME NEW T \in SUBSET S, Cardinality(T) = i PROVE T \in G
    BY <1>2
  <2>1. ASSUME NEW x \in T PROVE T \ {x} \in G
    <3>1. T \ {x} \in SUBSET S /\ Cardinality(T \ {x}) = i - 1
      BY <1>1, FS_RemoveElement
    <3> QED
      BY <1>4, <3>1
  <2>2. T # {}
    BY <1>1
  <2> QED
    BY <2>1, <2>2
<1>5. \A i \in 0 .. N : i \in Small
  <2> HIDE DEF Small, N
  <2> QED
    BY <1>2, <1>3, <1>4, IndexInduction
<1> QED
  BY <1>2, <1>5

\* Division of natural numbers.
LEMMA Quotient ==
  ASSUME NEW a \in Nat, NEW n \in Nat \ {0}
  PROVE  a \div n \in Nat /\ a % n \in 0 .. n - 1 /\ a = n * (a \div n) + (a % n)
  OBVIOUS

\* A quotient and a remainder are the only ones.
LEMMA Remainder ==
  ASSUME NEW n \in Nat \ {0}, NEW q \in Nat, NEW r \in 0 .. n - 1
  PROVE  (n * q + r) % n = r
<1> DEFINE a == n * q + r
<1>1. a \in Nat
  OBVIOUS
<1>2. a \div n \in Nat /\ a % n \in 0 .. n - 1 /\ a = n * (a \div n) + (a % n)
  BY <1>1, Quotient
<1> DEFINE x == a \div n
           y == a % n
<1>3. x \in Nat /\ y \in 0 .. n - 1 /\ n * q + r = n * x + y
  BY <1>2
<1> HIDE DEF x, y
<1>4. n * (q - x) = y - r
  BY <1>3
<1>5. q - x < 1
  <2> SUFFICES ASSUME q - x >= 1 PROVE FALSE
    BY <1>3
  <2>1. n * (q - x) >= n
    BY <1>3
  <2> QED
    BY <1>3, <1>4, <2>1
<1>6. q - x > -1
  <2> SUFFICES ASSUME x - q >= 1 PROVE FALSE
    BY <1>3
  <2>1. n * (x - q) >= n
    BY <1>3
  <2>2. n * (x - q) = r - y
    BY <1>3
  <2> QED
    BY <1>3, <2>1, <2>2
<1>7. q = x
  BY <1>3, <1>5, <1>6
<1> QED
  BY <1>3, <1>7 DEF y

\* Powers of two are positive, and each is the double of the one before: the
\* subsets of 1 .. n + 1 are those of 1 .. n, without and with n + 1.
LEMMA PowersOfTwo ==
  ASSUME NEW n \in Nat
  PROVE  2 ^ n \in Nat /\ 2 ^ n >= 1 /\ 2 ^ (n + 1) = 2 * 2 ^ n
<1> DEFINE A == SUBSET (1 .. n)
           B == {S \cup {n + 1} : S \in A}
           f == [S \in A |-> S \cup {n + 1}]
           p == 2 ^ n
           q == 2 ^ (n + 1)
<1> HIDE DEF p, q
<1>1. /\ IsFiniteSet(1 .. n) /\ Cardinality(1 .. n) = n
      /\ IsFiniteSet(1 .. n + 1) /\ Cardinality(1 .. n + 1) = n + 1
  BY FS_Interval
<1>2. IsFiniteSet(A) /\ Cardinality(A) = p
  BY <1>1, FS_SUBSET DEF p
<1>3. Cardinality(SUBSET (1 .. n + 1)) = q
  BY <1>1, FS_SUBSET DEF q
<1>4. f \in Bijection(A, B)
  <2>1. \A S, T \in A : S \cup {n + 1} = T \cup {n + 1} => S = T
    OBVIOUS
  <2>2. f \in [A -> B]
    OBVIOUS
  <2>3. f \in Injection(A, B)
    BY <2>1, <2>2 DEF Injection, IsInjective
  <2>4. \A T \in B : \E S \in A : f[S] = T
    OBVIOUS
  <2> QED
    BY <2>2, <2>3, <2>4 DEF Bijection, Surjection
<1>5. IsFiniteSet(B) /\ Cardinality(B) = p
  BY <1>2, <1>4, FS_Bijection DEF ExistsBijection
<1>6. A \cap B = {}
  OBVIOUS
<1>7. A \cup B = SUBSET (1 .. n + 1)
  <2>1. ASSUME NEW S \in SUBSET (1 .. n + 1) PROVE S \in A \cup B
    <3>1. CASE n + 1 \notin S
      BY <3>1
    <3>2. CASE n + 1 \in S
      <4>1. S \ {n + 1} \in A /\ S = (S \ {n + 1}) \cup {n + 1}
        BY <3>2
      <4> QED
        BY <4>1
    <3> QED
      BY <3>1, <3>2
  <2>2. 1 .. n \subseteq 1 .. n + 1 /\ n + 1 \in 1 .. n + 1
    OBVIOUS
  <2>3. \A S \in A : S \subseteq 1 .. n + 1 /\ S \cup {n + 1} \subseteq 1 .. n + 1
    BY <2>2
  <2>4. ASSUME NEW T \in A \cup B PROVE T \in SUBSET (1 .. n + 1)
    BY <2>3
  <2> HIDE DEF A, B
  <2> QED
    BY <2>1, <2>4
<1>8. p \in Nat
  BY <1>2, FS_CardinalityType
<1>9. p # 0
  <2>1. A # {}
    OBVIOUS
  <2> QED
    BY <1>2, <2>1, FS_EmptySet
<1>10. Cardinality(A \cup B) = Cardinality(A) + Cardinality(B) - Cardinality(A \cap B)
  BY <1>2, <1>5, FS_Union
<1>11. q = 2 * p
  <2>1. Cardinality(A \cup B) = q
    BY <1>3, <1>7, Zenon
  <2>2. Cardinality(A \cap B) = 0
    BY <1>6, FS_EmptySet, Zenon
  <2> QED
    BY <1>2, <1>5, <1>8, <1>10, <2>1, <2>2
<1>12. p \in Nat /\ p >= 1 /\ q = 2 * p
  BY <1>8, <1>9, <1>11
<1> QED
  BY <1>12, Zenon DEF p, q

\* A power the solver leaves alone.
Pow2(n) == 2 ^ n

\* A power of two divides every greater one.
LEMMA PowersDivide ==
  ASSUME NEW m \in Nat, NEW n \in 0 .. m
  PROVE  /\ Pow2(n) \in Nat \ {0}
         /\ \E k \in Nat \ {0} : Pow2(m) = Pow2(n) * k
<1>1. \A i \in Nat : Pow2(i) \in Nat /\ Pow2(i) >= 1 /\ Pow2(i + 1) = 2 * Pow2(i)
  BY PowersOfTwo, Zenon DEF Pow2
<1> DEFINE G == {i \in 0 .. m - n : \E k \in Nat \ {0} : Pow2(n + i) = Pow2(n) * k}
<1>2. 0 \in G
  BY <1>1
<1>3. ASSUME NEW i \in 1 .. m - n, i - 1 \in G PROVE i \in G
  <2>1. PICK k \in Nat \ {0} : Pow2(n + (i - 1)) = Pow2(n) * k
    BY <1>3
  <2>2. n + (i - 1) \in Nat /\ (n + (i - 1)) + 1 = n + i
    OBVIOUS
  <2>3. Pow2(n + i) = 2 * Pow2(n + (i - 1))
    BY <1>1, <2>2
  <2>4. 2 * (Pow2(n) * k) = Pow2(n) * (2 * k) /\ 2 * k \in Nat \ {0}
    BY <1>1
  <2> QED
    BY <2>1, <2>3, <2>4
<1>4. m - n \in G
  <2> HIDE DEF G
  <2> QED
    BY <1>2, <1>3, IndexInduction, m - n \in Nat, m - n \in 0 .. m - n
<1>5. n + (m - n) = m
  OBVIOUS
<1> QED
  BY <1>1, <1>4, <1>5

\* g is what the recursion over the subsets of S comes to that takes the
\* picked element off, and steps with it from what the rest comes to.
IsRecursion(g, S, X, base, pick, step) ==
  /\ g \in [SUBSET S -> X]
  /\ \A T \in SUBSET S : g[T] = IF T = {} THEN base ELSE step[pick[T]][g[T \ {pick[T]}]]

\* A recursion over the subsets of a finite set, which takes one element off
\* after another, is well-defined.
LEMMA SetRecursion ==
  ASSUME NEW S, IsFiniteSet(S), NEW X, NEW base \in X,
         NEW pick, \A T \in SUBSET S : T # {} => pick[T] \in T,
         NEW step \in [S -> [X -> X]]
  PROVE  \E g : IsRecursion(g, S, X, base, pick, step)
<1> DEFINE Upto(n) == {T \in SUBSET S : Cardinality(T) <= n}
           Good(g, n) ==
             /\ g \in [Upto(n) -> X]
             /\ \A T \in Upto(n) : g[T] = IF T = {} THEN base ELSE step[pick[T]][g[T \ {pick[T]}]]
<1>1. \A T \in SUBSET S : IsFiniteSet(T) /\ Cardinality(T) \in Nat /\ (Cardinality(T) = 0 <=> T = {})
  BY FS_Subset, FS_CardinalityType, FS_EmptySet
<1>2. \A T \in SUBSET S : T # {} =>
        /\ pick[T] \in S
        /\ T \ {pick[T]} \in SUBSET S
        /\ Cardinality(T \ {pick[T]}) = Cardinality(T) - 1
  BY <1>1, FS_RemoveElement
<1>3. \E g : Good(g, 0)
  <2> DEFINE g == [T \in Upto(0) |-> base]
  <2>1. \A T \in Upto(0) : T = {}
    BY <1>1
  <2>2. Good(g, 0)
    BY <2>1
  <2> QED
    BY <2>2
<1>4. ASSUME NEW n \in Nat, NEW g, Good(g, n) PROVE \E h : Good(h, n + 1)
  <2> DEFINE h == [T \in Upto(n + 1) |-> IF T = {} THEN base ELSE step[pick[T]][g[T \ {pick[T]}]]]
  <2>1. ASSUME NEW T \in Upto(n + 1), T # {}
        PROVE  T \ {pick[T]} \in Upto(n) /\ T \ {pick[T]} \in Upto(n + 1) /\ pick[T] \in S
    BY <1>1, <1>2, <2>1
  <2>2. h \in [Upto(n + 1) -> X]
    BY <1>4, <2>1
  <2>3. ASSUME NEW T \in Upto(n) PROVE T \in Upto(n + 1) /\ h[T] = g[T]
    <3>1. Cardinality(T) \in Nat /\ Cardinality(T) <= n
      BY <1>1
    <3>2. T \in Upto(n + 1)
      BY <3>1
    <3>3. g[T] = IF T = {} THEN base ELSE step[pick[T]][g[T \ {pick[T]}]]
      BY <1>4
    <3> QED
      BY <3>2, <3>3
  <2>4. Good(h, n + 1)
    <3> SUFFICES ASSUME NEW T \in Upto(n + 1), T # {}
                 PROVE  h[T] = step[pick[T]][h[T \ {pick[T]}]]
      BY <2>2
    <3>1. h[T \ {pick[T]}] = g[T \ {pick[T]}]
      BY <2>1, <2>3
    <3> QED
      BY <3>1
  <2> QED
    BY <2>4
<1> HIDE DEF Good
<1>5. \A n \in Nat : \E g : Good(g, n)
  <2> SUFFICES ASSUME NEW n \in Nat PROVE \E g : Good(g, n)
    OBVIOUS
  <2> DEFINE G == {i \in 0 .. n : \E g : Good(g, i)}
  <2>1. 0 \in G
    BY <1>3
  <2>2. ASSUME NEW i \in 1 .. n, i - 1 \in G PROVE i \in G
    BY <1>4, <2>2, i - 1 \in Nat, (i - 1) + 1 = i
  <2>3. n \in G
    <3> HIDE DEF G
    <3> QED
      BY <2>1, <2>2, IndexInduction, n \in 0 .. n
  <2> QED
    BY <2>3
<1>6. PICK g : Good(g, Cardinality(S))
  BY <1>1, <1>5
<1>7. Upto(Cardinality(S)) = SUBSET S
  <2>1. ASSUME NEW T \in SUBSET S PROVE Cardinality(T) <= Cardinality(S)
    BY FS_Subset
  <2> QED
    BY <2>1
<1> QED
  BY <1>6, <1>7 DEF Good, IsRecursion

\* What Min chooses is the least element.
LEMMA LeastIsMin ==
  ASSUME NEW S \in SUBSET Nat, NEW m \in S, \A k \in S : m <= k
  PROVE  Min(S) = m
<1>1. Min(S) \in S /\ \A k \in S : Min(S) <= k
  BY DEF Min
<1>2. Min(S) \in Nat /\ m \in Nat /\ Min(S) <= m /\ m <= Min(S)
  BY <1>1
<1> QED
  BY <1>2

\* Max, of indices.
LEMMA Greatest ==
  ASSUME NEW n \in Nat, NEW S \in SUBSET (1 .. n), S # {}
  PROVE  /\ Max(S) \in S
         /\ \A j \in S : Max(S) >= j
<1> DEFINE T == {n - i : i \in S}
<1>1. \A i \in S : i \in Int /\ n - i \in Nat
  OBVIOUS
<1>2. T \in SUBSET Nat /\ T # {}
  BY <1>1
<1>3. PICK x \in T : \A y \in T : x <= y
  BY <1>2, LeastNumber
<1>4. PICK i \in S : x = n - i
  OBVIOUS
<1>5. \A j \in S : i >= j
  <2> SUFFICES ASSUME NEW j \in S PROVE i >= j
    OBVIOUS
  <2>1. n - j \in T /\ n - j \in Nat /\ i \in 1 .. n /\ j \in 1 .. n
    OBVIOUS
  <2> QED
    BY <1>3, <1>4, <2>1
<1> QED
  BY <1>5 DEF Max

\* One step for each index.
AreSteps(step, n, X) == step \in [1 .. n -> [X -> X]]

\* g is a fold from the left over 1 .. n, as SequencesExt defines it: a
\* recursion that takes the last index off.
IsFold(g, n, X, base, step) ==
  /\ g \in [SUBSET (1 .. n) -> X]
  /\ \A T \in SUBSET (1 .. n) : g[T] = IF T = {} THEN base ELSE step[Max(T)][g[T \ {Max(T)}]]

\* A fold from the left is well-defined.
LEMMA FoldExists ==
  ASSUME NEW n \in Nat, NEW X, NEW base \in X, NEW step, AreSteps(step, n, X)
  PROVE  \E g : IsFold(g, n, X, base, step)
<1> DEFINE pick == [T \in SUBSET (1 .. n) |-> Max(T)]
<1>1. \A T \in SUBSET (1 .. n) : T # {} => pick[T] \in T
  BY Greatest
<1>2. IsFiniteSet(1 .. n)
  BY FS_Interval
<1> HIDE DEF pick
<1>3. PICK g : IsRecursion(g, 1 .. n, X, base, pick, step)
  BY <1>1, <1>2, SetRecursion DEF AreSteps
<1> QED
  BY <1>3 DEF pick, IsRecursion, IsFold

\* The last of the first i indices is i, and the others are the first i - 1.
LEMMA LastIndex ==
  ASSUME NEW n \in Nat, NEW i \in 1 .. n
  PROVE  1 .. i # {} /\ Max(1 .. i) = i /\ (1 .. i) \ {i} = 1 .. i - 1
<1>1. i \in 1 .. i /\ 1 .. i \in SUBSET (1 .. n)
  OBVIOUS
<1>2. Max(1 .. i) \in 1 .. i /\ Max(1 .. i) >= i
  BY <1>1, Greatest
<1> QED
  BY <1>1, <1>2

\* f takes the last index off and steps with it, where the rest comes to
\* something of the type of the step.
Recurs(f, n, X, base, step) ==
  /\ f[{}] = base
  /\ \A T \in SUBSET (1 .. n) :
       T # {} /\ f[T \ {Max(T)}] \in X => f[T] = step[Max(T)][f[T \ {Max(T)}]]

\* The results on the prefixes follow from each other by the step.
IsRun(run, n, X, base, step) ==
  /\ run \in [0 .. n -> X]
  /\ run[0] = base
  /\ \A i \in 1 .. n : run[i] = step[i][run[i - 1]]

\* A fold from the left comes to the last result of a run.
LEMMA FoldRuns ==
  ASSUME NEW n \in Nat, NEW X, NEW base \in X, NEW step, AreSteps(step, n, X),
         NEW f, Recurs(f, n, X, base, step)
  PROVE  \E run : IsRun(run, n, X, base, step) /\ run[n] = f[1 .. n]
<1> DEFINE run == [i \in 0 .. n |-> f[1 .. i]]
           G == {i \in 0 .. n : run[i] \in X}
<1>1. run[0] = base
  BY 1 .. 0 = {} DEF Recurs
<1>2. ASSUME NEW i \in 1 .. n, run[i - 1] \in X PROVE run[i] = step[i][run[i - 1]]
  <2>1. 1 .. i \in SUBSET (1 .. n) /\ i \in 0 .. n /\ i - 1 \in 0 .. n
    OBVIOUS
  <2>2. f[1 .. i - 1] \in X
    BY <1>2, <2>1
  <2>3. 1 .. i # {} /\ Max(1 .. i) = i /\ (1 .. i) \ {Max(1 .. i)} = 1 .. i - 1
    BY LastIndex
  <2>4. f[1 .. i] = step[i][f[1 .. i - 1]]
    BY <2>1, <2>2, <2>3 DEF Recurs
  <2> QED
    BY <2>1, <2>4
<1> HIDE DEF run
<1>3. \A i \in 0 .. n : i \in G
  <2>1. 0 \in G
    BY <1>1
  <2>2. ASSUME NEW i \in 1 .. n, i - 1 \in G PROVE i \in G
    BY <1>2, <2>2 DEF AreSteps
  <2> HIDE DEF G
  <2> QED
    BY <2>1, <2>2, IndexInduction
<1>4. run \in [0 .. n -> X]
  BY <1>3 DEF run
<1>5. ASSUME NEW i \in 1 .. n PROVE run[i] = step[i][run[i - 1]]
  BY <1>2, <1>4, i - 1 \in 0 .. n
<1>6. run[n] = f[1 .. n]
  BY DEF run
<1> QED
  BY <1>1, <1>4, <1>5, <1>6 DEF IsRun

\* What a function takes on a finite set is finite.
LEMMA FiniteImage ==
  ASSUME NEW S, IsFiniteSet(S), NEW f, DOMAIN f = S
  PROVE  IsFiniteSet({f[x] : x \in S})
<1> DEFINE T == {f[x] : x \in S}
           g == [x \in S |-> f[x]]
<1>1. g \in Surjection(S, T)
  BY DEF Surjection
<1> QED
  BY <1>1, FS_Surjection DEF ExistsSurjection

\* g is what the sum of w, as FiniteSetsExt computes it, comes to on the subsets
\* of S.
IsSum(g, S, w) ==
  /\ g \in [SUBSET S -> Nat]
  /\ \A T \in SUBSET S :
       g[T] = IF T = {} THEN 0
              ELSE w[CHOOSE x \in T : TRUE] + g[T \ {CHOOSE x \in T : TRUE}]

\* A sum over a finite set of natural numbers is well-defined.
LEMMA SumIs ==
  ASSUME NEW S, IsFiniteSet(S), NEW w, \A x \in S : w[x] \in Nat
  PROVE  \E g : IsSum(g, S, w) /\ SumFunctionOnSet(w, S) = g[S]
<1> DEFINE Body(f) == [T \in SUBSET S |->
              IF T = {} THEN 0 ELSE w[CHOOSE x \in T : TRUE] + f[T \ {CHOOSE x \in T : TRUE}]]
           fold == CHOOSE f : f = Body(f)
           pick == [T \in SUBSET S |-> CHOOSE x \in T : TRUE]
           step == [x \in S |-> [v \in Nat |-> w[x] + v]]
<1>1. SumFunctionOnSet(w, S) = fold[S]
  BY DEF SumFunctionOnSet, FoldFunctionOnSet, MapThenFoldSet
<1>2. \A T \in SUBSET S : T # {} => pick[T] \in T /\ pick[T] = CHOOSE x \in T : TRUE
  OBVIOUS
<1>3. step \in [S -> [Nat -> Nat]]
  OBVIOUS
<1>4. PICK g : IsRecursion(g, S, Nat, 0, pick, step)
  <2> HIDE DEF pick, step
  <2> QED
    BY <1>2, <1>3, SetRecursion
<1>5. ASSUME NEW T \in SUBSET S, T # {}
      PROVE  g[T] = w[CHOOSE x \in T : TRUE] + g[T \ {CHOOSE x \in T : TRUE}]
  <2>1. g[T] = step[pick[T]][g[T \ {pick[T]}]] /\ g[T \ {pick[T]}] \in Nat
    BY <1>4, <1>5 DEF IsRecursion
  <2>2. g[T] = w[pick[T]] + g[T \ {pick[T]}]
    BY <1>2, <1>5, <2>1
  <2> QED
    BY <1>2, <1>5, <2>2
<1>6. g = Body(g)
  BY <1>4, <1>5 DEF IsRecursion
<1>7. fold = Body(fold)
  BY <1>6
<1> HIDE DEF fold
<1> DEFINE G == {T \in SUBSET S : fold[T] \in Nat}
<1>8. \A T \in SUBSET S : fold[T] \in Nat
  <2> SUFFICES ASSUME NEW T \in SUBSET S PROVE T \in G
    OBVIOUS
  <2>1. {} \in G
    BY <1>7
  <2>2. ASSUME NEW U \in SUBSET T, U # {}, \A x \in U : U \ {x} \in G PROVE U \in G
    <3> DEFINE x == CHOOSE x \in U : TRUE
    <3>1. fold[U] = w[x] + fold[U \ {x}]
      BY <1>7, <2>2
    <3>2. x \in U
      BY <2>2
    <3> HIDE DEF x
    <3>3. w[x] \in Nat /\ fold[U \ {x}] \in Nat
      BY <2>2, <3>2
    <3> QED
      BY <3>1, <3>3
  <2>3. IsFiniteSet(T)
    BY FS_Subset
  <2> HIDE DEF G
  <2> QED
    BY <2>1, <2>2, <2>3, SubsetInduction
<1>9. IsSum(fold, S, w)
  <2>1. fold \in [SUBSET S -> Nat]
    BY <1>7, <1>8
  <2>2. \A T \in SUBSET S :
          fold[T] = IF T = {} THEN 0
                    ELSE w[CHOOSE x \in T : TRUE] + fold[T \ {CHOOSE x \in T : TRUE}]
    BY <1>7
  <2> QED
    BY <2>1, <2>2, Zenon DEF IsSum
<1> QED
  BY <1>1, <1>9

\* A sum of natural numbers is one, and is positive just if one of them is.
LEMMA SumPositive ==
  ASSUME NEW S, IsFiniteSet(S), NEW w, \A x \in S : w[x] \in Nat
  PROVE  /\ SumFunctionOnSet(w, S) \in Nat
         /\ SumFunctionOnSet(w, S) > 0 <=> \E x \in S : w[x] > 0
<1>1. PICK g : IsSum(g, S, w) /\ SumFunctionOnSet(w, S) = g[S]
  BY SumIs
<1> DEFINE G == {T \in SUBSET S : g[T] > 0 <=> \E x \in T : w[x] > 0}
<1>2. g \in [SUBSET S -> Nat] /\ g[{}] = 0
  BY <1>1 DEF IsSum
<1>3. {} \in G
  BY <1>2
<1>4. ASSUME NEW T \in SUBSET S, T # {}, \A x \in T : T \ {x} \in G PROVE T \in G
  <2>1. PICK x \in T : g[T] = w[x] + g[T \ {x}]
    <3>1. (CHOOSE x \in T : TRUE) \in T
      BY <1>4
    <3>2. g[T] = w[CHOOSE x \in T : TRUE] + g[T \ {CHOOSE x \in T : TRUE}]
      BY <1>1, <1>4 DEF IsSum
    <3> QED
      BY <3>1, <3>2, Zenon
  <2>2. w[x] \in Nat /\ g[T \ {x}] \in Nat
    BY <1>2
  <2>3. g[T \ {x}] > 0 <=> \E y \in T \ {x} : w[y] > 0
    BY <1>4
  <2> QED
    BY <2>1, <2>2, <2>3
<1>5. S \in G
  <2> HIDE DEF G
  <2> QED
    BY <1>3, <1>4, SubsetInduction
<1> QED
  BY <1>1, <1>2, <1>5

\* A sum of the sizes of sets that share no element is the size of their union.
LEMMA SumOfSizes ==
  ASSUME NEW S, IsFiniteSet(S), NEW w, \A x \in S : w[x] \in Nat,
         NEW U, \A x \in S : IsFiniteSet(U[x]) /\ Cardinality(U[x]) = w[x],
         \A x, y \in S : x # y => U[x] \cap U[y] = {}
  PROVE  Cardinality(UNION {U[x] : x \in S}) = SumFunctionOnSet(w, S)
<1>1. PICK g : IsSum(g, S, w) /\ SumFunctionOnSet(w, S) = g[S]
  BY SumIs
<1> DEFINE All(T) == UNION {U[x] : x \in T}
           G == {T \in SUBSET S : IsFiniteSet(All(T)) /\ Cardinality(All(T)) = g[T]}
<1>2. g \in [SUBSET S -> Nat] /\ g[{}] = 0
  BY <1>1 DEF IsSum
<1>3. {} \in G
  <2>1. All({}) = {}
    OBVIOUS
  <2> HIDE DEF All
  <2> QED
    BY <1>2, <2>1, FS_EmptySet
<1>4. ASSUME NEW T \in SUBSET S, T # {}, \A x \in T : T \ {x} \in G PROVE T \in G
  <2>1. PICK x \in T : g[T] = w[x] + g[T \ {x}]
    <3>1. (CHOOSE x \in T : TRUE) \in T
      BY <1>4
    <3>2. g[T] = w[CHOOSE x \in T : TRUE] + g[T \ {CHOOSE x \in T : TRUE}]
      BY <1>1, <1>4 DEF IsSum
    <3> QED
      BY <3>1, <3>2, Zenon
  <2>2. All(T) = U[x] \cup All(T \ {x})
    OBVIOUS
  <2>3. U[x] \cap All(T \ {x}) = {}
    <3> SUFFICES ASSUME NEW e \in U[x], NEW y \in T \ {x}, e \in U[y] PROVE FALSE
      OBVIOUS
    <3>1. x \in S /\ y \in S /\ x # y
      OBVIOUS
    <3>2. U[x] \cap U[y] = {}
      BY <3>1
    <3> QED
      BY <3>2
  <2>4. /\ IsFiniteSet(All(T \ {x})) /\ Cardinality(All(T \ {x})) = g[T \ {x}]
        /\ IsFiniteSet(U[x]) /\ Cardinality(U[x]) = w[x] /\ w[x] \in Nat
    BY <1>4
  <2>5. g[T \ {x}] \in Nat
    BY <1>2
  <2> HIDE DEF All
  <2>6. IsFiniteSet(U[x] \cup All(T \ {x}))
    BY <2>4, FS_Union
  <2>7. Cardinality(U[x] \cup All(T \ {x})) =
          Cardinality(U[x]) + Cardinality(All(T \ {x})) - Cardinality(U[x] \cap All(T \ {x}))
    BY <2>4, FS_Union
  <2>8. Cardinality(U[x] \cap All(T \ {x})) = 0
    BY <2>3, FS_EmptySet
  <2>9. Cardinality(U[x] \cup All(T \ {x})) = g[T]
    BY <2>1, <2>4, <2>5, <2>7, <2>8
  <2>10. IsFiniteSet(All(T)) /\ Cardinality(All(T)) = g[T]
    BY <2>2, <2>6, <2>9, Zenon
  <2> QED
    BY <2>10
<1>5. S \in G
  <2> HIDE DEF G
  <2> QED
    BY <1>3, <1>4, SubsetInduction
<1> QED
  BY <1>1, <1>5

\* What a sequence and another one after it hold.
LEMMA RangeOfJoin ==
  ASSUME NEW X, NEW s \in Seq(X), NEW t \in Seq(X), NEW x
  PROVE  x \in Range(s \o t) <=> x \in Range(s) \/ x \in Range(t)
<1> DEFINE u == s \o t
           a == Len(s)
           b == Len(t)
<1>1. /\ a \in Nat /\ DOMAIN s = 1 .. a
      /\ b \in Nat /\ DOMAIN t = 1 .. b
      /\ DOMAIN u = 1 .. a + b
  OBVIOUS
<1>2. \A i \in 1 .. a : u[i] = s[i]
  OBVIOUS
<1>3. \A i \in 1 .. b : u[a + i] = t[i]
  OBVIOUS
<1> HIDE DEF a, b, u
<1>4. ASSUME NEW i \in 1 .. a + b PROVE u[i] \in Range(s) \/ u[i] \in Range(t)
  <2>1. CASE i \in 1 .. a
    BY <1>1, <1>2, <2>1 DEF Range
  <2>2. CASE i \notin 1 .. a
    <3> DEFINE j == i - a
    <3>1. j \in 1 .. b /\ a + j = i
      BY <1>1, <2>2
    <3> HIDE DEF j
    <3>2. u[i] = t[j]
      BY <1>3, <3>1
    <3> QED
      BY <1>1, <3>1, <3>2 DEF Range
  <2> QED
    BY <2>1, <2>2
<1>5. \A i \in 1 .. a : s[i] \in Range(u)
  <2> SUFFICES ASSUME NEW i \in 1 .. a PROVE s[i] \in Range(u)
    OBVIOUS
  <2>1. i \in 1 .. a + b /\ u[i] = s[i]
    BY <1>1, <1>2
  <2> QED
    BY <1>1, <2>1 DEF Range
<1>6. \A i \in 1 .. b : t[i] \in Range(u)
  <2> SUFFICES ASSUME NEW i \in 1 .. b PROVE t[i] \in Range(u)
    OBVIOUS
  <2>1. a + i \in 1 .. a + b /\ u[a + i] = t[i]
    BY <1>1, <1>3
  <2> QED
    BY <1>1, <2>1 DEF Range
<1>7. x \in Range(u) <=> x \in Range(s) \/ x \in Range(t)
  BY <1>1, <1>4, <1>5, <1>6 DEF Range
<1> QED
  BY <1>7 DEF u

\* Sequences one after another are a sequence of what any of them holds.
LEMMA Flattened ==
  ASSUME NEW X, NEW seqs \in Seq(Seq(X))
  PROVE  /\ FlattenSeq(seqs) \in Seq(X)
         /\ \A x : x \in Range(FlattenSeq(seqs)) <=> \E i \in DOMAIN seqs : x \in Range(seqs[i])
<1> DEFINE n == Len(seqs)
           Joined(f, m) == \A i \in 1 .. m : f[i] = IF i = 1 THEN seqs[i] ELSE f[i - 1] \o seqs[i]
           Body(f) == [i \in 1 .. n |-> IF i = 1 THEN seqs[i] ELSE f[i - 1] \o seqs[i]]
           flatten == CHOOSE f : f = Body(f)
<1>1. n \in Nat /\ DOMAIN seqs = 1 .. n /\ \A i \in 1 .. n : seqs[i] \in Seq(X)
  OBVIOUS
<1>2. CASE n = 0
  <2>1. seqs = <<>> /\ FlattenSeq(seqs) = <<>>
    BY <1>2 DEF FlattenSeq
  <2>2. DOMAIN <<>> = {} /\ <<>> \in Seq(X)
    OBVIOUS
  <2>3. Range(<<>>) = {}
    BY <2>2, Zenon DEF Range
  <2> QED
    BY <2>1, <2>2, <2>3, Zenon
<1>3. CASE n # 0
  <2>1. FlattenSeq(seqs) = flatten[n]
    BY <1>3 DEF FlattenSeq
  <2> HIDE DEF n
  <2>2. \E f : f = Body(f)
    <3> DEFINE G == {m \in 0 .. n : \E f \in [1 .. m -> Seq(X)] : Joined(f, m)}
    <3>1. 0 \in G
      <4>1. [i \in 1 .. 0 |-> <<>>] \in [1 .. 0 -> Seq(X)]
        OBVIOUS
      <4>2. Joined([i \in 1 .. 0 |-> <<>>], 0)
        OBVIOUS
      <4>3. 0 \in 0 .. n
        BY <1>1
      <4> HIDE DEF Joined
      <4> QED
        BY <4>1, <4>2, <4>3, Zenon
    <3>2. ASSUME NEW m \in 1 .. n, m - 1 \in G PROVE m \in G
      <4>1. PICK f \in [1 .. m - 1 -> Seq(X)] : Joined(f, m - 1)
        BY <3>2
      <4> DEFINE h == [i \in 1 .. m |-> IF i < m THEN f[i] ELSE IF i = 1 THEN seqs[i] ELSE f[i - 1] \o seqs[i]]
      <4>2. h \in [1 .. m -> Seq(X)]
        <5> SUFFICES ASSUME NEW i \in 1 .. m PROVE h[i] \in Seq(X)
          OBVIOUS
        <5>1. i \in 1 .. n /\ seqs[i] \in Seq(X)
          BY <1>1
        <5>2. CASE i < m
          BY <5>2, i \in 1 .. m - 1
        <5>3. CASE i = m /\ i # 1
          <6>1. f[i - 1] \in Seq(X)
            BY <5>3, i - 1 \in 1 .. m - 1
          <6>2. f[i - 1] \o seqs[i] \in Seq(X)
            BY <5>1, <6>1
          <6> QED
            BY <5>3, <6>2
        <5> QED
          BY <5>1, <5>2, <5>3
      <4>3. Joined(h, m)
        <5> SUFFICES ASSUME NEW i \in 1 .. m
                     PROVE  h[i] = IF i = 1 THEN seqs[i] ELSE h[i - 1] \o seqs[i]
          OBVIOUS
        <5>1. CASE i < m
          <6>1. i \in 1 .. m - 1 /\ h[i] = f[i]
            BY <5>1
          <6>2. i # 1 => i - 1 \in 1 .. m - 1 /\ h[i - 1] = f[i - 1]
            BY <5>1
          <6> QED
            BY <4>1, <6>1, <6>2
        <5>2. CASE i = m
          <6>1. i # 1 => i - 1 \in 1 .. m - 1 /\ h[i - 1] = f[i - 1]
            BY <5>2
          <6> QED
            BY <5>2, <6>1
        <5> QED
          BY <5>1, <5>2
      <4> HIDE DEF h, Joined
      <4> QED
        BY <1>1, <4>2, <4>3
    <3>3. n \in G
      <4> HIDE DEF G
      <4> QED
        BY <1>1, <3>1, <3>2, IndexInduction, n \in 0 .. n
    <3>4. PICK f \in [1 .. n -> Seq(X)] : Joined(f, n)
      BY <3>3
    <3>5. f = Body(f)
      BY <3>4
    <3> QED
      BY <3>5
  <2>3. flatten = Body(flatten)
    BY <2>2
  <2> HIDE DEF flatten
  <2> DEFINE Right(s, m) ==
               s \in Seq(X) /\ \A x : x \in Range(s) <=> \E i \in 1 .. m : x \in Range(seqs[i])
             G == {m \in 0 .. n : m = 0 \/ Right(flatten[m], m)}
  <2>4. 0 \in G
    BY <1>1
  <2>5. ASSUME NEW m \in 1 .. n, m - 1 \in G PROVE m \in G
    <3>1. CASE m = 1
      <4>1. flatten[m] = seqs[1]
        BY <2>3, <3>1
      <4>2. \A x : x \in Range(seqs[1]) <=> \E i \in 1 .. 1 : x \in Range(seqs[i])
        <5>1. 1 .. 1 = {1}
          OBVIOUS
        <5> QED
          BY <5>1, Zenon
      <4>3. seqs[1] \in Seq(X)
        BY <1>1, <3>1
      <4>4. m \in 0 .. n
        BY <1>1
      <4>5. Right(flatten[m], m)
        BY <3>1, <4>1, <4>2, <4>3, Zenon
      <4> HIDE DEF Right
      <4> QED
        BY <4>4, <4>5, Zenon
    <3>2. CASE m # 1
      <4> DEFINE s == flatten[m - 1]
                 t == seqs[m]
      <4>1. s \in Seq(X) /\ t \in Seq(X) /\ Right(s, m - 1)
        BY <1>1, <2>5, <3>2
      <4>2. flatten[m] = s \o t
        BY <2>3, <3>2
      <4> HIDE DEF s
      <4>3. \A x : x \in Range(s \o t) <=> x \in Range(s) \/ x \in Range(t)
        BY <4>1, RangeOfJoin
      <4>4. s \o t \in Seq(X)
        BY <4>1
      <4>5. \A i : i \in 1 .. m <=> i \in 1 .. m - 1 \/ i = m
        BY <1>1
      <4>6. Right(s \o t, m)
        <5> SUFFICES ASSUME NEW x PROVE x \in Range(s \o t) <=> \E i \in 1 .. m : x \in Range(seqs[i])
          BY <4>4
        <5>1. x \in Range(s) <=> \E i \in 1 .. m - 1 : x \in Range(seqs[i])
          BY <4>1
        <5> QED
          BY <4>3, <4>5, <5>1, Zenon
      <4>7. m \in 0 .. n
        BY <1>1
      <4> HIDE DEF Right, t
      <4> QED
        BY <4>2, <4>6, <4>7, Zenon
    <3> QED
      BY <3>1, <3>2
  <2>6. n \in G
    <3> HIDE DEF G
    <3> QED
      BY <1>1, <2>4, <2>5, IndexInduction, n \in 0 .. n
  <2>7. Right(flatten[n], n)
    BY <1>3, <2>6
  <2> QED
    BY <1>1, <2>1, <2>7
<1> QED
  BY <1>2, <1>3

\* A sequence of a finite set holds its elements.
LEMMA SetAsSequence ==
  ASSUME NEW S, IsFiniteSet(S)
  PROVE  SetToSeq(S) \in Seq(S) /\ Range(SetToSeq(S)) = S
<1> DEFINE n == Cardinality(S)
           f == SetToSeq(S)
<1>1. n \in Nat /\ IsFiniteSet(1 .. n) /\ Cardinality(1 .. n) = n
  BY FS_CardinalityType, FS_Interval
<1>2. f \in [1 .. n -> S] /\ IsInjective(f)
  <2>1. \E g \in [1 .. n -> S] : IsInjective(g)
    <3>1. ExistsBijection(1 .. n, S)
      BY <1>1, FS_SameCardinalityBij
    <3> HIDE DEF n
    <3> QED
      BY <3>1 DEF ExistsBijection, Bijection, Injection
  <2> QED
    BY <2>1 DEF SetToSeq
<1> HIDE DEF f, n
<1>3. Range(f) \in SUBSET S
  BY <1>2 DEF Range
<1>4. f \in Bijection(1 .. n, Range(f))
  <2>1. f \in [1 .. n -> Range(f)] /\ \A x \in Range(f) : \E i \in 1 .. n : f[i] = x
    BY <1>2 DEF Range
  <2> QED
    BY <1>2, <2>1 DEF Bijection, Injection, Surjection
<1>5. Cardinality(Range(f)) = n
  BY <1>1, <1>4, FS_Bijection DEF ExistsBijection
<1>6. Range(f) = S
  BY <1>3, <1>5, FS_Subset DEF n
<1>7. f \in Seq(S)
  BY <1>1, <1>2
<1> QED
  BY <1>6, <1>7 DEF f
=============================================================================
