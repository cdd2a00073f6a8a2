------------------------ MODULE ReconciliationProofs ------------------------
(***************************************************************************)
(* Proofs about Reconciliation for every set of bundles and every policy:  *)
(* the three states stay in step, accepted evidence is kept, a bundle that *)
(* comes again changes no candidate, no capture is given back twice, the   *)
(* money of the bank is conserved, and both grains report what the oracle  *)
(* expects of the evidence.                                                *)
(***************************************************************************)
EXTENDS Reconciliation, FiniteSetTheorems, TLAPS

-----------------------------------------------------------------------------
(* Sums.  Total, and every sum over a set, is a fold that takes the        *)
(* elements in an order nobody knows; these lemmas say that the order does *)
(* not matter, and how sums are split, compared and regrouped.  Induction  *)
(* is stated over sets of sets instead of operators.                       *)


\* A nonempty set of naturals has a least member.
LEMMA LeastExists ==
  ASSUME NEW T, T \subseteq Nat, T # {}
  PROVE  \E x \in T : \A y \in T : x <= y
<1>1. \E x \in T : \A y \in T : ~ (<<y, x>> \in OpToRel(<, Nat))
  BY NatLessThanWellFounded, WFMin
<1>2. PICK x \in T : \A y \in T : ~ (<<y, x>> \in OpToRel(<, Nat))
  BY <1>1
<1>3. ASSUME NEW y \in T  PROVE x <= y
  <2>1. x \in Nat /\ y \in Nat
    OBVIOUS
  <2>2. ~ (y < x)
    <3>1. SUFFICES ASSUME y < x  PROVE <<y, x>> \in OpToRel(<, Nat)
      BY <1>2
    <3>2. <<y, x>> \in Nat \X Nat /\ <<y, x>>[1] = y /\ <<y, x>>[2] = x
      BY <2>1
    <3>3. QED  BY <3>1, <3>2, Zenon DEF OpToRel
  <2>3. QED  BY <2>1, <2>2
<1>4. QED  BY <1>2, <1>3

\* A collection of subsets of a finite set that has the empty set, and with a
\* set every set with one element more, has the whole.
LEMMA FiniteInduction ==
  ASSUME NEW D, IsFiniteSet(D), NEW P, {} \in P,
         \A S \in SUBSET D : \A x \in D \ S : S \in P => S \cup {x} \in P
  PROVE  D \in P
<1> DEFINE T == {n \in Nat : \E S \in SUBSET D : n = Cardinality(D \ S) /\ S \in P}
<1>1. \A S \in SUBSET D : IsFiniteSet(D \ S) /\ Cardinality(D \ S) \in Nat
  BY FS_Difference, FS_CardinalityType
<1>2. Cardinality(D \ {}) \in T
  BY <1>1
<1>3. PICK n \in T : \A m \in T : n <= m
  <2>1. T \subseteq Nat /\ T # {}
    BY <1>2
  <2> HIDE DEF T
  <2> QED
    BY <2>1, LeastExists
<1>4. PICK S \in SUBSET D : n = Cardinality(D \ S) /\ S \in P
  OBVIOUS
<1>5. CASE S = D
  BY <1>4, <1>5
<1>6. CASE S # D
  <2>1. PICK x \in D \ S : TRUE
    BY <1>6
  <2>2. S \cup {x} \in P /\ S \cup {x} \in SUBSET D
    BY <1>4, <2>1
  <2>3. D \ (S \cup {x}) = (D \ S) \ {x}
    OBVIOUS
  <2>4. Cardinality((D \ S) \ {x}) = Cardinality(D \ S) - 1
    BY <1>1, <2>1, FS_RemoveElement
  <2>5. Cardinality(D \ (S \cup {x})) = n - 1
    BY <1>4, <2>3, <2>4
  <2>6. Cardinality(D \ (S \cup {x})) \in T
    BY <1>1, <2>2
  <2>7. n <= n - 1 /\ n \in Nat
    BY <1>3, <2>5, <2>6
  <2> QED
    BY <2>7
<1> QED
  BY <1>5, <1>6

\* The values of a function on a finite set are finitely many.
LEMMA ImageIsFinite ==
  ASSUME NEW f, IsFiniteSet(DOMAIN f)
  PROVE  IsFiniteSet({f[x] : x \in DOMAIN f})
<1> DEFINE D == DOMAIN f
           T == {f[x] : x \in D}
           g == [x \in D |-> f[x]]
<1>1. g \in Surjection(D, T)
  BY DEF Surjection
<1> QED
  BY <1>1, FS_Surjection

-----------------------------------------------------------------------------
(* What a fold computes.                                                   *)

\* h gives every part of D the sum of f over it.
SumsOf(h, f, D) ==
  /\ h \in [SUBSET D -> Int]
  /\ h[{}] = 0
  /\ \A S \in SUBSET D : \A x \in S : h[S] = f[x] + h[S \ {x}]

\* There are such sums.
LEMMA SumsExist ==
  ASSUME NEW D, IsFiniteSet(D), NEW f, \A x \in D : f[x] \in Int
  PROVE  \E h : SumsOf(h, f, D)
<1> DEFINE P == {S \in SUBSET D : \E h : SumsOf(h, f, S)}
<1>1. {} \in P
  <2>1. SumsOf([S \in {{}} |-> 0], f, {})
    BY DEF SumsOf
  <2> QED
    BY <2>1
<1>2. ASSUME NEW S \in SUBSET D, NEW x \in D \ S, S \in P
      PROVE  S \cup {x} \in P
  <2>1. PICK h : SumsOf(h, f, S)
    BY <1>2
  <2> DEFINE N == S \cup {x}
             g == [U \in SUBSET N |-> IF x \in U THEN f[x] + h[U \ {x}] ELSE h[U]]
  <2>2. \A U \in SUBSET N : U \ {x} \in SUBSET S /\ (x \notin U => U \in SUBSET S)
    OBVIOUS
  <2>3. g \in [SUBSET N -> Int]
    <3>1. ASSUME NEW U \in SUBSET N
          PROVE  (IF x \in U THEN f[x] + h[U \ {x}] ELSE h[U]) \in Int
      <4>1. f[x] \in Int /\ h[U \ {x}] \in Int /\ (x \notin U => h[U] \in Int)
        BY <2>1, <2>2 DEF SumsOf
      <4> QED
        BY <4>1
    <3> QED
      BY <3>1
  <2>4. g[{}] = 0
    BY <2>1 DEF SumsOf
  <2>5. ASSUME NEW U \in SUBSET N, NEW y \in U
        PROVE  g[U] = f[y] + g[U \ {y}]
    <3>0. U \ {y} \in SUBSET N
      OBVIOUS
    <3>1. CASE x \notin U
      <4>1. U \in SUBSET S /\ x \notin U \ {y}
        BY <2>2, <3>1
      <4>2. g[U] = h[U] /\ g[U \ {y}] = h[U \ {y}]
        BY <3>0, <3>1, <4>1
      <4> QED
        BY <2>1, <4>1, <4>2 DEF SumsOf
    <3>2. CASE x = y
      <4>1. g[U] = f[x] + h[U \ {x}] /\ g[U \ {y}] = h[U \ {x}]
        BY <3>0, <3>2
      <4> QED
        BY <3>2, <4>1
    <3>3. CASE x \in U /\ x # y
      <4> DEFINE V == U \ {x}
      <4>1. V \in SUBSET S /\ y \in V /\ (U \ {y}) \ {x} = V \ {y}
        BY <2>2, <3>3
      <4>2. g[U] = f[x] + h[V] /\ g[U \ {y}] = f[x] + h[V \ {y}]
        BY <3>0, <3>3, <4>1
      <4>3. h[V] = f[y] + h[V \ {y}]
        BY <2>1, <4>1 DEF SumsOf
      <4>4. f[x] \in Int /\ f[y] \in Int /\ h[V \ {y}] \in Int
        BY <2>1, <4>1 DEF SumsOf
      <4> HIDE DEF g, V
      <4> QED
        BY <4>2, <4>3, <4>4
    <3> QED
      BY <3>1, <3>2, <3>3
  <2>6. SumsOf(g, f, N)
    <3> HIDE DEF g
    <3> QED
      BY <2>3, <2>4, <2>5 DEF SumsOf
  <2> QED
    BY <2>6
<1>3. D \in P
  <2> HIDE DEF P
  <2> QED
    BY <1>1, <1>2, FiniteInduction
<1> QED
  BY <1>3

\* What a fold that sums f over D is computed by.
Folds(g, f, D) ==
  g = [S \in SUBSET D |->
         IF S = {} THEN 0
         ELSE f[CHOOSE x \in S : TRUE] + g[S \ {CHOOSE x \in S : TRUE}]]

\* Sums are computed by a fold.
LEMMA SumsFold ==
  ASSUME NEW D, NEW f, NEW h, SumsOf(h, f, D)
  PROVE  Folds(h, f, D)
<1> DEFINE g == [S \in SUBSET D |->
                   IF S = {} THEN 0
                   ELSE f[CHOOSE x \in S : TRUE] + h[S \ {CHOOSE x \in S : TRUE}]]
<1>1. ASSUME NEW S \in SUBSET D
      PROVE  h[S] = IF S = {} THEN 0
                    ELSE f[CHOOSE x \in S : TRUE] + h[S \ {CHOOSE x \in S : TRUE}]
  <2>1. CASE S = {}
    BY <2>1 DEF SumsOf
  <2>2. CASE S # {}
    <3>1. (CHOOSE x \in S : TRUE) \in S
      BY <2>2
    <3> QED
      BY <2>2, <3>1 DEF SumsOf
  <2> QED
    BY <2>1, <2>2
<1>2. h = [S \in SUBSET D |-> h[S]]
  BY DEF SumsOf
<1>3. h = g
  BY <1>1, <1>2
<1> QED
  BY <1>3, Zenon DEF Folds

\* A fold computes the sums.
LEMMA FoldSums ==
  ASSUME NEW D, IsFiniteSet(D), NEW f, NEW h, SumsOf(h, f, D), NEW g, Folds(g, f, D)
  PROVE  \A S \in SUBSET D : g[S] = h[S]
<1> DEFINE Bad == {S \in SUBSET D : g[S] # h[S]}
           T == {n \in Nat : \E S \in Bad : n = Cardinality(S)}
<1>1. \A S \in SUBSET D : IsFiniteSet(S) /\ Cardinality(S) \in Nat
  BY FS_Subset, FS_CardinalityType
<1>2. SUFFICES ASSUME Bad # {}  PROVE FALSE
  OBVIOUS
<1>3. PICK n \in T : \A m \in T : n <= m
  <2>1. T \subseteq Nat /\ T # {}
    BY <1>1, <1>2
  <2> HIDE DEF T
  <2> QED
    BY <2>1, LeastExists
<1>4. PICK S \in SUBSET D : g[S] # h[S] /\ Cardinality(S) = n
  OBVIOUS
<1>5. S # {}
  <2>1. g[{}] = 0
    BY DEF Folds
  <2> QED
    BY <1>4, <2>1 DEF SumsOf
<1> DEFINE x == CHOOSE x \in S : TRUE
<1>6. x \in S
  BY <1>5
<1>7. g[S] = f[x] + g[S \ {x}]
  BY <1>5, Zenon DEF Folds
<1>8. h[S] = f[x] + h[S \ {x}]
  BY <1>6 DEF SumsOf
<1> HIDE DEF x
<1>9. Cardinality(S \ {x}) = n - 1
  BY <1>1, <1>4, <1>6, FS_RemoveElement
<1>10. S \ {x} \in Bad
  BY <1>4, <1>7, <1>8
<1>11. n <= n - 1 /\ n \in Nat
  BY <1>1, <1>3, <1>9, <1>10
<1> QED
  BY <1>11

\* The sums of f over the parts of D are what Total gives for the parts.
LEMMA TotalIsSum ==
  ASSUME NEW D, IsFiniteSet(D), NEW f, NEW h, SumsOf(h, f, D), NEW A \in SUBSET D
  PROVE  Total([x \in A |-> f[x]]) = h[A]
<1> DEFINE k == [x \in A |-> f[x]]
           g == CHOOSE g : g = [S \in SUBSET DOMAIN k |->
                 IF S = {} THEN 0
                 ELSE k[CHOOSE x \in S : TRUE] + g[S \ {CHOOSE x \in S : TRUE}]]
           j == [S \in SUBSET A |-> h[S]]
<1>1. SumsOf(j, k, A)
  <2>1. j \in [SUBSET A -> Int] /\ j[{}] = 0
    BY DEF SumsOf
  <2>2. ASSUME NEW S \in SUBSET A, NEW x \in S
        PROVE  j[S] = k[x] + j[S \ {x}]
    BY DEF SumsOf
  <2> HIDE DEF j, k
  <2> QED
    BY <2>1, <2>2 DEF SumsOf
<1>2. IsFiniteSet(A)
  BY FS_Subset
<1>3. DOMAIN k = A
  OBVIOUS
<1> HIDE DEF k
<1>4. Folds(j, k, DOMAIN k)
  BY <1>1, <1>3, SumsFold
<1>5. Folds(g, k, DOMAIN k)
  BY <1>4, Zenon DEF Folds
<1>6. Total(k) = g[DOMAIN k]
  BY Zenon DEF Total, FoldFunction, FoldFunctionOnSet, MapThenFoldSet
<1> HIDE DEF g, j
<1>7. g[A] = j[A]
  BY <1>1, <1>2, <1>3, <1>5, FoldSums
<1>8. j[A] = h[A]
  BY DEF j
<1> QED
  BY <1>3, <1>6, <1>7, <1>8 DEF k

\* What a fold over a set computes is the total of its terms.
LEMMA FoldIsTotal ==
  ASSUME NEW D, IsFiniteSet(D), NEW f, \A x \in D : f[x] \in Int, NEW g, Folds(g, f, D)
  PROVE  g[D] = Total([x \in D |-> f[x]])
<1>1. PICK h : SumsOf(h, f, D)
  BY SumsExist
<1> QED
  BY <1>1, FoldSums, TotalIsSum

\* It exists.
LEMMA FoldExists ==
  ASSUME NEW D, IsFiniteSet(D), NEW f, \A x \in D : f[x] \in Int
  PROVE  \E g : Folds(g, f, D)
BY SumsExist, SumsFold

-----------------------------------------------------------------------------
(* Totals.                                                                 *)

\* f is a function from a finite set to integers.
Summable(f) ==
  /\ f = [x \in DOMAIN f |-> f[x]]
  /\ IsFiniteSet(DOMAIN f)
  /\ \A x \in DOMAIN f : f[x] \in Int

\* The part of f on A.
Part(f, A) == [x \in A |-> f[x]]

\* The totals of the parts of f.
LEMMA TotalSums ==
  ASSUME NEW f, Summable(f)
  PROVE  \E h : /\ SumsOf(h, f, DOMAIN f)
                /\ \A A \in SUBSET DOMAIN f : Total(Part(f, A)) = h[A]
                /\ Part(f, DOMAIN f) = f
<1>1. PICK h : SumsOf(h, f, DOMAIN f)
  BY SumsExist DEF Summable
<1>2. \A A \in SUBSET DOMAIN f : Total(Part(f, A)) = h[A]
  BY <1>1, TotalIsSum DEF Summable, Part
<1>3. Part(f, DOMAIN f) = f
  BY DEF Summable, Part
<1> QED
  BY <1>1, <1>2, <1>3

\* A total is an integer, nothing totals zero, and any element can be taken
\* first.
LEMMA TotalSteps ==
  ASSUME NEW f, Summable(f)
  PROVE  /\ Total(f) \in Int
         /\ \A A \in SUBSET DOMAIN f : Total(Part(f, A)) \in Int
         /\ Total(Part(f, {})) = 0
         /\ \A A \in SUBSET DOMAIN f : \A x \in A :
              Total(Part(f, A)) = f[x] + Total(Part(f, A \ {x}))
         /\ Part(f, DOMAIN f) = f
<1>1. PICK h : /\ SumsOf(h, f, DOMAIN f)
               /\ \A A \in SUBSET DOMAIN f : Total(Part(f, A)) = h[A]
               /\ Part(f, DOMAIN f) = f
  BY TotalSums
<1>2. \A A \in SUBSET DOMAIN f : Total(Part(f, A)) \in Int
  BY <1>1 DEF SumsOf
<1>3. Total(Part(f, {})) = 0
  BY <1>1 DEF SumsOf
<1>4. ASSUME NEW A \in SUBSET DOMAIN f, NEW x \in A
      PROVE  Total(Part(f, A)) = f[x] + Total(Part(f, A \ {x}))
  <2>1. A \ {x} \in SUBSET DOMAIN f
    OBVIOUS
  <2> QED
    BY <1>1, <2>1 DEF SumsOf
<1> QED
  BY <1>1, <1>2, <1>3, <1>4

\* Parts of parts, and parts that can be summed.
LEMMA PartFacts ==
  ASSUME NEW f, Summable(f), NEW A \in SUBSET DOMAIN f
  PROVE  /\ Summable(Part(f, A)) /\ DOMAIN Part(f, A) = A
         /\ \A x \in A : Part(f, A)[x] = f[x]
         /\ \A B \in SUBSET A : Part(Part(f, A), B) = Part(f, B)
<1>1. DOMAIN Part(f, A) = A /\ \A x \in A : Part(f, A)[x] = f[x]
  BY DEF Part
<1>2. IsFiniteSet(A)
  BY FS_Subset DEF Summable
<1>3. Part(f, A) = [x \in DOMAIN Part(f, A) |-> Part(f, A)[x]]
  BY DEF Part
<1>4. Summable(Part(f, A))
  BY <1>1, <1>2, <1>3 DEF Summable
<1>5. \A B \in SUBSET A : Part(Part(f, A), B) = Part(f, B)
  BY DEF Part
<1> QED
  BY <1>1, <1>4, <1>5

\* A function on a finite set with integer values can be summed.
LEMMA SummableOn ==
  ASSUME NEW D, IsFiniteSet(D), NEW f, f \in [D -> Int]
  PROVE  Summable(f) /\ DOMAIN f = D
BY DEF Summable

\* The total of two parts without a common element.
LEMMA TotalSplit ==
  ASSUME NEW f, Summable(f), NEW A \in SUBSET DOMAIN f, NEW B \in SUBSET DOMAIN f, A \cap B = {}
  PROVE  Total(Part(f, A \cup B)) = Total(Part(f, A)) + Total(Part(f, B))
<1> DEFINE P == {S \in SUBSET B : Total(Part(f, A \cup S)) = Total(Part(f, A)) + Total(Part(f, S))}
<1>1. IsFiniteSet(B)
  BY FS_Subset DEF Summable
<1>2. {} \in P
  <2>1. A \cup {} = A
    OBVIOUS
  <2> QED
    BY <2>1, TotalSteps
<1>3. ASSUME NEW S \in SUBSET B, NEW x \in B \ S, S \in P
      PROVE  S \cup {x} \in P
  <2>1. /\ A \cup (S \cup {x}) \in SUBSET DOMAIN f /\ x \in A \cup (S \cup {x})
        /\ (A \cup (S \cup {x})) \ {x} = A \cup S
        /\ S \cup {x} \in SUBSET DOMAIN f /\ (S \cup {x}) \ {x} = S
        /\ A \cup S \in SUBSET DOMAIN f /\ S \in SUBSET DOMAIN f /\ x \in DOMAIN f
    OBVIOUS
  <2>2. Total(Part(f, A \cup (S \cup {x}))) = f[x] + Total(Part(f, A \cup S))
    BY <2>1, TotalSteps
  <2>3. Total(Part(f, S \cup {x})) = f[x] + Total(Part(f, S))
    BY <2>1, TotalSteps
  <2>4. /\ f[x] \in Int /\ Total(Part(f, S)) \in Int /\ Total(Part(f, A)) \in Int
    BY <2>1, TotalSteps DEF Summable
  <2>5. Total(Part(f, A \cup S)) = Total(Part(f, A)) + Total(Part(f, S))
    BY <1>3
  <2>6. Total(Part(f, A \cup (S \cup {x}))) = Total(Part(f, A)) + Total(Part(f, S \cup {x}))
    BY <2>2, <2>3, <2>4, <2>5
  <2> QED
    BY <2>6
<1>4. B \in P
  <2> HIDE DEF P
  <2> QED
    BY <1>1, <1>2, <1>3, FiniteInduction
<1> QED
  BY <1>4

\* Larger terms have the larger total.
LEMMA TotalCompare ==
  ASSUME NEW f, NEW g, Summable(f), Summable(g), DOMAIN f = DOMAIN g,
         \A x \in DOMAIN f : f[x] <= g[x]
  PROVE  Total(f) <= Total(g)
<1> DEFINE D == DOMAIN f
           P == {S \in SUBSET D : Total(Part(f, S)) <= Total(Part(g, S))}
<1>1. IsFiniteSet(D)
  BY DEF Summable
<1>2. {} \in P
  BY TotalSteps
<1>3. ASSUME NEW S \in SUBSET D, NEW x \in D \ S, S \in P
      PROVE  S \cup {x} \in P
  <2>1. S \cup {x} \in SUBSET D /\ x \in S \cup {x} /\ (S \cup {x}) \ {x} = S
    OBVIOUS
  <2>2. /\ Total(Part(f, S \cup {x})) = f[x] + Total(Part(f, S))
        /\ Total(Part(g, S \cup {x})) = g[x] + Total(Part(g, S))
    BY <2>1, TotalSteps
  <2>3. /\ f[x] \in Int /\ Total(Part(f, S)) \in Int
        /\ g[x] \in Int /\ Total(Part(g, S)) \in Int
        /\ f[x] <= g[x] /\ Total(Part(f, S)) <= Total(Part(g, S))
    BY <1>3, TotalSteps DEF Summable
  <2>4. Total(Part(f, S \cup {x})) <= Total(Part(g, S \cup {x}))
    BY <2>2, <2>3
  <2> QED
    BY <2>4
<1>4. D \in P
  <2> HIDE DEF P, D
  <2> QED
    BY <1>1, <1>2, <1>3, FiniteInduction
<1> QED
  BY <1>4, TotalSteps

\* The total of no terms, and of terms that are nothing.
LEMMA TotalEmpty ==
  ASSUME NEW f, Summable(f), \A x \in DOMAIN f : f[x] = 0
  PROVE  Total(f) = 0
<1> DEFINE D == DOMAIN f
           P == {S \in SUBSET D : Total(Part(f, S)) = 0}
<1>1. IsFiniteSet(D)
  BY DEF Summable
<1>2. {} \in P
  BY TotalSteps
<1>3. ASSUME NEW S \in SUBSET D, NEW x \in D \ S, S \in P
      PROVE  S \cup {x} \in P
  <2>1. S \cup {x} \in SUBSET D /\ x \in S \cup {x} /\ (S \cup {x}) \ {x} = S
    OBVIOUS
  <2>2. Total(Part(f, S \cup {x})) = f[x] + Total(Part(f, S))
    BY <2>1, TotalSteps
  <2> QED
    BY <1>3, <2>2
<1>4. D \in P
  <2> HIDE DEF P, D
  <2> QED
    BY <1>1, <1>2, <1>3, FiniteInduction
<1> QED
  BY <1>4, TotalSteps

\* The total of differences is the difference of the totals.
LEMMA TotalMinus ==
  ASSUME NEW f, NEW g, NEW d, Summable(f), Summable(g), Summable(d),
         DOMAIN f = DOMAIN g, DOMAIN d = DOMAIN f,
         \A x \in DOMAIN f : d[x] = f[x] - g[x]
  PROVE  Total(d) = Total(f) - Total(g)
<1> DEFINE D == DOMAIN f
           P == {S \in SUBSET D : Total(Part(d, S)) = Total(Part(f, S)) - Total(Part(g, S))}
<1>1. IsFiniteSet(D)
  BY DEF Summable
<1>2. {} \in P
  BY TotalSteps
<1>3. ASSUME NEW S \in SUBSET D, NEW x \in D \ S, S \in P
      PROVE  S \cup {x} \in P
  <2>1. S \cup {x} \in SUBSET D /\ x \in S \cup {x} /\ (S \cup {x}) \ {x} = S
    OBVIOUS
  <2>2. /\ Total(Part(f, S \cup {x})) = f[x] + Total(Part(f, S))
        /\ Total(Part(g, S \cup {x})) = g[x] + Total(Part(g, S))
        /\ Total(Part(d, S \cup {x})) = d[x] + Total(Part(d, S))
    BY <2>1, TotalSteps
  <2>3. /\ f[x] \in Int /\ Total(Part(f, S)) \in Int
        /\ g[x] \in Int /\ Total(Part(g, S)) \in Int
        /\ d[x] = f[x] - g[x]
        /\ Total(Part(d, S)) = Total(Part(f, S)) - Total(Part(g, S))
    BY <1>3, TotalSteps DEF Summable
  <2>4. Total(Part(d, S \cup {x})) = Total(Part(f, S \cup {x})) - Total(Part(g, S \cup {x}))
    BY <2>2, <2>3
  <2> QED
    BY <2>4
<1>4. D \in P
  <2> HIDE DEF P, D
  <2> QED
    BY <1>1, <1>2, <1>3, FiniteInduction
<1> QED
  BY <1>4, TotalSteps

\* Terms under other names have the same total.
LEMMA TotalRenamed ==
  ASSUME NEW f, Summable(f), NEW g, Summable(g), NEW b,
         \A x \in DOMAIN f : b[x] \in DOMAIN g /\ g[b[x]] = f[x],
         \A x, y \in DOMAIN f : b[x] = b[y] => x = y,
         \A z \in DOMAIN g : \E x \in DOMAIN f : b[x] = z
  PROVE  Total(f) = Total(g)
<1> DEFINE D == DOMAIN f
           Im(S) == {b[x] : x \in S}
           P == {S \in SUBSET D : Total(Part(f, S)) = Total(Part(g, Im(S)))}
<1>1. IsFiniteSet(D)
  BY DEF Summable
<1>2. {} \in P
  <2>1. Im({}) = {}
    OBVIOUS
  <2> QED
    BY <2>1, TotalSteps
<1>3. ASSUME NEW S \in SUBSET D, NEW x \in D \ S, S \in P
      PROVE  S \cup {x} \in P
  <2>1. S \cup {x} \in SUBSET D /\ x \in S \cup {x} /\ (S \cup {x}) \ {x} = S
    OBVIOUS
  <2>2. /\ Im(S \cup {x}) \in SUBSET DOMAIN g /\ b[x] \in Im(S \cup {x})
        /\ Im(S \cup {x}) \ {b[x]} = Im(S)
    OBVIOUS
  <2>3. Total(Part(f, S \cup {x})) = f[x] + Total(Part(f, S))
    BY <2>1, TotalSteps
  <2> DEFINE A == Im(S \cup {x})
             z == b[x]
  <2>a. A \in SUBSET DOMAIN g /\ z \in A /\ A \ {z} = Im(S)
    BY <2>2
  <2> HIDE DEF Im, A, z
  <2>b. Total(Part(g, A)) = g[z] + Total(Part(g, A \ {z}))
    BY <2>a, TotalSteps
  <2>4. Total(Part(g, Im(S \cup {x}))) = g[b[x]] + Total(Part(g, Im(S)))
    BY <2>a, <2>b DEF A, z
  <2>5. g[b[x]] = f[x] /\ Total(Part(f, S)) = Total(Part(g, Im(S)))
    BY <1>3
  <2>6. Total(Part(f, S \cup {x})) = Total(Part(g, Im(S \cup {x})))
    BY <2>3, <2>4, <2>5
  <2> QED
    BY <2>6
<1>4. D \in P
  <2> HIDE DEF P, D
  <2> QED
    BY <1>1, <1>2, <1>3, FiniteInduction
<1>5. Im(D) = DOMAIN g
  OBVIOUS
<1> QED
  BY <1>4, <1>5, TotalSteps

\* Terms can be added up group by group.
LEMMA TotalGrouped ==
  ASSUME NEW f, Summable(f), NEW K, IsFiniteSet(K), NEW k,
         \A x \in DOMAIN f : k[x] \in K
  PROVE  LET groups == [q \in K |-> Total(Part(f, {x \in DOMAIN f : k[x] = q}))] IN
         Summable(groups) /\ Total(f) = Total(groups)
<1> DEFINE In(Q) == {x \in DOMAIN f : k[x] \in Q}
           groups == [q \in K |-> Total(Part(f, {x \in DOMAIN f : k[x] = q}))]
           P == {Q \in SUBSET K : Total(Part(f, In(Q))) = Total(Part(groups, Q))}
<1>1. groups \in [K -> Int]
  <2>1. ASSUME NEW q \in K
        PROVE  Total(Part(f, {x \in DOMAIN f : k[x] = q})) \in Int
    <3>1. {x \in DOMAIN f : k[x] = q} \in SUBSET DOMAIN f
      OBVIOUS
    <3> QED
      BY <3>1, TotalSteps
  <2> QED
    BY <2>1
<1>2. Summable(groups) /\ DOMAIN groups = K
  BY <1>1, SummableOn
<1>3. {} \in P
  <2>1. In({}) = {}
    OBVIOUS
  <2> HIDE DEF groups
  <2> QED
    BY <1>2, <2>1, TotalSteps
<1>4. ASSUME NEW Q \in SUBSET K, NEW q \in K \ Q, Q \in P
      PROVE  Q \cup {q} \in P
  <2>1. Q \cup {q} \in SUBSET K /\ q \in Q \cup {q} /\ (Q \cup {q}) \ {q} = Q
    OBVIOUS
  <2> DEFINE A == In(Q)
             B == {x \in DOMAIN f : k[x] = q}
  <2>2. /\ In(Q \cup {q}) = A \cup B /\ A \cap B = {}
        /\ A \in SUBSET DOMAIN f /\ B \in SUBSET DOMAIN f
    OBVIOUS
  <2>3. groups[q] = Total(Part(f, B))
    OBVIOUS
  <2>4. Total(Part(f, A)) = Total(Part(groups, Q))
    BY <1>4
  <2> DEFINE t == Total(Part(f, In(Q \cup {q})))
  <2>9. t = Total(Part(f, A \cup B))
    BY <2>2
  <2> HIDE DEF groups, A, B, In, t
  <2>5. Total(Part(f, A \cup B)) = Total(Part(f, A)) + Total(Part(f, B))
    BY <2>2, TotalSplit
  <2>6. Total(Part(groups, Q \cup {q})) = groups[q] + Total(Part(groups, Q))
    BY <1>2, <2>1, TotalSteps
  <2>7. Total(Part(f, A)) \in Int /\ Total(Part(f, B)) \in Int
    BY <2>2, TotalSteps
  <2>8. t = Total(Part(groups, Q \cup {q}))
    BY <2>3, <2>4, <2>5, <2>6, <2>7, <2>9
  <2> QED
    BY <2>8 DEF t
<1>5. K \in P
  <2> HIDE DEF P
  <2> QED
    BY <1>3, <1>4, FiniteInduction
<1>6. In(K) = DOMAIN f
  OBVIOUS
<1> HIDE DEF groups, In
<1>7. Total(f) = Total(groups)
  BY <1>2, <1>5, <1>6, TotalSteps
<1> QED
  BY <1>2, <1>7 DEF groups

\* The terms of a part add up to no more than all terms, when none is negative.
LEMMA TotalOfPart ==
  ASSUME NEW f, Summable(f), \A x \in DOMAIN f : f[x] >= 0, NEW A \in SUBSET DOMAIN f
  PROVE  Total(Part(f, A)) <= Total(f)
<1> DEFINE B == DOMAIN f \ A
           z == [x \in B |-> 0]
<1>1. /\ B \in SUBSET DOMAIN f /\ A \cup B = DOMAIN f /\ A \cap B = {}
      /\ IsFiniteSet(B)
  BY FS_Difference DEF Summable
<1>2. Total(Part(f, A \cup B)) = Total(Part(f, A)) + Total(Part(f, B))
  BY <1>1, TotalSplit
<1>3. /\ Summable(Part(f, B)) /\ DOMAIN Part(f, B) = B
      /\ \A x \in B : Part(f, B)[x] = f[x]
  BY <1>1, PartFacts
<1>4. Summable(z) /\ DOMAIN z = B
  BY <1>1 DEF Summable
<1>5. Total(z) = 0
  BY <1>4, TotalEmpty
<1>6. \A x \in DOMAIN z : z[x] <= Part(f, B)[x]
  BY <1>1, <1>3
<1>7. Total(z) <= Total(Part(f, B))
  <2> HIDE DEF z, B
  <2> QED
    BY <1>3, <1>4, <1>6, TotalCompare
<1>8. Total(Part(f, A)) \in Int /\ Total(Part(f, B)) \in Int
  BY <1>1, TotalSteps
<1>9. Total(Part(f, A \cup B)) = Total(f)
  BY <1>1, TotalSteps
<1> HIDE DEF z, B
<1> QED
  BY <1>2, <1>5, <1>7, <1>8, <1>9

\* Turning the sign of every term turns the sign of the total.
LEMMA TotalNegated ==
  ASSUME NEW f, NEW d, Summable(f), Summable(d), DOMAIN d = DOMAIN f,
         \A x \in DOMAIN f : d[x] = -f[x]
  PROVE  Total(d) = -Total(f)
<1> DEFINE z == [x \in DOMAIN f |-> 0]
<1>1. Summable(z) /\ DOMAIN z = DOMAIN f
  BY DEF Summable
<1>2. Total(z) = 0
  BY <1>1, TotalEmpty
<1>3. \A x \in DOMAIN z : d[x] = z[x] - f[x]
  BY DEF Summable
<1> HIDE DEF z
<1>4. Total(d) = Total(z) - Total(f)
  BY <1>1, <1>3, TotalMinus
<1> QED
  BY <1>2, <1>4, TotalSteps

-----------------------------------------------------------------------------
(* What the merges pick out of a bundle.                                   *)

\* LastLine is a line of the bundle with the identity asked for.
LEMMA LastLineIsObserved ==
  ASSUME NEW b \in Bundles, NEW r \in Observed(b)
  PROVE  /\ LastLine(b, r.serial) \in Observed(b)
         /\ LastLine(b, r.serial).serial = r.serial
<1> DEFINE n == Len(b.lines)
           at == {i \in DOMAIN b.lines : b.lines[i].serial = r.serial}
           back == {n - i : i \in at}
<1>1. n \in Nat /\ DOMAIN b.lines = 1..n
  BY BundleAssumption
<1>2. PICK i \in at : TRUE
  BY DEF Observed, Range
<1>3. back \subseteq Nat /\ n - i \in back
  BY <1>1
<1>4. PICK x \in back : \A y \in back : x <= y
  BY <1>3, LeastExists
<1>5. PICK k \in at : x = n - k
  OBVIOUS
<1>6. ASSUME NEW j \in at  PROVE j <= k
  <2>1. n - j \in back /\ j \in Int /\ k \in Int
    BY <1>1
  <2>2. n - k <= n - j
    BY <1>4, <1>5, <2>1
  <2>3. QED  BY <1>1, <2>1, <2>2
<1> DEFINE last == CHOOSE l \in at : \A j \in at : j <= l
<1>7. last \in at
  BY <1>5, <1>6
<1>8. LastLine(b, r.serial) = b.lines[last]
  BY DEF LastLine
<1> HIDE DEF last
<1>9. QED  BY <1>7, <1>8 DEF Observed, Range

\* So is FirstLine.
LEMMA FirstLineIsObserved ==
  ASSUME NEW b \in Bundles, NEW r \in Observed(b)
  PROVE  /\ FirstLine(b, r.serial) \in Observed(b)
         /\ FirstLine(b, r.serial).serial = r.serial
<1> DEFINE same == {s \in Observed(b) : s.serial = r.serial}
           times == {s.transport : s \in same}
<1>1. times \subseteq Nat /\ r.transport \in times
  BY BundleAssumption
<1>2. PICK t \in times : \A u \in times : t <= u
  BY <1>1, LeastExists
<1>3. PICK f \in same : f.transport = t
  OBVIOUS
<1>4. \A s \in Observed(b) : s.serial = r.serial => f.transport <= s.transport
  BY <1>2, <1>3
<1>5. QED  BY <1>3, <1>4 DEF FirstLine

\* So is LineOf.
LEMMA LineOfIsObserved ==
  ASSUME NEW b, NEW r \in Observed(b)
  PROVE  /\ LineOf(b, r.serial) \in Observed(b)
         /\ LineOf(b, r.serial).serial = r.serial
BY DEF LineOf

\* Two records with one business digest have one identity and one grain.
LEMMA DigestDecides ==
  ASSUME NEW r, NEW s, BusinessDigest(r) = BusinessDigest(s),
         {"family", "serial", "transport"} \subseteq DOMAIN r,
         {"family", "serial", "transport"} \subseteq DOMAIN s,
         IsJournal(r) => "class" \in DOMAIN r,
         IsJournal(s) => "class" \in DOMAIN s
  PROVE  /\ r.serial = s.serial
         /\ AtTransactionGrain(r) <=> AtTransactionGrain(s)
<1> DEFINE d == BusinessDigest(r)
<1>1. d.serial = r.serial /\ d.family = r.family
  BY DEF BusinessDigest
<1>2. d.serial = s.serial /\ d.family = s.family
  BY DEF BusinessDigest
<1>3. IsJournal(r) => d.class = r.class /\ d.class = s.class
  BY <1>1, <1>2 DEF BusinessDigest, IsJournal
<1>4. QED  BY <1>1, <1>2, <1>3 DEF AtTransactionGrain, IsEvent, IsJournal

\* In an admitted bundle one identity has one business content, which agrees
\* with what was admitted before.
LEMMA OneDigestPerIdentity ==
  ASSUME NEW b \in Bundles, Admits(admission, b),
         NEW r \in Observed(b), NEW s \in Observed(b), r.serial = s.serial
  PROVE  /\ BusinessDigest(r) = BusinessDigest(s)
         /\ r.serial \in DOMAIN admission.sources =>
              admission.sources[r.serial] = BusinessDigest(r)
         /\ AtTransactionGrain(r) <=> AtTransactionGrain(s)
<1>1. BusinessDigest(r) = BusinessDigest(s)
  BY DEF Admits, IdentityConflict
<1>2. r.serial \in DOMAIN admission.sources =>
        admission.sources[r.serial] = BusinessDigest(r)
  BY DEF Admits, IdentityConflict
<1>3. AtTransactionGrain(r) <=> AtTransactionGrain(s)
  BY <1>1, DigestDecides, BundleAssumption
<1>4. QED  BY <1>1, <1>2, <1>3

\* What Admitted makes of the sources.
LEMMA SourcesAfter ==
  ASSUME NEW b \in Bundles, Admits(admission, b),
         admission' = Admitted(admission, b)
  PROVE  /\ DOMAIN admission'.sources =
              DOMAIN admission.sources \cup {r.serial : r \in Observed(b)}
         /\ \A r \in Observed(b) : admission'.sources[r.serial] = BusinessDigest(r)
         /\ \A i \in DOMAIN admission.sources :
              admission'.sources[i] = admission.sources[i]
<1> DEFINE new == {r.serial : r \in Observed(b)}
<1>1. admission'.sources =
        [i \in DOMAIN admission.sources \cup new |->
           IF i \in new THEN BusinessDigest(LineOf(b, i)) ELSE admission.sources[i]]
  BY DEF Admitted
<1>2. ASSUME NEW r \in Observed(b)
      PROVE  admission'.sources[r.serial] = BusinessDigest(r)
  <2>1. LineOf(b, r.serial) \in Observed(b) /\ LineOf(b, r.serial).serial = r.serial
    BY LineOfIsObserved
  <2>2. BusinessDigest(LineOf(b, r.serial)) = BusinessDigest(r)
    BY <2>1, OneDigestPerIdentity
  <2>3. QED  BY <1>1, <2>2
<1>3. ASSUME NEW i \in DOMAIN admission.sources
      PROVE  admission'.sources[i] = admission.sources[i]
  <2>1. CASE i \in new
    <3>1. PICK r \in Observed(b) : i = r.serial
      BY <2>1
    <3>2. QED  BY <1>2, <3>1, OneDigestPerIdentity
  <2>2. CASE i \notin new
    BY <1>1, <2>2
  <2>3. QED  BY <2>1, <2>2
<1>4. QED  BY <1>1, <1>2, <1>3

-----------------------------------------------------------------------------
(* The inductive invariant: StatesInStep alone does not say that a record  *)
(* of one grain stays out of the other state, and without that a late line *)
(* could bring a second record under a known identity.                     *)

\* The records of a state have the fields that the grains are read from.
Fielded(r) ==
  /\ {"family", "serial", "transport"} \subseteq DOMAIN r
  /\ IsJournal(r) => "class" \in DOMAIN r

GrainsApart ==
  /\ \A r \in transactions : Fielded(r) /\ AtTransactionGrain(r)
  /\ \A r \in settlements : Fielded(r) /\ AtSettlementGrain(r)

InStep == StatesInStep /\ GrainsApart

\* Nothing is admitted at the start, and the states are empty.
LEMMA InStepInit == Init => InStep
BY DEF Init, InStep, StatesInStep, GrainsApart, NothingAdmitted

\* After a delivery every record has the digest that admission knows, and its
\* state is the one of its grain.
LEMMA DeliverKeepsDigests ==
  ASSUME InStep, NEW b \in Bundles, Deliver(b)
  PROVE  /\ GrainsApart'
         /\ \A r \in transactions' \cup settlements' :
              admission'.sources[r.serial] = BusinessDigest(r)
<1>1. Admits(admission, b) /\ admission' = Admitted(admission, b)
  BY DEF Deliver, Reconciles
<1>2. \A r \in transactions \cup settlements :
        /\ r.serial \in DOMAIN admission.sources
        /\ admission.sources[r.serial] = BusinessDigest(r)
  BY DEF InStep, StatesInStep
<1>3. \A r \in Observed(b) : Fielded(r)
  BY BundleAssumption DEF Fielded
<1>4. ASSUME NEW r \in transactions'
      PROVE  /\ Fielded(r) /\ AtTransactionGrain(r)
             /\ admission'.sources[r.serial] = BusinessDigest(r)
  <2>1. \/ \E o \in Observed(b) : AtTransactionGrain(o) /\ r = LastLine(b, o.serial)
        \/ r \in transactions
    BY DEF Deliver, MergeTransactions
  <2>2. CASE r \in transactions
    BY <1>1, <1>2, <2>2, SourcesAfter DEF InStep, GrainsApart
  <2>3. ASSUME NEW o \in Observed(b), AtTransactionGrain(o), r = LastLine(b, o.serial)
        PROVE  /\ Fielded(r) /\ AtTransactionGrain(r)
               /\ admission'.sources[r.serial] = BusinessDigest(r)
    <3>1. r \in Observed(b) /\ r.serial = o.serial
      BY <2>3, LastLineIsObserved
    <3>2. AtTransactionGrain(r)
      BY <1>1, <2>3, <3>1, OneDigestPerIdentity
    <3>3. QED  BY <1>1, <1>3, <3>1, <3>2, SourcesAfter
  <2>4. QED  BY <2>1, <2>2, <2>3
<1>5. ASSUME NEW r \in settlements'
      PROVE  /\ Fielded(r) /\ AtSettlementGrain(r)
             /\ admission'.sources[r.serial] = BusinessDigest(r)
  <2>1. \/ \E o \in Observed(b) : AtSettlementGrain(o) /\ r = FirstLine(b, o.serial)
        \/ r \in settlements
    BY DEF Deliver, MergeSettlements
  <2>2. CASE r \in settlements
    BY <1>1, <1>2, <2>2, SourcesAfter DEF InStep, GrainsApart
  <2>3. ASSUME NEW o \in Observed(b), AtSettlementGrain(o), r = FirstLine(b, o.serial)
        PROVE  /\ Fielded(r) /\ AtSettlementGrain(r)
               /\ admission'.sources[r.serial] = BusinessDigest(r)
    <3>1. r \in Observed(b) /\ r.serial = o.serial
      BY <2>3, FirstLineIsObserved
    <3>2. AtSettlementGrain(r)
      BY <1>1, <2>3, <3>1, OneDigestPerIdentity DEF AtSettlementGrain
    <3>3. QED  BY <1>1, <1>3, <3>1, <3>2, SourcesAfter
  <2>4. QED  BY <2>1, <2>2, <2>3
<1>6. QED  BY <1>4, <1>5 DEF GrainsApart

\* The identities of the records are those that admission knows.
LEMMA DeliverKeepsDomain ==
  ASSUME InStep, NEW b \in Bundles, Deliver(b)
  PROVE  DOMAIN admission'.sources = {r.serial : r \in transactions' \cup settlements'}
<1>1. DOMAIN admission'.sources =
        DOMAIN admission.sources \cup {r.serial : r \in Observed(b)}
  BY SourcesAfter DEF Deliver, Reconciles
<1>2. DOMAIN admission.sources = {r.serial : r \in transactions \cup settlements}
  BY DEF InStep, StatesInStep
<1>3. ASSUME NEW r \in transactions' \cup settlements'
      PROVE  r.serial \in DOMAIN admission'.sources
  <2>1. \/ r \in transactions \cup settlements
        \/ \E o \in Observed(b) : r \in {LastLine(b, o.serial), FirstLine(b, o.serial)}
    BY DEF Deliver, MergeTransactions, MergeSettlements
  <2>2. QED  BY <1>1, <1>2, <2>1, LastLineIsObserved, FirstLineIsObserved
<1>4. ASSUME NEW r \in transactions \cup settlements
      PROVE  \E s \in transactions' \cup settlements' : s.serial = r.serial
  <2>1. CASE r \in settlements
    BY <2>1 DEF Deliver, MergeSettlements
  <2>2. CASE r \in transactions
    <3>1. CASE \E o \in Observed(b) : AtTransactionGrain(o) /\ o.serial = r.serial
      BY <3>1, LastLineIsObserved DEF Deliver, MergeTransactions
    <3>2. CASE ~ \E o \in Observed(b) : AtTransactionGrain(o) /\ o.serial = r.serial
      BY <2>2, <3>2 DEF Deliver, MergeTransactions
    <3>3. QED  BY <3>1, <3>2
  <2>3. QED  BY <2>1, <2>2
<1>5. ASSUME NEW o \in Observed(b)
      PROVE  \E s \in transactions' \cup settlements' : s.serial = o.serial
  <2>1. CASE AtTransactionGrain(o)
    BY <2>1, LastLineIsObserved DEF Deliver, MergeTransactions
  <2>2. CASE AtSettlementGrain(o)
    <3>1. CASE o.serial \in {r.serial : r \in settlements}
      BY <3>1 DEF Deliver, MergeSettlements
    <3>2. CASE o.serial \notin {r.serial : r \in settlements}
      BY <2>2, <3>2, FirstLineIsObserved DEF Deliver, MergeSettlements
    <3>3. QED  BY <3>1, <3>2
  <2>3. QED  BY <2>1, <2>2 DEF AtSettlementGrain
<1>6. QED  BY <1>1, <1>2, <1>3, <1>4, <1>5

\* One identity has one record.
LEMMA DeliverKeepsOneRecord ==
  ASSUME InStep, NEW b \in Bundles, Deliver(b),
         NEW r \in transactions' \cup settlements', NEW s \in transactions' \cup settlements',
         r.serial = s.serial
  PROVE  r = s
<1>1. BusinessDigest(r) = BusinessDigest(s) /\ Fielded(r) /\ Fielded(s)
  BY DeliverKeepsDigests DEF GrainsApart
<1>2. AtTransactionGrain(r) <=> AtTransactionGrain(s)
  BY <1>1, DigestDecides DEF Fielded
<1>3. \/ r \in transactions' /\ s \in transactions'
      \/ r \in settlements' /\ s \in settlements'
  BY <1>2, DeliverKeepsDigests DEF GrainsApart, AtSettlementGrain
<1>4. \A x, y \in transactions \cup settlements : x.serial = y.serial => x = y
  BY DEF InStep, StatesInStep
<1>5. CASE r \in transactions' /\ s \in transactions'
  <2> DEFINE new == {o.serial : o \in {o \in Observed(b) : AtTransactionGrain(o)}}
  <2>1. transactions' = {LastLine(b, i) : i \in new} \cup {x \in transactions : x.serial \notin new}
    BY DEF Deliver, MergeTransactions
  <2>2. \A i \in new : LastLine(b, i).serial = i
    BY LastLineIsObserved
  <2>3. QED  BY <1>4, <1>5, <2>1, <2>2
<1>6. CASE r \in settlements' /\ s \in settlements'
  <2> DEFINE known == {x.serial : x \in settlements}
             new == {o.serial : o \in {o \in Observed(b) : AtSettlementGrain(o)}} \ known
  <2>1. settlements' = settlements \cup {FirstLine(b, i) : i \in new}
    BY DEF Deliver, MergeSettlements
  <2>2. \A i \in new : FirstLine(b, i).serial = i
    BY FirstLineIsObserved
  <2>3. QED  BY <1>4, <1>6, <2>1, <2>2
<1>7. QED  BY <1>3, <1>5, <1>6

\* A delivery keeps the three states in step (prepare_financial_snapshot).
LEMMA InStepDeliver ==
  ASSUME InStep, NEW b \in Bundles, Deliver(b)
  PROVE  InStep'
<1>1. GrainsApart' /\ \A r \in transactions' \cup settlements' :
                        admission'.sources[r.serial] = BusinessDigest(r)
  BY DeliverKeepsDigests
<1>2. DOMAIN admission'.sources = {r.serial : r \in transactions' \cup settlements'}
  BY DeliverKeepsDomain
<1>3. \A r, s \in transactions' \cup settlements' : r.serial = s.serial => r = s
  BY DeliverKeepsOneRecord
<1>4. QED  BY <1>1, <1>2, <1>3 DEF InStep, StatesInStep

\* So does a refused one, which leaves them alone.
LEMMA InStepStutter ==
  ASSUME InStep, UNCHANGED vars
  PROVE  InStep'
BY DEF InStep, StatesInStep, GrainsApart, vars, states

\* The three states stay in step whatever is delivered, in whatever order,
\* and whatever is refused: prepare_financial_snapshot returns all or nothing
\* and admission never lets an identity change its content or its grain.
THEOREM StatesInStepHolds == Spec => []StatesInStep
<1>1. InStep /\ [Next]_vars => InStep'
  BY InStepDeliver, InStepStutter DEF Next, Refuse
<1>2. InStep => StatesInStep
  BY DEF InStep
<1>3. QED  BY <1>1, <1>2, InStepInit, PTL DEF Spec

\* A delivery keeps what admission knows and what the settlements hold.
LEMMA DeliverKeepsEvidence ==
  ASSUME NEW b \in Bundles, Deliver(b)
  PROVE  /\ \A i \in DOMAIN admission.sources :
              i \in DOMAIN admission'.sources /\ admission'.sources[i] = admission.sources[i]
         /\ \A v \in DOMAIN admission.policies :
              v \in DOMAIN admission'.policies /\ admission'.policies[v] = admission.policies[v]
         /\ settlements \subseteq settlements'
         /\ duplicates \subseteq duplicates'
<1>1. Admits(admission, b) /\ admission' = Admitted(admission, b)
  BY DEF Deliver, Reconciles
<1>2. \A i \in DOMAIN admission.sources :
        i \in DOMAIN admission'.sources /\ admission'.sources[i] = admission.sources[i]
  BY <1>1, SourcesAfter
<1>3. admission'.policies = Put(admission.policies, b.policy.version, b.policy)
  BY <1>1 DEF Admitted
<1>4. \A v \in DOMAIN admission.policies :
        v \in DOMAIN admission'.policies /\ admission'.policies[v] = admission.policies[v]
  BY <1>1, <1>3 DEF Put, Admits, PolicyReused
<1>5. settlements \subseteq settlements' /\ duplicates \subseteq duplicates'
  BY DEF Deliver, MergeSettlements, MergeDuplicates
<1> QED
  BY <1>2, <1>4, <1>5

\* No step loses or changes what was accepted, nor forgives a bank entry that
\* was seen twice.
THEOREM EvidenceKeptHolds == Spec => EvidenceKept
<1> DEFINE Kept ==
      /\ \A i \in DOMAIN admission.sources :
           i \in DOMAIN admission'.sources /\ admission'.sources[i] = admission.sources[i]
      /\ \A v \in DOMAIN admission.policies :
           v \in DOMAIN admission'.policies /\ admission'.policies[v] = admission.policies[v]
      /\ settlements \subseteq settlements'
      /\ duplicates \subseteq duplicates'
<1>1. ASSUME NEW b \in Bundles, Deliver(b)  PROVE Kept
  BY <1>1, DeliverKeepsEvidence
<1>2. UNCHANGED vars => Kept
  BY DEF vars, states
<1>3. [Next]_vars => [Kept]_vars
  BY <1>1, <1>2 DEF Next, Refuse
<1>4. QED  BY <1>3, PTL DEF Spec, EvidenceKept

-----------------------------------------------------------------------------
(* The transaction rules see the business content of a record only.        *)

\* The business contents of a set of records.
Contents(records) == {BusinessDigest(r) : r \in records}

\* A transaction record with all its facts.
Factual(r) ==
  /\ {"family", "serial", "transport"} \cup TransactionFields \subseteq DOMAIN r
  /\ IsEvent(r) => {"amount", "reference"} \subseteq DOMAIN r
  /\ IsJournal(r) => "postings" \in DOMAIN r

\* Records that have one identity each.
OneEach(records) ==
  /\ \A r \in records : Factual(r)
  /\ \A r, s \in records : r.serial = s.serial => r = s

\* The content of a record has all its fields but the transport.
LEMMA ContentFields ==
  ASSUME NEW r, Factual(r)
  PROVE  LET d == BusinessDigest(r) IN
         /\ d.serial = r.serial /\ d.family = r.family
         /\ \A f \in TransactionFields : d[f] = r[f]
         /\ IsEvent(d) <=> IsEvent(r)
         /\ IsJournal(d) <=> IsJournal(r)
         /\ IsEvent(r) => d.amount = r.amount /\ d.reference = r.reference
         /\ IsJournal(r) => d.postings = r.postings
         /\ TransactionKey(d) = TransactionKey(r)
<1> DEFINE d == BusinessDigest(r)
<1>1. /\ DOMAIN d = DOMAIN r
      /\ \A f \in DOMAIN r : f # "transport" => d[f] = r[f]
  BY DEF BusinessDigest
<1>2. /\ d.serial = r.serial /\ d.family = r.family
      /\ \A f \in TransactionFields : d[f] = r[f]
  BY <1>1 DEF Factual, TransactionFields
<1>3. /\ IsEvent(d) <=> IsEvent(r)
      /\ IsJournal(d) <=> IsJournal(r)
  BY <1>2 DEF IsEvent, IsJournal
<1>4. /\ IsEvent(r) => d.amount = r.amount /\ d.reference = r.reference
      /\ IsJournal(r) => d.postings = r.postings
  BY <1>1 DEF Factual
<1>5. TransactionKey(d) = TransactionKey(r)
  BY <1>2 DEF TransactionKey, TransactionFields
<1> QED
  BY <1>2, <1>3, <1>4, <1>5

\* A journal moves what its content moves, and its roles are those of its content.
LEMMA ContentMovement ==
  ASSUME NEW j, Factual(j), IsJournal(j), NEW policy
  PROVE  /\ Movement(BusinessDigest(j)) = Movement(j)
         /\ RoleValid(policy, BusinessDigest(j)) <=> RoleValid(policy, j)
<1> DEFINE d == BusinessDigest(j)
<1>1. d.postings = j.postings /\ d.class = j.class
  BY ContentFields DEF TransactionFields
<1>2. ClearingPostings(d) = ClearingPostings(j)
  BY <1>1 DEF ClearingPostings
<1>3. Movement(d) = Movement(j)
  BY <1>2 DEF Movement
<1>4. RoleValid(policy, d) <=> RoleValid(policy, j)
  BY <1>1, <1>2 DEF RoleValid
<1> QED
  BY <1>3, <1>4

\* The parts of a set of records have the contents of the parts.
LEMMA ContentParts ==
  ASSUME NEW R, OneEach(R)
  PROVE  /\ Events(Contents(R)) = Contents(Events(R))
         /\ Journals(Contents(R)) = Contents(Journals(R))
         /\ Captures(Contents(R)) = Contents(Captures(R))
         /\ TransactionKeys(Contents(R)) = TransactionKeys(R)
         /\ \A key : Rows(Contents(R), key) = Contents(Rows(R, key))
         /\ {d.serial : d \in Contents(R)} = {r.serial : r \in R}
<1>1. \A r \in R :
        /\ BusinessDigest(r).serial = r.serial
        /\ IsEvent(BusinessDigest(r)) <=> IsEvent(r)
        /\ IsJournal(BusinessDigest(r)) <=> IsJournal(r)
        /\ BusinessDigest(r).class = r.class
        /\ TransactionKey(BusinessDigest(r)) = TransactionKey(r)
  BY ContentFields DEF OneEach, TransactionFields
<1>2. /\ Events(Contents(R)) = Contents(Events(R))
      /\ Journals(Contents(R)) = Contents(Journals(R))
  BY <1>1 DEF Events, Journals, Contents
<1>3. Captures(Contents(R)) = Contents(Captures(R))
  BY <1>1 DEF Captures, Events, Contents
<1>4. TransactionKeys(Contents(R)) = TransactionKeys(R)
  BY <1>1 DEF TransactionKeys, Contents
<1>5. ASSUME NEW key
      PROVE  Rows(Contents(R), key) = Contents(Rows(R, key))
  BY <1>1 DEF Rows, Contents
<1>6. {d.serial : d \in Contents(R)} = {r.serial : r \in R}
  BY <1>1 DEF Contents
<1> QED
  BY <1>2, <1>3, <1>4, <1>5, <1>6

\* The record of an identity and its content.
LEMMA ContentOf ==
  ASSUME NEW R, OneEach(R), NEW r \in R
  PROVE  /\ (CHOOSE x \in R : x.serial = r.serial) = r
         /\ (CHOOSE x \in Contents(R) : x.serial = r.serial) = BusinessDigest(r)
<1>1. (CHOOSE x \in R : x.serial = r.serial) = r
  BY DEF OneEach
<1>2. \A s \in R : BusinessDigest(s).serial = s.serial
  BY ContentFields DEF OneEach
<1>3. BusinessDigest(r) \in Contents(R)
  BY DEF Contents
<1>4. \A x \in Contents(R) : x.serial = r.serial => x = BusinessDigest(r)
  BY <1>2 DEF Contents, OneEach
<1> QED
  BY <1>1, <1>2, <1>3, <1>4

\* A part of such records is of the same kind.
LEMMA OneEachPart ==
  ASSUME NEW R, OneEach(R), NEW Q, Q \subseteq R
  PROVE  OneEach(Q)
BY DEF OneEach

\* The amounts of events, and what a journal moves, by identity.
LEMMA ContentAmounts ==
  ASSUME NEW R, OneEach(R), \A r \in R : IsEvent(r)
  PROVE  Amounts(Contents(R)) = Amounts(R)
<1> DEFINE S == {r.serial : r \in R}
<1>1. {d.serial : d \in Contents(R)} = S
  BY ContentParts
<1>2. ASSUME NEW i \in S
      PROVE  (CHOOSE d \in Contents(R) : d.serial = i).amount
               = (CHOOSE r \in R : r.serial = i).amount
  <2>1. PICK r \in R : r.serial = i
    OBVIOUS
  <2>2. BusinessDigest(r).amount = r.amount
    BY ContentFields DEF OneEach
  <2>3. /\ (CHOOSE x \in R : x.serial = r.serial) = r
        /\ (CHOOSE x \in Contents(R) : x.serial = r.serial) = BusinessDigest(r)
    BY ContentOf
  <2>4. /\ (CHOOSE x \in R : x.serial = i) = r
        /\ (CHOOSE x \in Contents(R) : x.serial = i) = BusinessDigest(r)
    BY <2>1, <2>3
  <2> QED
    BY <2>2, <2>4
<1> HIDE DEF S
<1>3. Amounts(Contents(R)) = [i \in S |-> (CHOOSE d \in Contents(R) : d.serial = i).amount]
  BY <1>1 DEF Amounts
<1>4. Amounts(R) = [i \in S |-> (CHOOSE r \in R : r.serial = i).amount]
  BY DEF Amounts, S
<1> QED
  BY <1>2, <1>3, <1>4

\* An event applies to a capture when its content applies to the capture's.
LEMMA ContentApplies ==
  ASSUME NEW e, NEW c, Factual(e), Factual(c), IsEvent(e), IsEvent(c)
  PROVE  AppliesTo(BusinessDigest(e), BusinessDigest(c)) <=> AppliesTo(e, c)
<1>1. /\ BusinessDigest(e).reference = e.reference
      /\ BusinessDigest(c).serial = c.serial
      /\ \A f \in TransactionFields :
           BusinessDigest(e)[f] = e[f] /\ BusinessDigest(c)[f] = c[f]
  BY ContentFields
<1> QED
  BY <1>1 DEF AppliesTo, TransactionFields

\* References resolve, and captures are exhausted, by the contents alone.
LEMMA ContentReferences ==
  ASSUME NEW R, OneEach(R)
  PROVE  /\ \A c \in Captures(R) :
              /\ Applications(Contents(R), BusinessDigest(c)) = Contents(Applications(R, c))
              /\ Amounts(Applications(Contents(R), BusinessDigest(c)))
                   = Amounts(Applications(R, c))
              /\ OverApplied(Contents(R), BusinessDigest(c)) <=> OverApplied(R, c)
         /\ \A e \in Events(R) :
              Unresolved(Contents(R), BusinessDigest(e)) <=> Unresolved(R, e)
<1>1. /\ Events(Contents(R)) = Contents(Events(R))
      /\ Captures(Contents(R)) = Contents(Captures(R))
  BY ContentParts
<1>2. \A e \in Events(R) : Factual(e) /\ IsEvent(e) /\ e \in R
  BY DEF Events, OneEach
<1>3. Captures(R) \subseteq Events(R)
  BY DEF Captures
<1>4. ASSUME NEW c \in Captures(R)
      PROVE  Applications(Contents(R), BusinessDigest(c)) = Contents(Applications(R, c))
  <2>1. \A e \in Events(R) :
          AppliesTo(BusinessDigest(e), BusinessDigest(c)) <=> AppliesTo(e, c)
    BY <1>2, <1>3, ContentApplies
  <2> QED
    BY <1>1, <2>1 DEF Applications, Contents
<1>5. ASSUME NEW c \in Captures(R)
      PROVE  Amounts(Applications(Contents(R), BusinessDigest(c)))
               = Amounts(Applications(R, c))
  <2>1. Applications(R, c) \subseteq R /\ \A e \in Applications(R, c) : IsEvent(e)
    BY DEF Applications, Events
  <2>2. OneEach(Applications(R, c))
    BY <2>1, OneEachPart
  <2> QED
    BY <1>4, <2>1, <2>2, ContentAmounts
<1>6. ASSUME NEW c \in Captures(R)
      PROVE  OverApplied(Contents(R), BusinessDigest(c)) <=> OverApplied(R, c)
  <2>1. BusinessDigest(c).amount = c.amount
    BY <1>2, <1>3, ContentFields
  <2> QED
    BY <1>5, <2>1 DEF OverApplied
<1>7. ASSUME NEW e \in Events(R)
      PROVE  Unresolved(Contents(R), BusinessDigest(e)) <=> Unresolved(R, e)
  <2>1. BusinessDigest(e).reference = e.reference /\ BusinessDigest(e).class = e.class
    BY <1>2, ContentFields DEF TransactionFields
  <2>2. \A c \in Captures(R) :
          AppliesTo(BusinessDigest(e), BusinessDigest(c)) <=> AppliesTo(e, c)
    BY <1>2, <1>3, ContentApplies
  <2>3. (\A c \in Captures(Contents(R)) : ~AppliesTo(BusinessDigest(e), c))
          <=> (\A c \in Captures(R) : ~AppliesTo(e, c))
    BY <1>1, <2>2 DEF Contents
  <2> QED
    BY <2>1, <2>3 DEF Unresolved
<1> QED
  BY <1>4, <1>5, <1>6, <1>7

\* The sums of a key and the reasons of its candidate.
LEMMA ContentKey ==
  ASSUME NEW R, OneEach(R), NEW key, NEW policy
  PROVE  /\ ProcessorAmounts(Contents(R), key) = ProcessorAmounts(R, key)
         /\ LedgerMovements(Contents(R), key) = LedgerMovements(R, key)
         /\ ReferenceReasons(Contents(R), key) = ReferenceReasons(R, key)
         /\ TransactionReasons(policy, Contents(R), key) = TransactionReasons(policy, R, key)
<1> DEFINE Q == Rows(R, key)
           E == Events(Q)
           J == Journals(Q)
<1>1. Q \subseteq R /\ E \subseteq Q /\ J \subseteq Q
  BY DEF Rows, Events, Journals
<1>2. OneEach(Q) /\ OneEach(E) /\ OneEach(J)
  BY <1>1, OneEachPart
<1>3. /\ Rows(Contents(R), key) = Contents(Q)
      /\ Events(Contents(Q)) = Contents(E)
      /\ Journals(Contents(Q)) = Contents(J)
  BY <1>2, ContentParts
<1>4. /\ {d.serial : d \in Contents(E)} = {r.serial : r \in E}
      /\ {d.serial : d \in Contents(J)} = {r.serial : r \in J}
  BY <1>2, ContentParts
<1>5. \A e \in E : IsEvent(e) /\ e \in Events(R)
  BY <1>1 DEF Events
<1>6. \A j \in J : IsJournal(j) /\ Factual(j)
  BY <1>2 DEF Journals, OneEach
<1> HIDE DEF Q, E, J
<1>7. ProcessorAmounts(Contents(R), key) = ProcessorAmounts(R, key)
  <2>1. Amounts(Contents(E)) = Amounts(E)
    BY <1>2, <1>5, ContentAmounts
  <2>2. ProcessorAmounts(Contents(R), key) =
          [i \in {d.serial : d \in Contents(E)} |->
             EventSign(key.class) * Amounts(Contents(E))[i]]
    BY <1>3 DEF ProcessorAmounts
  <2>3. ProcessorAmounts(R, key) =
          [i \in {r.serial : r \in E} |-> EventSign(key.class) * Amounts(E)[i]]
    BY DEF ProcessorAmounts, E, Q
  <2> QED
    BY <1>4, <2>1, <2>2, <2>3
<1>8. LedgerMovements(Contents(R), key) = LedgerMovements(R, key)
  <2> DEFINE S == {r.serial : r \in J}
  <2>1. ASSUME NEW i \in S
        PROVE  Movement(CHOOSE d \in Contents(J) : d.serial = i)
                 = Movement(CHOOSE r \in J : r.serial = i)
    <3>1. PICK j \in J : j.serial = i
      OBVIOUS
    <3>2. /\ (CHOOSE x \in J : x.serial = j.serial) = j
          /\ (CHOOSE x \in Contents(J) : x.serial = j.serial) = BusinessDigest(j)
      BY <1>2, ContentOf
    <3>3. /\ (CHOOSE x \in J : x.serial = i) = j
          /\ (CHOOSE x \in Contents(J) : x.serial = i) = BusinessDigest(j)
      BY <3>1, <3>2
    <3>4. Movement(BusinessDigest(j)) = Movement(j)
      BY <1>6, ContentMovement
    <3> QED
      BY <3>3, <3>4
  <2> HIDE DEF S
  <2>2. LedgerMovements(Contents(R), key) =
          [i \in S |-> Movement(CHOOSE d \in Contents(J) : d.serial = i)]
    BY <1>3, <1>4 DEF LedgerMovements, S
  <2>3. LedgerMovements(R, key) = [i \in S |-> Movement(CHOOSE r \in J : r.serial = i)]
    BY DEF LedgerMovements, S, J, Q
  <2> QED
    BY <2>1, <2>2, <2>3
<1>9. ReferenceReasons(Contents(R), key) = ReferenceReasons(R, key)
  <2>1. Captures(Contents(R)) = Contents(Captures(R))
    BY ContentParts
  <2>2. \A e \in E : Unresolved(Contents(R), BusinessDigest(e)) <=> Unresolved(R, e)
    BY <1>5, ContentReferences
  <2>3. \A e \in E, c \in Captures(R) :
          AppliesTo(BusinessDigest(e), BusinessDigest(c)) <=> AppliesTo(e, c)
    BY <1>5, ContentApplies DEF OneEach, Captures, Events
  <2>4. \A c \in Captures(R) :
          OverApplied(Contents(R), BusinessDigest(c)) <=> OverApplied(R, c)
    BY ContentReferences
  <2>5. Events(Rows(Contents(R), key)) = Contents(E) /\ Events(Rows(R, key)) = E
    BY <1>3 DEF E, Q
  <2>6. (\E e \in Contents(E) : Unresolved(Contents(R), e)) <=> \E e \in E : Unresolved(R, e)
    BY <2>2 DEF Contents
  <2>7. (\E e \in Contents(E) : \E c \in Captures(Contents(R)) :
           AppliesTo(e, c) /\ OverApplied(Contents(R), c))
        <=> \E e \in E : \E c \in Captures(R) : AppliesTo(e, c) /\ OverApplied(R, c)
    <3>1. ASSUME NEW e \in E, NEW c \in Captures(R), AppliesTo(e, c), OverApplied(R, c)
          PROVE  /\ BusinessDigest(e) \in Contents(E)
                 /\ BusinessDigest(c) \in Captures(Contents(R))
                 /\ AppliesTo(BusinessDigest(e), BusinessDigest(c))
                 /\ OverApplied(Contents(R), BusinessDigest(c))
      BY <2>1, <2>3, <2>4, <3>1 DEF Contents
    <3>2. ASSUME NEW d \in Contents(E), NEW k \in Captures(Contents(R)),
                 AppliesTo(d, k), OverApplied(Contents(R), k)
          PROVE  \E e \in E : \E c \in Captures(R) : AppliesTo(e, c) /\ OverApplied(R, c)
      <4>1. PICK e \in E : d = BusinessDigest(e)
        BY DEF Contents
      <4>2. PICK c \in Captures(R) : k = BusinessDigest(c)
        BY <2>1 DEF Contents
      <4> QED
        BY <2>3, <2>4, <3>2, <4>1, <4>2
    <3> QED
      BY <3>1, <3>2
  <2> QED
    BY <2>5, <2>6, <2>7 DEF ReferenceReasons
<1>10. TransactionReasons(policy, Contents(R), key) = TransactionReasons(policy, R, key)
  <2>1. (\E j \in Contents(J) : ~RoleValid(policy, j)) <=> \E j \in J : ~RoleValid(policy, j)
    BY <1>6, ContentMovement DEF Contents
  <2>2. (Contents(E) = {} <=> E = {}) /\ (Contents(J) = {} <=> J = {})
    BY DEF Contents
  <2>3. /\ Events(Rows(Contents(R), key)) = Contents(E) /\ Events(Rows(R, key)) = E
        /\ Journals(Rows(Contents(R), key)) = Contents(J) /\ Journals(Rows(R, key)) = J
    BY <1>3 DEF E, J, Q
  <2> QED
    BY <1>9, <2>1, <2>2, <2>3 DEF TransactionReasons
<1> QED
  BY <1>7, <1>8, <1>9, <1>10

\* Whether the sums fit, and what the candidates are, is decided by the
\* business contents of the records.
LEMMA ContentDecides ==
  ASSUME NEW R, OneEach(R)
  PROVE  /\ TransactionsFit(Contents(R)) <=> TransactionsFit(R)
         /\ \A policy :
              TransactionCandidates(policy, Contents(R)) = TransactionCandidates(policy, R)
<1>1. TransactionKeys(Contents(R)) = TransactionKeys(R)
  BY ContentParts
<1>2. TransactionsFit(Contents(R)) <=> TransactionsFit(R)
  <2>1. Captures(Contents(R)) = Contents(Captures(R))
    BY ContentParts
  <2>2. (\A c \in Captures(Contents(R)) :
           Total(Amounts(Applications(Contents(R), c))) \in Minor)
        <=> \A c \in Captures(R) : Total(Amounts(Applications(R, c))) \in Minor
    BY <2>1, ContentReferences DEF Contents
  <2>3. \A key : /\ ProcessorAmounts(Contents(R), key) = ProcessorAmounts(R, key)
                 /\ LedgerMovements(Contents(R), key) = LedgerMovements(R, key)
    BY ContentKey
  <2> QED
    BY <1>1, <2>2, <2>3 DEF TransactionsFit
<1>3. ASSUME NEW policy
      PROVE  TransactionCandidates(policy, Contents(R)) = TransactionCandidates(policy, R)
  <2>1. ASSUME NEW key
        PROVE  TransactionCandidate(policy, Contents(R), key)
                 = TransactionCandidate(policy, R, key)
    <3>1. /\ ProcessorAmounts(Contents(R), key) = ProcessorAmounts(R, key)
          /\ LedgerMovements(Contents(R), key) = LedgerMovements(R, key)
          /\ TransactionReasons(policy, Contents(R), key) = TransactionReasons(policy, R, key)
      BY ContentKey
    <3>2. {d.serial : d \in Rows(Contents(R), key)} = {r.serial : r \in Rows(R, key)}
      <4>1. OneEach(Rows(R, key))
        BY OneEachPart DEF Rows
      <4> QED
        BY <4>1, ContentParts
    <3> QED
      BY <3>1, <3>2 DEF TransactionCandidate
  <2> QED
    BY <1>1, <2>1 DEF TransactionCandidates
<1> QED
  BY <1>2, <1>3

-----------------------------------------------------------------------------
(* What makes an accepted bundle acceptable again.                         *)

\* The checks of a bundle by itself.
Sound(b) ==
  /\ \A r \in Observed(b) : IsJournal(r) => Balanced(r)
  /\ ~CurrencyConflict(b) /\ ~SettlementNotUnique(b) /\ ~BankReferenceAmbiguous(b)

\* The states remember a bundle: its policy, its run, every record of it and
\* the bank entries it held twice.
Remembered(b) ==
  /\ b.policy.version \in DOMAIN admission.policies
  /\ admission.policies[b.policy.version] = b.policy
  /\ b.run \in DOMAIN admission.runs /\ admission.runs[b.run] = b
  /\ \A r \in Observed(b) :
       r.serial \in DOMAIN admission.sources
         /\ admission.sources[r.serial] = BusinessDigest(r)
  /\ CurrentDuplicates(b) \subseteq duplicates

\* Every accepted bundle is remembered, the states pass the checks of a
\* reconciliation, and the last report is the report on them.
ReplayInv ==
  /\ InStep
  /\ \A r \in transactions : Factual(r)
  /\ \A b \in accepted : b \in Bundles /\ Sound(b) /\ Remembered(b)
  /\ accepted # {} =>
       /\ TransactionsFit(transactions)
       /\ TargetsUnique(settlements) /\ SettlementsFit(settlements)
       /\ report = ReportOn(report.policy, transactions, settlements, duplicates)

\* A line at the transaction grain has its facts.
LEMMA LineIsFactual ==
  ASSUME NEW b \in Bundles, NEW r \in Observed(b), AtTransactionGrain(r)
  PROVE  Factual(r)
BY BundleAssumption DEF Factual

\* Nothing is accepted at the start.
LEMMA ReplayInit == Init => ReplayInv
BY InStepInit DEF Init, ReplayInv

\* A delivery remembers its bundle and forgets none.
LEMMA ReplayDeliver ==
  ASSUME ReplayInv, NEW b \in Bundles, Deliver(b)
  PROVE  ReplayInv'
<1>1. Admits(admission, b) /\ admission' = Admitted(admission, b)
  BY DEF Deliver, Reconciles
<1>2. InStep'
  BY InStepDeliver DEF ReplayInv
<1>3. ASSUME NEW r \in transactions'
      PROVE  Factual(r)
  <2>1. \/ r \in transactions
        \/ \E o \in Observed(b) : AtTransactionGrain(o) /\ r = LastLine(b, o.serial)
    BY DEF Deliver, MergeTransactions
  <2>2. ASSUME NEW o \in Observed(b), AtTransactionGrain(o), r = LastLine(b, o.serial)
        PROVE  Factual(r)
    <3>1. r \in Observed(b) /\ r.serial = o.serial
      BY <2>2, LastLineIsObserved
    <3>2. AtTransactionGrain(r)
      BY <1>1, <2>2, <3>1, OneDigestPerIdentity
    <3> QED
      BY <3>1, <3>2, LineIsFactual
  <2> QED
    BY <2>1, <2>2 DEF ReplayInv
<1>4. Sound(b)
  BY <1>1 DEF Admits, Sound
<1>5. /\ admission'.policies = Put(admission.policies, b.policy.version, b.policy)
      /\ admission'.runs = Put(admission.runs, b.run, b)
  BY <1>1 DEF Admitted
<1>6. Remembered(b)'
  <2>1. /\ b.policy.version \in DOMAIN admission'.policies
        /\ admission'.policies[b.policy.version] = b.policy
        /\ b.run \in DOMAIN admission'.runs /\ admission'.runs[b.run] = b
    BY <1>5 DEF Put
  <2>2. \A r \in Observed(b) :
          r.serial \in DOMAIN admission'.sources
            /\ admission'.sources[r.serial] = BusinessDigest(r)
    BY <1>1, SourcesAfter
  <2>3. CurrentDuplicates(b) \subseteq duplicates'
    BY DEF Deliver, MergeDuplicates
  <2> QED
    BY <2>1, <2>2, <2>3 DEF Remembered
<1>7. ASSUME NEW a \in accepted
      PROVE  Remembered(a)'
  <2>1. Remembered(a)
    BY DEF ReplayInv
  <2>2. a.run \in DOMAIN admission'.runs /\ admission'.runs[a.run] = a
    BY <1>1, <1>5, <2>1 DEF Remembered, Put, Admits, RunReused
  <2> QED
    BY <2>1, <2>2, DeliverKeepsEvidence DEF Remembered
<1>8. accepted' = accepted \cup {b}
  BY DEF Deliver
<1>9. \A a \in accepted' : a \in Bundles /\ Sound(a) /\ Remembered(a)'
  BY <1>4, <1>6, <1>7, <1>8 DEF ReplayInv
<1>10. /\ TransactionsFit(transactions')
       /\ TargetsUnique(settlements') /\ SettlementsFit(settlements')
  BY DEF Deliver, Reconciles
<1>11. report' = ReportOn(report'.policy, transactions', settlements', duplicates')
  BY DEF Deliver, ReportOn
<1> QED
  BY <1>2, <1>3, <1>9, <1>10, <1>11 DEF ReplayInv

\* A refusal changes nothing that ReplayInv speaks of.
LEMMA ReplayStutter ==
  ASSUME ReplayInv, UNCHANGED vars
  PROVE  ReplayInv'
BY InStepStutter DEF ReplayInv, Remembered, vars, states

\* Delivered again, a bundle replaces transaction records by others of the
\* same content, and changes nothing else.
LEMMA ReplayMerges ==
  ASSUME ReplayInv, NEW b \in accepted
  PROVE  /\ Contents(MergeTransactions(transactions, b)) = Contents(transactions)
         /\ OneEach(MergeTransactions(transactions, b)) /\ OneEach(transactions)
         /\ MergeSettlements(settlements, b) = settlements
         /\ MergeDuplicates(duplicates, b) = duplicates
<1> DEFINE again == MergeTransactions(transactions, b)
           new == {o.serial : o \in {o \in Observed(b) : AtTransactionGrain(o)}}
<1>1. b \in Bundles /\ Remembered(b)
  BY DEF ReplayInv
<1>2. again = {LastLine(b, i) : i \in new} \cup {r \in transactions : r.serial \notin new}
  BY DEF MergeTransactions
<1>3. /\ DOMAIN admission.sources = {r.serial : r \in transactions \cup settlements}
      /\ \A r \in transactions \cup settlements :
           admission.sources[r.serial] = BusinessDigest(r)
      /\ \A r, s \in transactions \cup settlements : r.serial = s.serial => r = s
      /\ \A r \in transactions : Fielded(r) /\ AtTransactionGrain(r) /\ Factual(r)
      /\ \A r \in settlements : Fielded(r) /\ AtSettlementGrain(r)
  BY DEF ReplayInv, InStep, StatesInStep, GrainsApart
<1>4. ASSUME NEW o \in Observed(b)
      PROVE  \E r \in transactions \cup settlements :
               /\ r.serial = o.serial /\ BusinessDigest(r) = BusinessDigest(o)
               /\ AtTransactionGrain(r) <=> AtTransactionGrain(o)
  <2>1. PICK r \in transactions \cup settlements : r.serial = o.serial
    BY <1>1, <1>3 DEF Remembered
  <2>2. BusinessDigest(r) = BusinessDigest(o)
    BY <1>1, <1>3, <2>1 DEF Remembered
  <2>3. AtTransactionGrain(r) <=> AtTransactionGrain(o)
    BY <1>1, <1>3, <2>2, BundleAssumption, DigestDecides DEF Fielded
  <2> QED
    BY <2>1, <2>2, <2>3
<1>5. ASSUME NEW i \in new
      PROVE  \E r \in transactions :
               /\ r.serial = i /\ LastLine(b, i).serial = i
               /\ BusinessDigest(LastLine(b, i)) = BusinessDigest(r)
               /\ Factual(LastLine(b, i))
  <2>1. PICK o \in Observed(b) : AtTransactionGrain(o) /\ o.serial = i
    OBVIOUS
  <2>2. LastLine(b, i) \in Observed(b) /\ LastLine(b, i).serial = i
    BY <1>1, <2>1, LastLineIsObserved
  <2>3. PICK r \in transactions \cup settlements :
          /\ r.serial = o.serial /\ BusinessDigest(r) = BusinessDigest(o)
          /\ AtTransactionGrain(r) <=> AtTransactionGrain(o)
    BY <1>4
  <2>4. r \in transactions
    BY <1>3, <2>1, <2>3 DEF AtSettlementGrain
  <2>5. BusinessDigest(LastLine(b, i)) = BusinessDigest(r)
    BY <1>1, <1>3, <2>1, <2>2, <2>3 DEF Remembered
  <2>6. AtTransactionGrain(LastLine(b, i))
    <3>1. PICK q \in transactions \cup settlements :
            /\ q.serial = i
            /\ AtTransactionGrain(q) <=> AtTransactionGrain(LastLine(b, i))
      BY <1>4, <2>2
    <3>2. q = r
      BY <1>3, <2>1, <2>3, <3>1
    <3> QED
      BY <1>3, <2>4, <3>1, <3>2
  <2> QED
    BY <1>1, <2>1, <2>2, <2>3, <2>4, <2>5, <2>6, LineIsFactual
<1>6. OneEach(transactions)
  BY <1>3 DEF OneEach
<1> HIDE DEF new, again
<1>7. Contents(again) = Contents(transactions)
  <2>1. ASSUME NEW x \in again
        PROVE  \E r \in transactions : BusinessDigest(x) = BusinessDigest(r)
    BY <1>2, <1>5
  <2>2. ASSUME NEW r \in transactions
        PROVE  \E x \in again : BusinessDigest(x) = BusinessDigest(r)
    <3>1. CASE r.serial \notin new
      BY <1>2, <3>1
    <3>2. CASE r.serial \in new
      <4>1. LastLine(b, r.serial) \in again
        BY <1>2, <3>2
      <4>2. PICK s \in transactions :
              s.serial = r.serial /\ BusinessDigest(LastLine(b, r.serial)) = BusinessDigest(s)
        BY <1>5, <3>2
      <4>3. s = r
        BY <1>3, <4>2
      <4> QED
        BY <4>1, <4>2, <4>3
    <3> QED
      BY <3>1, <3>2
  <2> QED
    BY <2>1, <2>2 DEF Contents
<1>8. OneEach(again)
  <2>1. \A x \in again : Factual(x)
    BY <1>2, <1>3, <1>5
  <2>2. \A x, y \in again : x.serial = y.serial => x = y
    BY <1>2, <1>3, <1>5
  <2> QED
    BY <2>1, <2>2 DEF OneEach
<1>9. MergeSettlements(settlements, b) = settlements
  <2>1. ASSUME NEW o \in Observed(b), AtSettlementGrain(o)
        PROVE  o.serial \in {r.serial : r \in settlements}
    BY <1>3, <1>4, <2>1 DEF AtSettlementGrain
  <2> QED
    BY <2>1 DEF MergeSettlements
<1>10. MergeDuplicates(duplicates, b) = duplicates
  BY <1>1 DEF MergeDuplicates, Remembered
<1> QED
  BY <1>6, <1>7, <1>8, <1>9, <1>10 DEF again

\* A bundle that was accepted passes every check again, and under the same
\* policy the report is the one that stands.
LEMMA ReplayAccepted ==
  ASSUME ReplayInv
  PROVE  ReplayChangesNothing
<1> SUFFICES ASSUME NEW b \in accepted
             PROVE  LET again == ReportOn(b.policy, MergeTransactions(transactions, b),
                                    MergeSettlements(settlements, b),
                                    MergeDuplicates(duplicates, b))
                    IN /\ Reconciles(b)
                       /\ b.policy = report.policy =>
                            /\ again.transactions = report.transactions
                            /\ again.settlements = report.settlements
  BY DEF ReplayChangesNothing
<1> DEFINE T == MergeTransactions(transactions, b)
           again == ReportOn(b.policy, T, MergeSettlements(settlements, b),
                             MergeDuplicates(duplicates, b))
<1>1. /\ b \in Bundles /\ Sound(b) /\ Remembered(b)
      /\ TransactionsFit(transactions)
      /\ TargetsUnique(settlements) /\ SettlementsFit(settlements)
      /\ report = ReportOn(report.policy, transactions, settlements, duplicates)
  BY DEF ReplayInv
<1>2. /\ Contents(T) = Contents(transactions)
      /\ OneEach(T) /\ OneEach(transactions)
      /\ MergeSettlements(settlements, b) = settlements
      /\ MergeDuplicates(duplicates, b) = duplicates
  BY ReplayMerges
<1> HIDE DEF T
<1>3. /\ TransactionsFit(T)
      /\ \A policy : TransactionCandidates(policy, T) = TransactionCandidates(policy, transactions)
  BY <1>1, <1>2, ContentDecides
<1>4. Admits(admission, b)
  <2>1. ~PolicyReused(admission, b) /\ ~RunReused(admission, b)
    BY <1>1 DEF Remembered, PolicyReused, RunReused
  <2>2. ~IdentityConflict(admission, b)
    BY <1>1 DEF Remembered, IdentityConflict
  <2> QED
    BY <1>1, <2>1, <2>2 DEF Admits, Sound
<1>5. Reconciles(b)
  BY <1>1, <1>2, <1>3, <1>4 DEF Reconciles, T
<1>6. ASSUME b.policy = report.policy
      PROVE  /\ again.transactions = report.transactions
             /\ again.settlements = report.settlements
  <2>1. /\ again.transactions = TransactionCandidates(b.policy, T)
        /\ again.settlements = SettlementCandidates(b.policy, settlements, duplicates)
    BY <1>2 DEF ReportOn
  <2>2. /\ report.transactions = TransactionCandidates(report.policy, transactions)
        /\ report.settlements = SettlementCandidates(report.policy, settlements, duplicates)
    BY <1>1 DEF ReportOn
  <2> QED
    BY <1>3, <1>6, <2>1, <2>2
<1> QED
  BY <1>5, <1>6 DEF T

\* An accepted bundle can be delivered again at any later time, after any
\* other bundles: it is accepted, and under the policy of the last report no
\* candidate changes (admit_bundle, _transaction_records, _settlement_records).
THEOREM ReplayChangesNothingHolds == Spec => []ReplayChangesNothing
<1>1. ReplayInv /\ [Next]_vars => ReplayInv'
  BY ReplayDeliver, ReplayStutter DEF Next, Refuse
<1>2. ReplayInv => ReplayChangesNothing
  BY ReplayAccepted
<1> QED
  BY <1>1, <1>2, ReplayInit, PTL DEF Spec
-----------------------------------------------------------------------------
(* What the states hold is the evidence.                                   *)

\* The states hold finitely many records, each a line of an accepted bundle,
\* and a duplicate is one of an accepted bundle.
Traced ==
  /\ IsFiniteSet(transactions) /\ IsFiniteSet(settlements)
  /\ \A r \in transactions \cup settlements : \E b \in accepted : r \in Observed(b)
  /\ \A i \in duplicates : \E b \in accepted : i \in CurrentDuplicates(b)

\* The policy of the report is that of an accepted bundle.
Reported ==
  IF accepted = {} THEN report = NoReport
  ELSE \E b \in accepted : report.policy = b.policy

HeldInv == ReplayInv /\ Traced /\ Reported

\* A bundle has finitely many lines.
LEMMA ObservedIsFinite ==
  ASSUME NEW b \in Bundles
  PROVE  IsFiniteSet(Observed(b))
<1> DEFINE n == Len(b.lines)
<1>1. n \in Nat /\ DOMAIN b.lines = 1..n
  BY BundleAssumption
<1>2. IsFiniteSet(1..n)
  <2> HIDE DEF n
  <2>1. 1 \in Int /\ n \in Int
    BY <1>1
  <2> QED
  BY <2>1, FS_Interval
<1> QED
  BY <1>1, <1>2, ImageIsFinite DEF Observed, Range

\* Nothing is held at the start.
LEMMA HeldInit == Init => HeldInv
BY ReplayInit, FS_EmptySet DEF Init, HeldInv, Traced, Reported

\* A delivery adds lines of its bundle.
LEMMA HeldDeliver ==
  ASSUME HeldInv, NEW b \in Bundles, Deliver(b)
  PROVE  HeldInv'
<1>1. ReplayInv'
  BY ReplayDeliver DEF HeldInv
<1>2. /\ transactions' \subseteq transactions \cup Observed(b)
      /\ settlements' \subseteq settlements \cup Observed(b)
  BY LastLineIsObserved, FirstLineIsObserved DEF Deliver, MergeTransactions, MergeSettlements
<1>3. /\ IsFiniteSet(transactions \cup Observed(b))
      /\ IsFiniteSet(settlements \cup Observed(b))
  BY ObservedIsFinite, FS_Union DEF HeldInv, Traced
<1>4. IsFiniteSet(transactions') /\ IsFiniteSet(settlements')
  BY <1>2, <1>3, FS_Subset
<1>5. \A r \in transactions' \cup settlements' : \E a \in accepted' : r \in Observed(a)
  BY <1>2 DEF Deliver, HeldInv, Traced
<1>6. b \in accepted' /\ report'.policy = b.policy
  BY DEF Deliver, ReportOn
<1>7. Reported'
  BY <1>6 DEF Reported
<1>8. \A i \in duplicates' : \E a \in accepted' : i \in CurrentDuplicates(a)
  BY <1>6 DEF Deliver, MergeDuplicates, HeldInv, Traced
<1> QED
  BY <1>1, <1>4, <1>5, <1>7, <1>8 DEF HeldInv, Traced

\* A refusal adds nothing.
LEMMA HeldStutter ==
  ASSUME HeldInv, UNCHANGED vars
  PROVE  HeldInv'
BY ReplayStutter DEF HeldInv, Traced, Reported, vars, states

\* The evidence is what the states hold, without how it was delivered, and
\* each grain of it is in its state.
LEMMA EvidenceIsHeld ==
  ASSUME HeldInv
  PROVE  /\ Evidence = Contents(transactions) \cup Contents(settlements)
         /\ \A d \in Contents(transactions) : AtTransactionGrain(d)
         /\ \A d \in Contents(settlements) : AtSettlementGrain(d)
<1>1. /\ DOMAIN admission.sources = {r.serial : r \in transactions \cup settlements}
      /\ \A r \in transactions \cup settlements :
           admission.sources[r.serial] = BusinessDigest(r) /\ Fielded(r)
      /\ \A r \in transactions : AtTransactionGrain(r)
      /\ \A r \in settlements : AtSettlementGrain(r)
  BY DEF HeldInv, ReplayInv, InStep, StatesInStep, GrainsApart
<1>2. \A b \in accepted : \A o \in Observed(b) :
        /\ o.serial \in DOMAIN admission.sources
        /\ admission.sources[o.serial] = BusinessDigest(o)
  BY DEF HeldInv, ReplayInv, Remembered
<1>3. ASSUME NEW d \in Evidence
      PROVE  d \in Contents(transactions) \cup Contents(settlements)
  <2>1. PICK b \in accepted : \E o \in Observed(b) : d = BusinessDigest(o)
    BY DEF Evidence
  <2>2. PICK o \in Observed(b) : d = BusinessDigest(o)
    BY <2>1
  <2>3. PICK r \in transactions \cup settlements : r.serial = o.serial
    BY <1>1, <1>2
  <2>4. BusinessDigest(r) = d
    BY <1>1, <1>2, <2>2, <2>3
  <2> QED
    BY <2>4 DEF Contents
<1>4. ASSUME NEW r \in transactions \cup settlements
      PROVE  BusinessDigest(r) \in Evidence
  BY DEF HeldInv, Traced, Evidence
<1>5. ASSUME NEW r, Fielded(r)
      PROVE  AtTransactionGrain(BusinessDigest(r)) <=> AtTransactionGrain(r)
  <2>1. BusinessDigest(r).family = r.family /\ (IsJournal(r) => BusinessDigest(r).class = r.class)
    BY <1>5 DEF BusinessDigest, Fielded
  <2> QED
    BY <2>1 DEF AtTransactionGrain, IsEvent, IsJournal
<1>6. Evidence = Contents(transactions) \cup Contents(settlements)
  BY <1>3, <1>4 DEF Contents
<1>7. \A d \in Contents(transactions) : AtTransactionGrain(d)
  BY <1>1, <1>5 DEF Contents
<1>8. \A d \in Contents(settlements) : AtSettlementGrain(d)
  BY <1>1, <1>5 DEF Contents, AtSettlementGrain
<1> QED
  BY <1>6, <1>7, <1>8

\* The parts of the evidence that the properties speak of.
LEMMA EvidenceParts ==
  ASSUME HeldInv
  PROVE  LET R == Contents(transactions) IN
         /\ EventEvidence = Events(R)
         /\ CaptureEvidence = Captures(R)
         /\ JournalEvidence("TRANSACTION") = Journals(R)
         /\ BankEvidence = BankEntries(Contents(settlements))
         /\ JournalEvidence("SETTLEMENT") = Journals(Contents(settlements))
<1> DEFINE R == Contents(transactions)
           S == Contents(settlements)
<1>1. /\ Evidence = R \cup S
      /\ \A d \in R : AtTransactionGrain(d)
      /\ \A d \in S : AtSettlementGrain(d)
  BY EvidenceIsHeld
<1> HIDE DEF R, S
<1>2. \A d \in Evidence :
        /\ d \in R <=> AtTransactionGrain(d)
        /\ d \in S <=> ~AtTransactionGrain(d)
  BY <1>1 DEF AtSettlementGrain
<1>3. EventEvidence = Events(R)
  BY <1>1, <1>2 DEF EventEvidence, Events, AtTransactionGrain
<1>4. CaptureEvidence = Captures(R)
  BY <1>3 DEF CaptureEvidence, Captures
<1>5. BankEvidence = BankEntries(S)
  BY <1>1, <1>2 DEF BankEvidence, BankEntries, AtTransactionGrain, IsBank, IsEvent, IsJournal
<1>6. \A d : CurrencyDomain(d)[1] = IF AtTransactionGrain(d) THEN "TRANSACTION" ELSE "SETTLEMENT"
  BY DEF CurrencyDomain
<1>7. JournalEvidence("TRANSACTION") = Journals(R)
  BY <1>1, <1>2, <1>6 DEF JournalEvidence, Journals
<1>8. JournalEvidence("SETTLEMENT") = Journals(S)
  BY <1>1, <1>2, <1>6 DEF JournalEvidence, Journals
<1> QED
  BY <1>3, <1>4, <1>5, <1>7, <1>8 DEF R, S

-----------------------------------------------------------------------------
(* Sums over records and over their identities.                            *)

\* A sum of amounts is a total.
LEMMA SumOfIsTotal ==
  ASSUME NEW S, IsFiniteSet(S), \A r \in S : r.amount \in Int
  PROVE  SumOf(S) = Total([r \in S |-> r.amount])
<1> DEFINE f == [r \in S |-> r.amount]
           Sums(h) == h = [s \in SUBSET S |->
                             IF s = {} THEN 0
                             ELSE (CHOOSE x \in s : TRUE).amount + h[s \ {CHOOSE x \in s : TRUE}]]
           g == CHOOSE g : Sums(g)
<1>1. ASSUME NEW h
      PROVE  Folds(h, f, S) <=> Sums(h)
  <2>1. \A s \in SUBSET S : s # {} => (CHOOSE x \in s : TRUE) \in S
    OBVIOUS
  <2>2. \A s \in SUBSET S : s # {} => f[CHOOSE x \in s : TRUE] = (CHOOSE x \in s : TRUE).amount
    BY <2>1
  <2> HIDE DEF f
  <2> QED
    BY <2>2 DEF Folds
<1>2. \A x \in S : f[x] \in Int
  OBVIOUS
<1>3. SumOf(S) = g[S]
  BY Zenon DEF SumOf, MapThenSumSet, MapThenFoldSet
<1> HIDE DEF f, Sums
<1>4. Folds(g, f, S)
  <2>1. \E h : Sums(h)
    BY <1>1, <1>2, FoldExists
  <2>2. Sums(g)
    BY <2>1, Zenon
  <2> QED
    BY <1>1, <2>2
<1>5. g[S] = Total([r \in S |-> f[r]])
  <2> HIDE DEF g
  <2> QED
    BY <1>2, <1>4, FoldIsTotal
<1> QED
  BY <1>3, <1>5 DEF f

\* Terms of records and the same terms by identity have one total.
LEMMA NamedTotal ==
  ASSUME NEW Q, \A r, s \in Q : r.serial = s.serial => r = s,
         NEW v, Summable(v), DOMAIN v = Q,
         NEW g, Summable(g), DOMAIN g = {r.serial : r \in Q},
         \A r \in Q : g[r.serial] = v[r]
  PROVE  Total(g) = Total(v)
<1> DEFINE b == [r \in Q |-> r.serial]
<1>1. DOMAIN b = Q /\ \A x \in Q : b[x] = x.serial
  OBVIOUS
<1> HIDE DEF b
<1>2. /\ \A x \in DOMAIN v : b[x] \in DOMAIN g /\ g[b[x]] = v[x]
      /\ \A z \in DOMAIN g : \E x \in DOMAIN v : b[x] = z
  BY <1>1
<1>3. \A x, y \in DOMAIN v : b[x] = b[y] => x = y
  BY <1>1
<1>4. Total(v) = Total(g)
  BY <1>1, <1>2, <1>3, TotalRenamed
<1> QED
  BY <1>4

\* Terms by identity can be added up.
LEMMA ByIdentity ==
  ASSUME NEW Q, IsFiniteSet(Q), \A r, s \in Q : r.serial = s.serial => r = s,
         NEW v, Summable(v), DOMAIN v = Q,
         NEW g, g = [i \in {r.serial : r \in Q} |-> v[CHOOSE r \in Q : r.serial = i]]
  PROVE  /\ Summable(g) /\ DOMAIN g = {r.serial : r \in Q}
         /\ \A r \in Q : g[r.serial] = v[r]
         /\ Total(g) = Total(v)
<1> DEFINE D == {r.serial : r \in Q}
           b == [r \in Q |-> r.serial]
<1>1. IsFiniteSet(D)
  <2>1. DOMAIN b = Q /\ D = {b[r] : r \in Q}
    OBVIOUS
  <2> HIDE DEF b, D
  <2> QED
    BY <2>1, ImageIsFinite
<1>2. \A r \in Q : (CHOOSE x \in Q : x.serial = r.serial) = r
  OBVIOUS
<1>3. DOMAIN g = D /\ \A r \in Q : g[r.serial] = v[r]
  BY <1>2
<1>4. Summable(g)
  <2>1. ASSUME NEW i \in D
        PROVE  g[i] \in Int
    <3>1. PICK r \in Q : r.serial = i
      OBVIOUS
    <3> QED
      BY <1>3, <3>1 DEF Summable
  <2>2. g = [i \in D |-> g[i]]
    BY <1>3
  <2> QED
    BY <1>1, <1>3, <2>1, <2>2 DEF Summable
<1> QED
  BY <1>3, <1>4, NamedTotal

\* Amounts by identity add up to the sum over the records.
LEMMA AmountsTotal ==
  ASSUME NEW R, OneEach(R), IsFiniteSet(R), \A r \in R : r.amount \in Int
  PROVE  /\ Summable(Amounts(R)) /\ DOMAIN Amounts(R) = {r.serial : r \in R}
         /\ \A r \in R : Amounts(R)[r.serial] = r.amount
         /\ Total(Amounts(R)) = SumOf(R)
<1> DEFINE v == [r \in R |-> r.amount]
           D == {r.serial : r \in R}
<1>1. Summable(v) /\ DOMAIN v = R /\ \A r \in R : v[r] = r.amount
  BY DEF Summable
<1>2. \A r, s \in R : r.serial = s.serial => r = s
  BY DEF OneEach
<1>3. \A i \in D : (CHOOSE r \in R : r.serial = i) \in R
  OBVIOUS
<1>4. Amounts(R) = [i \in D |-> v[CHOOSE r \in R : r.serial = i]]
  BY <1>3 DEF Amounts
<1>5. SumOf(R) = Total(v)
  BY SumOfIsTotal
<1> HIDE DEF v
<1> QED
  BY <1>1, <1>2, <1>4, <1>5, ByIdentity

-----------------------------------------------------------------------------
(* What the rules say of the evidence at the transaction grain.            *)

\* The evidence at the transaction grain: finitely many records with one
\* identity each and positive amounts.
LEMMA TransactionEvidence ==
  ASSUME HeldInv
  PROVE  LET R == Contents(transactions) IN
         /\ OneEach(R) /\ IsFiniteSet(R)
         /\ \A e \in Events(R) : e.amount \in Nat /\ e.amount > 0 /\ e.class \in TransactionEvents
         /\ \A j \in Journals(R) :
              /\ IsFiniteSet(j.postings)
              /\ \A p \in j.postings : p.side \in {"DEBIT", "CREDIT"} /\ p.amount \in Nat
         /\ \A d \in R : \A b \in Bundles : b.policy.transactionTolerance[d.currency] \in Nat
<1> DEFINE R == Contents(transactions)
           f == [r \in transactions |-> BusinessDigest(r)]
<1>1. IsFiniteSet(R)
  <2>1. DOMAIN f = transactions /\ R = {f[r] : r \in transactions}
    BY DEF Contents
  <2>2. IsFiniteSet(DOMAIN f)
    BY <2>1 DEF HeldInv, Traced
  <2> HIDE DEF f, R
  <2> QED
    BY <2>1, <2>2, ImageIsFinite
<1>2. /\ \A r \in transactions : Factual(r)
      /\ \A r, s \in transactions : r.serial = s.serial => r = s
  BY DEF HeldInv, ReplayInv, InStep, StatesInStep
<1>3. OneEach(R)
  <2>1. ASSUME NEW r \in transactions
        PROVE  BusinessDigest(r).serial = r.serial /\ Factual(BusinessDigest(r))
    <3>1. DOMAIN BusinessDigest(r) = DOMAIN r
      BY DEF BusinessDigest
    <3>2. /\ BusinessDigest(r).serial = r.serial
          /\ IsEvent(BusinessDigest(r)) <=> IsEvent(r)
          /\ IsJournal(BusinessDigest(r)) <=> IsJournal(r)
      BY <1>2, ContentFields
    <3> QED
      BY <1>2, <3>1, <3>2 DEF Factual
  <2> QED
    BY <1>2, <2>1 DEF OneEach, Contents
<1>4. ASSUME NEW r \in transactions
      PROVE  LET d == BusinessDigest(r) IN
             /\ IsEvent(d) => d.amount \in Nat /\ d.amount > 0 /\ d.class \in TransactionEvents
             /\ IsJournal(d) =>
                  /\ IsFiniteSet(d.postings)
                  /\ \A p \in d.postings : p.side \in {"DEBIT", "CREDIT"} /\ p.amount \in Nat
             /\ \A b \in Bundles : b.policy.transactionTolerance[d.currency] \in Nat
  <2>1. PICK a \in Bundles : r \in Observed(a)
    BY DEF HeldInv, ReplayInv, Traced
  <2>2. Conforms(r)
    BY <2>1, ContractAssumption
  <2>3. ~IsBank(r)
    BY DEF HeldInv, ReplayInv, InStep, GrainsApart, AtTransactionGrain, IsEvent, IsJournal, IsBank
  <2>4. \A b \in Bundles : b.policy.transactionTolerance[r.currency] \in Nat
    BY <2>1, <2>3, PolicyAssumption
  <2>5. /\ IsEvent(BusinessDigest(r)) <=> IsEvent(r)
        /\ IsJournal(BusinessDigest(r)) <=> IsJournal(r)
        /\ BusinessDigest(r).class = r.class /\ BusinessDigest(r).currency = r.currency
        /\ IsEvent(r) => BusinessDigest(r).amount = r.amount
        /\ IsJournal(r) => BusinessDigest(r).postings = r.postings
    BY <1>2, ContentFields DEF TransactionFields
  <2>6. \A n \in 1..MaxMinor : n \in Nat /\ n > 0
    BY MaxMinorAssumption
  <2> QED
    BY <2>2, <2>4, <2>5, <2>6 DEF Conforms
<1>5. \A d \in R : \E r \in transactions : d = BusinessDigest(r)
  BY DEF Contents
<1> HIDE DEF R
<1>6. \A d \in R :
        /\ IsEvent(d) => d.amount \in Nat /\ d.amount > 0 /\ d.class \in TransactionEvents
        /\ IsJournal(d) =>
             /\ IsFiniteSet(d.postings)
             /\ \A p \in d.postings : p.side \in {"DEBIT", "CREDIT"} /\ p.amount \in Nat
        /\ \A b \in Bundles : b.policy.transactionTolerance[d.currency] \in Nat
  BY <1>4, <1>5
<1> QED
  BY <1>1, <1>3, <1>6 DEF Events, Journals, R

\* Once something was accepted, the last report has the candidates of the
\* evidence under the policy of an accepted bundle.
LEMMA ReportOfEvidence ==
  ASSUME HeldInv, accepted # {}
  PROVE  report.transactions = TransactionCandidates(report.policy, Contents(transactions))
<1>1. OneEach(transactions)
  BY DEF HeldInv, ReplayInv, InStep, StatesInStep, OneEach
<1>2. report.transactions = TransactionCandidates(report.policy, transactions)
  BY DEF HeldInv, ReplayInv, ReportOn
<1> QED
  BY <1>1, <1>2, ContentDecides

\* The uses of a capture are the applications that the rules count.
LEMMA UsesAreApplications ==
  ASSUME HeldInv, NEW c \in CaptureEvidence
  PROVE  UsesOf(c) = Applications(Contents(transactions), c)
<1> DEFINE R == Contents(transactions)
<1>1. EventEvidence = Events(R)
  BY EvidenceParts
<1>2. \A e \in Events(R) : e.class \in TransactionEvents
  BY TransactionEvidence
<1>3. ASSUME NEW e \in Events(R)
      PROVE  AppliesTo(e, c) <=>
               /\ e.class \in Negatives
               /\ e.reference = c.serial
               /\ \A f \in {"processor", "merchant", "payment", "currency"} : e[f] = c[f]
  BY <1>2 DEF AppliesTo, TransactionEvents, Negatives
<1> QED
  BY <1>1, <1>3 DEF UsesOf, Applications

\* No capture is given back twice: the uses that pass are some of the uses that
\* the rules compare with the capture.
LEMMA CapturesHold ==
  ASSUME HeldInv
  PROVE  CaptureNotExceeded
<1> DEFINE R == Contents(transactions)
<1> SUFFICES ASSUME NEW c \in CaptureEvidence
             PROVE  SumOf({e \in UsesOf(c) :
                             report.transactions[TransactionKey(e)].status # "EXCEPTION"})
                      <= c.amount
  BY DEF CaptureNotExceeded
<1> DEFINE A == Applications(R, c)
           S == {e \in UsesOf(c) : report.transactions[TransactionKey(e)].status # "EXCEPTION"}
<1> SUFFICES SumOf(S) <= c.amount
  OBVIOUS
<1>1. c \in Captures(R) /\ c \in Events(R) /\ UsesOf(c) = A
  BY EvidenceParts, UsesAreApplications DEF Captures
<1>2. OneEach(R) /\ IsFiniteSet(R)
      /\ \A e \in Events(R) : e.amount \in Nat /\ e.amount > 0
  BY TransactionEvidence
<1>3. S \subseteq A /\ A \subseteq R /\ \A e \in A : e \in Events(R)
  BY <1>1 DEF Applications, Events
<1>4. OneEach(A) /\ IsFiniteSet(A) /\ OneEach(S) /\ IsFiniteSet(S)
  BY <1>2, <1>3, OneEachPart, FS_Subset
<1>7. \A e \in A : e.amount \in Int /\ e.amount >= 0
  BY <1>2, <1>3
<1>8. \A e \in S : report.transactions[TransactionKey(e)].status # "EXCEPTION"
  OBVIOUS
<1> HIDE DEF A, S
<1>5. CASE S = {}
  <2>1. SumOf({}) = Total([r \in {} |-> r.amount])
    BY FS_EmptySet, SumOfIsTotal
  <2>2. Total([r \in {} |-> r.amount]) = 0
    <3>1. Summable([r \in {} |-> r.amount])
      BY FS_EmptySet DEF Summable
    <3> QED
      BY <3>1, TotalEmpty
  <2>3. c.amount \in Nat
    BY <1>1, <1>2
  <2> QED
    BY <1>5, <2>1, <2>2, <2>3
<1>6. CASE S # {}
  <2>1. PICK e \in S : TRUE
    BY <1>6
  <2>2. e \in Events(R) /\ AppliesTo(e, c)
    BY <1>3 DEF A, Applications
  <2> DEFINE key == TransactionKey(e)
  <2>3. accepted # {}
    BY DEF CaptureEvidence, EventEvidence, Evidence
  <2>4. key \in TransactionKeys(R) /\ e \in Events(Rows(R, key))
    BY <2>2 DEF TransactionKeys, Events, Rows
  <2>5. TransactionCandidate(report.policy, R, key).status # "EXCEPTION"
    BY <1>8, <2>3, <2>4, ReportOfEvidence DEF TransactionCandidates
  <2>6. TransactionReasons(report.policy, R, key) = {}
    <3>1. \A difference, tolerance, reasons, mismatches :
            Verdict(difference, tolerance, reasons, mismatches).status # "EXCEPTION"
              => reasons = {}
      BY DEF Verdict
    <3> QED
      BY <2>5, <3>1 DEF TransactionCandidate
  <2>7. ~OverApplied(R, c)
    BY <1>1, <2>2, <2>4, <2>6 DEF TransactionReasons, ReferenceReasons
  <2>8. /\ Summable(Amounts(A)) /\ DOMAIN Amounts(A) = {r.serial : r \in A}
        /\ \A r \in A : Amounts(A)[r.serial] = r.amount
    BY <1>3, <1>4, <1>7, AmountsTotal
  <2>9. Total(Amounts(A)) <= c.amount
    <3>1. Total(Amounts(A)) \in Int /\ c.amount \in Int
      BY <1>1, <1>2, <2>8, TotalSteps
    <3> QED
      BY <2>7, <3>1 DEF OverApplied, A
  <2> DEFINE I == {r.serial : r \in S}
  <2>10. /\ Summable(Amounts(S)) /\ DOMAIN Amounts(S) = I
         /\ \A r \in S : Amounts(S)[r.serial] = r.amount
         /\ Total(Amounts(S)) = SumOf(S)
    BY <1>3, <1>4, <1>7, AmountsTotal
  <2>11. Amounts(S) = Part(Amounts(A), I)
    <3>1. \A i \in I : Amounts(S)[i] = Amounts(A)[i]
      BY <1>3, <2>8, <2>10
    <3> QED
      BY <2>10, <3>1 DEF Summable, Part
  <2>12. I \in SUBSET DOMAIN Amounts(A) /\ \A i \in DOMAIN Amounts(A) : Amounts(A)[i] >= 0
    BY <1>2, <1>3, <2>8
  <2>13. Total(Part(Amounts(A), I)) <= Total(Amounts(A))
    <3> HIDE DEF I
    <3> QED
      BY <2>8, <2>12, TotalOfPart
  <2>14. /\ Total(Amounts(S)) \in Int /\ Total(Amounts(A)) \in Int /\ c.amount \in Int
    BY <1>1, <1>2, <2>8, <2>10, TotalSteps
  <2> QED
    BY <2>9, <2>10, <2>11, <2>13, <2>14
<1> QED
  BY <1>5, <1>6

\* What bank entries move together is a total.
LEMMA BankSumIsTotal ==
  ASSUME NEW S, IsFiniteSet(S), \A e \in S : BankMovement(e) \in Int
  PROVE  MapThenSumSet(LAMBDA e : BankMovement(e), S) = Total([r \in S |-> BankMovement(r)])
<1> DEFINE f == [r \in S |-> BankMovement(r)]
           Sums(h) == h = [s \in SUBSET S |->
                             IF s = {} THEN 0
                             ELSE BankMovement((CHOOSE x \in s : TRUE)) + h[s \ {CHOOSE x \in s : TRUE}]]
           g == CHOOSE g : Sums(g)
<1>1. ASSUME NEW h
      PROVE  Folds(h, f, S) <=> Sums(h)
  <2>1. \A s \in SUBSET S : s # {} => (CHOOSE x \in s : TRUE) \in S
    OBVIOUS
  <2>2. \A s \in SUBSET S : s # {} => f[CHOOSE x \in s : TRUE] = BankMovement((CHOOSE x \in s : TRUE))
    BY <2>1
  <2> HIDE DEF f
  <2> QED
    BY <2>2 DEF Folds
<1>2. \A x \in S : f[x] \in Int
  OBVIOUS
<1>3. MapThenSumSet(LAMBDA e : BankMovement(e), S) = g[S]
  BY Zenon DEF MapThenSumSet, MapThenFoldSet
<1> HIDE DEF f, Sums
<1>4. Folds(g, f, S)
  <2>1. \E h : Sums(h)
    BY <1>1, <1>2, FoldExists
  <2>2. Sums(g)
    BY <2>1, Zenon
  <2> QED
    BY <1>1, <2>2
<1>5. g[S] = Total([r \in S |-> f[r]])
  <2> HIDE DEF g
  <2> QED
    BY <1>2, <1>4, FoldIsTotal
<1> QED
  BY <1>3, <1>5 DEF f

\* So is what a journal moves at the settlement grain.
LEMMA SettlementMovementIsTotal ==
  ASSUME NEW j, IsFiniteSet(ClearingPostings(j)),
         \A p \in ClearingPostings(j) : SettlementSide(p.side) * p.amount \in Int
  PROVE  SettlementMovement(j) = Total([r \in ClearingPostings(j) |-> SettlementSide(r.side) * r.amount])
<1> DEFINE f == [r \in ClearingPostings(j) |-> SettlementSide(r.side) * r.amount]
           Sums(h) == h = [s \in SUBSET ClearingPostings(j) |->
                             IF s = {} THEN 0
                             ELSE SettlementSide((CHOOSE x \in s : TRUE).side) * (CHOOSE x \in s : TRUE).amount + h[s \ {CHOOSE x \in s : TRUE}]]
           g == CHOOSE g : Sums(g)
<1>1. ASSUME NEW h
      PROVE  Folds(h, f, ClearingPostings(j)) <=> Sums(h)
  <2>1. \A s \in SUBSET ClearingPostings(j) : s # {} => (CHOOSE x \in s : TRUE) \in ClearingPostings(j)
    OBVIOUS
  <2>2. \A s \in SUBSET ClearingPostings(j) : s # {} => f[CHOOSE x \in s : TRUE] = SettlementSide((CHOOSE x \in s : TRUE).side) * (CHOOSE x \in s : TRUE).amount
    BY <2>1
  <2> HIDE DEF f
  <2> QED
    BY <2>2 DEF Folds
<1>2. \A x \in ClearingPostings(j) : f[x] \in Int
  OBVIOUS
<1>3. SettlementMovement(j) = g[ClearingPostings(j)]
  BY Zenon DEF SettlementMovement, MapThenSumSet, MapThenFoldSet
<1> HIDE DEF f, Sums
<1>4. Folds(g, f, ClearingPostings(j))
  <2>1. \E h : Sums(h)
    BY <1>1, <1>2, FoldExists
  <2>2. Sums(g)
    BY <2>1, Zenon
  <2> QED
    BY <1>1, <2>2
<1>5. g[ClearingPostings(j)] = Total([r \in ClearingPostings(j) |-> f[r]])
  <2> HIDE DEF g
  <2> QED
    BY <1>2, <1>4, FoldIsTotal
<1> QED
  BY <1>3, <1>5 DEF f


-----------------------------------------------------------------------------
(* Where the bank's money goes.                                            *)

\* The records of the settlement state, and what their contents have of them.
LEMMA SettlementRecords ==
  ASSUME HeldInv
  PROVE  /\ IsFiniteSet(settlements)
         /\ \A r, s \in settlements : r.serial = s.serial => r = s
         /\ \A r \in settlements :
              LET d == BusinessDigest(r) IN
              /\ Conforms(r)
              /\ d.serial = r.serial /\ d.family = r.family
              /\ IsBank(r) => \A f \in BankFields : d[f] = r[f]
              /\ IsSettlement(r) => \A f \in MoneyFields : d[f] = r[f]
              /\ ~IsBank(r) => \A f \in SettlementFields : d[f] = r[f]
              /\ IsJournal(r) => d.postings = r.postings
              /\ ~IsBank(r) =>
                   \A b \in Bundles : b.policy.settlementTolerance[r.currency] \in Nat
<1>1. IsFiniteSet(settlements)
  BY DEF HeldInv, Traced
<1>2. \A r, s \in settlements : r.serial = s.serial => r = s
  BY DEF HeldInv, ReplayInv, InStep, StatesInStep
<1>3. ASSUME NEW r \in settlements
      PROVE  LET d == BusinessDigest(r) IN
              /\ Conforms(r)
              /\ d.serial = r.serial /\ d.family = r.family
              /\ IsBank(r) => \A f \in BankFields : d[f] = r[f]
              /\ IsSettlement(r) => \A f \in MoneyFields : d[f] = r[f]
              /\ ~IsBank(r) => \A f \in SettlementFields : d[f] = r[f]
              /\ IsJournal(r) => d.postings = r.postings
              /\ ~IsBank(r) =>
                   \A b \in Bundles : b.policy.settlementTolerance[r.currency] \in Nat
  <2> DEFINE d == BusinessDigest(r)
  <2>1. PICK b \in Bundles : r \in Observed(b)
    BY DEF HeldInv, ReplayInv, Traced
  <2>2. Conforms(r) /\ Fielded(r) /\ AtSettlementGrain(r) /\ (IsJournal(r) => "postings" \in DOMAIN r)
    BY <2>1, ContractAssumption, BundleAssumption DEF HeldInv, ReplayInv, InStep, GrainsApart
  <2>3. \A f \in DOMAIN r : f # "transport" => d[f] = r[f]
    BY DEF BusinessDigest
  <2>4. d.serial = r.serial /\ d.family = r.family
    BY <2>2, <2>3 DEF Fielded
  <2>5. IsBank(r) => \A f \in BankFields : d[f] = r[f]
    BY <2>2, <2>3 DEF Conforms, BankFields
  <2>6. IsSettlement(r) => \A f \in MoneyFields : d[f] = r[f]
    BY <2>2, <2>3 DEF Conforms, MoneyFields
  <2>7. ~IsBank(r) => \A f \in SettlementFields : d[f] = r[f]
    BY <2>2, <2>3 DEF Conforms, SettlementFields
  <2>8. IsJournal(r) => d.postings = r.postings
    BY <2>2, <2>3
  <2>9. ~IsBank(r) => \A a \in Bundles : a.policy.settlementTolerance[r.currency] \in Nat
    BY <2>1, PolicyAssumption
  <2> QED
    BY <2>2, <2>4, <2>5, <2>6, <2>7, <2>8, <2>9
<1> QED
  BY <1>1, <1>2, <1>3

\* What the bank entries of the state move, by identity and in all.
LEMMA BankByIdentity ==
  ASSUME HeldInv
  PROVE  LET B == BankEntries(settlements)
             moves == [i \in {e.serial : e \in B} |->
                         BankMovement(CHOOSE e \in settlements : e.serial = i)]
         IN /\ Summable(moves) /\ DOMAIN moves = {e.serial : e \in B}
            /\ \A e \in B : /\ (CHOOSE x \in settlements : x.serial = e.serial) = e
                            /\ moves[e.serial] = BankMovement(e)
            /\ Total(moves) = MapThenSumSet(LAMBDA e : BankMovement(e), BankEvidence)
<1> DEFINE B == BankEntries(settlements)
           C == BankEvidence
           I == {e.serial : e \in B}
           moves == [i \in I |-> BankMovement(CHOOSE e \in settlements : e.serial = i)]
           v == [e \in B |-> BankMovement(e)]
           u == [d \in C |-> BankMovement(d)]
           digest == [e \in B |-> BusinessDigest(e)]
<1>1. /\ IsFiniteSet(settlements)
      /\ \A r, s \in settlements : r.serial = s.serial => r = s
      /\ \A r \in settlements :
           /\ Conforms(r)
           /\ BusinessDigest(r).serial = r.serial /\ BusinessDigest(r).family = r.family
           /\ IsBank(r) => \A f \in BankFields : BusinessDigest(r)[f] = r[f]
  BY SettlementRecords
<1>2. B \subseteq settlements /\ \A e \in B : IsBank(e)
  BY DEF BankEntries
<1>3. IsFiniteSet(B)
  BY <1>1, <1>2, FS_Subset
<1>4. C = {BusinessDigest(e) : e \in B}
  <2>1. C = BankEntries(Contents(settlements))
    BY EvidenceParts
  <2>2. \A r \in settlements : IsBank(BusinessDigest(r)) <=> IsBank(r)
    BY <1>1 DEF IsBank
  <2> QED
    BY <2>1, <2>2 DEF BankEntries, Contents
<1>5. \A e \in B : BankMovement(e) \in Int /\ BankMovement(BusinessDigest(e)) = BankMovement(e)
  <2>1. ASSUME NEW e \in B
        PROVE  BankMovement(e) \in Int /\ BankMovement(BusinessDigest(e)) = BankMovement(e)
    <3>1. /\ BusinessDigest(e).amount = e.amount
          /\ BusinessDigest(e).direction = e.direction
      BY <1>1, <1>2 DEF BankFields
    <3>2. e.amount \in Int
      BY <1>1, <1>2, MaxMinorAssumption DEF Conforms
    <3> QED
      BY <3>1, <3>2 DEF BankMovement, BankSide
  <2> QED
    BY <2>1
<1>6. Summable(v) /\ DOMAIN v = B /\ \A e \in B : v[e] = BankMovement(e)
  BY <1>3, <1>5 DEF Summable
<1>7. \A e \in B : (CHOOSE x \in settlements : x.serial = e.serial) = e
  BY <1>1, <1>2
<1>8. \A e \in B : (CHOOSE x \in B : x.serial = e.serial) = e
  BY <1>1, <1>2
<1>9. moves = [i \in I |-> v[CHOOSE e \in B : e.serial = i]]
  <2>1. ASSUME NEW i \in I
        PROVE  BankMovement(CHOOSE e \in settlements : e.serial = i)
                 = v[CHOOSE e \in B : e.serial = i]
    <3>1. PICK e \in B : e.serial = i
      OBVIOUS
    <3>2. /\ (CHOOSE x \in settlements : x.serial = i) = e
          /\ (CHOOSE x \in B : x.serial = i) = e
      BY <1>7, <1>8, <3>1
    <3> QED
      BY <1>6, <3>2
  <2> HIDE DEF v, B
  <2> QED
    BY <2>1
<1>10. /\ Summable(moves) /\ DOMAIN moves = I
       /\ \A e \in B : moves[e.serial] = v[e]
       /\ Total(moves) = Total(v)
  <2>1. \A r, s \in B : r.serial = s.serial => r = s
    BY <1>1, <1>2
  <2> HIDE DEF v, B, moves
  <2> QED
    BY <1>3, <1>6, <1>9, <2>1, ByIdentity
<1>11. IsFiniteSet(C) /\ \A d \in C : BankMovement(d) \in Int
  <2>1. DOMAIN digest = B /\ C = {digest[e] : e \in B}
    BY <1>4
  <2> HIDE DEF digest, B, C
  <2>2. IsFiniteSet(C)
    BY <1>3, <2>1, ImageIsFinite
  <2> QED
    BY <1>4, <1>5, <2>2
<1>12. MapThenSumSet(LAMBDA e : BankMovement(e), C) = Total(u)
  BY <1>11, BankSumIsTotal
<1>13. Total(v) = Total(u)
  <2>1. DOMAIN digest = B /\ \A e \in B : digest[e] = BusinessDigest(e)
    OBVIOUS
  <2>2. Summable(u) /\ DOMAIN u = C /\ \A d \in C : u[d] = BankMovement(d)
    BY <1>11 DEF Summable
  <2> HIDE DEF digest, u, v, B, C
  <2>3. /\ \A e \in DOMAIN v : digest[e] \in DOMAIN u /\ u[digest[e]] = v[e]
        /\ \A z \in DOMAIN u : \E e \in DOMAIN v : digest[e] = z
    BY <1>4, <1>5, <1>6, <2>1, <2>2
  <2>4. \A e, f \in DOMAIN v : digest[e] = digest[f] => e = f
    BY <1>1, <1>2, <1>6, <2>1
  <2> QED
    BY <1>6, <2>1, <2>2, <2>3, <2>4, TotalRenamed
<1> HIDE DEF v, u, B, C
<1>14. \A e \in B : moves[e.serial] = BankMovement(e)
  BY <1>6, <1>10
<1> HIDE DEF moves
<1> QED
  BY <1>7, <1>10, <1>12, <1>13, <1>14 DEF B, C, moves

\* The sums of a settlement key have one term for each of its records.
LEMMA SettlementSums ==
  ASSUME HeldInv, NEW key
  PROVE  LET N == Settlements(SettlementRows(settlements, key))
             J == Journals(SettlementRows(settlements, key))
             A == AllocatedTo(settlements, key)
             nets == NetAmounts(settlements, key)
             moved == SettlementMovements(settlements, key)
             paid == BankMovements(settlements, key)
         IN /\ Summable(nets) /\ DOMAIN nets = {r.serial : r \in N}
            /\ \A r \in N : nets[r.serial] = Net(r)
            /\ Summable(moved) /\ DOMAIN moved = {r.serial : r \in J}
            /\ \A j \in J : moved[j.serial] = SettlementMovement(j)
            /\ Summable(paid) /\ DOMAIN paid = {e.serial : e \in A}
            /\ \A e \in A : paid[e.serial] = BankMovement(e)
<1> DEFINE N == Settlements(SettlementRows(settlements, key))
           J == Journals(SettlementRows(settlements, key))
           A == AllocatedTo(settlements, key)
           nets == NetAmounts(settlements, key)
           moved == SettlementMovements(settlements, key)
           paid == BankMovements(settlements, key)
<1>1. /\ IsFiniteSet(settlements)
      /\ \A r, s \in settlements : r.serial = s.serial => r = s
      /\ \A r \in settlements : Conforms(r)
  BY SettlementRecords
<1>2. /\ N \subseteq settlements /\ \A r \in N : IsSettlement(r)
      /\ J \subseteq settlements /\ \A r \in J : IsJournal(r)
      /\ A \subseteq settlements /\ \A r \in A : IsBank(r)
  BY DEF Settlements, Journals, SettlementRows, Keyed, AllocatedTo, BankEntries
<1>3. IsFiniteSet(N) /\ IsFiniteSet(J) /\ IsFiniteSet(A)
  BY <1>1, <1>2, FS_Subset
<1>4. /\ nets = [i \in {r.serial : r \in N} |-> Net(CHOOSE r \in N : r.serial = i)]
      /\ moved = [i \in {r.serial : r \in J} |-> SettlementMovement(CHOOSE r \in J : r.serial = i)]
      /\ paid = [i \in {r.serial : r \in A} |-> BankMovement(CHOOSE r \in A : r.serial = i)]
  BY DEF NetAmounts, SettlementMovements, BankMovements
<1>5. ASSUME NEW r \in N
      PROVE  Net(r) \in Int
  <2>1. \A f \in MoneyFields : r[f] \in Int
    BY <1>1, <1>2, MaxMinorAssumption DEF Conforms, Minor
  <2> QED
    BY <2>1 DEF Net, MoneyFields
<1>6. ASSUME NEW j \in J
      PROVE  SettlementMovement(j) \in Int
  <2> DEFINE P == ClearingPostings(j)
             m == [p \in P |-> SettlementSide(p.side) * p.amount]
  <2>1. Conforms(j) /\ IsJournal(j) /\ P \subseteq j.postings
    BY <1>1, <1>2 DEF ClearingPostings
  <2>2. IsFiniteSet(P)
    BY <2>1, FS_Subset DEF Conforms
  <2>3. \A p \in P : SettlementSide(p.side) * p.amount \in Int
    BY <2>1, MaxMinorAssumption DEF Conforms, SettlementSide
  <2>4. SettlementMovement(j) = Total(m)
    BY <2>2, <2>3, SettlementMovementIsTotal
  <2>5. Summable(m)
    BY <2>2, <2>3 DEF Summable
  <2> QED
    BY <2>4, <2>5, TotalSteps
<1>7. ASSUME NEW e \in A
      PROVE  BankMovement(e) \in Int
  BY <1>1, <1>2, MaxMinorAssumption DEF Conforms, BankMovement, BankSide
<1> HIDE DEF N, J, A, nets, moved, paid
<1>8. /\ Summable(nets) /\ DOMAIN nets = {r.serial : r \in N}
      /\ \A r \in N : nets[r.serial] = Net(r)
  <2> DEFINE v == [r \in N |-> Net(r)]
  <2>1. Summable(v) /\ DOMAIN v = N /\ \A r \in N : v[r] = Net(r)
    BY <1>3, <1>5 DEF Summable
  <2>2. nets = [i \in {r.serial : r \in N} |-> v[CHOOSE r \in N : r.serial = i]]
    BY <1>4
  <2>3. \A r, s \in N : r.serial = s.serial => r = s
    BY <1>1, <1>2
  <2> HIDE DEF v
  <2> QED
    BY <1>3, <2>1, <2>2, <2>3, ByIdentity
<1>9. /\ Summable(moved) /\ DOMAIN moved = {r.serial : r \in J}
      /\ \A j \in J : moved[j.serial] = SettlementMovement(j)
  <2> DEFINE v == [r \in J |-> SettlementMovement(r)]
  <2>1. Summable(v) /\ DOMAIN v = J /\ \A r \in J : v[r] = SettlementMovement(r)
    BY <1>3, <1>6 DEF Summable
  <2>2. moved = [i \in {r.serial : r \in J} |-> v[CHOOSE r \in J : r.serial = i]]
    BY <1>4
  <2>3. \A r, s \in J : r.serial = s.serial => r = s
    BY <1>1, <1>2
  <2> HIDE DEF v
  <2> QED
    BY <1>3, <2>1, <2>2, <2>3, ByIdentity
<1>10. /\ Summable(paid) /\ DOMAIN paid = {e.serial : e \in A}
       /\ \A e \in A : paid[e.serial] = BankMovement(e)
  <2> DEFINE v == [r \in A |-> BankMovement(r)]
  <2>1. Summable(v) /\ DOMAIN v = A /\ \A r \in A : v[r] = BankMovement(r)
    BY <1>3, <1>7 DEF Summable
  <2>2. paid = [i \in {r.serial : r \in A} |-> v[CHOOSE r \in A : r.serial = i]]
    BY <1>4
  <2>3. \A r, s \in A : r.serial = s.serial => r = s
    BY <1>1, <1>2
  <2> HIDE DEF v
  <2> QED
    BY <1>3, <2>1, <2>2, <2>3, ByIdentity
<1> QED
  BY <1>8, <1>9, <1>10 DEF N, J, A, nets, moved, paid

\* The largest difference is one of the differences, and none is larger.
LEMMA LargestIsLargest ==
  ASSUME NEW n \in Int, NEW l \in Int, NEW b \in Int
  PROVE  LET deltas == [PROCESSOR_LEDGER_MISMATCH |-> n - l, PROCESSOR_BANK_MISMATCH |-> n - b,
                        LEDGER_BANK_MISMATCH |-> l - b]
         IN /\ Largest(deltas) \in Nat
            /\ \A d \in DOMAIN deltas : Abs(deltas[d]) <= Largest(deltas)
            /\ \E d \in DOMAIN deltas : Abs(deltas[d]) = Largest(deltas)
<1> DEFINE deltas == [PROCESSOR_LEDGER_MISMATCH |-> n - l, PROCESSOR_BANK_MISMATCH |-> n - b,
                      LEDGER_BANK_MISMATCH |-> l - b]
           T == {Abs(deltas[d]) : d \in DOMAIN deltas}
<1>1. T = {Abs(n - l), Abs(n - b), Abs(l - b)}
  OBVIOUS
<1>2. Abs(n - l) \in Nat /\ Abs(n - b) \in Nat /\ Abs(l - b) \in Nat
  BY DEF Abs
<1>3. \E x \in T : \A y \in T : x >= y
  BY <1>1, <1>2
<1>4. Largest(deltas) = Max(T)
  BY DEF Largest
<1> HIDE DEF T
<1>5. Max(T) \in T /\ \A y \in T : Max(T) >= y
  BY <1>3 DEF Max
<1>6. \A y \in T : y \in Nat
  BY <1>1, <1>2
<1> QED
  BY <1>4, <1>5, <1>6 DEF T

\* The figures of a settlement candidate, and that it is matched only when
\* they agree.
LEMMA CandidateFields ==
  ASSUME NEW policy, NEW records, NEW flagged, NEW key
  PROVE  LET c == SettlementCandidate(policy, records, flagged, key)
         IN /\ c.net = Total(NetAmounts(records, key))
            /\ c.bank = Total(BankMovements(records, key))
            /\ c.status = "MATCHED" => Largest(Deltas(records, key)) = 0
<1> DEFINE difference == Largest(Deltas(records, key))
           tolerance == policy.settlementTolerance[key.currency]
           reasons == SettlementReasons(policy, records, flagged, key)
           mismatches == {d \in DOMAIN Deltas(records, key) : Deltas(records, key)[d] # 0}
           c == SettlementCandidate(policy, records, flagged, key)
<1>1. /\ c.net = Total(NetAmounts(records, key))
      /\ c.bank = Total(BankMovements(records, key))
      /\ c.status = Verdict(difference, tolerance, reasons, mismatches).status
  BY DEF SettlementCandidate
<1>2. ASSUME NEW x, NEW t, NEW r, NEW m, Verdict(x, t, r, m).status = "MATCHED"
      PROVE  x = 0
  BY <1>2 DEF Verdict
<1> HIDE DEF difference, tolerance, reasons, mismatches, c
<1>3. c.status = "MATCHED" => difference = 0
  BY <1>1, <1>2
<1> QED
  BY <1>1, <1>3 DEF c, difference

\* Nothing is conserved when nothing was accepted.
LEMMA BankConservedAtFirst ==
  ASSUME HeldInv, accepted = {}
  PROVE  BankConserved
<1>1. report = NoReport /\ BankEvidence = {}
  <2>1. Evidence = {}
    BY DEF Evidence
  <2>2. BankEvidence = {}
    BY <2>1 DEF BankEvidence
  <2>3. report = NoReport
    BY DEF HeldInv, Reported
  <2> QED
    BY <2>2, <2>3
<1>2. report.settlements = <<>> /\ report.allocations = <<>> /\ DOMAIN <<>> = {}
  BY <1>1 DEF NoReport
<1>3. MapThenSumSet(LAMBDA e : BankMovement(e), BankEvidence) = Total([e \in {} |-> BankMovement(e)])
  BY <1>1, FS_EmptySet, BankSumIsTotal
<1>4. ASSUME NEW f, f = [x \in DOMAIN f |-> f[x]], DOMAIN f = {}
      PROVE  Total(f) = 0
  <2>1. Summable(f)
    BY <1>4, FS_EmptySet DEF Summable
  <2> QED
    BY <1>4, <2>1, TotalEmpty
<1> DEFINE bank == MapThenSumSet(LAMBDA e : BankMovement(e), BankEvidence)
           loose == {i \in DOMAIN report.allocations : report.allocations[i].targets = {}}
           paid == [k \in DOMAIN report.settlements |-> report.settlements[k].bank]
           looseSum == [i \in loose |-> report.allocations[i].signed]
           net == [k \in DOMAIN report.settlements |-> report.settlements[k].net]
<1>5. bank = 0
  <2> DEFINE f == [e \in {} |-> BankMovement(e)]
  <2>1. f = [x \in DOMAIN f |-> f[x]] /\ DOMAIN f = {}
    OBVIOUS
  <2> HIDE DEF f
  <2>2. Total(f) = 0
    BY <1>4, <2>1
  <2> QED
    BY <1>3, <2>2 DEF f
<1>6. /\ paid = [x \in DOMAIN paid |-> paid[x]] /\ DOMAIN paid = {}
      /\ looseSum = [x \in DOMAIN looseSum |-> looseSum[x]] /\ DOMAIN looseSum = {}
      /\ net = [x \in DOMAIN net |-> net[x]] /\ DOMAIN net = {}
  BY <1>2
<1>7. \A i \in DOMAIN report.allocations : Cardinality(report.allocations[i].targets) <= 1
  BY <1>2
<1> HIDE DEF bank, paid, looseSum, net
<1>8. Total(paid) = 0 /\ Total(looseSum) = 0 /\ Total(net) = 0
  BY <1>4, <1>6
<1> QED
  BY <1>5, <1>7, <1>8 DEF BankConserved, bank, paid, looseSum, net

\* A bank entry has no target or one.
LEMMA OneTarget ==
  ASSUME TargetsUnique(settlements), NEW e
  PROVE  /\ Cardinality(Targets(settlements, e)) <= 1
         /\ \A k \in Targets(settlements, e) : Targets(settlements, e) = {k}
         /\ Targets(settlements, e) \subseteq SettlementKeys(settlements)
<1> DEFINE T == Targets(settlements, e)
<1>1. T \subseteq SettlementKeys(settlements)
  BY DEF Targets
<1>2. \A k, l \in T : k = l
  BY DEF Targets, TargetsUnique
<1> HIDE DEF T
<1>3. \A k \in T : T = {k}
  BY <1>2
<1>4. Cardinality(T) <= 1
  <2>1. CASE T = {}
    BY <2>1, FS_EmptySet
  <2>2. ASSUME NEW k \in T
        PROVE  Cardinality(T) <= 1
    BY <1>3, FS_Singleton
  <2> QED
    BY <2>1, <2>2
<1> QED
  BY <1>1, <1>3, <1>4 DEF T

\* The entries that have a target add up, key by key, to what the keys were paid.
LEMMA PaidByKey ==
  ASSUME HeldInv, TargetsUnique(settlements),
         NEW moves, Summable(moves),
         DOMAIN moves = {e.serial : e \in BankEntries(settlements)},
         \A e \in BankEntries(settlements) : moves[e.serial] = BankMovement(e),
         NEW I, I = {e.serial : e \in {e \in BankEntries(settlements) :
                                         Targets(settlements, e) # {}}}
  PROVE  LET paid == [k \in SettlementKeys(settlements) |-> Total(BankMovements(settlements, k))]
         IN Summable(paid) /\ Total(Part(moves, I)) = Total(paid)
<1> DEFINE B == BankEntries(settlements)
           K == SettlementKeys(settlements)
           paid == [q \in K |-> Total(BankMovements(settlements, q))]
           EntryOf(i) == CHOOSE e \in B : e.serial = i
           TargetOf(i) == CHOOSE q \in K : Targets(settlements, EntryOf(i)) = {q}
           f == Part(moves, I)
           k == [i \in I |-> TargetOf(i)]
           groups == [q \in K |-> Total(Part(f, {x \in DOMAIN f : k[x] = q}))]
<1>1. /\ IsFiniteSet(settlements)
      /\ \A r, s \in settlements : r.serial = s.serial => r = s
  BY SettlementRecords
<1>2. B \subseteq settlements
  BY DEF BankEntries
<1>3. \A e \in B : EntryOf(e.serial) = e
  BY <1>1, <1>2
<1>4. I \in SUBSET DOMAIN moves
  OBVIOUS
<1>5. Summable(f) /\ DOMAIN f = I /\ \A i \in I : f[i] = moves[i]
  BY <1>4, PartFacts
<1>6. IsFiniteSet(K)
  <2> DEFINE h == [r \in Keyed(settlements) |-> SettlementKey(r)]
  <2>1. IsFiniteSet(Keyed(settlements))
    BY <1>1, FS_Subset DEF Keyed
  <2>2. DOMAIN h = Keyed(settlements) /\ K = {h[r] : r \in Keyed(settlements)}
    BY DEF SettlementKeys
  <2> HIDE DEF h, K
  <2> QED
    BY <2>1, <2>2, ImageIsFinite
<1> HIDE DEF f, B, K
<1>7. ASSUME NEW e \in B, NEW q \in Targets(settlements, e)
      PROVE  e.serial \in I /\ k[e.serial] = q
  <2>1. e.serial \in I
    BY DEF B
  <2>2. q \in K /\ Targets(settlements, e) = {q}
    BY OneTarget DEF K
  <2>3. TargetOf(e.serial) = q
    BY <1>3, <2>2
  <2> QED
    BY <2>1, <2>3
<1> HIDE DEF k
<1>8. ASSUME NEW i \in I
      PROVE  k[i] \in K
  <2>1. PICK e \in B : e.serial = i /\ Targets(settlements, e) # {}
    BY DEF B
  <2>2. PICK q \in Targets(settlements, e) : TRUE
    BY <2>1
  <2>3. q \in K
    BY <2>2, OneTarget DEF K
  <2> QED
    BY <1>7, <2>1, <2>2, <2>3
<1>9. ASSUME NEW q \in K
      PROVE  BankMovements(settlements, q) = Part(f, {x \in DOMAIN f : k[x] = q})
  <2> DEFINE A == AllocatedTo(settlements, q)
             X == {x \in I : k[x] = q}
  <2>1. /\ Summable(BankMovements(settlements, q))
        /\ DOMAIN BankMovements(settlements, q) = {e.serial : e \in A}
        /\ \A e \in A : BankMovements(settlements, q)[e.serial] = BankMovement(e)
    BY SettlementSums
  <2>2. A = {e \in B : Targets(settlements, e) = {q}}
    BY DEF AllocatedTo, B
  <2>3. {e.serial : e \in A} = X
    <3>1. ASSUME NEW e \in A
          PROVE  e.serial \in X
      BY <1>7, <2>2
    <3>2. ASSUME NEW i \in X
          PROVE  \E e \in A : e.serial = i
      <4>1. PICK e \in B : e.serial = i /\ Targets(settlements, e) # {}
        BY DEF B
      <4>2. PICK l \in Targets(settlements, e) : TRUE
        BY <4>1
      <4>3. l = q
        BY <1>7, <4>1, <4>2
      <4>4. Targets(settlements, e) = {q}
        BY <4>2, <4>3, OneTarget
      <4> QED
        BY <2>2, <4>1, <4>4
    <3> QED
      BY <3>1, <3>2
  <2>4. ASSUME NEW i \in X
        PROVE  BankMovements(settlements, q)[i] = f[i]
    <3>1. PICK e \in A : e.serial = i
      BY <2>3
    <3> QED
      BY <1>5, <2>1, <2>2, <3>1 DEF B
  <2>5. {x \in DOMAIN f : k[x] = q} = X
    BY <1>5
  <2> HIDE DEF X
  <2> QED
    BY <2>1, <2>3, <2>4, <2>5 DEF Summable, Part
<1>10. Summable(groups) /\ Total(f) = Total(groups)
  <2>1. \A x \in DOMAIN f : k[x] \in K
    BY <1>5, <1>8
  <2> QED
    BY <1>5, <1>6, <2>1, TotalGrouped
<1>11. groups = paid
  BY <1>9
<1> HIDE DEF groups, paid
<1>12. Summable(paid) /\ Total(f) = Total(paid)
  BY <1>10, <1>11
<1> QED
  BY <1>12 DEF paid, f, K

\* A matched batch has only matched settlements and leaves no bank entry loose.
LEMMA MatchedBatch ==
  ASSUME NEW candidates, NEW allocations,
         BatchStatus(candidates, allocations) = "MATCHED"
  PROVE  /\ \A k \in DOMAIN candidates : candidates[k].status = "MATCHED"
         /\ \A i \in DOMAIN allocations :
              "UNALLOCATED_BANK_MOVEMENT" \notin allocations[i].reasons
BY DEF BatchStatus

\* A bank entry without a target is an unallocated movement.
LEMMA LooseIsUnallocated ==
  ASSUME NEW policy, NEW records, NEW flagged, NEW e, Targets(records, e) = {}
  PROVE  "UNALLOCATED_BANK_MOVEMENT" \in Allocation(policy, records, flagged, e).reasons
BY DEF Allocation

\* The money of every bank entry is in one settlement or loose, and in a
\* matched batch the bank paid what the processors reported.
LEMMA BankHolds ==
  ASSUME HeldInv, accepted # {}
  PROVE  BankConserved
<1> DEFINE S == settlements
           B == BankEntries(S)
           K == SettlementKeys(S)
           bank == MapThenSumSet(LAMBDA e : BankMovement(e), BankEvidence)
           loose == {i \in DOMAIN report.allocations : report.allocations[i].targets = {}}
           paid == [k \in DOMAIN report.settlements |-> report.settlements[k].bank]
           looseSum == [i \in loose |-> report.allocations[i].signed]
           net == [k \in DOMAIN report.settlements |-> report.settlements[k].net]
           moves == [i \in {e.serial : e \in B} |->
                       BankMovement(CHOOSE e \in S : e.serial = i)]
           I == {e.serial : e \in {e \in B : Targets(S, e) # {}}}
           parts == [k \in K |-> Total(BankMovements(S, k))]
<1>1. /\ TargetsUnique(S)
      /\ report.settlements = SettlementCandidates(report.policy, S, duplicates)
      /\ report.allocations = Allocations(report.policy, S, duplicates)
  BY DEF HeldInv, ReplayInv, ReportOn
<1>2. /\ Summable(moves) /\ DOMAIN moves = {e.serial : e \in B}
      /\ \A e \in B : /\ (CHOOSE x \in S : x.serial = e.serial) = e
                      /\ moves[e.serial] = BankMovement(e)
      /\ Total(moves) = bank
  BY BankByIdentity
<1>3. /\ DOMAIN report.settlements = K
      /\ \A k \in K : report.settlements[k]
                        = SettlementCandidate(report.policy, S, duplicates, k)
  BY <1>1 DEF SettlementCandidates
<1>4. DOMAIN report.allocations = {e.serial : e \in B}
  BY <1>1 DEF Allocations
<1>4a. ASSUME NEW k \in K
      PROVE  /\ report.settlements[k].net = Total(NetAmounts(S, k))
             /\ report.settlements[k].bank = Total(BankMovements(S, k))
             /\ report.settlements[k].status = "MATCHED" => Largest(Deltas(S, k)) = 0
  BY <1>3, CandidateFields
<1>5. ASSUME NEW e \in B
      PROVE  /\ report.allocations[e.serial] = Allocation(report.policy, S, duplicates, e)
             /\ report.allocations[e.serial].targets = Targets(S, e)
             /\ report.allocations[e.serial].signed = moves[e.serial]
  <2>1. report.allocations[e.serial]
          = Allocation(report.policy, S, duplicates, CHOOSE x \in S : x.serial = e.serial)
    BY <1>1 DEF Allocations
  <2>2. report.allocations[e.serial] = Allocation(report.policy, S, duplicates, e)
    BY <1>2, <2>1
  <2> HIDE DEF moves
  <2> QED
    BY <1>2, <2>2 DEF Allocation
<1> HIDE DEF moves, B, bank
<1>6. /\ I \subseteq DOMAIN moves /\ loose \subseteq DOMAIN moves
      /\ loose \cap I = {} /\ loose \cup I = DOMAIN moves
  <2>1. \A e \in B : e.serial \in loose <=> Targets(S, e) = {}
    BY <1>4, <1>5
  <2>2. \A e \in B : e.serial \in I <=> Targets(S, e) # {}
    <3>1. ASSUME NEW e \in B, NEW f \in B, e.serial = f.serial
          PROVE  e = f
      <4>1. (CHOOSE x \in S : x.serial = e.serial) = e /\ (CHOOSE x \in S : x.serial = f.serial) = f
        BY <1>2
      <4> QED
        BY <3>1, <4>1
    <3> QED
      BY <3>1
  <2>3. loose \subseteq DOMAIN moves /\ I \subseteq DOMAIN moves
    BY <1>2, <1>4
  <2> HIDE DEF loose, I
  <2> QED
    BY <1>2, <2>1, <2>2, <2>3
<1>7. looseSum = Part(moves, loose)
  <2>1. \A i \in loose : report.allocations[i].signed = moves[i]
    BY <1>4, <1>5
  <2> HIDE DEF loose
  <2> QED
    BY <2>1 DEF Part
<1>8. paid = parts
  <2>1. \A k \in K : report.settlements[k].bank = Total(BankMovements(S, k))
    BY <1>4a
  <2> HIDE DEF K
  <2> QED
    BY <1>3, <2>1
<1>9. Summable(parts) /\ Total(Part(moves, I)) = Total(parts)
  BY <1>1, <1>2, PaidByKey DEF B
<1> HIDE DEF loose, looseSum, paid, parts, I, K
<1>10. Total(moves) = Total(Part(moves, loose)) + Total(Part(moves, I))
  <2>1. Total(Part(moves, loose \cup I)) = Total(Part(moves, loose)) + Total(Part(moves, I))
    BY <1>2, <1>6, TotalSplit
  <2> QED
    BY <1>2, <1>6, <2>1, TotalSteps
<1>11. Total(Part(moves, loose)) \in Int /\ Total(Part(moves, I)) \in Int
  BY <1>2, <1>6, TotalSteps
<1>12. Total(paid) + Total(looseSum) = bank
  BY <1>2, <1>7, <1>8, <1>9, <1>10, <1>11
<1>13. \A i \in DOMAIN report.allocations : Cardinality(report.allocations[i].targets) <= 1
  BY <1>1, <1>4, <1>5, OneTarget
<1>14. ASSUME BatchStatus(report.settlements, report.allocations) = "MATCHED"
       PROVE  Total(net) = bank
  <2>1. /\ \A k \in K : report.settlements[k].status = "MATCHED"
        /\ \A i \in DOMAIN report.allocations :
             "UNALLOCATED_BANK_MOVEMENT" \notin report.allocations[i].reasons
    BY <1>3, <1>14, MatchedBatch
  <2>2. loose = {}
    <3>1. ASSUME NEW e \in B, Targets(S, e) = {}
          PROVE  "UNALLOCATED_BANK_MOVEMENT" \in report.allocations[e.serial].reasons
      BY <1>5, <3>1, LooseIsUnallocated
    <3> QED
      BY <1>4, <1>5, <2>1, <3>1 DEF loose
  <2>3. ASSUME NEW k \in K
        PROVE  report.settlements[k].net = report.settlements[k].bank
    <3> DEFINE n == Total(NetAmounts(S, k))
               l == Total(SettlementMovements(S, k))
               b == Total(BankMovements(S, k))
               deltas == [PROCESSOR_LEDGER_MISMATCH |-> n - l, PROCESSOR_BANK_MISMATCH |-> n - b,
                          LEDGER_BANK_MISMATCH |-> l - b]
    <3>1. n \in Int /\ l \in Int /\ b \in Int
      BY SettlementSums, TotalSteps
    <3>2. Deltas(S, k) = deltas
      BY DEF Deltas
    <3>4. Largest(Deltas(S, k)) = 0
      BY <1>4a, <2>1, <1>3
    <3> HIDE DEF n, l, b
    <3>5. Abs(deltas.PROCESSOR_BANK_MISMATCH) <= 0
      BY <3>1, <3>2, <3>4, LargestIsLargest
    <3>6. n = b
      BY <3>1, <3>5 DEF Abs
    <3>7. report.settlements[k].net = n /\ report.settlements[k].bank = b
      BY <1>4a DEF n, b
    <3> QED
      BY <3>6, <3>7
  <2>4. net = paid
    BY <1>3, <2>3 DEF paid
  <2>5. Total(looseSum) = 0
    BY <1>2, <1>7, <2>2, TotalSteps
  <2>6. Total(paid) \in Int
    BY <1>8, <1>9, TotalSteps
  <2> HIDE DEF net
  <2> QED
    BY <1>12, <2>4, <2>5, <2>6
<1> QED
  BY <1>12, <1>13, <1>14 DEF BankConserved, bank, loose, paid, looseSum
-----------------------------------------------------------------------------
(* The oracle's sums are the sums of the rules.                            *)

\* A ledger movement is a total over the clearing lines of a journal.
LEMMA MovementIsTotal ==
  ASSUME NEW j, IsFiniteSet(ClearingPostings(j)),
         \A p \in ClearingPostings(j) : TransactionSide(p.side) * p.amount \in Int
  PROVE  Movement(j) = Total([r \in ClearingPostings(j) |-> TransactionSide(r.side) * r.amount])
<1> DEFINE f == [r \in ClearingPostings(j) |-> TransactionSide(r.side) * r.amount]
           Sums(h) == h = [s \in SUBSET ClearingPostings(j) |->
                             IF s = {} THEN 0
                             ELSE TransactionSide((CHOOSE x \in s : TRUE).side) * (CHOOSE x \in s : TRUE).amount + h[s \ {CHOOSE x \in s : TRUE}]]
           g == CHOOSE g : Sums(g)
<1>1. ASSUME NEW h
      PROVE  Folds(h, f, ClearingPostings(j)) <=> Sums(h)
  <2>1. \A s \in SUBSET ClearingPostings(j) : s # {} => (CHOOSE x \in s : TRUE) \in ClearingPostings(j)
    OBVIOUS
  <2>2. \A s \in SUBSET ClearingPostings(j) : s # {} => f[CHOOSE x \in s : TRUE] = TransactionSide((CHOOSE x \in s : TRUE).side) * (CHOOSE x \in s : TRUE).amount
    BY <2>1
  <2> HIDE DEF f
  <2> QED
    BY <2>2 DEF Folds
<1>2. \A x \in ClearingPostings(j) : f[x] \in Int
  OBVIOUS
<1>3. Movement(j) = g[ClearingPostings(j)]
  BY Zenon DEF Movement, MapThenSumSet, MapThenFoldSet
<1> HIDE DEF f, Sums
<1>4. Folds(g, f, ClearingPostings(j))
  <2>1. \E h : Sums(h)
    BY <1>1, <1>2, FoldExists
  <2>2. Sums(g)
    BY <2>1, Zenon
  <2> QED
    BY <1>1, <2>2
<1>5. g[ClearingPostings(j)] = Total([r \in ClearingPostings(j) |-> f[r]])
  <2> HIDE DEF g
  <2> QED
    BY <1>2, <1>4, FoldIsTotal
<1> QED
  BY <1>3, <1>5 DEF f

\* What a side of the clearing lines of some journals adds up to.
LEMMA ClearedIsTotal ==
  ASSUME NEW S, IsFiniteSet(S), NEW side,
         \A j \in S : SumOf({p \in ClearingPostings(j) : p.side = side}) \in Int
  PROVE  ClearedOn(S, side) = Total([r \in S |-> SumOf({p \in ClearingPostings(r) : p.side = side})])
<1> DEFINE f == [r \in S |-> SumOf({p \in ClearingPostings(r) : p.side = side})]
           Sums(h) == h = [s \in SUBSET S |->
                             IF s = {} THEN 0
                             ELSE SumOf({p \in ClearingPostings((CHOOSE x \in s : TRUE)) : p.side = side}) + h[s \ {CHOOSE x \in s : TRUE}]]
           g == CHOOSE g : Sums(g)
<1>1. ASSUME NEW h
      PROVE  Folds(h, f, S) <=> Sums(h)
  <2>1. \A s \in SUBSET S : s # {} => (CHOOSE x \in s : TRUE) \in S
    OBVIOUS
  <2>2. \A s \in SUBSET S : s # {} => f[CHOOSE x \in s : TRUE] = SumOf({p \in ClearingPostings((CHOOSE x \in s : TRUE)) : p.side = side})
    BY <2>1
  <2> HIDE DEF f
  <2> QED
    BY <2>2 DEF Folds
<1>2. \A x \in S : f[x] \in Int
  OBVIOUS
<1>3. ClearedOn(S, side) = g[S]
  BY Zenon DEF ClearedOn, MapThenSumSet, MapThenFoldSet
<1> HIDE DEF f, Sums
<1>4. Folds(g, f, S)
  <2>1. \E h : Sums(h)
    BY <1>1, <1>2, FoldExists
  <2>2. Sums(g)
    BY <2>1, Zenon
  <2> QED
    BY <1>1, <2>2
<1>5. g[S] = Total([r \in S |-> f[r]])
  <2> HIDE DEF g
  <2> QED
    BY <1>2, <1>4, FoldIsTotal
<1> QED
  BY <1>3, <1>5 DEF f


\* Two opposite sides of some postings add up to the difference of their sums.
LEMMA SidesApart ==
  ASSUME NEW P, IsFiniteSet(P), \A p \in P : p.amount \in Int,
         NEW D, NEW C, D \cup C = P, D \cap C = {},
         NEW f \in [P -> Int],
         \A p \in D : f[p] = p.amount, \A p \in C : f[p] = -p.amount
  PROVE  SumOf(D) \in Int /\ SumOf(C) \in Int /\ Total(f) = SumOf(D) - SumOf(C)
<1> DEFINE d == [p \in D |-> p.amount]
           c == [p \in C |-> p.amount]
<1>1. /\ \A p \in D : f[p] = p.amount
      /\ \A p \in C : f[p] = -p.amount
  OBVIOUS
<1>2. Summable(f) /\ DOMAIN f = P
  BY SummableOn
<1>3. D \subseteq P /\ C \subseteq P /\ D \cap C = {} /\ D \cup C = P
  OBVIOUS
<1>4. IsFiniteSet(D) /\ IsFiniteSet(C)
  BY <1>3, FS_Subset
<1>5. \A p \in D \cup C : p.amount \in Int
  OBVIOUS
<1>6. SumOf(D) = Total(d) /\ SumOf(C) = Total(c)
  BY <1>4, <1>5, SumOfIsTotal
<1>7. Summable(d) /\ DOMAIN d = D /\ Summable(c) /\ DOMAIN c = C
  <2>1. d \in [D -> Int] /\ c \in [C -> Int]
    BY <1>5
  <2> HIDE DEF d, c
  <2> QED
    BY <1>4, <2>1, SummableOn
<1>8. Part(f, D) = d
  BY <1>1, <1>2, <1>3 DEF Part
<1>9. Total(Part(f, C)) = -Total(c)
  <2>1. Summable(Part(f, C)) /\ DOMAIN Part(f, C) = C /\ \A x \in C : Part(f, C)[x] = f[x]
    BY <1>2, <1>3, PartFacts
  <2>2. \A x \in C : c[x] = x.amount /\ f[x] = -x.amount /\ x.amount \in Int
    BY <1>1, <1>5
  <2>3. \A x \in DOMAIN c : Part(f, C)[x] = -c[x]
    BY <1>7, <2>1, <2>2
  <2> HIDE DEF c
  <2> QED
    BY <1>7, <2>1, <2>3, TotalNegated
<1>10. Total(f) = Total(Part(f, D)) + Total(Part(f, C))
  <2>1. Total(Part(f, D \cup C)) = Total(Part(f, D)) + Total(Part(f, C))
    BY <1>2, <1>3, TotalSplit
  <2>2. Part(f, D \cup C) = f
    BY <1>2, <1>3, TotalSteps
  <2> QED
    BY <2>1, <2>2
<1>11. Total(d) \in Int /\ Total(c) \in Int
  BY <1>7, TotalSteps
<1> HIDE DEF d, c
<1>12. SumOf(D) \in Int /\ SumOf(C) \in Int /\ Total(f) = SumOf(D) - SumOf(C)
  BY <1>6, <1>8, <1>9, <1>10, <1>11
<1> QED
  BY <1>12

\* The postings of a journal that conforms.
Posted(j) ==
  /\ IsFiniteSet(j.postings)
  /\ \A p \in j.postings : p.side \in {"DEBIT", "CREDIT"} /\ p.amount \in Int

\* What a side of a journal clears.
SideOf(j, side) == SumOf({p \in ClearingPostings(j) : p.side = side})

\* At the transaction grain a debit of the clearing account counts up, at the
\* settlement grain a credit does.
LEMMA MovementBySide ==
  ASSUME NEW j, Posted(j)
  PROVE  /\ SideOf(j, "DEBIT") \in Int /\ SideOf(j, "CREDIT") \in Int
         /\ Movement(j) = SideOf(j, "DEBIT") - SideOf(j, "CREDIT")
         /\ SettlementMovement(j) = SideOf(j, "CREDIT") - SideOf(j, "DEBIT")
<1> DEFINE P == ClearingPostings(j)
           f == [p \in P |-> IF p.side = "DEBIT" THEN p.amount ELSE -p.amount]
           g == [p \in P |-> IF p.side = "CREDIT" THEN p.amount ELSE -p.amount]
<1>1. P \subseteq j.postings
  BY DEF ClearingPostings
<1>2. IsFiniteSet(P) /\ \A p \in P : p.side \in {"DEBIT", "CREDIT"} /\ p.amount \in Int
  BY <1>1, FS_Subset DEF Posted
<1>3. /\ \A p \in P : TransactionSide(p.side) * p.amount
                       = IF p.side = "DEBIT" THEN p.amount ELSE -p.amount
      /\ \A p \in P : SettlementSide(p.side) * p.amount
                       = IF p.side = "CREDIT" THEN p.amount ELSE -p.amount
  BY <1>2 DEF TransactionSide, SettlementSide
<1>4. Movement(j) = Total(f)
  <2>1. \A p \in P : TransactionSide(p.side) * p.amount \in Int
    BY <1>2, <1>3
  <2>2. Movement(j) = Total([r \in P |-> TransactionSide(r.side) * r.amount])
    BY <1>2, <2>1, MovementIsTotal
  <2>3. [r \in P |-> TransactionSide(r.side) * r.amount] = f
    BY <1>3
  <2> QED
    BY <2>2, <2>3
<1>5. SettlementMovement(j) = Total(g)
  <2>1. \A p \in P : SettlementSide(p.side) * p.amount \in Int
    BY <1>2, <1>3
  <2>2. SettlementMovement(j) = Total([r \in P |-> SettlementSide(r.side) * r.amount])
    BY <1>2, <2>1, SettlementMovementIsTotal
  <2>3. [r \in P |-> SettlementSide(r.side) * r.amount] = g
    BY <1>3
  <2> QED
    BY <2>2, <2>3
<1> HIDE DEF P
<1> DEFINE D == {p \in P : p.side = "DEBIT"}
           C == {p \in P : p.side = "CREDIT"}
<1>7. SumOf(D) \in Int /\ SumOf(C) \in Int /\ Total(f) = SumOf(D) - SumOf(C)
  <2>1. /\ f \in [P -> Int]
        /\ \A p \in D : f[p] = p.amount
        /\ \A p \in C : f[p] = -p.amount
    BY <1>2
  <2>2. D \cup C = P /\ D \cap C = {}
    BY <1>2
  <2> HIDE DEF f, D, C
  <2> QED
    BY <1>2, <2>1, <2>2, SidesApart
<1>8. Total(g) = SumOf(C) - SumOf(D)
  <2>1. /\ g \in [P -> Int]
        /\ \A p \in C : g[p] = p.amount
        /\ \A p \in D : g[p] = -p.amount
    BY <1>2
  <2>2. C \cup D = P /\ C \cap D = {}
    BY <1>2
  <2> HIDE DEF g, D, C
  <2> QED
    BY <1>2, <2>1, <2>2, SidesApart
<1> QED
  BY <1>4, <1>5, <1>7, <1>8 DEF SideOf, P

\* The movements of some journals, one for each identity, add up to the
\* difference of what the sheets gather side by side.
LEMMA ClearedBySide ==
  ASSUME NEW S, IsFiniteSet(S), \A r, s \in S : r.serial = s.serial => r = s,
         \A j \in S : Posted(j),
         NEW plus \in {"DEBIT", "CREDIT"}, NEW minus \in {"DEBIT", "CREDIT"},
         NEW g, Summable(g), DOMAIN g = {r.serial : r \in S},
         \A j \in S : g[j.serial] = SideOf(j, plus) - SideOf(j, minus)
  PROVE  Total(g) = ClearedOn(S, plus) - ClearedOn(S, minus)
<1> DEFINE up == [j \in S |-> SideOf(j, plus)]
           down == [j \in S |-> SideOf(j, minus)]
           v == [j \in S |-> SideOf(j, plus) - SideOf(j, minus)]
<1>1. \A j \in S : SideOf(j, plus) \in Int /\ SideOf(j, minus) \in Int
  BY MovementBySide
<1>2. up \in [S -> Int] /\ down \in [S -> Int] /\ v \in [S -> Int]
  BY <1>1
<1>3. /\ \A j \in S : v[j] = up[j] - down[j]
      /\ \A j \in S : g[j.serial] = v[j]
  OBVIOUS
<1>4. ClearedOn(S, plus) = Total(up) /\ ClearedOn(S, minus) = Total(down)
  <2>1. ASSUME NEW side \in {plus, minus}
        PROVE  ClearedOn(S, side) = Total([r \in S |-> SideOf(r, side)])
    <3>1. \A j \in S : SumOf({p \in ClearingPostings(j) : p.side = side}) \in Int
      BY <1>1 DEF SideOf
    <3>2. ClearedOn(S, side)
            = Total([r \in S |-> SumOf({p \in ClearingPostings(r) : p.side = side})])
      BY <3>1, ClearedIsTotal
    <3> QED
      BY <3>2 DEF SideOf
  <2> QED
    BY <2>1
<1> HIDE DEF up, down, v
<1>5. /\ Summable(up) /\ DOMAIN up = S
      /\ Summable(down) /\ DOMAIN down = S
      /\ Summable(v) /\ DOMAIN v = S
  BY <1>2, SummableOn
<1>6. Total(v) = Total(up) - Total(down)
  BY <1>3, <1>5, TotalMinus
<1>7. Total(g) = Total(v)
  BY <1>3, <1>5, NamedTotal
<1> QED
  BY <1>4, <1>6, <1>7

\* The reasons that the oracle adds for a difference beyond the tolerance.
Mismatched(d, t, reasons, mismatches) ==
  IF reasons = {} /\ d > t THEN mismatches ELSE {}

\* The status of the rules and that of the oracle agree on the same difference,
\* tolerance and reasons.
LEMMA VerdictIsOracle ==
  ASSUME NEW d \in Nat, NEW t \in Nat, NEW reasons, NEW mismatches,
         d <= t \/ mismatches # {}
  PROVE  LET v == Verdict(d, t, reasons, mismatches)
             o == OracleStatus(d, t, reasons \cup Mismatched(d, t, reasons, mismatches))
         IN v.status = o.status /\ v.reasons = o.reasons
<1> DEFINE m == Mismatched(d, t, reasons, mismatches)
<1>1. CASE reasons # {}
  <2>1. reasons \cup m = reasons
    BY <1>1 DEF Mismatched
  <2> QED
    BY <1>1, <2>1 DEF Verdict, OracleStatus
<1>2. CASE reasons = {} /\ d = 0
  <2>1. reasons \cup m = {}
    BY <1>2 DEF Mismatched
  <2> QED
    BY <1>2, <2>1 DEF Verdict, OracleStatus
<1>3. CASE reasons = {} /\ d # 0 /\ d <= t
  <2>1. reasons \cup m = {} /\ d \in 1..t
    BY <1>3 DEF Mismatched
  <2> QED
    BY <1>3, <2>1 DEF Verdict, OracleStatus
<1>4. CASE reasons = {} /\ d > t
  <2>1. reasons \cup m = mismatches /\ d \notin 1..t /\ d # 0 /\ mismatches # {}
    BY <1>4 DEF Mismatched
  <2> QED
    BY <1>4, <2>1 DEF Verdict, OracleStatus
<1> QED
  BY <1>1, <1>2, <1>3, <1>4

\* The events of a key, as the rules sum them.
LEMMA ProcessorAmountsTotal ==
  ASSUME HeldInv, NEW key
  PROVE  LET R == Contents(transactions)
             E == Events(Rows(R, key))
         IN /\ SumOf(E) \in Int
            /\ Total(ProcessorAmounts(R, key)) = EventSign(key.class) * SumOf(E)
            /\ Summable(ProcessorAmounts(R, key))
            /\ DOMAIN ProcessorAmounts(R, key) = {r.serial : r \in E}
<1> DEFINE R == Contents(transactions)
           E == Events(Rows(R, key))
           a == Amounts(E)
           p == ProcessorAmounts(R, key)
<1>1. /\ OneEach(R) /\ IsFiniteSet(R)
      /\ \A e \in Events(R) : e.amount \in Nat
  BY TransactionEvidence
<1>2. E \subseteq R /\ \A e \in E : e \in Events(R)
  BY DEF Events, Rows
<1>3. OneEach(E) /\ IsFiniteSet(E) /\ \A e \in E : e.amount \in Int
  BY <1>1, <1>2, OneEachPart, FS_Subset
<1>4. p = [i \in {r.serial : r \in E} |-> EventSign(key.class) * a[i]]
  BY DEF ProcessorAmounts
<1> HIDE DEF E, a, p
<1>5. Summable(a) /\ DOMAIN a = {r.serial : r \in E} /\ Total(a) = SumOf(E)
  BY <1>3, AmountsTotal DEF a
<1>6. Total(a) \in Int
  BY <1>5, TotalSteps
<1>7. CASE key.class = "CAPTURE"
  <2>1. EventSign(key.class) = 1
    BY <1>7 DEF EventSign
  <2>2. p = a
    BY <1>4, <1>5, <2>1 DEF Summable
  <2> QED
    BY <1>5, <1>6, <2>1, <2>2 DEF p, E
<1>8. CASE key.class # "CAPTURE"
  <2>1. EventSign(key.class) = -1
    BY <1>8 DEF EventSign
  <2>2. \A i \in DOMAIN a : a[i] \in Int
    BY <1>5 DEF Summable
  <2>3. DOMAIN p = DOMAIN a /\ \A i \in DOMAIN a : p[i] = -a[i] /\ p[i] \in Int
    BY <1>4, <1>5, <2>1, <2>2
  <2>4. Summable(p)
    BY <1>4, <1>5, <2>3 DEF Summable
  <2>5. Total(p) = -Total(a)
    BY <1>5, <2>3, <2>4, TotalNegated
  <2> QED
    BY <1>5, <1>6, <2>1, <2>3, <2>4, <2>5 DEF p, E
<1> QED
  BY <1>7, <1>8

\* The journals of a key, as the rules sum them.
LEMMA LedgerMovementsTotal ==
  ASSUME HeldInv, NEW key
  PROVE  LET R == Contents(transactions)
             J == Journals(Rows(R, key))
         IN /\ Summable(LedgerMovements(R, key))
            /\ DOMAIN LedgerMovements(R, key) = {r.serial : r \in J}
            /\ Total(LedgerMovements(R, key)) \in Int
            /\ Total(LedgerMovements(R, key)) = ClearedOn(J, "DEBIT") - ClearedOn(J, "CREDIT")
<1> DEFINE R == Contents(transactions)
           J == Journals(Rows(R, key))
           v == [j \in J |-> Movement(j)]
           m == LedgerMovements(R, key)
<1>1. /\ OneEach(R) /\ IsFiniteSet(R)
      /\ \A j \in Journals(R) :
           /\ IsFiniteSet(j.postings)
           /\ \A p \in j.postings : p.side \in {"DEBIT", "CREDIT"} /\ p.amount \in Nat
  BY TransactionEvidence
<1>2. J \subseteq R /\ \A j \in J : j \in Journals(R)
  BY DEF Journals, Rows
<1>3. IsFiniteSet(J) /\ (\A r, s \in J : r.serial = s.serial => r = s) /\ \A j \in J : Posted(j)
  BY <1>1, <1>2, FS_Subset DEF OneEach, Posted
<1>4. m = [i \in {r.serial : r \in J} |-> Movement(CHOOSE r \in J : r.serial = i)]
  BY DEF LedgerMovements
<1> HIDE DEF J, m
<1>5. \A j \in J : /\ SideOf(j, "DEBIT") \in Int /\ SideOf(j, "CREDIT") \in Int
                   /\ Movement(j) = SideOf(j, "DEBIT") - SideOf(j, "CREDIT")
  BY <1>3, MovementBySide
<1>6. v \in [J -> Int] /\ \A j \in J : v[j] = Movement(j)
  BY <1>5
<1>7. m = [i \in {r.serial : r \in J} |-> v[CHOOSE r \in J : r.serial = i]]
  BY <1>4
<1> HIDE DEF v
<1>8. Summable(v) /\ DOMAIN v = J
  BY <1>3, <1>6, SummableOn
<1>9. /\ Summable(m) /\ DOMAIN m = {r.serial : r \in J}
      /\ \A r \in J : m[r.serial] = v[r]
  BY <1>3, <1>7, <1>8, ByIdentity
<1>10. \A j \in J : m[j.serial] = SideOf(j, "DEBIT") - SideOf(j, "CREDIT")
  BY <1>5, <1>6, <1>9
<1>11. Total(m) = ClearedOn(J, "DEBIT") - ClearedOn(J, "CREDIT")
  BY <1>3, <1>9, <1>10, ClearedBySide
<1>12. Total(m) \in Int
  BY <1>9, TotalSteps
<1> QED
  BY <1>9, <1>11, <1>12 DEF m, J

\* A finite set has no members exactly when it is empty.
LEMMA NoMembers ==
  ASSUME NEW S, IsFiniteSet(S)
  PROVE  Cardinality(S) = 0 <=> S = {}
BY FS_EmptySet

\* The oracle and the rules accept the same roles in a journal.
LEMMA RolesAgree ==
  ASSUME NEW policy, NEW j
  PROVE  RoleValid(policy, j)
           <=> /\ OneClearingLine(j.postings)
               /\ \A p \in j.postings :
                    IF p.role = "PROCESSOR_CLEARING"
                    THEN p.side = IF j.class = "CAPTURE" THEN "DEBIT" ELSE "CREDIT"
                    ELSE p.role \in policy.counterparts
<1>1. ClearingPostings(j) = {p \in j.postings : p.role = "PROCESSOR_CLEARING"}
  BY DEF ClearingPostings
<1> DEFINE C == {p \in j.postings : p.role = "PROCESSOR_CLEARING"}
<1>2. OneClearingLine(j.postings) <=> Cardinality(C) = 1
  BY DEF OneClearingLine
<1>3. \A p \in j.postings : p \in C <=> p.role = "PROCESSOR_CLEARING"
  OBVIOUS
<1>4. RoleValid(policy, j)
        <=> /\ Cardinality(C) = 1
            /\ \A p \in C : p.side = IF j.class = "CAPTURE" THEN "DEBIT" ELSE "CREDIT"
            /\ \A p \in j.postings \ C : p.role \in policy.counterparts
  BY <1>1 DEF RoleValid
<1>5. C \subseteq j.postings
  OBVIOUS
<1> HIDE DEF C
<1> QED
  BY <1>2, <1>3, <1>4, <1>5

\* What the sheet of a key says, in the terms of the rules.
LEMMA SheetFacts ==
  ASSUME HeldInv, NEW key
  PROVE  LET R == Contents(transactions)
             E == Events(Rows(R, key))
             J == Journals(Rows(R, key))
             s == TransactionSheet(key)
         IN /\ s.class = key.class
            /\ s.processorAmount = SumOf(E)
            /\ s.ledger = ClearedOn(J, "DEBIT") - ClearedOn(J, "CREDIT")
            /\ s.events = 0 <=> E = {}
            /\ s.journals = 0 <=> J = {}
            /\ s.tolerance = report.policy.transactionTolerance[key.currency]
            /\ s.rolesValid <=> \A j \in J : RoleValid(report.policy, j)
            /\ s.referenced <=> \E e \in E : e.reference # NoReference
            /\ s.resolved <=> \A e \in E : \E c \in Captures(R) : e \in Applications(R, c)
            /\ s.overApplied <=> \E c \in Captures(R) :
                 /\ Applications(R, c) \cap E # {}
                 /\ CapacityExceeded(c.amount, SumOf(Applications(R, c)))
<1> DEFINE R == Contents(transactions)
           E == Events(Rows(R, key))
           J == Journals(Rows(R, key))
           s == TransactionSheet(key)
           side == IF key.class = "CAPTURE" THEN "DEBIT" ELSE "CREDIT"
<1>1. /\ EventEvidence = Events(R)
      /\ CaptureEvidence = Captures(R)
      /\ JournalEvidence("TRANSACTION") = Journals(R)
  BY EvidenceParts
<1>2. /\ {r \in EventEvidence : TransactionKey(r) = key} = E
      /\ {r \in JournalEvidence("TRANSACTION") : TransactionKey(r) = key} = J
  BY <1>1 DEF Events, Journals, Rows
<1>3. \A c \in Captures(R) : UsesOf(c) = Applications(R, c)
  BY <1>1, UsesAreApplications
<1>4. IsFiniteSet(E) /\ IsFiniteSet(J)
  <2>1. IsFiniteSet(R) /\ E \subseteq R /\ J \subseteq R
    BY TransactionEvidence DEF Events, Journals, Rows
  <2> QED
    BY <2>1, FS_Subset
<1>5. \A j \in J : j.class = key.class
  BY DEF Journals, Rows, TransactionKey
<1> HIDE DEF E, J, R
<1>6. /\ s.class = key.class
      /\ s.processorAmount = SumOf(E)
      /\ s.ledger = ClearedOn(J, "DEBIT") - ClearedOn(J, "CREDIT")
      /\ s.events = Cardinality(E) /\ s.journals = Cardinality(J)
      /\ s.tolerance = report.policy.transactionTolerance[key.currency]
      /\ s.rolesValid = \A j \in J :
           /\ OneClearingLine(j.postings)
           /\ \A p \in j.postings : IF p.role = "PROCESSOR_CLEARING" THEN p.side = side
                                    ELSE p.role \in report.policy.counterparts
      /\ s.referenced = \E e \in E : e.reference # NoReference
      /\ s.resolved = \A e \in E : \E c \in CaptureEvidence : e \in UsesOf(c)
      /\ s.overApplied = \E c \in CaptureEvidence :
           UsesOf(c) \cap E # {} /\ CapacityExceeded(c.amount, SumOf(UsesOf(c)))
  BY <1>2, Zenon DEF TransactionSheet
<1> HIDE DEF s
<1>7. s.rolesValid <=> \A j \in J : RoleValid(report.policy, j)
  BY <1>5, <1>6, RolesAgree
<1>8. s.resolved <=> \A e \in E : \E c \in Captures(R) : e \in Applications(R, c)
  BY <1>1, <1>3, <1>6
<1>9. s.overApplied <=> \E c \in Captures(R) :
        /\ Applications(R, c) \cap E # {}
        /\ CapacityExceeded(c.amount, SumOf(Applications(R, c)))
  BY <1>1, <1>3, <1>6
<1>10. (s.events = 0 <=> E = {}) /\ (s.journals = 0 <=> J = {})
  BY <1>4, <1>6, NoMembers
<1> QED
  BY <1>6, <1>7, <1>8, <1>9, <1>10 DEF E, J, R, s

\* The oracle finds the reasons that the rules find.
LEMMA ReasonsAgree ==
  ASSUME HeldInv, NEW key
  PROVE  LET R == Contents(transactions)
             s == TransactionSheet(key)
         IN TransactionReasons(report.policy, R, key) =
              (IF s.events = 0 THEN {"MISSING_PROCESSOR_ACTIVITY"} ELSE {})
                \cup (IF s.journals = 0 THEN {"MISSING_LEDGER_MOVEMENT"} ELSE {})
                \cup (IF s.rolesValid THEN {} ELSE {"INVALID_ACCOUNT_ROLE"})
                \cup (IF s.class # "CAPTURE" /\ ~s.resolved THEN {"UNRESOLVED_REFERENCE"} ELSE {})
                \cup (IF s.class = "CAPTURE" /\ s.referenced THEN {"UNRESOLVED_REFERENCE"} ELSE {})
                \cup (IF s.class # "CAPTURE" /\ s.overApplied THEN {"OVER_APPLIED_REFERENCE"} ELSE {})
<1> DEFINE R == Contents(transactions)
           E == Events(Rows(R, key))
           J == Journals(Rows(R, key))
           s == TransactionSheet(key)
           reasons == TransactionReasons(report.policy, R, key)
           unresolved == \E e \in E : Unresolved(R, e)
           over == \E e \in E : \E c \in Captures(R) : AppliesTo(e, c) /\ OverApplied(R, c)
           semantic ==
             (IF s.events = 0 THEN {"MISSING_PROCESSOR_ACTIVITY"} ELSE {})
                \cup (IF s.journals = 0 THEN {"MISSING_LEDGER_MOVEMENT"} ELSE {})
                \cup (IF s.rolesValid THEN {} ELSE {"INVALID_ACCOUNT_ROLE"})
                \cup (IF s.class # "CAPTURE" /\ ~s.resolved THEN {"UNRESOLVED_REFERENCE"} ELSE {})
                \cup (IF s.class = "CAPTURE" /\ s.referenced THEN {"UNRESOLVED_REFERENCE"} ELSE {})
                \cup (IF s.class # "CAPTURE" /\ s.overApplied THEN {"OVER_APPLIED_REFERENCE"} ELSE {})
<1>1. /\ s.class = key.class
      /\ s.events = 0 <=> E = {}
      /\ s.journals = 0 <=> J = {}
      /\ s.rolesValid <=> \A j \in J : RoleValid(report.policy, j)
      /\ s.referenced <=> \E e \in E : e.reference # NoReference
      /\ s.resolved <=> \A e \in E : \E c \in Captures(R) : e \in Applications(R, c)
      /\ s.overApplied <=> \E c \in Captures(R) :
           /\ Applications(R, c) \cap E # {}
           /\ CapacityExceeded(c.amount, SumOf(Applications(R, c)))
  BY SheetFacts
<1>2. reasons =
        {x \in {"UNRESOLVED_REFERENCE"} : unresolved}
          \cup {x \in {"OVER_APPLIED_REFERENCE"} : over}
          \cup {x \in {"INVALID_ACCOUNT_ROLE"} : \E j \in J : ~RoleValid(report.policy, j)}
          \cup {x \in {"MISSING_PROCESSOR_ACTIVITY"} : E = {}}
          \cup {x \in {"MISSING_LEDGER_MOVEMENT"} : J = {}}
  BY DEF TransactionReasons, ReferenceReasons
<1>3. \A e \in E : e \in Events(R) /\ e.class = key.class
  BY DEF Events, Rows, TransactionKey
<1>4. /\ OneEach(R) /\ IsFiniteSet(R)
      /\ \A e \in Events(R) : e.amount \in Nat
  BY TransactionEvidence
<1>5. ASSUME NEW c \in Captures(R)
      PROVE  OverApplied(R, c) <=> CapacityExceeded(c.amount, SumOf(Applications(R, c)))
  <2> DEFINE A == Applications(R, c)
  <2>1. A \subseteq R /\ \A e \in A : e \in Events(R)
    BY DEF Applications, Events
  <2>2. OneEach(A) /\ IsFiniteSet(A) /\ \A e \in A : e.amount \in Int
    BY <1>4, <2>1, OneEachPart, FS_Subset
  <2>3. c.amount \in Int
    BY <1>4 DEF Captures
  <2> HIDE DEF A
  <2>4. Summable(Amounts(A)) /\ Total(Amounts(A)) = SumOf(A)
    BY <2>2, AmountsTotal
  <2>5. SumOf(A) \in Int
    BY <2>4, TotalSteps
  <2> QED
    BY <2>3, <2>4, <2>5 DEF OverApplied, CapacityExceeded, A
<1>6. ASSUME NEW e \in E, NEW c
      PROVE  e \in Applications(R, c) <=> AppliesTo(e, c)
  BY <1>3 DEF Applications
<1> HIDE DEF R, E, J, s
<1>7. \A e \in E : \A c : AppliesTo(e, c) => key.class # "CAPTURE"
  BY <1>3 DEF AppliesTo
<1>8. over <=> s.class # "CAPTURE" /\ s.overApplied
  BY <1>1, <1>5, <1>6, <1>7
<1>9. unresolved <=> \/ s.class # "CAPTURE" /\ ~s.resolved
                     \/ s.class = "CAPTURE" /\ s.referenced
  BY <1>1, <1>3, <1>6 DEF Unresolved
<1> HIDE DEF reasons, unresolved, over
<1>10. semantic =
         {x \in {"UNRESOLVED_REFERENCE"} : unresolved}
          \cup {x \in {"OVER_APPLIED_REFERENCE"} : over}
          \cup {x \in {"INVALID_ACCOUNT_ROLE"} : \E j \in J : ~RoleValid(report.policy, j)}
          \cup {x \in {"MISSING_PROCESSOR_ACTIVITY"} : E = {}}
          \cup {x \in {"MISSING_LEDGER_MOVEMENT"} : J = {}}
  BY <1>1, <1>8, <1>9
<1>11. reasons = semantic
  BY <1>2, <1>10
<1> QED
  BY <1>11 DEF reasons, R, s

\* A candidate is what the oracle expects of its key.
LEMMA TransactionMatches ==
  ASSUME HeldInv, accepted # {}, NEW key \in TransactionKeys(Contents(transactions))
  PROVE  LET c == TransactionCandidate(report.policy, Contents(transactions), key)
             x == TransactionExpectation(TransactionSheet(key))
         IN \A f \in DOMAIN x : c[f] = x[f]
<1> DEFINE R == Contents(transactions)
           s == TransactionSheet(key)
           c == TransactionCandidate(report.policy, R, key)
           x == TransactionExpectation(s)
           processor == (IF s.class = "CAPTURE" THEN 1 ELSE -1) * s.processorAmount
           delta == processor - s.ledger
           semantic ==
             (IF s.events = 0 THEN {"MISSING_PROCESSOR_ACTIVITY"} ELSE {})
                \cup (IF s.journals = 0 THEN {"MISSING_LEDGER_MOVEMENT"} ELSE {})
                \cup (IF s.rolesValid THEN {} ELSE {"INVALID_ACCOUNT_ROLE"})
                \cup (IF s.class # "CAPTURE" /\ ~s.resolved THEN {"UNRESOLVED_REFERENCE"} ELSE {})
                \cup (IF s.class = "CAPTURE" /\ s.referenced THEN {"UNRESOLVED_REFERENCE"} ELSE {})
                \cup (IF s.class # "CAPTURE" /\ s.overApplied THEN {"OVER_APPLIED_REFERENCE"} ELSE {})
           mismatch == IF semantic = {} /\ Size(delta) > s.tolerance
                       THEN {"PROCESSOR_LEDGER_MISMATCH"} ELSE {}
           expected == OracleStatus(Size(delta), s.tolerance, semantic \cup mismatch)
           p == Total(ProcessorAmounts(R, key))
           l == Total(LedgerMovements(R, key))
           tolerance == report.policy.transactionTolerance[key.currency]
           reasons == TransactionReasons(report.policy, R, key)
           verdict == Verdict(Abs(p - l), tolerance, reasons, {"PROCESSOR_LEDGER_MISMATCH"})
<1>1. /\ x = [processor |-> processor, ledger |-> s.ledger, delta |-> delta,
              status |-> expected.status, reasons |-> expected.reasons]
      /\ c.processor = p /\ c.ledger = l /\ c.delta = p - l
      /\ c.status = verdict.status /\ c.reasons = verdict.reasons
  BY Zenon DEF TransactionExpectation, TransactionCandidate
<1>2. /\ s.class = key.class
      /\ s.processorAmount = SumOf(Events(Rows(R, key)))
      /\ s.ledger = ClearedOn(Journals(Rows(R, key)), "DEBIT")
                      - ClearedOn(Journals(Rows(R, key)), "CREDIT")
      /\ s.tolerance = tolerance
  BY SheetFacts
<1>3. reasons = semantic
  BY ReasonsAgree
<1>4. tolerance \in Nat
  <2>1. PICK d \in R : key = TransactionKey(d)
    BY DEF TransactionKeys
  <2>2. PICK b \in accepted : report.policy = b.policy
    BY DEF HeldInv, Reported
  <2>3. b \in Bundles
    BY DEF HeldInv, ReplayInv
  <2>4. b.policy.transactionTolerance[d.currency] \in Nat
    BY <2>3, TransactionEvidence
  <2>5. key.currency = d.currency
    BY <2>1 DEF TransactionKey
  <2> QED
    BY <2>2, <2>4, <2>5
<1>5. l \in Int /\ l = s.ledger
  BY <1>2, LedgerMovementsTotal
<1>6. SumOf(Events(Rows(R, key))) \in Int
      /\ p = EventSign(key.class) * SumOf(Events(Rows(R, key)))
  BY ProcessorAmountsTotal
<1>7. p \in Int /\ p = processor
  BY <1>2, <1>6 DEF EventSign
<1> HIDE DEF s, R, c, x, processor, semantic, reasons, tolerance, l, p
<1>8. Abs(p - l) \in Nat /\ Abs(p - l) = Size(delta)
  BY <1>5, <1>7 DEF Abs, Size
<1> DEFINE m == {"PROCESSOR_LEDGER_MISMATCH"}
           difference == Abs(p - l)
<1>9. difference \in Nat
  BY <1>8
<1>10. mismatch = Mismatched(difference, tolerance, reasons, m)
  BY <1>2, <1>3, <1>8 DEF Mismatched
<1>11. expected = OracleStatus(difference, tolerance, reasons \cup mismatch)
  BY <1>2, <1>3, <1>8
<1> HIDE DEF mismatch, m, expected, difference
<1>12. /\ Verdict(difference, tolerance, reasons, m).status = expected.status
       /\ Verdict(difference, tolerance, reasons, m).reasons = expected.reasons
  <2>1. difference <= tolerance \/ m # {}
    BY DEF m
  <2> QED
    BY <1>4, <1>9, <1>10, <1>11, <2>1, VerdictIsOracle
<1>13. verdict = Verdict(difference, tolerance, reasons, m)
  BY DEF m, difference
<1> HIDE DEF verdict, delta
<1>14. delta = p - l
  BY <1>5, <1>7 DEF delta
<1>15. \A f \in DOMAIN x : c[f] = x[f]
  BY <1>1, <1>5, <1>7, <1>12, <1>13, <1>14
<1> QED
  BY <1>15 DEF c, x, s, R

\* Every transaction candidate is what the oracle expects of the evidence.
LEMMA TransactionsMatch ==
  ASSUME HeldInv
  PROVE  TransactionsMatchOracle
<1> SUFFICES ASSUME accepted # {}
             PROVE  /\ DOMAIN report.transactions =
                         {TransactionKey(r) : r \in EventEvidence \cup JournalEvidence("TRANSACTION")}
                    /\ \A key \in DOMAIN report.transactions :
                         LET expected == TransactionExpectation(TransactionSheet(key)) IN
                         \A f \in DOMAIN expected : report.transactions[key][f] = expected[f]
  BY DEF TransactionsMatchOracle
<1> DEFINE R == Contents(transactions)
<1>1. report.transactions = TransactionCandidates(report.policy, R)
  BY ReportOfEvidence
<1>2. EventEvidence \cup JournalEvidence("TRANSACTION") = R
  <2>1. EventEvidence = Events(R) /\ JournalEvidence("TRANSACTION") = Journals(R)
    BY EvidenceParts
  <2>2. \A d \in R : AtTransactionGrain(d)
    BY EvidenceIsHeld
  <2> QED
    BY <2>1, <2>2 DEF Events, Journals, AtTransactionGrain
<1>3. /\ DOMAIN report.transactions = TransactionKeys(R)
      /\ \A key \in TransactionKeys(R) :
           report.transactions[key] = TransactionCandidate(report.policy, R, key)
  BY <1>1 DEF TransactionCandidates
<1>4. TransactionKeys(R) = {TransactionKey(r) : r \in EventEvidence \cup JournalEvidence("TRANSACTION")}
  BY <1>2 DEF TransactionKeys
<1> QED
  BY <1>3, <1>4, TransactionMatches

-----------------------------------------------------------------------------
(* The oracle at the settlement grain.                                     *)

\* What the oracle calls net is a total over the settlement records.
LEMMA OwnNetIsTotal ==
  ASSUME NEW S, IsFiniteSet(S), \A r \in S : OwnNet(r) \in Int
  PROVE  MapThenSumSet(LAMBDA r : OwnNet(r), S) = Total([r \in S |-> OwnNet(r)])
<1> DEFINE f == [r \in S |-> OwnNet(r)]
           Sums(h) == h = [s \in SUBSET S |->
                             IF s = {} THEN 0
                             ELSE OwnNet((CHOOSE x \in s : TRUE)) + h[s \ {CHOOSE x \in s : TRUE}]]
           g == CHOOSE g : Sums(g)
<1>1. ASSUME NEW h
      PROVE  Folds(h, f, S) <=> Sums(h)
  <2>1. \A s \in SUBSET S : s # {} => (CHOOSE x \in s : TRUE) \in S
    OBVIOUS
  <2>2. \A s \in SUBSET S : s # {} => f[CHOOSE x \in s : TRUE] = OwnNet((CHOOSE x \in s : TRUE))
    BY <2>1
  <2> HIDE DEF f
  <2> QED
    BY <2>2 DEF Folds
<1>2. \A x \in S : f[x] \in Int
  OBVIOUS
<1>3. MapThenSumSet(LAMBDA r : OwnNet(r), S) = g[S]
  BY Zenon DEF MapThenSumSet, MapThenFoldSet
<1> HIDE DEF f, Sums
<1>4. Folds(g, f, S)
  <2>1. \E h : Sums(h)
    BY <1>1, <1>2, FoldExists
  <2>2. Sums(g)
    BY <2>1, Zenon
  <2> QED
    BY <1>1, <2>2
<1>5. g[S] = Total([r \in S |-> f[r]])
  <2> HIDE DEF g
  <2> QED
    BY <1>2, <1>4, FoldIsTotal
<1> QED
  BY <1>3, <1>5 DEF f

\* What the oracle calls bank is a total over the bank entries.
LEMMA OracleBankIsTotal ==
  ASSUME NEW S, IsFiniteSet(S), \A e \in S : (IF e.direction = "CREDIT" THEN 1 ELSE -1) * e.amount \in Int
  PROVE  MapThenSumSet(LAMBDA e : (IF e.direction = "CREDIT" THEN 1 ELSE -1) * e.amount, S) = Total([r \in S |-> (IF r.direction = "CREDIT" THEN 1 ELSE -1) * r.amount])
<1> DEFINE f == [r \in S |-> (IF r.direction = "CREDIT" THEN 1 ELSE -1) * r.amount]
           Sums(h) == h = [s \in SUBSET S |->
                             IF s = {} THEN 0
                             ELSE (IF (CHOOSE x \in s : TRUE).direction = "CREDIT" THEN 1 ELSE -1) * (CHOOSE x \in s : TRUE).amount + h[s \ {CHOOSE x \in s : TRUE}]]
           g == CHOOSE g : Sums(g)
<1>1. ASSUME NEW h
      PROVE  Folds(h, f, S) <=> Sums(h)
  <2>1. \A s \in SUBSET S : s # {} => (CHOOSE x \in s : TRUE) \in S
    OBVIOUS
  <2>2. \A s \in SUBSET S : s # {} => f[CHOOSE x \in s : TRUE] = (IF (CHOOSE x \in s : TRUE).direction = "CREDIT" THEN 1 ELSE -1) * (CHOOSE x \in s : TRUE).amount
    BY <2>1
  <2> HIDE DEF f
  <2> QED
    BY <2>2 DEF Folds
<1>2. \A x \in S : f[x] \in Int
  OBVIOUS
<1>3. MapThenSumSet(LAMBDA e : (IF e.direction = "CREDIT" THEN 1 ELSE -1) * e.amount, S) = g[S]
  BY Zenon DEF MapThenSumSet, MapThenFoldSet
<1> HIDE DEF f, Sums
<1>4. Folds(g, f, S)
  <2>1. \E h : Sums(h)
    BY <1>1, <1>2, FoldExists
  <2>2. Sums(g)
    BY <2>1, Zenon
  <2> QED
    BY <1>1, <2>2
<1>5. g[S] = Total([r \in S |-> f[r]])
  <2> HIDE DEF g
  <2> QED
    BY <1>2, <1>4, FoldIsTotal
<1> QED
  BY <1>3, <1>5 DEF f

\* The contents of some settlement records are as many records, with the same
\* identities.
LEMMA ContentsByIdentity ==
  ASSUME HeldInv, NEW N, N \subseteq settlements
  PROVE  LET D == {BusinessDigest(r) : r \in N} IN
         /\ IsFiniteSet(D) /\ IsFiniteSet(N)
         /\ \A d, e \in D : d.serial = e.serial => d = e
         /\ {d.serial : d \in D} = {r.serial : r \in N}
         /\ N = {} <=> D = {}
<1> DEFINE D == {BusinessDigest(r) : r \in N}
           f == [r \in N |-> BusinessDigest(r)]
<1>1. /\ IsFiniteSet(settlements)
      /\ \A r, s \in settlements : r.serial = s.serial => r = s
      /\ \A r \in settlements : BusinessDigest(r).serial = r.serial
  BY SettlementRecords
<1>2. IsFiniteSet(N)
  BY <1>1, FS_Subset
<1>3. IsFiniteSet(D)
  <2>1. DOMAIN f = N /\ D = {f[r] : r \in N}
    OBVIOUS
  <2> HIDE DEF f, D
  <2> QED
    BY <1>2, <2>1, ImageIsFinite
<1>4. \A d, e \in D : d.serial = e.serial => d = e
  BY <1>1
<1>5. {d.serial : d \in D} = {r.serial : r \in N}
  <2>1. \A d \in D : \E r \in N : d.serial = r.serial
    BY <1>1
  <2>2. \A r \in N : \E d \in D : d.serial = r.serial
    BY <1>1
  <2> HIDE DEF D
  <2> QED
    BY <2>1, <2>2
<1> QED
  BY <1>2, <1>3, <1>4, <1>5

\* The evidence of a settlement key is the content of its records.
LEMMA KeyEvidence ==
  ASSUME HeldInv, accepted # {}, NEW key \in SettlementKeys(settlements)
  PROVE  LET s == SettlementSheet(key)
             N == Settlements(SettlementRows(settlements, key))
             J == Journals(SettlementRows(settlements, key))
             A == AllocatedTo(settlements, key)
         IN /\ s.settlements = {BusinessDigest(r) : r \in N}
            /\ {r \in JournalEvidence("SETTLEMENT") : SettlementKey(r) = key}
                 = {BusinessDigest(r) : r \in J}
            /\ s.bank = {BusinessDigest(e) : e \in A}
            /\ \A e \in A : <<e.merchant, e.currency>> = <<key.merchant, key.currency>>
<1> DEFINE S == settlements
           s == SettlementSheet(key)
           N == Settlements(SettlementRows(S, key))
           J == Journals(SettlementRows(S, key))
           A == AllocatedTo(S, key)
           Meets(e) == /\ e.reference # NoReference
                       /\ Normalized[e.reference] = Normalized[key.settlement]
                       /\ e.merchant = key.merchant /\ e.currency = key.currency
<1>1. \A r \in S :
        LET d == BusinessDigest(r) IN
        /\ d.family = r.family
        /\ IsBank(r) => \A f \in BankFields : d[f] = r[f]
        /\ ~IsBank(r) => \A f \in SettlementFields : d[f] = r[f]
  BY SettlementRecords
<1>2. \A r \in S : LET d == BusinessDigest(r) IN
        /\ IsBank(d) <=> IsBank(r)
        /\ IsSettlement(d) <=> IsSettlement(r)
        /\ IsJournal(d) <=> IsJournal(r)
        /\ ~IsBank(r) => SettlementKey(d) = SettlementKey(r)
  BY <1>1 DEF IsBank, IsSettlement, IsJournal, SettlementKey, SettlementFields
<1>3. \A r \in S : IsBank(r) => (Meets(BusinessDigest(r)) <=> Meets(r))
  BY <1>1 DEF BankFields
<1>4. /\ BankEvidence = BankEntries(Contents(S))
      /\ JournalEvidence("SETTLEMENT") = Journals(Contents(S))
      /\ Evidence = Contents(transactions) \cup Contents(S)
      /\ \A d \in Contents(transactions) : AtTransactionGrain(d)
  BY EvidenceParts, EvidenceIsHeld
<1>5. \A d : d \in Contents(S) <=> \E r \in S : d = BusinessDigest(r)
  BY DEF Contents
<1>6. /\ \A r : IsSettlement(r) => ~IsBank(r) /\ ~AtTransactionGrain(r)
      /\ \A r : IsJournal(r) => ~IsBank(r)
  BY DEF IsSettlement, IsBank, IsJournal, AtTransactionGrain, IsEvent
<1>7. /\ \A r : r \in N <=> r \in S /\ IsSettlement(r) /\ SettlementKey(r) = key
      /\ \A r : r \in J <=> r \in S /\ IsJournal(r) /\ SettlementKey(r) = key
  BY <1>6 DEF Settlements, Journals, SettlementRows, Keyed
<1>8. \A e : e \in A <=> e \in S /\ IsBank(e) /\ Meets(e)
  <2>1. ASSUME NEW e \in BankEntries(S)
        PROVE  key \in Targets(S, e) <=> Meets(e)
    BY DEF Targets
  <2>2. TargetsUnique(S)
    BY DEF HeldInv, ReplayInv
  <2>3. ASSUME NEW e \in BankEntries(S)
        PROVE  Targets(S, e) = {key} <=> key \in Targets(S, e)
    BY <2>2, OneTarget
  <2> HIDE DEF Meets
  <2> QED
    BY <2>1, <2>3 DEF AllocatedTo, BankEntries
<1>9. /\ s.settlements = {r \in Evidence : IsSettlement(r) /\ SettlementKey(r) = key}
      /\ s.bank = {e \in BankEvidence : Meets(e)}
  BY DEF SettlementSheet
<1> HIDE DEF S, s, N, J, A
<1>10. s.settlements = {BusinessDigest(r) : r \in N}
  BY <1>2, <1>4, <1>5, <1>6, <1>7, <1>9
<1>11. {r \in JournalEvidence("SETTLEMENT") : SettlementKey(r) = key}
         = {BusinessDigest(r) : r \in J}
  BY <1>2, <1>4, <1>5, <1>6, <1>7 DEF Journals
<1>12. s.bank = {BusinessDigest(e) : e \in A}
  <2> HIDE DEF Meets
  <2> QED
    BY <1>2, <1>3, <1>4, <1>5, <1>8, <1>9 DEF BankEntries
<1>13. \A e \in A : <<e.merchant, e.currency>> = <<key.merchant, key.currency>>
  BY <1>8
<1> QED
  BY <1>10, <1>11, <1>12, <1>13 DEF S, s, N, J, A

\* The oracle's net, ledger and bank of a key are the sums of the rules.
LEMMA SettlementFigures ==
  ASSUME HeldInv, accepted # {}, NEW key \in SettlementKeys(settlements)
  PROVE  LET s == SettlementSheet(key)
         IN /\ MapThenSumSet(LAMBDA r : OwnNet(r), s.settlements)
                 = Total(NetAmounts(settlements, key))
            /\ s.ledger = Total(SettlementMovements(settlements, key))
            /\ MapThenSumSet(LAMBDA e : (IF e.direction = "CREDIT" THEN 1 ELSE -1) * e.amount,
                             s.bank)
                 = Total(BankMovements(settlements, key))
            /\ Total(NetAmounts(settlements, key)) \in Int
            /\ Total(SettlementMovements(settlements, key)) \in Int
            /\ Total(BankMovements(settlements, key)) \in Int
<1> DEFINE S == settlements
           s == SettlementSheet(key)
           N == Settlements(SettlementRows(S, key))
           J == Journals(SettlementRows(S, key))
           A == AllocatedTo(S, key)
           ND == {BusinessDigest(r) : r \in N}
           JD == {BusinessDigest(r) : r \in J}
           AD == {BusinessDigest(r) : r \in A}
           nets == NetAmounts(S, key)
           moved == SettlementMovements(S, key)
           paid == BankMovements(S, key)
           Signed(e) == (IF e.direction = "CREDIT" THEN 1 ELSE -1) * e.amount
           nv == [d \in ND |-> OwnNet(d)]
           av == [d \in AD |-> Signed(d)]
<1>1. /\ Summable(nets) /\ DOMAIN nets = {r.serial : r \in N}
      /\ \A r \in N : nets[r.serial] = Net(r)
      /\ Summable(moved) /\ DOMAIN moved = {r.serial : r \in J}
      /\ \A j \in J : moved[j.serial] = SettlementMovement(j)
      /\ Summable(paid) /\ DOMAIN paid = {e.serial : e \in A}
      /\ \A e \in A : paid[e.serial] = BankMovement(e)
  BY SettlementSums
<1>2. Total(nets) \in Int /\ Total(moved) \in Int /\ Total(paid) \in Int
  BY <1>1, TotalSteps
<1>3. /\ N \subseteq S /\ \A r \in N : IsSettlement(r)
      /\ J \subseteq S /\ \A r \in J : IsJournal(r)
      /\ A \subseteq S /\ \A r \in A : IsBank(r)
  BY DEF Settlements, Journals, SettlementRows, Keyed, AllocatedTo, BankEntries
<1>4. \A r \in S :
        LET d == BusinessDigest(r) IN
        /\ Conforms(r) /\ d.serial = r.serial
        /\ IsBank(r) => \A f \in BankFields : d[f] = r[f]
        /\ IsSettlement(r) => \A f \in MoneyFields : d[f] = r[f]
        /\ IsJournal(r) => d.postings = r.postings
  BY SettlementRecords
<1>5. /\ s.settlements = ND
      /\ {r \in JournalEvidence("SETTLEMENT") : SettlementKey(r) = key} = JD
      /\ s.bank = AD
  BY KeyEvidence
<1>6. s.ledger = ClearedOn(JD, "CREDIT") - ClearedOn(JD, "DEBIT")
  <2>1. s.ledger
          = ClearedOn({r \in JournalEvidence("SETTLEMENT") : SettlementKey(r) = key}, "CREDIT")
              - ClearedOn({r \in JournalEvidence("SETTLEMENT") : SettlementKey(r) = key}, "DEBIT")
    BY Zenon DEF SettlementSheet
  <2> HIDE DEF s, JD
  <2> QED
    BY <1>5, <2>1
<1>7. /\ IsFiniteSet(ND) /\ (\A d, e \in ND : d.serial = e.serial => d = e)
      /\ {d.serial : d \in ND} = {r.serial : r \in N}
      /\ IsFiniteSet(JD) /\ (\A d, e \in JD : d.serial = e.serial => d = e)
      /\ {d.serial : d \in JD} = {r.serial : r \in J}
      /\ IsFiniteSet(AD) /\ (\A d, e \in AD : d.serial = e.serial => d = e)
      /\ {d.serial : d \in AD} = {r.serial : r \in A}
  BY <1>3, ContentsByIdentity
<1> HIDE DEF S, N, J, A, s, nets, moved, paid
<1>8. \A d \in ND : OwnNet(d) \in Int /\ nets[d.serial] = OwnNet(d)
  <2>1. SUFFICES ASSUME NEW r \in N
                 PROVE  /\ OwnNet(BusinessDigest(r)) \in Int
                        /\ nets[BusinessDigest(r).serial] = OwnNet(BusinessDigest(r))
    OBVIOUS
  <2>2. \A f \in MoneyFields : r[f] \in Int /\ BusinessDigest(r)[f] = r[f]
    BY <1>3, <1>4, MaxMinorAssumption DEF Conforms, Minor
  <2>3. nets[BusinessDigest(r).serial] = Net(r)
    BY <1>1, <1>3, <1>4
  <2> QED
    BY <2>2, <2>3 DEF MoneyFields, OwnNet, Net
<1>9. \A d \in AD : Signed(d) \in Int /\ paid[d.serial] = Signed(d)
  <2>1. SUFFICES ASSUME NEW r \in A
                 PROVE  /\ Signed(BusinessDigest(r)) \in Int
                        /\ paid[BusinessDigest(r).serial] = Signed(BusinessDigest(r))
    OBVIOUS
  <2> DEFINE d == BusinessDigest(r)
  <2>2. /\ r.amount \in Int /\ d.amount = r.amount /\ d.direction = r.direction
        /\ d.serial = r.serial
    BY <1>3, <1>4, MaxMinorAssumption DEF Conforms, BankFields
  <2>3. paid[d.serial] = BankMovement(r)
    BY <1>1, <2>2
  <2> HIDE DEF d
  <2>4. Signed(d) \in Int /\ paid[d.serial] = Signed(d)
    BY <2>2, <2>3 DEF BankMovement, BankSide
  <2> QED
    BY <2>4 DEF d
<1>10. \A d \in JD : /\ Posted(d)
                     /\ moved[d.serial] = SideOf(d, "CREDIT") - SideOf(d, "DEBIT")
  <2>1. SUFFICES ASSUME NEW r \in J
                 PROVE  LET d == BusinessDigest(r) IN
                        /\ Posted(d)
                        /\ moved[d.serial] = SideOf(d, "CREDIT") - SideOf(d, "DEBIT")
    OBVIOUS
  <2> DEFINE d == BusinessDigest(r)
  <2>2. d.postings = r.postings /\ d.serial = r.serial
    BY <1>3, <1>4
  <2>3. Posted(r)
    BY <1>3, <1>4, MaxMinorAssumption DEF Conforms, Posted
  <2> HIDE DEF d
  <2>4. ClearingPostings(d) = ClearingPostings(r) /\ Posted(d)
    BY <2>2, <2>3 DEF ClearingPostings, Posted
  <2>5. SettlementMovement(r) = SideOf(r, "CREDIT") - SideOf(r, "DEBIT")
    BY <2>3, MovementBySide
  <2>6. SideOf(d, "CREDIT") = SideOf(r, "CREDIT") /\ SideOf(d, "DEBIT") = SideOf(r, "DEBIT")
    BY <2>4 DEF SideOf
  <2>7. moved[d.serial] = SettlementMovement(r)
    BY <1>1, <2>2
  <2>8. Posted(d) /\ moved[d.serial] = SideOf(d, "CREDIT") - SideOf(d, "DEBIT")
    BY <2>4, <2>5, <2>6, <2>7
  <2> QED
    BY <2>8 DEF d
<1>11. nv \in [ND -> Int] /\ av \in [AD -> Int]
  BY <1>8, <1>9
<1> HIDE DEF ND, JD, AD
<1>12. MapThenSumSet(LAMBDA r : OwnNet(r), ND) = Total(nets)
  <2>1. MapThenSumSet(LAMBDA r : OwnNet(r), ND) = Total([r \in ND |-> OwnNet(r)])
    BY <1>7, <1>8, OwnNetIsTotal
  <2>2. \A d \in ND : nets[d.serial] = nv[d]
    BY <1>8
  <2> HIDE DEF nv
  <2>3. Summable(nv) /\ DOMAIN nv = ND
    BY <1>7, <1>11, SummableOn
  <2>4. DOMAIN nets = {d.serial : d \in ND}
    BY <1>1, <1>7
  <2>7. Summable(nets) /\ \A r, e \in ND : r.serial = e.serial => r = e
    BY <1>1, <1>7
  <2>5. Total(nets) = Total(nv)
    BY <2>2, <2>3, <2>4, <2>7, NamedTotal
  <2> QED
    BY <2>1, <2>5 DEF nv
<1>13. MapThenSumSet(LAMBDA e : (IF e.direction = "CREDIT" THEN 1 ELSE -1) * e.amount, AD)
         = Total(paid)
  <2>1. MapThenSumSet(LAMBDA e : (IF e.direction = "CREDIT" THEN 1 ELSE -1) * e.amount, AD)
          = Total([r \in AD |-> (IF r.direction = "CREDIT" THEN 1 ELSE -1) * r.amount])
    BY <1>7, <1>9, OracleBankIsTotal
  <2>2. \A d \in AD : paid[d.serial] = av[d]
    BY <1>9
  <2>6. av = [r \in AD |-> (IF r.direction = "CREDIT" THEN 1 ELSE -1) * r.amount]
    OBVIOUS
  <2> HIDE DEF av
  <2>3. Summable(av) /\ DOMAIN av = AD
    BY <1>7, <1>11, SummableOn
  <2>4. DOMAIN paid = {d.serial : d \in AD}
    BY <1>1, <1>7
  <2>7. Summable(paid) /\ \A r, e \in AD : r.serial = e.serial => r = e
    BY <1>1, <1>7
  <2>5. Total(paid) = Total(av)
    BY <2>2, <2>3, <2>4, <2>7, NamedTotal
  <2> QED
    BY <2>1, <2>5, <2>6
<1>14. Total(moved) = ClearedOn(JD, "CREDIT") - ClearedOn(JD, "DEBIT")
  <2>1. DOMAIN moved = {d.serial : d \in JD}
    BY <1>1, <1>7
  <2> QED
    BY <1>1, <1>7, <1>10, <2>1, ClearedBySide
<1> QED
  BY <1>2, <1>5, <1>6, <1>12, <1>13, <1>14 DEF S, s, nets, moved, paid

\* What the rest of the sheet says, in the terms of the rules.
LEMMA SettlementSheetFacts ==
  ASSUME HeldInv, accepted # {}, NEW key \in SettlementKeys(settlements)
  PROVE  LET s == SettlementSheet(key)
             N == Settlements(SettlementRows(settlements, key))
             J == Journals(SettlementRows(settlements, key))
             A == AllocatedTo(settlements, key)
         IN /\ s.settlements = {} <=> N = {}
            /\ s.journals = 0 <=> J = {}
            /\ s.bank = {} <=> A = {}
            /\ s.rolesValid <=> \A j \in J : Cardinality(ClearingPostings(j)) = 1
            /\ (\E r \in s.settlements : r.reported # OwnNet(r)) <=> \E r \in N : r.reported # Net(r)
            /\ s.repeated <=> \E e \in A : e.serial \in duplicates
            /\ (\E e \in s.bank : e.account \notin s.permitted)
                 <=> \E e \in A : ~Permitted(report.policy, e)
            /\ s.tolerance = report.policy.settlementTolerance[key.currency]
            /\ s.tolerance \in Nat
<1> DEFINE S == settlements
           s == SettlementSheet(key)
           N == Settlements(SettlementRows(S, key))
           J == Journals(SettlementRows(S, key))
           A == AllocatedTo(S, key)
           ND == {BusinessDigest(r) : r \in N}
           JD == {BusinessDigest(r) : r \in J}
           AD == {BusinessDigest(r) : r \in A}
           domain == <<key.merchant, key.currency>>
           accounts == report.policy.accounts
<1>1. /\ N \subseteq S /\ \A r \in N : IsSettlement(r)
      /\ J \subseteq S /\ \A r \in J : IsJournal(r)
      /\ A \subseteq S /\ \A r \in A : IsBank(r)
  BY DEF Settlements, Journals, SettlementRows, Keyed, AllocatedTo, BankEntries
<1>2. \A r \in S :
        LET d == BusinessDigest(r) IN
        /\ Conforms(r) /\ d.serial = r.serial
        /\ IsBank(r) => \A f \in BankFields : d[f] = r[f]
        /\ IsSettlement(r) => \A f \in MoneyFields : d[f] = r[f]
        /\ IsJournal(r) => d.postings = r.postings
  BY SettlementRecords
<1>3. /\ s.settlements = ND
      /\ {r \in JournalEvidence("SETTLEMENT") : SettlementKey(r) = key} = JD
      /\ s.bank = AD
      /\ \A e \in A : <<e.merchant, e.currency>> = domain
  BY KeyEvidence
<1>4. (N = {} <=> ND = {}) /\ (J = {} <=> JD = {}) /\ (A = {} <=> AD = {})
      /\ IsFiniteSet(JD)
  BY <1>1, ContentsByIdentity
<1>5. /\ s.journals = Cardinality(JD)
      /\ s.rolesValid = \A j \in JD : OneClearingLine(j.postings)
      /\ s.tolerance = report.policy.settlementTolerance[key.currency]
      /\ s.repeated = \E e \in s.bank : Repeated(e)
      /\ s.permitted = IF domain \in DOMAIN accounts THEN accounts[domain] ELSE {}
  <2>1. /\ s.journals = Cardinality({r \in JournalEvidence("SETTLEMENT") : SettlementKey(r) = key})
        /\ s.rolesValid = \A j \in {r \in JournalEvidence("SETTLEMENT") : SettlementKey(r) = key} :
                            OneClearingLine(j.postings)
        /\ s.tolerance = report.policy.settlementTolerance[key.currency]
        /\ s.repeated = \E e \in s.bank : Repeated(e)
        /\ s.permitted = IF domain \in DOMAIN accounts THEN accounts[domain] ELSE {}
    BY Zenon DEF SettlementSheet
  <2> HIDE DEF s, JD
  <2> QED
    BY <1>3, <2>1
<1> HIDE DEF S, N, J, A, s
<1>6. s.journals = 0 <=> J = {}
  BY <1>4, <1>5, NoMembers
<1>7. s.rolesValid <=> \A j \in J : Cardinality(ClearingPostings(j)) = 1
  <2>1. ASSUME NEW j \in J
        PROVE  OneClearingLine(BusinessDigest(j).postings) <=> Cardinality(ClearingPostings(j)) = 1
    <3>1. BusinessDigest(j).postings = j.postings
      BY <1>1, <1>2
    <3> QED
      BY <3>1 DEF OneClearingLine, ClearingPostings
  <2> QED
    BY <1>5, <2>1
<1>8. (\E r \in s.settlements : r.reported # OwnNet(r)) <=> \E r \in N : r.reported # Net(r)
  <2>1. ASSUME NEW r \in N
        PROVE  /\ BusinessDigest(r).reported = r.reported
               /\ OwnNet(BusinessDigest(r)) = Net(r)
    <3>1. \A f \in MoneyFields : r[f] \in Int /\ BusinessDigest(r)[f] = r[f]
      BY <1>1, <1>2, MaxMinorAssumption DEF Conforms, Minor
    <3> QED
      BY <3>1 DEF MoneyFields, OwnNet, Net
  <2> QED
    BY <1>3, <2>1
<1>9. ASSUME NEW e \in A
      PROVE  /\ Repeated(BusinessDigest(e)) <=> e.serial \in duplicates
             /\ BusinessDigest(e).account \notin s.permitted <=> ~Permitted(report.policy, e)
  <2>1. e \in settlements /\ IsBank(e)
    BY <1>1 DEF S
  <2>2. BusinessDigest(e).serial = e.serial /\ BusinessDigest(e).account = e.account
        /\ BusinessDigest(e).family = e.family
    BY <2>1, SettlementRecords DEF BankFields
  <2>3. Repeated(BusinessDigest(e)) <=> \E b \in accepted : \E i, j \in DOMAIN b.lines :
          i # j /\ b.lines[i].serial = e.serial /\ b.lines[j].serial = e.serial
    BY <2>2 DEF Repeated
  <2>4. ASSUME NEW b \in accepted, NEW i \in DOMAIN b.lines, NEW j \in DOMAIN b.lines,
               i # j, b.lines[i].serial = e.serial, b.lines[j].serial = e.serial
        PROVE  e.serial \in duplicates
    <3>1. /\ b \in Bundles /\ CurrentDuplicates(b) \subseteq duplicates
          /\ \A r \in Observed(b) : admission.sources[r.serial] = BusinessDigest(r)
      BY DEF HeldInv, ReplayInv, Remembered
    <3>2. b.lines[i] \in Observed(b)
      BY DEF Observed, Range
    <3>3. BusinessDigest(b.lines[i]) = BusinessDigest(e)
      <4>1. admission.sources[e.serial] = BusinessDigest(e)
        BY <2>1 DEF HeldInv, ReplayInv, InStep, StatesInStep
      <4> QED
        BY <2>4, <3>1, <3>2, <4>1
    <3>4. BusinessDigest(b.lines[i]).family = b.lines[i].family
      BY <3>1, <3>2, BundleAssumption DEF BusinessDigest
    <3>5. IsBank(b.lines[i])
      BY <2>1, <2>2, <3>3, <3>4 DEF IsBank
    <3>6. e.serial \in CurrentDuplicates(b)
      BY <2>4, <3>2, <3>5 DEF CurrentDuplicates
    <3> QED
      BY <3>1, <3>6
  <2>5. ASSUME e.serial \in duplicates
        PROVE  \E b \in accepted : \E i, j \in DOMAIN b.lines :
                 i # j /\ b.lines[i].serial = e.serial /\ b.lines[j].serial = e.serial
    <3>1. PICK b \in accepted : e.serial \in CurrentDuplicates(b)
      BY <2>5 DEF HeldInv, Traced
    <3> QED
      BY <3>1 DEF CurrentDuplicates
  <2>6. Repeated(BusinessDigest(e)) <=> e.serial \in duplicates
    BY <2>3, <2>4, <2>5
  <2>7. e.account \notin s.permitted <=> ~Permitted(report.policy, e)
    BY <1>3, <1>5 DEF Permitted
  <2> QED
    BY <2>2, <2>6, <2>7
<1>10. s.repeated <=> \E e \in A : e.serial \in duplicates
  BY <1>3, <1>5, <1>9
<1>11. (\E e \in s.bank : e.account \notin s.permitted)
         <=> \E e \in A : ~Permitted(report.policy, e)
  BY <1>3, <1>9
<1>12. s.tolerance \in Nat
  <2>1. PICK r \in settlements : ~IsBank(r) /\ key = SettlementKey(r)
    BY DEF SettlementKeys, Keyed
  <2>2. PICK b \in accepted : report.policy = b.policy
    BY DEF HeldInv, Reported
  <2>3. b \in Bundles
    BY DEF HeldInv, ReplayInv
  <2>4. b.policy.settlementTolerance[r.currency] \in Nat
    BY <2>1, <2>3, SettlementRecords
  <2>5. key.currency = r.currency
    BY <2>1 DEF SettlementKey
  <2> QED
    BY <1>5, <2>2, <2>4, <2>5
<1>13. (s.settlements = {} <=> N = {}) /\ (s.bank = {} <=> A = {})
  BY <1>3, <1>4
<1> QED
  BY <1>5, <1>6, <1>7, <1>8, <1>10, <1>11, <1>12, <1>13 DEF S, N, J, A, s

\* The reasons of a settlement that the oracle finds, given what it calls net.
Semantic(s, net) ==
  (IF s.settlements = {} THEN {"MISSING_PROCESSOR_ACTIVITY"} ELSE {})
    \cup (IF s.journals = 0 /\ net # 0 THEN {"MISSING_LEDGER_MOVEMENT"} ELSE {})
    \cup (IF s.bank = {} /\ net # 0 THEN {"MISSING_BANK_SETTLEMENT"} ELSE {})
    \cup (IF s.rolesValid THEN {} ELSE {"INVALID_ACCOUNT_ROLE"})
    \cup (IF \E r \in s.settlements : r.reported # OwnNet(r)
          THEN {"SETTLEMENT_FORMULA_MISMATCH"} ELSE {})
    \cup (IF s.repeated THEN {"DUPLICATE_BANK_MOVEMENT"} ELSE {})
    \cup (IF \E e \in s.bank : e.account \notin s.permitted
          THEN {"INVALID_BANK_ACCOUNT"} ELSE {})

\* The oracle finds the reasons that the rules find.
LEMMA SettlementReasonsAgree ==
  ASSUME HeldInv, accepted # {}, NEW key \in SettlementKeys(settlements)
  PROVE  SettlementReasons(report.policy, settlements, duplicates, key)
           = Semantic(SettlementSheet(key), Total(NetAmounts(settlements, key)))
<1> DEFINE S == settlements
           s == SettlementSheet(key)
           N == Settlements(SettlementRows(S, key))
           J == Journals(SettlementRows(S, key))
           A == AllocatedTo(S, key)
           net == Total(NetAmounts(S, key))
           roles == \A j \in J : Cardinality(ClearingPostings(j)) = 1
           formula == \E r \in N : r.reported # Net(r)
           repeated == \E e \in A : e.serial \in duplicates
           forbidden == \E e \in A : ~Permitted(report.policy, e)
           reasons == SettlementReasons(report.policy, S, duplicates, key)
<1>1. /\ s.settlements = {} <=> N = {}
      /\ s.journals = 0 <=> J = {}
      /\ s.bank = {} <=> A = {}
      /\ s.rolesValid <=> roles
      /\ (\E r \in s.settlements : r.reported # OwnNet(r)) <=> formula
      /\ s.repeated <=> repeated
      /\ (\E e \in s.bank : e.account \notin s.permitted) <=> forbidden
  BY SettlementSheetFacts
<1>2. reasons =
        {x \in {"SETTLEMENT_FORMULA_MISMATCH"} : formula}
          \cup {x \in {"INVALID_ACCOUNT_ROLE"} : ~roles}
          \cup {x \in {"INVALID_BANK_ACCOUNT"} : forbidden}
          \cup {x \in {"DUPLICATE_BANK_MOVEMENT"} : repeated}
          \cup {x \in {"MISSING_PROCESSOR_ACTIVITY"} : N = {}}
          \cup {x \in {"MISSING_LEDGER_MOVEMENT"} : J = {} /\ net # 0}
          \cup {x \in {"MISSING_BANK_SETTLEMENT"} : A = {} /\ net # 0}
  BY DEF SettlementReasons, FormulaMismatch
<1> HIDE DEF S, s, N, J, A, net, roles, formula, repeated, forbidden, reasons
<1>3. Semantic(s, net) =
        (IF N = {} THEN {"MISSING_PROCESSOR_ACTIVITY"} ELSE {})
          \cup (IF J = {} /\ net # 0 THEN {"MISSING_LEDGER_MOVEMENT"} ELSE {})
          \cup (IF A = {} /\ net # 0 THEN {"MISSING_BANK_SETTLEMENT"} ELSE {})
          \cup (IF roles THEN {} ELSE {"INVALID_ACCOUNT_ROLE"})
          \cup (IF formula THEN {"SETTLEMENT_FORMULA_MISMATCH"} ELSE {})
          \cup (IF repeated THEN {"DUPLICATE_BANK_MOVEMENT"} ELSE {})
          \cup (IF forbidden THEN {"INVALID_BANK_ACCOUNT"} ELSE {})
  BY <1>1 DEF Semantic
<1>4. reasons = Semantic(s, net)
  BY <1>2, <1>3
<1> QED
  BY <1>4 DEF reasons, s, net, S

\* A candidate is what the oracle expects of its key.
LEMMA SettlementMatches ==
  ASSUME HeldInv, accepted # {}, NEW key \in SettlementKeys(settlements)
  PROVE  LET c == SettlementCandidate(report.policy, settlements, duplicates, key)
             x == SettlementExpectation(SettlementSheet(key))
         IN \A f \in DOMAIN x : c[f] = x[f]
<1> DEFINE S == settlements
           s == SettlementSheet(key)
           c == SettlementCandidate(report.policy, S, duplicates, key)
           x == SettlementExpectation(s)
           net == MapThenSumSet(LAMBDA r : OwnNet(r), s.settlements)
           bank == MapThenSumSet(LAMBDA e : (IF e.direction = "CREDIT" THEN 1 ELSE -1) * e.amount,
                                 s.bank)
           deltas == [PROCESSOR_LEDGER_MISMATCH |-> net - s.ledger,
                      PROCESSOR_BANK_MISMATCH |-> net - bank,
                      LEDGER_BANK_MISMATCH |-> s.ledger - bank]
           difference == Max({Size(deltas[d]) : d \in DOMAIN deltas})
           mismatch == IF Semantic(s, net) = {} /\ difference > s.tolerance
                       THEN {d \in DOMAIN deltas : deltas[d] # 0} ELSE {}
           expected == OracleStatus(difference, s.tolerance, Semantic(s, net) \cup mismatch)
           n == Total(NetAmounts(S, key))
           l == Total(SettlementMovements(S, key))
           b == Total(BankMovements(S, key))
           ds == [PROCESSOR_LEDGER_MISMATCH |-> n - l, PROCESSOR_BANK_MISMATCH |-> n - b,
                  LEDGER_BANK_MISMATCH |-> l - b]
           tolerance == report.policy.settlementTolerance[key.currency]
           reasons == SettlementReasons(report.policy, S, duplicates, key)
           m == {d \in DOMAIN ds : ds[d] # 0}
           verdict == Verdict(Largest(ds), tolerance, reasons, m)
<1>1. x = [net |-> net, bank |-> bank, deltas |-> deltas,
           status |-> expected.status, reasons |-> expected.reasons]
  BY Zenon DEF SettlementExpectation, Semantic
<1>2. Deltas(S, key) = ds
  BY Zenon DEF Deltas
<1>3. /\ c.net = n /\ c.bank = b /\ c.deltas = ds
      /\ c.status = verdict.status /\ c.reasons = verdict.reasons
  <2>1. LET v == Verdict(Largest(Deltas(S, key)), tolerance, reasons,
                         {d \in DOMAIN Deltas(S, key) : Deltas(S, key)[d] # 0})
        IN /\ c.net = n /\ c.bank = b /\ c.deltas = Deltas(S, key)
           /\ c.status = v.status /\ c.reasons = v.reasons
    BY Zenon DEF SettlementCandidate
  <2> HIDE DEF c, n, b, ds, tolerance, reasons
  <2> QED
    BY <1>2, <2>1, Zenon
<1>4. net = n /\ s.ledger = l /\ bank = b /\ n \in Int /\ l \in Int /\ b \in Int
  BY SettlementFigures
<1>5. s.tolerance = tolerance /\ tolerance \in Nat
  BY SettlementSheetFacts
<1>6. reasons = Semantic(s, n)
  BY SettlementReasonsAgree
<1> HIDE DEF S, s, c, x, net, bank, n, l, b, tolerance, reasons
<1>7. deltas = ds
  BY <1>4
<1>8. /\ Largest(ds) \in Nat
      /\ \A d \in DOMAIN ds : Abs(ds[d]) <= Largest(ds)
      /\ \E d \in DOMAIN ds : Abs(ds[d]) = Largest(ds)
  BY <1>4, LargestIsLargest
<1>9. difference = Largest(ds)
  <2>1. difference = Max({Size(ds[d]) : d \in DOMAIN ds})
    BY <1>7
  <2> HIDE DEF difference, ds
  <2>2. {Size(ds[d]) : d \in DOMAIN ds} = {Abs(ds[d]) : d \in DOMAIN ds}
    BY DEF Size, Abs
  <2> QED
    BY <2>1, <2>2 DEF Largest
<1> DEFINE g == Largest(ds)
<1>10. g <= tolerance \/ m # {}
  <2>1. SUFFICES ASSUME g > tolerance  PROVE m # {}
    BY <1>5, <1>8
  <2>2. PICK d \in DOMAIN ds : Abs(ds[d]) = g
    BY <1>8
  <2>3. g # 0
    BY <1>5, <1>8, <2>1
  <2>4. ds[d] # 0
    BY <2>2, <2>3 DEF Abs
  <2> QED
    BY <2>4
<1>11. mismatch = Mismatched(g, tolerance, reasons, m)
  <2>1. mismatch = IF Semantic(s, net) = {} /\ difference > s.tolerance THEN m ELSE {}
    BY <1>7
  <2>2. Semantic(s, net) = reasons /\ difference = g /\ s.tolerance = tolerance
    BY <1>4, <1>5, <1>6, <1>9
  <2> HIDE DEF mismatch, difference, g, m
  <2> QED
    BY <2>1, <2>2 DEF Mismatched
<1>12. expected = OracleStatus(g, tolerance, reasons \cup mismatch)
  <2>1. Semantic(s, net) = reasons /\ difference = g /\ s.tolerance = tolerance
    BY <1>4, <1>5, <1>6, <1>9
  <2> HIDE DEF mismatch, difference, g, m
  <2> QED
    BY <2>1
<1>13. g \in Nat
  BY <1>8
<1>14. verdict = Verdict(g, tolerance, reasons, m)
  OBVIOUS
<1> HIDE DEF mismatch, expected, m, g, verdict, deltas, ds, difference
<1>15. verdict.status = expected.status /\ verdict.reasons = expected.reasons
  BY <1>5, <1>10, <1>11, <1>12, <1>13, <1>14, VerdictIsOracle
<1>16. \A f \in DOMAIN x : c[f] = x[f]
  BY <1>1, <1>3, <1>4, <1>7, <1>15
<1> QED
  BY <1>16 DEF c, x, s, S

\* Every settlement candidate is what the oracle expects of the evidence.
LEMMA SettlementsMatch ==
  ASSUME HeldInv
  PROVE  SettlementsMatchOracle
<1> SUFFICES ASSUME accepted # {}
             PROVE  /\ DOMAIN report.settlements =
                         {SettlementKey(r) : r \in {r \in Evidence : AtSettlementGrain(r) /\ ~IsBank(r)}}
                    /\ \A key \in DOMAIN report.settlements :
                         LET expected == SettlementExpectation(SettlementSheet(key)) IN
                         \A f \in DOMAIN expected : report.settlements[key][f] = expected[f]
  BY DEF SettlementsMatchOracle
<1> DEFINE S == settlements
<1>1. report.settlements = SettlementCandidates(report.policy, S, duplicates)
  BY DEF HeldInv, ReplayInv, ReportOn
<1>2. /\ DOMAIN report.settlements = SettlementKeys(S)
      /\ \A key \in SettlementKeys(S) :
           report.settlements[key] = SettlementCandidate(report.policy, S, duplicates, key)
  BY <1>1 DEF SettlementCandidates
<1>3. SettlementKeys(S)
        = {SettlementKey(r) : r \in {r \in Evidence : AtSettlementGrain(r) /\ ~IsBank(r)}}
  <2>1. /\ Evidence = Contents(transactions) \cup Contents(S)
        /\ \A d \in Contents(transactions) : AtTransactionGrain(d)
        /\ \A d \in Contents(S) : AtSettlementGrain(d)
    BY EvidenceIsHeld
  <2>2. \A r \in S :
          LET d == BusinessDigest(r) IN
          /\ d.family = r.family
          /\ ~IsBank(r) => \A f \in SettlementFields : d[f] = r[f]
    BY SettlementRecords
  <2>3. \A r \in S : LET d == BusinessDigest(r) IN
          /\ IsBank(d) <=> IsBank(r)
          /\ ~IsBank(r) => SettlementKey(d) = SettlementKey(r)
    BY <2>2 DEF IsBank, SettlementKey, SettlementFields
  <2>4. \A d : d \in Contents(S) <=> \E r \in S : d = BusinessDigest(r)
    BY DEF Contents
  <2>5. {r \in Evidence : AtSettlementGrain(r) /\ ~IsBank(r)} = {d \in Contents(S) : ~IsBank(d)}
    BY <2>1 DEF AtSettlementGrain
  <2>6. SettlementKeys(S) = {SettlementKey(d) : d \in {d \in Contents(S) : ~IsBank(d)}}
    <3> HIDE DEF S
    <3> QED
      BY <2>3, <2>4 DEF SettlementKeys, Keyed
  <2> QED
    BY <2>5, <2>6
<1> QED
  BY <1>2, <1>3, SettlementMatches
-----------------------------------------------------------------------------
(* The theorems about what is held and reported.                           *)

\* The states hold exactly the evidence that was accepted.
LEMMA HeldAlways == Spec => []HeldInv
<1>1. Init => HeldInv
  BY HeldInit
<1>2. HeldInv /\ [Next]_vars => HeldInv'
  BY HeldDeliver, HeldStutter DEF Next, Refuse
<1> QED
  BY <1>1, <1>2, PTL DEF Spec

\* reconcile_transactions: the refunds, chargebacks and reversals that pass
\* without an exception never take more from a capture than was captured,
\* whatever bundles brought them and in whatever order.
THEOREM CaptureNotExceededHolds == Spec => []CaptureNotExceeded
<1>1. HeldInv => CaptureNotExceeded
  BY CapturesHold
<1> QED
  BY <1>1, HeldAlways, PTL

\* reconcile_settlements: the money of every accepted bank entry is in one
\* settlement or among the unallocated, and in a matched batch the bank paid
\* what the processors reported.
THEOREM BankConservedHolds == Spec => []BankConserved
<1>1. HeldInv => BankConserved
  BY BankConservedAtFirst, BankHolds
<1> QED
  BY <1>1, HeldAlways, PTL

\* reconcile_transactions against ledgerguard_reference_oracle: after any
\* bundles in any order, every transaction candidate is what the oracle expects
\* from all the evidence accepted so far.
THEOREM TransactionsMatchOracleHolds == Spec => []TransactionsMatchOracle
<1>1. HeldInv => TransactionsMatchOracle
  BY TransactionsMatch
<1> QED
  BY <1>1, HeldAlways, PTL

\* reconcile_settlements against the oracle: so is every settlement candidate.
THEOREM SettlementsMatchOracleHolds == Spec => []SettlementsMatchOracle
<1>1. HeldInv => SettlementsMatchOracle
  BY SettlementsMatch
<1> QED
  BY <1>1, HeldAlways, PTL

=============================================================================
