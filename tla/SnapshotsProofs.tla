-------------------------- MODULE SnapshotsProofs --------------------------
(***************************************************************************)
(* Proofs about Snapshots for every set of writers, every stores, every    *)
(* page size and any number of failures and foreign writes: a snapshot     *)
(* that opens is the store that was sealed, and nothing is refused without *)
(* a reason.                                                               *)
(*                                                                         *)
(* The seal builds its index bottom up and the reader walks it top down;   *)
(* what they agree on is a cover, a set of quadruples <<page, height, i,   *)
(* j>> that says which entries a page stands for.  A cover grows by a page *)
(* whenever one is verified, never depends on the state, and is all that   *)
(* the reader's half of the invariant needs.                               *)
(***************************************************************************)
EXTENDS Snapshots, SequenceTheorems, FiniteSetTheorems, TLAPS

-----------------------------------------------------------------------------
(* Numbers.                                                                *)

\* A nonempty set of naturals has a least member.
LEMMA LeastExists ==
  ASSUME NEW T, T \subseteq Nat, T # {}
  PROVE  \E x \in T : \A y \in T : x <= y
<1>1. \E x \in T : \A y \in T : ~ (<<y, x>> \in OpToRel(<, Nat))
  BY NatLessThanWellFounded, WFMin
<1>2. PICK x \in T : \A y \in T : ~ (<<y, x>> \in OpToRel(<, Nat))
  BY <1>1
<1>3. ASSUME NEW y \in T  PROVE x <= y
  <2>1. x \in Nat /\ y \in Nat
    OBVIOUS
  <2>2. ~ (y < x)
    <3>1. SUFFICES ASSUME y < x  PROVE <<y, x>> \in OpToRel(<, Nat)
      BY <1>2
    <3>2. <<y, x>> \in Nat \X Nat /\ <<y, x>>[1] = y /\ <<y, x>>[2] = x
      BY <2>1
    <3>3. QED  BY <3>1, <3>2, Zenon DEF OpToRel
  <2>3. QED  BY <2>1, <2>2
<1>4. QED  BY <1>2, <1>3

\* A set that has 0, and with a number the next one, has every number.
LEMMA SetInduction ==
  ASSUME NEW T, 0 \in T, \A n \in Nat : n \in T => n + 1 \in T
  PROVE  \A n \in Nat : n \in T
<1> DEFINE U == {n \in Nat : n \notin T}
<1>1. SUFFICES ASSUME U # {}  PROVE FALSE
  OBVIOUS
<1>2. PICK x \in U : \A y \in U : x <= y
  BY <1>1, LeastExists
<1>3. x \in Nat /\ x # 0
  BY <1>2
<1>4. x - 1 \in Nat /\ x - 1 \notin U
  BY <1>2, <1>3
<1>5. (x - 1) + 1 \in T
  BY <1>4
<1>6. QED  BY <1>2, <1>3, <1>5

\* f runs through the values that F steps through from x0 on.
Iterates(f, X, x0, F) ==
  /\ f \in [Nat -> X]
  /\ f[0] = x0
  /\ \A n \in Nat : f[n + 1] = F[<<n, f[n]>>]

\* A value for 0 and a step determine a sequence of values.
LEMMA RecursionExists ==
  ASSUME NEW X, NEW x0 \in X, NEW F \in [Nat \X X -> X]
  PROVE  \E f : Iterates(f, X, x0, F)
<1> DEFINE Starts(g, n) == g \in [0..n -> X] /\ g[0] = x0
             /\ \A k \in 0..(n - 1) : g[k + 1] = F[<<k, g[k]>>]
           T == {n \in Nat : \E g \in [0..n -> X] : Starts(g, n)}
<1>1. 0 \in T
  <2>1. Starts([k \in 0..0 |-> x0], 0)
    OBVIOUS
  <2>2. QED  BY <2>1
<1>2. ASSUME NEW n \in Nat, n \in T  PROVE n + 1 \in T
  <2>1. PICK g \in [0..n -> X] : Starts(g, n)
    BY <1>2
  <2> DEFINE h == [k \in 0..(n + 1) |-> IF k <= n THEN g[k] ELSE F[<<n, g[n]>>]]
  <2>2. g[n] \in X
    OBVIOUS
  <2>3. h \in [0..(n + 1) -> X]
    BY <2>2
  <2>4. h[0] = x0
    BY <2>1
  <2>5. ASSUME NEW k \in 0..n  PROVE h[k + 1] = F[<<k, h[k]>>]
    <3>1. CASE k = n
      <4>1. h[n] = g[n] /\ h[n + 1] = F[<<n, g[n]>>]
        OBVIOUS
      <4>2. QED  BY <3>1, <4>1
    <3>2. CASE k # n
      <4>1. k \in 0..(n - 1) /\ k + 1 \in 0..n
        BY <3>2
      <4>2. g[k + 1] = F[<<k, g[k]>>]
        BY <2>1, <4>1
      <4>3. h[k] = g[k] /\ h[k + 1] = g[k + 1]
        BY <4>1
      <4>4. QED  BY <4>2, <4>3
    <3>3. QED  BY <3>1, <3>2
  <2>6. (n + 1) - 1 = n
    OBVIOUS
  <2> HIDE DEF h
  <2>7. Starts(h, n + 1)
    BY <2>3, <2>4, <2>5, <2>6
  <2>8. QED  BY <2>3, <2>7
<1>3. \A n \in Nat : n \in T
  <2> HIDE DEF T
  <2>1. QED  BY <1>1, <1>2, SetInduction
<1>4. ASSUME NEW m \in Nat, NEW n \in Nat, m <= n, NEW g, NEW h, Starts(g, m), Starts(h, n)
      PROVE  \A k \in 0..m : g[k] = h[k]
  <2> DEFINE V == {k \in Nat : k <= m => g[k] = h[k]}
  <2>1. 0 \in V
    BY <1>4
  <2>2. ASSUME NEW k \in Nat, k \in V  PROVE k + 1 \in V
    <3>1. SUFFICES ASSUME k + 1 <= m  PROVE g[k + 1] = h[k + 1]
      OBVIOUS
    <3>2. k \in 0..(m - 1) /\ k \in 0..(n - 1) /\ g[k] = h[k]
      BY <2>2, <3>1, <1>4
    <3>3. g[k + 1] = F[<<k, g[k]>>] /\ h[k + 1] = F[<<k, h[k]>>]
      BY <1>4, <3>2
    <3>4. QED  BY <3>2, <3>3
  <2>3. \A k \in Nat : k \in V
    <3> HIDE DEF V
    <3>1. QED  BY <2>1, <2>2, SetInduction
  <2>4. QED  BY <2>3
<1> DEFINE G == [n \in Nat |-> CHOOSE g \in [0..n -> X] : Starts(g, n)]
           f == [n \in Nat |-> G[n][n]]
<1>5. \A n \in Nat : G[n] \in [0..n -> X] /\ Starts(G[n], n)
  <2>1. ASSUME NEW n \in Nat  PROVE G[n] \in [0..n -> X] /\ Starts(G[n], n)
    <3>1. \E g \in [0..n -> X] : Starts(g, n)
      BY <1>3
    <3> HIDE DEF Starts
    <3>2. QED  BY <3>1
  <2>2. QED  BY <2>1
<1>6. f \in [Nat -> X]
  <2>1. ASSUME NEW n \in Nat  PROVE G[n][n] \in X
    <3>1. n \in 0..n
      OBVIOUS
    <3>2. G[n] \in [0..n -> X]
      BY <1>5
    <3> HIDE DEF G
    <3>3. QED  BY <3>1, <3>2
  <2> HIDE DEF G
  <2>2. QED  BY <2>1
<1>7. f[0] = x0
  <2>1. Starts(G[0], 0)
    <3> HIDE DEF Starts, G
    <3>1. QED  BY <1>5
  <2> HIDE DEF G
  <2>2. f[0] = G[0][0]
    OBVIOUS
  <2>3. QED  BY <2>1, <2>2
<1>8. ASSUME NEW n \in Nat  PROVE f[n + 1] = F[<<n, f[n]>>]
  <2>1. Starts(G[n], n) /\ Starts(G[n + 1], n + 1) /\ n <= n + 1 /\ n \in 0..n
    <3> HIDE DEF Starts, G
    <3>1. n + 1 \in Nat /\ n <= n + 1 /\ n \in 0..n
      OBVIOUS
    <3>2. QED  BY <1>5, <3>1
  <2> HIDE DEF G
  <2>2. G[n][n] = G[n + 1][n]
    <3> HIDE DEF Starts
    <3>1. QED  BY <1>4, <2>1
  <2>3. n \in 0..((n + 1) - 1)
    OBVIOUS
  <2>4. G[n + 1][n + 1] = F[<<n, G[n + 1][n]>>]
    BY <2>1, <2>3
  <2>5. f[n] = G[n][n] /\ f[n + 1] = G[n + 1][n + 1]
    OBVIOUS
  <2>6. QED  BY <2>2, <2>4, <2>5
<1> HIDE DEF f
<1>9. QED  BY <1>6, <1>7, <1>8 DEF Iterates

\* What an index holds whose pages are one level deeper is PageItems times as
\* much.
LEMMA CapacityGrows ==
  /\ Capacity[0] = PageItems
  /\ \A d \in Nat : Capacity[d] \in Nat \ {0} /\ Capacity[d + 1] = PageItems * Capacity[d]
<1>1. PageItems \in Nat \ {0, 1}
  BY SnapshotConstants
<1> DEFINE N == Nat \ {0}
           F == [p \in Nat \X N |-> PageItems * p[2]]
<1>2. \A n \in Nat : \A x \in N : F[<<n, x>>] = PageItems * x /\ PageItems * x \in N
  BY <1>1
<1>3. F \in [Nat \X N -> N]
  BY <1>2
<1>4. PageItems \in N
  BY <1>1
<1> HIDE DEF F, N
<1>5. PICK f : Iterates(f, N, PageItems, F)
  BY <1>3, <1>4, RecursionExists
<1> DEFINE body(g) == [d \in Nat |-> IF d = 0 THEN PageItems ELSE PageItems * g[d - 1]]
<1>6. f = body(f)
  <2>1. ASSUME NEW d \in Nat
        PROVE  f[d] = IF d = 0 THEN PageItems ELSE PageItems * f[d - 1]
    <3>1. CASE d = 0
      BY <1>5, <3>1 DEF Iterates
    <3>2. CASE d # 0
      <4>1. d - 1 \in Nat /\ (d - 1) + 1 = d
        BY <3>2
      <4>2. f[(d - 1) + 1] = F[<<d - 1, f[d - 1]>>] /\ f[d - 1] \in N
        BY <1>5, <4>1 DEF Iterates
      <4>3. QED  BY <1>2, <3>2, <4>1, <4>2
    <3>3. QED  BY <3>1, <3>2
  <2>2. QED  BY <1>5, <2>1 DEF Iterates
<1>7. Capacity = CHOOSE g : g = body(g)
  BY Zenon DEF Capacity
<1>8. Capacity = body(Capacity)
  <2> HIDE DEF body
  <2>1. QED  BY <1>6, <1>7, Zenon
<1>9. Capacity[0] = PageItems /\ \A d \in Nat : Capacity[d + 1] = PageItems * Capacity[d]
  <2>1. \A d \in Nat : Capacity[d] = IF d = 0 THEN PageItems ELSE PageItems * Capacity[d - 1]
    BY <1>8
  <2>2. ASSUME NEW d \in Nat  PROVE Capacity[d + 1] = PageItems * Capacity[d]
    <3>1. d + 1 \in Nat /\ d + 1 # 0 /\ (d + 1) - 1 = d
      OBVIOUS
    <3>2. QED  BY <2>1, <3>1
  <2>3. QED  BY <2>1, <2>2
<1> DEFINE T == {d \in Nat : Capacity[d] \in Nat \ {0}}
<1>10. 0 \in T /\ \A n \in Nat : n \in T => n + 1 \in T
  BY <1>1, <1>9
<1>11. \A n \in Nat : n \in T
  <2> HIDE DEF T
  <2>1. QED  BY <1>10, SetInduction
<1>12. QED  BY <1>9, <1>11

\* An index whose pages are deeper holds more.
LEMMA CapacityRises ==
  ASSUME NEW d \in Nat, NEW e \in Nat, d <= e
  PROVE  Capacity[d] <= Capacity[e]
<1> DEFINE T == {n \in Nat : d <= n => Capacity[d] <= Capacity[n]}
<1>1. PageItems \in Nat /\ PageItems >= 1
  BY SnapshotConstants
<1>2. 0 \in T
  BY CapacityGrows
<1>3. ASSUME NEW n \in Nat, n \in T  PROVE n + 1 \in T
  <2>1. Capacity[d] \in Nat /\ Capacity[n] \in Nat /\ Capacity[n + 1] = PageItems * Capacity[n]
    BY CapacityGrows
  <2>2. Capacity[n] <= PageItems * Capacity[n]
    BY <1>1, <2>1
  <2>3. CASE d <= n
    <3>1. Capacity[d] <= Capacity[n]
      BY <1>3, <2>3
    <3>2. Capacity[n] <= Capacity[n + 1] /\ Capacity[n + 1] \in Nat
      BY CapacityGrows, <2>1, <2>2
    <3>3. Capacity[d] <= Capacity[n + 1]
      BY <2>1, <3>1, <3>2
    <3>4. QED  BY <3>3
  <2>4. CASE ~ (d <= n)
    <3>1. d <= n + 1 => d = n + 1
      BY <2>4
    <3>2. QED  BY <2>1, <3>1
  <2>5. QED  BY <2>3, <2>4
<1>4. \A n \in Nat : n \in T
  <2> HIDE DEF T
  <2>1. QED  BY <1>2, <1>3, SetInduction
<1>5. QED  BY <1>4

-----------------------------------------------------------------------------
(* A list of lists, end to end.                                            *)

\* flat is the lists of seqs one after the other; cut says where each ends.
Cuts(seqs, flat, cut, S) ==
  /\ flat \in Seq(S)
  /\ cut \in [0..Len(seqs) -> Nat]
  /\ cut[0] = 0
  /\ cut[Len(seqs)] = Len(flat)
  /\ \A k \in 1..Len(seqs) :
       /\ cut[k] = cut[k - 1] + Len(seqs[k])
       /\ \A o \in 1..Len(seqs[k]) : flat[cut[k - 1] + o] = seqs[k][o]

\* Lists can be put one after the other.
LEMMA PrefixesExist ==
  ASSUME NEW S, NEW seqs \in Seq(Seq(S))
  PROVE  \E f : /\ f \in [Nat -> Seq(S)]
                /\ f[0] = <<>>
                /\ \A n \in Nat : n < Len(seqs) => f[n + 1] = f[n] \o seqs[n + 1]
<1> DEFINE X == Seq(S)
           F == [p \in Nat \X X |-> IF p[1] < Len(seqs) THEN p[2] \o seqs[p[1] + 1] ELSE p[2]]
<1>1. ASSUME NEW n \in Nat, NEW x \in X
      PROVE  /\ F[<<n, x>>] = IF n < Len(seqs) THEN x \o seqs[n + 1] ELSE x
             /\ F[<<n, x>>] \in X
  <2>1. n < Len(seqs) => seqs[n + 1] \in Seq(S)
    OBVIOUS
  <2>2. n < Len(seqs) => x \o seqs[n + 1] \in X
    BY <2>1, ConcatProperties
  <2>3. F[<<n, x>>] = IF n < Len(seqs) THEN x \o seqs[n + 1] ELSE x
    OBVIOUS
  <2> HIDE DEF F
  <2>4. QED  BY <2>2, <2>3
<1>2. F \in [Nat \X X -> X]
  <2>1. ASSUME NEW p \in Nat \X X  PROVE F[p] \in X
    <3>1. p = <<p[1], p[2]>> /\ p[1] \in Nat /\ p[2] \in X
      OBVIOUS
    <3> HIDE DEF F, X
    <3>2. QED  BY <1>1, <3>1
  <2> DEFINE G == [p \in Nat \X X |-> F[p]]
  <2>2. F = G
    OBVIOUS
  <2>3. G \in [Nat \X X -> X]
    <3> HIDE DEF F
    <3>1. QED  BY <2>1
  <2>4. QED  BY <2>2, <2>3
<1>3. <<>> \in X
  OBVIOUS
<1>4. \E f : Iterates(f, X, <<>>, F)
  <2> HIDE DEF F, X
  <2>1. QED  BY <1>2, <1>3, RecursionExists
<1>5. PICK f : Iterates(f, X, <<>>, F)
  BY <1>4
<1>6. ASSUME NEW n \in Nat, n < Len(seqs)  PROVE f[n + 1] = f[n] \o seqs[n + 1]
  <2>1. f[n] \in X /\ f[n + 1] = F[<<n, f[n]>>]
    BY <1>5 DEF Iterates
  <2> HIDE DEF F, X
  <2>2. QED  BY <1>1, <1>6, <2>1
<1>7. f \in [Nat -> Seq(S)] /\ f[0] = <<>>
  BY <1>5 DEF Iterates
<1>8. QED  BY <1>6, <1>7

\* Where the items of two lists are when one follows the other.
LEMMA ConcatPlaces ==
  ASSUME NEW S, NEW s \in Seq(S), NEW t \in Seq(S)
  PROVE  /\ s \o t \in Seq(S) /\ Len(s \o t) = Len(s) + Len(t)
         /\ Len(s) \in Nat /\ Len(t) \in Nat
         /\ \A o \in 1..Len(s) : (s \o t)[o] = s[o]
         /\ \A o \in 1..Len(t) : (s \o t)[Len(s) + o] = t[o]
<1>1. /\ s \o t \in Seq(S) /\ Len(s \o t) = Len(s) + Len(t)
      /\ \A i \in 1..(Len(s) + Len(t)) : (s \o t)[i] = IF i <= Len(s) THEN s[i] ELSE t[i - Len(s)]
  BY ConcatProperties
<1>2. Len(s) \in Nat /\ Len(t) \in Nat
  OBVIOUS
<1>3. ASSUME NEW o \in 1..Len(s)  PROVE (s \o t)[o] = s[o]
  <2>1. o \in 1..(Len(s) + Len(t)) /\ o <= Len(s)
    BY <1>2
  <2>2. QED  BY <1>1, <2>1
<1>4. ASSUME NEW o \in 1..Len(t)  PROVE (s \o t)[Len(s) + o] = t[o]
  <2>1. /\ Len(s) + o \in 1..(Len(s) + Len(t)) /\ ~ (Len(s) + o <= Len(s))
        /\ (Len(s) + o) - Len(s) = o
    BY <1>2
  <2>2. QED  BY <1>1, <2>1
<1>5. QED  BY <1>1, <1>2, <1>3, <1>4

\* What FlattenSeq puts where.
LEMMA FlattenCuts ==
  ASSUME NEW S, NEW seqs \in Seq(Seq(S))
  PROVE  \E cut : Cuts(seqs, FlattenSeq(seqs), cut, S)
<1> DEFINE n == Len(seqs)
<1>1. n \in Nat
  OBVIOUS
<1>2. PICK f : /\ f \in [Nat -> Seq(S)]
               /\ f[0] = <<>>
               /\ \A k \in Nat : k < Len(seqs) => f[k + 1] = f[k] \o seqs[k + 1]
  BY PrefixesExist
<1>3. \A k \in Nat : f[k] \in Seq(S) /\ Len(f[k]) \in Nat
  BY <1>2, LenProperties
<1> DEFINE cut == [k \in 0..n |-> Len(f[k])]
           size == [k \in 1..n |-> Len(seqs[k])]
<1>31. cut \in [0..n -> Nat] /\ size \in [1..n -> Nat]
  <2>1. \A k \in 1..n : Len(seqs[k]) \in Nat
    OBVIOUS
  <2>2. \A k \in 0..n : Len(f[k]) \in Nat
    BY <1>1, <1>3
  <2>3. QED  BY <2>1, <2>2
<1>32. /\ \A k \in 0..n : cut[k] = Len(f[k])
       /\ \A k \in 1..n : size[k] = Len(seqs[k])
  OBVIOUS
<1>33. cut[0] = 0
  BY <1>1, <1>2
<1> HIDE DEF cut, size
<1>4. ASSUME NEW k \in 1..n
      PROVE  /\ seqs[k] \in Seq(S)
             /\ f[k] = f[k - 1] \o seqs[k]
             /\ cut[k] = cut[k - 1] + size[k]
             /\ \A o \in 1..cut[k - 1] : f[k][o] = f[k - 1][o]
             /\ \A o \in 1..size[k] : f[k][cut[k - 1] + o] = seqs[k][o]
  <2>1. seqs[k] \in Seq(S) /\ k - 1 \in Nat /\ k - 1 < Len(seqs) /\ (k - 1) + 1 = k
    OBVIOUS
  <2>2. f[k] = f[k - 1] \o seqs[k] /\ f[k - 1] \in Seq(S)
    BY <1>2, <1>3, <2>1
  <2>3. k \in 0..n /\ k - 1 \in 0..n
    BY <1>1
  <2>4. cut[k] = Len(f[k]) /\ cut[k - 1] = Len(f[k - 1]) /\ size[k] = Len(seqs[k])
    BY <1>32, <2>3
  <2>5. /\ Len(f[k - 1] \o seqs[k]) = Len(f[k - 1]) + Len(seqs[k])
        /\ \A o \in 1..Len(f[k - 1]) : (f[k - 1] \o seqs[k])[o] = f[k - 1][o]
        /\ \A o \in 1..Len(seqs[k]) : (f[k - 1] \o seqs[k])[Len(f[k - 1]) + o] = seqs[k][o]
    <3>1. seqs[k] \in Seq(S) /\ f[k - 1] \in Seq(S)
      BY <2>1, <2>2
    <3> DEFINE s == f[k - 1]
               r == seqs[k]
    <3> HIDE DEF s, r
    <3>2. s \in Seq(S) /\ r \in Seq(S)
      BY <3>1 DEF s, r
    <3>3. /\ Len(s \o r) = Len(s) + Len(r)
          /\ \A o \in 1..Len(s) : (s \o r)[o] = s[o]
          /\ \A o \in 1..Len(r) : (s \o r)[Len(s) + o] = r[o]
      BY <3>2, ConcatPlaces
    <3>4. QED  BY <3>3, Zenon DEF s, r
  <2>6. QED  BY <2>1, <2>2, <2>4, <2>5, Zenon
<1> HIDE DEF n
<1> DEFINE flatten == CHOOSE g : g = [i \in 1..n |-> IF i = 1 THEN seqs[i] ELSE g[i - 1] \o seqs[i]]
<1>5. CASE n # 0
  <2> DEFINE body(g) == [i \in 1..n |-> IF i = 1 THEN seqs[i] ELSE g[i - 1] \o seqs[i]]
             h == [i \in 1..n |-> f[i]]
  <2>1. ASSUME NEW i \in 1..n  PROVE h[i] = IF i = 1 THEN seqs[i] ELSE h[i - 1] \o seqs[i]
    <3>1. CASE i = 1
      <4> HIDE DEF h, body
      <4>1. f[i] = f[i - 1] \o seqs[i] /\ seqs[i] \in Seq(S)
        BY <1>4
      <4>2. f[i] = <<>> \o seqs[i]
        <5>1. i - 1 = 0
          BY <3>1
        <5>2. QED  BY <1>2, <4>1, <5>1
      <4>3. <<>> \o seqs[i] = seqs[i]
        BY <4>1, ConcatEmptySeq
      <4>4. QED  BY <3>1, <4>2, <4>3 DEF h
    <3>2. CASE i # 1
      <4>1. f[i] = f[i - 1] \o seqs[i] /\ i - 1 \in 1..n
        <5>1. f[i] = f[i - 1] \o seqs[i]
          BY <1>4, Zenon
        <5>2. QED  BY <1>1, <3>2, <5>1
      <4>2. h[i] = f[i] /\ h[i - 1] = f[i - 1]
        BY <4>1
      <4>3. QED  BY <3>2, <4>1, <4>2
    <3>3. QED  BY <3>1, <3>2
  <2>2. h = body(h)
    <3> DEFINE r(i) == IF i = 1 THEN seqs[i] ELSE h[i - 1] \o seqs[i]
    <3>1. \A i \in 1..n : h[i] = r(i)
      BY <2>1
    <3>2. h = [i \in 1..n |-> h[i]]
      OBVIOUS
    <3> HIDE DEF h, r
    <3>3. h = [i \in 1..n |-> r(i)]
      BY <3>1, <3>2
    <3>4. QED  BY <3>3 DEF r
  <2>3. flatten = CHOOSE g : g = body(g)
    BY Zenon
  <2>4. flatten = body(flatten)
    <3> HIDE DEF body, flatten, h
    <3>1. QED  BY <2>2, <2>3, Zenon
  <2>5. \A i \in 1..n : flatten[i] = IF i = 1 THEN seqs[i] ELSE flatten[i - 1] \o seqs[i]
    <3> DEFINE ft == flatten
    <3>1. ft = [i \in 1..n |-> IF i = 1 THEN seqs[i] ELSE ft[i - 1] \o seqs[i]]
      BY <2>4
    <3> HIDE DEF ft
    <3>2. \A i \in 1..n : ft[i] = IF i = 1 THEN seqs[i] ELSE ft[i - 1] \o seqs[i]
      BY <3>1
    <3>3. QED  BY <3>2, Zenon DEF ft
  <2>6. FlattenSeq(seqs) = flatten[n]
    BY <1>5, Zenon DEF FlattenSeq, n
  <2> HIDE DEF flatten
  <2> DEFINE T == {m \in Nat : m + 1 <= n => flatten[m + 1] = f[m + 1]}
  <2>7. 0 \in T
    <3>1. 1 \in 1..n
      BY <1>5, <1>1
    <3>2. flatten[1] = seqs[1]
      BY <2>5, <3>1
    <3>3. f[1] = seqs[1]
      BY <2>1, <3>1
    <3>4. QED  BY <3>2, <3>3
  <2>8. ASSUME NEW m \in Nat, m \in T  PROVE m + 1 \in T
    <3>1. SUFFICES ASSUME (m + 1) + 1 <= n  PROVE flatten[(m + 1) + 1] = f[(m + 1) + 1]
      OBVIOUS
    <3>2. /\ (m + 1) + 1 \in 1..n /\ (m + 1) + 1 # 1 /\ ((m + 1) + 1) - 1 = m + 1
          /\ m + 1 <= n
      BY <3>1, <1>1
    <3>3. flatten[m + 1] = f[m + 1]
      BY <2>8, <3>2
    <3>4. flatten[(m + 1) + 1] = flatten[m + 1] \o seqs[(m + 1) + 1]
      BY <2>5, <3>2
    <3>5. f[(m + 1) + 1] = f[m + 1] \o seqs[(m + 1) + 1]
      BY <1>4, <3>2
    <3>6. QED  BY <3>3, <3>4, <3>5
  <2>9. \A m \in Nat : m \in T
    <3> HIDE DEF T
    <3>1. QED  BY <2>7, <2>8, SetInduction
  <2>10. n - 1 \in T /\ (n - 1) + 1 = n
    BY <1>1, <1>5, <2>9
  <2>11. FlattenSeq(seqs) = f[n]
    BY <2>6, <2>10
  <2> DEFINE U == {m \in Nat : m <= n =>
                    \A k \in 1..m : /\ cut[k] <= cut[m]
                                    /\ \A o \in 1..size[k] : f[m][cut[k - 1] + o] = seqs[k][o]}
  <2>12. 0 \in U
    OBVIOUS
  <2>13. ASSUME NEW m \in Nat, m \in U  PROVE m + 1 \in U
    <3>1. SUFFICES ASSUME m + 1 <= n, NEW k \in 1..(m + 1)
                   PROVE  /\ cut[k] <= cut[m + 1]
                          /\ \A o \in 1..size[k] : f[m + 1][cut[k - 1] + o] = seqs[k][o]
      OBVIOUS
    <3>2. /\ m + 1 \in 1..n /\ (m + 1) - 1 = m /\ k \in 1..n /\ k \in 0..n
          /\ k - 1 \in 0..n /\ m \in 0..n /\ m + 1 \in 0..n
      BY <1>1, <3>1
    <3>3. /\ cut[m + 1] = cut[m] + size[m + 1]
          /\ \A o \in 1..cut[m] : f[m + 1][o] = f[m][o]
          /\ \A o \in 1..size[m + 1] : f[m + 1][cut[m] + o] = seqs[m + 1][o]
      <4>1. /\ cut[m + 1] = cut[(m + 1) - 1] + size[m + 1]
            /\ \A o \in 1..cut[(m + 1) - 1] : f[m + 1][o] = f[(m + 1) - 1][o]
            /\ \A o \in 1..size[m + 1] : f[m + 1][cut[(m + 1) - 1] + o] = seqs[m + 1][o]
        BY <1>4, <3>2, Zenon
      <4>2. (m + 1) - 1 = m
        BY <3>2
      <4>3. QED  BY <4>1, <4>2
    <3>4. cut[m] \in Nat /\ cut[m + 1] \in Nat /\ cut[k] \in Nat /\ cut[k - 1] \in Nat /\ size[k] \in Nat
          /\ size[m + 1] \in Nat
      BY <1>31, <3>2
    <3>5. CASE k = m + 1
      <4>1. cut[k] <= cut[m + 1]
        BY <3>4, <3>5
      <4>2. k - 1 = m
        BY <3>5
      <4>3. \A o \in 1..size[k] : f[m + 1][cut[k - 1] + o] = seqs[k][o]
        BY <3>3, <3>5, <4>2
      <4>4. QED  BY <4>1, <4>3
    <3>6. CASE k # m + 1
      <4>1. k \in 1..m /\ m <= n
        BY <1>1, <3>1, <3>6
      <4>2. /\ cut[k] <= cut[m]
            /\ \A o \in 1..size[k] : f[m][cut[k - 1] + o] = seqs[k][o]
        BY <2>13, <4>1
      <4>3. cut[k] = cut[k - 1] + size[k]
        BY <1>4, <3>2
      <4>4. cut[k] <= cut[m + 1]
        BY <3>3, <3>4, <4>2
      <4>5. ASSUME NEW o \in 1..size[k]  PROVE f[m + 1][cut[k - 1] + o] = seqs[k][o]
        <5>1. cut[k - 1] + o \in 1..cut[m]
          BY <3>4, <4>2, <4>3
        <5>2. QED  BY <3>3, <4>2, <5>1
      <4>6. QED  BY <4>4, <4>5
    <3>7. QED  BY <3>5, <3>6
  <2>14. \A m \in Nat : m \in U
    <3> HIDE DEF U
    <3>1. QED  BY <2>12, <2>13, SetInduction
  <2>15. \A k \in 1..n : \A o \in 1..size[k] : f[n][cut[k - 1] + o] = seqs[k][o]
    <3>1. n \in U
      BY <1>1, <2>14
    <3>2. QED  BY <3>1, <1>1
  <2>16. ASSUME NEW k \in 1..n
         PROVE  /\ cut[k] = cut[k - 1] + Len(seqs[k])
                /\ \A o \in 1..Len(seqs[k]) : f[n][cut[k - 1] + o] = seqs[k][o]
    <3>1. size[k] = Len(seqs[k]) /\ cut[k] = cut[k - 1] + size[k]
      BY <1>32, <1>4
    <3>2. \A o \in 1..size[k] : f[n][cut[k - 1] + o] = seqs[k][o]
      BY <2>15
    <3>3. QED  BY <3>1, <3>2, Zenon
  <2>17. f[n] \in Seq(S) /\ cut[n] = Len(f[n])
    BY <1>1, <1>3, <1>32
  <2>18. Cuts(seqs, f[n], cut, S)
    BY <1>31, <1>33, <2>16, <2>17, Zenon DEF Cuts, n
  <2>19. QED  BY <2>11, <2>18
<1>6. CASE n = 0
  <2>1. FlattenSeq(seqs) = seqs
    BY <1>6, Zenon DEF FlattenSeq, n
  <2>2. seqs = <<>>
    BY <1>6 DEF n
  <2>3. Cuts(seqs, <<>>, [k \in 0..0 |-> 0], S)
    BY <2>2 DEF Cuts
  <2>4. QED  BY <2>1, <2>2, <2>3
<1>7. QED  BY <1>5, <1>6

-----------------------------------------------------------------------------
(* The order of names, of paths and of texts.                              *)

\* s is before t when their items are compared by R.
Lex(s, t, R) ==
  \/ Len(s) < Len(t) /\ \A i \in 1..Len(s) : s[i] = t[i]
  \/ \E k \in 1..Len(s) : k <= Len(t) /\ (\A i \in 1..(k - 1) : s[i] = t[i]) /\ <<s[k], t[k]>> \in R

\* R is a strict linear order of A.
Linear(R, A) ==
  /\ \A a \in A : <<a, a>> \notin R
  /\ \A a, b, c \in A : <<a, b>> \in R /\ <<b, c>> \in R => <<a, c>> \in R
  /\ \A a, b \in A : a = b \/ <<a, b>> \in R \/ <<b, a>> \in R

\* Lists are never before themselves.
LEMMA LexIrreflexive ==
  ASSUME NEW A, NEW R, Linear(R, A), NEW s \in Seq(A)
  PROVE  ~Lex(s, s, R)
<1>1. Len(s) \in Nat /\ \A k \in 1..Len(s) : s[k] \in A
  OBVIOUS
<1>2. ~ (Len(s) < Len(s))
  BY <1>1
<1>3. \A k \in 1..Len(s) : <<s[k], s[k]>> \notin R
  BY <1>1, Zenon DEF Linear
<1>4. QED  BY <1>2, <1>3, Zenon DEF Lex

\* The order of lists is transitive.
LEMMA LexTransitive ==
  ASSUME NEW A, NEW R, Linear(R, A), NEW s \in Seq(A), NEW t \in Seq(A), NEW u \in Seq(A),
         Lex(s, t, R), Lex(t, u, R)
  PROVE  Lex(s, u, R)
<1>1. /\ Len(s) \in Nat /\ \A k \in 1..Len(s) : s[k] \in A
      /\ Len(t) \in Nat /\ \A k \in 1..Len(t) : t[k] \in A
      /\ Len(u) \in Nat /\ \A k \in 1..Len(u) : u[k] \in A
  OBVIOUS
<1>2. CASE Len(s) < Len(t) /\ \A i \in 1..Len(s) : s[i] = t[i]
  <2>1. CASE Len(t) < Len(u) /\ \A i \in 1..Len(t) : t[i] = u[i]
    <3>1. Len(s) < Len(u) /\ \A i \in 1..Len(s) : i \in 1..Len(t)
      BY <1>1, <1>2, <2>1
    <3>2. \A i \in 1..Len(s) : s[i] = u[i]
      BY <1>2, <2>1, <3>1
    <3>3. QED  BY <3>1, <3>2 DEF Lex
  <2>2. CASE \E k \in 1..Len(t) : k <= Len(u) /\ (\A i \in 1..(k - 1) : t[i] = u[i]) /\ <<t[k], u[k]>> \in R
    <3>1. PICK k \in 1..Len(t) : k <= Len(u) /\ (\A i \in 1..(k - 1) : t[i] = u[i]) /\ <<t[k], u[k]>> \in R
      BY <2>2
    <3>2. CASE k <= Len(s)
      <4>1. k \in 1..Len(s) /\ \A i \in 1..(k - 1) : i \in 1..Len(s)
        BY <1>1, <3>2
      <4>2. \A i \in 1..(k - 1) : s[i] = u[i]
        BY <1>2, <3>1, <4>1
      <4>3. s[k] = t[k]
        BY <1>2, <4>1
      <4>4. QED  BY <3>1, <4>1, <4>2, <4>3 DEF Lex
    <3>3. CASE ~ (k <= Len(s))
      <4>1. Len(s) < Len(u) /\ \A i \in 1..Len(s) : i \in 1..(k - 1)
        BY <1>1, <3>1, <3>3
      <4>2. \A i \in 1..Len(s) : s[i] = u[i]
        BY <1>2, <3>1, <4>1
      <4>3. QED  BY <4>1, <4>2 DEF Lex
    <3>4. QED  BY <3>2, <3>3
  <2>3. QED  BY <2>1, <2>2 DEF Lex
<1>3. CASE \E k \in 1..Len(s) : k <= Len(t) /\ (\A i \in 1..(k - 1) : s[i] = t[i]) /\ <<s[k], t[k]>> \in R
  <2>0. PICK k \in 1..Len(s) : k <= Len(t) /\ (\A i \in 1..(k - 1) : s[i] = t[i]) /\ <<s[k], t[k]>> \in R
    BY <1>3
  <2>1. CASE Len(t) < Len(u) /\ \A i \in 1..Len(t) : t[i] = u[i]
    <3>1. k <= Len(u) /\ k \in 1..Len(t) /\ \A i \in 1..(k - 1) : i \in 1..Len(t)
      BY <1>1, <2>0, <2>1
    <3>2. \A i \in 1..(k - 1) : s[i] = u[i]
      BY <2>0, <2>1, <3>1
    <3>3. t[k] = u[k]
      BY <2>1, <3>1
    <3>4. QED  BY <2>0, <3>1, <3>2, <3>3 DEF Lex
  <2>2. CASE \E l \in 1..Len(t) : l <= Len(u) /\ (\A i \in 1..(l - 1) : t[i] = u[i]) /\ <<t[l], u[l]>> \in R
    <3>1. PICK l \in 1..Len(t) : l <= Len(u) /\ (\A i \in 1..(l - 1) : t[i] = u[i]) /\ <<t[l], u[l]>> \in R
      BY <2>2
    <3>2. CASE k < l
      <4>1. k <= Len(u) /\ k \in 1..(l - 1) /\ \A i \in 1..(k - 1) : i \in 1..(l - 1)
        BY <1>1, <3>1, <3>2
      <4>2. \A i \in 1..(k - 1) : s[i] = u[i]
        BY <2>0, <3>1, <4>1
      <4>3. t[k] = u[k]
        BY <3>1, <4>1
      <4>4. QED  BY <2>0, <4>1, <4>2, <4>3 DEF Lex
    <3>3. CASE l < k
      <4>1. l \in 1..Len(s) /\ l \in 1..(k - 1) /\ \A i \in 1..(l - 1) : i \in 1..(k - 1)
        BY <1>1, <3>1, <3>3
      <4>2. \A i \in 1..(l - 1) : s[i] = u[i]
        BY <2>0, <3>1, <4>1
      <4>3. s[l] = t[l]
        BY <2>0, <4>1
      <4>4. QED  BY <3>1, <4>1, <4>2, <4>3 DEF Lex
    <3>4. CASE k = l
      <4>1. \A i \in 1..(k - 1) : s[i] = u[i]
        BY <2>0, <3>1, <3>4
      <4>2. s[k] \in A /\ t[k] \in A /\ u[k] \in A
        <5>1. k \in 1..Len(t) /\ k \in 1..Len(u)
          BY <1>1, <2>0, <3>1, <3>4
        <5>2. QED  BY <1>1, <5>1
      <4>3. <<s[k], u[k]>> \in R
        BY <2>0, <3>1, <3>4, <4>2 DEF Linear
      <4>4. QED  BY <3>1, <3>4, <4>1, <4>3 DEF Lex
    <3>5. QED  BY <3>2, <3>3, <3>4
  <2>3. QED  BY <2>1, <2>2 DEF Lex
<1>4. QED  BY <1>2, <1>3 DEF Lex

\* Of two lists one is before the other.
LEMMA LexTotal ==
  ASSUME NEW A, NEW R, Linear(R, A), NEW s \in Seq(A), NEW t \in Seq(A), s # t
  PROVE  Lex(s, t, R) \/ Lex(t, s, R)
<1>1. /\ Len(s) \in Nat /\ \A k \in 1..Len(s) : s[k] \in A
      /\ Len(t) \in Nat /\ \A k \in 1..Len(t) : t[k] \in A
  OBVIOUS
<1> DEFINE D == {k \in 1..Len(s) : k <= Len(t) /\ s[k] # t[k]}
<1>2. CASE D = {}
  <2>1. Len(s) # Len(t)
    <3>1. SUFFICES ASSUME Len(s) = Len(t)  PROVE FALSE
      OBVIOUS
    <3>2. \A i \in 1..Len(s) : s[i] = t[i]
      BY <1>1, <1>2, <3>1
    <3>3. QED  BY <3>1, <3>2, SeqEqual
  <2>2. CASE Len(s) < Len(t)
    <3>1. \A i \in 1..Len(s) : s[i] = t[i]
      BY <1>1, <1>2, <2>2
    <3>2. QED  BY <2>2, <3>1 DEF Lex
  <2>3. CASE Len(t) < Len(s)
    <3>1. \A i \in 1..Len(t) : t[i] = s[i]
      BY <1>1, <1>2, <2>3
    <3>2. QED  BY <2>3, <3>1 DEF Lex
  <2>4. QED  BY <1>1, <2>1, <2>2, <2>3
<1>3. CASE D # {}
  <2>1. D \subseteq Nat
    BY <1>1
  <2>2. PICK k \in D : \A j \in D : k <= j
    BY <1>3, <2>1, LeastExists
  <2>3. k \in 1..Len(s) /\ k \in 1..Len(t) /\ k <= Len(s) /\ k <= Len(t) /\ s[k] # t[k]
    BY <1>1
  <2>4. ASSUME NEW i \in 1..(k - 1)  PROVE s[i] = t[i]
    <3>1. i \in 1..Len(s) /\ i <= Len(t) /\ ~ (k <= i)
      BY <1>1, <2>3
    <3>2. i \notin D
      BY <2>2, <3>1
    <3>3. QED  BY <3>1, <3>2
  <2>5. <<s[k], t[k]>> \in R \/ <<t[k], s[k]>> \in R
    BY <1>1, <2>3 DEF Linear
  <2>6. CASE <<s[k], t[k]>> \in R
    BY <2>3, <2>4, <2>6 DEF Lex
  <2>7. CASE <<t[k], s[k]>> \in R
    BY <2>3, <2>4, <2>7 DEF Lex
  <2>8. QED  BY <2>5, <2>6, <2>7
<1>4. QED  BY <1>2, <1>3

NumberOrder == {p \in Nat \X Nat : p[1] < p[2]}
Names == Seq(Nat)
NameOrder == {p \in Names \X Names : NameBefore(p[1], p[2])}
Paths == Seq(Names)

\* Numbers are in a linear order.
LEMMA NumbersLinear == Linear(NumberOrder, Nat)
<1>1. \A a, b \in Nat : <<a, b>> \in NumberOrder <=> a < b
  BY DEF NumberOrder
<1>2. QED  BY <1>1 DEF Linear

\* Two lists have the same first items when their first parts are the same.
LEMMA SamePrefix ==
  ASSUME NEW A, NEW s \in Seq(A), NEW t \in Seq(A), NEW n \in Nat, n <= Len(s), n <= Len(t)
  PROVE  SubSeq(s, 1, n) = SubSeq(t, 1, n) <=> \A i \in 1..n : s[i] = t[i]
<1>1. Len(s) \in Nat /\ Len(t) \in Nat /\ \A i \in 1..n : i \in 1..Len(s) /\ i \in 1..Len(t)
  OBVIOUS
<1>2. \A i \in 1..n : s[i] \in A /\ t[i] \in A
  BY <1>1
<1> DEFINE a == SubSeq(s, 1, n)  b == SubSeq(t, 1, n)
<1>3. /\ a \in Seq(A) /\ Len(a) = IF 1 <= n THEN n - 1 + 1 ELSE 0
      /\ \A i \in 1..(n - 1 + 1) : a[i] = s[1 + i - 1]
  BY <1>2, SubSeqProperties
<1>4. /\ b \in Seq(A) /\ Len(b) = IF 1 <= n THEN n - 1 + 1 ELSE 0
      /\ \A i \in 1..(n - 1 + 1) : b[i] = t[1 + i - 1]
  BY <1>2, SubSeqProperties
<1> HIDE DEF a, b
<1>5. n - 1 + 1 = n /\ \A i \in 1..n : 1 + i - 1 = i
  OBVIOUS
<1>6. Len(a) = n /\ Len(b) = n
  BY <1>3, <1>4
<1>7. \A i \in 1..n : a[i] = s[i] /\ b[i] = t[i]
  BY <1>3, <1>4, <1>5
<1>8. a = b <=> \A i \in 1..n : a[i] = b[i]
  <2>1. ASSUME \A i \in 1..n : a[i] = b[i]  PROVE a = b
    BY <1>3, <1>4, <1>6, <2>1, SeqEqual
  <2>2. QED  BY <2>1
<1>9. QED  BY <1>7, <1>8 DEF a, b

\* A strict prefix is a list of fewer items that are the same.
LEMMA StrictPrefix ==
  ASSUME NEW A, NEW s \in Seq(A), NEW t \in Seq(A)
  PROVE  IsStrictPrefix(s, t) <=> Len(s) < Len(t) /\ \A i \in 1..Len(s) : s[i] = t[i]
<1>1. Len(s) \in Nat /\ Len(t) \in Nat
  OBVIOUS
<1>2. ASSUME Len(s) <= Len(t)
      PROVE  SubSeq(s, 1, Len(s)) = SubSeq(t, 1, Len(s)) <=> \A i \in 1..Len(s) : s[i] = t[i]
  BY <1>1, <1>2, SamePrefix
<1>3. ASSUME Len(s) = Len(t), \A i \in 1..Len(s) : s[i] = t[i]  PROVE s = t
  BY <1>3, SeqEqual
<1>4. QED  BY <1>1, <1>2, <1>3 DEF IsStrictPrefix, IsPrefix

\* The order of names is the order of their characters.
LEMMA NameBeforeIsLex ==
  ASSUME NEW s \in Names, NEW t \in Names
  PROVE  NameBefore(s, t) <=> Lex(s, t, NumberOrder)
<1>1. /\ s \in Seq(Nat) /\ t \in Seq(Nat) /\ DOMAIN s = 1..Len(s) /\ DOMAIN t = 1..Len(t)
      /\ Len(s) \in Nat /\ Len(t) \in Nat
  BY DEF Names
<1>2. ASSUME NEW k \in 1..Len(s), k <= Len(t)
      PROVE  SubSeq(s, 1, k - 1) = SubSeq(t, 1, k - 1) <=> \A i \in 1..(k - 1) : s[i] = t[i]
  BY <1>1, <1>2, SamePrefix
<1>3. ASSUME NEW k \in 1..Len(s), k <= Len(t)
      PROVE  s[k] < t[k] <=> <<s[k], t[k]>> \in NumberOrder
  <2>1. s[k] \in Nat /\ t[k] \in Nat
    BY <1>1, <1>3
  <2>2. QED  BY <2>1 DEF NumberOrder
<1>4. \A k : k \in DOMAIN s \cap DOMAIN t <=> k \in 1..Len(s) /\ k <= Len(t)
  BY <1>1
<1>5. NameBefore(s, t) <=> \/ IsStrictPrefix(s, t)
                           \/ \E k \in DOMAIN s \cap DOMAIN t :
                                SubSeq(s, 1, k - 1) = SubSeq(t, 1, k - 1) /\ s[k] < t[k]
  BY DEF NameBefore, Precedes
<1>6. IsStrictPrefix(s, t) <=> Len(s) < Len(t) /\ \A i \in 1..Len(s) : s[i] = t[i]
  BY <1>1, StrictPrefix
<1>7. QED  BY <1>2, <1>3, <1>4, <1>5, <1>6 DEF Lex

\* Names are in a linear order.
LEMMA NamesLinear == Linear(NameOrder, Names)
<1>1. \A m, n \in Names : <<m, n>> \in NameOrder <=> Lex(m, n, NumberOrder)
  <2>1. ASSUME NEW m \in Names, NEW n \in Names
        PROVE  <<m, n>> \in NameOrder <=> Lex(m, n, NumberOrder)
    <3>1. <<m, n>> \in NameOrder <=> NameBefore(m, n)
      BY DEF NameOrder
    <3>2. QED  BY <3>1, NameBeforeIsLex
  <2>2. QED  BY <2>1
<1>2. Names = Seq(Nat)
  BY DEF Names
<1>3. \A m \in Names : ~Lex(m, m, NumberOrder)
  BY <1>2, NumbersLinear, LexIrreflexive
<1>4. \A l, m, n \in Names : Lex(l, m, NumberOrder) /\ Lex(m, n, NumberOrder) => Lex(l, n, NumberOrder)
  BY <1>2, NumbersLinear, LexTransitive
<1>5. \A m, n \in Names : m = n \/ Lex(m, n, NumberOrder) \/ Lex(n, m, NumberOrder)
  BY <1>2, NumbersLinear, LexTotal
<1>6. QED  BY <1>1, <1>3, <1>4, <1>5, Zenon DEF Linear

\* The order of paths is the order of their names.
LEMMA PathBeforeIsLex ==
  ASSUME NEW s \in Paths, NEW t \in Paths
  PROVE  PathBefore(s, t) <=> Lex(s, t, NameOrder)
<1>1. /\ s \in Seq(Names) /\ t \in Seq(Names) /\ DOMAIN s = 1..Len(s) /\ DOMAIN t = 1..Len(t)
      /\ Len(s) \in Nat /\ Len(t) \in Nat
  BY DEF Paths
<1>2. ASSUME NEW k \in 1..Len(s), k <= Len(t)
      PROVE  SubSeq(s, 1, k - 1) = SubSeq(t, 1, k - 1) <=> \A i \in 1..(k - 1) : s[i] = t[i]
  BY <1>1, <1>2, SamePrefix
<1>3. ASSUME NEW k \in 1..Len(s), k <= Len(t)
      PROVE  NameBefore(s[k], t[k]) <=> <<s[k], t[k]>> \in NameOrder
  <2>1. s[k] \in Names /\ t[k] \in Names
    BY <1>1, <1>3
  <2>2. QED  BY <2>1 DEF NameOrder
<1>4. \A k : k \in DOMAIN s \cap DOMAIN t <=> k \in 1..Len(s) /\ k <= Len(t)
  BY <1>1
<1>5. PathBefore(s, t) <=> \/ IsStrictPrefix(s, t)
                           \/ \E k \in DOMAIN s \cap DOMAIN t :
                                SubSeq(s, 1, k - 1) = SubSeq(t, 1, k - 1) /\ NameBefore(s[k], t[k])
  BY Zenon DEF PathBefore, Precedes
<1>6. IsStrictPrefix(s, t) <=> Len(s) < Len(t) /\ \A i \in 1..Len(s) : s[i] = t[i]
  BY <1>1, StrictPrefix
<1>7. QED  BY <1>2, <1>3, <1>4, <1>5, <1>6 DEF Lex

\* PathBefore is a linear order of the paths.
LEMMA PathsLinear ==
  /\ \A p \in Paths : ~PathBefore(p, p)
  /\ \A p, q, r \in Paths : PathBefore(p, q) /\ PathBefore(q, r) => PathBefore(p, r)
  /\ \A p, q \in Paths : p = q \/ PathBefore(p, q) \/ PathBefore(q, p)
<1>1. Paths = Seq(Names)
  BY DEF Paths
<1>2. \A p, q \in Paths : PathBefore(p, q) <=> Lex(p, q, NameOrder)
  BY PathBeforeIsLex
<1>3. \A p \in Paths : ~Lex(p, p, NameOrder)
  BY <1>1, NamesLinear, LexIrreflexive
<1>4. \A p, q, r \in Paths : Lex(p, q, NameOrder) /\ Lex(q, r, NameOrder) => Lex(p, r, NameOrder)
  BY <1>1, NamesLinear, LexTransitive
<1>5. \A p, q \in Paths : p = q \/ Lex(p, q, NameOrder) \/ Lex(q, p, NameOrder)
  BY <1>1, NamesLinear, LexTotal
<1>6. QED  BY <1>2, <1>3, <1>4, <1>5, Zenon

-----------------------------------------------------------------------------
(* The files of a store in order.                                          *)

Files(w) == StoreOf[w].files
FileCount(w) == Cardinality(Files(w))
FileList(w) == Sorted(Files(w))

\* What StoresAreCommitted says of the files of one store.
LEMMA StoreFacts ==
  ASSUME NEW w \in Writers
  PROVE  /\ IsFiniteSet(Files(w))
         /\ FileCount(w) \in Nat
         /\ \A f \in Files(w) : /\ f = [path |-> f.path, chunks |-> f.chunks]
                                /\ f.path \in Paths
                                /\ f.chunks \in Seq(ToSet(f.chunks))
                                /\ f.chunks # <<>>
         /\ \A f, g \in Files(w) : f.path = g.path => f = g
         /\ [path |-> HeadPath, chunks |-> <<StoreOf[w].head>>] \in Files(w)
<1>1. /\ IsFiniteSet(Files(w))
      /\ \A f \in Files(w) : f \in [path : Seq(Seq(Nat)), chunks : Seq(ToSet(f.chunks)) \ {<<>>}]
      /\ \A f, g \in Files(w) : f.path = g.path => f = g
      /\ [path |-> HeadPath, chunks |-> <<StoreOf[w].head>>] \in Files(w)
  BY StoresAreCommitted, Zenon DEF Files
<1>2. FileCount(w) \in Nat
  BY <1>1, FS_CardinalityType DEF FileCount
<1>3. ASSUME NEW f \in Files(w)
      PROVE  /\ f = [path |-> f.path, chunks |-> f.chunks]
             /\ f.path \in Paths
             /\ f.chunks \in Seq(ToSet(f.chunks))
             /\ f.chunks # <<>>
  <2> DEFINE C == Seq(ToSet(f.chunks)) \ {<<>>}
             P == Seq(Seq(Nat))
  <2>1. f \in [path : P, chunks : C]
    BY <1>1
  <2> HIDE DEF C, P
  <2>2. f = [path |-> f.path, chunks |-> f.chunks] /\ f.path \in P /\ f.chunks \in C
    BY <2>1
  <2>3. QED  BY <2>2, Zenon DEF C, P, Paths, Names
<1>4. QED  BY <1>1, <1>2, <1>3

\* The files before a file.
Below(w, f) == {g \in Files(w) : PathBefore(g.path, f.path)}
Rank(w, f) == Cardinality(Below(w, f))

\* A file has a place among the files, and later files have later places.
LEMMA RankRises ==
  ASSUME NEW w \in Writers, NEW f \in Files(w)
  PROVE  /\ Rank(w, f) \in 0..(FileCount(w) - 1)
         /\ \A g \in Files(w) : PathBefore(f.path, g.path) => Rank(w, f) < Rank(w, g)
<1>1. /\ IsFiniteSet(Files(w)) /\ FileCount(w) \in Nat /\ \A g \in Files(w) : g.path \in Paths
  BY StoreFacts
<1>2. \A g \in Files(w) : Below(w, g) \in SUBSET Files(w) /\ g \notin Below(w, g)
  BY <1>1, PathsLinear DEF Below
<1>3. \A g \in Files(w) : IsFiniteSet(Below(w, g)) /\ Rank(w, g) \in Nat
  BY <1>1, <1>2, FS_Subset, FS_CardinalityType DEF Rank
<1>4. Rank(w, f) <= FileCount(w) - 1
  <2>1. Rank(w, f) <= FileCount(w)
    BY <1>1, <1>2, FS_Subset DEF Rank, FileCount
  <2>2. Rank(w, f) # FileCount(w)
    BY <1>1, <1>2, FS_Subset DEF Rank, FileCount
  <2>3. QED  BY <1>1, <1>3, <2>1, <2>2
<1>5. ASSUME NEW g \in Files(w), PathBefore(f.path, g.path)  PROVE Rank(w, f) < Rank(w, g)
  <2>1. Below(w, f) \in SUBSET Below(w, g)
    BY <1>1, <1>5, PathsLinear DEF Below
  <2>2. f \in Below(w, g) /\ f \notin Below(w, f)
    BY <1>2, <1>5 DEF Below
  <2>3. Rank(w, f) <= Rank(w, g) /\ Rank(w, f) # Rank(w, g)
    BY <1>3, <2>1, <2>2, FS_Subset DEF Rank
  <2>4. QED  BY <1>3, <2>3
<1>6. QED  BY <1>1, <1>3, <1>4, <1>5

\* Two files have different places, and every place is taken.
LEMMA RankPlaces ==
  ASSUME NEW w \in Writers
  PROVE  /\ \A f, g \in Files(w) : Rank(w, f) = Rank(w, g) => f = g
         /\ \A k \in 1..FileCount(w) : \E f \in Files(w) : Rank(w, f) = k - 1
<1>1. /\ IsFiniteSet(Files(w)) /\ FileCount(w) \in Nat
      /\ \A f \in Files(w) : f.path \in Paths
      /\ \A f, g \in Files(w) : f.path = g.path => f = g
  BY StoreFacts
<1>2. ASSUME NEW f \in Files(w), NEW g \in Files(w), Rank(w, f) = Rank(w, g)  PROVE f = g
  <2>1. Rank(w, f) \in Nat /\ Rank(w, g) \in Nat
    BY <1>1, RankRises
  <2>2. ~PathBefore(f.path, g.path) /\ ~PathBefore(g.path, f.path)
    BY <1>2, <2>1, RankRises
  <2>3. f.path = g.path
    BY <1>1, <2>2, PathsLinear
  <2>4. QED  BY <1>1, <2>3
<1> DEFINE T == 0..(FileCount(w) - 1)
           r == [f \in Files(w) |-> Rank(w, f)]
<1>3. r \in Injection(Files(w), T)
  <2>1. \A f \in Files(w) : Rank(w, f) \in T
    BY RankRises
  <2>2. r \in [Files(w) -> T]
    BY <2>1
  <2>3. \A f, g \in Files(w) : r[f] = r[g] => f = g
    BY <1>2
  <2> HIDE DEF T, r
  <2>4. QED  BY <2>2, <2>3 DEF Injection, IsInjective
<1>4. IsFiniteSet(T) /\ Cardinality(T) = FileCount(w)
  BY <1>1, FS_Interval
<1>5. r \in Surjection(Files(w), T)
  <2> HIDE DEF T, r
  <2>1. QED  BY <1>1, <1>3, <1>4, FS_Injection DEF FileCount
<1>6. ASSUME NEW k \in 1..FileCount(w)  PROVE \E f \in Files(w) : Rank(w, f) = k - 1
  <2>1. k - 1 \in T
    BY <1>1
  <2> HIDE DEF T
  <2>2. \E f \in Files(w) : r[f] = k - 1
    <3> HIDE DEF r
    <3>1. QED  BY <1>5, <2>1 DEF Surjection
  <2>3. QED  BY <2>2
<1>7. QED  BY <1>2, <1>6

\* The list has every file once, in the order of the paths.
LEMMA SortedList ==
  ASSUME NEW w \in Writers
  PROVE  /\ FileList(w) \in Seq(Files(w))
         /\ Len(FileList(w)) = FileCount(w)
         /\ ToSet(FileList(w)) = Files(w)
         /\ \A i, j \in 1..FileCount(w) : i < j =>
              PathBefore(FileList(w)[i].path, FileList(w)[j].path)
         /\ \A i, j \in 1..FileCount(w) : FileList(w)[i].path = FileList(w)[j].path => i = j
<1> DEFINE n == FileCount(w)
<1>1. n \in Nat
  BY StoreFacts
<1>2. ASSUME NEW k \in 1..n
      PROVE  FileList(w)[k] \in Files(w) /\ Rank(w, FileList(w)[k]) = k - 1
  <2>1. \E f \in Files(w) : Rank(w, f) = k - 1
    BY RankPlaces
  <2>2. FileList(w)[k] = CHOOSE f \in Files(w) : Rank(w, f) = k - 1
    <3>1. FileList(w) = [i \in 1..n |-> CHOOSE f \in Files(w) : Rank(w, f) = i - 1]
      BY Zenon DEF FileList, Sorted, Rank, Below, FileCount
    <3>2. QED  BY <3>1, Zenon
  <2>3. QED  BY <2>1, <2>2, Zenon
<1>3. FileList(w) = [k \in 1..n |-> FileList(w)[k]]
  <2> DEFINE r(i) == CHOOSE f \in Files(w) : Rank(w, f) = i - 1
  <2>1. FileList(w) = [i \in 1..n |-> r(i)]
    BY Zenon DEF FileList, Sorted, Rank, Below, FileCount
  <2> HIDE DEF r, n
  <2>2. QED  BY <2>1
<1> DEFINE F == FileList(w)
<1> HIDE DEF n
<1>4. F \in Seq(Files(w)) /\ Len(F) = n /\ DOMAIN F = 1..n
  <2>1. \A k \in 1..n : F[k] \in Files(w)
    BY <1>2
  <2>2. F = [k \in 1..n |-> F[k]]
    BY <1>3
  <2> HIDE DEF F
  <2>3. QED  BY <1>1, <2>1, <2>2
<1>5. ToSet(F) = Files(w)
  <2>1. ASSUME NEW f \in Files(w)  PROVE \E k \in 1..n : F[k] = f
    <3>1. Rank(w, f) \in 0..(n - 1)
      BY RankRises DEF n
    <3>2. Rank(w, f) + 1 \in 1..n /\ (Rank(w, f) + 1) - 1 = Rank(w, f)
      BY <1>1, <3>1
    <3>3. F[Rank(w, f) + 1] \in Files(w) /\ Rank(w, F[Rank(w, f) + 1]) = Rank(w, f)
      BY <1>2, <3>2
    <3>4. F[Rank(w, f) + 1] = f
      BY <3>3, RankPlaces
    <3>5. QED  BY <3>2, <3>4
  <2>2. \A k \in 1..n : F[k] \in Files(w)
    BY <1>2
  <2> HIDE DEF F
  <2>3. QED  BY <1>4, <2>1, <2>2 DEF ToSet
<1>6. ASSUME NEW i \in 1..n, NEW j \in 1..n, F[i].path = F[j].path  PROVE i = j
  <2>1. F[i] = F[j]
    BY <1>2, <1>6, StoreFacts
  <2>2. i - 1 = j - 1
    BY <1>2, <2>1
  <2>3. QED  BY <1>1, <2>2
<1>7. ASSUME NEW i \in 1..n, NEW j \in 1..n, i < j  PROVE PathBefore(F[i].path, F[j].path)
  <2>1. F[i] \in Files(w) /\ F[j] \in Files(w) /\ Rank(w, F[i]) = i - 1 /\ Rank(w, F[j]) = j - 1
    BY <1>2
  <2>2. F[i].path \in Paths /\ F[j].path \in Paths
    BY <2>1, StoreFacts
  <2>3. ~PathBefore(F[j].path, F[i].path)
    <3>1. SUFFICES ASSUME PathBefore(F[j].path, F[i].path)  PROVE FALSE
      OBVIOUS
    <3>2. Rank(w, F[j]) < Rank(w, F[i])
      BY <2>1, <3>1, RankRises
    <3>3. j - 1 < i - 1
      BY <2>1, <3>2
    <3>4. QED  BY <1>1, <1>7, <3>3
  <2>4. F[i].path # F[j].path
    BY <1>1, <1>6, <1>7
  <2>5. QED  BY <2>2, <2>3, <2>4, PathsLinear
<1>8. QED  BY <1>4, <1>5, <1>6, <1>7 DEF n

-----------------------------------------------------------------------------
(* The entries of a store.                                                 *)

Size(w, k) == Len(FileList(w)[k].chunks)
Data(w) == UNION {ToSet(f.chunks) : f \in Files(w)}
Entries(w) == [path : Paths, offset : Nat, digest : {Chunk(d) : d \in Data(w)}]
EntryCount(w) == Len(EntriesOf[w])

\* The entry of a chunk of a file.
EntryFor(w, k, o) ==
  [path |-> FileList(w)[k].path, offset |-> o - 1, digest |-> Chunk(FileList(w)[k].chunks[o])]

\* ends says after which entry each file ends.
Places(w, ends) ==
  /\ ends \in [0..FileCount(w) -> Nat]
  /\ ends[0] = 0
  /\ ends[FileCount(w)] = EntryCount(w)
  /\ \A k \in 1..FileCount(w) :
       /\ ends[k] = ends[k - 1] + Size(w, k)
       /\ \A o \in 1..Size(w, k) : EntriesOf[w][ends[k - 1] + o] = EntryFor(w, k, o)

Ends(w) == CHOOSE ends : Places(w, ends)

\* A file in the list has chunks, and a path.
LEMMA ListedFile ==
  ASSUME NEW w \in Writers, NEW k \in 1..FileCount(w)
  PROVE  /\ FileList(w)[k] \in Files(w)
         /\ FileList(w)[k].path \in Paths
         /\ Size(w, k) \in Nat \ {0}
         /\ FileList(w)[k].chunks \in Seq(Data(w))
         /\ \A o \in 1..Size(w, k) : FileList(w)[k].chunks[o] \in Data(w)
<1>1. FileList(w) \in Seq(Files(w)) /\ Len(FileList(w)) = FileCount(w)
  BY SortedList
<1>2. FileList(w)[k] \in Files(w)
  BY <1>1
<1> DEFINE f == FileList(w)[k]
           c == f.chunks
<1>3. f.path \in Paths /\ c \in Seq(ToSet(c)) /\ c # <<>>
  BY <1>2, StoreFacts
<1>4. ToSet(c) \subseteq Data(w)
  BY <1>2 DEF Data
<1>5. c \in Seq(Data(w)) /\ Len(c) \in Nat \ {0} /\ \A o \in 1..Len(c) : c[o] \in Data(w)
  <2> HIDE DEF c
  <2>1. c \in Seq(Data(w))
    BY <1>3, <1>4, SeqMonotonic
  <2>2. QED  BY <1>3, <2>1
<1>6. QED  BY <1>2, <1>3, <1>5, Zenon DEF Size, f, c

\* Where the entries of the files are.
LEMMA EntryPlaces ==
  ASSUME NEW w \in Writers
  PROVE  Places(w, Ends(w)) /\ EntriesOf[w] \in Seq(Entries(w))
<1> DEFINE F == FileList(w)
           n == FileCount(w)
           seqs == [k \in 1..n |-> FileEntries(F[k])]
<1>1. n \in Nat /\ DOMAIN F = 1..n
  BY StoreFacts, SortedList
<1>2. EntriesOf[w] = FlattenSeq(seqs)
  <2>1. EntriesOf[w] = FlattenSeq([k \in DOMAIN F |-> FileEntries(F[k])])
    BY Zenon DEF EntriesOf, FileList, Files
  <2>2. QED  BY <1>1, <2>1
<1>3. ASSUME NEW k \in 1..n
      PROVE  /\ seqs[k] \in Seq(Entries(w))
             /\ Len(seqs[k]) = Size(w, k)
             /\ \A o \in 1..Size(w, k) : seqs[k][o] = EntryFor(w, k, o)
  <2> DEFINE c == F[k].chunks
             e == [o \in 1..Len(c) |-> EntryFor(w, k, o)]
  <2>1. DOMAIN c = 1..Len(c) /\ Len(c) = Size(w, k) /\ Len(c) \in Nat
    BY ListedFile DEF Size
  <2>2. seqs[k] = e
    <3>1. seqs[k] = [o \in DOMAIN c |-> EntryFor(w, k, o)]
      BY Zenon DEF FileEntries, EntryFor
    <3>2. QED  BY <2>1, <3>1
  <2>3. ASSUME NEW o \in 1..Size(w, k)  PROVE EntryFor(w, k, o) \in Entries(w)
    <3>1. F[k].path \in Paths /\ o - 1 \in Nat /\ c[o] \in Data(w)
      BY <2>1, ListedFile
    <3>2. Chunk(c[o]) \in {Chunk(d) : d \in Data(w)}
      BY <3>1
    <3>3. QED  BY <3>1, <3>2, Zenon DEF EntryFor, Entries
  <2>4. e \in Seq(Entries(w)) /\ Len(e) = Size(w, k) /\ \A o \in 1..Size(w, k) : e[o] = EntryFor(w, k, o)
    <3> HIDE DEF c
    <3>1. e = [o \in 1..Size(w, k) |-> EntryFor(w, k, o)]
      BY <2>1
    <3>2. Size(w, k) \in Nat
      BY <2>1
    <3> HIDE DEF e
    <3>3. QED  BY <2>3, <3>1, <3>2
  <2> HIDE DEF e, seqs
  <2>5. QED  BY <2>2, <2>4
<1>4. Len(seqs) = n /\ seqs \in Seq(Seq(Entries(w)))
  <2>1. \A k \in 1..n : seqs[k] \in Seq(Entries(w))
    BY <1>3
  <2>2. seqs = [k \in 1..n |-> seqs[k]]
    OBVIOUS
  <2> HIDE DEF seqs, n
  <2>3. QED  BY <1>1, <2>1, <2>2
<1> HIDE DEF seqs
<1>5. PICK cut : Cuts(seqs, FlattenSeq(seqs), cut, Entries(w))
  BY <1>4, FlattenCuts
<1>6. EntriesOf[w] \in Seq(Entries(w))
  BY <1>2, <1>5 DEF Cuts
<1>7. cut \in [0..n -> Nat] /\ cut[0] = 0 /\ cut[n] = EntryCount(w)
  BY <1>2, <1>4, <1>5 DEF Cuts, EntryCount
<1>8. ASSUME NEW k \in 1..n
      PROVE  /\ cut[k] = cut[k - 1] + Size(w, k)
             /\ \A o \in 1..Size(w, k) : EntriesOf[w][cut[k - 1] + o] = EntryFor(w, k, o)
  <2>1. /\ cut[k] = cut[k - 1] + Len(seqs[k])
        /\ \A o \in 1..Len(seqs[k]) : EntriesOf[w][cut[k - 1] + o] = seqs[k][o]
    BY <1>2, <1>4, <1>5, Zenon DEF Cuts
  <2>2. QED  BY <1>3, <2>1, Zenon
<1>9. Places(w, cut)
  BY <1>7, <1>8, Zenon DEF Places
<1>10. QED  BY <1>6, <1>9, Zenon DEF Ends

\* Files end one after the other, and none is empty.
LEMMA EndsRise ==
  ASSUME NEW w \in Writers, NEW i \in 0..FileCount(w), NEW j \in 0..FileCount(w), i < j
  PROVE  Ends(w)[i] < Ends(w)[j]
<1> DEFINE n == FileCount(w)
           c == Ends(w)
<1>1. n \in Nat
  BY StoreFacts
<1>2. /\ c \in [0..n -> Nat]
      /\ \A k \in 1..n : c[k] = c[k - 1] + Size(w, k) /\ Size(w, k) \in Nat \ {0}
  BY EntryPlaces, ListedFile DEF Places
<1> HIDE DEF c, n
<1> DEFINE T == {m \in Nat : i + 1 + m <= n => c[i] < c[i + 1 + m]}
<1>3. i \in 0..n /\ j \in 0..n
  BY DEF n
<1>4. 0 \in T
  <2>1. SUFFICES ASSUME i + 1 <= n  PROVE c[i] < c[i + 1]
    BY <1>3
  <2>2. i + 1 \in 1..n /\ (i + 1) - 1 = i
    BY <1>1, <1>3, <2>1
  <2>3. c[i + 1] = c[i] + Size(w, i + 1) /\ Size(w, i + 1) \in Nat \ {0} /\ c[i] \in Nat
    BY <1>2, <1>3, <2>2
  <2>4. QED  BY <2>3
<1>5. ASSUME NEW m \in Nat, m \in T  PROVE m + 1 \in T
  <2>1. SUFFICES ASSUME i + 1 + (m + 1) <= n  PROVE c[i] < c[i + 1 + (m + 1)]
    OBVIOUS
  <2>2. i + 1 + (m + 1) \in 1..n /\ (i + 1 + (m + 1)) - 1 = i + 1 + m /\ i + 1 + m \in 0..n
    BY <1>1, <1>3, <2>1
  <2>3. /\ c[i + 1 + (m + 1)] = c[i + 1 + m] + Size(w, i + 1 + (m + 1))
        /\ Size(w, i + 1 + (m + 1)) \in Nat \ {0} /\ c[i] \in Nat /\ c[i + 1 + m] \in Nat
    BY <1>2, <1>3, <2>2
  <2>4. c[i] < c[i + 1 + m]
    BY <1>1, <1>3, <1>5, <2>2
  <2>5. QED  BY <2>3, <2>4
<1>6. \A m \in Nat : m \in T
  <2> HIDE DEF T
  <2>1. QED  BY <1>4, <1>5, SetInduction
<1>7. j - i - 1 \in T /\ i + 1 + (j - i - 1) = j
  <2>1. j - i - 1 \in Nat /\ i + 1 + (j - i - 1) = j
    BY <1>1, <1>3
  <2> HIDE DEF T
  <2>2. QED  BY <1>6, <2>1
<1>8. c[i] < c[j]
  BY <1>1, <1>3, <1>7
<1>9. QED  BY <1>8 DEF c

\* A committed store has an entry.
LEMMA SomeEntries ==
  ASSUME NEW w \in Writers
  PROVE  EntryCount(w) \in Nat \ {0} /\ FileCount(w) \in Nat \ {0}
<1>1. FileCount(w) \in Nat \ {0}
  <2>1. IsFiniteSet(Files(w)) /\ FileCount(w) \in Nat /\ Files(w) # {}
    BY StoreFacts
  <2>2. QED  BY <2>1, FS_EmptySet DEF FileCount
<1>2. Ends(w)[0] < Ends(w)[FileCount(w)]
  BY <1>1, EndsRise
<1>3. Ends(w)[0] = 0 /\ Ends(w)[FileCount(w)] = EntryCount(w) /\ EntryCount(w) \in Nat
  BY <1>1, EntryPlaces DEF Places
<1>4. QED  BY <1>1, <1>2, <1>3

-----------------------------------------------------------------------------
(* The order of texts.                                                     *)

\* text is the names of path, a slash before each; cut says where each ends.
TextCut(path, cut) ==
  /\ Text(path) \in Seq(Nat)
  /\ cut \in [0..Len(path) -> Nat]
  /\ cut[0] = 0
  /\ cut[Len(path)] = Len(Text(path))
  /\ \A k \in 1..Len(path) :
       /\ Len(path[k]) \in Nat
       /\ cut[k] = cut[k - 1] + 1 + Len(path[k])
       /\ Text(path)[cut[k - 1] + 1] = Slash
       /\ \A o \in 1..Len(path[k]) : Text(path)[cut[k - 1] + 1 + o] = path[k][o]

\* What Text puts where.
LEMMA TextPlaces ==
  ASSUME NEW path \in Paths
  PROVE  \E cut : TextCut(path, cut)
<1> DEFINE n == Len(path)
           seqs == [k \in 1..n |-> <<Slash>> \o path[k]]
<1>1. path \in Seq(Names) /\ n \in Nat /\ DOMAIN path = 1..n
  BY DEF Paths
<1>2. Text(path) = FlattenSeq(seqs)
  <2>1. Text(path) = FlattenSeq([k \in DOMAIN path |-> <<Slash>> \o path[k]])
    BY Zenon DEF Text
  <2>2. QED  BY <1>1, <2>1
<1>3. <<Slash>> \in Seq(Nat) /\ Len(<<Slash>>) = 1 /\ <<Slash>>[1] = Slash
  BY SnapshotConstants
<1>4. ASSUME NEW k \in 1..n
      PROVE  /\ seqs[k] \in Seq(Nat) /\ Len(path[k]) \in Nat
             /\ Len(seqs[k]) = 1 + Len(path[k])
             /\ seqs[k][1] = Slash
             /\ \A o \in 1..Len(path[k]) : seqs[k][1 + o] = path[k][o]
  <2> DEFINE a == <<Slash>>  b == path[k]
  <2>1. b \in Seq(Nat)
    BY <1>1 DEF Names
  <2>2. a \in Seq(Nat) /\ Len(a) = 1 /\ a[1] = Slash
    BY <1>3
  <2>3. seqs[k] = a \o b
    OBVIOUS
  <2> HIDE DEF a, b
  <2> HIDE DEF seqs
  <2>4. /\ a \o b \in Seq(Nat) /\ Len(a \o b) = Len(a) + Len(b) /\ Len(b) \in Nat
        /\ \A o \in 1..Len(a) : (a \o b)[o] = a[o]
        /\ \A o \in 1..Len(b) : (a \o b)[Len(a) + o] = b[o]
    <3>1. a \in Seq(Nat)
      BY <2>2
    <3>2. QED  BY <2>1, <3>1, ConcatPlaces
  <2>5. (a \o b)[1] = Slash
    BY <2>2, <2>4
  <2>6. \A o \in 1..Len(b) : (a \o b)[1 + o] = b[o]
    BY <2>2, <2>4
  <2>7. /\ seqs[k] \in Seq(Nat) /\ Len(b) \in Nat /\ Len(seqs[k]) = 1 + Len(b)
        /\ seqs[k][1] = Slash /\ \A o \in 1..Len(b) : seqs[k][1 + o] = b[o]
    BY <2>2, <2>3, <2>4, <2>5, <2>6
  <2>8. QED  BY <2>7, Zenon DEF b
<1>5. Len(seqs) = n /\ seqs \in Seq(Seq(Nat))
  <2>1. \A k \in 1..n : seqs[k] \in Seq(Nat)
    BY <1>4
  <2>2. seqs = [k \in 1..n |-> seqs[k]]
    OBVIOUS
  <2> HIDE DEF seqs, n
  <2>3. QED  BY <1>1, <2>1, <2>2
<1> HIDE DEF seqs
<1>6. PICK cut : Cuts(seqs, FlattenSeq(seqs), cut, Nat)
  BY <1>5, FlattenCuts
<1>7. Text(path) \in Seq(Nat)
  BY <1>2, <1>6 DEF Cuts
<1>8. cut \in [0..n -> Nat] /\ cut[0] = 0 /\ cut[n] = Len(Text(path))
  BY <1>2, <1>5, <1>6 DEF Cuts
<1>9. ASSUME NEW k \in 1..n
      PROVE  /\ cut[k] = cut[k - 1] + 1 + Len(path[k])
             /\ Text(path)[cut[k - 1] + 1] = Slash
             /\ \A o \in 1..Len(path[k]) : Text(path)[cut[k - 1] + 1 + o] = path[k][o]
  <2> DEFINE t == Text(path)  l == Len(path[k])  c == cut[k - 1]
  <2>1. /\ cut[k] = c + Len(seqs[k])
        /\ \A o \in 1..Len(seqs[k]) : t[c + o] = seqs[k][o]
    BY <1>2, <1>5, <1>6, Zenon DEF Cuts
  <2>2. c \in Nat
    <3>1. k - 1 \in 0..n
      BY <1>1
    <3>2. QED  BY <1>8, <3>1
  <2>3. /\ l \in Nat /\ Len(seqs[k]) = 1 + l
        /\ seqs[k][1] = Slash
        /\ \A o \in 1..l : seqs[k][1 + o] = path[k][o]
    BY <1>4
  <2> HIDE DEF t, l, c
  <2>4. cut[k] = c + 1 + l
    BY <2>1, <2>2, <2>3
  <2>5. t[c + 1] = Slash
    BY <2>1, <2>2, <2>3
  <2>6. ASSUME NEW o \in 1..l  PROVE t[c + 1 + o] = path[k][o]
    <3>1. 1 + o \in 1..(1 + l) /\ c + (1 + o) = c + 1 + o
      BY <2>2, <2>3
    <3>2. t[c + (1 + o)] = seqs[k][1 + o]
      BY <2>1, <2>3, <3>1
    <3>3. QED  BY <2>3, <3>1, <3>2
  <2>7. QED  BY <2>4, <2>5, <2>6 DEF t, l, c
<1>10. TextCut(path, cut)
  BY <1>4, <1>7, <1>8, <1>9, Zenon DEF TextCut
<1>11. QED  BY <1>10

\* The texts of two paths with the same first names begin alike.
LEMMA TextsBeginAlike ==
  ASSUME NEW p \in Paths, NEW q \in Paths, NEW c, NEW d, TextCut(p, c), TextCut(q, d),
         NEW m \in Nat, m <= Len(p), m <= Len(q), \A i \in 1..m : p[i] = q[i]
  PROVE  c[m] = d[m] /\ \A x \in 1..c[m] : Text(p)[x] = Text(q)[x]
<1>1. Len(p) \in Nat /\ Len(q) \in Nat
  BY DEF Paths
<1> DEFINE T == {k \in Nat : k <= m => c[k] = d[k] /\ \A x \in 1..c[k] : Text(p)[x] = Text(q)[x]}
<1>2. 0 \in T
  <2>1. c[0] = 0 /\ d[0] = 0
    BY DEF TextCut
  <2>2. QED  BY <2>1
<1>3. ASSUME NEW k \in Nat, k \in T  PROVE k + 1 \in T
  <2>1. SUFFICES ASSUME k + 1 <= m
                 PROVE  c[k + 1] = d[k + 1] /\ \A x \in 1..c[k + 1] : Text(p)[x] = Text(q)[x]
    OBVIOUS
  <2>2. k + 1 \in 1..Len(p) /\ k + 1 \in 1..Len(q) /\ k + 1 \in 1..m /\ (k + 1) - 1 = k /\ k <= m
        /\ k \in 0..Len(p)
    BY <1>1, <2>1
  <2> DEFINE l == Len(p[k + 1])
  <2>3. /\ l \in Nat /\ c[k + 1] = c[k] + 1 + l
        /\ Text(p)[c[k] + 1] = Slash
        /\ \A o \in 1..l : Text(p)[c[k] + 1 + o] = p[k + 1][o]
    <3>1. /\ Len(p[k + 1]) \in Nat /\ c[k + 1] = c[(k + 1) - 1] + 1 + Len(p[k + 1])
          /\ Text(p)[c[(k + 1) - 1] + 1] = Slash
          /\ \A o \in 1..Len(p[k + 1]) : Text(p)[c[(k + 1) - 1] + 1 + o] = p[k + 1][o]
      BY <2>2, Zenon DEF TextCut
    <3>2. (k + 1) - 1 = k
      BY <2>2
    <3> HIDE DEF l
    <3>3. /\ l \in Nat /\ c[k + 1] = c[(k + 1) - 1] + 1 + l
          /\ Text(p)[c[(k + 1) - 1] + 1] = Slash
          /\ \A o \in 1..l : Text(p)[c[(k + 1) - 1] + 1 + o] = p[k + 1][o]
      BY <3>1, Zenon DEF l
    <3>4. QED  BY <3>2, <3>3
  <2>4. /\ d[k + 1] = d[k] + 1 + Len(q[k + 1])
        /\ Text(q)[d[k] + 1] = Slash
        /\ \A o \in 1..Len(q[k + 1]) : Text(q)[d[k] + 1 + o] = q[k + 1][o]
    <3>1. /\ d[k + 1] = d[(k + 1) - 1] + 1 + Len(q[k + 1])
          /\ Text(q)[d[(k + 1) - 1] + 1] = Slash
          /\ \A o \in 1..Len(q[k + 1]) : Text(q)[d[(k + 1) - 1] + 1 + o] = q[k + 1][o]
      BY <2>2, Zenon DEF TextCut
    <3>2. QED  BY <2>2, <3>1
  <2>5. p[k + 1] = q[k + 1]
    BY <2>2
  <2>6. c[k] = d[k] /\ c[k] \in Nat /\ \A x \in 1..c[k] : Text(p)[x] = Text(q)[x]
    <3>1. c[k] \in Nat
      BY <2>2 DEF TextCut
    <3>2. QED  BY <1>3, <2>2, <3>1
  <2>7. /\ d[k + 1] = c[k] + 1 + l
        /\ Text(q)[c[k] + 1] = Slash
        /\ \A o \in 1..l : Text(q)[c[k] + 1 + o] = p[k + 1][o]
    BY <2>4, <2>5, <2>6, Zenon
  <2> HIDE DEF l
  <2>8. ASSUME NEW x \in 1..c[k + 1]  PROVE Text(p)[x] = Text(q)[x]
    <3>1. x \in Int /\ 1 <= x /\ x <= c[k] + 1 + l
      BY <2>3, <2>6
    <3>2. CASE x <= c[k]
      BY <2>6, <3>1, <3>2
    <3>3. CASE x = c[k] + 1
      BY <2>3, <2>7, <3>3
    <3>4. CASE x > c[k] + 1
      <4>1. x - c[k] - 1 \in 1..l /\ c[k] + 1 + (x - c[k] - 1) = x
        <5> DEFINE e == c[k]
        <5>1. e \in Nat /\ l \in Nat /\ x \in Int /\ x <= e + 1 + l /\ x > e + 1
          BY <2>3, <2>6, <3>1, <3>4
        <5> HIDE DEF e
        <5>2. x - e - 1 \in 1..l /\ e + 1 + (x - e - 1) = x
          BY <5>1
        <5>3. QED  BY <5>2 DEF e
      <4>2. QED  BY <2>3, <2>7, <4>1
    <3>5. QED  BY <2>6, <3>1, <3>2, <3>3, <3>4
  <2>9. QED  BY <2>3, <2>7, <2>8
<1>4. \A k \in Nat : k \in T
  <2> HIDE DEF T
  <2>1. QED  BY <1>2, <1>3, SetInduction
<1>5. QED  BY <1>4

\* The later of two texts is not before the earlier one.
LEMMA TextAsymmetric ==
  ASSUME NEW p \in Paths, NEW q \in Paths,
         Text(p) = Text(q) \/ Lex(Text(p), Text(q), NumberOrder)
  PROVE  ~TextBefore(q, p)
<1> DEFINE s == Text(p)  t == Text(q)
<1>1. s \in Seq(Nat) /\ t \in Seq(Nat)
  BY TextPlaces DEF TextCut
<1>2. TextBefore(q, p) <=> NameBefore(t, s)
  BY Zenon DEF TextBefore, NameBefore
<1> HIDE DEF s, t
<1>3. NameBefore(t, s) <=> Lex(t, s, NumberOrder)
  <2>1. s \in Names /\ t \in Names
    BY <1>1 DEF Names
  <2>2. QED  BY <2>1, NameBeforeIsLex
<1>4. ~Lex(s, s, NumberOrder)
  BY <1>1, NumbersLinear, LexIrreflexive
<1>5. Lex(s, t, NumberOrder) /\ Lex(t, s, NumberOrder) => Lex(s, s, NumberOrder)
  BY <1>1, NumbersLinear, LexTransitive
<1>6. s = t \/ Lex(s, t, NumberOrder)
  BY DEF s, t
<1>7. QED  BY <1>2, <1>3, <1>4, <1>5, <1>6

\* Text that begins with another text is not before it, nor is text that has a
\* later character where they first differ.
LEMMA TextExtends ==
  ASSUME NEW p \in Paths, NEW q \in Paths,
         \A x \in 1..Len(Text(p)) : x <= Len(Text(q)) /\ Text(p)[x] = Text(q)[x]
  PROVE  ~TextBefore(q, p)
<1>1. Text(p) \in Seq(Nat) /\ Text(q) \in Seq(Nat)
  BY TextPlaces DEF TextCut
<1>2. Len(Text(p)) \in Nat /\ Len(Text(q)) \in Nat
  BY <1>1
<1>3. Len(Text(p)) <= Len(Text(q))
  <2>1. CASE Len(Text(p)) = 0
    BY <1>2, <2>1
  <2>2. CASE Len(Text(p)) # 0
    <3>1. Len(Text(p)) \in 1..Len(Text(p))
      BY <1>2, <2>2
    <3>2. QED  BY <3>1
  <2>3. QED  BY <2>1, <2>2
<1>4. CASE Len(Text(p)) = Len(Text(q))
  <2>1. Text(p) = Text(q)
    BY <1>1, <1>4, SeqEqual
  <2>2. QED  BY <2>1, TextAsymmetric
<1>5. CASE Len(Text(p)) < Len(Text(q))
  <2>1. Lex(Text(p), Text(q), NumberOrder)
    BY <1>5 DEF Lex
  <2>2. QED  BY <2>1, TextAsymmetric
<1>6. QED  BY <1>2, <1>3, <1>4, <1>5

\* A text goes on from name to name.
LEMMA TextCutRises ==
  ASSUME NEW p \in Paths, NEW c, TextCut(p, c), NEW k \in 0..Len(p)
  PROVE  c[k] \in Nat /\ c[k] <= Len(Text(p))
<1> DEFINE n == Len(p)
           T == {m \in Nat : k + m <= n => c[k] <= c[k + m]}
<1>1. n \in Nat
  BY DEF Paths
<1>2. /\ c \in [0..n -> Nat] /\ c[n] = Len(Text(p))
      /\ \A i \in 1..n : Len(p[i]) \in Nat /\ c[i] = c[i - 1] + 1 + Len(p[i])
  BY Zenon DEF TextCut
<1> HIDE DEF n
<1>3. k \in 0..n
  BY DEF n
<1>4. 0 \in T
  BY <1>1, <1>2, <1>3
<1>5. ASSUME NEW m \in Nat, m \in T  PROVE m + 1 \in T
  <2>1. SUFFICES ASSUME k + (m + 1) <= n  PROVE c[k] <= c[k + (m + 1)]
    OBVIOUS
  <2>2. /\ k + (m + 1) \in 1..n /\ (k + (m + 1)) - 1 = k + m /\ k + m \in 0..n /\ k + m <= n
    BY <1>1, <1>3, <2>1
  <2>3. /\ c[k + m] \in Nat /\ c[k] \in Nat /\ c[k] <= c[k + m]
    BY <1>2, <1>3, <1>5, <2>2
  <2>4. \E l \in Nat : c[k + (m + 1)] = c[k + m] + 1 + l
    BY <1>2, <2>2
  <2>5. QED  BY <2>3, <2>4
<1>6. \A m \in Nat : m \in T
  <2> HIDE DEF T
  <2>1. QED  BY <1>4, <1>5, SetInduction
<1>7. n - k \in T /\ k + (n - k) = n
  <2>1. n - k \in Nat /\ k + (n - k) = n
    BY <1>1, <1>3
  <2> HIDE DEF T
  <2>2. QED  BY <1>6, <2>1
<1>8. c[k] <= c[n]
  BY <1>1, <1>7
<1>9. QED  BY <1>2, <1>3, <1>8

\* A name is in the text behind a slash.
LEMMA NameInText ==
  ASSUME NEW r \in Paths, NEW e, TextCut(r, e), NEW k \in 1..Len(r)
  PROVE  /\ e[k - 1] \in Nat /\ e[k] \in Nat /\ Len(r[k]) \in Nat
         /\ e[k] = e[k - 1] + 1 + Len(r[k]) /\ e[k] <= Len(Text(r))
         /\ Text(r)[e[k - 1] + 1] = Slash
         /\ \A o \in 1..Len(r[k]) : Text(r)[e[k - 1] + 1 + o] = r[k][o]
<1>1. k - 1 \in 0..Len(r) /\ k \in 0..Len(r)
  BY DEF Paths
<1>2. e[k - 1] \in Nat /\ e[k] \in Nat /\ e[k] <= Len(Text(r))
  BY <1>1, TextCutRises
<1>3. /\ Len(r[k]) \in Nat /\ e[k] = e[k - 1] + 1 + Len(r[k])
      /\ Text(r)[e[k - 1] + 1] = Slash
      /\ \A o \in 1..Len(r[k]) : Text(r)[e[k - 1] + 1 + o] = r[k][o]
  BY Zenon DEF TextCut
<1>4. QED  BY <1>2, <1>3, Zenon

\* In a store without names that go on with a dash, later paths have texts that
\* are not before those of earlier ones.
LEMMA TextFollowsPath ==
  ASSUME NEW w \in Writers, ~DashExtends(StoreOf[w]),
         NEW f \in Files(w), NEW g \in Files(w), PathBefore(f.path, g.path)
  PROVE  ~TextBefore(g.path, f.path)
<1> DEFINE p == f.path  q == g.path
<1>1. p \in Paths /\ q \in Paths
  BY StoreFacts
<1>2. Lex(p, q, NameOrder)
  BY <1>1, PathBeforeIsLex
<1>3. ASSUME NEW k \in DOMAIN p \cap DOMAIN q, SubSeq(p, 1, k - 1) = SubSeq(q, 1, k - 1)
      PROVE  /\ ~IsPrefix(Append(p[k], Dash), q[k])
             /\ IsStrictPrefix(p[k], q[k]) => q[k][Len(p[k]) + 1] \in {Dash} \cup {c \in Nat : c > Slash}
  <2>1. ~IsPrefix(Append(p[k], Dash), q[k])
    BY <1>3, Zenon DEF DashExtends, Files
  <2>2. IsStrictPrefix(p[k], q[k]) => q[k][Len(p[k]) + 1] \in {Dash} \cup {c \in Nat : c > Slash}
    BY <1>3, StoresAreCommitted, Zenon DEF Files
  <2>3. QED  BY <2>1, <2>2
<1> HIDE DEF p, q
<1>4. PICK c : TextCut(p, c)
  BY <1>1, TextPlaces
<1>5. PICK d : TextCut(q, d)
  BY <1>1, TextPlaces
<1>6. /\ Len(p) \in Nat /\ Len(q) \in Nat /\ DOMAIN p = 1..Len(p) /\ DOMAIN q = 1..Len(q)
      /\ \A k \in 1..Len(p) : p[k] \in Names
      /\ \A k \in 1..Len(q) : q[k] \in Names
      /\ p \in Seq(Names) /\ q \in Seq(Names)
  BY <1>1 DEF Paths
<1> DEFINE s == Text(p)  t == Text(q)
<1>7. s \in Seq(Nat) /\ t \in Seq(Nat) /\ Len(s) \in Nat /\ Len(t) \in Nat
  BY <1>4, <1>5 DEF TextCut
<1>9. CASE Len(p) < Len(q) /\ \A i \in 1..Len(p) : p[i] = q[i]
  <2>1. c[Len(p)] = d[Len(p)] /\ \A x \in 1..c[Len(p)] : s[x] = t[x]
    BY <1>1, <1>4, <1>5, <1>6, <1>9, TextsBeginAlike
  <2>2. c[Len(p)] = Len(s)
    BY <1>4 DEF TextCut
  <2>3. d[Len(p)] <= Len(t)
    <3>1. Len(p) \in 0..Len(q)
      BY <1>6, <1>9
    <3>2. QED  BY <1>1, <1>5, <3>1, TextCutRises
  <2> HIDE DEF s, t
  <2>4. \A x \in 1..Len(s) : x <= Len(t) /\ s[x] = t[x]
    BY <1>7, <2>1, <2>2, <2>3
  <2>5. QED  BY <1>1, <2>4, TextExtends DEF s, t, p, q
<1>10. CASE \E k \in 1..Len(p) : k <= Len(q) /\ (\A i \in 1..(k - 1) : p[i] = q[i]) /\ <<p[k], q[k]>> \in NameOrder
  <2>1. PICK k \in 1..Len(p) : k <= Len(q) /\ (\A i \in 1..(k - 1) : p[i] = q[i]) /\ <<p[k], q[k]>> \in NameOrder
    BY <1>10
  <2>2. k \in 1..Len(q) /\ k - 1 \in Nat /\ k - 1 <= Len(p) /\ k - 1 <= Len(q)
    BY <1>6, <2>1
  <2> DEFINE e == c[k - 1]  m == p[k]  n == q[k]
  <2>3. e = d[k - 1] /\ \A x \in 1..e : s[x] = t[x]
    BY <1>1, <1>4, <1>5, <2>1, <2>2, TextsBeginAlike
  <2>4. /\ e \in Nat /\ Len(m) \in Nat /\ c[k] = e + 1 + Len(m) /\ e + 1 + Len(m) <= Len(s)
        /\ s[e + 1] = Slash /\ \A o \in 1..Len(m) : s[e + 1 + o] = m[o]
    <3>1. /\ e \in Nat /\ Len(p[k]) \in Nat /\ c[k] = e + 1 + Len(p[k]) /\ c[k] <= Len(Text(p))
          /\ Text(p)[e + 1] = Slash
          /\ \A o \in 1..Len(p[k]) : Text(p)[e + 1 + o] = p[k][o]
      BY <1>1, <1>4, <2>1, NameInText
    <3>2. QED  BY <3>1, Zenon
  <2>5. /\ Len(n) \in Nat /\ e + 1 + Len(n) <= Len(t)
        /\ t[e + 1] = Slash /\ \A o \in 1..Len(n) : t[e + 1 + o] = n[o]
    <3>1. /\ Len(q[k]) \in Nat /\ d[k] = d[k - 1] + 1 + Len(q[k]) /\ d[k] <= Len(Text(q))
          /\ Text(q)[d[k - 1] + 1] = Slash
          /\ \A o \in 1..Len(q[k]) : Text(q)[d[k - 1] + 1 + o] = q[k][o]
      BY <1>1, <1>5, <2>2, NameInText
    <3>2. QED  BY <2>3, <3>1, Zenon
  <2>6. m \in Names /\ n \in Names /\ NameBefore(m, n)
    BY <1>6, <2>1, <2>2 DEF NameOrder
  <2>7. Lex(m, n, NumberOrder)
    BY <2>6, NameBeforeIsLex
  <2>8. m \in Seq(Nat) /\ n \in Seq(Nat)
    BY <2>6 DEF Names
  <2>9. /\ ~IsPrefix(Append(m, Dash), n)
        /\ IsStrictPrefix(m, n) => n[Len(m) + 1] \in {Dash} \cup {x \in Nat : x > Slash}
    <3>1. k \in DOMAIN p \cap DOMAIN q
      BY <1>6, <2>2
    <3>2. SubSeq(p, 1, k - 1) = SubSeq(q, 1, k - 1)
      BY <1>6, <2>1, <2>2, SamePrefix
    <3>3. QED  BY <1>3, <3>1, <3>2, Zenon
  <2>10. k < Len(p) => e + 1 + Len(m) + 1 <= Len(s) /\ s[e + 1 + Len(m) + 1] = Slash
    <3>1. SUFFICES ASSUME k < Len(p)  PROVE e + 1 + Len(m) + 1 <= Len(s) /\ s[e + 1 + Len(m) + 1] = Slash
      OBVIOUS
    <3>2. k + 1 \in 1..Len(p) /\ (k + 1) - 1 = k
      BY <1>6, <3>1
    <3>3. /\ c[(k + 1) - 1] \in Nat /\ c[k + 1] \in Nat /\ Len(p[k + 1]) \in Nat
          /\ c[k + 1] = c[(k + 1) - 1] + 1 + Len(p[k + 1]) /\ c[k + 1] <= Len(Text(p))
          /\ Text(p)[c[(k + 1) - 1] + 1] = Slash
      <4> DEFINE j == k + 1
      <4>1. j \in 1..Len(p)
        BY <3>2
      <4> HIDE DEF j
      <4>2. /\ c[j - 1] \in Nat /\ c[j] \in Nat /\ Len(p[j]) \in Nat
            /\ c[j] = c[j - 1] + 1 + Len(p[j]) /\ c[j] <= Len(Text(p))
            /\ Text(p)[c[j - 1] + 1] = Slash
        BY <1>1, <1>4, <4>1, NameInText
      <4>3. QED  BY <4>2, Zenon DEF j
    <3>4. \E l \in Nat : c[k + 1] = c[k] + 1 + l
      BY <3>2, <3>3
    <3>5. c[k] \in Nat /\ c[k + 1] \in Nat /\ c[k + 1] <= Len(s) /\ s[c[k] + 1] = Slash
      BY <3>2, <3>3
    <3> HIDE DEF s, e, m
    <3>6. QED  BY <1>7, <2>4, <3>4, <3>5
  <2>11. k = Len(p) => Len(s) = e + 1 + Len(m)
    BY <1>4, <2>4 DEF TextCut
  <2>12. ~TextBefore(q, p)
    <3> HIDE DEF s, t, e, m, n
    <3>1. CASE Len(m) < Len(n) /\ \A i \in 1..Len(m) : m[i] = n[i]
      <4> DEFINE l == Len(m)
      <4>1. IsStrictPrefix(m, n)
        BY <2>8, <3>1, StrictPrefix
      <4>2. ASSUME NEW x \in 1..(e + 1 + l)  PROVE s[x] = t[x]
        <5>1. CASE x <= e
          BY <2>3, <2>4, <5>1
        <5>2. CASE x = e + 1
          BY <2>4, <2>5, <5>2
        <5>3. CASE x > e + 1
          <6>1. x - e - 1 \in 1..Len(m) /\ x - e - 1 \in 1..Len(n) /\ e + 1 + (x - e - 1) = x
            BY <2>4, <2>5, <3>1, <5>3
          <6>2. s[x] = m[x - e - 1] /\ t[x] = n[x - e - 1]
            BY <2>4, <2>5, <6>1
          <6>3. QED  BY <3>1, <6>1, <6>2
        <5>4. QED  BY <2>4, <5>1, <5>2, <5>3
      <4>3. CASE k = Len(p)
        <5>1. \A x \in 1..Len(s) : x <= Len(t) /\ s[x] = t[x]
          <6>1. Len(s) = e + 1 + l /\ e + 1 + l <= Len(t)
            BY <2>4, <2>5, <2>11, <3>1, <4>3
          <6> HIDE DEF l
          <6>2. QED  BY <1>7, <4>2, <6>1
        <5>2. QED  BY <1>1, <5>1, TextExtends DEF s, t
      <4>4. CASE k < Len(p)
        <5>1. n[l + 1] \in {Dash} \cup {x \in Nat : x > Slash}
          BY <2>9, <4>1
        <5>2. n[l + 1] # Dash
          <6>1. SUFFICES ASSUME n[l + 1] = Dash  PROVE IsPrefix(Append(m, Dash), n)
            BY <2>9
          <6>2. Dash \in Nat
            BY SnapshotConstants
          <6> DEFINE a == Append(m, Dash)
          <6>3. a \in Seq(Nat) /\ Len(a) = l + 1 /\ a[l + 1] = Dash /\ \A i \in 1..l : a[i] = m[i]
            BY <2>8, <6>2, AppendProperties
          <6> HIDE DEF a
          <6>4. l + 1 \in Nat /\ l + 1 <= Len(n)
            BY <2>4, <2>5, <3>1
          <6>5. \A i \in 1..(l + 1) : a[i] = n[i]
            <7>1. ASSUME NEW i \in 1..(l + 1)  PROVE a[i] = n[i]
              <8>1. CASE i = l + 1
                BY <6>1, <6>3, <8>1
              <8>2. CASE i # l + 1
                <9>1. i \in 1..l
                  BY <2>4, <8>2
                <9>2. QED  BY <3>1, <6>3, <9>1
              <8>3. QED  BY <8>1, <8>2
            <7>2. QED  BY <7>1
          <6>6. SubSeq(a, 1, l + 1) = SubSeq(n, 1, l + 1)
            BY <2>8, <6>3, <6>4, <6>5, SamePrefix
          <6>7. IsPrefix(a, n)
            BY <6>3, <6>4, <6>6 DEF IsPrefix
          <6>8. QED  BY <6>7 DEF a
        <5>3. s[e + 1 + l + 1] = Slash /\ e + 1 + l + 1 <= Len(s)
          BY <2>10, <4>4
        <5>4. l + 1 \in 1..Len(n) /\ e + 1 + (l + 1) = e + 1 + l + 1
          BY <2>4, <2>5, <3>1
        <5>5. t[e + 1 + l + 1] = n[l + 1] /\ e + 1 + l + 1 <= Len(t)
          BY <2>4, <2>5, <5>4
        <5>6. <<s[e + 1 + l + 1], t[e + 1 + l + 1]>> \in NumberOrder
          <6>1. Slash \in Nat /\ n[l + 1] \in Nat /\ Slash < n[l + 1]
            BY <5>1, <5>2, SnapshotConstants
          <6>2. QED  BY <5>3, <5>5, <6>1 DEF NumberOrder
        <5> DEFINE x == e + 1 + l + 1
        <5>7. x \in 1..Len(s) /\ x <= Len(t) /\ x - 1 = e + 1 + l
          BY <1>7, <2>4, <5>3, <5>5
        <5>8. \A i \in 1..(x - 1) : s[i] = t[i]
          BY <4>2, <5>7
        <5> HIDE DEF x
        <5>9. Lex(s, t, NumberOrder)
          BY <5>6, <5>7, <5>8 DEF Lex, x
        <5>10. QED  BY <1>1, <5>9, TextAsymmetric DEF s, t
      <4>5. k = Len(p) \/ k < Len(p)
        BY <1>6, <2>1
      <4>6. QED  BY <4>3, <4>4, <4>5
    <3>2. CASE \E o \in 1..Len(m) : o <= Len(n) /\ (\A i \in 1..(o - 1) : m[i] = n[i]) /\ <<m[o], n[o]>> \in NumberOrder
      <4>1. PICK o \in 1..Len(m) : o <= Len(n) /\ (\A i \in 1..(o - 1) : m[i] = n[i]) /\ <<m[o], n[o]>> \in NumberOrder
        BY <3>2
      <4>2. ASSUME NEW x \in 1..(e + 1 + o - 1)  PROVE s[x] = t[x]
        <5>1. CASE x <= e
          BY <2>3, <2>4, <5>1
        <5>2. CASE x = e + 1
          BY <2>4, <2>5, <5>2
        <5>3. CASE x > e + 1
          <6>1. /\ x - e - 1 \in 1..Len(m) /\ x - e - 1 \in 1..Len(n) /\ e + 1 + (x - e - 1) = x
                /\ x - e - 1 \in 1..(o - 1)
            BY <2>4, <2>5, <4>1, <5>3
          <6>2. s[x] = m[x - e - 1] /\ t[x] = n[x - e - 1]
            BY <2>4, <2>5, <6>1
          <6>3. QED  BY <4>1, <6>1, <6>2
        <5>4. QED  BY <2>4, <5>1, <5>2, <5>3
      <4> DEFINE x == e + 1 + o
      <4>3. o \in 1..Len(n) /\ x \in 1..Len(s) /\ x <= Len(t)
        <5>1. o \in Nat /\ 1 <= o /\ o <= Len(m) /\ o <= Len(n)
          BY <2>4, <4>1
        <5>2. e \in Nat /\ Len(m) \in Nat /\ Len(n) \in Nat /\ Len(s) \in Nat
               /\ e + 1 + Len(m) <= Len(s) /\ e + 1 + Len(n) <= Len(t)
          BY <1>7, <2>4, <2>5
        <5>3. x <= Len(s) /\ x <= Len(t)
          BY <5>1, <5>2
        <5>4. x \in Nat /\ 1 <= x
          BY <5>1, <5>2
        <5> HIDE DEF x
        <5>5. QED  BY <5>1, <5>2, <5>3, <5>4
      <4>4. s[x] = m[o] /\ t[x] = n[o]
        BY <2>4, <2>5, <4>3
      <4>5. \A i \in 1..(x - 1) : s[i] = t[i]
        <5>1. x - 1 = e + 1 + o - 1
          BY <2>4, <4>1
        <5>2. QED  BY <4>2, <5>1
      <4> HIDE DEF x
      <4>6. Lex(s, t, NumberOrder)
        BY <4>1, <4>3, <4>4, <4>5 DEF Lex
      <4>7. QED  BY <1>1, <4>6, TextAsymmetric DEF s, t
    <3>3. QED  BY <2>7, <3>1, <3>2 DEF Lex
  <2>13. QED  BY <2>12 DEF p, q
<1>11. QED  BY <1>2, <1>9, <1>10 DEF Lex

-----------------------------------------------------------------------------
(* Index pages.  A quadruple <<body, h, i, j>> of a cover says that body is *)
(* an index page of height h over the entries i+1 to j of a store.  What a *)
(* page covers is said by the cover and not by a recursive definition.      *)

Bodies(C) == {c[1] : c \in C}

\* The rows are pages of height h over entries from i+1 to j without a gap.
Follows(C, rows, h, i, j) ==
  /\ rows \in Seq(Bodies(C))
  /\ \E cut \in [0..Len(rows) -> Nat] :
       /\ cut[0] = i
       /\ cut[Len(rows)] = j
       /\ \A k \in 1..Len(rows) : <<rows[k], h, cut[k - 1], cut[k]>> \in C

\* A page not at the end is full, and so is everything below it.
Spans(w, body, h, i, j) ==
  /\ h \in Nat /\ i \in Nat /\ j \in Nat
  /\ i < j /\ j <= EntryCount(w)
  /\ j = EntryCount(w) \/ j = i + Capacity[h]

Covers(w, C, body, h, i, j) ==
  /\ Spans(w, body, h, i, j)
  /\ \/ h = 0 /\ body = Page(SubSeq(EntriesOf[w], i + 1, j))
     \/ h > 0 /\ \E rows : body = Node(rows) /\ Follows(C, rows, h - 1, i, j)

IsCover(w, C) ==
  \A c \in C : \E body, h, i, j : c = <<body, h, i, j>> /\ Covers(w, C, body, h, i, j)

\* What a cover says of a page is so.
LEMMA CoverMember ==
  ASSUME NEW w, NEW C, IsCover(w, C), NEW body, NEW h, NEW i, NEW j, <<body, h, i, j>> \in C
  PROVE  Covers(w, C, body, h, i, j) /\ body \in Bodies(C)
<1>1. PICK b, g, k, l : <<body, h, i, j>> = <<b, g, k, l>> /\ Covers(w, C, b, g, k, l)
  BY Zenon DEF IsCover
<1>2. b = body /\ g = h /\ k = i /\ l = j
  BY <1>1
<1>3. <<body, h, i, j>>[1] = body
  OBVIOUS
<1>4. body \in Bodies(C)
  BY <1>3, Zenon DEF Bodies
<1>5. QED  BY <1>1, <1>2, <1>4

\* Rows still follow when the cover grows.
LEMMA FollowsMore ==
  ASSUME NEW C, NEW D, C \subseteq D, NEW rows, NEW h, NEW i, NEW j, Follows(C, rows, h, i, j)
  PROVE  Follows(D, rows, h, i, j)
<1>1. Bodies(C) \subseteq Bodies(D)
  BY DEF Bodies
<1>2. rows \in Seq(Bodies(D))
  BY <1>1, SeqMonotonic DEF Follows
<1>3. PICK cut \in [0..Len(rows) -> Nat] :
        /\ cut[0] = i
        /\ cut[Len(rows)] = j
        /\ \A k \in 1..Len(rows) : <<rows[k], h, cut[k - 1], cut[k]>> \in C
  BY DEF Follows
<1>4. \A k \in 1..Len(rows) : <<rows[k], h, cut[k - 1], cut[k]>> \in D
  BY <1>3
<1>5. QED  BY <1>2, <1>3, <1>4, Zenon DEF Follows

\* A page is covered still when the cover grows.
LEMMA CoversMore ==
  ASSUME NEW w, NEW C, NEW D, C \subseteq D, NEW body, NEW h, NEW i, NEW j,
         Covers(w, C, body, h, i, j)
  PROVE  Covers(w, D, body, h, i, j)
<1>1. ASSUME NEW rows, Follows(C, rows, h - 1, i, j)  PROVE Follows(D, rows, h - 1, i, j)
  BY <1>1, FollowsMore
<1>2. QED  BY <1>1, Zenon DEF Covers

With(C, body, h, i, j) == C \cup {<<body, h, i, j>>}

\* A cover may be given a page that covers its entries by it.
LEMMA CoverAdd ==
  ASSUME NEW w, NEW C, IsCover(w, C), NEW body, NEW h, NEW i, NEW j,
         Covers(w, C, body, h, i, j)
  PROVE  /\ IsCover(w, With(C, body, h, i, j))
         /\ Bodies(With(C, body, h, i, j)) = Bodies(C) \cup {body}
         /\ C \subseteq With(C, body, h, i, j) /\ <<body, h, i, j>> \in With(C, body, h, i, j)
<1> DEFINE D == C \cup {<<body, h, i, j>>}
<1>1. C \subseteq D
  OBVIOUS
<1>2. ASSUME NEW c \in D
      PROVE  \E b, g, k, l : c = <<b, g, k, l>> /\ Covers(w, D, b, g, k, l)
  <2>1. \E b, g, k, l : c = <<b, g, k, l>> /\ Covers(w, C, b, g, k, l)
    <3>1. CASE c \in C
      BY <3>1, Zenon DEF IsCover
    <3>2. CASE c = <<body, h, i, j>>
      BY <3>2, Zenon
    <3>3. QED  BY <3>1, <3>2
  <2> HIDE DEF D
  <2>2. PICK b, g, k, l : c = <<b, g, k, l>> /\ Covers(w, C, b, g, k, l)
    BY <2>1
  <2>3. Covers(w, D, b, g, k, l)
    BY <1>1, <2>2, CoversMore
  <2>4. QED  BY <2>2, <2>3
<1>3. IsCover(w, D)
  <2> HIDE DEF D
  <2>1. QED  BY <1>2, Zenon DEF IsCover
<1>4. <<body, h, i, j>>[1] = body
  OBVIOUS
<1>5. Bodies(D) = Bodies(C) \cup {body}
  BY <1>4 DEF Bodies
<1>6. <<body, h, i, j>> \in D /\ D = With(C, body, h, i, j)
  BY DEF With
<1> HIDE DEF D
<1>7. QED  BY <1>1, <1>3, <1>5, <1>6

\* No rows cover nothing.
LEMMA FollowsNothing ==
  ASSUME NEW C, NEW h, NEW i \in Nat
  PROVE  /\ Follows(C, <<>>, h, i, i)
         /\ \A j : Follows(C, <<>>, h, i, j) => i = j
<1> DEFINE cut == [k \in 0..0 |-> i]
<1>1. <<>> \in Seq(Bodies(C)) /\ Len(<<>>) = 0
  OBVIOUS
<1>2. cut \in [0..0 -> Nat] /\ cut[0] = i
  OBVIOUS
<1>3. \A k \in 1..0 : FALSE
  OBVIOUS
<1> HIDE DEF cut
<1>4. Follows(C, <<>>, h, i, i)
  BY <1>1, <1>2, <1>3, Zenon DEF Follows
<1>5. \A j : Follows(C, <<>>, h, i, j) => i = j
  BY <1>1 DEF Follows
<1>6. QED  BY <1>4, <1>5

\* One row more.
LEMMA FollowsAppend ==
  ASSUME NEW C, NEW rows, NEW h, NEW i, NEW j, NEW m \in Nat, NEW body,
         Follows(C, rows, h, i, j), <<body, h, j, m>> \in C
  PROVE  Follows(C, Append(rows, body), h, i, m)
<1> DEFINE n == Len(rows)
<1>1. rows \in Seq(Bodies(C)) /\ n \in Nat
  BY DEF Follows
<1>2. body \in Bodies(C)
  <2>1. <<body, h, j, m>>[1] = body
    OBVIOUS
  <2>2. QED  BY <2>1, Zenon DEF Bodies
<1> DEFINE more == Append(rows, body)
<1>3. /\ more \in Seq(Bodies(C)) /\ Len(more) = n + 1 /\ more[n + 1] = body
      /\ \A k \in 1..n : more[k] = rows[k]
  BY <1>1, <1>2, AppendProperties
<1>4. PICK cut \in [0..n -> Nat] :
        /\ cut[0] = i
        /\ cut[n] = j
        /\ \A k \in 1..n : <<rows[k], h, cut[k - 1], cut[k]>> \in C
  BY DEF Follows
<1> HIDE DEF more, n
<1> DEFINE new == [k \in 0..(n + 1) |-> IF k <= n THEN cut[k] ELSE m]
<1>5. new \in [0..(n + 1) -> Nat] /\ new[0] = i /\ new[n + 1] = m
  BY <1>1, <1>4
<1>6. ASSUME NEW k \in 1..(n + 1)  PROVE <<more[k], h, new[k - 1], new[k]>> \in C
  <2>1. CASE k = n + 1
    <3>1. new[k - 1] = cut[n] /\ new[k] = m
      BY <1>1, <2>1
    <3>2. QED  BY <1>3, <1>4, <2>1, <3>1
  <2>2. CASE k # n + 1
    <3>1. k \in 1..n /\ new[k - 1] = cut[k - 1] /\ new[k] = cut[k]
      BY <1>1, <2>2
    <3>2. QED  BY <1>3, <1>4, <3>1
  <2>3. QED  BY <2>1, <2>2
<1> HIDE DEF new
<1>7. Follows(C, more, h, i, m)
  BY <1>3, <1>5, <1>6, Zenon DEF Follows
<1>8. QED  BY <1>7 DEF more

\* Rows cover a stretch, all of them but the last are full.
LEMMA FollowsFull ==
  ASSUME NEW w \in Writers, NEW C, IsCover(w, C), NEW rows, NEW h \in Nat, NEW i, NEW j,
         Follows(C, rows, h, i, j), rows # <<>>
  PROVE  /\ i \in Nat /\ j \in Nat /\ Len(rows) \in Nat \ {0} /\ i < j /\ j <= EntryCount(w)
         /\ i + (Len(rows) - 1) * Capacity[h] < j
         /\ j = EntryCount(w) \/ j = i + Len(rows) * Capacity[h]
<1> DEFINE n == Len(rows)
           Q == Capacity[h]
           L == EntryCount(w)
<1>1. n \in Nat \ {0} /\ Q \in Nat \ {0} /\ L \in Nat
  <2>1. rows \in Seq(Bodies(C))
    BY DEF Follows
  <2>2. n \in Nat \ {0}
    BY <2>1
  <2>3. Q \in Nat \ {0} /\ L \in Nat
    BY CapacityGrows, SomeEntries
  <2>4. QED  BY <2>2, <2>3
<1>2. PICK cut \in [0..n -> Nat] :
        /\ cut[0] = i
        /\ cut[n] = j
        /\ \A k \in 1..n : <<rows[k], h, cut[k - 1], cut[k]>> \in C
  BY DEF Follows
<1> HIDE DEF n
<1>3. ASSUME NEW k \in 1..n
      PROVE  /\ cut[k - 1] \in Nat /\ cut[k] \in Nat /\ cut[k - 1] < cut[k] /\ cut[k] <= L
             /\ cut[k] = L \/ cut[k] = cut[k - 1] + Q
  <2>1. <<rows[k], h, cut[k - 1], cut[k]>> \in C
    BY <1>2
  <2>2. Covers(w, C, rows[k], h, cut[k - 1], cut[k])
    BY <2>1, CoverMember, Zenon
  <2>3. QED  BY <2>2, Zenon DEF Covers, Spans
<1> HIDE DEF Q, L
<1> DEFINE T == {m \in Nat : m < n => cut[m] = i + m * Q}
<1>4. 0 \in T
  BY <1>1, <1>2
<1>5. ASSUME NEW m \in Nat, m \in T  PROVE m + 1 \in T
  <2>1. SUFFICES ASSUME m + 1 < n  PROVE cut[m + 1] = i + (m + 1) * Q
    OBVIOUS
  <2>2. m + 1 \in 1..n /\ (m + 1) - 1 = m /\ (m + 1) + 1 \in 1..n /\ ((m + 1) + 1) - 1 = m + 1 /\ m < n
    BY <1>1, <2>1
  <2>3. cut[m] \in Nat /\ cut[m + 1] \in Nat /\ cut[m + 1] <= L /\ (cut[m + 1] = L \/ cut[m + 1] = cut[m] + Q)
    BY <1>3, <2>2
  <2>4. cut[m + 1] < L
    <3>1. cut[m + 1] < cut[(m + 1) + 1] /\ cut[(m + 1) + 1] <= L /\ cut[(m + 1) + 1] \in Nat
      BY <1>3, <2>2
    <3>2. QED  BY <1>1, <2>3, <3>1
  <2>5. cut[m] = i + m * Q
    BY <1>5, <2>2
  <2>6. cut[m + 1] = i + m * Q + Q
    BY <1>1, <2>3, <2>4, <2>5
  <2>7. i \in Nat
    BY <1>1, <1>2
  <2>8. QED  BY <1>1, <2>6, <2>7
<1>6. \A m \in Nat : m \in T
  <2> HIDE DEF T
  <2>1. QED  BY <1>4, <1>5, SetInduction
<1>7. n - 1 \in Nat /\ n - 1 < n
  BY <1>1
<1>8. cut[n - 1] = i + (n - 1) * Q
  BY <1>6, <1>7
<1>9. /\ cut[n - 1] \in Nat /\ cut[n] \in Nat /\ cut[n - 1] < cut[n] /\ cut[n] <= L
      /\ cut[n] = L \/ cut[n] = cut[n - 1] + Q
  BY <1>1, <1>3
<1>10. i \in Nat
  BY <1>1, <1>2
<1>11. (n - 1) * Q \in Nat /\ (n - 1) * Q + Q = n * Q
  BY <1>1, <1>7
<1>12. j = cut[n]
  BY <1>2
<1> DEFINE r == (n - 1) * Q
           t == n * Q
           last == cut[n - 1]
<1>13. r \in Nat /\ r + Q = t /\ last = i + r
  BY <1>8, <1>11
<1>14. last \in Nat /\ last < j /\ j \in Nat /\ j <= L /\ (j = L \/ j = last + Q)
  BY <1>9, <1>12
<1>15. i + r < j /\ (j = L \/ j = i + t) /\ i < j
  <2> HIDE DEF r, t, last
  <2>1. QED  BY <1>1, <1>10, <1>13, <1>14
<1>16. QED  BY <1>1, <1>10, <1>14, <1>15 DEF n, Q, L

\* Rows of one page are that page.
LEMMA FollowsOne ==
  ASSUME NEW C, NEW rows, NEW h, NEW i, NEW j, Follows(C, rows, h, i, j), Len(rows) = 1
  PROVE  <<rows[1], h, i, j>> \in C
<1>1. PICK cut \in [0..Len(rows) -> Nat] :
        /\ cut[0] = i
        /\ cut[Len(rows)] = j
        /\ \A k \in 1..Len(rows) : <<rows[k], h, cut[k - 1], cut[k]>> \in C
  BY DEF Follows
<1>2. 1 \in 1..Len(rows) /\ 1 - 1 = 0
  OBVIOUS
<1>3. <<rows[1], h, cut[1 - 1], cut[1]>> \in C
  BY <1>1, <1>2, Zenon
<1>4. QED  BY <1>1, <1>2, <1>3

-----------------------------------------------------------------------------
(* The levels of _tree.  Level l lists pages of height l - 1; the levels    *)
(* from k up list together every entry up to e, higher levels first.        *)

Stacked(C, levels, k, e) ==
  \E b \in [0..Len(levels) -> Nat] :
    /\ b[Len(levels)] = 0
    /\ b[k - 1] = e
    /\ \A l \in k..Len(levels) : Follows(C, levels[l], l - 1, b[l], b[l - 1])

\* What is stacked depends on the levels from k up only, and on no smaller cover.
LEMMA StackedSame ==
  ASSUME NEW C, NEW D, C \subseteq D, NEW levels, NEW other, NEW k, NEW e,
         Stacked(C, levels, k, e), Len(other) = Len(levels),
         \A l \in k..Len(levels) : other[l] = levels[l]
  PROVE  Stacked(D, other, k, e)
<1>1. PICK b \in [0..Len(levels) -> Nat] :
        /\ b[Len(levels)] = 0
        /\ b[k - 1] = e
        /\ \A l \in k..Len(levels) : Follows(C, levels[l], l - 1, b[l], b[l - 1])
  BY DEF Stacked
<1>2. ASSUME NEW l \in k..Len(levels)  PROVE Follows(D, other[l], l - 1, b[l], b[l - 1])
  <2>1. Follows(D, levels[l], l - 1, b[l], b[l - 1])
    BY <1>1, FollowsMore, Zenon
  <2>2. QED  BY <2>1
<1>3. QED  BY <1>1, <1>2, Zenon DEF Stacked

\* Empty levels below change nothing.
LEMMA StackedDown ==
  ASSUME NEW C, NEW levels, Len(levels) \in Nat, NEW m \in 1..(Len(levels) + 1), NEW k \in 1..m, NEW e,
         Stacked(C, levels, m, e), \A l \in k..(m - 1) : levels[l] = <<>>
  PROVE  Stacked(C, levels, k, e)
<1> DEFINE n == Len(levels)
<1>1. PICK b \in [0..n -> Nat] :
        /\ b[n] = 0
        /\ b[m - 1] = e
        /\ \A l \in m..n : Follows(C, levels[l], l - 1, b[l], b[l - 1])
  BY DEF Stacked
<1>2. n \in Nat /\ m \in 1..(n + 1)
  OBVIOUS
<1> HIDE DEF n
<1> DEFINE new == [l \in 0..n |-> IF l < m THEN e ELSE b[l]]
<1>3. e \in Nat
  BY <1>1, <1>2
<1>4. new \in [0..n -> Nat] /\ new[k - 1] = e
  BY <1>1, <1>2, <1>3
<1>5. new[n] = 0
  BY <1>1, <1>2
<1>6. ASSUME NEW l \in k..n  PROVE Follows(C, levels[l], l - 1, new[l], new[l - 1])
  <2>1. CASE l < m
    <3>1. levels[l] = <<>> /\ new[l] = e /\ new[l - 1] = e
      BY <1>2, <2>1
    <3>2. QED  BY <1>3, <3>1, FollowsNothing
  <2>2. CASE l >= m
    <3>1. l \in m..n /\ new[l] = b[l] /\ new[l - 1] = b[l - 1]
      BY <1>1, <1>2, <2>2
    <3>2. QED  BY <1>1, <3>1
  <2>3. QED  BY <1>2, <2>1, <2>2
<1> HIDE DEF new
<1>7. QED  BY <1>4, <1>5, <1>6, Zenon DEF Stacked, n

\* Nor do empty levels that are left behind.
LEMMA StackedUp ==
  ASSUME NEW C, NEW levels, Len(levels) \in Nat, NEW m \in 1..(Len(levels) + 1), NEW k \in 1..m, NEW e,
         Stacked(C, levels, k, e), \A l \in k..(m - 1) : levels[l] = <<>>
  PROVE  Stacked(C, levels, m, e)
<1> DEFINE n == Len(levels)
<1>1. PICK b \in [0..n -> Nat] :
        /\ b[n] = 0
        /\ b[k - 1] = e
        /\ \A l \in k..n : Follows(C, levels[l], l - 1, b[l], b[l - 1])
  BY DEF Stacked
<1>2. n \in Nat /\ m \in 1..(n + 1) /\ k \in 1..m
  OBVIOUS
<1> HIDE DEF n
<1> DEFINE T == {x \in Nat : k + x <= m => b[(k + x) - 1] = e}
<1>3. 0 \in T
  BY <1>1, <1>2
<1>4. ASSUME NEW x \in Nat, x \in T  PROVE x + 1 \in T
  <2>1. SUFFICES ASSUME k + (x + 1) <= m  PROVE b[(k + (x + 1)) - 1] = e
    OBVIOUS
  <2> DEFINE l == k + x
  <2>2. l \in k..(m - 1) /\ l \in k..n /\ (k + (x + 1)) - 1 = l /\ l \in 0..n /\ l - 1 \in 0..n
    BY <1>2, <2>1
  <2>3. b[l - 1] = e
    BY <1>2, <1>4, <2>1
  <2> HIDE DEF l
  <2>4. levels[l] = <<>> /\ Follows(C, levels[l], l - 1, b[l], b[l - 1]) /\ b[l] \in Nat
    BY <1>1, <2>2
  <2>5. Follows(C, <<>>, l - 1, b[l], b[l - 1])
    BY <2>4
  <2>6. b[l] = b[l - 1]
    BY <2>4, <2>5, FollowsNothing
  <2>7. QED  BY <2>2, <2>3, <2>6
<1>5. m - k \in T /\ k + (m - k) = m
  <2>1. m - k \in Nat /\ k + (m - k) = m
    BY <1>2
  <2> HIDE DEF T
  <2>2. QED  BY <1>3, <1>4, <2>1, SetInduction
<1>6. b[m - 1] = e
  BY <1>2, <1>5
<1>7. \A l \in m..n : l \in k..n
  BY <1>2
<1>8. \A l \in m..n : Follows(C, levels[l], l - 1, b[l], b[l - 1])
  BY <1>1, <1>7, Zenon
<1>9. QED  BY <1>1, <1>6, <1>8, Zenon DEF Stacked, n

\* The lowest level covers what the levels above it leave.
LEMMA StackedTake ==
  ASSUME NEW C, NEW levels, Len(levels) \in Nat, NEW k \in 1..Len(levels), NEW e, Stacked(C, levels, k, e)
  PROVE  \E i \in Nat : /\ Follows(C, levels[k], k - 1, i, e)
                        /\ Stacked(C, levels, k + 1, i)
                        /\ k = Len(levels) => i = 0
<1> DEFINE n == Len(levels)
<1>1. PICK b \in [0..n -> Nat] :
        /\ b[n] = 0
        /\ b[k - 1] = e
        /\ \A l \in k..n : Follows(C, levels[l], l - 1, b[l], b[l - 1])
  BY DEF Stacked
<1>2. n \in Nat /\ k \in 1..n
  OBVIOUS
<1> HIDE DEF n
<1>3. b[k] \in Nat /\ k \in k..n /\ (k = n => b[k] = 0)
  BY <1>1, <1>2
<1>4. Follows(C, levels[k], k - 1, b[k], e)
  BY <1>1, <1>3
<1> DEFINE m == k + 1
<1>5. \A l \in m..n : l \in k..n
  BY <1>2
<1>6. m - 1 = k
  BY <1>2
<1> HIDE DEF m
<1>7. b[m - 1] = b[k] /\ \A l \in m..n : Follows(C, levels[l], l - 1, b[l], b[l - 1])
  BY <1>1, <1>5, <1>6, Zenon
<1>8. Stacked(C, levels, m, b[k])
  BY <1>1, <1>7, Zenon DEF Stacked, n
<1>9. QED  BY <1>3, <1>4, <1>8 DEF m, n

\* The levels of the stack that a level is put under.
LEMMA StackedUnder ==
  ASSUME NEW C, NEW levels, Len(levels) \in Nat, NEW k \in 1..Len(levels), NEW i \in Nat, NEW e \in Nat,
         Follows(C, levels[k], k - 1, i, e), Stacked(C, levels, k + 1, i)
  PROVE  Stacked(C, levels, k, e)
<1> DEFINE n == Len(levels)
           m == k + 1
<1>1. PICK b \in [0..n -> Nat] :
        /\ b[n] = 0
        /\ b[m - 1] = i
        /\ \A l \in m..n : Follows(C, levels[l], l - 1, b[l], b[l - 1])
  BY DEF Stacked
<1>2. n \in Nat /\ k \in 1..n /\ m = k + 1
  OBVIOUS
<1> HIDE DEF n, m
<1> DEFINE new == [b EXCEPT ![k - 1] = e]
<1>3. new \in [0..n -> Nat] /\ new[n] = 0 /\ new[k - 1] = e /\ new[k] = i
  BY <1>1, <1>2
<1>4. ASSUME NEW l \in k..n  PROVE Follows(C, levels[l], l - 1, new[l], new[l - 1])
  <2>1. CASE l = k
    BY <1>3, <2>1
  <2>2. CASE l # k
    <3>1. l \in m..n /\ new[l] = b[l] /\ new[l - 1] = b[l - 1]
      BY <1>1, <1>2, <2>2
    <3>2. QED  BY <1>1, <3>1
  <2>3. QED  BY <2>1, <2>2
<1> HIDE DEF new
<1>5. QED  BY <1>3, <1>4, Zenon DEF Stacked, n

\* A page put at the end of a level.
LEMMA StackedAdd ==
  ASSUME NEW C, NEW levels \in Seq(Seq(Bodies(C))), NEW k \in 1..Len(levels), NEW e, NEW p \in Nat, NEW body,
         Stacked(C, levels, k, e), <<body, k - 1, e, p>> \in C
  PROVE  Stacked(C, [levels EXCEPT ![k] = Append(@, body)], k, p)
<1> DEFINE new == [levels EXCEPT ![k] = Append(@, body)]
<1>1. Len(levels) \in Nat /\ Len(new) = Len(levels) /\ new[k] = Append(levels[k], body)
  OBVIOUS
<1>2. \A l \in (k + 1)..Len(levels) : new[l] = levels[l]
  OBVIOUS
<1>3. PICK i \in Nat : Follows(C, levels[k], k - 1, i, e) /\ Stacked(C, levels, k + 1, i)
  BY <1>1, StackedTake
<1>4. Follows(C, Append(levels[k], body), k - 1, i, p)
  BY <1>3, FollowsAppend
<1> DEFINE m == k + 1
<1> HIDE DEF new, m
<1>5. Stacked(C, new, m, i)
  <2>1. Stacked(C, levels, m, i) /\ \A l \in m..Len(levels) : new[l] = levels[l]
    BY <1>2, <1>3 DEF m
  <2>2. QED  BY <1>1, <2>1, StackedSame
<1>6. Stacked(C, new, k, p)
  BY <1>1, <1>3, <1>4, <1>5, StackedUnder DEF m
<1>7. QED  BY <1>6 DEF new

\* A page that starts a level.
LEMMA StackedNew ==
  ASSUME NEW C, NEW levels \in Seq(Seq(Bodies(C))), NEW e, NEW p \in Nat, NEW body,
         Stacked(C, levels, Len(levels) + 1, e), <<body, Len(levels), e, p>> \in C
  PROVE  Stacked(C, Append(levels, <<body>>), Len(levels) + 1, p)
<1> DEFINE n == Len(levels)
           k == n + 1
           new == Append(levels, <<body>>)
<1>1. n \in Nat /\ Len(new) = k /\ k - 1 = n /\ new[k] = <<body>> /\ k \in 1..k
  OBVIOUS
<1>2. PICK b \in [0..n -> Nat] : b[n] = 0 /\ b[k - 1] = e
  BY Zenon DEF Stacked
<1>3. e = 0
  BY <1>1, <1>2
<1>4. Follows(C, <<>>, n, 0, 0)
  BY FollowsNothing
<1>5. Follows(C, Append(<<>>, body), n, 0, p)
  BY <1>3, <1>4, FollowsAppend
<1>6. Append(<<>>, body) = <<body>>
  OBVIOUS
<1>7. Follows(C, new[k], k - 1, 0, p)
  BY <1>1, <1>5, <1>6
<1> HIDE DEF new
<1> DEFINE m == k + 1
           c == [l \in 0..k |-> 0]
<1>8. c \in [0..k -> Nat] /\ c[k] = 0 /\ c[m - 1] = 0 /\ \A l \in m..k : FALSE
  BY <1>1
<1> HIDE DEF k, c, m
<1>9. Stacked(C, new, m, 0)
  BY <1>1, <1>8, Zenon DEF Stacked
<1>10. Stacked(C, new, k, p)
  BY <1>1, <1>7, <1>9, StackedUnder DEF m
<1>11. QED  BY <1>10 DEF new, k

\* Nothing is stacked on the level that _tree starts with.
LEMMA StackedStart ==
  ASSUME NEW C
  PROVE  << <<>> >> \in Seq(Seq(Bodies(C))) /\ Len(<< <<>> >>) = 1 /\ Stacked(C, << <<>> >>, 1, 0)
<1> DEFINE levels == << <<>> >>
           c == [l \in 0..1 |-> 0]
<1>1. levels \in Seq(Seq(Bodies(C))) /\ Len(levels) = 1 /\ levels[1] = <<>>
  OBVIOUS
<1>2. Follows(C, levels[1], 1 - 1, 0, 0)
  BY <1>1, FollowsNothing
<1>3. c \in [0..1 -> Nat] /\ c[1] = 0 /\ c[1 - 1] = 0 /\ \A l \in 1..1 : l = 1 /\ c[l] = 0 /\ c[l - 1] = 0
  OBVIOUS
<1> HIDE DEF c, levels
<1>4. \A l \in 1..1 : Follows(C, levels[l], l - 1, c[l], c[l - 1])
  BY <1>2, <1>3
<1>5. Stacked(C, levels, 1, 0)
  BY <1>1, <1>3, <1>4, Zenon DEF Stacked
<1>6. QED  BY <1>1, <1>5 DEF levels

\* With an entry to cover, some level from k up is not empty.
LEMMA StackedSome ==
  ASSUME NEW C, NEW levels, Len(levels) \in Nat, NEW k \in 1..Len(levels), NEW e \in Nat \ {0},
         Stacked(C, levels, k, e)
  PROVE  \E l \in k..Len(levels) : levels[l] # <<>> /\ \A m \in k..(l - 1) : levels[m] = <<>>
<1> DEFINE n == Len(levels)
           T == {l \in k..n : levels[l] # <<>>}
           m == n + 1
<1>1. T # {}
  <2>1. SUFFICES ASSUME \A l \in k..n : levels[l] = <<>>  PROVE FALSE
    OBVIOUS
  <2>2. m \in 1..(n + 1) /\ k \in 1..m /\ \A l \in k..(m - 1) : levels[l] = <<>>
    BY <2>1
  <2>3. Stacked(C, levels, m, e)
    <3> HIDE DEF m
    <3>1. QED  BY <2>2, StackedUp
  <2>4. m - 1 = n
    OBVIOUS
  <2> HIDE DEF m
  <2>5. QED  BY <2>3, <2>4, Zenon DEF Stacked
<1>2. T \subseteq Nat
  OBVIOUS
<1>3. PICK l \in T : \A x \in T : l <= x
  <2> HIDE DEF T
  <2>1. QED  BY <1>1, <1>2, LeastExists
<1>4. \A x \in k..(l - 1) : levels[x] = <<>>
  BY <1>3
<1>5. QED  BY <1>3, <1>4

-----------------------------------------------------------------------------
(* A seal on its way: p entries are stored, those after q not in a page yet. *)

Sealer(at, wanted, into, todo, page, levels, level) ==
  [at |-> at, wanted |-> wanted, into |-> into, todo |-> todo, page |-> page,
   levels |-> levels, level |-> level]

Rows(w, q, p) == SubSeq(EntriesOf[w], q + 1, p)
Todo(w, p) == Rows(w, p, EntryCount(w))

\* The entries do not fit in an index of less height.
Deep(w, h) == h = 0 \/ Capacity[h - 1] < EntryCount(w)

Stage(w, s, C, p, q) ==
  /\ p \in 0..EntryCount(w) /\ q \in 0..p
  /\ s = Sealer(s.at, s.wanted, s.into, Todo(w, p), Rows(w, q, p), s.levels, s.level)
  /\ s.levels \in Seq(Seq(Bodies(C))) /\ Len(s.levels) >= 1 /\ s.level \in 1..(Len(s.levels) + 1)
  /\ s.level > 1 => p = EntryCount(w) /\ q = p
  /\ Deep(w, Len(s.levels) - 1)

\* The next chunk.
WantsChunk(w, s, C, p, q) ==
  /\ p < EntryCount(w) /\ s.wanted = EntriesOf[w][p + 1].digest
  /\ s.into = 0 /\ s.level = 1 /\ Stacked(C, s.levels, 1, q)

\* A page of entries or of pages, that goes to level k.
WantsPage(w, s, C, p, q) ==
  \E k \in 1..(Len(s.levels) + 1) : \E e \in Nat :
    /\ s.into = k /\ Covers(w, C, s.wanted, k - 1, e, p)
    /\ Stacked(C, s.levels, k, e)
    /\ s.level <= k /\ \A l \in s.level..(k - 1) : s.levels[l] = <<>>
    /\ k = Len(s.levels) + 1 => Deep(w, k - 1)
    /\ k = 1 => e = q
    /\ k > 1 => q = p

\* The page over the last level.
WantsTop(w, s, C, p) ==
  /\ s.into = 0 /\ p = EntryCount(w)
  /\ \E h \in Nat \ {0} : Covers(w, C, s.wanted, h, 0, p) /\ Deep(w, h)

WantsRoot(w, s, C, p) ==
  /\ p = EntryCount(w)
  /\ \E index : \E h \in Nat :
       /\ s.wanted = Root(StoreOf[w].head, index)
       /\ <<index, h, 0, p>> \in C /\ Deep(w, h)

Wants(w, s, C, p, q) ==
  \/ WantsChunk(w, s, C, p, q) \/ WantsPage(w, s, C, p, q)
  \/ WantsTop(w, s, C, p) \/ WantsRoot(w, s, C, p)

\* Stretches of the entries.
LEMMA Windows ==
  ASSUME NEW w \in Writers, NEW p \in 0..EntryCount(w), NEW q \in 0..p
  PROVE  /\ Rows(w, q, p) \in Seq(Entries(w)) /\ Len(Rows(w, q, p)) = p - q
         /\ Rows(w, q, p) = <<>> <=> q = p
         /\ \A k \in 1..(p - q) : Rows(w, q, p)[k] = EntriesOf[w][q + k]
<1> DEFINE E == EntriesOf[w]
           s == Rows(w, q, p)
           a == q + 1
<1>1. E \in Seq(Entries(w)) /\ EntryCount(w) \in Nat /\ Len(E) = EntryCount(w)
  BY EntryPlaces, SomeEntries DEF EntryCount
<1>2. a \in Int /\ p \in Int /\ a <= p + 1 /\ a = q + 1 /\ q \in Nat
  BY <1>1
<1>3. \A i \in a..p : E[i] \in Entries(w)
  BY <1>1, <1>2
<1> HIDE DEF a, E
<1>4. /\ SubSeq(E, a, p) \in Seq(Entries(w))
      /\ Len(SubSeq(E, a, p)) = IF a <= p THEN p - a + 1 ELSE 0
      /\ \A i \in 1..(p - a + 1) : SubSeq(E, a, p)[i] = E[a + i - 1]
  BY <1>2, <1>3, SubSeqProperties
<1>5. s = SubSeq(E, a, p)
  BY DEF Rows, E, a
<1> HIDE DEF s
<1>6. s \in Seq(Entries(w)) /\ Len(s) = p - q /\ \A i \in 1..(p - q) : s[i] = E[q + i]
  BY <1>2, <1>4, <1>5
<1>7. s = <<>> <=> q = p
  BY <1>2, <1>6, EmptySeq
<1>8. QED  BY <1>6, <1>7 DEF E, s

\* The next entry goes from what is to do to the page.
LEMMA WindowMoves ==
  ASSUME NEW w \in Writers, NEW p \in 0..EntryCount(w), NEW q \in 0..p, p < EntryCount(w)
  PROVE  /\ Todo(w, p) # <<>>
         /\ Head(Todo(w, p)) = EntriesOf[w][p + 1]
         /\ Tail(Todo(w, p)) = Todo(w, p + 1)
         /\ Append(Rows(w, q, p), EntriesOf[w][p + 1]) = Rows(w, q, p + 1)
         /\ EntriesOf[w][p + 1] \in Entries(w)
         /\ p + 1 \in 0..EntryCount(w)
<1> DEFINE E == EntriesOf[w]
           L == EntryCount(w)
           a == p + 1
<1>1. E \in Seq(Entries(w)) /\ L \in Nat /\ Len(E) = L
  BY EntryPlaces, SomeEntries DEF EntryCount
<1>2. a \in 1..Len(E) /\ L \in a..Len(E) /\ a \in 0..L /\ q \in Nat /\ q \in 0..a /\ L \in 0..L
      /\ p \in 0..L /\ p \in Nat /\ p \in 0..L
  BY <1>1
<1>3. E[a] \in Entries(w)
  BY <1>1, <1>2
<1>4. Head(SubSeq(E, a, L)) = E[a] /\ Tail(SubSeq(E, a, L)) = SubSeq(E, a + 1, L)
  <2> HIDE DEF a, L
  <2>1. QED  BY <1>1, <1>2, HeadTailOfSubSeq
<1>5. Todo(w, p) = SubSeq(E, a, L) /\ Todo(w, a) = SubSeq(E, a + 1, L)
  BY DEF Todo, Rows
<1>6. Todo(w, p) # <<>>
  <2>1. Rows(w, p, L) # <<>>
    <3> HIDE DEF L
    <3>1. p # L
      BY <1>2 DEF L
    <3>2. L \in 0..EntryCount(w) /\ p \in 0..L
      BY <1>1, <1>2 DEF L
    <3>3. QED  BY <3>1, <3>2, Windows
  <2>2. QED  BY <2>1 DEF Todo
<1>7. Append(Rows(w, q, p), E[a]) = Rows(w, q, a)
  <2> DEFINE s == Rows(w, q, p)
             t == Rows(w, q, a)
  <2>1. s \in Seq(Entries(w)) /\ Len(s) = p - q /\ \A k \in 1..(p - q) : s[k] = E[q + k]
    BY <1>2, Windows
  <2>2. t \in Seq(Entries(w)) /\ Len(t) = a - q /\ \A k \in 1..(a - q) : t[k] = E[q + k]
    <3> HIDE DEF a
    <3>1. QED  BY <1>2, Windows
  <2>3. a = p + 1
    OBVIOUS
  <2> HIDE DEF s, t, a, E
  <2> DEFINE u == Append(s, E[a])
  <2>4. u \in Seq(Entries(w)) /\ Len(u) = (p - q) + 1 /\ u[(p - q) + 1] = E[a] /\ \A k \in 1..(p - q) : u[k] = s[k]
    BY <1>3, <2>1, AppendProperties
  <2> HIDE DEF u
  <2>5. Len(u) = Len(t)
    BY <1>2, <2>2, <2>3, <2>4
  <2>6. ASSUME NEW k \in 1..Len(u)  PROVE u[k] = t[k]
    <3>1. CASE k = (p - q) + 1
      <4>1. t[k] = E[q + k] /\ q + k = a
        BY <1>2, <2>2, <2>3, <2>5, <3>1
      <4>2. QED  BY <2>4, <3>1, <4>1
    <3>2. CASE k # (p - q) + 1
      <4>1. k \in 1..(p - q) /\ k \in 1..(a - q)
        BY <1>2, <2>3, <2>4, <3>2
      <4>2. QED  BY <2>1, <2>2, <2>4, <4>1
    <3>3. QED  BY <3>1, <3>2
  <2>7. u = t
    BY <2>2, <2>4, <2>5, <2>6, SeqEqual
  <2>8. QED  BY <2>7 DEF u, s, t
<1>8. QED  BY <1>2, <1>3, <1>4, <1>5, <1>6, <1>7 DEF E, L, a

\* Putting field by field.
LEMMA SealerPutting ==
  ASSUME NEW body, NEW k, NEW a, NEW b, NEW c, NEW d, NEW e, NEW f, NEW g
  PROVE  Putting(Sealer(a, b, c, d, e, f, g), body, k) = Sealer("put", body, k, d, e, f, g)
<1> DEFINE r == Sealer(a, b, c, d, e, f, g)
<1>1. [r EXCEPT !.at = "put"] = Sealer("put", b, c, d, e, f, g)
  BY DEF Sealer
<1>2. [Sealer("put", b, c, d, e, f, g) EXCEPT !.wanted = body] = Sealer("put", body, c, d, e, f, g)
  BY DEF Sealer
<1>3. [Sealer("put", body, c, d, e, f, g) EXCEPT !.into = k] = Sealer("put", body, k, d, e, f, g)
  BY DEF Sealer
<1>4. Putting(r, body, k) = [[[r EXCEPT !.at = "put"] EXCEPT !.wanted = body] EXCEPT !.into = k]
  BY DEF Putting
<1> HIDE DEF r
<1>5. QED  BY <1>1, <1>2, <1>3, <1>4 DEF r

\* What Putting leaves alone.
LEMMA PuttingKeeps ==
  ASSUME NEW w \in Writers, NEW C, NEW p, NEW q, NEW s, Stage(w, s, C, p, q), NEW body, NEW k
  PROVE  LET t == Putting(s, body, k) IN
         /\ t.at = "put" /\ t.wanted = body /\ t.into = k
         /\ t.levels = s.levels /\ t.level = s.level
         /\ Stage(w, t, C, p, q)
<1> DEFINE t == Putting(s, body, k)
           r == Sealer("put", body, k, Todo(w, p), Rows(w, q, p), s.levels, s.level)
<1>1. s = Sealer(s.at, s.wanted, s.into, Todo(w, p), Rows(w, q, p), s.levels, s.level)
  BY DEF Stage
<1>2. t = r
  <2> DEFINE x == Sealer(s.at, s.wanted, s.into, Todo(w, p), Rows(w, q, p), s.levels, s.level)
  <2>2. Putting(x, body, k) = r
    BY SealerPutting
  <2> HIDE DEF x, r
  <2>3. s = x
    BY <1>1 DEF x
  <2>4. QED  BY <2>2, <2>3
<1>3. /\ r.at = "put" /\ r.wanted = body /\ r.into = k /\ r.levels = s.levels /\ r.level = s.level
  BY DEF Sealer
<1>4. r = Sealer(r.at, r.wanted, r.into, Todo(w, p), Rows(w, q, p), r.levels, r.level)
  <2> HIDE DEF r
  <2>1. QED  BY <1>3 DEF r
<1> HIDE DEF t, r
<1>5. Stage(w, t, C, p, q)
  BY <1>2, <1>3, <1>4 DEF Stage
<1>6. QED  BY <1>2, <1>3, <1>5 DEF t

\* A stage whose levels are others.
LEMMA LevelsKeep ==
  ASSUME NEW w \in Writers, NEW C, NEW p, NEW q, NEW s, Stage(w, s, C, p, q),
         NEW levels \in Seq(Seq(Bodies(C))), Len(s.levels) <= Len(levels), Deep(w, Len(levels) - 1)
  PROVE  LET t == [s EXCEPT !.levels = levels] IN
         t.levels = levels /\ t.level = s.level /\ Stage(w, t, C, p, q)
<1> DEFINE t == [s EXCEPT !.levels = levels]
           r == Sealer(s.at, s.wanted, s.into, Todo(w, p), Rows(w, q, p), levels, s.level)
<1>1. s = Sealer(s.at, s.wanted, s.into, Todo(w, p), Rows(w, q, p), s.levels, s.level)
  BY DEF Stage
<1>2. t = r
  <2>1. ASSUME NEW a, NEW b, NEW c, NEW d, NEW e, NEW f, NEW g
        PROVE  [Sealer(a, b, c, d, e, f, g) EXCEPT !.levels = levels] = Sealer(a, b, c, d, e, levels, g)
    BY DEF Sealer
  <2> DEFINE x == Sealer(s.at, s.wanted, s.into, Todo(w, p), Rows(w, q, p), s.levels, s.level)
  <2>2. [x EXCEPT !.levels = levels] = r
    BY <2>1
  <2> HIDE DEF x, r
  <2>3. s = x
    BY <1>1 DEF x
  <2>4. QED  BY <2>2, <2>3
<1>3. /\ r.at = s.at /\ r.wanted = s.wanted /\ r.into = s.into /\ r.levels = levels /\ r.level = s.level
  BY DEF Sealer
<1>4. r = Sealer(r.at, r.wanted, r.into, Todo(w, p), Rows(w, q, p), r.levels, r.level)
  <2> HIDE DEF r
  <2>1. QED  BY <1>3 DEF r
<1>5. s.levels \in Seq(Seq(Bodies(C))) /\ Len(s.levels) >= 1 /\ s.level \in 1..(Len(s.levels) + 1)
  BY DEF Stage
<1>6. s.level \in 1..(Len(levels) + 1) /\ Len(levels) >= 1
  <2> DEFINE a == Len(s.levels)  b == Len(levels)
  <2>1. a \in Nat /\ b \in Nat /\ s.level \in 1..(a + 1) /\ a <= b /\ a >= 1
    BY <1>5
  <2> HIDE DEF a, b
  <2>2. s.level \in 1..(b + 1) /\ b >= 1
    BY <2>1
  <2>3. QED  BY <2>2 DEF b
<1> HIDE DEF t, r
<1>7. Stage(w, t, C, p, q)
  BY <1>2, <1>3, <1>4, <1>6 DEF Stage
<1>8. QED  BY <1>2, <1>3, <1>7 DEF t

\* A stage at another level.
LEMMA LevelKeeps ==
  ASSUME NEW w \in Writers, NEW C, NEW p, NEW q, NEW s, Stage(w, s, C, p, q),
         NEW k \in 1..(Len(s.levels) + 1), p = EntryCount(w), q = p
  PROVE  LET t == [s EXCEPT !.level = k] IN
         t.levels = s.levels /\ t.level = k /\ Stage(w, t, C, p, q)
<1> DEFINE t == [s EXCEPT !.level = k]
           r == Sealer(s.at, s.wanted, s.into, Todo(w, p), Rows(w, q, p), s.levels, k)
<1>1. s = Sealer(s.at, s.wanted, s.into, Todo(w, p), Rows(w, q, p), s.levels, s.level)
  BY DEF Stage
<1>2. t = r
  <2>1. ASSUME NEW a, NEW b, NEW c, NEW d, NEW e, NEW f, NEW g
        PROVE  [Sealer(a, b, c, d, e, f, g) EXCEPT !.level = k] = Sealer(a, b, c, d, e, f, k)
    BY DEF Sealer
  <2> DEFINE x == Sealer(s.at, s.wanted, s.into, Todo(w, p), Rows(w, q, p), s.levels, s.level)
  <2>2. [x EXCEPT !.level = k] = r
    BY <2>1
  <2> HIDE DEF x, r
  <2>3. s = x
    BY <1>1 DEF x
  <2>4. QED  BY <2>2, <2>3
<1>3. /\ r.at = s.at /\ r.wanted = s.wanted /\ r.into = s.into /\ r.levels = s.levels /\ r.level = k
  BY DEF Sealer
<1>4. r = Sealer(r.at, r.wanted, r.into, Todo(w, p), Rows(w, q, p), r.levels, r.level)
  <2> HIDE DEF r
  <2>1. QED  BY <1>3 DEF r
<1>5. s.levels \in Seq(Seq(Bodies(C))) /\ Len(s.levels) >= 1
  BY DEF Stage
<1> HIDE DEF t, r
<1>6. Stage(w, t, C, p, q)
  BY <1>2, <1>3, <1>4, <1>5 DEF Stage
<1>7. QED  BY <1>2, <1>3, <1>6 DEF t

-----------------------------------------------------------------------------
(* What a seal wants next.                                                 *)

\* At least one time something is at least that.
LEMMA ManyTimes ==
  ASSUME NEW n \in Nat \ {0}, NEW m \in Nat
  PROVE  m <= n * m /\ n * m \in Nat
<1>1. n * m = (n - 1) * m + m /\ n - 1 \in Nat
  OBVIOUS
<1>2. (n - 1) * m \in Nat
  BY <1>1
<1>3. QED  BY <1>1, <1>2

\* Rows of pages up to the last entry make a page, of which more than one row
\* is needed only if there are too many entries for one.
LEMMA LastRows ==
  ASSUME NEW w \in Writers, NEW C, IsCover(w, C), NEW rows, NEW h \in Nat, NEW i,
         Follows(C, rows, h, i, EntryCount(w)), rows # <<>>
  PROVE  /\ i \in Nat /\ Covers(w, C, Node(rows), h + 1, i, EntryCount(w))
         /\ Len(rows) # 1 => Deep(w, h + 1)
         /\ Len(rows) = 1 => <<rows[1], h, i, EntryCount(w)>> \in C
<1> DEFINE L == EntryCount(w)
           n == Len(rows)
           Q == Capacity[h]
           g == h + 1
<1>1. /\ i \in Nat /\ L \in Nat /\ n \in Nat \ {0} /\ i < L
      /\ i + (n - 1) * Q < L
  BY FollowsFull
<1>2. g \in Nat /\ g > 0 /\ g # 0 /\ g - 1 = h
  OBVIOUS
<1>3. Q \in Nat
  BY CapacityGrows
<1> HIDE DEF g, L, n, Q
<1>4. Spans(w, Node(rows), g, i, L)
  BY <1>1, <1>2 DEF Spans, L
<1>5. Follows(C, rows, g - 1, i, L)
  BY <1>2 DEF L
<1>6. Covers(w, C, Node(rows), g, i, L)
  BY <1>2, <1>4, <1>5, Zenon DEF Covers
<1>7. ASSUME n # 1  PROVE Deep(w, g)
  <2>1. n - 1 \in Nat \ {0}
    BY <1>1, <1>7
  <2> DEFINE m == n - 1
             r == m * Q
  <2>2. Q <= r /\ r \in Nat
    <3> HIDE DEF m
    <3>1. m \in Nat \ {0}
      BY <2>1 DEF m
    <3>2. QED  BY <1>3, <3>1, ManyTimes
  <2>3. i + r < L
    BY <1>1
  <2> HIDE DEF r
  <2>4. Q < L
    BY <1>1, <1>3, <2>2, <2>3
  <2>5. QED  BY <1>2, <2>4, Zenon DEF Deep, Q, L
<1>8. n = 1 => <<rows[1], h, i, L>> \in C
  BY FollowsOne DEF n, L
<1>9. QED  BY <1>1, <1>6, <1>7, <1>8 DEF g, L, n

\* After the last page the levels are put together.
LEMMA ClimbWants ==
  ASSUME NEW w \in Writers, NEW C, IsCover(w, C), NEW p, NEW s, Stage(w, s, C, p, p),
         p = EntryCount(w), s.level <= Len(s.levels), Stacked(C, s.levels, s.level, p)
  PROVE  LET t == Climb(w, s) IN t.at = "put" /\ Stage(w, t, C, p, p) /\ Wants(w, t, C, p, p)
<1> DEFINE t == Climb(w, s)
           levels == s.levels
           top == Len(levels)
           begin == s.level
           level == CHOOSE l \in begin..top : levels[l] # <<>> /\ \A m \in begin..(l - 1) : levels[m] = <<>>
           rows == levels[level]
           next == level + 1
           raised == [s EXCEPT !.level = next]
<1>1. levels \in Seq(Seq(Bodies(C))) /\ begin \in 1..(Len(s.levels) + 1) /\ Deep(w, Len(s.levels) - 1)
  BY DEF Stage
<1>2. top \in Nat /\ begin \in 1..top /\ begin \in Nat
  <2>1. top \in Nat /\ begin \in 1..(top + 1) /\ begin <= top
    BY <1>1
  <2> HIDE DEF top, begin
  <2>2. QED  BY <2>1
<1>3. p \in Nat \ {0}
  BY SomeEntries
<1>4. t = IF level = top /\ Len(rows) = 1
          THEN Putting(s, Root(StoreOf[w].head, rows[1]), 0)
          ELSE Putting(raised, Node(rows), IF level = top THEN 0 ELSE next)
  BY Zenon DEF Climb
<1> HIDE DEF begin, top
<1>5. Stacked(C, levels, begin, p) /\ top = Len(levels)
  BY DEF begin, top
<1> HIDE DEF levels
<1>6. \E l \in begin..top : levels[l] # <<>> /\ \A m \in begin..(l - 1) : levels[m] = <<>>
  BY <1>2, <1>3, <1>5, StackedSome
<1>7. level \in begin..top /\ levels[level] # <<>> /\ \A m \in begin..(level - 1) : levels[m] = <<>>
  BY <1>6, Zenon
<1> HIDE DEF level
<1>8. level \in 1..top /\ level \in Nat /\ level \in 1..(top + 1) /\ begin \in 1..level
  BY <1>2, <1>7
<1>9. Stacked(C, levels, level, p)
  BY <1>2, <1>5, <1>7, <1>8, StackedUp
<1>10. PICK i \in Nat : /\ Follows(C, levels[level], level - 1, i, p)
                        /\ Stacked(C, levels, level + 1, i)
                        /\ level = top => i = 0
  BY <1>2, <1>5, <1>8, <1>9, StackedTake
<1> DEFINE h == level - 1
<1>11. h \in Nat /\ h + 1 = level /\ next \in 1..(top + 1) /\ next - 1 = level /\ level \in Nat \ {0} /\ next > 1 /\ next \in Nat
  BY <1>2, <1>8
<1> HIDE DEF h
<1>12. /\ Covers(w, C, Node(rows), h + 1, i, p)
       /\ Len(rows) # 1 => Deep(w, h + 1)
       /\ Len(rows) = 1 => <<rows[1], h, i, p>> \in C
  <2>1. Follows(C, rows, h, i, EntryCount(w)) /\ rows # <<>>
    BY <1>7, <1>10 DEF h
  <2> HIDE DEF rows
  <2>2. QED  BY <1>11, <2>1, LastRows
<1> HIDE DEF t, rows, raised, next
<1>13. CASE level = top /\ Len(rows) = 1
  <2>1. t = Putting(s, Root(StoreOf[w].head, rows[1]), 0)
    BY <1>4, <1>13
  <2>2. t.at = "put" /\ t.wanted = Root(StoreOf[w].head, rows[1]) /\ Stage(w, t, C, p, p)
    BY <2>1, PuttingKeeps
  <2>3. <<rows[1], h, 0, p>> \in C /\ Deep(w, h)
    BY <1>1, <1>10, <1>12, <1>13 DEF h, top, levels
  <2>4. WantsRoot(w, t, C, p)
    BY <1>11, <2>2, <2>3, Zenon DEF WantsRoot
  <2>5. QED  BY <2>2, <2>4 DEF Wants, t
<1>14. CASE ~(level = top /\ Len(rows) = 1)
  <2> DEFINE into == IF level = top THEN 0 ELSE next
  <2>1. t = Putting(raised, Node(rows), into)
    BY <1>4, <1>14
  <2>2. raised.levels = levels /\ raised.level = next /\ Stage(w, raised, C, p, p)
    <3>1. next \in 1..(Len(s.levels) + 1)
      BY <1>11 DEF top, levels
    <3>2. QED  BY <3>1, LevelKeeps DEF raised, levels
  <2>3. /\ t.at = "put" /\ t.wanted = Node(rows) /\ t.into = into /\ t.levels = levels
        /\ t.level = next /\ Stage(w, t, C, p, p)
    <3> HIDE DEF into
    <3>1. QED  BY <2>1, <2>2, PuttingKeeps
  <2>4. CASE level = top
    <3>1. into = 0 /\ i = 0 /\ Deep(w, h + 1) /\ level = h + 1
      BY <1>10, <1>11, <1>12, <1>14, <2>4
    <3>2. WantsTop(w, t, C, p)
      <4>1. Covers(w, C, t.wanted, level, 0, p) /\ Deep(w, level)
        BY <1>12, <2>3, <3>1
      <4>2. QED  BY <1>11, <2>3, <3>1, <4>1, Zenon DEF WantsTop
    <3>3. QED  BY <2>3, <3>2 DEF Wants, t
  <2>5. CASE level # top
    <3>1. t.into = next /\ next \in 1..(Len(t.levels) + 1)
      BY <1>5, <1>11, <2>3, <2>5
    <3>2. Covers(w, C, t.wanted, next - 1, i, p)
      BY <1>11, <1>12, <2>3
    <3>3. Stacked(C, t.levels, next, i)
      BY <1>10, <2>3 DEF next
    <3>4. t.level <= next /\ \A l \in t.level..(next - 1) : t.levels[l] = <<>>
      BY <1>11, <2>3
    <3>5. next # Len(t.levels) + 1 /\ next # 1
      BY <1>2, <1>5, <1>8, <1>11, <2>3, <2>5 DEF next
    <3>6. WantsPage(w, t, C, p, p)
      BY <3>1, <3>2, <3>3, <3>4, <3>5, Zenon DEF WantsPage
    <3>7. QED  BY <2>3, <3>6 DEF Wants, t
  <2>6. QED  BY <2>4, <2>5
<1>15. QED  BY <1>13, <1>14

\* What Proceed makes of a seal that has all its pages on the levels.
LEMMA ProceedWants ==
  ASSUME NEW w \in Writers, NEW C, IsCover(w, C), NEW p, NEW q, NEW s, Stage(w, s, C, p, q),
         s.level <= Len(s.levels), Stacked(C, s.levels, s.level, q)
  PROVE  LET t == Proceed(w, s) IN t.at = "put" /\ Stage(w, t, C, p, q) /\ Wants(w, t, C, p, q)
<1> DEFINE t == Proceed(w, s)
           L == EntryCount(w)
<1>1. /\ p \in 0..L /\ q \in 0..p
      /\ s = Sealer(s.at, s.wanted, s.into, Todo(w, p), Rows(w, q, p), s.levels, s.level)
      /\ s.level > 1 => p = L /\ q = p
      /\ s.levels \in Seq(Seq(Bodies(C))) /\ s.level \in 1..(Len(s.levels) + 1)
  BY DEF Stage
<1>2. s.todo = Todo(w, p) /\ s.page = Rows(w, q, p)
  <2>1. ASSUME NEW a, NEW b, NEW c, NEW d, NEW e, NEW f, NEW g
        PROVE  Sealer(a, b, c, d, e, f, g).todo = d /\ Sealer(a, b, c, d, e, f, g).page = e
    BY DEF Sealer
  <2> DEFINE x == Sealer(s.at, s.wanted, s.into, Todo(w, p), Rows(w, q, p), s.levels, s.level)
  <2>2. x.todo = Todo(w, p) /\ x.page = Rows(w, q, p)
    BY <2>1
  <2> HIDE DEF x
  <2>3. s = x
    BY <1>1 DEF x
  <2>4. QED  BY <2>2, <2>3
<1>3. L \in Nat /\ p \in Nat /\ q \in Nat /\ L \in 0..L
  BY <1>1, SomeEntries
<1>4. /\ Len(s.page) = p - q /\ (s.page = <<>> <=> q = p) /\ (s.todo = <<>> <=> p = L)
  <2>1. Len(s.page) = p - q /\ (s.page = <<>> <=> q = p)
    BY <1>1, <1>2, Windows
  <2>2. s.todo = <<>> <=> p = L
    <3>1. Rows(w, p, L) = <<>> <=> p = L
      <4>1. L \in 0..EntryCount(w)
        BY <1>3
      <4> HIDE DEF L
      <4>2. QED  BY <1>1, <4>1, Windows
    <3>2. QED  BY <1>2, <3>1 DEF Todo
  <2>3. QED  BY <2>1, <2>2
<1>5. s.level \in Nat /\ s.level >= 1 /\ Len(s.levels) \in Nat
  BY <1>1
<1> HIDE DEF L
<1>6. CASE Len(s.page) = PageItems \/ (s.todo = <<>> /\ s.page # <<>>)
  <2>1. t = Putting(s, Page(s.page), 1)
    BY <1>6 DEF Proceed
  <2> HIDE DEF t
  <2>2. /\ t.at = "put" /\ t.wanted = Page(s.page) /\ t.into = 1 /\ t.levels = s.levels
        /\ t.level = s.level /\ Stage(w, t, C, p, q)
    BY <2>1, PuttingKeeps
  <2>3. PageItems \in Nat \ {0} /\ Capacity[0] = PageItems
    BY SnapshotConstants, CapacityGrows
  <2>4. q < p /\ (p = L \/ p = q + PageItems)
    BY <1>1, <1>3, <1>4, <1>6, <2>3
  <2>5. Covers(w, C, t.wanted, 0, q, p)
    <3>1. Spans(w, t.wanted, 0, q, p)
      BY <1>1, <1>3, <2>3, <2>4 DEF Spans, L
    <3>2. t.wanted = Page(SubSeq(EntriesOf[w], q + 1, p))
      BY <1>2, <2>2 DEF Rows
    <3>3. QED  BY <3>1, <3>2, Zenon DEF Covers
  <2>6. s.level = 1
    BY <1>1, <1>5, <2>4
  <2> DEFINE k == 1
  <2>7. k \in 1..(Len(t.levels) + 1) /\ k - 1 = 0 /\ (\A l \in t.level..(k - 1) : FALSE) /\ t.level <= k
    BY <1>5, <2>2, <2>6
  <2>8. Deep(w, k - 1) /\ ~(k > 1) /\ Stacked(C, t.levels, k, q) /\ t.into = k /\ Covers(w, C, t.wanted, k - 1, q, p)
    BY <2>2, <2>5, <2>6 DEF Deep
  <2> HIDE DEF k
  <2>9. WantsPage(w, t, C, p, q)
    BY <1>3, <2>7, <2>8, Zenon DEF WantsPage
  <2>10. QED  BY <2>2, <2>9 DEF Wants, t
<1>7. CASE ~(Len(s.page) = PageItems \/ (s.todo = <<>> /\ s.page # <<>>)) /\ s.todo # <<>>
  <2>1. t = Putting(s, Head(s.todo).digest, 0)
    BY <1>7 DEF Proceed
  <2> HIDE DEF t
  <2>2. /\ t.at = "put" /\ t.wanted = Head(s.todo).digest /\ t.into = 0 /\ t.levels = s.levels
        /\ t.level = s.level /\ Stage(w, t, C, p, q)
    BY <2>1, PuttingKeeps
  <2>3. p < L
    BY <1>1, <1>3, <1>4, <1>7
  <2>4. Head(s.todo) = EntriesOf[w][p + 1]
    BY <1>1, <1>2, <2>3, WindowMoves DEF L
  <2>5. s.level = 1
    BY <1>1, <1>3, <1>5, <2>3
  <2>6. t.wanted = EntriesOf[w][p + 1].digest /\ t.level = 1 /\ Stacked(C, t.levels, 1, q)
    BY <2>2, <2>4, <2>5
  <2>7. WantsChunk(w, t, C, p, q)
    BY <2>2, <2>3, <2>6, Zenon DEF WantsChunk, L
  <2>8. QED  BY <2>2, <2>7 DEF Wants, t
<1>8. CASE ~(Len(s.page) = PageItems \/ (s.todo = <<>> /\ s.page # <<>>)) /\ s.todo = <<>>
  <2>1. t = Climb(w, s)
    BY <1>8 DEF Proceed
  <2>2. p = EntryCount(w) /\ q = p
    BY <1>4, <1>8 DEF L
  <2> HIDE DEF t
  <2>3. Stage(w, s, C, p, p) /\ Stacked(C, s.levels, s.level, p)
    BY <2>2
  <2>4. t.at = "put" /\ Stage(w, t, C, p, p) /\ Wants(w, t, C, p, p)
    BY <2>1, <2>2, <2>3, ClimbWants
  <2>5. QED  BY <2>2, <2>4 DEF t
<1>9. QED  BY <1>6, <1>7, <1>8

\* What add makes of a page that is stored.
LEMMA AddWants ==
  ASSUME NEW w \in Writers, NEW C, IsCover(w, C), NEW p, NEW s, Stage(w, s, C, p, p), NEW body,
         NEW k \in 1..(Len(s.levels) + 1), NEW e \in Nat, <<body, k - 1, e, p>> \in C,
         Stacked(C, s.levels, k, e), s.level <= k, \A l \in s.level..(k - 1) : s.levels[l] = <<>>,
         k = Len(s.levels) + 1 => Deep(w, k - 1)
  PROVE  LET t == Add(w, s, body, k) IN t.at = "put" /\ Stage(w, t, C, p, p) /\ Wants(w, t, C, p, p)
<1> DEFINE t == Add(w, s, body, k)
           L == EntryCount(w)
           n == Len(s.levels)
           levels == IF k > n THEN Append(s.levels, <<body>>)
                     ELSE [s.levels EXCEPT ![k] = Append(@, body)]
           cleared == [levels EXCEPT ![k] = <<>>]
           full == [s EXCEPT !.levels = cleared]
           more == [s EXCEPT !.levels = levels]
<1>1. /\ p \in 0..L /\ L \in Nat /\ p \in Nat
      /\ s.level > 1 => p = L
      /\ s.levels \in Seq(Seq(Bodies(C))) /\ s.level \in 1..(n + 1) /\ Deep(w, n - 1)
  <2>1. L \in Nat
    BY SomeEntries
  <2> HIDE DEF L
  <2>2. QED  BY <2>1 DEF Stage, L
<1>2. body \in Bodies(C)
  BY CoverMember
<1>3. n \in Nat /\ k \in 1..(n + 1) /\ k \in Nat /\ s.level \in Nat /\ s.level <= k /\ s.level >= 1
  BY <1>1
<1>4. /\ levels \in Seq(Seq(Bodies(C))) /\ Len(levels) = (IF k > n THEN n + 1 ELSE n) /\ k \in 1..Len(levels)
      /\ \A l \in s.level..(k - 1) : levels[l] = <<>>
      /\ Stacked(C, levels, k, p) /\ Deep(w, Len(levels) - 1)
  <2>1. CASE k > n
    <3> DEFINE row == <<body>>
    <3>1. levels = Append(s.levels, row) /\ k = n + 1
      BY <1>3, <2>1
    <3>2. row \in Seq(Bodies(C))
      BY <1>2
    <3> HIDE DEF row, levels
    <3>3. levels \in Seq(Seq(Bodies(C))) /\ Len(levels) = n + 1 /\ \A l \in 1..n : levels[l] = s.levels[l]
      BY <1>1, <3>1, <3>2, AppendProperties
    <3>4. Stacked(C, Append(s.levels, row), k, p)
      <4>1. Stacked(C, s.levels, n + 1, e) /\ <<body, n, e, p>> \in C
        BY <1>3, <3>1
      <4>2. Stacked(C, Append(s.levels, row), n + 1, p)
        BY <1>1, <4>1, StackedNew DEF row
      <4>3. QED  BY <3>1, <4>2
    <3> HIDE DEF n
    <3>5. \A l \in s.level..(k - 1) : l \in 1..n
      BY <1>3, <3>1
    <3>6. Deep(w, (n + 1) - 1)
      BY <1>3, <3>1 DEF n
    <3>7. k \in 1..Len(levels) /\ Len(levels) = (IF k > n THEN n + 1 ELSE n)
      BY <1>3, <3>1, <3>3
    <3>8. QED  BY <3>1, <3>3, <3>4, <3>5, <3>6, <3>7
  <2>2. CASE ~(k > n)
    <3> DEFINE row == Append(s.levels[k], body)
    <3>1. levels = [s.levels EXCEPT ![k] = row] /\ k \in 1..n
      BY <1>3, <2>2
    <3>2. row \in Seq(Bodies(C))
      BY <1>1, <1>2, <3>1
    <3>3. Stacked(C, [s.levels EXCEPT ![k] = Append(@, body)], k, p)
      BY <1>1, <3>1, StackedAdd
    <3>4. Stacked(C, levels, k, p)
      BY <2>2, <3>3
    <3> HIDE DEF row, levels
    <3>5. levels \in Seq(Seq(Bodies(C))) /\ Len(levels) = n /\ \A l \in 1..n : l # k => levels[l] = s.levels[l]
      <4> DEFINE old == s.levels
      <4>1. old \in Seq(Seq(Bodies(C))) /\ n = Len(old) /\ levels = [old EXCEPT ![k] = row]
        BY <1>1, <3>1
      <4> DEFINE X == Seq(Bodies(C))
      <4> HIDE DEF old, n, X
      <4>4. old \in Seq(X) /\ n = Len(old) /\ levels = [old EXCEPT ![k] = row] /\ row \in X /\ k \in 1..n
        BY <3>1, <3>2, <4>1 DEF X
      <4>5. levels \in Seq(X) /\ Len(levels) = n /\ \A l \in 1..n : l # k => levels[l] = old[l]
        BY <4>4
      <4>2. levels \in Seq(Seq(Bodies(C))) /\ Len(levels) = n /\ \A l \in 1..n : l # k => levels[l] = old[l]
        BY <4>5 DEF X
      <4>3. QED  BY <4>2 DEF old
    <3> HIDE DEF n
    <3>6. \A l \in s.level..(k - 1) : l \in 1..n /\ l # k
      BY <1>3, <3>1
    <3>7. QED  BY <1>1, <1>3, <2>2, <3>1, <3>4, <3>5, <3>6
  <2>3. QED  BY <2>1, <2>2
<1>5. Len(s.levels) <= Len(levels)
  BY <1>3, <1>4
<1>6. t = IF Len(levels[k]) = PageItems THEN Putting(full, Node(levels[k]), k + 1) ELSE Proceed(w, more)
  BY Zenon DEF Add
<1> HIDE DEF t, levels, n, L
<1>7. CASE Len(levels[k]) = PageItems
  <2> DEFINE rows == levels[k]
             top == Len(levels)
             next == k + 1
  <2>1. t = Putting(full, Node(rows), next)
    BY <1>6, <1>7
  <2>2. top \in Nat /\ k \in 1..top /\ PageItems \in Nat \ {0, 1}
    BY <1>4, SnapshotConstants
  <2>3. /\ cleared \in Seq(Seq(Bodies(C))) /\ Len(cleared) = top /\ cleared[k] = <<>>
        /\ \A l \in 1..top : l # k => cleared[l] = levels[l]
    <3>1. <<>> \in Seq(Bodies(C))
      OBVIOUS
    <3>2. QED  BY <1>4, <3>1
  <2> HIDE DEF cleared
  <2>4. full.levels = cleared /\ full.level = s.level /\ Stage(w, full, C, p, p)
    BY <1>4, <1>5, <2>3, LevelsKeep
  <2> HIDE DEF full, top
  <2>5. /\ t.at = "put" /\ t.wanted = Node(rows) /\ t.into = next /\ t.levels = cleared
        /\ t.level = s.level /\ Stage(w, t, C, p, p)
    <3> HIDE DEF rows, next
    <3>1. QED  BY <2>1, <2>4, PuttingKeeps
  <2>6. PICK i \in Nat : Follows(C, levels[k], k - 1, i, p) /\ Stacked(C, levels, k + 1, i)
    BY <1>4, <2>2, StackedTake DEF top
  <2> DEFINE h == k - 1
  <2>7. h \in Nat /\ h + 1 = k
    BY <1>3
  <2> HIDE DEF h
  <2>8. rows # <<>> /\ Len(rows) = PageItems
    BY <1>7, <2>2
  <2> HIDE DEF rows
  <2> DEFINE x == Len(rows) - 1
             Q == Capacity[h]
             r == x * Q
             y == Len(rows) * Q
  <2>9. /\ p \in Nat /\ i < p /\ p <= L /\ i + r < p /\ (p = L \/ p = i + y)
    BY <2>6, <2>8, FollowsFull, <2>7 DEF h, rows, L
  <2>10. Q \in Nat /\ x \in Nat \ {0} /\ y = PageItems * Q /\ Capacity[h + 1] = PageItems * Q
    <3>1. Capacity[h] \in Nat \ {0} /\ Capacity[h + 1] = PageItems * Capacity[h]
      BY <2>7, CapacityGrows
    <3>2. x \in Nat \ {0}
      BY <2>2, <2>8
    <3>3. QED  BY <2>8, <3>1, <3>2
  <2>11. Q <= r /\ r \in Nat
    <3> HIDE DEF x, Q
    <3>1. QED  BY <2>10, ManyTimes
  <2> HIDE DEF x, Q, r, y
  <2>12. Q < L
    BY <1>1, <2>9, <2>10, <2>11
  <2>13. Covers(w, C, t.wanted, k, i, p)
    <3>1. p = L \/ p = i + Capacity[k]
      BY <2>7, <2>9, <2>10
    <3>2. Spans(w, t.wanted, k, i, p)
      BY <1>3, <2>9, <3>1 DEF Spans, L
    <3>3. Follows(C, rows, k - 1, i, p) /\ k > 0
      BY <1>3, <2>6 DEF rows
    <3>4. QED  BY <2>5, <3>2, <3>3, Zenon DEF Covers
  <2>14. next - 1 = k /\ next \in 1..(Len(t.levels) + 1) /\ next # 1 /\ t.level <= next
    BY <1>3, <2>2, <2>3, <2>5
  <2>15. Deep(w, next - 1)
    BY <1>3, <2>7, <2>12, <2>14 DEF Deep, h, Q, L
  <2>16. \A l \in t.level..(next - 1) : t.levels[l] = <<>>
    <3>1. SUFFICES ASSUME NEW l \in s.level..k  PROVE cleared[l] = <<>>
      BY <2>5, <2>14
    <3>2. CASE l = k
      BY <2>3, <3>2
    <3>3. CASE l # k
      <4>1. l \in s.level..(k - 1) /\ l \in 1..top
        BY <1>3, <2>2, <3>3
      <4>2. QED  BY <1>4, <2>3, <3>3, <4>1
    <3>4. QED  BY <3>2, <3>3
  <2>17. Stacked(C, t.levels, next, i)
    <3>1. Stacked(C, levels, next, i)
      BY <2>6
    <3>2. \A l \in next..Len(levels) : cleared[l] = levels[l]
      BY <1>3, <2>2, <2>3 DEF top
    <3> HIDE DEF next
    <3>3. Stacked(C, cleared, next, i)
      BY <2>3, <3>1, <3>2, StackedSame DEF top
    <3>4. QED  BY <2>5, <3>3
  <2>18. Covers(w, C, t.wanted, next - 1, i, p)
    BY <2>13, <2>14
  <2> HIDE DEF next
  <2>19. WantsPage(w, t, C, p, p)
    BY <2>5, <2>14, <2>15, <2>16, <2>17, <2>18, Zenon DEF WantsPage
  <2>20. QED  BY <2>5, <2>19 DEF Wants, t
<1>8. CASE Len(levels[k]) # PageItems
  <2>1. t = Proceed(w, more)
    BY <1>6, <1>8
  <2>2. more.levels = levels /\ more.level = s.level /\ Stage(w, more, C, p, p)
    BY <1>4, <1>5, LevelsKeep
  <2> HIDE DEF more
  <2> DEFINE begin == s.level
             top == Len(levels)
  <2>3. top \in Nat /\ k \in 1..top /\ begin \in Nat /\ begin <= k /\ begin >= 1
    BY <1>3, <1>4
  <2>4. Stacked(C, levels, begin, p)
    <3>1. k \in 1..(Len(levels) + 1) /\ begin \in 1..k /\ Len(levels) \in Nat
      BY <2>3
    <3>2. \A l \in begin..(k - 1) : levels[l] = <<>>
      BY <1>4
    <3> HIDE DEF begin, top
    <3>3. QED  BY <1>4, <3>1, <3>2, StackedDown
  <2>5. more.level <= Len(more.levels) /\ Stacked(C, more.levels, more.level, p)
    BY <2>2, <2>3, <2>4
  <2> DEFINE u == Proceed(w, more)
  <2>6. u.at = "put" /\ Stage(w, u, C, p, p) /\ Wants(w, u, C, p, p)
    BY <2>2, <2>5, ProceedWants
  <2> HIDE DEF u
  <2>7. t.at = "put" /\ Stage(w, t, C, p, p) /\ Wants(w, t, C, p, p)
    BY <2>1, <2>6 DEF u
  <2>8. QED  BY <2>7 DEF t
<1>9. QED  BY <1>7, <1>8

\* The next entry goes to the page.
Moved(s) == [s EXCEPT !.page = Append(@, Head(s.todo)), !.todo = Tail(@)]

\* What Advance does for each kind of body.
LEMMA AdvanceCases ==
  ASSUME NEW w, NEW s
  PROVE  /\ s.wanted.kind = "chunk" =>
              Advance(w, s) = Proceed(w, Moved(s))
         /\ s.wanted.kind = "entries" => Advance(w, s) = Add(w, [s EXCEPT !.page = <<>>], s.wanted, 1)
         /\ s.wanted.kind = "children" /\ s.into # 0 => Advance(w, s) = Add(w, s, s.wanted, s.into)
         /\ s.wanted.kind = "children" /\ s.into = 0 =>
              Advance(w, s) = Putting(s, Root(StoreOf[w].head, s.wanted), 0)
         /\ s.wanted.kind = "root" => Advance(w, s) = [s EXCEPT !.at = "sealed"]
<1>1. ASSUME s.wanted.kind = "chunk"
      PROVE  Advance(w, s) = Proceed(w, Moved(s))
  BY <1>1 DEF Advance, Moved
<1>2. ASSUME s.wanted.kind = "entries"
      PROVE  Advance(w, s) = Add(w, [s EXCEPT !.page = <<>>], s.wanted, 1)
  BY <1>2 DEF Advance
<1>3. ASSUME s.wanted.kind = "children", s.into # 0
      PROVE  Advance(w, s) = Add(w, s, s.wanted, s.into)
  BY <1>3 DEF Advance
<1>4. ASSUME s.wanted.kind = "children", s.into = 0
      PROVE  Advance(w, s) = Putting(s, Root(StoreOf[w].head, s.wanted), 0)
  BY <1>4 DEF Advance
<1>5. ASSUME s.wanted.kind = "root"  PROVE Advance(w, s) = [s EXCEPT !.at = "sealed"]
  BY <1>5 DEF Advance
<1>6. QED  BY <1>1, <1>2, <1>3, <1>4, <1>5

\* A stage is one under a larger cover.
LEMMA StageMore ==
  ASSUME NEW w, NEW C, NEW D, C \subseteq D, NEW p, NEW q, NEW s, Stage(w, s, C, p, q)
  PROVE  Stage(w, s, D, p, q)
<1>1. Bodies(C) \subseteq Bodies(D)
  BY DEF Bodies
<1>2. Seq(Bodies(C)) \subseteq Seq(Bodies(D))
  BY <1>1, SeqMonotonic
<1>3. Seq(Seq(Bodies(C))) \subseteq Seq(Seq(Bodies(D)))
  BY <1>2, SeqMonotonic
<1>4. QED  BY <1>3 DEF Stage

\* Moving an entry field by field.
LEMMA SealerMoves ==
  ASSUME NEW a, NEW b, NEW c, NEW d, NEW e, NEW f, NEW g, NEW x, x = Sealer(a, b, c, d, e, f, g)
  PROVE  Moved(x) = Sealer(a, b, c, Tail(d), Append(e, Head(d)), f, g)
<1>1. x.todo = d /\ x.page = e
  BY DEF Sealer
<1>2. ASSUME NEW v  PROVE [x EXCEPT !.page = v] = Sealer(a, b, c, d, v, f, g)
  BY DEF Sealer
<1>3. ASSUME NEW u, NEW v
      PROVE  [Sealer(a, b, c, d, v, f, g) EXCEPT !.todo = u] = Sealer(a, b, c, u, v, f, g)
  BY DEF Sealer
<1>4. [x EXCEPT !.page = Append(@, Head(x.todo)), !.todo = Tail(@)]
        = [[x EXCEPT !.page = Append(e, Head(d))] EXCEPT !.todo = Tail(d)]
  <2>1. [x EXCEPT !.page = Append(@, Head(x.todo)), !.todo = Tail(@)]
          = [[x EXCEPT !.page = Append(x.page, Head(x.todo))] EXCEPT !.todo = Tail(x.todo)]
    OBVIOUS
  <2>2. QED  BY <1>1, <2>1
<1>5. [x EXCEPT !.page = Append(e, Head(d))] = Sealer(a, b, c, d, Append(e, Head(d)), f, g)
  BY <1>2
<1>6. QED  BY <1>3, <1>4, <1>5 DEF Moved

\* One entry more on the page.
LEMMA MoveKeeps ==
  ASSUME NEW w \in Writers, NEW C, NEW p, NEW q, NEW s, Stage(w, s, C, p, q),
         p < EntryCount(w), s.level = 1
  PROVE  LET t == Moved(s) IN
         t.levels = s.levels /\ t.level = 1 /\ Stage(w, t, C, p + 1, q)
<1> DEFINE t == Moved(s)
           r == Sealer(s.at, s.wanted, s.into, Todo(w, p + 1), Rows(w, q, p + 1), s.levels, s.level)
<1>1. /\ s = Sealer(s.at, s.wanted, s.into, Todo(w, p), Rows(w, q, p), s.levels, s.level)
      /\ p \in 0..EntryCount(w) /\ q \in 0..p
  BY DEF Stage
<1>2. t = r
  <2> DEFINE x == Sealer(s.at, s.wanted, s.into, Todo(w, p), Rows(w, q, p), s.levels, s.level)
             y == Sealer(s.at, s.wanted, s.into, Tail(Todo(w, p)), Append(Rows(w, q, p), Head(Todo(w, p))),
                         s.levels, s.level)
  <2>2. Moved(x) = y
    <3> HIDE DEF y
    <3>1. y = Sealer(s.at, s.wanted, s.into, Tail(Todo(w, p)), Append(Rows(w, q, p), Head(Todo(w, p))),
                     s.levels, s.level)
      BY DEF y
    <3> HIDE DEF x
    <3>2. x = Sealer(s.at, s.wanted, s.into, Todo(w, p), Rows(w, q, p), s.levels, s.level)
      BY DEF x
    <3>3. QED  BY <3>1, <3>2, SealerMoves
  <2>3. y = r
    BY <1>1, WindowMoves
  <2> HIDE DEF x, y, r
  <2>4. s = x
    BY <1>1 DEF x
  <2>5. QED  BY <2>2, <2>3, <2>4
<1>3. /\ r.at = s.at /\ r.wanted = s.wanted /\ r.into = s.into /\ r.levels = s.levels /\ r.level = s.level
  BY DEF Sealer
<1>4. r = Sealer(r.at, r.wanted, r.into, Todo(w, p + 1), Rows(w, q, p + 1), r.levels, r.level)
  <2> HIDE DEF r
  <2>1. QED  BY <1>3 DEF r
<1>5. p + 1 \in 0..EntryCount(w) /\ q \in 0..(p + 1) /\ ~(s.level > 1)
  BY <1>1, WindowMoves
<1> HIDE DEF t, r
<1>6. Stage(w, t, C, p + 1, q)
  BY <1>2, <1>3, <1>4, <1>5 DEF Stage
<1>7. QED  BY <1>2, <1>3, <1>6 DEF t

\* No entry on the page.
LEMMA EmptyKeeps ==
  ASSUME NEW w \in Writers, NEW C, NEW p, NEW q, NEW s, Stage(w, s, C, p, q)
  PROVE  LET t == [s EXCEPT !.page = <<>>] IN
         t.levels = s.levels /\ t.level = s.level /\ Stage(w, t, C, p, p)
<1> DEFINE t == [s EXCEPT !.page = <<>>]
           r == Sealer(s.at, s.wanted, s.into, Todo(w, p), Rows(w, p, p), s.levels, s.level)
<1>1. /\ s = Sealer(s.at, s.wanted, s.into, Todo(w, p), Rows(w, q, p), s.levels, s.level)
      /\ p \in 0..EntryCount(w) /\ p \in 0..p
  BY SomeEntries DEF Stage
<1>2. t = r
  <2>1. ASSUME NEW a, NEW b, NEW c, NEW d, NEW e, NEW f, NEW g
        PROVE  [Sealer(a, b, c, d, e, f, g) EXCEPT !.page = <<>>] = Sealer(a, b, c, d, <<>>, f, g)
    BY DEF Sealer
  <2> DEFINE x == Sealer(s.at, s.wanted, s.into, Todo(w, p), Rows(w, q, p), s.levels, s.level)
             y == Sealer(s.at, s.wanted, s.into, Todo(w, p), <<>>, s.levels, s.level)
  <2>2. [x EXCEPT !.page = <<>>] = y
    BY <2>1
  <2>3. y = r
    BY <1>1, Windows
  <2> HIDE DEF x, y, r
  <2>4. s = x
    BY <1>1 DEF x
  <2>5. QED  BY <2>2, <2>3, <2>4
<1>3. /\ r.at = s.at /\ r.wanted = s.wanted /\ r.into = s.into /\ r.levels = s.levels /\ r.level = s.level
  BY DEF Sealer
<1>4. r = Sealer(r.at, r.wanted, r.into, Todo(w, p), Rows(w, p, p), r.levels, r.level)
  <2> HIDE DEF r
  <2>1. QED  BY <1>3 DEF r
<1> HIDE DEF t, r
<1>5. Stage(w, t, C, p, p)
  BY <1>1, <1>2, <1>3, <1>4 DEF Stage
<1>6. QED  BY <1>2, <1>3, <1>5 DEF t

\* What was wanted and is stored: the stage goes on under a larger cover.
Onward(w, s, t, C, p) ==
  \E D : \E a, b :
    /\ IsCover(w, D) /\ C \subseteq D /\ Bodies(D) \subseteq Bodies(C) \cup {s.wanted}
    /\ Stage(w, t, D, a, b) /\ Wants(w, t, D, a, b)
    /\ a = p \/ (a = p + 1 /\ p < EntryCount(w) /\ EntriesOf[w][a].digest = s.wanted)

\* A page that is stored joins the cover and goes to its level.
LEMMA PageOnward ==
  ASSUME NEW w \in Writers, NEW C, IsCover(w, C), NEW p, NEW q, NEW s, Stage(w, s, C, p, q),
         WantsPage(w, s, C, p, q)
  PROVE  LET t == Advance(w, s) IN t.at = "put" /\ Onward(w, s, t, C, p)
<1> DEFINE t == Advance(w, s)
<1>1. PICK k \in 1..(Len(s.levels) + 1), e \in Nat :
        /\ s.into = k /\ Covers(w, C, s.wanted, k - 1, e, p)
        /\ Stacked(C, s.levels, k, e)
        /\ s.level <= k /\ \A l \in s.level..(k - 1) : s.levels[l] = <<>>
        /\ k = Len(s.levels) + 1 => Deep(w, k - 1)
        /\ k = 1 => e = q
        /\ k > 1 => q = p
  BY Zenon DEF WantsPage
<1> DEFINE D == With(C, s.wanted, k - 1, e, p)
           u == IF k = 1 THEN [s EXCEPT !.page = <<>>] ELSE s
<1>2. IsCover(w, D) /\ Bodies(D) = Bodies(C) \cup {s.wanted} /\ C \subseteq D /\ <<s.wanted, k - 1, e, p>> \in D
  BY <1>1, CoverAdd
<1>3. k \in Nat /\ k >= 1
  <2>1. s.levels \in Seq(Seq(Bodies(C)))
    BY DEF Stage
  <2> DEFINE n == Len(s.levels)
  <2>2. n \in Nat
    BY <2>1
  <2>3. k \in 1..(n + 1)
    OBVIOUS
  <2> HIDE DEF n
  <2>4. QED  BY <2>2, <2>3
<1> HIDE DEF D, t
<1>4. t = Add(w, u, s.wanted, k)
  <2>1. CASE k = 1
    <3>1. s.wanted.kind = "entries"
      <4>1. s.wanted = Page(SubSeq(EntriesOf[w], e + 1, p))
        BY <1>1, <2>1 DEF Covers
      <4>2. QED  BY <4>1 DEF Page
    <3>2. QED  BY <2>1, <3>1, AdvanceCases DEF t
  <2>2. CASE k # 1
    <3>1. s.wanted.kind = "children"
      <4>1. \E rows : s.wanted = Node(rows)
        BY <1>1, <1>3, <2>2 DEF Covers
      <4>2. QED  BY <4>1 DEF Node
    <3>2. s.into # 0 /\ s.into = k
      BY <1>1, <1>3
    <3>3. QED  BY <2>2, <3>1, <3>2, AdvanceCases DEF t
  <2>3. QED  BY <2>1, <2>2
<1>5. u.levels = s.levels /\ u.level = s.level /\ Stage(w, u, D, p, p)
  <2>1. CASE k = 1
    <3>1. Stage(w, s, D, p, q)
      BY <1>2, StageMore
    <3>2. QED  BY <2>1, <3>1, EmptyKeeps
  <2>2. CASE k # 1
    <3>1. q = p
      BY <1>1, <1>3, <2>2
    <3>2. QED  BY <1>2, <2>2, <3>1, StageMore
  <2>3. QED  BY <2>1, <2>2
<1> HIDE DEF u
<1>6. Stacked(D, u.levels, k, e)
  BY <1>1, <1>2, <1>5, StackedSame
<1>7. /\ k \in 1..(Len(u.levels) + 1) /\ u.level <= k /\ \A l \in u.level..(k - 1) : u.levels[l] = <<>>
      /\ k = Len(u.levels) + 1 => Deep(w, k - 1)
  BY <1>1, <1>5
<1>8. LET x == Add(w, u, s.wanted, k) IN x.at = "put" /\ Stage(w, x, D, p, p) /\ Wants(w, x, D, p, p)
  BY <1>2, <1>5, <1>6, <1>7, AddWants
<1>9. t.at = "put" /\ Stage(w, t, D, p, p) /\ Wants(w, t, D, p, p)
  BY <1>4, <1>8
<1>10. Onward(w, s, t, C, p)
  BY <1>2, <1>9, Zenon DEF Onward
<1>11. QED  BY <1>9, <1>10 DEF t

\* What a seal does next, whatever it wanted.
LEMMA AdvanceWants ==
  ASSUME NEW w \in Writers, NEW C, IsCover(w, C), NEW p, NEW q, NEW s, Stage(w, s, C, p, q),
         Wants(w, s, C, p, q)
  PROVE  LET t == Advance(w, s) IN
         \/ t.at = "put" /\ Onward(w, s, t, C, p)
         \/ WantsRoot(w, s, C, p) /\ t = [s EXCEPT !.at = "sealed"]
<1> DEFINE t == Advance(w, s)
<1>1. CASE WantsChunk(w, s, C, p, q)
  <2> DEFINE u == Moved(s)
             a == p + 1
  <2>1. /\ p < EntryCount(w) /\ s.wanted = EntriesOf[w][a].digest
        /\ s.level = 1 /\ Stacked(C, s.levels, 1, q)
        /\ p \in 0..EntryCount(w) /\ q \in 0..p /\ s.levels \in Seq(Seq(Bodies(C)))
        /\ s.level \in 1..(Len(s.levels) + 1) /\ Deep(w, Len(s.levels) - 1)
    BY <1>1 DEF WantsChunk, Stage
  <2>2. s.wanted.kind = "chunk"
    <3>1. EntriesOf[w][p + 1] \in Entries(w)
      BY <2>1, WindowMoves
    <3>2. \E d : s.wanted = Chunk(d)
      BY <2>1, <3>1 DEF Entries
    <3>3. QED  BY <3>2 DEF Chunk
  <2>3. t = Proceed(w, u)
    BY <2>2, AdvanceCases
  <2>4. u.levels = s.levels /\ u.level = 1 /\ Stage(w, u, C, a, q)
    BY <2>1, MoveKeeps
  <2> HIDE DEF t, u, a
  <2>5. u.level <= Len(u.levels) /\ Stacked(C, u.levels, u.level, q)
    <3>1. 1 <= Len(s.levels)
      BY DEF Stage
    <3>2. QED  BY <2>1, <2>4, <3>1
  <2>6. t.at = "put" /\ Stage(w, t, C, a, q) /\ Wants(w, t, C, a, q)
    BY <2>3, <2>4, <2>5, ProceedWants
  <2>7. Bodies(C) \subseteq Bodies(C) \cup {s.wanted} /\ C \subseteq C
    OBVIOUS
  <2>8. a = p + 1 /\ EntriesOf[w][a].digest = s.wanted /\ p < EntryCount(w)
    BY <2>1 DEF a
  <2>9. Onward(w, s, t, C, p)
    BY <2>6, <2>7, <2>8, Zenon DEF Onward
  <2>10. QED  BY <2>6, <2>9 DEF t
<1>2. CASE WantsPage(w, s, C, p, q)
  BY <1>2, PageOnward
<1>3. CASE WantsTop(w, s, C, p)
  <2>1. PICK h \in Nat \ {0} : Covers(w, C, s.wanted, h, 0, p) /\ Deep(w, h)
    BY <1>3 DEF WantsTop
  <2> DEFINE D == With(C, s.wanted, h, 0, p)
  <2>2. IsCover(w, D) /\ Bodies(D) = Bodies(C) \cup {s.wanted} /\ C \subseteq D /\ <<s.wanted, h, 0, p>> \in D
    BY <2>1, CoverAdd
  <2>3. s.wanted.kind = "children"
    <3>1. \E rows : s.wanted = Node(rows)
      BY <2>1 DEF Covers
    <3>2. QED  BY <3>1 DEF Node
  <2>4. s.into = 0 /\ p = EntryCount(w)
    BY <1>3 DEF WantsTop
  <2>5. t = Putting(s, Root(StoreOf[w].head, s.wanted), 0)
    BY <2>3, <2>4, AdvanceCases
  <2> HIDE DEF t, D
  <2>6. Stage(w, s, D, p, q)
    BY <2>2, StageMore
  <2>7. t.at = "put" /\ t.wanted = Root(StoreOf[w].head, s.wanted) /\ Stage(w, t, D, p, q)
    BY <2>5, <2>6, PuttingKeeps
  <2>8. WantsRoot(w, t, D, p)
    BY <2>1, <2>2, <2>4, <2>7, Zenon DEF WantsRoot
  <2>9. Wants(w, t, D, p, q)
    BY <2>8 DEF Wants
  <2>10. Onward(w, s, t, C, p)
    BY <2>2, <2>7, <2>9, Zenon DEF Onward
  <2>11. QED  BY <2>7, <2>10 DEF t
<1>4. CASE WantsRoot(w, s, C, p)
  <2>1. s.wanted.kind = "root"
    <3>1. \E index : s.wanted = Root(StoreOf[w].head, index)
      BY <1>4 DEF WantsRoot
    <3>2. QED  BY <3>1 DEF Root
  <2>2. t = [s EXCEPT !.at = "sealed"]
    BY <2>1, AdvanceCases
  <2>3. QED  BY <1>4, <2>2
<1>5. QED  BY <1>1, <1>2, <1>3, <1>4 DEF Wants

-----------------------------------------------------------------------------
(* The objects.                                                            *)

\* An object is as its key says unless somebody else touched it.
Good(key) == Intact(key) \/ key \in tampered

Histories == \A key : key \notin tampered => HistoryOf(key) \in {<<>>, <<"named">>}

\* What is stored and verified of a store: pages, and the chunks of p entries.
Stored(w, C, p) ==
  /\ \A body \in Bodies(C) : Good(body)
  /\ \A k \in 1..p : Good(EntriesOf[w][k].digest)

Underway(w, s) ==
  \E C : \E p, q : IsCover(w, C) /\ Stage(w, s, C, p, q) /\ Wants(w, s, C, p, q) /\ Stored(w, C, p)

\* root leads to every entry of the store of w by pages of the cover.
Leads(w, C, root, index, h) ==
  /\ IsCover(w, C) /\ root = Root(StoreOf[w].head, index)
  /\ h \in Nat /\ <<index, h, 0, EntryCount(w)>> \in C /\ Deep(w, h)

Sealed(w, root) ==
  \E C : \E index, h : Leads(w, C, root, index, h) /\ Stored(w, C, EntryCount(w)) /\ Good(root)

SealInv(w, s) ==
  /\ s.at \in {"idle", "put", "verify", "refused", "sealed"}
  /\ s.at \in {"put", "verify"} => Underway(w, s)
  /\ s.at = "verify" => Good(s.wanted)
  /\ s.at = "refused" => s.wanted \in tampered
  /\ s.at = "sealed" => Sealed(w, s.wanted)

Objects ==
  /\ DOMAIN seal = Writers
  /\ Histories
  /\ \A w \in Writers : SealInv(w, seal[w])

\* Nothing good is spoilt and nothing tampered with is forgotten.
Kept ==
  /\ tampered \subseteq tampered'
  /\ \A key : Good(key) => Good(key)'

\* What an unconditional version does to the histories.
LEMMA AppendedHistory ==
  ASSUME NEW key, NEW version, versions' = Appended(key, version)
  PROVE  /\ HistoryOf(key)' = Append(HistoryOf(key), version)
         /\ \A k : k # key => HistoryOf(k)' = HistoryOf(k)
BY DEF HistoryOf, Appended, WithHistory

\* A conditional put leaves every object but an absent one alone.
LEMMA PutHistory ==
  ASSUME NEW key, versions' = PutIfAbsent(key)
  PROVE  /\ \A k : k # key => HistoryOf(k)' = HistoryOf(k)
         /\ Intact(key) => Intact(key)'
         /\ HistoryOf(key) = <<>> => Intact(key)'
<1>1. CASE Current(key)
  <2>1. versions' = versions
    BY <1>1 DEF PutIfAbsent
  <2>2. \A k : HistoryOf(k)' = HistoryOf(k)
    BY <2>1 DEF HistoryOf
  <2>3. HistoryOf(key) # <<>>
    BY <1>1 DEF Current
  <2>4. QED  BY <2>2, <2>3 DEF Intact
<1>2. CASE ~Current(key)
  <2>1. versions' = Appended(key, "named")
    BY <1>2 DEF PutIfAbsent
  <2>2. /\ HistoryOf(key)' = Append(HistoryOf(key), "named")
        /\ \A k : k # key => HistoryOf(k)' = HistoryOf(k)
    BY <2>1, AppendedHistory
  <2>3. ~Intact(key)
    <3>1. <<"named">> # <<>> /\ Last(<<"named">>) = "named"
      BY DEF Last
    <3>2. QED  BY <1>2, <3>1 DEF Intact, Current
  <2>4. Append(<<>>, "named") = <<"named">>
    OBVIOUS
  <2>5. QED  BY <2>2, <2>3, <2>4 DEF Intact
<1>3. QED  BY <1>1, <1>2

\* A conditional put spoils nothing.
LEMMA PutKept ==
  ASSUME NEW key, versions' = PutIfAbsent(key), UNCHANGED tampered, Histories
  PROVE  Kept /\ Histories' /\ Good(key)'
<1>1. ASSUME NEW k, Good(k)  PROVE Good(k)'
  <2>1. CASE k \in tampered
    BY <2>1 DEF Good
  <2>2. CASE Intact(k)
    <3>1. CASE k = key
      <4>1. Intact(k)'
        BY <2>2, <3>1, PutHistory
      <4>2. QED  BY <4>1 DEF Good
    <3>2. CASE k # key
      <4>1. HistoryOf(k)' = HistoryOf(k)
        BY <3>2, PutHistory
      <4>2. QED  BY <2>2, <4>1 DEF Good, Intact
    <3>3. QED  BY <3>1, <3>2
  <2>3. QED  BY <1>1, <2>1, <2>2 DEF Good
<1>2. ASSUME key \notin tampered  PROVE Intact(key)'
  <2>1. HistoryOf(key) = <<>> \/ Intact(key)
    BY <1>2 DEF Histories, Intact
  <2>2. QED  BY <2>1, PutHistory
<1>3. ASSUME NEW k, k \notin tampered'  PROVE HistoryOf(k)' \in {<<>>, <<"named">>}
  <2>1. k \notin tampered
    BY <1>3
  <2>2. CASE k = key
    BY <1>2, <2>1, <2>2 DEF Intact
  <2>3. CASE k # key
    <3>1. HistoryOf(k)' = HistoryOf(k)
      BY <2>3, PutHistory
    <3>2. QED  BY <2>1, <3>1 DEF Histories
  <2>4. QED  BY <2>2, <2>3
<1>4. Good(key)'
  BY <1>2 DEF Good
<1>5. Histories'
  BY <1>3 DEF Histories
<1>6. QED  BY <1>1, <1>4, <1>5 DEF Kept

\* Tampering only takes from what is said of untouched objects.
LEMMA TamperKept ==
  ASSUME NEW key, Tamper(key), Histories
  PROVE  Kept /\ Histories'
<1>1. (\E history : versions' = WithHistory(key, history)) /\ tampered' = tampered \cup {key}
  BY DEF Tamper
<1>2. \A k : k # key => HistoryOf(k)' = HistoryOf(k)
  BY <1>1 DEF HistoryOf, WithHistory
<1>3. ASSUME NEW k, Good(k)  PROVE Good(k)'
  <2>1. CASE k \in tampered'
    BY <2>1 DEF Good
  <2>2. CASE k \notin tampered'
    <3>1. k # key /\ Intact(k)
      BY <1>1, <1>3, <2>2 DEF Good
    <3>2. HistoryOf(k)' = HistoryOf(k)
      BY <1>2, <3>1
    <3>3. QED  BY <3>1, <3>2 DEF Good, Intact
  <2>3. QED  BY <2>1, <2>2
<1>4. ASSUME NEW k, k \notin tampered'  PROVE HistoryOf(k)' \in {<<>>, <<"named">>}
  <2>1. k \notin tampered /\ k # key
    BY <1>1, <1>4
  <2>2. HistoryOf(k)' = HistoryOf(k)
    BY <1>2, <2>1
  <2>3. QED  BY <2>1, <2>2 DEF Histories
<1>5. Histories'
  BY <1>4 DEF Histories
<1>6. QED  BY <1>1, <1>3, <1>5 DEF Kept

\* Steps that touch no object.
LEMMA StillKept ==
  ASSUME UNCHANGED <<versions, tampered>>, Histories
  PROVE  Kept /\ Histories'
<1>1. \A k : HistoryOf(k)' = HistoryOf(k)
  BY DEF HistoryOf
<1>2. \A k : Good(k) => Good(k)'
  BY <1>1 DEF Good, Intact
<1>3. Histories'
  BY <1>1 DEF Histories
<1>4. QED  BY <1>2, <1>3 DEF Kept

\* What is stored stays stored.
LEMMA StoredStays ==
  ASSUME NEW w, NEW C, NEW p, Kept, Stored(w, C, p)
  PROVE  Stored(w, C, p)'
BY DEF Kept, Stored

\* A sealed snapshot stays one.
LEMMA SealedStays ==
  ASSUME NEW w, NEW root, Kept, Sealed(w, root)
  PROVE  Sealed(w, root)'
<1>1. PICK C, index, h : Leads(w, C, root, index, h) /\ Stored(w, C, EntryCount(w)) /\ Good(root)
  BY Zenon DEF Sealed
<1>2. Stored(w, C, EntryCount(w))' /\ Good(root)'
  <2>1. Stored(w, C, EntryCount(w))'
    BY <1>1, StoredStays
  <2>2. Good(root)'
    BY <1>1 DEF Kept
  <2>3. QED  BY <2>1, <2>2
<1>3. QED  BY <1>1, <1>2, Zenon DEF Sealed

\* A seal that does not move keeps what is said of it.
LEMMA SealStays ==
  ASSUME NEW w, NEW s, Kept, SealInv(w, s)
  PROVE  SealInv(w, s)'
<1>1. ASSUME Underway(w, s)  PROVE Underway(w, s)'
  <2>1. PICK C, p, q : IsCover(w, C) /\ Stage(w, s, C, p, q) /\ Wants(w, s, C, p, q) /\ Stored(w, C, p)
    BY <1>1, Zenon DEF Underway
  <2>2. Stored(w, C, p)'
    BY <2>1, StoredStays
  <2>3. QED  BY <2>1, <2>2, Zenon DEF Underway
<1>2. Good(s.wanted) => Good(s.wanted)'
  BY DEF Kept
<1>3. Sealed(w, s.wanted) => Sealed(w, s.wanted)'
  BY SealedStays
<1>4. tampered \subseteq tampered'
  BY DEF Kept
<1>5. QED  BY <1>1, <1>2, <1>3, <1>4 DEF SealInv

\* What is wanted does not depend on where the seal is with it.
LEMMA AtKeeps ==
  ASSUME NEW w \in Writers, NEW C, NEW p, NEW q, NEW s, Stage(w, s, C, p, q), Wants(w, s, C, p, q), NEW at
  PROVE  LET t == [s EXCEPT !.at = at] IN
         t.at = at /\ t.wanted = s.wanted /\ Stage(w, t, C, p, q) /\ Wants(w, t, C, p, q)
<1> DEFINE t == [s EXCEPT !.at = at]
           r == Sealer(at, s.wanted, s.into, Todo(w, p), Rows(w, q, p), s.levels, s.level)
<1>1. s = Sealer(s.at, s.wanted, s.into, Todo(w, p), Rows(w, q, p), s.levels, s.level)
  BY DEF Stage
<1>2. t = r
  <2>1. ASSUME NEW a, NEW b, NEW c, NEW d, NEW e, NEW f, NEW g
        PROVE  [Sealer(a, b, c, d, e, f, g) EXCEPT !.at = at] = Sealer(at, b, c, d, e, f, g)
    BY DEF Sealer
  <2> DEFINE x == Sealer(s.at, s.wanted, s.into, Todo(w, p), Rows(w, q, p), s.levels, s.level)
  <2>2. [x EXCEPT !.at = at] = r
    BY <2>1
  <2> HIDE DEF x, r
  <2>3. s = x
    BY <1>1 DEF x
  <2>4. QED  BY <2>2, <2>3
<1>3. /\ r.at = at /\ r.wanted = s.wanted /\ r.into = s.into /\ r.levels = s.levels /\ r.level = s.level
  BY DEF Sealer
<1>4. r = Sealer(r.at, r.wanted, r.into, Todo(w, p), Rows(w, q, p), r.levels, r.level)
  <2> HIDE DEF r
  <2>1. QED  BY <1>3 DEF r
<1> HIDE DEF t, r
<1>5. Stage(w, t, C, p, q)
  BY <1>2, <1>3, <1>4 DEF Stage
<1>6. t.wanted = s.wanted /\ t.into = s.into /\ t.levels = s.levels /\ t.level = s.level
  BY <1>2, <1>3
<1>7. Wants(w, t, C, p, q)
  <2>1. WantsChunk(w, s, C, p, q) => WantsChunk(w, t, C, p, q)
    BY <1>6 DEF WantsChunk
  <2>2. WantsPage(w, s, C, p, q) => WantsPage(w, t, C, p, q)
    BY <1>6 DEF WantsPage
  <2>3. WantsTop(w, s, C, p) => WantsTop(w, t, C, p)
    BY <1>6 DEF WantsTop
  <2>4. WantsRoot(w, s, C, p) => WantsRoot(w, t, C, p)
    BY <1>6 DEF WantsRoot
  <2>5. QED  BY <2>1, <2>2, <2>3, <2>4 DEF Wants
<1>8. QED  BY <1>2, <1>3, <1>5, <1>6, <1>7 DEF t

\* One seal moves, in the way its own step says.
LEMMA OneSeal ==
  ASSUME NEW w \in Writers, NEW s, Objects, Kept, Histories', seal' = [seal EXCEPT ![w] = s], SealInv(w, s)'
  PROVE  Objects'
<1>1. DOMAIN seal = Writers /\ \A u \in Writers : SealInv(u, seal[u])
  BY DEF Objects
<1>2. DOMAIN seal' = Writers /\ seal'[w] = s /\ \A u \in Writers : u # w => seal'[u] = seal[u]
  BY <1>1
<1>3. ASSUME NEW u \in Writers  PROVE SealInv(u, seal[u])'
  <2>1. CASE u = w
    BY <1>2, <2>1 DEF SealInv, Underway, Sealed, Stored, Good, Intact, HistoryOf
  <2>2. CASE u # w
    <3> DEFINE x == seal[u]
    <3>1. seal'[u] = seal[u] /\ SealInv(u, seal[u])
      BY <1>1, <1>2, <2>2
    <3>2. ASSUME NEW y, SealInv(u, y)  PROVE SealInv(u, y)'
      BY <3>2, SealStays
    <3>3. \A y : SealInv(u, y) => SealInv(u, y)'
      BY <3>2
    <3>4. QED  BY <3>1, <3>3 DEF SealInv, Underway, Sealed, Stored, Good, Intact, HistoryOf
  <2>3. QED  BY <2>1, <2>2
<1>4. QED  BY <1>2, <1>3 DEF Objects

\* A seal that begins wants the first body of its store.
LEMMA BeginWants ==
  ASSUME NEW w \in Writers
  PROVE  LET t == Proceed(w, [at |-> "begin", wanted |-> None, into |-> 0, todo |-> EntriesOf[w],
                              page |-> <<>>, levels |-> << <<>> >>, level |-> 1])
         IN t.at = "put" /\ Underway(w, t)
<1> DEFINE s == [at |-> "begin", wanted |-> None, into |-> 0, todo |-> EntriesOf[w],
                 page |-> <<>>, levels |-> << <<>> >>, level |-> 1]
           L == EntryCount(w)
<1>1. IsCover(w, {}) /\ Bodies({}) = {}
  BY Zenon DEF IsCover, Bodies
<1>2. << <<>> >> \in Seq(Seq(Bodies({}))) /\ Len(<< <<>> >>) = 1 /\ Stacked({}, << <<>> >>, 1, 0)
  BY StackedStart
<1>3. L \in Nat /\ 0 \in 0..L /\ 0 \in 0..0
  BY SomeEntries
<1>4. Todo(w, 0) = EntriesOf[w] /\ Rows(w, 0, 0) = <<>>
  <2>1. Rows(w, 0, 0) = <<>>
    BY <1>3, Windows
  <2>2. EntriesOf[w] \in Seq(Entries(w)) /\ Len(EntriesOf[w]) = L
    BY EntryPlaces DEF EntryCount
  <2> DEFINE e == EntriesOf[w]
  <2> HIDE DEF e
  <2>3. SubSeq(e, 1, Len(e)) = e
    BY <2>2, SubSeqFull DEF e
  <2>4. Todo(w, 0) = SubSeq(e, 1, L)
    <3>1. Todo(w, 0) = SubSeq(e, 0 + 1, L)
      BY DEF Todo, Rows, e
    <3>2. 0 + 1 = 1
      OBVIOUS
    <3>3. QED  BY <3>1, <3>2
  <2>5. QED  BY <2>1, <2>2, <2>3, <2>4 DEF e
<1>5. /\ s.at = "begin" /\ s.wanted = None /\ s.into = 0 /\ s.levels = << <<>> >> /\ s.level = 1
      /\ s = Sealer(s.at, s.wanted, s.into, EntriesOf[w], <<>>, s.levels, s.level)
  BY DEF Sealer
<1> HIDE DEF s, L
<1>6. Stage(w, s, {}, 0, 0)
  <2>1. s = Sealer(s.at, s.wanted, s.into, Todo(w, 0), Rows(w, 0, 0), s.levels, s.level)
    BY <1>4, <1>5
  <2>2. Deep(w, Len(s.levels) - 1)
    BY <1>2, <1>5 DEF Deep
  <2>3. Len(s.levels) >= 1 /\ s.level \in 1..(Len(s.levels) + 1) /\ ~(s.level > 1) /\ s.levels \in Seq(Seq(Bodies({})))
    BY <1>2, <1>5
  <2>4. QED  BY <1>3, <2>1, <2>2, <2>3 DEF Stage, L
<1>7. s.level <= Len(s.levels) /\ Stacked({}, s.levels, s.level, 0)
  BY <1>2, <1>5
<1> DEFINE t == Proceed(w, s)
<1>8. t.at = "put" /\ Stage(w, t, {}, 0, 0) /\ Wants(w, t, {}, 0, 0)
  BY <1>1, <1>6, <1>7, ProceedWants
<1>9. Stored(w, {}, 0)
  BY <1>1 DEF Stored
<1> HIDE DEF t
<1>10. Underway(w, t)
  BY <1>1, <1>8, <1>9, Zenon DEF Underway
<1>11. QED  BY <1>8, <1>10 DEF t, s

\* A seal whose body was verified goes on, or is done.
LEMMA VerifiedSeal ==
  ASSUME NEW w \in Writers, NEW s, Underway(w, s), Intact(s.wanted)
  PROVE  SealInv(w, Advance(w, s))
<1>1. PICK C, p, q : IsCover(w, C) /\ Stage(w, s, C, p, q) /\ Wants(w, s, C, p, q) /\ Stored(w, C, p)
  BY Zenon DEF Underway
<1> DEFINE t == Advance(w, s)
<1>2. \/ t.at = "put" /\ Onward(w, s, t, C, p)
      \/ WantsRoot(w, s, C, p) /\ t = [s EXCEPT !.at = "sealed"]
  BY <1>1, AdvanceWants
<1>3. Good(s.wanted) /\ p \in Nat
  BY <1>1, SomeEntries DEF Good, Stage
<1> HIDE DEF t
<1>4. CASE t.at = "put" /\ Onward(w, s, t, C, p)
  <2>1. PICK D, a, b :
          /\ IsCover(w, D) /\ C \subseteq D /\ Bodies(D) \subseteq Bodies(C) \cup {s.wanted}
          /\ Stage(w, t, D, a, b) /\ Wants(w, t, D, a, b)
          /\ a = p \/ (a = p + 1 /\ p < EntryCount(w) /\ EntriesOf[w][a].digest = s.wanted)
    BY <1>4, Zenon DEF Onward
  <2>2. \A body \in Bodies(D) : Good(body)
    BY <1>1, <1>3, <2>1 DEF Stored
  <2>3. ASSUME NEW k \in 1..a  PROVE Good(EntriesOf[w][k].digest)
    <3>1. k \in 1..p \/ (k = a /\ EntriesOf[w][a].digest = s.wanted)
      BY <1>3, <2>1
    <3>2. QED  BY <1>1, <1>3, <3>1 DEF Stored
  <2>4. Stored(w, D, a)
    BY <2>2, <2>3 DEF Stored
  <2>5. Underway(w, t)
    BY <2>1, <2>4, Zenon DEF Underway
  <2>6. QED  BY <1>4, <2>5 DEF SealInv, t
<1>5. CASE WantsRoot(w, s, C, p) /\ t = [s EXCEPT !.at = "sealed"]
  <2>1. t.at = "sealed" /\ t.wanted = s.wanted
    BY <1>1, <1>5, AtKeeps
  <2>2. PICK index, h : /\ h \in Nat /\ s.wanted = Root(StoreOf[w].head, index)
                        /\ <<index, h, 0, p>> \in C /\ Deep(w, h) /\ p = EntryCount(w)
    BY <1>5, Zenon DEF WantsRoot
  <2>3. Leads(w, C, t.wanted, index, h)
    BY <1>1, <2>1, <2>2 DEF Leads
  <2>4. Stored(w, C, EntryCount(w)) /\ Good(t.wanted)
    BY <1>1, <1>3, <2>1, <2>2
  <2>5. Sealed(w, t.wanted)
    BY <2>3, <2>4, Zenon DEF Sealed
  <2>6. QED  BY <2>1, <2>5 DEF SealInv, t
<1>6. QED  BY <1>2, <1>4, <1>5

\* Init has no objects and no seals.
LEMMA ObjectsInit == Init => Objects
<1>1. SUFFICES ASSUME Init  PROVE Objects
  OBVIOUS
<1>2. versions = <<>> /\ seal = [w \in Writers |-> Idle]
  BY <1>1 DEF Init
<1>3. \A key : HistoryOf(key) = <<>>
  BY <1>2 DEF HistoryOf
<1>4. Histories
  BY <1>3 DEF Histories
<1>5. \A w \in Writers : SealInv(w, seal[w])
  BY <1>2 DEF SealInv, Idle
<1>6. QED  BY <1>2, <1>4, <1>5 DEF Objects

\* A seal begins.
LEMMA ObjectsBegin ==
  ASSUME Objects, NEW w \in Writers, BeginSeal(w)
  PROVE  Objects' /\ Kept
<1>1. PICK s : s = Proceed(w, [at |-> "begin", wanted |-> None, into |-> 0, todo |-> EntriesOf[w],
                               page |-> <<>>, levels |-> << <<>> >>, level |-> 1])
  OBVIOUS
<1>2. seal' = [seal EXCEPT ![w] = s] /\ UNCHANGED <<versions, tampered>>
  BY <1>1 DEF BeginSeal
<1>3. Kept /\ Histories'
  BY <1>2, StillKept DEF Objects
<1>4. s.at = "put" /\ Underway(w, s)
  BY <1>1, BeginWants
<1>5. SealInv(w, s)
  BY <1>4 DEF SealInv
<1>6. SealInv(w, s)'
  BY <1>3, <1>5, SealStays
<1>7. QED  BY <1>2, <1>3, <1>6, OneSeal

\* A put lands.
LEMMA ObjectsPut ==
  ASSUME Objects, NEW w \in Writers, Put(w)
  PROVE  Objects' /\ Kept
<1>1. PICK s, t : s = seal[w] /\ t = [s EXCEPT !.at = "verify"]
  OBVIOUS
<1>2. /\ seal' = [seal EXCEPT ![w] = t] /\ versions' = PutIfAbsent(s.wanted) /\ UNCHANGED tampered
      /\ s.at = "put"
  BY <1>1 DEF Put
<1>3. Kept /\ Histories' /\ Good(s.wanted)'
  BY <1>2, PutKept DEF Objects
<1>4. Underway(w, s)
  BY <1>1, <1>2 DEF Objects, SealInv
<1>5. PICK C, p, q : IsCover(w, C) /\ Stage(w, s, C, p, q) /\ Wants(w, s, C, p, q) /\ Stored(w, C, p)
  BY <1>4, Zenon DEF Underway
<1>6. t.at = "verify" /\ t.wanted = s.wanted /\ Stage(w, t, C, p, q) /\ Wants(w, t, C, p, q)
  BY <1>1, <1>5, AtKeeps
<1>7. Stored(w, C, p)'
  BY <1>3, <1>5, StoredStays
<1>8. Underway(w, t)'
  BY <1>5, <1>6, <1>7, Zenon DEF Underway
<1>9. Good(t.wanted)'
  BY <1>3, <1>6
<1>10. SealInv(w, t)'
  BY <1>6, <1>8, <1>9 DEF SealInv
<1>11. QED  BY <1>2, <1>3, <1>10, OneSeal

\* What was put is verified.
LEMMA ObjectsVerify ==
  ASSUME Objects, NEW w \in Writers, Verify(w)
  PROVE  Objects' /\ Kept
<1>1. PICK s : s = seal[w]
  OBVIOUS
<1>2. PICK t : t = IF Intact(s.wanted) THEN Advance(w, s) ELSE [s EXCEPT !.at = "refused"]
  OBVIOUS
<1>3. seal' = [seal EXCEPT ![w] = t] /\ UNCHANGED <<versions, tampered>> /\ s.at = "verify"
  BY <1>1, <1>2 DEF Verify
<1>4. Kept /\ Histories'
  BY <1>3, StillKept DEF Objects
<1>5. Underway(w, s) /\ Good(s.wanted)
  BY <1>1, <1>3 DEF Objects, SealInv
<1>6. SealInv(w, t)
  <2>1. CASE Intact(s.wanted)
    <3>1. t = Advance(w, s)
      BY <1>2, <2>1
    <3>2. SealInv(w, Advance(w, s))
      BY <1>5, <2>1, VerifiedSeal
    <3>3. QED  BY <3>1, <3>2
  <2>2. CASE ~Intact(s.wanted)
    <3>1. t = [s EXCEPT !.at = "refused"] /\ s.wanted \in tampered
      BY <1>2, <1>5, <2>2 DEF Good
    <3>2. PICK C, p, q : IsCover(w, C) /\ Stage(w, s, C, p, q) /\ Wants(w, s, C, p, q) /\ Stored(w, C, p)
      BY <1>5, Zenon DEF Underway
    <3>3. t.at = "refused" /\ t.wanted = s.wanted
      BY <3>1, <3>2, AtKeeps
    <3>4. QED  BY <3>1, <3>3 DEF SealInv
  <2>3. QED  BY <2>1, <2>2
<1>7. SealInv(w, t)'
  BY <1>4, <1>6, SealStays
<1>8. QED  BY <1>3, <1>4, <1>7, OneSeal

\* A request fails.
LEMMA ObjectsRaise ==
  ASSUME Objects, NEW w \in Writers, Raise(w)
  PROVE  Objects' /\ Kept
<1>1. seal' = [seal EXCEPT ![w] = Idle] /\ UNCHANGED <<versions, tampered>>
  BY DEF Raise
<1>2. Kept /\ Histories'
  BY <1>1, StillKept DEF Objects
<1>3. SealInv(w, Idle)'
  BY DEF SealInv, Idle
<1>4. QED  BY <1>1, <1>2, <1>3, OneSeal

\* The seals stand still.
LEMMA SealsStill ==
  ASSUME Objects, Kept, Histories', UNCHANGED seal
  PROVE  Objects'
<1>1. DOMAIN seal = Writers /\ \A u \in Writers : SealInv(u, seal[u])
  BY DEF Objects
<1>2. ASSUME NEW y, NEW u, SealInv(u, y)  PROVE SealInv(u, y)'
  BY <1>2, SealStays
<1>3. \A u, y : SealInv(u, y) => SealInv(u, y)'
  BY <1>2
<1>4. \A u \in Writers : SealInv(u, seal[u])'
  BY <1>1, <1>3 DEF SealInv, Underway, Sealed, Stored, Good, Intact, HistoryOf
<1>5. QED  BY <1>1, <1>4 DEF Objects

\* The reader reads only.
Reads == (\E w \in Writers : BeginOpen(w)) \/ ReadRoot \/ ReadIndex \/ ReadEntry \/ Opened

\* Every step keeps the objects.
LEMMA ObjectsNext ==
  ASSUME Objects, [Next]_vars
  PROVE  Objects' /\ Kept
<1>1. CASE \E w \in Writers : BeginSeal(w) \/ Put(w) \/ Verify(w) \/ Raise(w)
  BY <1>1, ObjectsBegin, ObjectsPut, ObjectsVerify, ObjectsRaise
<1>2. CASE \E key \in late : Land(key)
  <2>1. PICK key : versions' = PutIfAbsent(key) /\ UNCHANGED <<tampered, seal>>
    BY <1>2 DEF Land
  <2>2. Kept /\ Histories'
    BY <2>1, PutKept DEF Objects
  <2>3. QED  BY <2>1, <2>2, SealsStill
<1>3. CASE \E key \in Wanted \cup DOMAIN versions : Tamper(key)
  <2>1. PICK key : Tamper(key)
    BY <1>3
  <2>2. Kept /\ Histories' /\ UNCHANGED seal
    BY <2>1, TamperKept DEF Objects, Tamper
  <2>3. QED  BY <2>2, SealsStill
<1>4. CASE Reads \/ UNCHANGED vars
  <2>1. UNCHANGED <<versions, tampered, seal>>
    BY <1>4 DEF Reads, BeginOpen, ReadRoot, ReadIndex, ReadEntry, Opened, vars
  <2>2. Kept /\ Histories'
    BY <2>1, StillKept DEF Objects
  <2>3. QED  BY <2>1, <2>2, SealsStill
<1>5. QED  BY <1>1, <1>2, <1>3, <1>4 DEF Next, Reads

-----------------------------------------------------------------------------
(* What the reader has still to read.                                      *)

Items(w, C) == [digest : Bodies(C), depth : Nat] \cup [entry : Entries(w)]

\* An item stands for the entries i+1 to j; pages are read no deeper than top.
Item(w, C, top, item, i, j) ==
  \/ \E body \in Bodies(C) : \E depth, h \in Nat :
       item = IndexItem(body, depth) /\ <<body, h, i, j>> \in C /\ depth + h <= top
  \/ j = i + 1 /\ j \in 1..EntryCount(w) /\ item = EntryItem(EntriesOf[w][j])

Lined(w, C, top, todo, i, j) ==
  /\ todo \in Seq(Items(w, C))
  /\ \E cut \in [0..Len(todo) -> Nat] :
       /\ cut[0] = i
       /\ cut[Len(todo)] = j
       /\ \A k \in 1..Len(todo) : Item(w, C, top, todo[k], cut[k - 1], cut[k])

\* The first item and the others.
LEMMA LinedTail ==
  ASSUME NEW w, NEW C, NEW top, NEW todo, NEW i, NEW j, Lined(w, C, top, todo, i, j), todo # <<>>
  PROVE  /\ Head(todo) \in Items(w, C)
         /\ \E m \in Nat : Item(w, C, top, Head(todo), i, m) /\ Lined(w, C, top, Tail(todo), m, j)
<1> DEFINE n == Len(todo)
           rest == Tail(todo)
           r == Len(rest)
<1>1. todo \in Seq(Items(w, C))
  BY DEF Lined
<1>2. /\ n \in Nat \ {0} /\ Head(todo) = todo[1] /\ rest \in Seq(Items(w, C)) /\ r = n - 1
      /\ \A k \in 1..r : rest[k] = todo[k + 1]
      /\ Head(todo) \in Items(w, C)
  BY <1>1, HeadTailProperties
<1>3. PICK cut \in [0..n -> Nat] :
       /\ cut[0] = i
       /\ cut[n] = j
       /\ \A k \in 1..n : Item(w, C, top, todo[k], cut[k - 1], cut[k])
  BY DEF Lined
<1> HIDE DEF n, rest, r
<1> DEFINE new == [k \in 0..r |-> cut[k + 1]]
<1>4. new \in [0..r -> Nat] /\ new[0] = cut[1] /\ new[r] = j /\ cut[1] \in Nat /\ 1 \in 1..n /\ 1 - 1 = 0
  BY <1>2, <1>3
<1>5. ASSUME NEW k \in 1..r  PROVE Item(w, C, top, rest[k], new[k - 1], new[k])
  <2>1. k + 1 \in 1..n /\ (k + 1) - 1 = k /\ new[k - 1] = cut[k] /\ new[k] = cut[k + 1] /\ rest[k] = todo[k + 1]
    BY <1>2
  <2>2. Item(w, C, top, todo[k + 1], cut[(k + 1) - 1], cut[k + 1])
    BY <1>3, <2>1
  <2>3. QED  BY <2>1, <2>2
<1> HIDE DEF new
<1>6. Lined(w, C, top, rest, cut[1], j)
  BY <1>2, <1>4, <1>5, Zenon DEF Lined, r
<1>7. Item(w, C, top, Head(todo), i, cut[1])
  <2>1. Item(w, C, top, todo[1], cut[1 - 1], cut[1])
    BY <1>3, <1>4, Zenon
  <2>2. QED  BY <1>2, <1>3, <1>4, <2>1
<1>8. QED  BY <1>2, <1>4, <1>6, <1>7 DEF rest

\* Items after items.
LEMMA LinedConcat ==
  ASSUME NEW w, NEW C, NEW top, NEW a, NEW b, NEW i, NEW m, NEW j,
         Lined(w, C, top, a, i, m), Lined(w, C, top, b, m, j)
  PROVE  Lined(w, C, top, a \o b, i, j)
<1> DEFINE s == Len(a)
           t == Len(b)
           all == a \o b
           n == Len(all)
<1>1. a \in Seq(Items(w, C)) /\ b \in Seq(Items(w, C)) /\ s \in Nat /\ t \in Nat
  BY DEF Lined
<1>2. /\ all \in Seq(Items(w, C)) /\ n = s + t
      /\ \A k \in 1..s : all[k] = a[k]
      /\ \A k \in 1..t : all[s + k] = b[k]
  BY <1>1, ConcatPlaces
<1>3. PICK c \in [0..s -> Nat] :
       /\ c[0] = i
       /\ c[s] = m
       /\ \A k \in 1..s : Item(w, C, top, a[k], c[k - 1], c[k])
  BY DEF Lined
<1>4. PICK d \in [0..t -> Nat] :
       /\ d[0] = m
       /\ d[t] = j
       /\ \A k \in 1..t : Item(w, C, top, b[k], d[k - 1], d[k])
  BY DEF Lined
<1> HIDE DEF s, t, all, n
<1> DEFINE cut == [k \in 0..n |-> IF k <= s THEN c[k] ELSE d[k - s]]
<1>5. cut \in [0..n -> Nat] /\ cut[0] = i
  BY <1>1, <1>2, <1>3, <1>4
<1>6. cut[n] = j
  <2>1. CASE t = 0
    BY <1>1, <1>2, <1>3, <1>4, <2>1
  <2>2. CASE t # 0
    BY <1>1, <1>2, <1>4, <2>2
  <2>3. QED  BY <2>1, <2>2
<1>7. ASSUME NEW k \in 1..n  PROVE Item(w, C, top, all[k], cut[k - 1], cut[k])
  <2>1. CASE k <= s
    <3>1. k \in 1..s /\ cut[k - 1] = c[k - 1] /\ cut[k] = c[k]
      BY <1>1, <1>2, <2>1
    <3>2. QED  BY <1>2, <1>3, <3>1
  <2>2. CASE k > s
    <3> DEFINE l == k - s
    <3>1. l \in 1..t /\ s + l = k /\ cut[k] = d[l]
      BY <1>1, <1>2, <2>2
    <3>2. cut[k - 1] = d[l - 1]
      <4>1. CASE k - 1 = s
        <5>1. l - 1 = 0 /\ cut[k - 1] = c[s]
          BY <1>1, <1>2, <4>1
        <5>2. QED  BY <1>3, <1>4, <5>1
      <4>2. CASE k - 1 # s
        BY <1>1, <1>2, <2>2, <4>2
      <4>3. QED  BY <4>1, <4>2
    <3> HIDE DEF l
    <3>3. QED  BY <1>2, <1>4, <3>1, <3>2
  <2>3. QED  BY <1>1, <1>2, <2>1, <2>2
<1> HIDE DEF cut
<1>8. Lined(w, C, top, all, i, j)
  BY <1>2, <1>5, <1>6, <1>7, Zenon DEF Lined, n
<1>9. QED  BY <1>8 DEF all

\* Nothing stands for nothing.
LEMMA LinedNothing ==
  ASSUME NEW w, NEW C, NEW top, NEW i, NEW j, Lined(w, C, top, <<>>, i, j)
  PROVE  i = j
<1>1. Len(<<>>) = 0
  OBVIOUS
<1>2. QED  BY <1>1 DEF Lined

\* The items of the index of a store.
LEMMA LinedIndex ==
  ASSUME NEW w \in Writers, NEW C, NEW root, NEW index, NEW h, Leads(w, C, root, index, h)
  PROVE  Lined(w, C, h, <<IndexItem(index, 0)>>, 0, EntryCount(w))
<1> DEFINE L == EntryCount(w)
           x == IndexItem(index, 0)
           cut == [k \in 0..1 |-> IF k = 0 THEN 0 ELSE L]
<1>1. IsCover(w, C) /\ h \in Nat /\ <<index, h, 0, L>> \in C /\ L \in Nat
  BY SomeEntries DEF Leads
<1>2. index \in Bodies(C)
  BY <1>1, CoverMember
<1>3. x \in Items(w, C)
  BY <1>2 DEF Items, IndexItem
<1>4. Item(w, C, h, x, 0, L)
  <2>1. 0 + h <= h /\ 0 \in Nat
    BY <1>1
  <2>2. QED  BY <1>1, <1>2, <2>1, Zenon DEF Item
<1> HIDE DEF x, L
<1>5. <<x>> \in Seq(Items(w, C)) /\ Len(<<x>>) = 1 /\ <<x>>[1] = x
  BY <1>3
<1>6. /\ cut \in [0..1 -> Nat] /\ cut[0] = 0 /\ cut[1] = L
  BY <1>1
<1> HIDE DEF cut
<1>7. \A k \in 1..1 : Item(w, C, h, <<x>>[k], cut[k - 1], cut[k])
  <2>1. \A k \in 1..1 : k = 1 /\ k - 1 = 0
    OBVIOUS
  <2>2. QED  BY <1>4, <1>5, <1>6, <2>1
<1>8. Lined(w, C, h, <<x>>, 0, L)
  BY <1>5, <1>6, <1>7, Zenon DEF Lined
<1>9. QED  BY <1>8 DEF x, L

\* What a page of entries lists.
LEMMA LinedPage ==
  ASSUME NEW w \in Writers, NEW C, NEW top, NEW i, NEW j, Spans(w, Page(SubSeq(EntriesOf[w], i + 1, j)), 0, i, j)
  PROVE  LET rows == SubSeq(EntriesOf[w], i + 1, j)
         IN Lined(w, C, top, [k \in DOMAIN rows |-> EntryItem(rows[k])], i, j)
<1> DEFINE L == EntryCount(w)
           rows == Rows(w, i, j)
           todo == [k \in DOMAIN rows |-> EntryItem(rows[k])]
           n == j - i
           cut == [k \in 0..n |-> i + k]
<1>1. i \in Nat /\ j \in Nat /\ i < j /\ j <= L /\ L \in Nat /\ i \in 0..j /\ j \in 0..L
  BY SomeEntries DEF Spans
<1>2. rows \in Seq(Entries(w)) /\ Len(rows) = n /\ \A k \in 1..n : rows[k] = EntriesOf[w][i + k]
  BY <1>1, Windows
<1>3. n \in Nat /\ \A k \in 1..n : i + k \in 1..L /\ i + k = (i + (k - 1)) + 1
  BY <1>1
<1> HIDE DEF rows, n, L
<1>4. todo = [k \in 1..n |-> EntryItem(rows[k])]
  BY <1>2
<1>5. \A k \in 1..n : EntryItem(rows[k]) \in Items(w, C)
  BY <1>2 DEF Items, EntryItem
<1>6. todo \in Seq(Items(w, C)) /\ Len(todo) = n /\ \A k \in 1..n : todo[k] = EntryItem(EntriesOf[w][i + k])
  <2>1. ASSUME NEW x, x = [k \in 1..n |-> EntryItem(rows[k])]
        PROVE  x \in Seq(Items(w, C)) /\ Len(x) = n /\ \A k \in 1..n : x[k] = EntryItem(rows[k])
    BY <1>3, <1>5, <2>1
  <2> HIDE DEF todo
  <2>2. todo \in Seq(Items(w, C)) /\ Len(todo) = n /\ \A k \in 1..n : todo[k] = EntryItem(rows[k])
    BY <1>4, <2>1
  <2>3. QED  BY <1>2, <2>2
<1>7. cut \in [0..n -> Nat] /\ cut[0] = i /\ cut[n] = j
  BY <1>1, <1>3 DEF n
<1> HIDE DEF todo
<1>8. ASSUME NEW k \in 1..n  PROVE Item(w, C, top, todo[k], cut[k - 1], cut[k])
  <2>1. cut[k - 1] = i + (k - 1) /\ cut[k] = i + k
    BY <1>3
  <2>2. cut[k] = cut[k - 1] + 1 /\ cut[k] \in 1..EntryCount(w) /\ todo[k] = EntryItem(EntriesOf[w][cut[k]])
    BY <1>3, <1>6, <2>1 DEF L
  <2> HIDE DEF cut
  <2>3. QED  BY <2>2, Zenon DEF Item
<1> HIDE DEF cut
<1>9. Lined(w, C, top, todo, i, j)
  BY <1>6, <1>7, <1>8, Zenon DEF Lined
<1>10. QED  BY <1>9 DEF todo, rows, Rows

\* What a page of pages lists, one level deeper.
LEMMA LinedNode ==
  ASSUME NEW w \in Writers, NEW C, IsCover(w, C), NEW top \in Nat, NEW rows, NEW h \in Nat, h > 0, NEW i, NEW j,
         NEW depth \in Nat, depth + h <= top, Follows(C, rows, h - 1, i, j)
  PROVE  Lined(w, C, top, [k \in DOMAIN rows |-> IndexItem(rows[k], depth + 1)], i, j)
<1> DEFINE todo == [k \in DOMAIN rows |-> IndexItem(rows[k], depth + 1)]
           n == Len(rows)
           g == h - 1
           d == depth + 1
<1>1. g \in Nat /\ d \in Nat /\ d + g <= top
  OBVIOUS
<1>2. rows \in Seq(Bodies(C)) /\ n \in Nat /\ DOMAIN rows = 1..n /\ \A k \in 1..n : rows[k] \in Bodies(C)
  BY DEF Follows
<1>3. PICK cut \in [0..n -> Nat] :
        /\ cut[0] = i
        /\ cut[n] = j
        /\ \A k \in 1..n : <<rows[k], g, cut[k - 1], cut[k]>> \in C
  BY DEF Follows
<1> HIDE DEF n, g, d
<1>4. \A k \in 1..n : IndexItem(rows[k], d) \in Items(w, C)
  BY <1>1, <1>2 DEF Items, IndexItem
<1>5. todo = [k \in 1..n |-> IndexItem(rows[k], d)]
  BY <1>2 DEF d
<1>6. todo \in Seq(Items(w, C)) /\ Len(todo) = n /\ \A k \in 1..n : todo[k] = IndexItem(rows[k], d)
  BY <1>2, <1>4, <1>5
<1> HIDE DEF todo
<1>7. ASSUME NEW k \in 1..n  PROVE Item(w, C, top, todo[k], cut[k - 1], cut[k])
  <2>1. <<rows[k], g, cut[k - 1], cut[k]>> \in C /\ rows[k] \in Bodies(C) /\ todo[k] = IndexItem(rows[k], d)
    BY <1>2, <1>3, <1>6
  <2>2. QED  BY <1>1, <2>1, Zenon DEF Item
<1>8. Lined(w, C, top, todo, i, j)
  BY <1>3, <1>6, <1>7, Zenon DEF Lined
<1>9. QED  BY <1>8 DEF todo

-----------------------------------------------------------------------------
(* What the reader has restored.                                           *)

\* The first n chunks of a file.
Begun(w, k, n) ==
  [path |-> FileList(w)[k].path, chunks |-> SubSeq(FileList(w)[k].chunks, 1, n)]

\* After p entries m files are begun, all of them but the last whole.
RestoredTo(w, files, p) ==
  \E m \in 0..FileCount(w) :
    /\ m = 0 => p = 0
    /\ m > 0 => Ends(w)[m - 1] < p /\ p <= Ends(w)[m]
    /\ files = [k \in 1..m |-> IF k < m THEN FileList(w)[k] ELSE Begun(w, k, p - Ends(w)[m - 1])]

\* Ends tell files apart.
LEMMA EndsOrder ==
  ASSUME NEW w \in Writers, NEW i \in 0..FileCount(w), NEW j \in 0..FileCount(w)
  PROVE  /\ Ends(w)[i] < Ends(w)[j] => i < j
         /\ Ends(w)[i] <= Ends(w)[j] => i <= j
         /\ Ends(w)[i] \in Nat /\ Ends(w)[j] \in Nat /\ Ends(w)[0] = 0
<1>1. Ends(w) \in [0..FileCount(w) -> Nat] /\ Ends(w)[0] = 0 /\ FileCount(w) \in Nat
  BY EntryPlaces, SomeEntries DEF Places
<1>2. j < i => Ends(w)[j] < Ends(w)[i]
  BY EndsRise
<1>3. Ends(w)[i] \in Nat /\ Ends(w)[j] \in Nat
  BY <1>1
<1> DEFINE x == Ends(w)[i]  y == Ends(w)[j]
<1>4. i = j => x = y
  OBVIOUS
<1> HIDE DEF x, y
<1>5. (x < y => i < j) /\ (x <= y => i <= j)
  BY <1>1, <1>2, <1>3, <1>4 DEF x, y
<1>6. QED  BY <1>1, <1>3, <1>5 DEF x, y

\* The file that an entry belongs to.
LEMMA EntryFile ==
  ASSUME NEW w \in Writers, NEW p \in Nat, p < EntryCount(w)
  PROVE  \E k \in 1..FileCount(w) :
           /\ Ends(w)[k - 1] <= p /\ p < Ends(w)[k]
           /\ EntriesOf[w][p + 1] = EntryFor(w, k, (p - Ends(w)[k - 1]) + 1)
           /\ (p - Ends(w)[k - 1]) + 1 \in 1..Size(w, k)
           /\ Ends(w)[k] = Ends(w)[k - 1] + Size(w, k)
<1> DEFINE n == FileCount(w)
           c == Ends(w)
           T == {k \in 1..n : p < c[k]}
<1>1. n \in Nat \ {0} /\ EntryCount(w) \in Nat
  BY SomeEntries
<1>2. /\ c \in [0..n -> Nat] /\ c[0] = 0 /\ c[n] = EntryCount(w)
      /\ \A k \in 1..n :
           /\ c[k] = c[k - 1] + Size(w, k)
           /\ \A o \in 1..Size(w, k) : EntriesOf[w][c[k - 1] + o] = EntryFor(w, k, o)
  BY EntryPlaces DEF Places
<1> HIDE DEF n, c
<1>3. n \in T /\ T \subseteq Nat
  BY <1>1, <1>2
<1>4. PICK k \in T : \A l \in T : k <= l
  <2> HIDE DEF T
  <2>1. QED  BY <1>3, LeastExists
<1>5. k \in 1..n /\ p < c[k] /\ k - 1 \in 0..n /\ k - 1 \notin T
  BY <1>1, <1>4
<1>6. c[k - 1] <= p
  <2>1. CASE k = 1
    BY <1>2, <2>1
  <2>2. CASE k # 1
    <3>1. k - 1 \in 1..n
      BY <1>1, <1>5, <2>2
    <3>2. ~(p < c[k - 1])
      BY <1>5, <3>1
    <3>3. QED  BY <1>2, <1>5, <3>2
  <2>3. QED  BY <2>1, <2>2
<1> DEFINE o == (p - c[k - 1]) + 1
           z == Size(w, k)
<1>7. c[k] = c[k - 1] + z /\ c[k - 1] \in Nat /\ z \in Nat
  BY <1>2, <1>5, ListedFile DEF n
<1> HIDE DEF z
<1>8. o \in 1..z /\ c[k - 1] + o = p + 1
  BY <1>5, <1>6, <1>7
<1>9. EntriesOf[w][c[k - 1] + o] = EntryFor(w, k, o)
  <2> HIDE DEF o
  <2>1. QED  BY <1>2, <1>5, <1>8 DEF z
<1>10. EntriesOf[w][p + 1] = EntryFor(w, k, o)
  <2> HIDE DEF o
  <2>1. QED  BY <1>8, <1>9
<1>11. QED  BY <1>5, <1>6, <1>7, <1>8, <1>10 DEF n, c, z

\* The chunks of a listed file.
LEMMA BegunFile ==
  ASSUME NEW w \in Writers, NEW k \in 1..FileCount(w)
  PROVE  /\ Begun(w, k, Size(w, k)) = FileList(w)[k]
         /\ SubSeq(FileList(w)[k].chunks, 1, 1) = <<FileList(w)[k].chunks[1]>>
         /\ \A n \in 1..Size(w, k) :
              /\ Len(SubSeq(FileList(w)[k].chunks, 1, n)) = n
              /\ n > 1 => Append(SubSeq(FileList(w)[k].chunks, 1, n - 1), FileList(w)[k].chunks[n])
                            = SubSeq(FileList(w)[k].chunks, 1, n)
<1> DEFINE f == FileList(w)[k]
           c == f.chunks
           z == Size(w, k)
<1>1. f \in Files(w) /\ c \in Seq(Data(w)) /\ z \in Nat \ {0} /\ z = Len(c)
  BY ListedFile DEF Size
<1>2. f = [path |-> f.path, chunks |-> f.chunks]
  BY <1>1, StoreFacts
<1> HIDE DEF c, z
<1>3. SubSeq(c, 1, z) = c
  BY <1>1, SubSeqFull
<1>4. Begun(w, k, z) = f
  BY <1>2, <1>3 DEF Begun, c
<1>5. ASSUME NEW n \in 1..z
      PROVE  /\ SubSeq(c, 1, n) \in Seq(Data(w)) /\ Len(SubSeq(c, 1, n)) = n
             /\ \A i \in 1..n : SubSeq(c, 1, n)[i] = c[i]
  <2>1. n \in Int /\ 1 \in Int /\ \A i \in 1..n : c[i] \in Data(w)
    BY <1>1
  <2>2. /\ SubSeq(c, 1, n) \in Seq(Data(w)) /\ Len(SubSeq(c, 1, n)) = (IF 1 <= n THEN n - 1 + 1 ELSE 0)
        /\ \A i \in 1..(n - 1 + 1) : SubSeq(c, 1, n)[i] = c[1 + i - 1]
    BY <2>1, SubSeqProperties
  <2>3. (IF 1 <= n THEN n - 1 + 1 ELSE 0) = n /\ n - 1 + 1 = n /\ \A i \in 1..n : 1 + i - 1 = i
    BY <1>1
  <2>4. QED  BY <2>2, <2>3
<1>6. SubSeq(c, 1, 1) = <<c[1]>>
  <2> DEFINE s == SubSeq(c, 1, 1)
  <2>1. 1 \in 1..z
    BY <1>1
  <2>2. s \in Seq(Data(w)) /\ Len(s) = 1 /\ s[1] = c[1]
    BY <1>5, <2>1
  <2> HIDE DEF s
  <2>3. s = <<c[1]>>
    BY <2>2
  <2>4. QED  BY <2>3 DEF s
<1>7. ASSUME NEW n \in 1..z, n > 1
      PROVE  Append(SubSeq(c, 1, n - 1), c[n]) = SubSeq(c, 1, n)
  <2> DEFINE m == n - 1
             s == SubSeq(c, 1, m)
             t == SubSeq(c, 1, n)
  <2>1. m \in 1..z /\ m + 1 = n /\ m \in Nat /\ n \in Nat
    BY <1>1, <1>7
  <2> HIDE DEF m
  <2>2. s \in Seq(Data(w)) /\ Len(s) = m /\ \A i \in 1..m : s[i] = c[i]
    BY <1>5, <2>1
  <2>3. t \in Seq(Data(w)) /\ Len(t) = n /\ \A i \in 1..n : t[i] = c[i]
    BY <1>5
  <2>4. c[n] \in Data(w)
    BY <1>1, <2>1
  <2> HIDE DEF s, t
  <2> DEFINE u == Append(s, c[n])
  <2>5. u \in Seq(Data(w)) /\ Len(u) = m + 1 /\ u[m + 1] = c[n] /\ \A i \in 1..m : u[i] = s[i]
    BY <2>2, <2>4, AppendProperties
  <2> HIDE DEF u
  <2>6. \A i \in 1..Len(u) : u[i] = t[i]
    BY <2>1, <2>2, <2>3, <2>5
  <2>7. u = t
    BY <2>1, <2>3, <2>5, <2>6, SeqEqual
  <2>8. QED  BY <2>7 DEF u, s, t, m
<1>8. QED  BY <1>4, <1>5, <1>6, <1>7 DEF c, z

\* The first chunk of a file after whole files.
LEMMA RestoreFirst ==
  ASSUME NEW w \in Writers, NEW k \in 1..FileCount(w), NEW p, p = Ends(w)[k - 1],
         NEW files, RestoredTo(w, files, p), NEW entry, entry = EntryFor(w, k, 1)
  PROVE  /\ RestoredTo(w, Restored(files, entry, entry.digest.data), p + 1)
         /\ InOrder(files, entry) \/ DashExtends(StoreOf[w])
<1> DEFINE F == FileList(w)
           n == FileCount(w)
           c == Ends(w)
           m == k - 1
           file == [path |-> F[k].path, chunks |-> <<F[k].chunks[1]>>]
<1>1. n \in Nat /\ k \in 1..n /\ m \in 0..n /\ m + 1 = k /\ k \in Nat /\ m \in Nat
  BY SomeEntries
<1>2. F \in Seq(Files(w)) /\ Len(F) = n /\ \A l \in 1..n : F[l] \in Files(w)
  BY <1>1, SortedList
<1>3. PICK l \in 0..n :
        /\ l = 0 => p = 0
        /\ l > 0 => c[l - 1] < p /\ p <= c[l]
        /\ files = [j \in 1..l |-> IF j < l THEN F[j] ELSE Begun(w, j, p - c[l - 1])]
  BY DEF RestoredTo
<1> HIDE DEF n
<1>4. l = m /\ p \in Nat
  <2> DEFINE x == c[l - 1]  y == c[l]
  <2>1. p \in Nat /\ c[m] = p
    BY <1>1, EndsOrder DEF n
  <2>2. CASE l = 0
    <3>1. c[m] <= c[0] /\ 0 \in 0..n
      BY <1>1, <1>3, <2>1, <2>2, EndsOrder DEF n
    <3>2. m <= 0
      BY <1>1, <3>1, EndsOrder DEF n
    <3>3. QED  BY <1>1, <2>1, <2>2, <3>2
  <2>3. CASE l # 0
    <3>1. l - 1 \in 0..n /\ l \in 0..n /\ l > 0
      BY <1>1, <2>3
    <3>2. c[l - 1] < c[m] /\ c[m] <= c[l]
      BY <1>3, <2>1, <3>1
    <3>3. l - 1 < m /\ m <= l
      BY <1>1, <3>1, <3>2, EndsOrder DEF n
    <3>4. QED  BY <1>1, <2>1, <3>1, <3>3
  <2>4. QED  BY <2>2, <2>3
<1>5. files = [j \in 1..m |-> F[j]]
  <2>1. ASSUME NEW j \in 1..m  PROVE (IF j < m THEN F[j] ELSE Begun(w, j, p - c[m - 1])) = F[j]
    <3>1. CASE j < m
      BY <3>1
    <3>2. CASE ~(j < m)
      <4>1. j = m /\ m \in 1..n /\ m - 1 \in 0..n
        BY <1>1, <3>2
      <4>2. c[m] = c[m - 1] + Size(w, m) /\ c[m - 1] \in Nat /\ Size(w, m) \in Nat
        BY <4>1, EntryPlaces, ListedFile, EndsOrder DEF Places, n
      <4> DEFINE z == Size(w, m)
      <4> HIDE DEF z
      <4>3. p - c[m - 1] = z
        BY <1>1, <4>2 DEF z
      <4>4. Begun(w, m, z) = F[m]
        BY <4>1, BegunFile DEF n, z
      <4>5. QED  BY <3>2, <4>1, <4>3, <4>4
    <3>3. QED  BY <3>1, <3>2
  <2>2. QED  BY <1>3, <1>4, <2>1
<1>6. files \in Seq(Files(w)) /\ Len(files) = m /\ \A j \in 1..m : files[j] = F[j]
  <2>1. \A j \in 1..m : F[j] \in Files(w)
    BY <1>1, <1>2
  <2> HIDE DEF m, F
  <2>2. QED  BY <1>1, <1>5, <2>1
<1>7. /\ entry.path = F[k].path /\ entry.offset = 0 /\ entry.digest.data = F[k].chunks[1]
  BY DEF EntryFor, Chunk
<1> DEFINE new == Append(files, file)
<1>8. Restored(files, entry, entry.digest.data) = new
  BY <1>7 DEF Restored
<1>9. new = [j \in 1..k |-> IF j < k THEN F[j] ELSE Begun(w, j, (p + 1) - c[k - 1])]
  <2>1. Begun(w, k, 1) = file
    BY BegunFile DEF Begun
  <2> HIDE DEF file, F, m, c
  <2>2. files \in Seq(Files(w) \cup {file}) /\ file \in Files(w) \cup {file}
    <3>1. Files(w) \subseteq Files(w) \cup {file}
      OBVIOUS
    <3>2. QED  BY <1>6, <3>1, SeqMonotonic
  <2>3. /\ new \in Seq(Files(w) \cup {file}) /\ Len(new) = m + 1 /\ new[m + 1] = file
        /\ \A j \in 1..m : new[j] = files[j]
    BY <1>6, <2>2, AppendProperties
  <2>4. (p + 1) - c[k - 1] = 1
    BY <1>4 DEF c
  <2> HIDE DEF new
  <2>5. new = [j \in 1..k |-> new[j]]
    BY <1>1, <2>3
  <2>6. ASSUME NEW j \in 1..k  PROVE new[j] = IF j < k THEN F[j] ELSE Begun(w, j, (p + 1) - c[k - 1])
    <3>1. CASE j < k
      <4>1. j \in 1..m
        BY <1>1, <3>1
      <4>2. QED  BY <1>6, <2>3, <3>1, <4>1
    <3>2. CASE ~(j < k)
      <4>1. j = k
        BY <1>1, <3>2
      <4>2. QED  BY <1>1, <2>1, <2>3, <2>4, <3>2, <4>1
    <3>3. QED  BY <3>1, <3>2
  <2>7. QED  BY <2>5, <2>6
<1> HIDE DEF new
<1>10. RestoredTo(w, new, p + 1)
  <2>1. k \in 0..n /\ k # 0 /\ c[k - 1] < p + 1
    BY <1>1, <1>4
  <2>2. p + 1 <= c[k]
    <3>1. c[k - 1] < c[k] /\ c[k] \in Nat
      BY <1>1, EndsRise, EndsOrder DEF n
    <3>2. QED  BY <1>4, <3>1
  <2>3. QED  BY <1>9, <2>1, <2>2, Zenon DEF RestoredTo, n
<1>11. InOrder(files, entry) \/ DashExtends(StoreOf[w])
  <2>1. CASE m = 0
    <3>1. files = <<>>
      BY <1>6, <2>1
    <3>2. QED  BY <1>7, <3>1 DEF InOrder
  <2>2. CASE m # 0
    <3>1. m \in 1..n /\ m < k
      BY <1>1, <2>2
    <3>2. files # <<>> /\ Last(files) = F[m]
      BY <1>6, <3>1 DEF Last
    <3>3. /\ F[m].path # F[k].path /\ PathBefore(F[m].path, F[k].path)
          /\ F[m] \in Files(w) /\ F[k] \in Files(w)
      BY <1>1, <1>2, <3>1, SortedList DEF n
    <3>4. ~DashExtends(StoreOf[w]) => ~TextBefore(F[k].path, F[m].path)
      BY <3>3, TextFollowsPath
    <3> HIDE DEF F
    <3>5. QED  BY <1>7, <3>2, <3>3, <3>4 DEF InOrder
  <2>3. QED  BY <2>1, <2>2
<1>12. QED  BY <1>8, <1>10, <1>11

\* Another chunk of the last file.
LEMMA RestoreMore ==
  ASSUME NEW w \in Writers, NEW k \in 1..FileCount(w), NEW p \in Nat, NEW o \in 2..Size(w, k),
         p = Ends(w)[k - 1] + (o - 1),
         NEW files, RestoredTo(w, files, p), NEW entry, entry = EntryFor(w, k, o)
  PROVE  /\ RestoredTo(w, Restored(files, entry, entry.digest.data), p + 1)
         /\ InOrder(files, entry)
<1> DEFINE F == FileList(w)
           n == FileCount(w)
           c == Ends(w)
           z == Size(w, k)
           last == Begun(w, k, o - 1)
<1>1. /\ n \in Nat /\ k \in 1..n /\ k \in 0..n /\ k \in Nat /\ k - 1 \in 0..n /\ k > 0
      /\ c[k - 1] \in Nat /\ c[k] \in Nat /\ z \in Nat /\ c[k] = c[k - 1] + z
      /\ o \in Nat /\ o >= 2 /\ o <= z /\ o \in 1..z /\ o - 1 \in 1..z
  <2>1. n \in Nat
    BY SomeEntries
  <2>2. k - 1 \in 0..n /\ k \in 0..n /\ k \in Nat /\ k > 0
    BY <2>1
  <2>3. c[k - 1] \in Nat /\ c[k] \in Nat
    BY <2>2, EndsOrder
  <2>4. z \in Nat /\ c[k] = c[k - 1] + z
    BY ListedFile, EntryPlaces DEF Places
  <2>5. o \in 2..z
    OBVIOUS
  <2> HIDE DEF z
  <2>6. QED  BY <2>1, <2>2, <2>3, <2>4, <2>5
<1>2. PICK l \in 0..n :
        /\ l = 0 => p = 0
        /\ l > 0 => c[l - 1] < p /\ p <= c[l]
        /\ files = [j \in 1..l |-> IF j < l THEN F[j] ELSE Begun(w, j, p - c[l - 1])]
  BY DEF RestoredTo
<1> HIDE DEF n, z
<1>3. c[k - 1] < p /\ p < c[k] /\ p # 0
  BY <1>1
<1>4. l = k
  <2>1. l # 0
    BY <1>2, <1>3
  <2>2. l - 1 \in 0..n /\ l > 0
    BY <1>1, <2>1
  <2>3. c[l - 1] \in Nat /\ c[l] \in Nat /\ c[l - 1] < p /\ p <= c[l]
    BY <1>2, <2>2, EndsOrder DEF n
  <2>4. c[l - 1] < c[k] /\ c[k - 1] < c[l]
    <3> DEFINE x == c[l - 1]  y == c[l]  u == c[k - 1]  v == c[k]
    <3>1. x \in Nat /\ y \in Nat /\ u \in Nat /\ v \in Nat /\ x < p /\ p <= y /\ u < p /\ p < v
      BY <1>1, <1>3, <2>3
    <3> HIDE DEF x, y, u, v
    <3>2. x < v /\ u < y
      BY <3>1
    <3>3. QED  BY <3>2 DEF x, y, u, v
  <2>5. l - 1 < k /\ k - 1 < l
    BY <1>1, <2>2, <2>4, EndsOrder DEF n
  <2>6. QED  BY <1>1, <2>2, <2>5
<1>5. p - c[k - 1] = o - 1
  BY <1>1
<1>6. /\ files = [j \in 1..k |-> IF j < k THEN F[j] ELSE Begun(w, j, p - c[k - 1])]
  BY <1>2, <1>4
<1>7. files[k] = last
  BY <1>1, <1>5, <1>6
<1>8. DOMAIN files = 1..k
  BY <1>6
<1>9. Len(files) = k /\ files # <<>> /\ Last(files) = last
  <2>1. Len(files) = k
    BY <1>1, <1>8
  <2>2. files # <<>>
    BY <1>1, <2>1
  <2> HIDE DEF last
  <2>3. QED  BY <1>7, <2>1, <2>2 DEF Last
<1>10. entry.path = F[k].path /\ entry.offset = o - 1 /\ entry.digest.data = F[k].chunks[o]
  BY DEF EntryFor, Chunk
<1>11. /\ Len(SubSeq(F[k].chunks, 1, o - 1)) = o - 1
       /\ Append(SubSeq(F[k].chunks, 1, o - 1), F[k].chunks[o]) = SubSeq(F[k].chunks, 1, o)
  BY <1>1, BegunFile DEF z
<1>12. last.path = F[k].path /\ last.chunks = SubSeq(F[k].chunks, 1, o - 1)
  BY DEF Begun
<1>13. InOrder(files, entry)
  <2> HIDE DEF last
  <2>1. QED  BY <1>9, <1>10, <1>11, <1>12 DEF InOrder
<1> DEFINE new == [files EXCEPT ![k].chunks = Append(@, F[k].chunks[o])]
<1>14. Restored(files, entry, entry.digest.data) = new
  <2>1. entry.offset # 0
    BY <1>1, <1>10
  <2>2. QED  BY <1>9, <1>10, <2>1 DEF Restored
<1>15. new[k] = Begun(w, k, o)
  <2>1. new[k] = [files[k] EXCEPT !.chunks = Append(@, F[k].chunks[o])]
    <3> DEFINE v == F[k].chunks[o]
               r == [files[k] EXCEPT !.chunks = Append(files[k].chunks, v)]
    <3>1. new = [files EXCEPT ![k] = r]
      OBVIOUS
    <3>2. k \in DOMAIN files
      BY <1>1, <1>8
    <3>3. r = [files[k] EXCEPT !.chunks = Append(@, F[k].chunks[o])]
      OBVIOUS
    <3> HIDE DEF new, r
    <3>4. QED  BY <3>1, <3>2, <3>3
  <2>2. new[k] = [last EXCEPT !.chunks = Append(@, F[k].chunks[o])]
    BY <1>7, <2>1
  <2>3. [last EXCEPT !.chunks = Append(@, F[k].chunks[o])] = Begun(w, k, o)
    <3> DEFINE x == SubSeq(F[k].chunks, 1, o - 1)  y == SubSeq(F[k].chunks, 1, o)  v == F[k].chunks[o]  q == F[k].path
    <3>1. last = [path |-> q, chunks |-> x] /\ Begun(w, k, o) = [path |-> q, chunks |-> y] /\ Append(x, v) = y
      BY <1>11 DEF Begun
    <3> HIDE DEF last, x, y, v, q
    <3>4. last.chunks = x /\ \A a : [last EXCEPT !.chunks = a] = [path |-> q, chunks |-> a]
      BY <3>1
    <3>5. [last EXCEPT !.chunks = Append(@, v)] = [last EXCEPT !.chunks = Append(last.chunks, v)]
      OBVIOUS
    <3>2. [last EXCEPT !.chunks = Append(@, v)] = [path |-> q, chunks |-> y]
      BY <3>1, <3>4, <3>5
    <3>3. QED  BY <3>1, <3>2 DEF v
  <2>4. QED  BY <2>2, <2>3
<1>16. \A j \in 1..k : j # k => new[j] = files[j]
  BY <1>8
<1>17. DOMAIN new = 1..k /\ new = [j \in DOMAIN new |-> new[j]]
  BY <1>8
<1> HIDE DEF new
<1>18. (p + 1) - c[k - 1] = o
  BY <1>1
<1>19. new = [j \in 1..k |-> IF j < k THEN F[j] ELSE Begun(w, j, (p + 1) - c[k - 1])]
  <2>1. ASSUME NEW j \in 1..k  PROVE new[j] = IF j < k THEN F[j] ELSE Begun(w, j, (p + 1) - c[k - 1])
    <3>1. CASE j < k
      BY <1>1, <1>6, <1>16, <3>1
    <3>2. CASE ~(j < k)
      <4>1. j = k
        BY <1>1, <3>2
      <4>2. QED  BY <1>15, <1>18, <3>2, <4>1
    <3>3. QED  BY <3>1, <3>2
  <2>2. QED  BY <1>17, <2>1
<1>20. RestoredTo(w, new, p + 1)
  <2>1. k \in 0..n /\ k # 0 /\ c[k - 1] < p + 1 /\ p + 1 <= c[k]
    BY <1>1, <1>3
  <2>2. QED  BY <1>19, <2>1, Zenon DEF RestoredTo, n
<1>21. QED  BY <1>13, <1>14, <1>20

\* The next entry is restored in its place, and is in order unless a name goes
\* on with a dash.
LEMMA RestoreNext ==
  ASSUME NEW w \in Writers, NEW p \in Nat, p < EntryCount(w), NEW files, RestoredTo(w, files, p),
         NEW entry, entry = EntriesOf[w][p + 1]
  PROVE  /\ RestoredTo(w, Restored(files, entry, entry.digest.data), p + 1)
         /\ InOrder(files, entry) \/ DashExtends(StoreOf[w])
<1>1. PICK k \in 1..FileCount(w) :
           /\ Ends(w)[k - 1] <= p /\ p < Ends(w)[k]
           /\ EntriesOf[w][p + 1] = EntryFor(w, k, (p - Ends(w)[k - 1]) + 1)
           /\ (p - Ends(w)[k - 1]) + 1 \in 1..Size(w, k)
           /\ Ends(w)[k] = Ends(w)[k - 1] + Size(w, k)
  BY EntryFile
<1>2. Ends(w)[k - 1] \in Nat /\ Size(w, k) \in Nat
  <2>1. FileCount(w) \in Nat
    BY SomeEntries
  <2>2. k - 1 \in 0..FileCount(w)
    BY <2>1
  <2>3. QED  BY <2>2, EndsOrder, ListedFile
<1> DEFINE x == Ends(w)[k - 1]
           o == (p - x) + 1
           z == Size(w, k)
<1>3. x \in Nat /\ x <= p /\ o \in 1..z /\ entry = EntryFor(w, k, o) /\ z \in Nat
  BY <1>1, <1>2
<1> HIDE DEF x, z
<1>4. CASE p = x
  <2>1. o = 1
    BY <1>3, <1>4
  <2>2. p = Ends(w)[k - 1] /\ entry = EntryFor(w, k, 1)
    BY <1>3, <1>4, <2>1 DEF x
  <2> HIDE DEF o
  <2>3. QED  BY <2>2, RestoreFirst
<1>5. CASE p # x
  <2>1. o \in 2..Size(w, k) /\ p = Ends(w)[k - 1] + (o - 1)
    <3>1. o \in 2..z /\ p = x + (o - 1)
      BY <1>3, <1>5
    <3>2. QED  BY <3>1 DEF x, z
  <2> HIDE DEF o
  <2>2. QED  BY <1>3, <2>1, RestoreMore
<1>6. QED  BY <1>4, <1>5

\* Nothing restored is where it starts, everything is the list of files.
LEMMA RestoredEnds ==
  ASSUME NEW w \in Writers
  PROVE  /\ RestoredTo(w, <<>>, 0)
         /\ \A files : RestoredTo(w, files, EntryCount(w)) =>
              files = FileList(w) /\ ToSet(files) = Files(w) /\ Len(files) = FileCount(w)
<1> DEFINE n == FileCount(w)
           F == FileList(w)
           c == Ends(w)
<1>1. n \in Nat \ {0} /\ EntryCount(w) \in Nat \ {0}
  BY SomeEntries
<1>2. RestoredTo(w, <<>>, 0)
  <2>1. 0 \in 0..n /\ <<>> = [k \in 1..0 |-> IF k < 0 THEN F[k] ELSE Begun(w, k, 0 - c[0 - 1])]
    BY <1>1
  <2>2. ~(0 > 0)
    OBVIOUS
  <2>3. QED  BY <2>1, <2>2, Zenon DEF RestoredTo
<1>3. ASSUME NEW files, RestoredTo(w, files, EntryCount(w))
      PROVE  files = F /\ ToSet(files) = Files(w) /\ Len(files) = n
  <2>1. PICK m \in 0..n :
          /\ m = 0 => EntryCount(w) = 0
          /\ m > 0 => c[m - 1] < EntryCount(w) /\ EntryCount(w) <= c[m]
          /\ files = [k \in 1..m |-> IF k < m THEN F[k] ELSE Begun(w, k, EntryCount(w) - c[m - 1])]
    BY <1>3 DEF RestoredTo
  <2>2. c[n] = EntryCount(w) /\ F \in Seq(Files(w)) /\ Len(F) = n /\ ToSet(F) = Files(w)
    BY EntryPlaces, SortedList DEF Places
  <2>3. m \in 1..n /\ n \in 0..n /\ m > 0
    BY <1>1, <2>1
  <2>4. c[n] <= c[m]
    BY <2>1, <2>2, <2>3
  <2>5. m = n
    <3>1. n <= m
      BY <2>3, <2>4, EndsOrder
    <3>2. QED  BY <1>1, <3>1
  <2>6. Begun(w, n, EntryCount(w) - c[n - 1]) = F[n]
    <3>1. n \in 1..n /\ n - 1 \in 0..n
      BY <1>1
    <3>2. c[n] = c[n - 1] + Size(w, n) /\ c[n - 1] \in Nat /\ Size(w, n) \in Nat
      BY <3>1, EntryPlaces, ListedFile, EndsOrder DEF Places
    <3> DEFINE z == Size(w, n)
    <3> HIDE DEF z
    <3>3. EntryCount(w) - c[n - 1] = z
      BY <2>2, <3>2 DEF z
    <3>4. QED  BY <3>1, <3>3, BegunFile DEF z
  <2>7. files = [k \in 1..n |-> F[k]]
    <3>1. ASSUME NEW k \in 1..n
          PROVE  (IF k < n THEN F[k] ELSE Begun(w, k, EntryCount(w) - c[n - 1])) = F[k]
      <4>1. CASE k < n
        BY <4>1
      <4>2. CASE ~(k < n)
        <5>1. k = n
          BY <1>1, <4>2
        <5>2. QED  BY <2>6, <4>2, <5>1
      <4>3. QED  BY <4>1, <4>2
    <3>2. QED  BY <2>1, <2>5, <3>1
  <2> HIDE DEF F, n
  <2>8. F = [k \in 1..n |-> F[k]]
    BY <1>1, <2>2
  <2>9. files = F
    BY <2>7, <2>8
  <2>10. QED  BY <2>2, <2>9
<1>4. QED  BY <1>2, <1>3

-----------------------------------------------------------------------------
(* The reader.                                                             *)

\* p entries are restored and the items stand for the others.
ReaderAt(w, C, top, todo, files) ==
  \E p \in Nat : /\ p <= EntryCount(w) /\ RestoredTo(w, files, p)
                 /\ Lined(w, C, top, todo, p, EntryCount(w))

SealedAs(w, root) == seal[w].at = "sealed" /\ seal[w].wanted = root

Reader(at, looked, todo, files, root) ==
  [at |-> at, looked |-> looked, todo |-> todo, files |-> files, root |-> root]

Walking(root, todo, files) ==
  \A w \in Writers : \A C, index, h : Leads(w, C, root, index, h) => ReaderAt(w, C, h, todo, files)

Whole(root, files) ==
  \A w \in Writers : \A C, index, h :
    Leads(w, C, root, index, h) => ToSet(files) = Files(w) /\ Len(files) = FileCount(w)

Blamed(root, looked) ==
  \/ looked \in tampered
  \/ \E w \in Writers : SealedAs(w, root) /\ DashExtends(StoreOf[w])

ReaderInv(o) ==
  \/ o = Idle
  \/ /\ o = Reader(o.at, o.looked, o.todo, o.files, o.root)
     /\ o.at \in {"root", "walk", "opened", "refused"}
     /\ \E w \in Writers : SealedAs(w, o.root)
     /\ o.at = "root" => o.files = <<>>
     /\ o.at = "walk" => Walking(o.root, o.todo, o.files)
     /\ o.at = "opened" => Whole(o.root, o.files)
     /\ o.at = "refused" => Blamed(o.root, o.looked)

\* No index is deeper than _entries reads.
LEMMA HeightFits ==
  ASSUME NEW w \in Writers, NEW h \in Nat, Deep(w, h)
  PROVE  h <= MaxDepth
<1> DEFINE L == EntryCount(w)
<1>1. PICK d \in 0..MaxDepth : L <= Capacity[d]
  BY StoresFitTheIndex DEF EntryCount
<1>2. MaxDepth \in Nat /\ d \in Nat /\ L \in Nat
  BY SnapshotConstants, SomeEntries
<1> HIDE DEF L
<1>3. SUFFICES ASSUME h > d  PROVE FALSE
  BY <1>1, <1>2
<1> DEFINE g == h - 1
<1>4. h # 0 /\ g \in Nat /\ d <= g
  BY <1>2, <1>3
<1>5. Capacity[g] < L
  BY <1>4 DEF Deep, L
<1> HIDE DEF g
<1>6. Capacity[d] <= Capacity[g] /\ Capacity[d] \in Nat /\ Capacity[g] \in Nat
  BY <1>2, <1>4, CapacityRises, CapacityGrows
<1>7. QED  BY <1>1, <1>2, <1>5, <1>6

\* Items are pages or entries.
LEMMA ItemKinds ==
  ASSUME NEW w, NEW C, NEW top, NEW item, NEW i, NEW j, Item(w, C, top, item, i, j)
  PROVE  /\ "digest" \in DOMAIN item =>
              \E body \in Bodies(C) : \E depth, h \in Nat :
                item = IndexItem(body, depth) /\ <<body, h, i, j>> \in C /\ depth + h <= top
         /\ "entry" \in DOMAIN item =>
              j = i + 1 /\ j \in 1..EntryCount(w) /\ item = EntryItem(EntriesOf[w][j])
<1>1. ASSUME NEW body, NEW depth  PROVE "entry" \notin DOMAIN IndexItem(body, depth)
  BY DEF IndexItem
<1>2. ASSUME NEW entry  PROVE "digest" \notin DOMAIN EntryItem(entry)
  BY DEF EntryItem
<1>3. QED  BY <1>1, <1>2 DEF Item

\* A page is replaced by what it lists.
LEMMA IndexStep ==
  ASSUME NEW w \in Writers, NEW C, NEW root, NEW index, NEW h, Leads(w, C, root, index, h),
         NEW todo, NEW files, ReaderAt(w, C, h, todo, files),
         todo # <<>>, "digest" \in DOMAIN Head(todo)
  PROVE  LET item == Head(todo)
             body == item.digest
         IN /\ body \in Bodies(C) /\ item.depth <= MaxDepth
            /\ ReaderAt(w, C, h,
                 [k \in DOMAIN body.rows |->
                    IF body.kind = "entries" THEN EntryItem(body.rows[k])
                    ELSE IndexItem(body.rows[k], item.depth + 1)] \o Tail(todo), files)
<1> DEFINE item == Head(todo)
           L == EntryCount(w)
<1>1. PICK p \in Nat : p <= L /\ RestoredTo(w, files, p) /\ Lined(w, C, h, todo, p, L)
  BY Zenon DEF ReaderAt
<1>2. PICK m \in Nat : Item(w, C, h, item, p, m) /\ Lined(w, C, h, Tail(todo), m, L)
  BY <1>1, LinedTail
<1> HIDE DEF item
<1>3. "digest" \in DOMAIN item
  BY DEF item
<1>4. PICK body \in Bodies(C), depth \in Nat, g \in Nat :
        item = IndexItem(body, depth) /\ <<body, g, p, m>> \in C /\ depth + g <= h
  BY <1>2, <1>3, ItemKinds
<1>5. item.digest = body /\ item.depth = depth
  BY <1>4 DEF IndexItem
<1>6. IsCover(w, C) /\ h \in Nat /\ h <= MaxDepth
  BY HeightFits DEF Leads
<1>7. depth <= MaxDepth
  BY <1>4, <1>6, SnapshotConstants
<1>8. Covers(w, C, body, g, p, m)
  BY <1>4, <1>6, CoverMember
<1> DEFINE listed == [k \in DOMAIN body.rows |->
                        IF body.kind = "entries" THEN EntryItem(body.rows[k])
                        ELSE IndexItem(body.rows[k], depth + 1)]
<1>9. Lined(w, C, h, listed, p, m)
  <2>1. CASE g = 0
    <3> DEFINE rows == SubSeq(EntriesOf[w], p + 1, m)
    <3>1. body = Page(rows) /\ Spans(w, Page(rows), 0, p, m)
      BY <1>8, <2>1 DEF Covers, Spans
    <3>2. body.kind = "entries" /\ body.rows = rows
      BY <3>1 DEF Page
    <3>3. listed = [k \in DOMAIN rows |-> EntryItem(rows[k])]
      BY <3>2
    <3>4. Lined(w, C, h, [k \in DOMAIN rows |-> EntryItem(rows[k])], p, m)
      BY <3>1, LinedPage
    <3>5. QED  BY <3>3, <3>4
  <2>2. CASE g # 0
    <3>1. PICK rows : body = Node(rows) /\ Follows(C, rows, g - 1, p, m)
      BY <1>8, <2>2 DEF Covers
    <3>2. body.kind = "children" /\ body.rows = rows
      BY <3>1 DEF Node
    <3>3. listed = [k \in DOMAIN rows |-> IndexItem(rows[k], depth + 1)]
      BY <3>2
    <3>4. Lined(w, C, h, [k \in DOMAIN rows |-> IndexItem(rows[k], depth + 1)], p, m)
      BY <1>4, <1>6, <2>2, <3>1, LinedNode
    <3>5. QED  BY <3>3, <3>4
  <2>3. QED  BY <2>1, <2>2
<1> HIDE DEF listed
<1>10. Lined(w, C, h, listed \o Tail(todo), p, L)
  BY <1>2, <1>9, LinedConcat
<1>11. ReaderAt(w, C, h, listed \o Tail(todo), files)
  BY <1>1, <1>10, Zenon DEF ReaderAt
<1>12. QED  BY <1>5, <1>7, <1>11 DEF listed, item

\* An entry is restored.
LEMMA EntryStep ==
  ASSUME NEW w \in Writers, NEW C, NEW root, NEW index, NEW h, Leads(w, C, root, index, h),
         NEW todo, NEW files, ReaderAt(w, C, h, todo, files),
         todo # <<>>, "entry" \in DOMAIN Head(todo)
  PROVE  LET entry == Head(todo).entry
         IN /\ \E k \in 1..EntryCount(w) : entry.digest = EntriesOf[w][k].digest
            /\ InOrder(files, entry) \/ DashExtends(StoreOf[w])
            /\ ReaderAt(w, C, h, Tail(todo), Restored(files, entry, entry.digest.data))
<1> DEFINE item == Head(todo)
           L == EntryCount(w)
<1>1. PICK p \in Nat : p <= L /\ RestoredTo(w, files, p) /\ Lined(w, C, h, todo, p, L)
  BY Zenon DEF ReaderAt
<1>2. PICK m \in Nat : Item(w, C, h, item, p, m) /\ Lined(w, C, h, Tail(todo), m, L)
  BY <1>1, LinedTail
<1> HIDE DEF item
<1>3. "entry" \in DOMAIN item
  BY DEF item
<1>4. m = p + 1 /\ m \in 1..L /\ item = EntryItem(EntriesOf[w][m])
  BY <1>2, <1>3, ItemKinds
<1> DEFINE entry == item.entry
<1>5. entry = EntriesOf[w][m]
  BY <1>4 DEF EntryItem
<1> HIDE DEF entry
<1>6. L \in Nat
  BY SomeEntries
<1>7. p < L /\ m <= L
  BY <1>4, <1>6
<1>8. RestoredTo(w, Restored(files, entry, entry.digest.data), m) /\ (InOrder(files, entry) \/ DashExtends(StoreOf[w]))
  <2>1. entry = EntriesOf[w][p + 1]
    BY <1>4, <1>5
  <2>2. QED  BY <1>1, <1>4, <1>7, <2>1, RestoreNext
<1>9. ReaderAt(w, C, h, Tail(todo), Restored(files, entry, entry.digest.data))
  BY <1>2, <1>7, <1>8, Zenon DEF ReaderAt
<1>10. entry.digest = EntriesOf[w][m].digest
  BY <1>5
<1>11. QED  BY <1>4, <1>8, <1>9, <1>10 DEF entry, item

\* A walk begins at the index of the root.
LEMMA WalkBegins ==
  ASSUME NEW root
  PROVE  Walking(root, <<IndexItem(root.index, 0)>>, <<>>)
<1>1. SUFFICES ASSUME NEW w \in Writers, NEW C, NEW index, NEW h, Leads(w, C, root, index, h)
               PROVE  ReaderAt(w, C, h, <<IndexItem(root.index, 0)>>, <<>>)
  BY DEF Walking
<1>2. root.index = index
  <2>1. root = Root(StoreOf[w].head, index)
    BY <1>1 DEF Leads
  <2>2. QED  BY <2>1 DEF Root
<1>3. Lined(w, C, h, <<IndexItem(index, 0)>>, 0, EntryCount(w))
  BY <1>1, LinedIndex
<1>4. RestoredTo(w, <<>>, 0) /\ 0 \in Nat /\ 0 <= EntryCount(w)
  BY RestoredEnds, SomeEntries
<1>5. ReaderAt(w, C, h, <<IndexItem(index, 0)>>, <<>>)
  BY <1>3, <1>4, Zenon DEF ReaderAt
<1>6. QED  BY <1>2, <1>5

\* A walk with nothing left to read has restored every file.
LEMMA WalkEnds ==
  ASSUME NEW root, NEW files, Walking(root, <<>>, files)
  PROVE  Whole(root, files)
<1>1. SUFFICES ASSUME NEW w \in Writers, NEW C, NEW index, NEW h, Leads(w, C, root, index, h)
               PROVE  ToSet(files) = Files(w) /\ Len(files) = FileCount(w)
  BY DEF Whole
<1>2. ReaderAt(w, C, h, <<>>, files)
  BY <1>1 DEF Walking
<1>3. PICK p \in Nat : RestoredTo(w, files, p) /\ Lined(w, C, h, <<>>, p, EntryCount(w))
  BY <1>2, Zenon DEF ReaderAt
<1>4. p = EntryCount(w)
  BY <1>3, LinedNothing
<1>5. QED  BY <1>3, <1>4, RestoredEnds

\* What is sealed stays sealed.
LEMMA SealedForGood ==
  ASSUME Objects, [Next]_vars, NEW w \in Writers, seal[w].at = "sealed"
  PROVE  seal'[w] = seal[w]
<1>1. DOMAIN seal = Writers
  BY DEF Objects
<1>2. ASSUME NEW u \in Writers, BeginSeal(u)  PROVE seal'[w] = seal[w]
  BY <1>1, <1>2 DEF BeginSeal
<1>3. ASSUME NEW u \in Writers, Put(u)  PROVE seal'[w] = seal[w]
  BY <1>1, <1>3 DEF Put
<1>4. ASSUME NEW u \in Writers, Verify(u)  PROVE seal'[w] = seal[w]
  <2>1. PICK t : seal' = [seal EXCEPT ![u] = t] /\ seal[u].at = "verify"
    BY <1>4 DEF Verify
  <2>2. u # w
    BY <2>1
  <2>3. QED  BY <1>1, <2>1, <2>2
<1>5. ASSUME NEW u \in Writers, Raise(u)  PROVE seal'[w] = seal[w]
  BY <1>1, <1>5 DEF Raise
<1>6. CASE ~(\E u \in Writers : BeginSeal(u) \/ Put(u) \/ Verify(u) \/ Raise(u))
  BY <1>6 DEF Next, vars, Land, Tamper, BeginOpen, ReadRoot, ReadIndex, ReadEntry, Opened
<1>7. QED  BY <1>2, <1>3, <1>4, <1>5, <1>6

\* What is said of a reader that does not move stays so.
LEMMA ReaderStays ==
  ASSUME Objects, [Next]_vars, NEW o, ReaderInv(o)
  PROVE  ReaderInv(o)'
<1>1. Kept
  BY ObjectsNext
<1>2. \A w \in Writers : seal[w].at = "sealed" => seal'[w] = seal[w]
  BY SealedForGood
<1>3. ASSUME NEW w \in Writers, NEW root, SealedAs(w, root)  PROVE SealedAs(w, root)'
  BY <1>2, <1>3 DEF SealedAs
<1>4. ASSUME NEW root, NEW looked, Blamed(root, looked)  PROVE Blamed(root, looked)'
  <2>1. CASE looked \in tampered
    BY <1>1, <2>1 DEF Kept, Blamed
  <2>2. CASE \E w \in Writers : SealedAs(w, root) /\ DashExtends(StoreOf[w])
    BY <1>3, <2>2 DEF Blamed
  <2>3. QED  BY <1>4, <2>1, <2>2 DEF Blamed
<1>5. QED  BY <1>3, <1>4 DEF ReaderInv

\* The cover that a sealed root has.
LEMMA SealedCover ==
  ASSUME Objects, NEW root, \E w \in Writers : SealedAs(w, root)
  PROVE  \E w \in Writers : \E C, index, h :
           /\ SealedAs(w, root) /\ Leads(w, C, root, index, h)
           /\ Stored(w, C, EntryCount(w)) /\ Good(root)
<1>1. PICK w \in Writers : SealedAs(w, root)
  OBVIOUS
<1>2. Sealed(w, root)
  BY <1>1 DEF SealedAs, Objects, SealInv
<1>3. QED  BY <1>1, <1>2, Zenon DEF Sealed

\* A snapshot is opened.
LEMMA ReaderBegins ==
  ASSUME Objects, NEW w \in Writers, BeginOpen(w)
  PROVE  ReaderInv(open)'
<1>1. PICK root : root = seal[w].wanted
  OBVIOUS
<1>2. PICK o : o = Reader("root", root, <<>>, <<>>, root)
  OBVIOUS
<1>3. open' = o /\ UNCHANGED <<seal, tampered>> /\ seal[w].at = "sealed"
  BY <1>1, <1>2 DEF BeginOpen, Reader
<1>4. /\ o.at = "root" /\ o.looked = root /\ o.todo = <<>> /\ o.files = <<>> /\ o.root = root
  BY <1>2 DEF Reader
<1>5. SealedAs(w, root)'
  BY <1>1, <1>3 DEF SealedAs
<1>6. o = Reader(o.at, o.looked, o.todo, o.files, o.root)
  <2> HIDE DEF Reader
  <2>1. QED  BY <1>2, <1>4
<1>7. ReaderInv(o)'
  BY <1>4, <1>5, <1>6 DEF ReaderInv
<1>8. QED  BY <1>3, <1>7 DEF ReaderInv, SealedAs, Blamed

\* The reader gives up on an object for a reason.
LEMMA ReaderRefuses ==
  ASSUME NEW o, o = open, NEW key, open' = [open EXCEPT !.at = "refused", !.looked = key],
         o = Reader(o.at, o.looked, o.todo, o.files, o.root),
         \E w \in Writers : SealedAs(w, o.root), Blamed(o.root, key), UNCHANGED <<seal, tampered>>
  PROVE  ReaderInv(open)'
<1>1. PICK t : t = Reader("refused", key, o.todo, o.files, o.root)
  OBVIOUS
<1>2. ASSUME NEW a, NEW b, NEW c, NEW d, NEW e
      PROVE  /\ [Reader(a, b, c, d, e) EXCEPT !.at = "refused"] = Reader("refused", b, c, d, e)
             /\ [Reader(a, b, c, d, e) EXCEPT !.looked = key] = Reader(a, key, c, d, e)
  BY DEF Reader
<1>3. open' = t
  <2> DEFINE x == Reader(o.at, o.looked, o.todo, o.files, o.root)
             y == Reader("refused", o.looked, o.todo, o.files, o.root)
  <2>1. [x EXCEPT !.at = "refused"] = y /\ [y EXCEPT !.looked = key] = t
    BY <1>1, <1>2
  <2> HIDE DEF x, y
  <2>2. o = x
    BY DEF x
  <2>3. [x EXCEPT !.at = "refused", !.looked = key] = [[x EXCEPT !.at = "refused"] EXCEPT !.looked = key]
    OBVIOUS
  <2>4. QED  BY <2>1, <2>2, <2>3
<1>4. t.at = "refused" /\ t.looked = key /\ t.todo = o.todo /\ t.files = o.files /\ t.root = o.root
  BY <1>1 DEF Reader
<1>5. t = Reader(t.at, t.looked, t.todo, t.files, t.root)
  BY <1>1, <1>4
<1>6. (\E w \in Writers : SealedAs(w, t.root)') /\ Blamed(t.root, t.looked)'
  BY <1>4 DEF SealedAs, Blamed
<1>7. ReaderInv(t)'
  BY <1>4, <1>5, <1>6 DEF ReaderInv
<1>8. QED  BY <1>3, <1>7 DEF ReaderInv, SealedAs, Blamed

\* The reader goes on.
LEMMA ReaderWalks ==
  ASSUME NEW t, open' = t, t = Reader(t.at, t.looked, t.todo, t.files, t.root),
         t.at \in {"walk", "opened"}, \E w \in Writers : SealedAs(w, t.root),
         t.at = "walk" => Walking(t.root, t.todo, t.files),
         t.at = "opened" => Whole(t.root, t.files), UNCHANGED <<seal, tampered>>
  PROVE  ReaderInv(open)'
<1>1. \E w \in Writers : SealedAs(w, t.root)'
  BY DEF SealedAs
<1>2. ReaderInv(t)'
  BY <1>1 DEF ReaderInv
<1>3. QED  BY <1>2 DEF ReaderInv, SealedAs, Blamed

\* The root is read.
LEMMA ReaderRoot ==
  ASSUME Objects, ReaderInv(open), ReadRoot
  PROVE  ReaderInv(open)'
<1>1. PICK o : o = open
  OBVIOUS
<1>2. o.at = "root" /\ UNCHANGED <<seal, tampered>>
  BY <1>1 DEF ReadRoot
<1>3. /\ o = Reader(o.at, o.looked, o.todo, o.files, o.root)
      /\ \E w \in Writers : SealedAs(w, o.root)
      /\ o.files = <<>>
  BY <1>1, <1>2 DEF ReaderInv, Idle
<1>4. CASE Intact(o.root)
  <2>1. PICK t : t = Reader("walk", o.looked, <<IndexItem(o.root.index, 0)>>, <<>>, o.root)
    OBVIOUS
  <2>2. open' = [open EXCEPT !.at = "walk", !.todo = <<IndexItem(o.root.index, 0)>>]
    BY <1>1, <1>4 DEF ReadRoot
  <2>3. ASSUME NEW a, NEW b, NEW c, NEW d, NEW e, NEW v
        PROVE  /\ [Reader(a, b, c, d, e) EXCEPT !.at = "walk"] = Reader("walk", b, c, d, e)
               /\ [Reader(a, b, c, d, e) EXCEPT !.todo = v] = Reader(a, b, v, d, e)
    BY DEF Reader
  <2>4. open' = t
    <3> DEFINE x == Reader(o.at, o.looked, o.todo, o.files, o.root)
               y == Reader("walk", o.looked, o.todo, o.files, o.root)
               v == <<IndexItem(o.root.index, 0)>>
    <3>1. [x EXCEPT !.at = "walk"] = y /\ [y EXCEPT !.todo = v] = t
      BY <1>3, <2>1, <2>3
    <3> HIDE DEF x, y
    <3>2. o = x
      BY <1>3 DEF x
    <3>3. [x EXCEPT !.at = "walk", !.todo = v] = [[x EXCEPT !.at = "walk"] EXCEPT !.todo = v]
      OBVIOUS
    <3>4. open' = [o EXCEPT !.at = "walk", !.todo = v]
      BY <1>1, <2>2
    <3> HIDE DEF v
    <3>5. QED  BY <3>1, <3>2, <3>3, <3>4
  <2>5. /\ t.at = "walk" /\ t.looked = o.looked /\ t.todo = <<IndexItem(t.root.index, 0)>> /\ t.files = <<>>
        /\ t.root = o.root
    BY <2>1 DEF Reader
  <2>6. t = Reader(t.at, t.looked, t.todo, t.files, t.root)
    BY <2>1, <2>5
  <2>7. Walking(t.root, t.todo, t.files)
    BY <2>5, WalkBegins
  <2>8. QED  BY <1>2, <1>3, <2>4, <2>5, <2>6, <2>7, ReaderWalks
<1>5. CASE ~Intact(o.root)
  <2>1. open' = [open EXCEPT !.at = "refused", !.looked = o.root]
    BY <1>1, <1>5 DEF ReadRoot, Refuse
  <2>2. Good(o.root)
    BY <1>3, SealedCover
  <2>3. Blamed(o.root, o.root)
    BY <1>5, <2>2 DEF Good, Blamed
  <2>4. PICK key : key = o.root
    OBVIOUS
  <2>5. QED  BY <1>1, <1>2, <1>3, <2>1, <2>3, <2>4, ReaderRefuses
<1>6. QED  BY <1>4, <1>5

\* The two parts of a reader that a read changes.
LEMMA ReaderChanges ==
  ASSUME NEW o, o = Reader(o.at, o.looked, o.todo, o.files, o.root), NEW todo, NEW files
  PROVE  /\ [o EXCEPT !.files = files, !.todo = todo] = Reader(o.at, o.looked, todo, files, o.root)
         /\ [o EXCEPT !.todo = todo] = Reader(o.at, o.looked, todo, o.files, o.root)
<1>1. ASSUME NEW a, NEW b, NEW c, NEW d, NEW e
      PROVE  /\ [Reader(a, b, c, d, e) EXCEPT !.todo = todo] = Reader(a, b, todo, d, e)
             /\ [Reader(a, b, c, d, e) EXCEPT !.files = files] = Reader(a, b, c, files, e)
  BY DEF Reader
<1> DEFINE x == Reader(o.at, o.looked, o.todo, o.files, o.root)
           y == Reader(o.at, o.looked, o.todo, files, o.root)
<1>2. /\ [x EXCEPT !.todo = todo] = Reader(o.at, o.looked, todo, o.files, o.root)
      /\ [x EXCEPT !.files = files] = y
      /\ [y EXCEPT !.todo = todo] = Reader(o.at, o.looked, todo, files, o.root)
  BY <1>1
<1> HIDE DEF x, y
<1>3. [x EXCEPT !.files = files, !.todo = todo] = [[x EXCEPT !.files = files] EXCEPT !.todo = todo]
  OBVIOUS
<1>4. o = x
  BY DEF x
<1>5. QED  BY <1>2, <1>3, <1>4

\* A page is read.
LEMMA ReaderIndex ==
  ASSUME Objects, ReaderInv(open), ReadIndex
  PROVE  ReaderInv(open)'
<1>1. PICK o : o = open
  OBVIOUS
<1>2. PICK item : item = Head(o.todo)
  OBVIOUS
<1>3. /\ o.at = "walk" /\ o.todo # <<>> /\ "digest" \in DOMAIN item
      /\ UNCHANGED <<seal, tampered>>
  BY <1>1, <1>2 DEF ReadIndex
<1>4. /\ o = Reader(o.at, o.looked, o.todo, o.files, o.root)
      /\ \E w \in Writers : SealedAs(w, o.root)
      /\ Walking(o.root, o.todo, o.files)
  BY <1>1, <1>3 DEF ReaderInv, Idle
<1> DEFINE Listed == [k \in DOMAIN item.digest.rows |->
                        IF item.digest.kind = "entries" THEN EntryItem(item.digest.rows[k])
                        ELSE IndexItem(item.digest.rows[k], item.depth + 1)] \o Tail(o.todo)
<1>5. ASSUME NEW w \in Writers, NEW C, NEW index, NEW h, Leads(w, C, o.root, index, h)
      PROVE  /\ item.digest \in Bodies(C) /\ item.depth <= MaxDepth
             /\ ReaderAt(w, C, h, Listed, o.files)
  <2>1. ReaderAt(w, C, h, o.todo, o.files)
    BY <1>4, <1>5 DEF Walking
  <2> DEFINE it == Head(o.todo)
             all == [k \in DOMAIN it.digest.rows |->
                        IF it.digest.kind = "entries" THEN EntryItem(it.digest.rows[k])
                        ELSE IndexItem(it.digest.rows[k], it.depth + 1)] \o Tail(o.todo)
  <2>2. "digest" \in DOMAIN it
    BY <1>2, <1>3
  <2>3. it.digest \in Bodies(C) /\ it.depth <= MaxDepth /\ ReaderAt(w, C, h, all, o.files)
    BY <1>3, <1>5, <2>1, <2>2, IndexStep
  <2>4. it = item
    BY <1>2
  <2> HIDE DEF it
  <2>5. QED  BY <2>3, <2>4
<1> HIDE DEF Listed
<1>6. CASE item.depth <= MaxDepth /\ Intact(item.digest)
  <2>1. PICK todo : todo = Listed
    OBVIOUS
  <2>2. open' = [o EXCEPT !.todo = todo]
    BY <1>1, <1>2, <1>6, <2>1 DEF ReadIndex, Listed
  <2>3. PICK t : t = Reader(o.at, o.looked, todo, o.files, o.root)
    OBVIOUS
  <2>4. open' = t
    BY <1>4, <2>2, <2>3, ReaderChanges
  <2>5. t.at = "walk" /\ t.looked = o.looked /\ t.todo = todo /\ t.files = o.files /\ t.root = o.root
    BY <1>3, <2>3 DEF Reader
  <2>6. t = Reader(t.at, t.looked, t.todo, t.files, t.root)
    BY <1>3, <2>3, <2>5
  <2>7. Walking(t.root, t.todo, t.files)
    BY <1>5, <2>1, <2>5 DEF Walking
  <2>8. QED  BY <1>3, <1>4, <2>4, <2>5, <2>6, <2>7, ReaderWalks
<1>7. CASE ~(item.depth <= MaxDepth /\ Intact(item.digest))
  <2>1. open' = [open EXCEPT !.at = "refused", !.looked = item.digest]
    BY <1>1, <1>2, <1>7 DEF ReadIndex, Refuse
  <2>0. PICK w \in Writers : \E C, index, h : Leads(w, C, o.root, index, h) /\ Stored(w, C, EntryCount(w))
    BY <1>4, SealedCover
  <2>2. PICK C, index, h : Leads(w, C, o.root, index, h) /\ Stored(w, C, EntryCount(w))
    BY <2>0
  <2>3. item.digest \in Bodies(C) /\ item.depth <= MaxDepth
    BY <1>5, <2>2
  <2>4. Good(item.digest) /\ ~Intact(item.digest)
    BY <1>7, <2>2, <2>3 DEF Stored
  <2>5. Blamed(o.root, item.digest)
    BY <2>4 DEF Good, Blamed
  <2>6. PICK key : key = item.digest
    OBVIOUS
  <2>7. QED  BY <1>1, <1>3, <1>4, <2>1, <2>5, <2>6, ReaderRefuses
<1>8. QED  BY <1>6, <1>7

\* A chunk is read.
LEMMA ReaderEntry ==
  ASSUME Objects, ReaderInv(open), ReadEntry
  PROVE  ReaderInv(open)'
<1>1. PICK o : o = open
  OBVIOUS
<1>2. PICK item : item = Head(o.todo)
  OBVIOUS
<1>3. PICK entry : entry = item.entry
  OBVIOUS
<1>4. /\ o.at = "walk" /\ o.todo # <<>> /\ "entry" \in DOMAIN item
      /\ UNCHANGED <<seal, tampered>>
  BY <1>1, <1>2 DEF ReadEntry
<1>5. /\ o = Reader(o.at, o.looked, o.todo, o.files, o.root)
      /\ \E w \in Writers : SealedAs(w, o.root)
      /\ Walking(o.root, o.todo, o.files)
  BY <1>1, <1>4 DEF ReaderInv, Idle
<1>6. PICK files : files = Restored(o.files, entry, entry.digest.data)
  OBVIOUS
<1>7. PICK todo : todo = Tail(o.todo)
  OBVIOUS
<1>8. ASSUME NEW w \in Writers, NEW C, NEW index, NEW h, Leads(w, C, o.root, index, h)
      PROVE  /\ \E k \in 1..EntryCount(w) : entry.digest = EntriesOf[w][k].digest
             /\ InOrder(o.files, entry) \/ DashExtends(StoreOf[w])
             /\ ReaderAt(w, C, h, todo, files)
  <2>1. ReaderAt(w, C, h, o.todo, o.files)
    BY <1>5, <1>8 DEF Walking
  <2> DEFINE e == Head(o.todo).entry
  <2>2. "entry" \in DOMAIN Head(o.todo)
    BY <1>2, <1>4
  <2>3. /\ \E k \in 1..EntryCount(w) : e.digest = EntriesOf[w][k].digest
        /\ InOrder(o.files, e) \/ DashExtends(StoreOf[w])
        /\ ReaderAt(w, C, h, Tail(o.todo), Restored(o.files, e, e.digest.data))
    BY <1>4, <1>8, <2>1, <2>2, EntryStep
  <2>4. e = entry
    BY <1>2, <1>3
  <2> HIDE DEF e
  <2>5. QED  BY <1>6, <1>7, <2>3, <2>4
<1>9. CASE InOrder(o.files, entry) /\ Intact(entry.digest)
  <2>1. open' = [o EXCEPT !.files = files, !.todo = todo]
    BY <1>1, <1>2, <1>3, <1>6, <1>7, <1>9 DEF ReadEntry
  <2>2. PICK t : t = Reader(o.at, o.looked, todo, files, o.root)
    OBVIOUS
  <2>3. open' = t
    BY <1>5, <2>1, <2>2, ReaderChanges
  <2>4. t.at = "walk" /\ t.looked = o.looked /\ t.todo = todo /\ t.files = files /\ t.root = o.root
    BY <1>4, <2>2 DEF Reader
  <2>5. t = Reader(t.at, t.looked, t.todo, t.files, t.root)
    BY <1>4, <2>2, <2>4
  <2>6. Walking(t.root, t.todo, t.files)
    BY <1>8, <2>4 DEF Walking
  <2>7. QED  BY <1>4, <1>5, <2>3, <2>4, <2>5, <2>6, ReaderWalks
<1>10. CASE ~(InOrder(o.files, entry) /\ Intact(entry.digest))
  <2>1. open' = [open EXCEPT !.at = "refused", !.looked = entry.digest]
    BY <1>1, <1>2, <1>3, <1>10 DEF ReadEntry, Refuse
  <2>0. PICK w \in Writers : /\ SealedAs(w, o.root)
                            /\ \E C, index, h : Leads(w, C, o.root, index, h) /\ Stored(w, C, EntryCount(w))
    BY <1>5, SealedCover
  <2>2. PICK C, index, h : Leads(w, C, o.root, index, h) /\ Stored(w, C, EntryCount(w))
    BY <2>0
  <2>3. Good(entry.digest)
    BY <1>8, <2>2 DEF Stored
  <2>4. InOrder(o.files, entry) \/ DashExtends(StoreOf[w])
    BY <1>8, <2>2
  <2>5. Blamed(o.root, entry.digest)
    BY <1>10, <2>0, <2>3, <2>4 DEF Good, Blamed
  <2>6. PICK key : key = entry.digest
    OBVIOUS
  <2>7. QED  BY <1>1, <1>4, <1>5, <2>1, <2>5, <2>6, ReaderRefuses
<1>11. QED  BY <1>9, <1>10

\* The restored store is opened.
LEMMA ReaderOpens ==
  ASSUME Objects, ReaderInv(open), Opened
  PROVE  ReaderInv(open)'
<1>1. PICK o : o = open
  OBVIOUS
<1>2. /\ o.at = "walk" /\ o.todo = <<>> /\ UNCHANGED <<seal, tampered>>
  BY <1>1 DEF Opened
<1>3. /\ o = Reader(o.at, o.looked, o.todo, o.files, o.root)
      /\ \E w \in Writers : SealedAs(w, o.root)
      /\ Walking(o.root, o.todo, o.files)
  BY <1>1, <1>2 DEF ReaderInv, Idle
<1>4. Whole(o.root, o.files)
  BY <1>2, <1>3, WalkEnds
<1>5. [path |-> HeadPath, chunks |-> <<o.root.head>>] \in ToSet(o.files)
  <2>0. PICK w \in Writers : \E C, index, h : Leads(w, C, o.root, index, h)
    BY <1>3, SealedCover
  <2>1. PICK C, index, h : Leads(w, C, o.root, index, h)
    BY <2>0
  <2>2. ToSet(o.files) = Files(w)
    BY <1>4, <2>1 DEF Whole
  <2>3. o.root.head = StoreOf[w].head
    <3>1. o.root = Root(StoreOf[w].head, index)
      BY <2>1 DEF Leads
    <3>2. QED  BY <3>1 DEF Root
  <2>4. [path |-> HeadPath, chunks |-> <<StoreOf[w].head>>] \in Files(w)
    BY StoreFacts
  <2>5. QED  BY <2>2, <2>3, <2>4
<1>6. open' = [o EXCEPT !.at = "opened"]
  BY <1>1, <1>5 DEF Opened
<1>7. PICK t : t = Reader("opened", o.looked, o.todo, o.files, o.root)
  OBVIOUS
<1>8. open' = t
  <2>1. ASSUME NEW a, NEW b, NEW c, NEW d, NEW e
        PROVE  [Reader(a, b, c, d, e) EXCEPT !.at = "opened"] = Reader("opened", b, c, d, e)
    BY DEF Reader
  <2> DEFINE x == Reader(o.at, o.looked, o.todo, o.files, o.root)
  <2>2. [x EXCEPT !.at = "opened"] = t
    BY <1>7, <2>1
  <2> HIDE DEF x
  <2>3. o = x
    BY <1>3 DEF x
  <2>4. QED  BY <1>6, <2>2, <2>3
<1>9. t.at = "opened" /\ t.looked = o.looked /\ t.todo = o.todo /\ t.files = o.files /\ t.root = o.root
  BY <1>7 DEF Reader
<1>10. t = Reader(t.at, t.looked, t.todo, t.files, t.root)
  BY <1>7, <1>9
<1>11. Whole(t.root, t.files)
  BY <1>4, <1>9
<1>12. QED  BY <1>2, <1>3, <1>8, <1>9, <1>10, <1>11, ReaderWalks

SnapshotInv == Objects /\ ReaderInv(open)

\* The invariant of seals, objects and the reader holds at first and is kept.
LEMMA SnapshotInvariant == Spec => []SnapshotInv
<1>1. Init => SnapshotInv
  <2>1. Init => open = Idle
    BY DEF Init
  <2>2. Init => Objects
    BY ObjectsInit
  <2>3. QED  BY <2>1, <2>2 DEF SnapshotInv, ReaderInv
<1>2. SnapshotInv /\ [Next]_vars => SnapshotInv'
  <2>1. SUFFICES ASSUME Objects, ReaderInv(open), [Next]_vars  PROVE Objects' /\ ReaderInv(open)'
    BY DEF SnapshotInv
  <2>2. Objects'
    BY <2>1, ObjectsNext
  <2>3. CASE \E w \in Writers : BeginOpen(w)
    BY <2>1, <2>2, <2>3, ReaderBegins
  <2>4. CASE ReadRoot
    BY <2>1, <2>2, <2>4, ReaderRoot
  <2>5. CASE ReadIndex
    BY <2>1, <2>2, <2>5, ReaderIndex
  <2>6. CASE ReadEntry
    BY <2>1, <2>2, <2>6, ReaderEntry
  <2>7. CASE Opened
    BY <2>1, <2>2, <2>7, ReaderOpens
  <2>8. CASE UNCHANGED open
    <3>1. PICK o : o = open
      OBVIOUS
    <3>2. ReaderInv(o)'
      BY <2>1, <3>1, ReaderStays
    <3>3. open' = o
      BY <2>8, <3>1
    <3>4. ReaderInv(open)'
      BY <3>2, <3>3 DEF ReaderInv, SealedAs, Blamed
    <3>5. QED  BY <2>2, <3>4
  <2>9. QED
    <3>1. \/ \E w \in Writers : BeginOpen(w)
          \/ ReadRoot \/ ReadIndex \/ ReadEntry \/ Opened
          \/ UNCHANGED open
      BY <2>1 DEF Next, vars, BeginSeal, Put, Verify, Raise, Land, Tamper
    <3>2. QED  BY <2>2, <2>3, <2>4, <2>5, <2>6, <2>7, <2>8, <3>1
<1>3. QED  BY <1>1, <1>2, PTL DEF Spec

\* Whatever the writers, their stores, the races, the failures and the tampering:
\* a snapshot that open_snapshot opens is the store that was sealed.
THEOREM OpenedIsSealed == Spec => []OpensWhatWasSealed
<1>1. SnapshotInv => OpensWhatWasSealed
  <2>1. SUFFICES ASSUME SnapshotInv, open.at = "opened",
                        NEW w \in Writers, seal[w].at = "sealed", seal[w].wanted = open.root
                 PROVE  ToSet(open.files) = Files(w) /\ Len(open.files) = FileCount(w)
    BY DEF OpensWhatWasSealed, Files, FileCount
  <2>2. Whole(open.root, open.files)
    BY <2>1 DEF SnapshotInv, ReaderInv, Idle
  <2>3. Sealed(w, open.root)
    BY <2>1 DEF SnapshotInv, Objects, SealInv
  <2>4. PICK C, index, h : Leads(w, C, open.root, index, h)
    BY <2>3, Zenon DEF Sealed
  <2>5. QED  BY <2>2, <2>4 DEF Whole
<1>2. QED  BY <1>1, SnapshotInvariant, PTL

\* Neither a seal nor an open is refused without a reason.
THEOREM RefusalsHaveReasons == Spec => []OnlyTamperingRefuses
<1>1. SnapshotInv => OnlyTamperingRefuses
  <2>1. SUFFICES ASSUME SnapshotInv  PROVE OnlyTamperingRefuses
    OBVIOUS
  <2>2. \A w \in Writers : seal[w].at = "refused" => seal[w].wanted \in tampered
    BY <2>1 DEF SnapshotInv, Objects, SealInv
  <2>3. open.at = "refused" => Blamed(open.root, open.looked)
    BY <2>1 DEF SnapshotInv, ReaderInv, Idle
  <2>4. QED  BY <2>2, <2>3 DEF OnlyTamperingRefuses, Blamed, SealedAs
<1>2. QED  BY <1>1, SnapshotInvariant, PTL

\* put_immutable never adds a version to an object that nobody else touched:
\* racing, failed, repeated and late puts leave it at the bytes it names.
THEOREM WrittenOnce == Spec => []Histories
<1>1. SnapshotInv => Histories
  BY DEF SnapshotInv, Objects
<1>2. QED  BY <1>1, SnapshotInvariant, PTL
=============================================================================
