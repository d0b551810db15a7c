--------------------------- MODULE DagExecutor_proofs ---------------------------
(***************************************************************************)
(* Which graphs are run, for any finite set of nodes and any edges: what   *)
(* validateWorkflowGraph() finds by searching and sorting is what a graph  *)
(* has to be to be run to its end, every graph compiled of a template of   *)
(* Forge is one, and DagExecutor runs them in order.                       *)
(***************************************************************************)
EXTENDS DagExecutor, FiniteSetTheorems, WellFoundedInduction, TLAPS

-----------------------------------------------------------------------------
(* Sets of numbers.                                                         *)

LEMMA LeastOf ==
  ASSUME NEW S \in SUBSET Nat, S # {}
  PROVE  \E n \in S : \A m \in S : n <= m
<1>1. \E n \in S : \A m \in S : ~(<<m, n>> \in OpToRel(<, Nat))
  BY NatLessThanWellFounded, WFMin
<1>2. PICK n \in S : \A m \in S : ~(<<m, n>> \in OpToRel(<, Nat))
  BY <1>1
<1>3. \A m \in S : ~(m < n)
  BY <1>2 DEF OpToRel
<1> QED BY <1>3

-----------------------------------------------------------------------------
(* The levels of a search: what is reached from s over a relation R in d    *)
(* steps, up to K of them.                                                  *)

Image(R, X) == {r[2] : r \in {q \in R : q[1] \in X}}

IsSearch(L, R, s, K) ==
  L = [d \in 0..K |-> IF d = 0 THEN {s} ELSE L[d - 1] \cup Image(R, L[d - 1])]

LEMMA SearchExists ==
  ASSUME NEW R, NEW s, NEW K \in Nat
  PROVE  \E L : IsSearch(L, R, s, K)
<1> DEFINE Bad == {k \in Nat : ~\E L : IsSearch(L, R, s, k)}
<1>1. SUFFICES ASSUME Bad # {} PROVE FALSE
  OBVIOUS
<1>0. Bad \in SUBSET Nat
  OBVIOUS
<1>2. PICK k \in Bad : \A m \in Bad : k <= m
  BY <1>0, <1>1, LeastOf
<1>3. CASE k = 0
  <2> DEFINE L == [d \in 0..0 |-> {s}]
  <2>1. IsSearch(L, R, s, 0)
    BY DEF IsSearch
  <2> QED BY <1>2, <1>3, <2>1
<1>4. CASE k # 0
  <2>1. k - 1 \in Nat /\ k \in Nat /\ k - 1 \notin Bad
    BY <1>2, <1>4
  <2>2. PICK M : IsSearch(M, R, s, k - 1)
    BY <2>1
  <2> DEFINE L == [d \in 0..k |-> IF d = k THEN M[k - 1] \cup Image(R, M[k - 1]) ELSE M[d]]
  <2>3. \A d \in 0..(k - 1) : M[d] = IF d = 0 THEN {s} ELSE M[d - 1] \cup Image(R, M[d - 1])
    BY <2>1, <2>2 DEF IsSearch
  <2>4. \A d \in 0..k : L[d] = IF d = 0 THEN {s} ELSE L[d - 1] \cup Image(R, L[d - 1])
    <3> SUFFICES ASSUME NEW d \in 0..k
                 PROVE  L[d] = IF d = 0 THEN {s} ELSE L[d - 1] \cup Image(R, L[d - 1])
      OBVIOUS
    <3>1. CASE d = 0
      <4>1. 0 \in 0..(k - 1) /\ d # k
        BY <2>1, <1>4, <3>1
      <4>2. L[d] = M[0] /\ M[0] = {s}
        BY <2>3, <3>1, <4>1
      <4> QED BY <3>1, <4>2
    <3>2. CASE d # 0 /\ d # k
      <4>1. d \in 0..(k - 1) /\ d - 1 \in 0..(k - 1)
        BY <2>1, <3>2
      <4>2. L[d] = M[d] /\ L[d - 1] = M[d - 1]
        BY <2>1, <3>2, <4>1
      <4> QED BY <2>3, <3>2, <4>1, <4>2
    <3>3. CASE d = k
      <4>1. d - 1 \in 0..k /\ d - 1 # k /\ d - 1 = k - 1
        BY <2>1, <3>3, <1>4
      <4>2. L[d - 1] = M[k - 1]
        BY <4>1
      <4>3. L[d] = M[k - 1] \cup Image(R, M[k - 1])
        BY <3>3
      <4> QED BY <1>4, <3>3, <4>2, <4>3
    <3> QED BY <3>1, <3>2, <3>3
  <2>5. IsSearch(L, R, s, k)
    BY <2>4 DEF IsSearch
  <2> QED BY <1>2, <2>5
<1> QED BY <1>3, <1>4

Arcs(E) == {<<e.source, e.target>> : e \in Forward(E)}
Back(E) == {<<e.target, e.source>> : e \in Forward(E)}

LEMMA ReachIsSearch ==
  ASSUME NEW N, IsFiniteSet(N), NEW E, NEW s
  PROVE  \E L : /\ IsSearch(L, Arcs(E), s, Cardinality(N))
                /\ ReachableFrom(N, E, s) = L[Cardinality(N)]
<1> DEFINE K == Cardinality(N)
           P(L) == L = [d \in 0..K |->
                     IF d = 0 THEN {s}
                     ELSE L[d - 1] \cup
                            {e.target : e \in {f \in Forward(E) : f.source \in L[d - 1]}}]
           M == CHOOSE L : P(L)
<1>1. ReachableFrom(N, E, s) = M[K]
  BY DEF ReachableFrom
<1>2. \A X : Image(Arcs(E), X) = {e.target : e \in {f \in Forward(E) : f.source \in X}}
  <2> SUFFICES ASSUME NEW X, NEW x
               PROVE  x \in Image(Arcs(E), X) <=>
                        x \in {e.target : e \in {f \in Forward(E) : f.source \in X}}
    OBVIOUS
  <2>1. x \in Image(Arcs(E), X) <=> \E r \in Arcs(E) : r[1] \in X /\ x = r[2]
    BY DEF Image
  <2>2. (\E r \in Arcs(E) : r[1] \in X /\ x = r[2])
          <=> \E e \in Forward(E) : e.source \in X /\ x = e.target
    <3>1. ASSUME NEW r \in Arcs(E), r[1] \in X, x = r[2]
          PROVE  \E e \in Forward(E) : e.source \in X /\ x = e.target
      <4>1. PICK e \in Forward(E) : r = <<e.source, e.target>>
        BY DEF Arcs
      <4> QED BY <3>1, <4>1
    <3>2. ASSUME NEW e \in Forward(E), e.source \in X, x = e.target
          PROVE  \E r \in Arcs(E) : r[1] \in X /\ x = r[2]
      <4> DEFINE r == <<e.source, e.target>>
      <4>1. r \in Arcs(E) /\ r[1] = e.source /\ r[2] = e.target
        BY DEF Arcs
      <4> QED BY <3>2, <4>1
    <3> QED BY <3>1, <3>2
  <2> QED BY <2>1, <2>2
<1>3. \A L : P(L) <=> IsSearch(L, Arcs(E), s, K)
  BY <1>2 DEF IsSearch
<1>4. \E L : P(L)
  <2>1. K \in Nat
    BY FS_CardinalityType
  <2>2. PICK L : IsSearch(L, Arcs(E), s, K)
    BY <2>1, SearchExists
  <2> QED BY <1>3, <2>2
<1>5. P(M)
  BY <1>4
<1> QED BY <1>1, <1>3, <1>5

LEMMA SearchFacts ==
  ASSUME NEW N, NEW R \in SUBSET (N \X N), NEW s \in N, NEW K \in Nat, NEW L,
         IsSearch(L, R, s, K)
  PROVE  /\ L[0] = {s}
         /\ \A d \in 1..K : L[d] = L[d - 1] \cup Image(R, L[d - 1])
         /\ \A d \in 0..K : L[d] \subseteq N
<1>1. 0 \in 0..K /\ L[0] = {s}
  BY DEF IsSearch
<1>2. \A d \in 1..K : L[d] = L[d - 1] \cup Image(R, L[d - 1])
  <2> SUFFICES ASSUME NEW d \in 1..K PROVE L[d] = L[d - 1] \cup Image(R, L[d - 1])
    OBVIOUS
  <2>1. d \in 0..K /\ d # 0
    OBVIOUS
  <2> QED BY <2>1 DEF IsSearch
<1>3. \A X : Image(R, X) \subseteq N
  BY DEF Image
<1>4. \A d \in 0..K : L[d] \subseteq N
  <2> DEFINE Bad == {d \in 0..K : ~(L[d] \subseteq N)}
  <2> SUFFICES ASSUME Bad # {} PROVE FALSE
    OBVIOUS
  <2>0. Bad \in SUBSET Nat
    OBVIOUS
  <2>1. PICK d \in Bad : \A c \in Bad : d <= c
    BY <2>0, LeastOf
  <2>2. d # 0
    BY <1>1, <2>1
  <2>3. d \in 1..K /\ d - 1 \in 0..K /\ d - 1 \notin Bad
    BY <2>1, <2>2
  <2>4. L[d] \subseteq N
    BY <1>2, <1>3, <2>3
  <2> QED BY <2>1, <2>4
<1> QED BY <1>1, <1>2, <1>4

Grows(L, F, N, K) ==
  /\ F \in [SUBSET N -> SUBSET N]
  /\ \A d \in 0..K : L[d] \in SUBSET N
  /\ \A d \in 1..K : L[d] = F[L[d - 1]] /\ L[d - 1] \subseteq L[d]

\* What grows within N stops growing before it has more members than N.
LEMMA Saturates ==
  ASSUME NEW N, IsFiniteSet(N), NEW F, NEW K \in Nat, NEW L,
         Grows(L, F, N, K), K + Cardinality(L[0]) >= Cardinality(N)
  PROVE  L[K] = N \/ F[L[K]] = L[K]
<1>0. /\ \A d \in 0..K : L[d] \in SUBSET N
      /\ \A d \in 1..K : L[d] = F[L[d - 1]] /\ L[d - 1] \subseteq L[d]
  BY DEF Grows
<1>1. Cardinality(N) \in Nat /\ K \in 0..K /\ 0 \in 0..K
  BY FS_CardinalityType
<1>2. CASE \E d \in 1..K : L[d] = L[d - 1]
  <2>1. PICK d \in 1..K : L[d] = L[d - 1]
    BY <1>2
  <2> DEFINE Bad == {j \in d..K : L[j] # L[d]}
  <2>2. Bad = {}
    <3> SUFFICES ASSUME Bad # {} PROVE FALSE
      OBVIOUS
    <3>1. Bad \in SUBSET Nat
      BY <1>1
    <3>2. PICK j \in Bad : \A i \in Bad : j <= i
      BY <3>1, LeastOf
    <3>3. j # d /\ j \in d..K
      BY <3>2
    <3>4. j - 1 \in d..K /\ j - 1 \notin Bad /\ j \in 1..K
      BY <1>1, <3>2, <3>3
    <3>5. L[j - 1] = L[d]
      BY <3>4
    <3>6. L[j] = F[L[j - 1]] /\ L[d] = F[L[d - 1]]
      BY <1>0, <2>1, <3>4
    <3>7. L[j] = L[d]
      BY <2>1, <3>5, <3>6
    <3> QED BY <3>2, <3>7
  <2>3. L[K] = L[d]
    BY <1>1, <2>2
  <2>4. L[d] = F[L[d - 1]]
    BY <1>0, <2>1
  <2> QED BY <2>1, <2>3, <2>4
<1>3. CASE \A d \in 1..K : L[d] # L[d - 1]
  <2> DEFINE C0 == Cardinality(L[0])
             Bad == {d \in 0..K : ~(Cardinality(L[d]) >= C0 + d)}
  <2>1. \A d \in 0..K : IsFiniteSet(L[d]) /\ Cardinality(L[d]) \in Nat
    BY <1>0, FS_Subset, FS_CardinalityType
  <2>2. Bad = {}
    <3> SUFFICES ASSUME Bad # {} PROVE FALSE
      OBVIOUS
    <3>0. C0 \in Nat
      BY <1>1, <2>1
    <3>1. Bad \in SUBSET Nat
      BY <1>1
    <3>2. PICK d \in Bad : \A c \in Bad : d <= c
      BY <3>1, LeastOf
    <3>3. d # 0 /\ d \in 0..K
      BY <2>1, <3>0, <3>2
    <3>4. d - 1 \in 0..K /\ d \in 1..K /\ d - 1 \notin Bad
      BY <1>1, <3>2, <3>3
    <3>5. L[d - 1] \subseteq L[d] /\ L[d - 1] # L[d]
      BY <1>0, <1>3, <3>4
    <3>6. Cardinality(L[d - 1]) < Cardinality(L[d])
      BY <2>1, <3>3, <3>4, <3>5, FS_Subset
    <3>7. Cardinality(L[d - 1]) >= C0 + (d - 1)
      BY <3>4
    <3> HIDE DEF C0
    <3>8. Cardinality(L[d]) >= C0 + d
      BY <2>1, <3>0, <3>3, <3>4, <3>6, <3>7
    <3> QED BY <3>2, <3>8
  <2>3. Cardinality(L[K]) >= C0 + K
    BY <1>1, <2>2
  <2>4. Cardinality(L[K]) <= Cardinality(N) /\ Cardinality(L[K]) \in Nat /\ L[K] \subseteq N
    BY <1>0, <1>1, <2>1, FS_Subset
  <2>5. Cardinality(L[K]) = Cardinality(N)
    BY <1>1, <2>1, <2>3, <2>4
  <2>6. L[K] = N
    BY <2>4, <2>5, FS_Subset
  <2> QED BY <2>6
<1> QED BY <1>2, <1>3

\* A search of so many levels leaves out nothing that is one step further.
LEMMA SearchIsClosed ==
  ASSUME NEW N, IsFiniteSet(N), NEW R \in SUBSET (N \X N), NEW s \in N, NEW K \in Nat, NEW L,
         IsSearch(L, R, s, K), K + 1 >= Cardinality(N)
  PROVE  Image(R, L[K]) \subseteq L[K]
<1>4. /\ L[0] = {s}
      /\ \A d \in 1..K : L[d] = L[d - 1] \cup Image(R, L[d - 1])
      /\ \A d \in 0..K : L[d] \subseteq N
  BY SearchFacts
<1>1. PICK F : F = [X \in SUBSET N |-> X \cup Image(R, X)]
  OBVIOUS
<1>2. \A X : Image(R, X) \subseteq N
  BY DEF Image
<1>3. F \in [SUBSET N -> SUBSET N]
  BY <1>1, <1>2
<1>7. \A d \in 1..K : L[d] = F[L[d - 1]] /\ L[d - 1] \subseteq L[d]
  <2> SUFFICES ASSUME NEW d \in 1..K PROVE L[d] = F[L[d - 1]] /\ L[d - 1] \subseteq L[d]
    OBVIOUS
  <2>1. d - 1 \in 0..K
    OBVIOUS
  <2> QED BY <1>1, <1>4, <2>1
<1>8. K + Cardinality(L[0]) >= Cardinality(N)
  <2>1. Cardinality({s}) = 1 /\ Cardinality(N) \in Nat
    BY FS_Singleton, FS_CardinalityType
  <2> QED BY <1>4, <2>1
<1>9. \A d \in 0..K : L[d] \in SUBSET N
  BY <1>4
<1>10. L[K] = N \/ F[L[K]] = L[K]
  <2>1. Grows(L, F, N, K)
    BY <1>3, <1>7, <1>9 DEF Grows
  <2> QED BY <1>8, <2>1, Saturates
<1>11. L[K] \in SUBSET N
  BY <1>9
<1> QED BY <1>1, <1>2, <1>10, <1>11

-----------------------------------------------------------------------------
(* Walks over a relation.                                                   *)

IsWalk(R, N, w, k) == w \in [0..k -> N] /\ \A i \in 1..k : <<w[i - 1], w[i]>> \in R

Leg(R, N, a, b, k) == \E w : IsWalk(R, N, w, k) /\ w[0] = a /\ w[k] = b

Inverted(R) == {<<r[2], r[1]>> : r \in R}

LEMMA NoLeg ==
  ASSUME NEW N, NEW R, NEW a \in N
  PROVE  Leg(R, N, a, a, 0)
<1> DEFINE w == [i \in 0..0 |-> a]
<1>1. IsWalk(R, N, w, 0) /\ w[0] = a
  BY DEF IsWalk
<1> QED BY <1>1 DEF Leg

LEMMA LegEnds ==
  ASSUME NEW N, NEW R, NEW a, NEW b, NEW k \in Nat, Leg(R, N, a, b, k)
  PROVE  a \in N /\ b \in N /\ (k = 0 => a = b)
  BY DEF Leg, IsWalk

LEMMA LegAppend ==
  ASSUME NEW N, NEW R \in SUBSET (N \X N), NEW a, NEW b, NEW c, NEW k \in Nat,
         Leg(R, N, a, b, k), <<b, c>> \in R
  PROVE  Leg(R, N, a, c, k + 1)
<1>1. PICK v : IsWalk(R, N, v, k) /\ v[0] = a /\ v[k] = b
  BY DEF Leg
<1> DEFINE w == [i \in 0..(k + 1) |-> IF i = k + 1 THEN c ELSE v[i]]
<1>2. w \in [0..(k + 1) -> N]
  <2>1. c \in N
    OBVIOUS
  <2> QED BY <1>1, <2>1 DEF IsWalk
<1>3. \A i \in 1..(k + 1) : <<w[i - 1], w[i]>> \in R
  <2> SUFFICES ASSUME NEW i \in 1..(k + 1) PROVE <<w[i - 1], w[i]>> \in R
    OBVIOUS
  <2>1. CASE i = k + 1
    <3>1. w[i] = c /\ w[i - 1] = b
      BY <1>1, <2>1
    <3> QED BY <3>1
  <2>2. CASE i # k + 1
    <3>1. i \in 1..k /\ w[i] = v[i] /\ w[i - 1] = v[i - 1]
      BY <2>2
    <3> QED BY <1>1, <3>1 DEF IsWalk
  <2> QED BY <2>1, <2>2
<1>4. w[0] = a /\ w[k + 1] = c
  BY <1>1
<1> HIDE DEF w
<1>5. IsWalk(R, N, w, k + 1)
  BY <1>2, <1>3 DEF IsWalk
<1> QED BY <1>4, <1>5 DEF Leg

LEMMA LegReverse ==
  ASSUME NEW N, NEW R \in SUBSET (N \X N), NEW a, NEW b, NEW k \in Nat, Leg(R, N, a, b, k)
  PROVE  Leg(Inverted(R), N, b, a, k)
<1>1. PICK v : IsWalk(R, N, v, k) /\ v[0] = a /\ v[k] = b
  BY DEF Leg
<1> DEFINE w == [i \in 0..k |-> v[k - i]]
<1>2. w \in [0..k -> N]
  <2>1. \A i \in 0..k : k - i \in 0..k
    OBVIOUS
  <2> QED BY <1>1, <2>1 DEF IsWalk
<1>3. \A i \in 1..k : <<w[i - 1], w[i]>> \in Inverted(R)
  <2> SUFFICES ASSUME NEW i \in 1..k PROVE <<w[i - 1], w[i]>> \in Inverted(R)
    OBVIOUS
  <2> DEFINE j == k - i + 1
             r == <<v[j - 1], v[j]>>
  <2>1. j \in 1..k /\ k - i = j - 1 /\ k - (i - 1) = j
    OBVIOUS
  <2>2. w[i] = v[j - 1] /\ w[i - 1] = v[j]
    BY <2>1
  <2>3. r \in R /\ r[1] = v[j - 1] /\ r[2] = v[j]
    BY <1>1, <2>1 DEF IsWalk
  <2> HIDE DEF r, j, w
  <2>4. <<w[i - 1], w[i]>> = <<r[2], r[1]>>
    BY <2>2, <2>3
  <2> QED BY <2>3, <2>4 DEF Inverted
<1>4. w[0] = b /\ w[k] = a
  BY <1>1
<1> HIDE DEF w
<1>5. IsWalk(Inverted(R), N, w, k)
  BY <1>2, <1>3 DEF IsWalk
<1> QED BY <1>4, <1>5 DEF Leg

LEMMA InvertedTwice ==
  ASSUME NEW N, NEW R \in SUBSET (N \X N)
  PROVE  /\ Inverted(R) \in SUBSET (N \X N)
         /\ Inverted(Inverted(R)) = R
         /\ \A a, b : <<a, b>> \in R <=> <<b, a>> \in Inverted(R)
<1>1. Inverted(R) \in SUBSET (N \X N)
  BY DEF Inverted
<1>2. \A a, b : <<a, b>> \in R <=> <<b, a>> \in Inverted(R)
  <2> TAKE a, b
  <2>1. ASSUME <<a, b>> \in R PROVE <<b, a>> \in Inverted(R)
    BY <2>1 DEF Inverted
  <2>2. ASSUME <<b, a>> \in Inverted(R) PROVE <<a, b>> \in R
    <3>1. PICK r \in R : <<b, a>> = <<r[2], r[1]>>
      BY <2>2 DEF Inverted
    <3>2. r = <<r[1], r[2]>> /\ r[1] = a /\ r[2] = b
      BY <3>1
    <3> QED BY <3>2
  <2> QED BY <2>1, <2>2
<1>3. Inverted(Inverted(R)) = R
  <2>1. ASSUME NEW r \in R PROVE r \in Inverted(Inverted(R))
    <3>1. r = <<r[1], r[2]>>
      OBVIOUS
    <3>2. <<r[2], r[1]>> \in Inverted(R)
      BY DEF Inverted
    <3> DEFINE q == <<r[2], r[1]>>
    <3>3. q \in Inverted(R) /\ r = <<q[2], q[1]>>
      BY <3>1, <3>2
    <3> QED BY <3>3 DEF Inverted
  <2>2. ASSUME NEW r \in Inverted(Inverted(R)) PROVE r \in R
    <3>1. PICK q \in Inverted(R) : r = <<q[2], q[1]>>
      BY DEF Inverted
    <3>2. PICK p \in R : q = <<p[2], p[1]>>
      BY DEF Inverted
    <3>3. r = <<p[1], p[2]>> /\ p = <<p[1], p[2]>>
      BY <3>1, <3>2
    <3> QED BY <3>3
  <2> QED BY <2>1, <2>2
<1> QED BY <1>1, <1>2, <1>3

LEMMA LegPrepend ==
  ASSUME NEW N, NEW R \in SUBSET (N \X N), NEW a, NEW b, NEW c, NEW k \in Nat,
         Leg(R, N, b, c, k), <<a, b>> \in R
  PROVE  Leg(R, N, a, c, k + 1)
<1>1. Inverted(R) \in SUBSET (N \X N) /\ <<b, a>> \in Inverted(R)
  BY InvertedTwice
<1>2. Leg(Inverted(R), N, c, a, k + 1)
  BY <1>1, LegReverse, LegAppend
<1>3. Leg(Inverted(Inverted(R)), N, a, c, k + 1)
  BY <1>1, <1>2, LegReverse
<1> QED BY <1>3, InvertedTwice

LEMMA LegLast ==
  ASSUME NEW N, NEW R \in SUBSET (N \X N), NEW a, NEW b, NEW k \in Nat \ {0}, Leg(R, N, a, b, k)
  PROVE  \E c \in N : Leg(R, N, a, c, k - 1) /\ <<c, b>> \in R
<1>1. PICK v : IsWalk(R, N, v, k) /\ v[0] = a /\ v[k] = b
  BY DEF Leg
<1> DEFINE w == [i \in 0..(k - 1) |-> v[i]]
<1>2. w \in [0..(k - 1) -> N]
  BY <1>1 DEF IsWalk
<1>3. \A i \in 1..(k - 1) : <<w[i - 1], w[i]>> \in R
  <2> SUFFICES ASSUME NEW i \in 1..(k - 1) PROVE <<w[i - 1], w[i]>> \in R
    OBVIOUS
  <2>1. i \in 1..k /\ w[i] = v[i] /\ w[i - 1] = v[i - 1]
    OBVIOUS
  <2> QED BY <1>1, <2>1 DEF IsWalk
<1>4. w[0] = a /\ w[k - 1] = v[k - 1] /\ k \in 1..k
  BY <1>1
<1>5. <<v[k - 1], b>> \in R
  BY <1>1, <1>4 DEF IsWalk
<1> HIDE DEF w
<1>6. IsWalk(R, N, w, k - 1)
  BY <1>2, <1>3 DEF IsWalk
<1> QED BY <1>4, <1>5, <1>6 DEF Leg

LEMMA LegFirst ==
  ASSUME NEW N, NEW R \in SUBSET (N \X N), NEW a, NEW b, NEW k \in Nat \ {0}, Leg(R, N, a, b, k)
  PROVE  \E c \in N : Leg(R, N, c, b, k - 1) /\ <<a, c>> \in R
<1>1. Inverted(R) \in SUBSET (N \X N)
  BY InvertedTwice
<1>2. Leg(Inverted(R), N, b, a, k)
  BY LegReverse
<1>3. PICK c \in N : Leg(Inverted(R), N, b, c, k - 1) /\ <<c, a>> \in Inverted(R)
  BY <1>1, <1>2, LegLast
<1>4. Leg(Inverted(Inverted(R)), N, c, b, k - 1)
  BY <1>1, <1>3, LegReverse
<1> QED BY <1>3, <1>4, InvertedTwice

\* Where no step leaves X, no walk does.
LEMMA LegStays ==
  ASSUME NEW N, NEW R \in SUBSET (N \X N), NEW X, Image(R, X) \subseteq X,
         NEW a \in X, NEW b, NEW k \in Nat, Leg(R, N, a, b, k)
  PROVE  b \in X
<1> DEFINE Bad == {d \in Nat : \E c : Leg(R, N, a, c, d) /\ c \notin X}
<1>0. Bad \in SUBSET Nat
  OBVIOUS
<1> SUFFICES ASSUME Bad # {} PROVE FALSE
  OBVIOUS
<1>1. PICK d \in Bad : \A e \in Bad : d <= e
  BY <1>0, LeastOf
<1>2. PICK c : Leg(R, N, a, c, d) /\ c \notin X
  BY <1>1
<1>3. d # 0
  BY <1>2, LegEnds
<1>4. d \in Nat \ {0} /\ d - 1 \in Nat /\ d - 1 \notin Bad
  BY <1>1, <1>3
<1>5. PICK m \in N : Leg(R, N, a, m, d - 1) /\ <<m, c>> \in R
  BY <1>2, <1>4, LegLast
<1>6. m \in X
  BY <1>4, <1>5
<1>7. c \in Image(R, X)
  <2> DEFINE r == <<m, c>>
  <2>1. r \in R /\ r[1] \in X /\ r[2] = c
    BY <1>5, <1>6
  <2> QED BY <2>1 DEF Image
<1> QED BY <1>2, <1>7

\* What a search finds after K levels is what at most K steps lead to.
LEMMA SearchIsWalked ==
  ASSUME NEW N, NEW R \in SUBSET (N \X N), NEW s \in N, NEW K \in Nat, NEW L,
         IsSearch(L, R, s, K), NEW n \in L[K]
  PROVE  \E k \in 0..K : Leg(R, N, s, n, k)
<1> DEFINE Walked(d, m) == \E k \in 0..d : Leg(R, N, s, m, k)
           Bad == {d \in 0..K : \E m \in L[d] : ~Walked(d, m)}
<1>0. Bad \in SUBSET Nat
  OBVIOUS
<1>1. SUFFICES Bad = {}
  OBVIOUS
<1>2. SUFFICES ASSUME Bad # {} PROVE FALSE
  OBVIOUS
<1>3. /\ L[0] = {s}
      /\ \A d \in 1..K : L[d] = L[d - 1] \cup Image(R, L[d - 1])
      /\ \A d \in 0..K : L[d] \subseteq N
  BY SearchFacts
<1>4. PICK d \in Bad : \A c \in Bad : d <= c
  BY <1>0, <1>2, LeastOf
<1>5. PICK m \in L[d] : ~Walked(d, m)
  BY <1>4
<1>6. CASE d = 0
  <2>1. m = s /\ Leg(R, N, s, m, 0)
    BY <1>3, <1>5, <1>6, NoLeg
  <2> QED BY <1>5, <1>6, <2>1
<1>7. CASE d # 0
  <2>1. d \in 1..K /\ d - 1 \in 0..K /\ d - 1 \notin Bad
    BY <1>4, <1>7
  <2>2. CASE m \in L[d - 1]
    <3>1. PICK k \in 0..(d - 1) : Leg(R, N, s, m, k)
      BY <2>1, <2>2
    <3>2. k \in 0..d
      BY <2>1
    <3> QED BY <1>5, <3>1, <3>2
  <2>3. CASE m \in Image(R, L[d - 1])
    <3>1. PICK r \in R : r[1] \in L[d - 1] /\ m = r[2]
      BY <2>3 DEF Image
    <3>2. r = <<r[1], m>>
      BY <3>1
    <3>3. PICK k \in 0..(d - 1) : Leg(R, N, s, r[1], k)
      BY <2>1, <3>1
    <3>4. k + 1 \in 0..d /\ k \in Nat
      BY <2>1
    <3>5. Leg(R, N, s, m, k + 1)
      BY <3>1, <3>2, <3>3, <3>4, LegAppend
    <3> QED BY <1>5, <3>4, <3>5
  <2> QED BY <1>3, <1>5, <2>1, <2>2, <2>3
<1> QED BY <1>6, <1>7

\* Whatever can be walked at all can be walked in fewer steps than there are nodes.
LEMMA LegIsShort ==
  ASSUME NEW N, IsFiniteSet(N), NEW R \in SUBSET (N \X N), NEW a, NEW b, NEW k \in Nat,
         Leg(R, N, a, b, k), NEW K \in Nat, K + 1 >= Cardinality(N), NEW L, IsSearch(L, R, a, K)
  PROVE  b \in L[K]
<1>1. a \in N
  BY LegEnds
<1>2. Image(R, L[K]) \subseteq L[K]
  BY <1>1, SearchIsClosed
<1>3. a \in L[K]
  <2> DEFINE Bad == {d \in 0..K : a \notin L[d]}
  <2>1. Bad \in SUBSET Nat
    OBVIOUS
  <2> SUFFICES ASSUME Bad # {} PROVE FALSE
    OBVIOUS
  <2>2. PICK d \in Bad : \A e \in Bad : d <= e
    BY <2>1, LeastOf
  <2>3. L[0] = {a} /\ \A e \in 1..K : L[e] = L[e - 1] \cup Image(R, L[e - 1])
    BY <1>1, SearchFacts
  <2>4. d \in 1..K /\ d - 1 \in 0..K /\ d - 1 \notin Bad
    BY <2>2, <2>3
  <2>5. a \in L[d]
    BY <2>3, <2>4
  <2> QED BY <2>2, <2>5
<1> QED BY <1>2, <1>3, LegStays

-----------------------------------------------------------------------------
(* The searches of WorkflowGraph, and the paths of TemplateGraph.           *)

LEMMA BackIsInverted ==
  ASSUME NEW E
  PROVE  Back(E) = Inverted(Arcs(E))
<1>1. ASSUME NEW r \in Back(E) PROVE r \in Inverted(Arcs(E))
  <2>1. PICK e \in Forward(E) : r = <<e.target, e.source>>
    BY DEF Back
  <2> DEFINE q == <<e.source, e.target>>
  <2>2. q \in Arcs(E) /\ r = <<q[2], q[1]>>
    BY <2>1 DEF Arcs
  <2> QED BY <2>2 DEF Inverted
<1>2. ASSUME NEW r \in Inverted(Arcs(E)) PROVE r \in Back(E)
  <2>1. PICK q \in Arcs(E) : r = <<q[2], q[1]>>
    BY DEF Inverted
  <2>2. PICK e \in Forward(E) : q = <<e.source, e.target>>
    BY DEF Arcs
  <2>3. r = <<e.target, e.source>>
    BY <2>1, <2>2
  <2> QED BY <2>3 DEF Back
<1> QED BY <1>1, <1>2

LEMMA CanReachIsSearch ==
  ASSUME NEW N, IsFiniteSet(N), NEW E, NEW s
  PROVE  \E L : /\ IsSearch(L, Back(E), s, Cardinality(N))
                /\ CanReach(N, E, s) = L[Cardinality(N)]
<1> DEFINE K == Cardinality(N)
           P(L) == L = [d \in 0..K |->
                     IF d = 0 THEN {s}
                     ELSE L[d - 1] \cup
                            {e.source : e \in {f \in Forward(E) : f.target \in L[d - 1]}}]
           M == CHOOSE L : P(L)
<1>1. CanReach(N, E, s) = M[K]
  BY DEF CanReach
<1>2. \A X : Image(Back(E), X) = {e.source : e \in {f \in Forward(E) : f.target \in X}}
  <2> SUFFICES ASSUME NEW X, NEW x
               PROVE  x \in Image(Back(E), X) <=>
                        x \in {e.source : e \in {f \in Forward(E) : f.target \in X}}
    OBVIOUS
  <2>1. x \in Image(Back(E), X) <=> \E r \in Back(E) : r[1] \in X /\ x = r[2]
    BY DEF Image
  <2>2. (\E r \in Back(E) : r[1] \in X /\ x = r[2])
          <=> \E e \in Forward(E) : e.target \in X /\ x = e.source
    <3>1. ASSUME NEW r \in Back(E), r[1] \in X, x = r[2]
          PROVE  \E e \in Forward(E) : e.target \in X /\ x = e.source
      <4>1. PICK e \in Forward(E) : r = <<e.target, e.source>>
        BY DEF Back
      <4> QED BY <3>1, <4>1
    <3>2. ASSUME NEW e \in Forward(E), e.target \in X, x = e.source
          PROVE  \E r \in Back(E) : r[1] \in X /\ x = r[2]
      <4> DEFINE r == <<e.target, e.source>>
      <4>1. r \in Back(E) /\ r[1] = e.target /\ r[2] = e.source
        BY DEF Back
      <4> QED BY <3>2, <4>1
    <3> QED BY <3>1, <3>2
  <2> QED BY <2>1, <2>2
<1>3. \A L : P(L) <=> IsSearch(L, Back(E), s, K)
  BY <1>2 DEF IsSearch
<1>4. \E L : P(L)
  <2>1. K \in Nat
    BY FS_CardinalityType
  <2>2. PICK L : IsSearch(L, Back(E), s, K)
    BY <2>1, SearchExists
  <2> QED BY <1>3, <2>2
<1>5. P(M)
  BY <1>4
<1> QED BY <1>1, <1>3, <1>5

\* What a graph has to be for the lemmas below: finite, and its edges join nodes of it.
Joins(N, E) == IsFiniteSet(N) /\ Arcs(E) \in SUBSET (N \X N)

\* A walk of any length.
Walked(N, E, a, b) == \E k \in Nat : Leg(Arcs(E), N, a, b, k)

\* A walk of one edge or more.
Led(N, E, a, b) == \E k \in Nat \ {0} : Leg(Arcs(E), N, a, b, k)

LEMMA WalkedOrLed ==
  ASSUME NEW N, NEW E, NEW a \in N, NEW b
  PROVE  Walked(N, E, a, b) <=> a = b \/ Led(N, E, a, b)
<1>1. ASSUME Walked(N, E, a, b) PROVE a = b \/ Led(N, E, a, b)
  <2>1. PICK k \in Nat : Leg(Arcs(E), N, a, b, k)
    BY <1>1 DEF Walked
  <2>2. CASE k = 0
    BY <2>1, <2>2, LegEnds
  <2>3. CASE k # 0
    BY <2>1, <2>3 DEF Led
  <2> QED BY <2>2, <2>3
<1>2. Led(N, E, a, b) => Walked(N, E, a, b)
  BY DEF Led, Walked
<1>3. a = b => Walked(N, E, a, b)
  BY NoLeg DEF Walked
<1> QED BY <1>1, <1>2, <1>3

\* getReachableFrom() visits what can be walked to.
LEMMA ReachableIsWalked ==
  ASSUME NEW N, NEW E, Joins(N, E), NEW s \in N, NEW n
  PROVE  n \in ReachableFrom(N, E, s) <=> Walked(N, E, s, n)
<1>1. IsFiniteSet(N) /\ Arcs(E) \in SUBSET (N \X N) /\ Cardinality(N) \in Nat
  BY FS_CardinalityType DEF Joins
<1>2. PICK L : IsSearch(L, Arcs(E), s, Cardinality(N))
                /\ ReachableFrom(N, E, s) = L[Cardinality(N)]
  BY <1>1, ReachIsSearch
<1>3. ASSUME n \in ReachableFrom(N, E, s) PROVE Walked(N, E, s, n)
  <2>1. \E k \in 0..Cardinality(N) : Leg(Arcs(E), N, s, n, k)
    BY <1>1, <1>2, <1>3, SearchIsWalked
  <2> QED BY <1>1, <2>1 DEF Walked
<1>4. ASSUME NEW k \in Nat, Leg(Arcs(E), N, s, n, k) PROVE n \in ReachableFrom(N, E, s)
  BY <1>1, <1>2, <1>4, LegIsShort
<1> QED BY <1>3, <1>4 DEF Walked

LEMMA CanReachIsWalked ==
  ASSUME NEW N, NEW E, Joins(N, E), NEW s \in N, NEW n
  PROVE  n \in CanReach(N, E, s) <=> Walked(N, E, n, s)
<1>1. /\ IsFiniteSet(N) /\ Arcs(E) \in SUBSET (N \X N) /\ Cardinality(N) \in Nat
      /\ Back(E) \in SUBSET (N \X N) /\ Back(E) = Inverted(Arcs(E))
      /\ Inverted(Back(E)) = Arcs(E)
  BY FS_CardinalityType, BackIsInverted, InvertedTwice DEF Joins
<1>2. PICK L : IsSearch(L, Back(E), s, Cardinality(N))
                /\ CanReach(N, E, s) = L[Cardinality(N)]
  BY <1>1, CanReachIsSearch
<1>3. ASSUME n \in CanReach(N, E, s) PROVE Walked(N, E, n, s)
  <2>1. PICK k \in 0..Cardinality(N) : Leg(Back(E), N, s, n, k)
    BY <1>1, <1>2, <1>3, SearchIsWalked
  <2>2. Leg(Inverted(Back(E)), N, n, s, k)
    BY <1>1, <2>1, LegReverse
  <2> QED BY <1>1, <2>2 DEF Walked
<1>4. ASSUME NEW k \in Nat, Leg(Arcs(E), N, n, s, k) PROVE n \in CanReach(N, E, s)
  <2>1. Leg(Back(E), N, s, n, k)
    BY <1>1, <1>4, LegReverse
  <2> QED BY <1>1, <1>2, <2>1, LegIsShort
<1> QED BY <1>3, <1>4 DEF Walked

\* The paths that are short enough to be looked at are all that matter.
LEMMA LeadsIsLed ==
  ASSUME NEW nodes, NEW E, Joins(Ids(nodes), E), NEW a, NEW b
  PROVE  Leads(nodes, E, a, b) <=> Led(Ids(nodes), E, a, b)
<1> DEFINE N == Ids(nodes)
<1>1. IsFiniteSet(N) /\ Arcs(E) \in SUBSET (N \X N) /\ Cardinality(N) \in Nat
  BY FS_CardinalityType DEF Joins
<1>2. ASSUME Leads(nodes, E, a, b) PROVE Led(N, E, a, b)
  <2>0. PICK k \in 2..(Cardinality(N) + 1) : \E path \in [1..k -> N] :
              /\ path[1] = a /\ path[k] = b
              /\ \A i \in 1..(k - 1) :
                   \E e \in Forward(E) : e.source = path[i] /\ e.target = path[i + 1]
    BY <1>2 DEF Leads
  <2>1. PICK path \in [1..k -> N] :
              /\ path[1] = a /\ path[k] = b
              /\ \A i \in 1..(k - 1) :
                   \E e \in Forward(E) : e.source = path[i] /\ e.target = path[i + 1]
    BY <2>0
  <2> DEFINE w == [i \in 0..(k - 1) |-> path[i + 1]]
  <2>2. k - 1 \in Nat \ {0} /\ k \in Nat
    BY <1>1, <2>1
  <2>3. w \in [0..(k - 1) -> N]
    <3>1. \A i \in 0..(k - 1) : i + 1 \in 1..k
      BY <2>2
    <3> QED BY <2>1, <3>1
  <2>4. \A i \in 1..(k - 1) : <<w[i - 1], w[i]>> \in Arcs(E)
    <3> SUFFICES ASSUME NEW i \in 1..(k - 1) PROVE <<w[i - 1], w[i]>> \in Arcs(E)
      OBVIOUS
    <3>1. PICK e \in Forward(E) : e.source = path[i] /\ e.target = path[i + 1]
      BY <2>1
    <3>2. w[i - 1] = path[i] /\ w[i] = path[i + 1]
      BY <2>2
    <3> QED BY <3>1, <3>2 DEF Arcs
  <2>5. w[0] = a /\ w[k - 1] = b
    BY <2>1, <2>2
  <2> HIDE DEF w
  <2>6. IsWalk(Arcs(E), N, w, k - 1)
    BY <2>3, <2>4 DEF IsWalk
  <2> QED BY <2>2, <2>5, <2>6 DEF Led, Leg
<1>3. ASSUME Led(N, E, a, b) PROVE Leads(nodes, E, a, b)
  <2>1. PICK k \in Nat \ {0} : Leg(Arcs(E), N, a, b, k)
    BY <1>3 DEF Led
  <2>2. PICK c \in N : Leg(Arcs(E), N, c, b, k - 1) /\ <<a, c>> \in Arcs(E)
    BY <1>1, <2>1, LegFirst
  <2> DEFINE K == Cardinality(N) - 1
  <2>3. K \in Nat /\ K + 1 = Cardinality(N)
    <3>1. Cardinality(N) # 0
      BY <1>1, <2>2, FS_EmptySet
    <3> QED BY <1>1, <3>1
  <2> HIDE DEF K
  <2>4. PICK L : IsSearch(L, Arcs(E), c, K)
    BY <2>3, SearchExists
  <2>5. K + 1 >= Cardinality(N) /\ k - 1 \in Nat
    BY <1>1, <2>3
  <2>6. b \in L[K]
    BY <1>1, <2>2, <2>3, <2>4, <2>5, LegIsShort
  <2>7. PICK j \in 0..K : Leg(Arcs(E), N, c, b, j)
    BY <1>1, <2>3, <2>4, <2>6, SearchIsWalked
  <2>8. j \in Nat /\ Leg(Arcs(E), N, a, b, j + 1)
    BY <1>1, <2>2, <2>3, <2>7, LegPrepend
  <2>9. PICK w : IsWalk(Arcs(E), N, w, j + 1) /\ w[0] = a /\ w[j + 1] = b
    BY <2>8 DEF Leg
  <2> DEFINE path == [i \in 1..(j + 2) |-> w[i - 1]]
  <2>10. path \in [1..(j + 2) -> N]
    <3>1. \A i \in 1..(j + 2) : i - 1 \in 0..(j + 1)
      BY <2>8
    <3> QED BY <2>9, <3>1 DEF IsWalk
  <2>11. path[1] = a /\ path[j + 2] = b
    BY <2>8, <2>9
  <2>12. \A i \in 1..(j + 2 - 1) :
           \E e \in Forward(E) : e.source = path[i] /\ e.target = path[i + 1]
    <3> SUFFICES ASSUME NEW i \in 1..(j + 2 - 1)
                 PROVE  \E e \in Forward(E) : e.source = path[i] /\ e.target = path[i + 1]
      OBVIOUS
    <3>0. i \in 1..(j + 1)
      BY <2>8
    <3>1. <<w[i - 1], w[i]>> \in Arcs(E)
      BY <2>9, <3>0 DEF IsWalk
    <3>2. PICK e \in Forward(E) : <<w[i - 1], w[i]>> = <<e.source, e.target>>
      BY <3>1 DEF Arcs
    <3>3. path[i] = w[i - 1] /\ path[i + 1] = w[i]
      BY <2>8, <3>0
    <3> QED BY <3>2, <3>3
  <2>13. j + 2 \in 2..(Cardinality(N) + 1)
    BY <1>1, <2>3, <2>7, <2>8
  <2> HIDE DEF path
  <2> QED BY <2>10, <2>11, <2>12, <2>13, SMTT(30) DEF Leads
<1> QED BY <1>2, <1>3

-----------------------------------------------------------------------------
(* Sorting: what is never sorted lies behind or on a cycle.                 *)

SortedAfter(N, E, X) == {n \in N : Preds(E, n) \subseteq X}

IsSort(L, N, E, K) ==
  L = [d \in 0..K |-> IF d = 0 THEN {} ELSE SortedAfter(N, E, L[d - 1])]

LEMMA SortExists ==
  ASSUME NEW N, NEW E, NEW K \in Nat
  PROVE  \E L : IsSort(L, N, E, K)
<1> DEFINE Bad == {k \in Nat : ~\E L : IsSort(L, N, E, k)}
<1>1. SUFFICES ASSUME Bad # {} PROVE FALSE
  OBVIOUS
<1>0. Bad \in SUBSET Nat
  OBVIOUS
<1>2. PICK k \in Bad : \A m \in Bad : k <= m
  BY <1>0, <1>1, LeastOf
<1>3. CASE k = 0
  <2> DEFINE L == [d \in 0..0 |-> {}]
  <2>1. IsSort(L, N, E, 0)
    BY DEF IsSort
  <2> QED BY <1>2, <1>3, <2>1
<1>4. CASE k # 0
  <2>1. k - 1 \in Nat /\ k \in Nat /\ k - 1 \notin Bad
    BY <1>2, <1>4
  <2>2. PICK M : IsSort(M, N, E, k - 1)
    BY <2>1
  <2> DEFINE L == [d \in 0..k |-> IF d = k THEN SortedAfter(N, E, M[k - 1]) ELSE M[d]]
  <2>3. \A d \in 0..(k - 1) : M[d] = IF d = 0 THEN {} ELSE SortedAfter(N, E, M[d - 1])
    BY <2>1, <2>2 DEF IsSort
  <2>4. \A d \in 0..k : L[d] = IF d = 0 THEN {} ELSE SortedAfter(N, E, L[d - 1])
    <3> SUFFICES ASSUME NEW d \in 0..k
                 PROVE  L[d] = IF d = 0 THEN {} ELSE SortedAfter(N, E, L[d - 1])
      OBVIOUS
    <3>1. CASE d = 0
      <4>1. 0 \in 0..(k - 1) /\ d # k
        BY <2>1, <1>4, <3>1
      <4>2. L[d] = M[0] /\ M[0] = {}
        BY <2>3, <3>1, <4>1
      <4> QED BY <3>1, <4>2
    <3>2. CASE d # 0 /\ d # k
      <4>1. d \in 0..(k - 1) /\ d - 1 \in 0..(k - 1)
        BY <2>1, <3>2
      <4>2. L[d] = M[d] /\ L[d - 1] = M[d - 1]
        BY <2>1, <3>2, <4>1
      <4> QED BY <2>3, <3>2, <4>1, <4>2
    <3>3. CASE d = k
      <4>1. d - 1 \in 0..k /\ d - 1 # k /\ d - 1 = k - 1
        BY <2>1, <3>3, <1>4
      <4>2. L[d - 1] = M[k - 1]
        BY <4>1
      <4>3. L[d] = SortedAfter(N, E, M[k - 1])
        BY <3>3
      <4> QED BY <1>4, <3>3, <4>2, <4>3
    <3> QED BY <3>1, <3>2, <3>3
  <2>5. IsSort(L, N, E, k)
    BY <2>4 DEF IsSort
  <2> QED BY <1>2, <2>5
<1> QED BY <1>3, <1>4

LEMMA SortedIsSort ==
  ASSUME NEW nodes, NEW E, IsFiniteSet(Ids(nodes))
  PROVE  \E L : /\ IsSort(L, Ids(nodes), E, Cardinality(Ids(nodes)))
                /\ Sorted(nodes, E) = L[Cardinality(Ids(nodes))]
<1> DEFINE N == Ids(nodes)
           K == Cardinality(N)
           P(L) == L = [d \in 0..K |->
                     IF d = 0 THEN {} ELSE {n \in N : Preds(E, n) \subseteq L[d - 1]}]
           M == CHOOSE L : P(L)
<1>1. Sorted(nodes, E) = M[K]
  BY DEF Sorted
<1>2. \A L : P(L) <=> IsSort(L, N, E, K)
  BY DEF IsSort, SortedAfter
<1>3. \E L : P(L)
  BY <1>2, SortExists, FS_CardinalityType
<1>4. P(M)
  BY <1>3
<1> QED BY <1>1, <1>2, <1>4

LEMMA SortFacts ==
  ASSUME NEW N, NEW E, NEW K \in Nat, NEW L, IsSort(L, N, E, K)
  PROVE  /\ L[0] = {}
         /\ \A d \in 1..K : L[d] = SortedAfter(N, E, L[d - 1]) /\ L[d - 1] \subseteq L[d]
         /\ \A d \in 0..K : L[d] \subseteq N
<1>1. L[0] = {}
  BY DEF IsSort
<1>2. \A d \in 1..K : L[d] = SortedAfter(N, E, L[d - 1])
  <2> SUFFICES ASSUME NEW d \in 1..K PROVE L[d] = SortedAfter(N, E, L[d - 1])
    OBVIOUS
  <2>1. d \in 0..K /\ d # 0
    OBVIOUS
  <2> QED BY <2>1 DEF IsSort
<1>3. \A d \in 1..K : L[d - 1] \subseteq L[d]
  <2> DEFINE Bad == {d \in 1..K : ~(L[d - 1] \subseteq L[d])}
  <2>1. Bad \in SUBSET Nat
    OBVIOUS
  <2> SUFFICES ASSUME Bad # {} PROVE FALSE
    OBVIOUS
  <2>2. PICK d \in Bad : \A c \in Bad : d <= c
    BY <2>1, LeastOf
  <2>3. d # 1
    BY <1>1, <2>2
  <2>4. d \in 1..K /\ d - 1 \in 1..K /\ d - 1 \notin Bad
    BY <2>2, <2>3
  <2>5. L[d - 1 - 1] \subseteq L[d - 1]
    BY <2>4
  <2>6. L[d - 1] = SortedAfter(N, E, L[d - 1 - 1]) /\ L[d] = SortedAfter(N, E, L[d - 1])
    BY <1>2, <2>4
  <2>7. L[d - 1] \subseteq L[d]
    BY <2>5, <2>6 DEF SortedAfter
  <2> QED BY <2>2, <2>7
<1>4. \A d \in 0..K : L[d] \subseteq N
  <2> SUFFICES ASSUME NEW d \in 0..K PROVE L[d] \subseteq N
    OBVIOUS
  <2>1. CASE d = 0
    BY <1>1, <2>1
  <2>2. CASE d # 0
    BY <1>2, <2>2 DEF SortedAfter
  <2> QED BY <2>1, <2>2
<1> QED BY <1>1, <1>2, <1>3, <1>4

LEMMA SortIsClosed ==
  ASSUME NEW N, IsFiniteSet(N), NEW E, NEW L, IsSort(L, N, E, Cardinality(N))
  PROVE  /\ L[Cardinality(N)] \subseteq N
         /\ SortedAfter(N, E, L[Cardinality(N)]) \subseteq L[Cardinality(N)]
<1>1. PICK K \in Nat : K = Cardinality(N)
  BY FS_CardinalityType
<1>2. IsSort(L, N, E, K)
  BY <1>1
<1>3. /\ L[0] = {}
      /\ \A d \in 1..K : L[d] = SortedAfter(N, E, L[d - 1]) /\ L[d - 1] \subseteq L[d]
      /\ \A d \in 0..K : L[d] \subseteq N
  BY <1>2, SortFacts
<1>4. PICK F : F = [X \in SUBSET N |-> SortedAfter(N, E, X)]
  OBVIOUS
<1>5. F \in [SUBSET N -> SUBSET N]
  BY <1>4 DEF SortedAfter
<1>6. \A d \in 1..K : L[d] = F[L[d - 1]] /\ L[d - 1] \subseteq L[d]
  <2> SUFFICES ASSUME NEW d \in 1..K PROVE L[d] = F[L[d - 1]] /\ L[d - 1] \subseteq L[d]
    OBVIOUS
  <2>1. d - 1 \in 0..K
    OBVIOUS
  <2> QED BY <1>3, <1>4, <2>1
<1>7. \A d \in 0..K : L[d] \in SUBSET N
  BY <1>3
<1>8. Grows(L, F, N, K)
  BY <1>5, <1>6, <1>7 DEF Grows
<1>9. K + Cardinality(L[0]) >= Cardinality(N)
  BY <1>1, <1>3, FS_EmptySet
<1>10. L[K] = N \/ F[L[K]] = L[K]
  BY <1>8, <1>9, Saturates
<1>11. L[K] \in SUBSET N
  BY <1>7
<1>12. SortedAfter(N, E, L[K]) \subseteq L[K]
  BY <1>4, <1>10, <1>11 DEF SortedAfter
<1> QED BY <1>1, <1>11, <1>12

LEMMA PredsAreArcs ==
  ASSUME NEW E, NEW m, NEW n
  PROVE  m \in Preds(E, n) <=> <<m, n>> \in Arcs(E)
<1>1. ASSUME m \in Preds(E, n) PROVE <<m, n>> \in Arcs(E)
  BY <1>1 DEF Preds, In, Arcs
<1>2. ASSUME <<m, n>> \in Arcs(E) PROVE m \in Preds(E, n)
  <2>1. PICK e \in Forward(E) : <<m, n>> = <<e.source, e.target>>
    BY <1>2 DEF Arcs
  <2>2. e \in Forward(E) /\ e.source = m /\ e.target = n
    BY <2>1
  <2> QED BY <2>2 DEF Preds, In
<1> QED BY <1>1, <1>2

Acyclic(N, E) == \A n \in N : ~Led(N, E, n, n)

\* The nodes can be numbered so that every forward edge rises.
Ordered(N, E) ==
  \E position \in [N -> 1..Cardinality(N)] :
    \A e \in Forward(E) : position[e.source] < position[e.target]

LEMMA SortedHasOrder ==
  ASSUME NEW nodes, NEW E, Joins(Ids(nodes), E), IsDag(nodes, E)
  PROVE  Ordered(Ids(nodes), E)
<1>1. PICK N : N = Ids(nodes)
  OBVIOUS
<1>2. IsFiniteSet(N) /\ Arcs(E) \in SUBSET (N \X N)
  BY <1>1 DEF Joins
<1>3. PICK K \in Nat : K = Cardinality(N)
  BY <1>2, FS_CardinalityType
<1>4. PICK L : IsSort(L, N, E, K) /\ L[K] = N
  BY <1>1, <1>2, <1>3, SortedIsSort DEF IsDag
<1>5. /\ L[0] = {}
      /\ \A d \in 1..K : L[d] = SortedAfter(N, E, L[d - 1]) /\ L[d - 1] \subseteq L[d]
  BY <1>4, SortFacts
<1> DEFINE First(n, d) == d \in 1..K /\ n \in L[d] /\ \A c \in 1..K : n \in L[c] => d <= c
<1>6. \A n \in N : \E d \in 1..K : First(n, d)
  <2> SUFFICES ASSUME NEW n \in N PROVE \E d \in 1..K : First(n, d)
    OBVIOUS
  <2> DEFINE At == {d \in 1..K : n \in L[d]}
  <2>1. At \in SUBSET Nat
    OBVIOUS
  <2>2. K # 0
    BY <1>4, <1>5
  <2>3. K \in At
    BY <1>4, <2>2
  <2>4. PICK d \in At : \A c \in At : d <= c
    BY <2>1, <2>3, LeastOf
  <2> QED BY <2>4
<1> DEFINE position == [n \in N |-> CHOOSE d \in 1..K : First(n, d)]
<1>7. \A n \in N : position[n] \in 1..K /\ First(n, position[n])
  BY <1>6
<1>8. position \in [N -> 1..K]
  BY <1>7
<1>9. \A e \in Forward(E) : position[e.source] < position[e.target]
  <2> SUFFICES ASSUME NEW e \in Forward(E) PROVE position[e.source] < position[e.target]
    OBVIOUS
  <2>1. <<e.source, e.target>> \in Arcs(E)
    BY DEF Arcs
  <2>2. e.source \in N /\ e.target \in N /\ e.source \in Preds(E, e.target)
    BY <1>2, <2>1, PredsAreArcs
  <2>3. PICK d \in 1..K : d = position[e.target] /\ First(e.target, d)
    BY <1>7, <2>2
  <2>4. e.source \in L[d - 1]
    BY <1>5, <2>2, <2>3 DEF SortedAfter
  <2>5. d - 1 \in 1..K
    BY <1>5, <2>3, <2>4
  <2>6. position[e.source] <= d - 1
    BY <1>7, <2>2, <2>4, <2>5
  <2>7. position[e.source] \in 1..K
    BY <1>7, <2>2
  <2> QED BY <2>3, <2>5, <2>6, <2>7
<1> HIDE DEF position
<1> QED BY <1>1, <1>3, <1>8, <1>9 DEF Ordered

LEMMA OrderedIsAcyclic ==
  ASSUME NEW N, NEW E, Joins(N, E), NEW position \in [N -> Nat],
         \A e \in Forward(E) : position[e.source] < position[e.target]
  PROVE  /\ \A a, b : Led(N, E, a, b) => position[a] < position[b]
         /\ Acyclic(N, E)
<1>1. Arcs(E) \in SUBSET (N \X N)
  BY DEF Joins
<1>2. \A a, b : <<a, b>> \in Arcs(E) => position[a] < position[b] /\ a \in N /\ b \in N
  <2> SUFFICES ASSUME NEW a, NEW b, <<a, b>> \in Arcs(E)
               PROVE  position[a] < position[b] /\ a \in N /\ b \in N
    OBVIOUS
  <2>1. PICK e \in Forward(E) : <<a, b>> = <<e.source, e.target>>
    BY DEF Arcs
  <2> QED BY <1>1, <2>1
<1>3. ASSUME NEW a, NEW b, Led(N, E, a, b) PROVE position[a] < position[b]
  <2>1. PICK k \in Nat \ {0} : Leg(Arcs(E), N, a, b, k)
    BY <1>3 DEF Led
  <2>2. PICK c \in N : Leg(Arcs(E), N, a, c, k - 1) /\ <<c, b>> \in Arcs(E)
    BY <1>1, <2>1, LegLast
  <2>3. a \in N /\ k - 1 \in Nat
    BY <2>1, LegEnds
  <2> DEFINE X == {n \in N : position[a] <= position[n]}
  <2>4. Image(Arcs(E), X) \subseteq X
    <3> SUFFICES ASSUME NEW r \in Arcs(E), r[1] \in X PROVE r[2] \in X
      BY DEF Image
    <3>1. r = <<r[1], r[2]>>
      BY <1>1
    <3>2. position[r[1]] < position[r[2]] /\ r[1] \in N /\ r[2] \in N
      BY <1>2, <3>1
    <3>3. position[a] \in Nat /\ position[r[1]] \in Nat /\ position[r[2]] \in Nat
      BY <2>3, <3>2
    <3> QED BY <3>2, <3>3
  <2>5. a \in X
    BY <2>3
  <2> HIDE DEF X
  <2>6. c \in X
    BY <1>1, <2>2, <2>3, <2>4, <2>5, LegStays
  <2>7. position[a] <= position[c] /\ position[c] < position[b] /\ b \in N
    BY <1>2, <2>2, <2>6 DEF X
  <2>8. position[a] \in Nat /\ position[b] \in Nat /\ position[c] \in Nat
    BY <2>2, <2>3, <2>7
  <2> QED BY <2>7, <2>8
<1>4. Acyclic(N, E)
  <2> SUFFICES ASSUME NEW n \in N, Led(N, E, n, n) PROVE FALSE
    BY DEF Acyclic
  <2>1. position[n] < position[n] /\ position[n] \in Nat
    BY <1>3
  <2> QED BY <2>1
<1> QED BY <1>3, <1>4

\* Who leads to n.
Ancestors(N, E, n) == {m \in N : Led(N, E, m, n)}

LEMMA AcyclicIsSorted ==
  ASSUME NEW nodes, NEW E, Joins(Ids(nodes), E), Acyclic(Ids(nodes), E)
  PROVE  IsDag(nodes, E)
<1>1. PICK N : N = Ids(nodes)
  OBVIOUS
<1>2. IsFiniteSet(N) /\ Arcs(E) \in SUBSET (N \X N)
  BY <1>1 DEF Joins
<1>3. PICK L : IsSort(L, N, E, Cardinality(N)) /\ Sorted(nodes, E) = L[Cardinality(N)]
  BY <1>1, <1>2, SortedIsSort
<1>4. PICK M : M = Sorted(nodes, E)
  OBVIOUS
<1>5. M \subseteq N /\ SortedAfter(N, E, M) \subseteq M
  BY <1>2, <1>3, <1>4, SortIsClosed
<1>6. SUFFICES ASSUME M # N PROVE FALSE
  BY <1>1, <1>4 DEF IsDag
<1> DEFINE Size(n) == Cardinality(Ancestors(N, E, n))
           Sizes   == {Size(n) : n \in N \ M}
<1>7. \A n \in N : IsFiniteSet(Ancestors(N, E, n)) /\ Size(n) \in Nat
  BY <1>2, FS_Subset, FS_CardinalityType DEF Ancestors
<1>8. Sizes \in SUBSET Nat /\ Sizes # {}
  BY <1>5, <1>6, <1>7
<1>9. PICK z \in Sizes : \A y \in Sizes : z <= y
  <2> HIDE DEF Sizes
  <2> QED BY <1>8, LeastOf
<1>10. PICK n \in N \ M : z = Size(n)
  BY <1>9
<1>11. PICK m \in Preds(E, n) : m \notin M
  BY <1>5, <1>10 DEF SortedAfter
<1>12. <<m, n>> \in Arcs(E) /\ m \in N \ M
  BY <1>2, <1>11, PredsAreArcs
<1>13. Ancestors(N, E, m) \subseteq Ancestors(N, E, n)
  <2> SUFFICES ASSUME NEW x \in N, Led(N, E, x, m) PROVE Led(N, E, x, n)
    BY DEF Ancestors
  <2>1. PICK k \in Nat \ {0} : Leg(Arcs(E), N, x, m, k)
    BY DEF Led
  <2>2. Leg(Arcs(E), N, x, n, k + 1) /\ k + 1 \in Nat \ {0}
    BY <1>2, <1>12, <2>1, LegAppend
  <2> QED BY <2>2 DEF Led
<1>14. m \in Ancestors(N, E, n)
  <2>1. Leg(Arcs(E), N, m, n, 0 + 1)
    BY <1>2, <1>12, NoLeg, LegAppend
  <2> QED BY <1>12, <2>1 DEF Ancestors, Led
<1>15. m \notin Ancestors(N, E, m)
  BY <1>1, <1>12 DEF Ancestors, Acyclic
<1>16. Size(n) <= Size(m)
  BY <1>9, <1>10, <1>12
<1>17. Size(m) <= Size(n) /\ (Size(n) = Size(m) => Ancestors(N, E, n) = Ancestors(N, E, m))
  BY <1>7, <1>10, <1>13, FS_Subset
<1> HIDE DEF Size
<1>18. Size(n) = Size(m)
  BY <1>7, <1>10, <1>12, <1>16, <1>17
<1> QED BY <1>14, <1>15, <1>17, <1>18

-----------------------------------------------------------------------------
(* What validateWorkflowGraph() accepts.                                    *)

LEMMA IdsAreFinite ==
  ASSUME NEW nodes, IsFiniteSet(nodes)
  PROVE  IsFiniteSet(Ids(nodes))
<1> DEFINE f == [n \in nodes |-> n.id]
<1>1. f \in Surjection(nodes, Ids(nodes))
  BY DEF Surjection, Ids
<1> QED BY <1>1, FS_Surjection

LEMMA EndsJoin ==
  ASSUME NEW nodes, IsFiniteSet(nodes), NEW E, EndsExist(nodes, E)
  PROVE  Joins(Ids(nodes), E)
<1>1. \A r \in Arcs(E) : r \in Ids(nodes) \X Ids(nodes)
  BY DEF Arcs, EndsExist, Forward
<1> QED BY <1>1, IdsAreFinite DEF Joins

\* getLoopBody() gives what lies between.
LEMMA BodyIsBetween ==
  ASSUME NEW nodes, NEW E, Joins(Ids(nodes), E),
         NEW e, e.source \in Ids(nodes), e.target \in Ids(nodes)
  PROVE  Body(nodes, E, e) = Between(nodes, E, e.target, e.source)
<1> DEFINE N == Ids(nodes)
<1> SUFFICES ASSUME NEW n
             PROVE  n \in Body(nodes, E, e) <=> n \in Between(nodes, E, e.target, e.source)
  OBVIOUS
<1>1. n \in Body(nodes, E, e) <=> Walked(N, E, e.target, n) /\ Walked(N, E, n, e.source)
  BY ReachableIsWalked, CanReachIsWalked DEF Body, LoopBody
<1>2. Walked(N, E, e.target, n) => n \in N
  BY LegEnds DEF Walked
<1>3. ASSUME n \in N
      PROVE  /\ Walked(N, E, e.target, n) <=> n = e.target \/ Leads(nodes, E, e.target, n)
             /\ Walked(N, E, n, e.source) <=> n = e.source \/ Leads(nodes, E, n, e.source)
  <2>1. Walked(N, E, e.target, n) <=> n = e.target \/ Led(N, E, e.target, n)
    BY WalkedOrLed
  <2>2. Walked(N, E, n, e.source) <=> n = e.source \/ Led(N, E, n, e.source)
    BY <1>3, WalkedOrLed
  <2>3. /\ Leads(nodes, E, e.target, n) <=> Led(N, E, e.target, n)
        /\ Leads(nodes, E, n, e.source) <=> Led(N, E, n, e.source)
    BY LeadsIsLed
  <2> QED BY <2>1, <2>2, <2>3
<1>4. n \in Between(nodes, E, e.target, e.source) <=>
        /\ n \in N
        /\ n = e.target \/ Leads(nodes, E, e.target, n)
        /\ n = e.source \/ Leads(nodes, E, n, e.source)
  BY DEF Between
<1> QED BY <1>1, <1>2, <1>3, <1>4

LEMMA LoopLeadsBack ==
  ASSUME NEW nodes, NEW E, Joins(Ids(nodes), E), Acyclic(Ids(nodes), E),
         NEW e, e.source \in Ids(nodes), e.target \in Ids(nodes)
  PROVE  IsLoop(nodes, E, e) <=> Leads(nodes, E, e.target, e.source)
<1> DEFINE N == Ids(nodes)
           s == e.source
           t == e.target
<1>1. Body(nodes, E, e) = Between(nodes, E, t, s)
  BY BodyIsBetween
<1>2. Leads(nodes, E, t, s) => s # t
  BY LeadsIsLed DEF Acyclic
<1>3. s # t => ({s, t} \subseteq Between(nodes, E, t, s) <=> Leads(nodes, E, t, s))
  BY DEF Between
<1> QED BY <1>1, <1>2, <1>3 DEF IsLoop

LEMMA DagIsAcyclic ==
  ASSUME NEW nodes, NEW E, Joins(Ids(nodes), E)
  PROVE  IsDag(nodes, E) <=> \A n \in Ids(nodes) : ~Leads(nodes, E, n, n)
<1> DEFINE N == Ids(nodes)
<1>1. (\A n \in N : ~Leads(nodes, E, n, n)) <=> Acyclic(N, E)
  BY LeadsIsLed DEF Acyclic
<1>2. ASSUME IsDag(nodes, E) PROVE Acyclic(N, E)
  <2>1. PICK position \in [N -> 1..Cardinality(N)] :
              \A e \in Forward(E) : position[e.source] < position[e.target]
    BY <1>2, SortedHasOrder DEF Ordered
  <2>2. position \in [N -> Nat]
    BY <2>1, FS_CardinalityType DEF Joins
  <2> QED BY <2>1, <2>2, OrderedIsAcyclic
<1>3. Acyclic(N, E) => IsDag(nodes, E)
  BY AcyclicIsSorted
<1> QED BY <1>1, <1>2, <1>3

\* validateWorkflowGraph() accepts exactly the graphs that can be run: the searches and the
\* sort it consists of find what a definition without any search asks for.
THEOREM ValidGraphsAreSound ==
  ASSUME NEW nodes, IsFiniteSet(nodes), NEW edges
  PROVE  ValidGraph(nodes, edges) <=>
           EndsExist(nodes, edges) /\ Sound(nodes, edges) /\ RoutersAreClear(nodes, edges)
<1> SUFFICES ASSUME EndsExist(nodes, edges)
             PROVE  ValidGraph(nodes, edges) <=>
                      Sound(nodes, edges) /\ RoutersAreClear(nodes, edges)
  BY DEF ValidGraph
<1> DEFINE N == Ids(nodes)
<1>1. Joins(N, edges)
  BY EndsJoin
<1>2. \A e \in Feedback(edges) : e.source \in N /\ e.target \in N
  BY DEF EndsExist, Feedback
<1>3. IsDag(nodes, edges) <=> \A n \in N : ~Leads(nodes, edges, n, n)
  BY <1>1, DagIsAcyclic
<1>4. ASSUME IsDag(nodes, edges)
      PROVE  \A e \in Feedback(edges) :
               IsLoop(nodes, edges, e) <=> Leads(nodes, edges, e.target, e.source)
  <2>1. Acyclic(N, edges)
    BY <1>1, <1>3, <1>4, LeadsIsLed DEF Acyclic
  <2> QED BY <1>1, <1>2, <2>1, LoopLeadsBack
<1>5. LoopsAreApart(nodes, edges) <=>
        \A e, f \in Feedback(edges) :
          <<e.source, e.target>> # <<f.source, f.target>> =>
            \A n \in N : ~(/\ n \in Between(nodes, edges, e.target, e.source)
                           /\ n \in Between(nodes, edges, f.target, f.source))
  <2>1. \A e \in Feedback(edges) :
          /\ Body(nodes, edges, e) = Between(nodes, edges, e.target, e.source)
          /\ Between(nodes, edges, e.target, e.source) \subseteq N
    BY <1>1, <1>2, BodyIsBetween DEF Between
  <2>2. \A e, f : SameLoop(e, f) <=> <<e.source, e.target>> = <<f.source, f.target>>
    BY DEF SameLoop
  <2>3. \A e, f \in Feedback(edges) :
          (Body(nodes, edges, e) \cap Body(nodes, edges, f) = {}) <=>
            \A n \in N : ~(/\ n \in Between(nodes, edges, e.target, e.source)
                           /\ n \in Between(nodes, edges, f.target, f.source))
    <3> SUFFICES ASSUME NEW e \in Feedback(edges), NEW f \in Feedback(edges)
                 PROVE  (Body(nodes, edges, e) \cap Body(nodes, edges, f) = {}) <=>
                          \A n \in N :
                            ~(/\ n \in Between(nodes, edges, e.target, e.source)
                              /\ n \in Between(nodes, edges, f.target, f.source))
      OBVIOUS
    <3>1. /\ Body(nodes, edges, e) = Between(nodes, edges, e.target, e.source)
          /\ Body(nodes, edges, f) = Between(nodes, edges, f.target, f.source)
          /\ Between(nodes, edges, e.target, e.source) \subseteq N
      BY <2>1
    <3> QED BY <3>1
  <2> QED BY <2>2, <2>3 DEF LoopsAreApart
<1> QED BY <1>3, <1>4, <1>5 DEF ValidGraph, Sound

\* What a run of the GraphExecutor takes for granted of its template, that the nodes can be
\* numbered along the forward edges, is what validateWorkflowGraph() makes sure of.
THEOREM ValidGraphsHaveAnOrder ==
  ASSUME NEW nodes, IsFiniteSet(nodes), NEW edges, ValidGraph(nodes, edges)
  PROVE  /\ \A e \in edges : e.source \in Ids(nodes) /\ e.target \in Ids(nodes)
         /\ \E position \in [Ids(nodes) -> 1..Cardinality(Ids(nodes))] :
              \A e \in Forward(edges) : position[e.source] < position[e.target]
<1>1. EndsExist(nodes, edges) /\ IsDag(nodes, edges)
  BY DEF ValidGraph
<1>2. Ordered(Ids(nodes), edges)
  BY <1>1, EndsJoin, SortedHasOrder
<1> QED BY <1>1, <1>2 DEF Ordered, EndsExist

-----------------------------------------------------------------------------
(* What compileLinearTemplateToGraph() makes of a template of Forge.        *)

LEMMA LastStepFound ==
  ASSUME NEW steps \in Seq(STRING), NEW role
  PROVE  /\ LastStep(steps, role) \in 0..Len(steps)
         /\ LastStep(steps, role) # 0 <=> role \in {steps[i] : i \in DOMAIN steps}
<1> DEFINE at == {i \in DOMAIN steps : steps[i] = role}
           n  == Len(steps)
<1>1. n \in Nat /\ DOMAIN steps = 1..n
  OBVIOUS
<1>2. CASE at = {}
  <2>1. LastStep(steps, role) = 0
    BY <1>2 DEF LastStep
  <2> QED BY <1>1, <1>2, <2>1
<1>3. CASE at # {}
  <2> DEFINE Rest == {n - i : i \in at}
  <2>1. Rest \in SUBSET Nat /\ Rest # {}
    BY <1>1, <1>3
  <2>2. PICK r \in Rest : \A q \in Rest : r <= q
    <3> HIDE DEF Rest
    <3> QED BY <2>1, LeastOf
  <2>3. PICK i \in at : r = n - i
    BY <2>2
  <2>4. \A j \in at : j <= i
    <3> SUFFICES ASSUME NEW j \in at PROVE j <= i
      OBVIOUS
    <3>1. n - i <= n - j
      BY <2>2, <2>3
    <3>2. i \in Nat /\ j \in Nat
      BY <1>1
    <3> QED BY <1>1, <3>1, <3>2
  <2>5. LastStep(steps, role) = CHOOSE l \in at : \A j \in at : j <= l
    BY <1>3 DEF LastStep
  <2>6. LastStep(steps, role) \in at
    <3> HIDE DEF at
    <3> QED BY <2>4, <2>5
  <2> QED BY <1>1, <1>3, <2>6
<1> QED BY <1>2, <1>3

LEMMA CompiledIsValid ==
  ASSUME NEW steps \in BuiltIn
  PROVE  /\ IsFiniteSet(CompiledNodes(steps))
         /\ ValidGraph(CompiledNodes(steps), CompiledEdges(steps))
<1> DEFINE n           == Len(steps)
           E           == CompiledEdges(steps)
           implementer == LastStep(steps, "implementer")
           reviewer    == LastStep(steps, "reviewer")
<1>1. steps \in Seq(STRING) /\ n \in Nat /\ DOMAIN steps = 1..n
  BY DagAssumption
<1>2. /\ implementer \in 0..n /\ reviewer \in 0..n
      /\ implementer # 0 /\ reviewer # 0 => implementer < reviewer
  <2>1. /\ implementer # 0 <=> "implementer" \in {steps[i] : i \in DOMAIN steps}
        /\ reviewer # 0 <=> "reviewer" \in {steps[i] : i \in DOMAIN steps}
    BY <1>1, LastStepFound
  <2> QED BY <1>1, <2>1, LastStepFound, DagAssumption
<1>3. Ids(CompiledNodes(steps)) = 1..n
  <2>1. ASSUME NEW x \in Ids(CompiledNodes(steps)) PROVE x \in 1..n
    BY <1>1 DEF Ids, CompiledNodes
  <2>2. ASSUME NEW i \in 1..n PROVE i \in Ids(CompiledNodes(steps))
    <3> DEFINE node == [id |-> i, type |-> TypeOf(steps[i])]
    <3>1. node \in CompiledNodes(steps) /\ node.id = i
      BY <1>1 DEF CompiledNodes
    <3> QED BY <3>1 DEF Ids
  <2> QED BY <2>1, <2>2
<1>4. IsFiniteSet(CompiledNodes(steps))
  <2> DEFINE f == [i \in 1..n |-> [id |-> i, type |-> TypeOf(steps[i])]]
  <2>1. f \in Surjection(1..n, CompiledNodes(steps))
    BY <1>1 DEF Surjection, CompiledNodes
  <2>2. IsFiniteSet(1..n)
    BY <1>1, FS_Interval
  <2> QED BY <2>1, <2>2, FS_Surjection
<1>5. ASSUME NEW e \in E
      PROVE  \/ /\ \E i \in 2..n : e = Link(i - 1, i, FALSE)
                /\ e.source \in 1..n /\ e.target \in 1..n /\ e.target = e.source + 1
                /\ ~e.isFeedback /\ ~e.conditional /\ ~e.isDefault
             \/ /\ e = Link(reviewer, implementer, TRUE)
                /\ implementer # 0 /\ reviewer # 0 /\ e.isFeedback
                /\ e.source = reviewer /\ e.target = implementer
  <2>1. CASE \E i \in 2..n : e = Link(i - 1, i, FALSE)
    <3>1. PICK i \in 2..n : e = Link(i - 1, i, FALSE)
      BY <2>1
    <3>2. i \in 1..n /\ i - 1 \in 1..n /\ i = (i - 1) + 1
      BY <1>1
    <3>3. /\ e.source = i - 1 /\ e.target = i
          /\ e.isFeedback = FALSE /\ e.conditional = FALSE /\ e.isDefault = FALSE
      BY <3>1 DEF Link
    <3> QED BY <2>1, <3>2, <3>3
  <2>2. CASE ~\E i \in 2..n : e = Link(i - 1, i, FALSE)
    <3>1. implementer # 0 /\ reviewer # 0 /\ e = Link(reviewer, implementer, TRUE)
      BY <2>2 DEF CompiledEdges
    <3> QED BY <3>1 DEF Link
  <2> QED BY <2>1, <2>2
<1>6. \A e \in Forward(E) : /\ e.source \in 1..n /\ e.target \in 1..n
                            /\ e.target = e.source + 1 /\ ~e.conditional /\ ~e.isDefault
  BY <1>5 DEF Forward
<1>7. \A e \in Feedback(E) : /\ implementer # 0 /\ reviewer # 0
                             /\ e.source = reviewer /\ e.target = implementer
  BY <1>5 DEF Feedback
<1>8. \A i \in 2..n : <<i - 1, i>> \in Arcs(E)
  <2> SUFFICES ASSUME NEW i \in 2..n PROVE <<i - 1, i>> \in Arcs(E)
    OBVIOUS
  <2>1. Link(i - 1, i, FALSE) \in Forward(E)
    BY DEF CompiledEdges, Forward, Link
  <2>2. Link(i - 1, i, FALSE).source = i - 1 /\ Link(i - 1, i, FALSE).target = i
    BY DEF Link
  <2> QED BY <2>1, <2>2 DEF Arcs
<1>9. EndsExist(CompiledNodes(steps), E)
  <2> SUFFICES ASSUME NEW e \in E PROVE {e.source, e.target} \subseteq 1..n
    BY <1>3 DEF EndsExist
  <2> HIDE DEF E, implementer, reviewer
  <2>1. (implementer # 0 => implementer \in 1..n) /\ (reviewer # 0 => reviewer \in 1..n)
    BY <1>1, <1>2
  <2>2. e.source \in 1..n /\ e.target \in 1..n
    BY <1>5, <2>1
  <2> QED BY <2>2
<1> HIDE DEF E, implementer, reviewer
<1>10. Joins(1..n, E)
  BY <1>3, <1>4, <1>9, EndsJoin
<1>11. Acyclic(1..n, E)
  <2> DEFINE position == [i \in 1..n |-> i]
  <2>1. position \in [1..n -> Nat]
    BY <1>1
  <2>2. \A e \in Forward(E) : position[e.source] < position[e.target]
    BY <1>6
  <2> HIDE DEF position
  <2> QED BY <1>10, <2>1, <2>2, OrderedIsAcyclic
<1>12. IsDag(CompiledNodes(steps), E)
  BY <1>3, <1>10, <1>11, AcyclicIsSorted
<1>13. \A i, j \in 1..n : i < j => Led(1..n, E, i, j)
  <2> SUFFICES ASSUME NEW i \in 1..n, NEW j \in 1..n, i < j PROVE Led(1..n, E, i, j)
    OBVIOUS
  <2> DEFINE Bad == {d \in Nat : i + d \in 1..n /\ ~Leg(Arcs(E), 1..n, i, i + d, d)}
  <2>1. Bad \in SUBSET Nat
    OBVIOUS
  <2>2. Bad = {}
    <3> SUFFICES ASSUME Bad # {} PROVE FALSE
      OBVIOUS
    <3>1. PICK d \in Bad : \A c \in Bad : d <= c
      BY <2>1, LeastOf
    <3>2. d # 0
      <4>1. i + 0 = i /\ Leg(Arcs(E), 1..n, i, i, 0)
        BY NoLeg
      <4> QED BY <3>1, <4>1
    <3>3. d - 1 \in Nat /\ d \in Nat /\ d - 1 \notin Bad
      BY <3>1, <3>2
    <3>4. i + (d - 1) \in 1..n /\ i + d \in 2..n /\ (i + d) - 1 = i + (d - 1)
      BY <1>1, <3>1, <3>3
    <3>5. Leg(Arcs(E), 1..n, i, i + (d - 1), d - 1)
      BY <3>3, <3>4
    <3>6. <<i + (d - 1), i + d>> \in Arcs(E)
      BY <1>8, <3>4
    <3>7. Leg(Arcs(E), 1..n, i, i + d, (d - 1) + 1)
      BY <1>10, <3>3, <3>5, <3>6, LegAppend DEF Joins
    <3>8. (d - 1) + 1 = d
      BY <3>3
    <3> QED BY <3>1, <3>7, <3>8
  <2> DEFINE d == j - i
  <2>3. d \in Nat \ {0} /\ i + d = j
    BY <1>1
  <2> HIDE DEF d
  <2>4. Leg(Arcs(E), 1..n, i, i + d, d)
    BY <2>2, <2>3
  <2> QED BY <2>3, <2>4 DEF Led
<1>14. ASSUME NEW e \in Feedback(E) PROVE IsLoop(CompiledNodes(steps), E, e)
  <2>1. /\ e.source = reviewer /\ e.target = implementer
        /\ reviewer \in 1..n /\ implementer \in 1..n /\ implementer < reviewer
    BY <1>1, <1>2, <1>7, <1>14
  <2>2. Led(1..n, E, e.target, e.source)
    BY <1>13, <2>1
  <2>3. Leads(CompiledNodes(steps), E, e.target, e.source)
    BY <1>3, <1>10, <2>2, LeadsIsLed
  <2> QED BY <1>3, <1>10, <1>11, <2>1, <2>3, LoopLeadsBack
<1>15. LoopsAreApart(CompiledNodes(steps), E)
  <2> SUFFICES ASSUME NEW e \in Feedback(E), NEW f \in Feedback(E) PROVE SameLoop(e, f)
    BY DEF LoopsAreApart
  <2> QED BY <1>7 DEF SameLoop
<1>16. RoutersAreClear(CompiledNodes(steps), E)
  <2> SUFFICES ASSUME NEW m \in CompiledNodes(steps)
               PROVE  /\ m.type # "router"
                      /\ \A e \in Out(Forward(E), m.id) : ~e.conditional /\ ~e.isDefault
    BY DEF RoutersAreClear
  <2>1. PICK i \in DOMAIN steps : m = [id |-> i, type |-> TypeOf(steps[i])]
    BY DEF CompiledNodes
  <2>2. m.type = TypeOf(steps[i])
    BY <2>1
  <2>3. TypeOf(steps[i]) \in {"user_gate", "verification", "agent"}
    BY DEF TypeOf
  <2>4. \A e \in Out(Forward(E), m.id) : e \in Forward(E)
    BY DEF Out
  <2> QED BY <1>6, <2>2, <2>3, <2>4
<1> QED BY <1>4, <1>9, <1>12, <1>14, <1>15, <1>16 DEF ValidGraph, E

-----------------------------------------------------------------------------
(* The executor.                                                            *)

GraphNodes == Ids(graph.nodes)

DagInv ==
  /\ graph \in Graphs \cup {Compiled(steps) : steps \in BuiltIn}
  /\ dagPc \in {"new", "refused", "loop", "batch", "rejected", "aborted", "completed"}
  /\ dagPc = "refused" => ~ValidGraph(graph.nodes, graph.edges)
  /\ dagPc \notin {"new", "refused"} => ValidGraph(graph.nodes, graph.edges)
  /\ completed \subseteq GraphNodes /\ executing \subseteq GraphNodes
  /\ \A n \in completed \cup executing : Preds(graph.edges, n) \subseteq completed
  /\ ahead = {}
  /\ dagPc \in {"new", "refused", "loop", "batch"} => failed = {}
  /\ dagPc \in {"new", "refused", "loop", "aborted", "completed"} => executing = {}
  /\ dagPc = "completed" => completed = GraphNodes /\ failed = {}

LEMMA GraphIsFinite ==
  ASSUME graph \in Graphs \cup {Compiled(steps) : steps \in BuiltIn}
  PROVE  IsFiniteSet(graph.nodes)
<1>1. CASE graph \in Graphs
  BY <1>1, DagAssumption
<1>2. CASE graph \in {Compiled(steps) : steps \in BuiltIn}
  BY <1>2, CompiledIsValid DEF Compiled
<1> QED BY <1>1, <1>2

\* As long as something is left, something can be started.
LEMMA SomethingIsReady ==
  ASSUME DagInv, dagPc = "loop", completed # GraphNodes
  PROVE  Ready # {}
<1>1. IsFiniteSet(graph.nodes) /\ ValidGraph(graph.nodes, graph.edges)
  BY GraphIsFinite DEF DagInv
<1>2. PICK position \in [GraphNodes -> 1..Cardinality(GraphNodes)] :
             \A e \in Forward(graph.edges) : position[e.source] < position[e.target]
  BY <1>1, ValidGraphsHaveAnOrder DEF GraphNodes
<1>3. Cardinality(GraphNodes) \in Nat
  BY <1>1, IdsAreFinite, FS_CardinalityType DEF GraphNodes
<1> DEFINE Places == {position[n] : n \in GraphNodes \ completed}
<1>4. Places \in SUBSET Nat /\ Places # {}
  <2>1. \A n \in GraphNodes : position[n] \in Nat
    BY <1>2, <1>3
  <2>2. \E n : n \in GraphNodes \ completed
    BY DEF DagInv
  <2> QED BY <2>1, <2>2
<1>5. PICK p \in Places : \A q \in Places : p <= q
  <2> HIDE DEF Places
  <2> QED BY <1>4, LeastOf
<1>6. PICK n \in GraphNodes \ completed : p = position[n]
  BY <1>5
<1>7. Preds(graph.edges, n) \subseteq completed
  <2> SUFFICES ASSUME NEW m \in Preds(graph.edges, n), m \notin completed PROVE FALSE
    OBVIOUS
  <2>1. PICK e \in Forward(graph.edges) : e.source = m /\ e.target = n
    BY DEF Preds, In
  <2>2. m \in GraphNodes
    BY <1>1, <2>1 DEF ValidGraph, EndsExist, Forward, GraphNodes
  <2>3. position[m] < position[n] /\ position[n] <= position[m]
    BY <1>2, <1>5, <1>6, <2>1, <2>2
  <2>4. position[m] \in Nat /\ position[n] \in Nat
    BY <1>2, <1>3, <1>6, <2>2
  <2> QED BY <2>3, <2>4
<1>8. failed = {}
  BY DEF DagInv
<1>9. n \in Ready
  BY <1>6, <1>7, <1>8 DEF Ready, ReadyNodes, GraphNodes
<1> QED BY <1>9

\* Whatever leads to a node that is ready has completed.
LEMMA NothingIsAhead ==
  ASSUME DagInv, dagPc = "loop", NEW n \in Ready, NEW m \in GraphNodes \ completed
  PROVE  ~Leads(graph.nodes, graph.edges, m, n)
<1> SUFFICES ASSUME Leads(graph.nodes, graph.edges, m, n) PROVE FALSE
  OBVIOUS
<1> DEFINE A == Arcs(graph.edges)
           X == GraphNodes \ completed
<1>1. Joins(GraphNodes, graph.edges)
  BY GraphIsFinite, EndsJoin DEF DagInv, ValidGraph, GraphNodes
<1>2. A \in SUBSET (GraphNodes \X GraphNodes)
  BY <1>1 DEF Joins
<1>3. PICK k \in Nat \ {0} : Leg(A, GraphNodes, m, n, k)
  BY <1>1, LeadsIsLed DEF Led, GraphNodes
<1>4. PICK c \in GraphNodes : Leg(A, GraphNodes, m, c, k - 1) /\ <<c, n>> \in A
  BY <1>2, <1>3, LegLast
<1>5. Image(A, X) \subseteq X
  <2> SUFFICES ASSUME NEW r \in A, r[1] \in X PROVE r[2] \in X
    BY DEF Image
  <2>1. r = <<r[1], r[2]>> /\ r[2] \in GraphNodes
    BY <1>2
  <2>2. r[1] \in Preds(graph.edges, r[2])
    BY <2>1, PredsAreArcs
  <2>3. r[2] \in completed => Preds(graph.edges, r[2]) \subseteq completed
    BY DEF DagInv
  <2>4. r[1] \notin completed
    OBVIOUS
  <2> HIDE DEF A
  <2> QED BY <2>1, <2>2, <2>3, <2>4
<1>6. k - 1 \in Nat
  OBVIOUS
<1>7. c \in X
  <2> HIDE DEF A
  <2>1. m \in X
    OBVIOUS
  <2> HIDE DEF X
  <2> QED BY <1>2, <1>4, <1>5, <1>6, <2>1, LegStays
<1>8. c \in Preds(graph.edges, n)
  BY <1>4, PredsAreArcs
<1> QED BY <1>7, <1>8 DEF Ready, ReadyNodes

LEMMA DagInvInit == DagInit => DagInv
  BY DEF DagInit, DagInv

LEMMA DagInvStep ==
  ASSUME DagInv, [DagNext]_dagVars
  PROVE  DagInv'
<1>1. CASE Construct
  BY <1>1 DEF Construct, DagInv, GraphNodes
<1>2. CASE StartBatch
  <2>1. ahead' = {}
    BY <1>2, NothingIsAhead DEF StartBatch, DagInv, GraphNodes
  <2>2. Ready \subseteq GraphNodes /\ \A n \in Ready : Preds(graph.edges, n) \subseteq completed
    BY DEF Ready, ReadyNodes, GraphNodes
  <2> QED BY <1>2, <2>1, <2>2 DEF StartBatch, DagInv, GraphNodes
<1>3. CASE Leave
  <2>1. completed # GraphNodes => Ready # {}
    BY <1>3, SomethingIsReady DEF Leave
  <2> QED BY <1>3, <2>1 DEF Leave, DagInv, GraphNodes
<1>4. CASE DagAbort
  BY <1>4 DEF DagAbort, DagInv, GraphNodes
<1>5. ASSUME NEW n \in Ids(graph.nodes), NodeCompletes(n)
      PROVE  DagInv'
  BY <1>5 DEF NodeCompletes, DagInv, GraphNodes
<1>6. ASSUME NEW n \in Ids(graph.nodes), NodeFails(n)
      PROVE  DagInv'
  BY <1>6 DEF NodeFails, DagInv, GraphNodes
<1>7. CASE UNCHANGED dagVars
  BY <1>7 DEF dagVars, DagInv, GraphNodes
<1> QED BY <1>1, <1>2, <1>3, <1>4, <1>5, <1>6, <1>7 DEF DagNext, DagStep

LEMMA DagInvHolds == DagSpec => []DagInv
<1>1. DagInv /\ [DagNext]_dagVars => DagInv'
  BY DagInvStep
<1> QED BY <1>1, DagInvInit, PTL DEF DagSpec

\* For any finite graphs and any linear templates of Forge: refused is what cannot be run,
\* and nothing that Forge comes with; a graph that is run is run in order, and the answer
\* "completed" means that every node is done.
THEOREM OnlySoundGraphsAreRun == DagSpec => []OnlySoundGraphsRun
<1>1. DagInv => OnlySoundGraphsRun
  <2> SUFFICES ASSUME DagInv PROVE OnlySoundGraphsRun
    OBVIOUS
  <2>1. ValidGraph(graph.nodes, graph.edges) <=>
          /\ EndsExist(graph.nodes, graph.edges)
          /\ Sound(graph.nodes, graph.edges)
          /\ RoutersAreClear(graph.nodes, graph.edges)
    BY GraphIsFinite, ValidGraphsAreSound DEF DagInv
  <2>2. graph \in {Compiled(steps) : steps \in BuiltIn} => ValidGraph(graph.nodes, graph.edges)
    <3> SUFFICES ASSUME NEW steps \in BuiltIn, graph = Compiled(steps)
                 PROVE  ValidGraph(graph.nodes, graph.edges)
      OBVIOUS
    <3> QED BY CompiledIsValid DEF Compiled
  <2>3. dagPc = "refused" <=> dagPc # "new" /\ ~ValidGraph(graph.nodes, graph.edges)
    BY DEF DagInv
  <2>4. ahead = {} /\ (dagPc = "completed" => completed = Ids(graph.nodes) /\ failed = {})
    BY DEF DagInv, GraphNodes
  <2> QED BY <2>1, <2>2, <2>3, <2>4 DEF OnlySoundGraphsRun
<1> QED BY <1>1, DagInvHolds, PTL
=============================================================================
