------------------------- MODULE ReconnaissanceProofs -------------------------
(***************************************************************************)
(* Proofs about Reconnaissance, for every set of corpora, every interfering*)
(* process and all bounds.                                                 *)
(***************************************************************************)
EXTENDS Reconnaissance, FiniteSetTheorems, SequenceTheorems, WellFoundedInduction, TLAPS

(* Every nonempty set of numbers has a least one.                          *)
LEMMA LeastOf ==
    ASSUME NEW T, T \subseteq Nat, T # {}
    PROVE  \E x \in T : \A y \in T : x <= y
<1>1. PICK x \in T : \A y \in T : ~(<<y, x>> \in OpToRel(<, Nat))
  BY NatLessThanWellFounded, WFMin, Zenon
<1> SUFFICES ASSUME NEW y \in T, ~(x <= y) PROVE FALSE
  BY <1>1
<1>2. y \in Nat /\ x \in Nat /\ y < x
  OBVIOUS
<1>3. <<y, x>> \in OpToRel(<, Nat)
  BY <1>2 DEF OpToRel
<1> QED
  BY <1>1, <1>3

(* There are n numbers from 1 to n.                                        *)
LEMMA UpTo ==
    ASSUME NEW n \in Nat
    PROVE  IsFiniteSet(1..n) /\ Cardinality(1..n) = n /\ 1..n \subseteq Nat
<1>1. IsFiniteSet(1..n) /\ Cardinality(1..n) = IF 1 > n THEN 0 ELSE n - 1 + 1
  BY FS_Interval
<1> QED
  BY <1>1

-----------------------------------------------------------------------------
(* Sorting.                                                                *)

(* Of two chosen items one comes before the other, and then less comes     *)
(* before that one.                                                        *)
LEMMA RanksDiffer ==
    ASSUME NEW chosen, chosen \subseteq Nat, IsFiniteSet(chosen),
           NEW key, \A i \in chosen : key[i] \in Int,
           NEW i \in chosen, NEW j \in chosen, j \in Before(chosen, key, i)
    PROVE  Cardinality(Before(chosen, key, j)) < Cardinality(Before(chosen, key, i))
<1> DEFINE A == Before(chosen, key, j)
           B == Before(chosen, key, i)
<1>1. ASSUME NEW k \in A PROVE k \in B
  <2>1. k \in chosen /\ {key[i], key[j], key[k]} \subseteq Int /\ {i, j, k} \subseteq Nat
    BY DEF Before
  <2>2. key[j] < key[i] \/ (key[j] = key[i] /\ j < i)
    BY DEF Before
  <2>3. key[k] < key[j] \/ (key[k] = key[j] /\ k < j)
    BY DEF Before
  <2>4. key[k] < key[i] \/ (key[k] = key[i] /\ k < i)
    BY <2>1, <2>2, <2>3
  <2> QED
    BY <2>1, <2>4 DEF Before
<1>2. j \in B /\ j \notin A
  BY DEF Before
<1>3. IsFiniteSet(B)
  <2>1. B \subseteq chosen
    BY DEF Before
  <2> QED
    BY <2>1, FS_Subset
<1>4. /\ IsFiniteSet(A) /\ Cardinality(A) <= Cardinality(B)
      /\ Cardinality(A) = Cardinality(B) => A = B
  <2> HIDE DEF A, B
  <2> QED
    BY <1>1, <1>3, FS_Subset
<1>5. Cardinality(A) \in Nat /\ Cardinality(B) \in Nat
  BY <1>3, <1>4, FS_CardinalityType
<1>6. A # B
  BY <1>2
<1> QED
  BY <1>4, <1>5, <1>6

(* A chosen item has a place, and shares it with no other.                 *)
LEMMA PlacesDiffer ==
    ASSUME NEW chosen, chosen \subseteq Nat, IsFiniteSet(chosen),
           NEW key, \A i \in chosen : key[i] \in Int
    PROVE  /\ \A i \in chosen :
                 Cardinality(Before(chosen, key, i)) + 1 \in 1..Cardinality(chosen)
           /\ \A i \in chosen : Cardinality(Before(chosen, key, i)) \in Nat
           /\ \A i, j \in chosen : Cardinality(Before(chosen, key, i))
                                     = Cardinality(Before(chosen, key, j)) => i = j
<1> DEFINE rank(i) == Cardinality(Before(chosen, key, i))
           c == Cardinality(chosen)
<1>1. c \in Nat
  BY FS_CardinalityType
<1>2. ASSUME NEW i \in chosen PROVE rank(i) + 1 \in 1..c /\ rank(i) \in Nat
  <2>1. Before(chosen, key, i) \subseteq chosen \ {i}
    BY DEF Before
  <2>2. IsFiniteSet(chosen \ {i}) /\ Cardinality(chosen \ {i}) = c - 1
    BY FS_RemoveElement
  <2>3. IsFiniteSet(Before(chosen, key, i)) /\ rank(i) <= c - 1
    BY <2>1, <2>2, FS_Subset
  <2>4. rank(i) \in Nat
    BY <2>3, FS_CardinalityType
  <2> QED
    BY <1>1, <2>3, <2>4
<1>3. ASSUME NEW i \in chosen, NEW j \in chosen, rank(i) = rank(j), i # j PROVE FALSE
  <2>1. j \in Before(chosen, key, i) \/ i \in Before(chosen, key, j)
    BY <1>3 DEF Before
  <2>2. rank(j) < rank(i) \/ rank(i) < rank(j)
    BY <2>1, RanksDiffer
  <2> QED
    BY <1>2, <1>3, <2>2
<1> QED
  BY <1>2, <1>3

(* Every place of the arrangement is taken.                                *)
LEMMA PlacesAreTaken ==
    ASSUME NEW chosen, chosen \subseteq Nat, IsFiniteSet(chosen),
           NEW key, \A i \in chosen : key[i] \in Int,
           NEW k \in 1..Cardinality(chosen)
    PROVE  \E i \in chosen : Cardinality(Before(chosen, key, i)) = k - 1
<1> DEFINE rank(i) == Cardinality(Before(chosen, key, i))
           c == Cardinality(chosen)
           T == (1..c) \ {k}
           f == [i \in chosen |-> rank(i) + 1]
<1>1. c \in Nat /\ k \in 1..c
  BY FS_CardinalityType
<1>2. /\ \A i \in chosen : rank(i) + 1 \in 1..c /\ rank(i) \in Nat
      /\ \A i, j \in chosen : rank(i) = rank(j) => i = j
  BY PlacesDiffer
<1>3. SUFFICES ASSUME \A i \in chosen : rank(i) # k - 1 PROVE FALSE
  OBVIOUS
<1> HIDE DEF rank
<1>4. f \in [chosen -> T]
  BY <1>1, <1>2, <1>3
<1>5. IsFiniteSet(1..c) /\ Cardinality(1..c) = c
  BY <1>1, UpTo
<1>6. IsFiniteSet(T) /\ Cardinality(T) = c - 1
  BY <1>1, <1>5, FS_RemoveElement
<1>7. PICK x \in chosen, y \in chosen : x # y /\ f[x] = f[y]
  <2>1. Cardinality(T) < Cardinality(chosen)
    BY <1>1, <1>6
  <2> HIDE DEF f, T, c
  <2> QED
    BY <1>4, <1>6, <2>1, FS_PigeonHole
<1>8. rank(x) = rank(y)
  BY <1>2, <1>7
<1> QED
  BY <1>2, <1>7, <1>8

(* a is made of the chosen items of s, each at one of its n places, and of *)
(* nothing else.                                                           *)
Moves(order, s, chosen, a, n) ==
    /\ order \in [1..n -> chosen]
    /\ a = [k \in 1..n |-> s[order[k]]]
    /\ \A i, j \in 1..n : order[i] = order[j] => i = j
    /\ \A i \in chosen : \E k \in 1..n : order[k] = i

(* That is what arranging does.                                            *)
LEMMA ArrangeMoves ==
    ASSUME NEW chosen, chosen \subseteq Nat, IsFiniteSet(chosen),
           NEW key, \A i \in chosen : key[i] \in Int,
           NEW s
    PROVE  \E order : Moves(order, s, chosen, Arrange(s, chosen, key), Cardinality(chosen))
<1> DEFINE rank(i) == Cardinality(Before(chosen, key, i))
           c == Cardinality(chosen)
           order == [k \in 1..c |-> CHOOSE i \in chosen : rank(i) = k - 1]
<1>1. c \in Nat
  BY FS_CardinalityType
<1>2. /\ \A i \in chosen : rank(i) + 1 \in 1..c
      /\ \A i, j \in chosen : rank(i) = rank(j) => i = j
      /\ \A k \in 1..c : \E i \in chosen : rank(i) = k - 1
  <2>1. \A i \in chosen : rank(i) + 1 \in 1..c
    BY PlacesDiffer
  <2>2. \A i, j \in chosen : rank(i) = rank(j) => i = j
    BY PlacesDiffer
  <2>3. ASSUME NEW k \in 1..c PROVE \E i \in chosen : rank(i) = k - 1
    BY PlacesAreTaken
  <2> QED
    BY <2>1, <2>2, <2>3
<1>3. Arrange(s, chosen, key) = [k \in 1..c |-> s[order[k]]]
  BY DEF Arrange
<1> HIDE DEF rank, c
<1>4. \A k \in 1..c : order[k] \in chosen /\ rank(order[k]) = k - 1
  BY <1>2
<1>5. order \in [1..c -> chosen]
  BY <1>4
<1> HIDE DEF order
<1>6. \A i, j \in 1..c : order[i] = order[j] => i = j
  BY <1>1, <1>4
<1>7. ASSUME NEW i \in chosen PROVE \E k \in 1..c : order[k] = i
  <2>1. \A k \in 1..c : k = rank(i) + 1 => rank(order[k]) = rank(i)
    <3>1. rank(i) \in Nat
      <4>1. IsFiniteSet(Before(chosen, key, i))
        <5>1. Before(chosen, key, i) \subseteq chosen
          BY DEF Before
        <5> QED
          BY <5>1, FS_Subset
      <4> QED
        BY <4>1, FS_CardinalityType DEF rank
    <3> QED
      BY <1>4, <3>1
  <2> QED
    BY <1>2, <1>4, <2>1
<1>8. Moves(order, s, chosen, Arrange(s, chosen, key), c)
  BY <1>3, <1>5, <1>6, <1>7 DEF Moves
<1> QED
  BY <1>8 DEF c

-----------------------------------------------------------------------------
(* Sums.                                                                   *)

(* F holds the running sums of f[1], ..., f[n].                            *)
IsSum(F, f, n) ==
    /\ F \in [0..n -> Nat]
    /\ F[0] = 0
    /\ \A k \in 1..n : F[k] = F[k - 1] + f[k]

(* A list of numbers can be summed.                                        *)
LEMMA SumExists ==
    ASSUME NEW n \in Nat, NEW f, \A k \in 1..n : f[k] \in Nat
    PROVE  \E F : IsSum(F, f, n)
<1> DEFINE T == {m \in 0..n : ~\E F : IsSum(F, f, m)}
<1>1. SUFFICES ASSUME T # {} PROVE FALSE
  <2>1. n \in 0..n
    OBVIOUS
  <2> QED
    BY <2>1
<1>2. PICK x \in T : \A y \in T : x <= y
  <2>1. T \subseteq Nat
    OBVIOUS
  <2> HIDE DEF T
  <2> QED
    BY <1>1, <2>1, LeastOf
<1>3. x \in 0..n /\ ~\E F : IsSum(F, f, x)
  OBVIOUS
<1>4. CASE x = 0
  <2>1. IsSum([k \in 0..0 |-> 0], f, 0)
    BY DEF IsSum
  <2> QED
    BY <1>3, <1>4, <2>1
<1>5. CASE x # 0
  <2>1. x - 1 \in 0..n /\ x \in 1..n /\ x \in Nat
    BY <1>3, <1>5
  <2>2. x - 1 \notin T
    <3>1. ~(x <= x - 1)
      BY <2>1
    <3> HIDE DEF T
    <3> QED
      BY <1>2, <3>1
  <2>3. PICK F : IsSum(F, f, x - 1)
    BY <2>1, <2>2
  <2> DEFINE G == [k \in 0..x |-> IF k = x THEN F[x - 1] + f[x] ELSE F[k]]
  <2>4. F[x - 1] \in Nat /\ f[x] \in Nat /\ \A k \in 0..(x - 1) : F[k] \in Nat
    BY <2>1, <2>3 DEF IsSum
  <2>5. G \in [0..x -> Nat]
    <3>1. \A k \in 0..x : k # x => k \in 0..(x - 1)
      BY <2>1
    <3>2. F[x - 1] + f[x] \in Nat
      BY <2>4
    <3> QED
      BY <2>4, <3>1, <3>2
  <2>6. G[0] = 0
    BY <1>5, <2>1, <2>3 DEF IsSum
  <2>7. ASSUME NEW k \in 1..x PROVE G[k] = G[k - 1] + f[k]
    <3>1. k \in 0..x /\ k - 1 \in 0..x /\ k - 1 # x
      BY <2>1
    <3>2. CASE k = x
      BY <3>1, <3>2
    <3>3. CASE k # x
      <4>1. k \in 1..(x - 1)
        BY <2>1, <3>3
      <4> QED
        BY <2>3, <3>1, <3>3, <4>1 DEF IsSum
    <3> QED
      BY <3>2, <3>3
  <2>8. IsSum(G, f, x)
    <3> HIDE DEF G
    <3> QED
      BY <2>5, <2>6, <2>7 DEF IsSum
  <2> QED
    BY <1>3, <2>8
<1> QED
  BY <1>4, <1>5

(* What exchanging one number does to a sum.                               *)
LEMMA SumUpdate ==
    ASSUME NEW n \in Nat, NEW f, NEW h, NEW F, NEW H, NEW k \in 1..n,
           IsSum(F, f, n), IsSum(H, h, n),
           \A i \in 1..n : f[i] \in Nat /\ h[i] \in Nat,
           \A i \in 1..n : i # k => h[i] = f[i]
    PROVE  H[n] + f[k] = F[n] + h[k]
<1> DEFINE Same(m) == IF m < k THEN H[m] = F[m] ELSE H[m] + f[k] = F[m] + h[k]
           T == {m \in 0..n : ~Same(m)}
<1>1. SUFFICES ASSUME T # {} PROVE FALSE
  <2>1. n \in 0..n /\ ~(n < k)
    OBVIOUS
  <2> QED
    BY <2>1
<1>2. PICK x \in T : \A y \in T : x <= y
  <2>1. T \subseteq Nat
    OBVIOUS
  <2> HIDE DEF T
  <2> QED
    BY <1>1, <2>1, LeastOf
<1>3. x \in 0..n /\ ~Same(x)
  OBVIOUS
<1>4. x # 0
  <2>1. Same(0)
    BY DEF IsSum
  <2> QED
    BY <1>3, <2>1
<1>5. x - 1 \in 0..n /\ x \in 1..n
  BY <1>3, <1>4
<1>6. Same(x - 1)
  <2>1. ~(x <= x - 1)
    BY <1>5
  <2> HIDE DEF Same
  <2> QED
    BY <1>2, <1>5, <2>1
<1>7. /\ F[x] = F[x - 1] + f[x] /\ H[x] = H[x - 1] + h[x]
      /\ {F[x], F[x - 1], H[x], H[x - 1], f[x], h[x], f[k], h[k]} \subseteq Nat
  BY <1>3, <1>5 DEF IsSum
<1>8. CASE x < k
  <2>1. h[x] = f[x] /\ x - 1 < k
    BY <1>5, <1>8
  <2> QED
    BY <1>3, <1>6, <1>7, <1>8, <2>1
<1>9. CASE x = k
  BY <1>3, <1>5, <1>6, <1>7, <1>9
<1>10. CASE x > k
  <2>1. h[x] = f[x] /\ ~(x - 1 < k)
    BY <1>5, <1>10
  <2> QED
    BY <1>3, <1>6, <1>7, <1>10, <2>1
<1> QED
  BY <1>5, <1>8, <1>9, <1>10

(* The first n - 1 of n running sums.                                      *)
LEMMA SumOfFront ==
    ASSUME NEW n \in Nat, n # 0, NEW f, NEW F, IsSum(F, f, n), NEW g,
           \A i \in 1..(n - 1) : g[i] = f[i]
    PROVE  IsSum([i \in 0..(n - 1) |-> F[i]], g, n - 1)
<1> DEFINE G == [i \in 0..(n - 1) |-> F[i]]
<1>1. \A i \in 0..(n - 1) : i \in 0..n
  OBVIOUS
<1>2. G \in [0..(n - 1) -> Nat] /\ G[0] = 0
  BY <1>1 DEF IsSum
<1>3. ASSUME NEW i \in 1..(n - 1) PROVE G[i] = G[i - 1] + g[i]
  <2>1. i \in 0..(n - 1) /\ i - 1 \in 0..(n - 1) /\ i \in 1..n
    OBVIOUS
  <2> QED
    BY <2>1 DEF IsSum
<1> HIDE DEF G
<1>4. IsSum(G, g, n - 1)
  BY <1>2, <1>3 DEF IsSum
<1> QED
  BY <1>4 DEF G

(* q puts m numbers into another order.                                    *)
Reorders(q, m) ==
    /\ q \in [1..m -> 1..m]
    /\ \A i, j \in 1..m : q[i] = q[j] => i = j

(* H and K hold the running sums of h, and of h in the order q.            *)
SummedTwice(h, q, a, H, K, m) ==
    /\ h \in [1..m -> Nat]
    /\ Reorders(q, m)
    /\ \A i \in 1..m : a[i] = h[q[i]]
    /\ IsSum(H, h, m)
    /\ IsSum(K, a, m)

SumsAgree(m) == \A h, q, a, H, K : SummedTwice(h, q, a, H, K, m) => K[m] = H[m]

(* One number more, which stays last.                                      *)
LEMMA LastStays ==
    ASSUME NEW m \in Nat, NEW x, x = m + 1, SumsAgree(m),
           NEW h, NEW q, NEW a, NEW H, NEW K, SummedTwice(h, q, a, H, K, x), q[x] = x
    PROVE  K[x] = H[x]
<1> DEFINE g == [i \in 1..m |-> h[i]]
           o == [i \in 1..m |-> q[i]]
           b == [i \in 1..m |-> g[o[i]]]
           KF == [i \in 0..m |-> K[i]]
           HF == [i \in 0..m |-> H[i]]
<1>0. /\ h \in [1..x -> Nat] /\ Reorders(q, x)
      /\ \A i \in 1..x : a[i] = h[q[i]]
      /\ IsSum(H, h, x) /\ IsSum(K, a, x)
  BY DEF SummedTwice
<1>1. x \in Nat /\ x # 0 /\ m = x - 1 /\ x \in 1..x /\ \A i \in 1..m : i \in 1..x /\ i # x
  OBVIOUS
<1>2. /\ \A i \in 1..x : q[i] \in 1..x
      /\ \A i, j \in 1..x : q[i] = q[j] => i = j
  BY <1>0 DEF Reorders
<1>3. ASSUME NEW i \in 1..m PROVE q[i] \in 1..m
  <2>1. q[i] \in 1..x /\ q[i] # x
    BY <1>1, <1>2
  <2> QED
    BY <2>1
<1>4. g \in [1..m -> Nat]
  BY <1>0, <1>1
<1>5. Reorders(o, m)
  BY <1>1, <1>2, <1>3 DEF Reorders
<1>6. \A i \in 1..m : b[i] = a[i]
  BY <1>0, <1>1, <1>3
<1>7. IsSum(HF, g, m)
  <2>1. \A i \in 1..m : g[i] = h[i]
    OBVIOUS
  <2> HIDE DEF g
  <2> QED
    BY <1>0, <1>1, <2>1, SumOfFront
<1>8. IsSum(KF, b, m)
  <2> HIDE DEF b
  <2> QED
    BY <1>0, <1>1, <1>6, SumOfFront
<1>9. KF[m] = HF[m]
  <2>1. \A i \in 1..m : b[i] = g[o[i]]
    OBVIOUS
  <2> HIDE DEF g, o, b, KF, HF
  <2> QED
    <3>1. SummedTwice(g, o, b, HF, KF, m)
      BY <1>4, <1>5, <1>7, <1>8, <2>1 DEF SummedTwice
    <3> QED
      BY <3>1 DEF SumsAgree
<1>10. K[m] = H[m]
  BY <1>9
<1>11. K[x] = K[m] + a[x] /\ H[x] = H[m] + h[x]
  BY <1>0, <1>1 DEF IsSum
<1> QED
  BY <1>0, <1>1, <1>10, <1>11

(* One number more, which changes its place.                               *)
LEMMA LastMoves ==
    ASSUME NEW m \in Nat, NEW x, x = m + 1, SumsAgree(m),
           NEW h, NEW q, NEW a, NEW H, NEW K, SummedTwice(h, q, a, H, K, x),
           NEW r, r = q[x], r # x
    PROVE  K[x] = H[x]
<1> DEFINE g == [i \in 1..m |-> IF i = r THEN h[x] ELSE h[i]]
           o == [i \in 1..m |-> IF q[i] = x THEN r ELSE q[i]]
           b == [i \in 1..m |-> g[o[i]]]
           front == [i \in 1..m |-> h[i]]
           KF == [i \in 0..m |-> K[i]]
           HF == [i \in 0..m |-> H[i]]
<1>0. /\ h \in [1..x -> Nat] /\ Reorders(q, x)
      /\ \A i \in 1..x : a[i] = h[q[i]]
      /\ IsSum(H, h, x) /\ IsSum(K, a, x)
  BY DEF SummedTwice
<1>1. x \in Nat /\ x # 0 /\ m = x - 1 /\ x \in 1..x /\ \A i \in 1..m : i \in 1..x /\ i # x
  OBVIOUS
<1>2. /\ \A i \in 1..x : q[i] \in 1..x
      /\ \A i, j \in 1..x : q[i] = q[j] => i = j
  BY <1>0 DEF Reorders
<1>3. r \in 1..m /\ r \in 1..x
  <2>1. r \in 1..x
    BY <1>1, <1>2
  <2> QED
    BY <2>1
<1>4. \A i \in 1..m : q[i] \in 1..x /\ q[i] # r
  BY <1>1, <1>2
<1>5. ASSUME NEW i \in 1..m PROVE o[i] \in 1..m
  <2>1. CASE q[i] = x
    BY <1>3, <2>1
  <2>2. CASE q[i] # x
    <3>1. q[i] \in 1..m
      BY <1>4, <2>2
    <3> QED
      BY <2>2, <3>1
  <2> QED
    BY <2>1, <2>2
<1>6. ASSUME NEW i \in 1..m, NEW j \in 1..m, o[i] = o[j] PROVE i = j
  <2>1. o[i] = (IF q[i] = x THEN r ELSE q[i]) /\ o[j] = (IF q[j] = x THEN r ELSE q[j])
    OBVIOUS
  <2>2. q[i] = q[j]
    BY <1>4, <1>6, <2>1
  <2> QED
    BY <1>1, <1>2, <2>2
<1>7. Reorders(o, m)
  <2>1. o \in [1..m -> 1..m]
    BY <1>5
  <2> HIDE DEF o
  <2> QED
    BY <1>6, <2>1 DEF Reorders
<1>8. g \in [1..m -> Nat]
  BY <1>0, <1>1
<1>9. ASSUME NEW i \in 1..m PROVE b[i] = a[i]
  <2>1. b[i] = g[o[i]] /\ a[i] = h[q[i]] /\ o[i] \in 1..m
    BY <1>0, <1>1, <1>5
  <2>2. CASE q[i] = x
    BY <1>3, <2>1, <2>2
  <2>3. CASE q[i] # x
    BY <1>4, <2>1, <2>3
  <2> QED
    BY <2>2, <2>3
<1>10. IsSum(KF, b, m)
  <2> HIDE DEF b
  <2> QED
    BY <1>0, <1>1, <1>9, SumOfFront
<1>11. PICK S : IsSum(S, g, m)
  <2> HIDE DEF g
  <2> QED
    BY <1>8, SumExists
<1>12. KF[m] = S[m]
  <2>1. \A i \in 1..m : b[i] = g[o[i]]
    OBVIOUS
  <2> HIDE DEF g, o, b, KF
  <2> QED
    <3>1. SummedTwice(g, o, b, S, KF, m)
      BY <1>7, <1>8, <1>10, <1>11, <2>1 DEF SummedTwice
    <3> QED
      BY <3>1 DEF SumsAgree
<1>13. IsSum(HF, front, m)
  <2>1. \A i \in 1..m : front[i] = h[i]
    OBVIOUS
  <2> HIDE DEF front
  <2> QED
    BY <1>0, <1>1, <2>1, SumOfFront
<1>14. S[m] + front[r] = HF[m] + g[r]
  <2>1. \A i \in 1..m : front[i] \in Nat /\ g[i] \in Nat
    BY <1>0, <1>1, <1>8
  <2>2. \A i \in 1..m : i # r => g[i] = front[i]
    OBVIOUS
  <2> HIDE DEF front, g, HF
  <2> QED
    BY <1>3, <1>11, <1>13, <2>1, <2>2, SumUpdate
<1>15. K[m] + h[r] = H[m] + h[x]
  BY <1>3, <1>12, <1>14
<1>16. K[x] = K[m] + a[x] /\ H[x] = H[m] + h[x] /\ a[x] = h[r]
  BY <1>0, <1>1 DEF IsSum
<1> QED
  BY <1>15, <1>16

(* Whatever the order in which numbers are summed, the sum is the same.    *)
LEMMA SumOfReordered ==
    ASSUME NEW n \in Nat
    PROVE  SumsAgree(n)
<1> DEFINE T == {m \in Nat : ~SumsAgree(m)}
<1>1. SUFFICES ASSUME T # {} PROVE FALSE
  OBVIOUS
<1>2. PICK x \in T : \A y \in T : x <= y
  <2>1. T \subseteq Nat
    OBVIOUS
  <2> HIDE DEF T
  <2> QED
    BY <1>1, <2>1, LeastOf
<1>3. x \in Nat /\ ~SumsAgree(x)
  OBVIOUS
<1>4. x # 0
  <2>1. SumsAgree(0)
    BY DEF SumsAgree, SummedTwice, IsSum
  <2> QED
    BY <1>3, <2>1
<1>5. PICK m \in Nat : x = m + 1
  <2>1. x - 1 \in Nat /\ x = (x - 1) + 1
    BY <1>3, <1>4
  <2> QED
    BY <2>1
<1>6. SumsAgree(m)
  <2>1. ~(x <= m)
    BY <1>5
  <2> QED
    BY <1>2, <2>1
<1>7. ASSUME NEW h, NEW q, NEW a, NEW H, NEW K, SummedTwice(h, q, a, H, K, x)
      PROVE  K[x] = H[x]
  <2>1. CASE q[x] = x
    BY <1>5, <1>6, <1>7, <2>1, LastStays
  <2>2. CASE q[x] # x
    BY <1>5, <1>6, <1>7, <2>2, LastMoves
  <2> QED
    BY <2>1, <2>2
<1>8. SumsAgree(x)
  BY <1>7 DEF SumsAgree
<1> QED
  BY <1>3, <1>8

(* BytesThrough holds the running sums of the sizes.                       *)
LEMMA BytesUnfold ==
    ASSUME NEW corpus, NEW n \in Nat, n = Len(corpus),
           NEW f, \A k \in 1..n : f[k] = corpus[k].size_bytes /\ f[k] \in Nat
    PROVE  IsSum(BytesThrough(corpus), f, n)
<1> DEFINE Def(F) == F = [k \in 0..n |-> IF k = 0 THEN 0
                                        ELSE F[k - 1] + corpus[k].size_bytes]
<1>1. PICK F : IsSum(F, f, n)
  BY SumExists
<1>2. Def(F)
  <2> DEFINE G == [k \in 0..n |-> IF k = 0 THEN 0 ELSE F[k - 1] + corpus[k].size_bytes]
  <2>1. ASSUME NEW k \in 0..n PROVE F[k] = G[k]
    <3>1. CASE k = 0
      BY <1>1, <3>1 DEF IsSum
    <3>2. CASE k # 0
      <4>1. k \in 1..n
        BY <3>2
      <4> QED
        BY <1>1, <3>2, <4>1 DEF IsSum
    <3> QED
      BY <3>1, <3>2
  <2>2. F = G
    <3>1. F \in [0..n -> Nat]
      BY <1>1 DEF IsSum
    <3> QED
      BY <2>1, <3>1
  <2> QED
    BY <2>2
<1> DEFINE B == BytesThrough(corpus)
<1>3. Def(B)
  <2>1. B = CHOOSE H : Def(H)
    BY DEF BytesThrough
  <2> HIDE DEF Def
  <2> QED
    BY <1>2, <2>1
<1>4. B[0] = 0 /\ \A k \in 1..n : B[k] = B[k - 1] + f[k]
  <2>1. \A k \in 0..n : B[k] = IF k = 0 THEN 0 ELSE B[k - 1] + corpus[k].size_bytes
    <3> HIDE DEF B
    <3> QED
      BY <1>3
  <2> HIDE DEF B
  <2> QED
    BY <2>1
<1>5. \A k \in 0..n : B[k] \in Nat
  <2> DEFINE T == {m \in 0..n : B[m] \notin Nat}
  <2>1. SUFFICES ASSUME T # {} PROVE FALSE
    OBVIOUS
  <2> HIDE DEF B
  <2>2. PICK x \in T : \A y \in T : x <= y
    <3>1. T \subseteq Nat
      OBVIOUS
    <3> HIDE DEF T
    <3> QED
      BY <2>1, <3>1, LeastOf
  <2>3. x \in 0..n /\ B[x] \notin Nat /\ x # 0
    BY <1>4
  <2>4. x \in 1..n /\ x - 1 \in 0..n /\ x - 1 \notin T
    BY <2>2, <2>3
  <2>5. B[x - 1] \in Nat /\ f[x] \in Nat /\ B[x] = B[x - 1] + f[x]
    BY <1>4, <2>4
  <2> QED
    BY <2>3, <2>5
<1>6. B \in [0..n -> Nat]
  <2> HIDE DEF B
  <2>1. B = [k \in 0..n |-> B[k]]
    BY <1>3
  <2> QED
    BY <1>5, <2>1
<1> QED
  BY <1>4, <1>6 DEF IsSum

-----------------------------------------------------------------------------
(* The corpus in path order.                                               *)

(* What a manifest is.                                                     *)
LEMMA CorpusShape ==
    ASSUME NEW corpus \in Corpora
    PROVE  /\ Len(corpus) \in Nat /\ DOMAIN corpus = 1..Len(corpus)
           /\ \A i \in 1..Len(corpus) :
                 /\ corpus[i] \in Range(corpus)
                 /\ corpus[i].path \in Nat
                 /\ corpus[i].size_bytes \in Nat
<1>1. corpus \in Seq(Range(corpus))
  BY InputAssumption
<1>2. Len(corpus) \in Nat /\ DOMAIN corpus = 1..Len(corpus)
  BY <1>1
<1>3. \A i \in 1..Len(corpus) : corpus[i] \in Range(corpus)
  BY <1>2 DEF Range
<1>4. \A m \in Range(corpus) : m.path \in Nat /\ m.size_bytes \in Nat
  BY InputAssumption
<1> QED
  BY <1>2, <1>3, <1>4

(* ByPath changes the order of the members, and nothing else.              *)
LEMMA ByPathReorders ==
    ASSUME NEW corpus \in Corpora, NEW n, n = Len(corpus)
    PROVE  \E order : Moves(order, corpus, 1..n, ByPath(corpus), n)
<1> DEFINE key == [i \in 1..n |-> corpus[i].path]
<1>1. /\ n \in Nat /\ DOMAIN corpus = 1..n
      /\ \A i \in 1..n : corpus[i].path \in Nat
  BY CorpusShape
<1>2. IsFiniteSet(1..n) /\ Cardinality(1..n) = n /\ 1..n \subseteq Nat
  BY <1>1, UpTo
<1>3. ByPath(corpus) = Arrange(corpus, 1..n, key)
  BY <1>1 DEF ByPath
<1>4. \A i \in 1..n : key[i] \in Int
  BY <1>1
<1> HIDE DEF key
<1>5. \E order : Moves(order, corpus, 1..n, Arrange(corpus, 1..n, key), n)
  BY <1>2, <1>4, ArrangeMoves
<1> QED
  BY <1>3, <1>5

(* Its members in path order are the same, and as large in sum.            *)
LEMMA ByPathKeeps ==
    ASSUME NEW corpus \in Corpora, NEW n, n = Len(corpus), NEW m, m = ByPath(corpus)
    PROVE  /\ n \in Nat /\ m \in Seq(Range(corpus)) /\ Len(m) = n /\ DOMAIN m = 1..n
           /\ \A k \in 1..n : m[k].size_bytes \in Nat
           /\ BytesThrough(m)[n] = BytesThrough(corpus)[n]
<1>1. /\ n \in Nat /\ DOMAIN corpus = 1..n
      /\ \A i \in 1..n : corpus[i] \in Range(corpus) /\ corpus[i].size_bytes \in Nat
  BY CorpusShape
<1>2. PICK order : Moves(order, corpus, 1..n, m, n)
  BY ByPathReorders
<1>3. m \in Seq(Range(corpus)) /\ Len(m) = n /\ DOMAIN m = 1..n
  <2>1. m \in [1..n -> Range(corpus)]
    BY <1>1, <1>2 DEF Moves
  <2> QED
    BY <1>1, <2>1
<1> DEFINE h == [i \in 1..n |-> corpus[i].size_bytes]
           a == [i \in 1..n |-> m[i].size_bytes]
<1>4. \A i \in 1..n : m[i] = corpus[order[i]] /\ order[i] \in 1..n
  BY <1>2 DEF Moves
<1>5. h \in [1..n -> Nat] /\ \A i \in 1..n : h[i] = corpus[i].size_bytes /\ h[i] \in Nat
  BY <1>1
<1>6. \A i \in 1..n : a[i] = m[i].size_bytes /\ a[i] = h[order[i]] /\ a[i] \in Nat
  BY <1>1, <1>4
<1> HIDE DEF h, a
<1>7. IsSum(BytesThrough(corpus), h, n)
  BY <1>1, <1>5, BytesUnfold
<1>8. IsSum(BytesThrough(m), a, n)
  BY <1>1, <1>3, <1>6, BytesUnfold
<1>9. SummedTwice(h, order, a, BytesThrough(corpus), BytesThrough(m), n)
  BY <1>2, <1>5, <1>6, <1>7, <1>8 DEF SummedTwice, Reorders, Moves
<1>10. BytesThrough(m)[n] = BytesThrough(corpus)[n]
  BY <1>1, <1>9, SumOfReordered DEF SumsAgree
<1> QED
  BY <1>1, <1>3, <1>6, <1>10

(* The running sums of a corpus in path order, member by member.           *)
LEMMA BytesStep ==
    ASSUME NEW corpus \in Corpora, NEW m, m = ByPath(corpus)
    PROVE  /\ BytesThrough(m)[0] = 0
           /\ \A k \in 0..Len(m) : BytesThrough(m)[k] \in Nat
           /\ \A k \in 1..Len(m) :
                 BytesThrough(m)[k] = BytesThrough(m)[k - 1] + m[k].size_bytes
<1> DEFINE n == Len(m)
           f == [k \in 1..n |-> m[k].size_bytes]
<1>1. n \in Nat /\ \A k \in 1..n : f[k] = m[k].size_bytes /\ f[k] \in Nat
  BY ByPathKeeps
<1> HIDE DEF f
<1>2. IsSum(BytesThrough(m), f, n)
  BY <1>1, BytesUnfold
<1> QED
  BY <1>1, <1>2 DEF IsSum

-----------------------------------------------------------------------------
(* The inductive invariant.                                                *)

(* The types, of what TypeOK says.                                         *)
Typed ==
    /\ call \in Calls /\ sealed \in Corpora /\ manifest \in Corpora
    /\ DOMAIN files = Paths /\ \A p \in Paths : files[p].link \in BOOLEAN
    /\ rewrites \in 0..MaxRewrites
    /\ pc \in {"admit", "manifest", "check", "read", "analyze", "coordinate",
              "returned", "failed"}
    /\ Len(documents) \in Nat /\ Len(members) \in Nat /\ Len(documents) <= Len(members)
    /\ total \in Nat
    /\ told \in {"nothing", "Completed"}

(* The members are those of some manifest, in path order.                  *)
MembersAreAManifest == \E corpus \in Corpora : members = ByPath(corpus)

(* What the reader has made sure of its first n members.                   *)
Checked(n) ==
    /\ \A i \in 1..n : /\ members[i].path \notin ForbiddenPaths
                       /\ members[i].size_bytes <= MaxMemberBytes
    /\ \A i, j \in 1..n : members[i].path = members[j].path => i = j
    /\ total = BytesThrough(members)[n]
    /\ total <= MaxTotalBytes

(* The documents are what the digests of the first members stand for.      *)
DocumentsMatch ==
    /\ members # <<>>
    /\ documents \in Seq({members[i].sha256 : i \in DOMAIN members})
    /\ \A i \in 1..Len(documents) : documents[i] = members[i].sha256

(* How far the reader is.                                                  *)
Reading ==
    /\ pc \in {"admit", "manifest"} => members = <<>> /\ documents = <<>> /\ total = 0
    /\ pc \in {"check", "read", "analyze"} => MembersAreAManifest /\ DocumentsMatch
    /\ pc = "check" => Checked(Len(documents)) /\ Len(documents) < Len(members)
    /\ pc = "read" => Checked(Len(documents) + 1) /\ Len(documents) < Len(members)
    /\ pc = "analyze" => Checked(Len(documents)) /\ Len(documents) = Len(members)

(* What a result rests on.                                                 *)
Analyzed ==
    /\ members = ByPath(sealed)
    /\ DocumentsMatch
    /\ Len(documents) = Len(members)
    /\ Checked(Len(documents))
    /\ KindsHold(documents)
    /\ Eligible(TheDocument(documents, "target_brief"),
                TheDocument(documents, "topology_options").options) # {}
    /\ result = ResultOf(members, documents)

ResultRests ==
    /\ pc \in {"admit", "manifest", "check", "read", "analyze"} => result = NoResult
    /\ pc \in {"coordinate", "returned"} => result # NoResult
    /\ result # NoResult => Analyzed
    /\ told = "Completed" => result # NoResult

IInv == Typed /\ Reading /\ ResultRests

(* Nothing that the reader or the result rests on changes.                 *)
LEMMA ReadingKept ==
    ASSUME UNCHANGED <<members, documents, total>>
    PROVE  /\ MembersAreAManifest' = MembersAreAManifest
           /\ DocumentsMatch' = DocumentsMatch
           /\ Checked(Len(documents))' = Checked(Len(documents))
           /\ Checked(Len(documents) + 1)' = Checked(Len(documents) + 1)
BY DEF MembersAreAManifest, DocumentsMatch, Checked

LEMMA AnalyzedKept ==
    ASSUME UNCHANGED <<sealed, members, documents, total, result>>
    PROVE  Analyzed' = Analyzed
BY ReadingKept DEF Analyzed

(* The first state.                                                        *)
LEMMA InitInv == Init => IInv
<1> SUFFICES ASSUME Init PROVE IInv
  OBVIOUS
<1>1. DOMAIN files = Paths /\ \A p \in Paths : files[p].link \in BOOLEAN
  BY DEF Init, File
<1>2. Len(documents) = 0 /\ Len(members) = 0
  BY DEF Init
<1>3. 0 \in 0..MaxRewrites
  <2>1. MaxRewrites \in Nat
    BY InputAssumption
  <2> QED
    BY <2>1
<1>4. /\ call \in Calls /\ sealed \in Corpora /\ manifest \in Corpora
      /\ rewrites = 0 /\ pc = "admit" /\ total = 0 /\ told = "nothing"
  BY DEF Init
<1>5. Typed
  BY <1>1, <1>2, <1>3, <1>4 DEF Typed
<1> QED
  BY <1>5 DEF Init, IInv, Reading, ResultRests

(* A failure keeps the invariant.                                          *)
LEMMA FailInv ==
    ASSUME IInv, Fail, UNCHANGED <<inputs, disk>>
    PROVE  IInv'
<1>1. pc' = "failed" /\ UNCHANGED <<members, documents, total, result, told, call, sealed,
                                    manifest, files, rewrites>>
  BY DEF Fail, inputs, disk
<1>2. Typed'
  BY <1>1 DEF IInv, Typed
<1>3. Analyzed' = Analyzed
  BY <1>1, AnalyzedKept
<1> QED
  BY <1>1, <1>2, <1>3 DEF IInv, Reading, ResultRests

(* The steps before the first member.                                      *)
LEMMA AdmitInv ==
    ASSUME IInv, Admit
    PROVE  IInv'
<1>1. CASE Admitted
  <2>1. pc = "admit" /\ pc' = "manifest"
        /\ UNCHANGED <<members, documents, total, result, told, call, sealed,
                       manifest, files, rewrites>>
    BY <1>1 DEF Admit, inputs, disk
  <2>2. Typed'
    BY <2>1 DEF IInv, Typed
  <2> QED
    BY <2>1, <2>2 DEF IInv, Reading, ResultRests
<1>2. CASE ~Admitted
  BY <1>2, FailInv DEF Admit
<1> QED
  BY <1>1, <1>2

LEMMA ReadManifestInv ==
    ASSUME IInv, ReadManifest
    PROVE  IInv'
<1>1. CASE ~Fail
  <2>1. pc = "manifest" /\ pc' = "check" /\ members' = ByPath(manifest)
        /\ Len(manifest) \in 1..MaxMemberCount
        /\ UNCHANGED <<documents, total, result, told, call, sealed, manifest, files, rewrites>>
    BY <1>1 DEF ReadManifest, inputs, disk
  <2>2. documents = <<>> /\ total = 0 /\ result = NoResult /\ manifest \in Corpora /\ Typed
    BY <2>1 DEF IInv, Reading, ResultRests, Typed
  <2> DEFINE m == ByPath(manifest)
  <2>3. m \in Seq(Range(manifest)) /\ Len(m) = Len(manifest) /\ Len(m) \in Nat /\ Len(m) > 0
    BY <2>1, <2>2, ByPathKeeps
  <2>4. BytesThrough(m)[0] = 0
    BY <2>2, BytesStep
  <2>5. m # <<>>
    BY <2>3
  <2>6. Len(documents') = 0 /\ Len(members') > 0 /\ Len(members') \in Nat
    BY <2>1, <2>2, <2>3
  <2>7. Typed'
    BY <2>1, <2>2, <2>6 DEF Typed
  <2>8. MembersAreAManifest'
    BY <2>1, <2>2 DEF MembersAreAManifest
  <2>9. DocumentsMatch'
    <3>1. <<>> \in Seq({members'[i].sha256 : i \in DOMAIN members'})
      OBVIOUS
    <3>2. members' # <<>>
      BY <2>1, <2>5
    <3> QED
      BY <2>1, <2>2, <2>6, <3>1, <3>2 DEF DocumentsMatch
  <2>10. Checked(Len(documents))'
    <3>1. total' = 0 /\ total' = BytesThrough(members')[0] /\ 0 <= MaxTotalBytes
      BY <2>1, <2>2, <2>4, InputAssumption
    <3> QED
      BY <2>6, <3>1 DEF Checked
  <2> QED
    BY <2>1, <2>2, <2>6, <2>7, <2>8, <2>9, <2>10 DEF IInv, Reading, ResultRests
<1>2. CASE Fail
  BY <1>2, FailInv DEF ReadManifest
<1> QED
  BY <1>1, <1>2

(* The members and the sizes the reader works with.                        *)
LEMMA MembersShape ==
    ASSUME IInv, pc \in {"check", "read", "analyze"}
    PROVE  /\ Len(members) \in Nat /\ DOMAIN members = 1..Len(members)
           /\ \A k \in 1..Len(members) : members[k].size_bytes \in Nat
           /\ \A k \in 1..Len(members) :
                 BytesThrough(members)[k] = BytesThrough(members)[k - 1] + members[k].size_bytes
<1>1. PICK corpus \in Corpora : members = ByPath(corpus)
  BY DEF IInv, Reading, MembersAreAManifest
<1>2. Len(members) = Len(corpus)
  BY <1>1, ByPathKeeps
<1> QED
  BY <1>1, <1>2, ByPathKeeps, BytesStep

(* A member that passed its checks adds to what is made sure of.           *)
LEMMA CheckMemberInv ==
    ASSUME IInv, CheckMember
    PROVE  IInv'
<1>1. CASE MemberHolds(NextMember)
  <2> DEFINE n == Len(documents)
             m == members[n + 1]
  <2>1. pc = "check" /\ pc' = "read" /\ total' = total + m.size_bytes
        /\ UNCHANGED <<members, documents, result, told, call, sealed, manifest, files, rewrites>>
    BY <1>1 DEF CheckMember, NextMember, inputs, disk
  <2>2. /\ \A i \in 1..n : members[i].path # m.path
        /\ m.path \notin ForbiddenPaths
        /\ m.size_bytes <= MaxMemberBytes
        /\ total + m.size_bytes <= MaxTotalBytes
    BY <1>1 DEF MemberHolds, NextMember, PathHolds
  <2>3. Typed /\ n \in Nat /\ n + 1 \in 1..Len(members) /\ n < Len(members) /\ total \in Nat
        /\ MembersAreAManifest /\ DocumentsMatch /\ Checked(n) /\ result = NoResult
    BY <2>1 DEF IInv, Reading, ResultRests, Typed
  <2>4. m.size_bytes \in Nat
        /\ BytesThrough(members)[n + 1] = BytesThrough(members)[n] + m.size_bytes
    <3>1. (n + 1) - 1 = n
      BY <2>3
    <3> QED
      BY <2>1, <2>3, <3>1, MembersShape
  <2>5. Typed'
    <3>1. total' \in Nat
      BY <2>1, <2>3, <2>4
    <3> QED
      BY <2>1, <2>3, <3>1 DEF Typed
  <2>6. MembersAreAManifest' /\ DocumentsMatch'
    BY <2>1, <2>3 DEF MembersAreAManifest, DocumentsMatch
  <2>7. Checked(Len(documents) + 1)'
    <3>1. \A i \in 1..(n + 1) : i \in 1..n \/ i = n + 1
      BY <2>3
    <3>2. \A i \in 1..(n + 1) : /\ members[i].path \notin ForbiddenPaths
                                /\ members[i].size_bytes <= MaxMemberBytes
      BY <2>2, <2>3, <3>1 DEF Checked
    <3>3. \A i, j \in 1..(n + 1) : members[i].path = members[j].path => i = j
      BY <2>2, <2>3, <3>1 DEF Checked
    <3>4. total' = BytesThrough(members)[n + 1] /\ total' <= MaxTotalBytes
      BY <2>1, <2>2, <2>3, <2>4 DEF Checked
    <3> QED
      BY <2>1, <3>2, <3>3, <3>4 DEF Checked
  <2> QED
    BY <2>1, <2>3, <2>5, <2>6, <2>7 DEF IInv, Reading, ResultRests
<1>2. CASE ~MemberHolds(NextMember)
  BY <1>2, FailInv DEF CheckMember
<1> QED
  BY <1>1, <1>2

(* A document that is accepted is what the member's digest stands for.     *)
LEMMA ReadMemberInv ==
    ASSUME IInv, ReadMember
    PROVE  IInv'
<1> DEFINE n == Len(documents)
           m == members[n + 1]
           content == files[m.path].content
<1>1. CASE ~Fail
  <2>1. pc = "read" /\ documents' = Append(documents, m.sha256)
        /\ pc' = (IF n + 1 = Len(members) THEN "analyze" ELSE "check")
        /\ UNCHANGED <<members, total, result, told, call, sealed, manifest, files, rewrites>>
    BY <1>1 DEF ReadMember, NextMember, DigestHolds, Accept, inputs, disk
  <2>2. Typed /\ n \in Nat /\ n + 1 \in 1..Len(members) /\ n < Len(members)
        /\ Len(members) \in Nat
        /\ MembersAreAManifest /\ DocumentsMatch /\ Checked(n + 1) /\ result = NoResult
    BY <2>1 DEF IInv, Reading, ResultRests, Typed
  <2>3. DOMAIN members = 1..Len(members)
    BY <2>1, MembersShape
  <2> DEFINE S == {members[i].sha256 : i \in DOMAIN members}
  <2>4. documents \in Seq(S) /\ m.sha256 \in S /\ members # <<>>
        /\ \A i \in 1..n : documents[i] = members[i].sha256
    BY <2>2, <2>3 DEF DocumentsMatch
  <2>5. /\ documents' \in Seq(S) /\ Len(documents') = n + 1
        /\ \A i \in 1..n : documents'[i] = documents[i]
        /\ documents'[n + 1] = m.sha256
    <3> HIDE DEF S
    <3>1. documents' = Append(documents, m.sha256)
      BY <2>1
    <3> HIDE DEF m
    <3> QED
      BY <2>4, <3>1
  <2>6. DocumentsMatch'
    <3>1. \A i \in 1..(n + 1) : i \in 1..n \/ i = n + 1
      BY <2>2
    <3>2. \A i \in 1..(n + 1) : documents'[i] = members[i].sha256
      BY <2>4, <2>5, <3>1
    <3> QED
      BY <2>1, <2>4, <2>5, <3>2 DEF DocumentsMatch
  <2>7. MembersAreAManifest'
    BY <2>1, <2>2 DEF MembersAreAManifest
  <2>8. Checked(Len(documents))'
    BY <2>1, <2>2, <2>5 DEF Checked
  <2>9. n + 1 \in Nat /\ n + 1 <= Len(members)
    BY <2>2
  <2>10. Typed'
    BY <2>1, <2>2, <2>5, <2>9 DEF Typed
  <2>11. \/ pc' = "analyze" /\ n + 1 = Len(members)
         \/ pc' = "check" /\ n + 1 < Len(members)
    BY <2>1, <2>2
  <2> HIDE DEF m
  <2> QED
    BY <2>1, <2>2, <2>5, <2>6, <2>7, <2>8, <2>10, <2>11 DEF IInv, Reading, ResultRests
<1>2. CASE Fail
  BY <1>2, FailInv DEF ReadMember
<1> QED
  BY <1>1, <1>2

(* A result is of the members of the corpus that was sealed.               *)
LEMMA AnalyzeInv ==
    ASSUME IInv, Analyze
    PROVE  IInv'
<1>1. CASE AnalysisHolds
  <2>1. pc = "analyze" /\ pc' = "coordinate" /\ result' = ResultOf(members, documents)
        /\ UNCHANGED <<members, documents, total, told, call, sealed, manifest, files, rewrites>>
    BY <1>1 DEF Analyze, inputs, disk
  <2>2. Typed /\ DocumentsMatch /\ Checked(Len(documents)) /\ Len(documents) = Len(members)
    BY <2>1 DEF IInv, Reading
  <2>3. result'.corpus = members /\ members # <<>>
    BY <2>1, <2>2 DEF ResultOf, DocumentsMatch
  <2>4. result' # NoResult
    BY <2>3 DEF NoResult
  <2>5. Typed'
    BY <2>1, <2>2 DEF Typed
  <2>6. Analyzed'
    <3>1. DocumentsMatch' /\ Checked(Len(documents))'
      BY <2>1, <2>2, ReadingKept
    <3>2. /\ members = ByPath(sealed) /\ KindsHold(documents)
          /\ Eligible(TheDocument(documents, "target_brief"),
                      TheDocument(documents, "topology_options").options) # {}
      BY <1>1 DEF AnalysisHolds
    <3> QED
      BY <2>1, <2>2, <3>1, <3>2 DEF Analyzed
  <2> QED
    BY <2>1, <2>4, <2>5, <2>6 DEF IInv, Reading, ResultRests
<1>2. CASE ~AnalysisHolds
  BY <1>2, FailInv DEF Analyze
<1> QED
  BY <1>1, <1>2

LEMMA CoordinateInv ==
    ASSUME IInv, CoordinateCompletion
    PROVE  IInv'
<1>1. CASE call.started <= call.completed
  <2>1. pc = "coordinate" /\ pc' = "returned" /\ told' = "Completed"
        /\ UNCHANGED <<members, documents, total, result, call, sealed, manifest, files, rewrites>>
    BY <1>1 DEF CoordinateCompletion, inputs, disk
  <2>2. Typed'
    BY <2>1 DEF IInv, Typed
  <2>3. Analyzed' = Analyzed
    BY <2>1, AnalyzedKept
  <2> QED
    BY <2>1, <2>2, <2>3 DEF IInv, Reading, ResultRests
<1>2. CASE ~(call.started <= call.completed)
  BY <1>2, FailInv DEF CoordinateCompletion
<1> QED
  BY <1>1, <1>2

(* Neither what another process does to the disk nor a stuttering step     *)
(* reaches what the run has made sure of.                                  *)
LEMMA ElsewhereInv ==
    ASSUME IInv, Typed', UNCHANGED <<sealed, pc, members, documents, total, result, told>>
    PROVE  IInv'
<1>1. Analyzed' = Analyzed
  BY AnalyzedKept
<1> QED
  BY <1>1, ReadingKept DEF IInv, Reading, ResultRests

LEMMA InterferenceInv ==
    ASSUME IInv, Interference
    PROVE  IInv'
<1>1. Typed /\ MaxRewrites \in Nat /\ rewrites \in 0..MaxRewrites
  BY InputAssumption DEF IInv, Typed
<1>2. rewrites < MaxRewrites => rewrites + 1 \in 0..MaxRewrites
  BY <1>1
<1>3. ASSUME NEW p \in Paths, NEW content \in Contents, NEW link \in BOOLEAN,
             RewriteMember(p, content, link)
      PROVE  IInv'
  <2>1. UNCHANGED <<call, sealed, manifest, pc, members, documents, total, result, told>>
        /\ rewrites' \in 0..MaxRewrites /\ files' = [files EXCEPT ![p] = File(content, link)]
    BY <1>2, <1>3 DEF RewriteMember, inputs
  <2>2. File(content, link).link \in BOOLEAN
    BY DEF File
  <2>3. DOMAIN files' = Paths /\ \A q \in Paths : files'[q].link \in BOOLEAN
    <3>1. DOMAIN files = Paths /\ \A q \in Paths : files[q].link \in BOOLEAN
      BY <1>1 DEF Typed
    <3> QED
      BY <2>1, <2>2, <3>1
  <2>4. Typed'
    BY <1>1, <2>1, <2>3 DEF Typed
  <2> QED
    BY <2>1, <2>4, ElsewhereInv
<1>4. ASSUME NEW corpus \in Corpora, RewriteManifest(corpus)
      PROVE  IInv'
  <2>1. UNCHANGED <<call, sealed, files, pc, members, documents, total, result, told>>
        /\ rewrites' \in 0..MaxRewrites /\ manifest' \in Corpora
    BY <1>2, <1>4 DEF RewriteManifest, inputs
  <2>2. Typed'
    BY <1>1, <2>1 DEF Typed
  <2> QED
    BY <2>1, <2>2, ElsewhereInv
<1> QED
  BY <1>3, <1>4 DEF Interference

(* The invariant holds in every state.                                     *)
THEOREM Invariance == Spec => []IInv
<1>1. Init => IInv
  BY InitInv
<1>2. IInv /\ [Next]_vars => IInv'
  <2> SUFFICES ASSUME IInv, [Next]_vars PROVE IInv'
    OBVIOUS
  <2>1. CASE Run
    BY <2>1, AdmitInv, ReadManifestInv, CheckMemberInv, ReadMemberInv, AnalyzeInv, CoordinateInv
    DEF Run
  <2>2. CASE Interference
    BY <2>2, InterferenceInv
  <2>3. CASE UNCHANGED vars
    <3>1. UNCHANGED <<call, sealed, manifest, files, rewrites, pc, members, documents, total,
                      result, told>>
      BY <2>3 DEF vars
    <3>2. Typed'
      BY <3>1 DEF IInv, Typed
    <3> QED
      BY <3>1, <3>2, ElsewhereInv
  <2> QED
    BY <2>1, <2>2, <2>3 DEF Next
<1> QED
  BY <1>1, <1>2, PTL DEF Spec

(* Every variable keeps its type.                                          *)
THEOREM Typing == Spec => []TypeOK
<1>1. IInv => TypeOK
  BY DEF IInv, Typed, Reading, TypeOK
<1> QED
  BY <1>1, Invariance, PTL

-----------------------------------------------------------------------------
(* What a result is made of.                                               *)

(* The reader's checks on the members in path order say the same of the    *)
(* corpus that was sealed.                                                 *)
LEMMA SealedIsChecked ==
    ASSUME Typed, Analyzed
    PROVE  /\ Len(documents) = Len(sealed)
           /\ Range(documents) = {m.sha256 : m \in Range(sealed)}
           /\ IsInjective([i \in DOMAIN sealed |-> sealed[i].path])
           /\ \A m \in Range(sealed) :
                 m.path \notin ForbiddenPaths /\ m.size_bytes <= MaxMemberBytes
           /\ BytesThrough(sealed)[Len(sealed)] <= MaxTotalBytes
<1> DEFINE n == Len(sealed)
<1>1. sealed \in Corpora /\ members = ByPath(sealed) /\ DocumentsMatch
      /\ Len(documents) = Len(members) /\ Checked(Len(documents))
  BY DEF Typed, Analyzed
<1>2. n \in Nat /\ DOMAIN sealed = 1..n
  BY <1>1, CorpusShape
<1>3. Len(members) = n /\ DOMAIN members = 1..n /\ BytesThrough(members)[n] = BytesThrough(sealed)[n]
  BY <1>1, ByPathKeeps
<1>4. PICK order : Moves(order, sealed, 1..n, members, n)
  BY <1>1, ByPathReorders
<1>5. /\ \A k \in 1..n : order[k] \in 1..n /\ members[k] = sealed[order[k]]
      /\ \A i \in 1..n : \E k \in 1..n : order[k] = i
  BY <1>4 DEF Moves
<1>6. Len(documents) = n /\ DOMAIN documents = 1..n
      /\ \A k \in 1..n : documents[k] = members[k].sha256
  <2>1. documents \in Seq({members[i].sha256 : i \in DOMAIN members})
        /\ \A i \in 1..Len(documents) : documents[i] = members[i].sha256
    BY <1>1 DEF DocumentsMatch
  <2> QED
    BY <1>1, <1>3, <2>1
<1>7. \A k \in 1..n : members[k] \in Range(sealed)
  BY <1>2, <1>5 DEF Range
<1>8. ASSUME NEW m \in Range(sealed) PROVE \E k \in 1..n : m = members[k]
  <2>1. PICK i \in 1..n : m = sealed[i]
    BY <1>2 DEF Range
  <2>2. PICK k \in 1..n : order[k] = i
    BY <1>5
  <2> QED
    BY <1>5, <2>1, <2>2
<1>9. Range(documents) = {m.sha256 : m \in Range(sealed)}
  <2>1. ASSUME NEW d \in Range(documents) PROVE \E m \in Range(sealed) : d = m.sha256
    <3>1. PICK k \in 1..n : d = documents[k]
      BY <1>6 DEF Range
    <3> QED
      BY <1>6, <1>7, <3>1
  <2>2. ASSUME NEW m \in Range(sealed) PROVE m.sha256 \in Range(documents)
    <3>1. PICK k \in 1..n : m = members[k]
      BY <1>8
    <3>2. m.sha256 = documents[k]
      BY <1>6, <3>1
    <3> QED
      BY <1>6, <3>2 DEF Range
  <2> QED
    BY <2>1, <2>2
<1>10. IsInjective([i \in DOMAIN sealed |-> sealed[i].path])
  <2> SUFFICES ASSUME NEW i \in 1..n, NEW j \in 1..n, sealed[i].path = sealed[j].path
               PROVE  i = j
    BY <1>2 DEF IsInjective
  <2>1. PICK k \in 1..n : order[k] = i
    BY <1>5
  <2>2. PICK l \in 1..n : order[l] = j
    BY <1>5
  <2>3. members[k].path = members[l].path
    BY <1>5, <2>1, <2>2
  <2>4. k = l
    BY <1>1, <1>6, <2>3 DEF Checked
  <2> QED
    BY <2>1, <2>2, <2>4
<1>11. \A m \in Range(sealed) : m.path \notin ForbiddenPaths /\ m.size_bytes <= MaxMemberBytes
  <2>1. \A k \in 1..n : members[k].path \notin ForbiddenPaths
                        /\ members[k].size_bytes <= MaxMemberBytes
    BY <1>1, <1>6 DEF Checked
  <2> QED
    BY <1>8, <2>1
<1>12. BytesThrough(sealed)[n] <= MaxTotalBytes
  BY <1>1, <1>3, <1>6 DEF Checked
<1> QED
  BY <1>6, <1>9, <1>10, <1>11, <1>12

(* OnlySealedIsAnalyzed holds whatever the corpora, however often another  *)
(* process interferes and whatever it writes: run() returns a result of    *)
(* the sealed corpus, whole and within the bounds, or none.                *)
THEOREM OnlyTheSealedCorpus == Spec => []OnlySealedIsAnalyzed
<1>1. IInv => OnlySealedIsAnalyzed
  <2> SUFFICES ASSUME IInv, result # NoResult \/ told = "Completed"
               PROVE  OnlySealedIsAnalyzed
    BY DEF OnlySealedIsAnalyzed
  <2>1. result # NoResult /\ Typed /\ Analyzed
    BY DEF IInv, ResultRests
  <2> QED
    BY <2>1, SealedIsChecked DEF OnlySealedIsAnalyzed
<1> QED
  BY <1>1, Invariance, PTL

(* The document of a kind that the analysis works with is the sealed one.  *)
LEMMA TheDocumentIsSealed ==
    ASSUME Typed, Analyzed, NEW k \in Kinds
    PROVE  /\ TheDocument(documents, k) = SealedDocument(k)
           /\ TheDocument(documents, k) \in DocumentShape
           /\ TheDocument(documents, k).kind = k
<1> DEFINE K == {i \in DOMAIN documents : documents[i].kind = k}
<1>1. \A i \in DOMAIN documents : documents[i] \in DocumentShape
  BY DEF Analyzed, KindsHold
<1>2. Cardinality(K) = 1
  BY DEF Analyzed, KindsHold
<1>3. /\ Len(documents) = Len(members)
      /\ documents \in Seq({members[i].sha256 : i \in DOMAIN members})
      /\ \A i \in 1..Len(documents) : documents[i] = members[i].sha256
  BY DEF Analyzed, DocumentsMatch
<1> DEFINE n == Len(sealed)
<1>4. sealed \in Corpora /\ members = ByPath(sealed)
  BY DEF Typed, Analyzed
<1>5. n \in Nat /\ DOMAIN sealed = 1..n /\ Len(members) = n
  BY <1>4, CorpusShape, ByPathKeeps
<1>6. DOMAIN documents = 1..n
  BY <1>3, <1>5
<1>7. PICK order : Moves(order, sealed, 1..n, members, n)
  BY <1>4, ByPathReorders
<1>8. PICK x : K = {x}
  <2>1. IsFiniteSet(1..n)
    BY <1>5, UpTo
  <2>2. IsFiniteSet(K)
    <3>1. K \subseteq 1..n
      BY <1>6
    <3> HIDE DEF K
    <3> QED
      BY <2>1, <3>1, FS_Subset
  <2> HIDE DEF K
  <2> QED
    BY <1>2, <2>2, FS_Singleton
<1>9. x \in 1..n /\ documents[x].kind = k
      /\ \A i \in 1..n : documents[i].kind = k => i = x
  BY <1>6, <1>8
<1>10. TheDocument(documents, k) = documents[x]
  BY <1>6, <1>9 DEF TheDocument
<1>11. \A i \in 1..n : documents[i] = sealed[order[i]].sha256 /\ order[i] \in 1..n
  BY <1>3, <1>5, <1>7 DEF Moves
<1>12. \A i \in 1..n : \E j \in 1..n : order[j] = i
  BY <1>7 DEF Moves
<1>13. ASSUME NEW m \in Range(sealed), m.sha256.kind = k PROVE m = sealed[order[x]]
  <2>1. PICK i \in 1..n : m = sealed[i]
    BY <1>5 DEF Range
  <2>2. PICK j \in 1..n : order[j] = i
    BY <1>12
  <2>3. documents[j].kind = k
    BY <1>11, <1>13, <2>1, <2>2
  <2> QED
    BY <1>9, <2>1, <2>2, <2>3
<1>14. sealed[order[x]] \in Range(sealed) /\ sealed[order[x]].sha256.kind = k
  BY <1>5, <1>9, <1>11 DEF Range
<1>15. SealedDocument(k) = documents[x]
  <2>1. (CHOOSE m \in Range(sealed) : m.sha256.kind = k) = sealed[order[x]]
    BY <1>13, <1>14
  <2> QED
    BY <1>9, <1>11, <2>1 DEF SealedDocument
<1> QED
  BY <1>1, <1>6, <1>9, <1>10, <1>15

(* What each of them holds.                                                *)
LEMMA DocumentsHold ==
    ASSUME Typed, Analyzed
    PROVE  /\ SealedDocument("donor_evidence").donors \in Seq(DonorShape)
           /\ SealedDocument("topology_options").options \in Seq(OptionShape)
           /\ SealedDocument("target_brief").new_application \in BOOLEAN
           /\ SealedDocument("target_brief").separate_actors \in BOOLEAN
<1> DEFINE doc(k) == SealedDocument(k)
<1>1. \A k \in Kinds : doc(k) \in DocumentShape /\ doc(k).kind = k
  BY TheDocumentIsSealed
<1>2. ASSUME NEW d \in DocumentShape
      PROVE  /\ d.kind = "donor_evidence" => d.donors \in Seq(DonorShape)
             /\ d.kind = "topology_options" => d.options \in Seq(OptionShape)
             /\ d.kind = "target_brief" => d.new_application \in BOOLEAN
                                           /\ d.separate_actors \in BOOLEAN
  <2> DEFINE D == Seq(DonorShape)
             O == Seq(OptionShape)
  <2>1. \/ d \in [kind : {"target_brief"}, size : Nat, application : STRING,
                  new_application : BOOLEAN, separate_actors : BOOLEAN, owned : BOOLEAN]
        \/ d \in [kind : {"donor_evidence"}, size : Nat, donors : D]
        \/ d \in [kind : {"topology_options"}, size : Nat, options : O]
        \/ d \in [kind : {"constraints"}, size : Nat, critical_blockers : SUBSET STRING]
    BY DEF DocumentShape
  <2> HIDE DEF D, O
  <2>2. /\ d.kind = "donor_evidence" => d.donors \in D
        /\ d.kind = "topology_options" => d.options \in O
        /\ d.kind = "target_brief" => d.new_application \in BOOLEAN
                                      /\ d.separate_actors \in BOOLEAN
    BY <2>1
  <2> QED
    BY <2>2 DEF D, O
<1>3. {"donor_evidence", "topology_options", "target_brief"} \subseteq Kinds
  BY DEF Kinds
<1> HIDE DEF doc
<1>4. /\ doc("donor_evidence").donors \in Seq(DonorShape)
      /\ doc("topology_options").options \in Seq(OptionShape)
      /\ doc("target_brief").new_application \in BOOLEAN
      /\ doc("target_brief").separate_actors \in BOOLEAN
  BY <1>1, <1>2, <1>3
<1> QED
  BY <1>4 DEF doc

-----------------------------------------------------------------------------
(* What the engine makes of the documents.                                 *)

(* select_reuse_mode finds a way to reuse the donor when there is one, and *)
(* rejects it only when there is none.                                     *)
LEMMA ReuseModeIsAWay ==
    ASSUME NEW d \in DonorShape
    PROVE  /\ SelectReuseMode(d) = "Reject" <=> Ways(d) = {}
           /\ SelectReuseMode(d) \in (IF Ways(d) = {} THEN {"Reject"} ELSE Ways(d))
<1> DEFINE open == {i \in DOMAIN ReuseModes :
                       ReuseModes[i] \in d.allowed_modes \ d.prohibited_modes}
<1>1. d.allowed_modes \subseteq Modes
  BY DEF DonorShape
<1>2. DOMAIN ReuseModes = 1..7
  BY DEF ReuseModes
<1>3. \A i \in 1..7 : ReuseModes[i] \notin {"Hold", "Reject"}
  <2>1. \A i \in 1..7 : i \in {1, 2, 3, 4, 5, 6, 7}
    OBVIOUS
  <2> QED
    BY <2>1 DEF ReuseModes
<1>4. ASSUME NEW w \in Modes, w \notin {"Hold", "Reject"}
      PROVE  \E i \in 1..7 : ReuseModes[i] = w
  <2>1. /\ ReuseModes[1] = "ServiceConsumption" /\ ReuseModes[2] = "InterfaceReuse"
        /\ ReuseModes[3] = "BoundedExtraction" /\ ReuseModes[4] = "TestVectorReuse"
        /\ ReuseModes[5] = "PatternReimplementation" /\ ReuseModes[6] = "DirectDependency"
        /\ ReuseModes[7] = "Vendoring"
    BY DEF ReuseModes
  <2>2. {1, 2, 3, 4, 5, 6, 7} \subseteq 1..7
    OBVIOUS
  <2> QED
    BY <1>4, <2>1, <2>2 DEF Modes
<1>5. SelectReuseMode(d) = IF ~d.behavior_proven \/ open = {} THEN "Reject"
                           ELSE ReuseModes[Min(open)]
  BY DEF SelectReuseMode
<1>6. CASE ~d.behavior_proven
  BY <1>5, <1>6 DEF Ways
<1>7. CASE d.behavior_proven
  <2>1. Ways(d) = d.allowed_modes \ (d.prohibited_modes \union {"Hold", "Reject"})
    BY <1>7 DEF Ways
  <2>2. \A i \in open : i \in 1..7 /\ ReuseModes[i] \in Ways(d)
    BY <1>2, <1>3, <2>1
  <2>3. ASSUME NEW w \in Ways(d) PROVE open # {}
    <3>1. PICK i \in 1..7 : ReuseModes[i] = w
      BY <1>1, <1>4, <2>1
    <3>2. i \in open
      BY <1>2, <2>1, <3>1
    <3> QED
      BY <3>2
  <2>4. "Reject" \notin Ways(d)
    BY <2>1
  <2> HIDE DEF open
  <2>5. CASE open = {}
    BY <1>5, <2>3, <2>5
  <2>6. CASE open # {}
    <3>1. open \subseteq Nat
      BY <2>2
    <3>2. \E x \in open : \A y \in open : x <= y
      BY <2>6, <3>1, LeastOf
    <3>3. Min(open) \in open
      BY <3>2 DEF Min
    <3>4. SelectReuseMode(d) \in Ways(d)
      BY <1>5, <1>7, <2>2, <2>6, <3>3
    <3> QED
      BY <2>4, <3>4
  <2> QED
    BY <2>5, <2>6
<1> QED
  BY <1>6, <1>7

(* The items of a are the chosen ones of s.                                *)
SameItems(a, s, chosen) ==
    /\ \A i \in chosen : s[i] \in Range(a)
    /\ \A x \in Range(a) : \E i \in chosen : x = s[i]

(* Arranging neither drops nor adds an item.                               *)
LEMMA ArrangeRange ==
    ASSUME NEW chosen, chosen \subseteq Nat, IsFiniteSet(chosen),
           NEW key, \A i \in chosen : key[i] \in Int,
           NEW s
    PROVE  SameItems(Arrange(s, chosen, key), s, chosen)
<1> DEFINE a == Arrange(s, chosen, key)
           c == Cardinality(chosen)
<1>1. PICK order : Moves(order, s, chosen, a, c)
  BY ArrangeMoves
<1> HIDE DEF a, c
<1>2. /\ DOMAIN a = 1..c
      /\ \A k \in 1..c : order[k] \in chosen /\ a[k] = s[order[k]]
      /\ \A i \in chosen : \E k \in 1..c : order[k] = i
  BY <1>1 DEF Moves
<1>3. ASSUME NEW i \in chosen PROVE s[i] \in Range(a)
  <2>1. PICK k \in 1..c : order[k] = i
    BY <1>2
  <2>2. a[k] = s[i]
    BY <1>2, <2>1
  <2> QED
    BY <1>2, <2>2 DEF Range
<1>4. ASSUME NEW x \in Range(a) PROVE \E i \in chosen : x = s[i]
  <2>1. PICK k \in 1..c : x = a[k]
    BY <1>2 DEF Range
  <2> QED
    BY <1>2, <2>1
<1> QED
  BY <1>3, <1>4 DEF a, SameItems

(* Every donor becomes a candidate, and no candidate is anything else.     *)
LEMMA CandidatesAreDonors ==
    ASSUME NEW donors \in Seq(DonorShape)
    PROVE  /\ \E n \in Nat : DOMAIN Candidates(donors) = 1..n
           /\ \A d \in Range(donors) : ClassifyDonor(d) \in Range(Candidates(donors))
           /\ \A c \in Range(Candidates(donors)) :
                 \E d \in Range(donors) : c = ClassifyDonor(d)
<1> DEFINE n == Len(donors)
           s == [i \in 1..n |-> ClassifyDonor(donors[i])]
           key == [i \in 1..n |-> donors[i].capability_id]
           a == Arrange(s, 1..n, key)
<1>1. n \in Nat /\ DOMAIN donors = 1..n /\ \A i \in 1..n : donors[i] \in DonorShape
  OBVIOUS
<1>2. Candidates(donors) = a
  BY <1>1 DEF Candidates
<1>3. \A i \in 1..n : key[i] \in Int
  BY <1>1 DEF DonorShape
<1>4. \A i \in 1..n : s[i] = ClassifyDonor(donors[i])
  OBVIOUS
<1>5. \E k \in Nat : DOMAIN a = 1..k
  <2>1. Cardinality(1..n) \in Nat
    BY <1>1, UpTo
  <2> QED
    BY <2>1 DEF Arrange
<1> HIDE DEF s, key
<1>6. /\ \A i \in 1..n : s[i] \in Range(a)
      /\ \A x \in Range(a) : \E i \in 1..n : x = s[i]
  <2>1. 1..n \subseteq Nat /\ IsFiniteSet(1..n)
    BY <1>1, UpTo
  <2>2. SameItems(a, s, 1..n)
    BY <1>3, <2>1, ArrangeRange
  <2> QED
    BY <2>2 DEF SameItems
<1>7. ASSUME NEW d \in Range(donors) PROVE ClassifyDonor(d) \in Range(a)
  <2>1. PICK i \in 1..n : d = donors[i]
    BY <1>1 DEF Range
  <2> QED
    BY <1>4, <1>6, <2>1
<1>8. ASSUME NEW c \in Range(a) PROVE \E d \in Range(donors) : c = ClassifyDonor(d)
  <2>1. PICK i \in 1..n : c = s[i]
    BY <1>6
  <2>2. donors[i] \in Range(donors)
    BY <1>1 DEF Range
  <2> QED
    BY <1>4, <2>1, <2>2
<1> QED
  BY <1>2, <1>5, <1>7, <1>8

(* The blueprint names the candidates that are not rejected.               *)
LEMMA KeptAreCandidates ==
    ASSUME NEW candidates, NEW n \in Nat, DOMAIN candidates = 1..n
    PROVE  /\ \A c \in Range(candidates) :
                 c.disposition # "Rejected" => c.capability_id \in Range(Kept(candidates))
           /\ \A x \in Range(Kept(candidates)) :
                 \E c \in Range(candidates) : c.disposition # "Rejected" /\ x = c.capability_id
<1> DEFINE s == [i \in 1..n |-> candidates[i].capability_id]
           chosen == {i \in 1..n : candidates[i].disposition # "Rejected"}
           key == [i \in 1..n |-> i]
           a == Arrange(s, chosen, key)
<1>1. Kept(candidates) = a
  BY DEF Kept
<1>2. chosen \in SUBSET (1..n) /\ \A i \in chosen : key[i] \in Int
  OBVIOUS
<1>3. \A i \in 1..n : s[i] = candidates[i].capability_id
  OBVIOUS
<1>4. \A i \in 1..n : i \in chosen <=> candidates[i].disposition # "Rejected"
  OBVIOUS
<1> HIDE DEF s, chosen, key
<1>5. /\ \A i \in chosen : s[i] \in Range(a)
      /\ \A x \in Range(a) : \E i \in chosen : x = s[i]
  <2>1. chosen \subseteq Nat /\ IsFiniteSet(chosen)
    BY <1>2, UpTo, FS_Subset
  <2>2. SameItems(a, s, chosen)
    BY <1>2, <2>1, ArrangeRange
  <2> QED
    BY <2>2 DEF SameItems
<1>6. ASSUME NEW c \in Range(candidates), c.disposition # "Rejected"
      PROVE  c.capability_id \in Range(a)
  <2>1. PICK i \in 1..n : c = candidates[i]
    BY DEF Range
  <2>2. i \in chosen /\ s[i] = c.capability_id
    BY <1>3, <1>4, <1>6, <2>1
  <2> QED
    BY <1>5, <2>2
<1>7. ASSUME NEW x \in Range(a)
      PROVE  \E c \in Range(candidates) : c.disposition # "Rejected" /\ x = c.capability_id
  <2>1. PICK i \in chosen : x = s[i]
    BY <1>5
  <2>2. i \in 1..n /\ candidates[i] \in Range(candidates)
    BY <1>2 DEF Range
  <2> QED
    BY <1>3, <1>4, <2>1, <2>2
<1> QED
  BY <1>1, <1>6, <1>7

(* The options that are eligible are those that suit the target.           *)
LEMMA EligibleSuit ==
    ASSUME NEW options \in Seq(OptionShape), NEW target,
           target.new_application \in BOOLEAN, target.separate_actors \in BOOLEAN
    PROVE  /\ Eligible(target, options) \subseteq 1..Len(options)
           /\ \A i \in 1..Len(options) :
                 i \in Eligible(target, options) <=> Suits(options[i], target)
<1>1. DOMAIN options = 1..Len(options)
  OBVIOUS
<1> QED
  BY <1>1 DEF Eligible, Suits

(* What an option's rank and id are.                                       *)
LEMMA OptionNumbers ==
    ASSUME NEW options \in Seq(OptionShape), NEW i \in 1..Len(options)
    PROVE  options[i].complexity_rank \in Nat /\ options[i].topology_id \in Nat
<1>1. options[i] \in OptionShape
  OBVIOUS
<1> QED
  BY <1>1 DEF OptionShape

(* select_topology's order has a first among any of the options.           *)
LEMMA SimplestExists ==
    ASSUME NEW options \in Seq(OptionShape), NEW S, S \subseteq 1..Len(options), S # {}
    PROVE  \E i \in S : \A j \in S : ComesFirst(options, i, j)
<1>1. \A i \in S : options[i].complexity_rank \in Nat /\ options[i].topology_id \in Nat /\ i \in Nat
  BY OptionNumbers
<1> DEFINE Ranks == {options[i].complexity_rank : i \in S}
<1>2. PICK r \in Ranks : \A y \in Ranks : r <= y
  <2>1. Ranks \subseteq Nat /\ Ranks # {}
    BY <1>1
  <2> HIDE DEF Ranks
  <2> QED
    BY <2>1, LeastOf
<1> DEFINE S1 == {i \in S : options[i].complexity_rank = r}
           Ids == {options[i].topology_id : i \in S1}
<1>3. PICK t \in Ids : \A y \in Ids : t <= y
  <2>1. Ids \subseteq Nat /\ Ids # {}
    BY <1>1, <1>2
  <2> HIDE DEF Ids
  <2> QED
    BY <2>1, LeastOf
<1> DEFINE S2 == {i \in S1 : options[i].topology_id = t}
<1>4. PICK i \in S2 : \A j \in S2 : i <= j
  <2>1. S2 \subseteq Nat /\ S2 # {}
    BY <1>1, <1>3
  <2> HIDE DEF S2
  <2> QED
    BY <2>1, LeastOf
<1>5. i \in S /\ options[i].complexity_rank = r /\ options[i].topology_id = t
  OBVIOUS
<1>6. ASSUME NEW j \in S PROVE ComesFirst(options, i, j)
  <2>1. r <= options[j].complexity_rank
    BY <1>2
  <2>2. CASE r < options[j].complexity_rank
    BY <1>5, <2>2 DEF ComesFirst
  <2>3. CASE r = options[j].complexity_rank
    <3>1. j \in S1 /\ t <= options[j].topology_id
      BY <1>3, <2>3
    <3>2. CASE t < options[j].topology_id
      BY <1>5, <2>3, <3>2 DEF ComesFirst
    <3>3. CASE t = options[j].topology_id
      <4>1. i <= j
        BY <1>4, <3>1, <3>3
      <4> QED
        BY <1>5, <2>3, <3>3, <4>1 DEF ComesFirst
    <3>4. t \in Nat /\ options[j].topology_id \in Nat
      BY <1>1, <1>5
    <3> QED
      BY <3>1, <3>2, <3>3, <3>4
  <2>4. r \in Nat /\ options[j].complexity_rank \in Nat
    BY <1>1, <1>5
  <2> QED
    BY <2>1, <2>2, <2>3, <2>4
<1> QED
  BY <1>5, <1>6

(* The topology that is selected suits the target, and none that does is   *)
(* simpler.                                                                *)
LEMMA SelectedIsSimplest ==
    ASSUME NEW options \in Seq(OptionShape), NEW target,
           target.new_application \in BOOLEAN, target.separate_actors \in BOOLEAN,
           Eligible(target, options) # {}
    PROVE  \E i \in 1..Len(options) :
              /\ SelectTopology(target, options) = options[i]
              /\ Suits(options[i], target)
              /\ \A other \in Range(options) :
                    Suits(other, target) =>
                        options[i].complexity_rank <= other.complexity_rank
<1> DEFINE E == Eligible(target, options)
           i == CHOOSE k \in E : \A j \in E : ComesFirst(options, k, j)
<1>1. E \subseteq 1..Len(options) /\ \A k \in 1..Len(options) : k \in E <=> Suits(options[k], target)
  BY EligibleSuit
<1>2. SelectTopology(target, options) = options[i]
  BY DEF SelectTopology
<1> HIDE DEF E
<1>3. i \in E /\ \A j \in E : ComesFirst(options, i, j)
  <2>1. \E k \in E : \A j \in E : ComesFirst(options, k, j)
    BY <1>1, SimplestExists DEF E
  <2> QED
    BY <2>1
<1> HIDE DEF i
<1>4. ASSUME NEW other \in Range(options), Suits(other, target)
      PROVE  options[i].complexity_rank <= other.complexity_rank
  <2>1. PICK j \in 1..Len(options) : other = options[j]
    BY DEF Range
  <2>2. ComesFirst(options, i, j)
    BY <1>1, <1>3, <1>4, <2>1
  <2>3. options[i].complexity_rank \in Nat /\ options[j].complexity_rank \in Nat
    BY <1>1, <1>3, OptionNumbers
  <2> QED
    BY <2>1, <2>2, <2>3 DEF ComesFirst
<1> QED
  BY <1>1, <1>2, <1>3, <1>4

(* What the result says of the donors.                                     *)
LEMMA DonorsAreSound ==
    ASSUME NEW donors \in Seq(DonorShape), NEW cs, cs = Candidates(donors)
    PROVE  /\ \A c \in Range(cs) :
                 \E d \in Range(donors) :
                    /\ d.capability_id = c.capability_id
                    /\ c.reuse_mode \in (IF Ways(d) = {} THEN {"Reject"} ELSE Ways(d))
                    /\ c.disposition = "QualifiedCandidate" => d.blockers = {}
           /\ \A d \in Range(donors) : d.blockers \subseteq UNION {c.blockers : c \in Range(cs)}
           /\ Range(Kept(cs)) = {d.capability_id : d \in {e \in Range(donors) : Ways(e) # {}}}
<1>1. /\ \A d \in Range(donors) : ClassifyDonor(d) \in Range(cs)
      /\ \A c \in Range(cs) : \E d \in Range(donors) : c = ClassifyDonor(d)
  BY CandidatesAreDonors
<1>2. ASSUME NEW d \in Range(donors)
      PROVE  /\ ClassifyDonor(d).capability_id = d.capability_id
             /\ ClassifyDonor(d).blockers = d.blockers
             /\ ClassifyDonor(d).reuse_mode \in (IF Ways(d) = {} THEN {"Reject"} ELSE Ways(d))
             /\ ClassifyDonor(d).disposition = "QualifiedCandidate" => d.blockers = {}
             /\ ClassifyDonor(d).disposition = "Rejected" <=> Ways(d) = {}
  <2>1. d \in DonorShape
    BY DEF Range
  <2>2. /\ SelectReuseMode(d) = "Reject" <=> Ways(d) = {}
        /\ SelectReuseMode(d) \in (IF Ways(d) = {} THEN {"Reject"} ELSE Ways(d))
    BY <2>1, ReuseModeIsAWay
  <2> QED
    BY <2>2 DEF ClassifyDonor
<1>3. PICK n \in Nat : DOMAIN cs = 1..n
  BY CandidatesAreDonors
<1>4. /\ \A c \in Range(cs) :
            c.disposition # "Rejected" => c.capability_id \in Range(Kept(cs))
      /\ \A x \in Range(Kept(cs)) :
            \E c \in Range(cs) : c.disposition # "Rejected" /\ x = c.capability_id
  BY <1>3, KeptAreCandidates
<1>5. ASSUME NEW c \in Range(cs)
      PROVE  \E d \in Range(donors) :
                /\ d.capability_id = c.capability_id
                /\ c.reuse_mode \in (IF Ways(d) = {} THEN {"Reject"} ELSE Ways(d))
                /\ c.disposition = "QualifiedCandidate" => d.blockers = {}
  <2>1. PICK d \in Range(donors) : c = ClassifyDonor(d)
    BY <1>1
  <2> QED
    BY <1>2, <2>1
<1>6. ASSUME NEW d \in Range(donors)
      PROVE  d.blockers \subseteq UNION {c.blockers : c \in Range(cs)}
  <2>1. ClassifyDonor(d) \in Range(cs) /\ ClassifyDonor(d).blockers = d.blockers
    BY <1>1, <1>2
  <2> QED
    BY <2>1
<1>7. ASSUME NEW x \in Range(Kept(cs))
      PROVE  \E d \in Range(donors) : Ways(d) # {} /\ x = d.capability_id
  <2>1. PICK c \in Range(cs) : c.disposition # "Rejected" /\ x = c.capability_id
    BY <1>4
  <2>2. PICK d \in Range(donors) : c = ClassifyDonor(d)
    BY <1>1
  <2> QED
    BY <1>2, <2>1, <2>2
<1>8. ASSUME NEW d \in Range(donors), Ways(d) # {}
      PROVE  d.capability_id \in Range(Kept(cs))
  <2>1. ClassifyDonor(d) \in Range(cs) /\ ClassifyDonor(d).disposition # "Rejected"
    BY <1>1, <1>2, <1>8
  <2> QED
    BY <1>2, <1>4, <2>1
<1>9. Range(Kept(cs)) = {d.capability_id : d \in {e \in Range(donors) : Ways(e) # {}}}
  BY <1>7, <1>8
<1> QED
  BY <1>5, <1>6, <1>9

(* What it says of the topologies.                                         *)
LEMMA AlternativesAreSound ==
    ASSUME NEW options \in Seq(OptionShape), NEW i \in 1..Len(options), NEW selected,
           selected = options[i]
    PROVE  \E a \in Range(Alternatives(options, selected)) :
              a.selected /\ a.topology_id = selected.topology_id
<1> DEFINE D == DOMAIN options
           s == [k \in D |-> Assess(options[k], selected)]
           key == [k \in D |-> options[k].topology_id]
<1>1. D = 1..Len(options) /\ Len(options) \in Nat
  OBVIOUS
<1>2. D \subseteq Nat /\ IsFiniteSet(D)
  BY <1>1, UpTo
<1>3. \A k \in D : key[k] \in Int
  BY <1>1, OptionNumbers
<1>4. s[i].selected /\ s[i].topology_id = selected.topology_id
  BY <1>1 DEF Assess
<1> HIDE DEF s, key, D
<1>5. SameItems(Arrange(s, D, key), s, D)
  BY <1>2, <1>3, ArrangeRange
<1>6. s[i] \in Range(Arrange(s, D, key))
  BY <1>1, <1>5 DEF SameItems
<1>7. \E a \in Range(Arrange(s, D, key)) : a.selected /\ a.topology_id = selected.topology_id
  BY <1>4, <1>6
<1> QED
  BY <1>7 DEF Alternatives, s, key, D

(* ResultIsSound holds for every corpus: what select_reuse_mode, the       *)
(* candidates, the blueprint and select_topology come to is borne out by   *)
(* the sealed documents.                                                   *)
THEOREM TheResultIsSound == Spec => []ResultIsSound
<1>1. IInv => ResultIsSound
  <2> SUFFICES ASSUME IInv, result # NoResult PROVE ResultIsSound
    BY DEF ResultIsSound
  <2> DEFINE donors == SealedDocument("donor_evidence").donors
             options == SealedDocument("topology_options").options
             target == SealedDocument("target_brief")
             cs == Candidates(donors)
             selected == SelectTopology(target, options)
  <2>1. Typed /\ Analyzed
    BY DEF IInv, ResultRests
  <2>2. /\ TheDocument(documents, "donor_evidence") = SealedDocument("donor_evidence")
        /\ TheDocument(documents, "topology_options") = SealedDocument("topology_options")
        /\ TheDocument(documents, "target_brief") = target
    BY <2>1, TheDocumentIsSealed DEF Kinds
  <2>3. /\ donors \in Seq(DonorShape) /\ options \in Seq(OptionShape)
        /\ target.new_application \in BOOLEAN /\ target.separate_actors \in BOOLEAN
    BY <2>1, DocumentsHold
  <2>4. /\ result.donor_candidates = cs
        /\ UNION {c.blockers : c \in Range(cs)} \subseteq result.critical_blockers
        /\ result.selected_topology = selected.topology_id
        /\ result.donor_capability_ids = Kept(cs)
        /\ result.alternatives = Alternatives(options, selected)
    <3>1. result = ResultOf(members, documents)
      BY <2>1 DEF Analyzed
    <3> QED
      BY <2>2, <3>1 DEF ResultOf
  <2>5. Eligible(target, options) # {}
    BY <2>1, <2>2 DEF Analyzed
  <2> HIDE DEF donors, options, target, cs, selected
  <2>6. PICK i \in 1..Len(options) :
           /\ selected = options[i]
           /\ Suits(options[i], target)
           /\ \A other \in Range(options) :
                 Suits(other, target) => options[i].complexity_rank <= other.complexity_rank
    BY <2>3, <2>5, SelectedIsSimplest DEF selected
  <2>7. \A c \in Range(result.donor_candidates) :
           \E d \in Range(donors) :
              /\ d.capability_id = c.capability_id
              /\ c.reuse_mode \in (IF Ways(d) = {} THEN {"Reject"} ELSE Ways(d))
              /\ c.disposition = "QualifiedCandidate" => d.blockers = {}
    BY <2>3, <2>4, DonorsAreSound DEF cs
  <2>8. \A d \in Range(donors) : d.blockers \subseteq result.critical_blockers
    <3>1. \A d \in Range(donors) : d.blockers \subseteq UNION {c.blockers : c \in Range(cs)}
      BY <2>3, DonorsAreSound DEF cs
    <3> QED
      BY <2>4, <3>1
  <2>9. Range(result.donor_capability_ids) =
           {d.capability_id : d \in {e \in Range(donors) : Ways(e) # {}}}
    BY <2>3, <2>4, DonorsAreSound DEF cs
  <2>10. \E o \in Range(options) :
            /\ o.topology_id = result.selected_topology
            /\ Suits(o, target)
            /\ \A other \in Range(options) :
                  Suits(other, target) => o.complexity_rank <= other.complexity_rank
    <3>1. options[i] \in Range(options)
      BY <2>3 DEF Range
    <3> QED
      BY <2>4, <2>6, <3>1
  <2>11. \E a \in Range(result.alternatives) :
            a.selected /\ a.topology_id = result.selected_topology
    BY <2>3, <2>4, <2>6, AlternativesAreSound
  <2> QED
    BY <2>7, <2>8, <2>9, <2>10, <2>11 DEF ResultIsSound, donors, options, target
<1> QED
  BY <1>1, Invariance, PTL
=============================================================================
