------------------------------ MODULE EloProofs ------------------------------
(***************************************************************************)
(* Proofs about module Elo, for any two ratings.                           *)
(***************************************************************************)
EXTENDS Elo, FiniteSetTheorems, TLAPS

LEMMA Thresholds == IsFiniteSet(1..31) /\ Cardinality(1..31) = 31
<1>1. /\ IsFiniteSet(1..31)
      /\ Cardinality(1..31) = IF 1 > 31 THEN 0 ELSE 31 - 1 + 1
  BY 1 \in Int, 31 \in Int, FS_Interval, Zenon
<1>2. QED
  BY <1>1

\* The thresholds of the expected score, and the symmetry of the formula.
LEMMA UpperBoundsInt == \A k \in 1..15 : UpperBounds[k] \in Int
BY DEF UpperBounds

LEMMA BoundInt == \A k \in 1..31 : Bound(k) \in Int
<1>1. \A k \in 17..31 : 32 - k \in 1..15
  OBVIOUS
<1>2. QED
  BY <1>1, UpperBoundsInt DEF Bound

LEMMA BoundMirror == \A k \in 1..31 : k # 16 => Bound(32 - k) = 1 - Bound(k)
<1> SUFFICES ASSUME NEW k \in 1..31, k # 16 PROVE Bound(32 - k) = 1 - Bound(k)
  OBVIOUS
<1>1. CASE k < 16
  <2>1. k \in 1..15 /\ ~(32 - k < 16) /\ 32 - k # 16 /\ 32 - (32 - k) = k
    BY <1>1
  <2>2. QED
    BY <1>1, <2>1, UpperBoundsInt DEF Bound
<1>2. CASE k > 16
  <2>1. 32 - k \in 1..15 /\ 32 - k < 16 /\ ~(k < 16)
    BY <1>2
  <2>2. QED
    BY <1>2, <2>1, UpperBoundsInt DEF Bound
<1>3. QED
  BY <1>1, <1>2

\* The thresholds that a distance is below.
Above(d) == {k \in 1..31 : d < Bound(k)}

LEMMA AboveFinite ==
    ASSUME NEW d \in Int
    PROVE  IsFiniteSet(Above(d)) /\ Cardinality(Above(d)) \in 0..31
<1>1. Above(d) \in SUBSET (1..31)
  BY DEF Above
<1>2. IsFiniteSet(Above(d)) /\ Cardinality(Above(d)) <= 31
  BY <1>1, Thresholds, FS_Subset
<1>3. Cardinality(Above(d)) \in Nat
  BY <1>2, FS_CardinalityType
<1>4. QED
  BY <1>2, <1>3

\* 32 times an expectation is one of 1..32.
LEMMA ExpectedRange == ASSUME NEW d \in Int PROVE Expected32(d) \in 1..32
BY AboveFinite DEF Expected32, Above

\* Mirrored, the thresholds above -d are those that are not above d.
LEMMA AboveMirror ==
    ASSUME NEW d \in Int
    PROVE  Cardinality(Above(-d)) = Cardinality({k \in (1..31) \ Above(d) : d # 0 \/ k # 16})
<1> DEFINE B == {k \in (1..31) \ Above(d) : d # 0 \/ k # 16}
           f == [k \in Above(-d) |-> 32 - k]
<1>1. \A k \in 1..31 : -d < Bound(k) <=> 32 - k \in B
  <2> SUFFICES ASSUME NEW k \in 1..31 PROVE -d < Bound(k) <=> 32 - k \in B
    OBVIOUS
  <2>1. 32 - k \in 1..31 /\ Bound(k) \in Int /\ Bound(32 - k) \in Int
    BY BoundInt
  <2>2. CASE k = 16
    BY <2>1, <2>2 DEF Above, Bound
  <2>3. CASE k # 16
    BY <2>1, <2>3, BoundMirror DEF Above
  <2>4. QED
    BY <2>2, <2>3
<1>2. f \in Bijection(Above(-d), B)
  <2>1. f \in [Above(-d) -> B]
    BY <1>1 DEF Above
  <2>2. \A k, m \in Above(-d) : f[k] = f[m] => k = m
    BY DEF Above
  <2>3. \A k \in B : 32 - k \in Above(-d) /\ f[32 - k] = k
    <3> SUFFICES ASSUME NEW k \in B PROVE 32 - k \in Above(-d) /\ f[32 - k] = k
      OBVIOUS
    <3>1. 32 - k \in 1..31 /\ 32 - (32 - k) = k /\ k \in B
      OBVIOUS
    <3>2. 32 - k \in Above(-d)
      BY <1>1, <3>1 DEF Above
    <3>3. QED
      BY <3>1, <3>2
  <2>4. QED
    BY <2>1, <2>2, <2>3 DEF Bijection, Injection, Surjection, IsInjective
<1>3. IsFiniteSet(Above(-d)) /\ ExistsBijection(Above(-d), B)
  <2>1. IsFiniteSet(Above(-d))
    BY -d \in Int, AboveFinite
  <2> HIDE DEF f, B
  <2>2. QED
    BY <1>2, <2>1 DEF ExistsBijection
<1> HIDE DEF B
<1>4. Cardinality(Above(-d)) = Cardinality(B)
  BY <1>3, FS_Bijection
<1>5. QED
  BY <1>4 DEF B

\* The two expectations of a game add up to a point, each of them rounded up
\* to the next 32nd unless the ratings are equal.
LEMMA ExpectedSum ==
    ASSUME NEW d \in Int
    PROVE  Expected32(d) + Expected32(-d) = IF d = 0 THEN 32 ELSE 33
<1> DEFINE A == Above(d)
           B == {k \in (1..31) \ A : d # 0 \/ k # 16}
<1>2. IsFiniteSet(A) /\ IsFiniteSet(Above(-d)) /\ Cardinality(A) \in Nat /\ Cardinality(Above(-d)) \in Nat
  BY AboveFinite, FS_CardinalityType
<1>3. Cardinality((1..31) \ A) = 31 - Cardinality(A) /\ IsFiniteSet((1..31) \ A)
  <2>1. (1..31) \cap A = A
    BY DEF Above
  <2> HIDE DEF A
  <2>2. /\ IsFiniteSet((1..31) \ A)
        /\ Cardinality((1..31) \ A) = Cardinality(1..31) - Cardinality((1..31) \cap A)
    BY Thresholds, FS_Difference
  <2>3. QED
    BY <2>1, <2>2, Thresholds
<1>4. CASE d = 0
  <2>1. 16 \in (1..31) \ A /\ B = ((1..31) \ A) \ {16}
    BY <1>4 DEF Above, Bound
  <2>2. Cardinality(B) = 30 - Cardinality(A)
    <3> HIDE DEF A, B
    <3> DEFINE S == (1..31) \ A
    <3>1. IsFiniteSet(S) /\ 16 \in S
      BY <1>3, <2>1
    <3>2. Cardinality(S \ {16}) = Cardinality(S) - 1
      <4> HIDE DEF S
      <4>1. QED
        BY <3>1, FS_RemoveElement, Zenon
    <3>3. QED
      BY <1>2, <1>3, <2>1, <3>2
  <2>3. QED
    BY <1>2, <1>4, <2>2, AboveMirror DEF Expected32, Above
<1>5. CASE d # 0
  <2>1. B = (1..31) \ A
    BY <1>5
  <2>2. QED
    BY <1>2, <1>3, <1>5, <2>1, AboveMirror DEF Expected32, Above
<1>6. QED
  BY <1>4, <1>5

\* A new rating is a whole number, that much away from the old one.
LEMMA NewRatingOf ==
    ASSUME NEW own \in Int, NEW other \in Int, own >= 32, NEW score \in 0..32
    PROVE  NewRating(own, other, score) = own + score - Expected32(other - own)
<1>1. Expected32(other - own) \in 1..32
  BY other - own \in Int, ExpectedRange
<1>2. own + score - Expected32(other - own) >= 0
  BY <1>1
<1>3. QED
  BY <1>2 DEF NewRating

\* player_post_result, for any two ratings of at least 32 points: points go
\* from one player to the other, and rounding loses at most one of them.
THEOREM EloFairExchange ==
    ASSUME NEW S, NEW r \in [S -> Int], NEW p \in S, NEW q \in S, p # q,
           NEW res \in Results, NEW after,
           after[p] = NewRating(r[p], r[q], Score32(res, 1)),
           after[q] = NewRating(r[q], r[p], Score32(res, 2))
    PROVE  FairExchange([first |-> p, second |-> q, result |-> res], r, after)
<1> DEFINE d == r[q] - r[p]
           dp == after[p] - r[p]
           dq == after[q] - r[q]
<1> SUFFICES ASSUME r[p] >= 32, r[q] >= 32
             PROVE  /\ dp + dq \in {-1, 0}
                    /\ res = 1 => dp \in 0..31 /\ dq \in -32..-1
                    /\ res = 2 => dq \in 0..31 /\ dp \in -32..-1
  BY DEF FairExchange
<1>1. d \in Int /\ -d = r[p] - r[q] /\ r[p] \in Int /\ r[q] \in Int
  OBVIOUS
<1>2. /\ Score32(res, 1) = (IF res = 0 THEN 16 ELSE IF res = 1 THEN 32 ELSE 0)
      /\ Score32(res, 2) = (IF res = 0 THEN 16 ELSE IF res = 2 THEN 32 ELSE 0)
      /\ Score32(res, 1) \in 0..32 /\ Score32(res, 2) \in 0..32
      /\ Score32(res, 1) + Score32(res, 2) = 32
  BY DEF Score32, Results
<1>3. /\ after[p] = r[p] + Score32(res, 1) - Expected32(d)
      /\ after[q] = r[q] + Score32(res, 2) - Expected32(-d)
  <2> HIDE DEF d
  <2>1. after[p] = r[p] + Score32(res, 1) - Expected32(r[q] - r[p])
    BY <1>1, <1>2, NewRatingOf
  <2>2. after[q] = r[q] + Score32(res, 2) - Expected32(r[p] - r[q])
    BY <1>1, <1>2, NewRatingOf
  <2>3. QED
    BY <1>1, <2>1, <2>2 DEF d
<1>4. /\ Expected32(d) \in 1..32 /\ Expected32(-d) \in 1..32
      /\ Expected32(d) + Expected32(-d) \in {32, 33}
  BY <1>1, -d \in Int, ExpectedRange, ExpectedSum
<1> HIDE DEF d
<1>5. dp = Score32(res, 1) - Expected32(d) /\ dq = Score32(res, 2) - Expected32(-d)
  BY <1>1, <1>2, <1>3, <1>4
<1> HIDE DEF dp, dq
<1>6. QED
  BY <1>2, <1>4, <1>5
=============================================================================
