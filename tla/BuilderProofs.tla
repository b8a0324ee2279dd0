---------------------------- MODULE BuilderProofs ----------------------------
(***************************************************************************)
(* Theorems about Builder, for every set of vectors and keys, every result *)
(* of k-means, and every number of dimensions, of lanes in a block and of  *)
(* points in a leaf: what the two indexes hold and how they are laid out   *)
(* is what the searches rely on.                                           *)
(***************************************************************************)
EXTENDS Builder, FiniteSetTheorems, SequenceTheorems, TLAPS

-----------------------------------------------------------------------------
(***************************************************************************)
(* Finite sets in order.                                                   *)
(***************************************************************************)
\* The numbers up to i, in the order of x and then their own.
UpTo(S, x, i) == {j \in S : x[j] < x[i] \/ (x[j] = x[i] /\ j <= i)}

\* Ranks are 1 to the number of elements, each once.
LEMMA Ranks ==
  ASSUME NEW S \in SUBSET Int, IsFiniteSet(S), NEW x, \A i \in S : x[i] \in Int
  PROVE  /\ Cardinality(S) \in Nat
         /\ \A i \in S : Cardinality(UpTo(S, x, i)) \in 1 .. Cardinality(S)
         /\ \A i, j \in S :
              Cardinality(UpTo(S, x, i)) = Cardinality(UpTo(S, x, j)) => i = j
         /\ \A n \in 1 .. Cardinality(S) :
              \E i \in S : Cardinality(UpTo(S, x, i)) = n
<1>1. Cardinality(S) \in Nat BY FS_CardinalityType
<1>2. ASSUME NEW i \in S
      PROVE  /\ IsFiniteSet(UpTo(S, x, i)) /\ i \in UpTo(S, x, i)
             /\ Cardinality(UpTo(S, x, i)) \in 1 .. Cardinality(S)
  <2>1. i \in UpTo(S, x, i) /\ UpTo(S, x, i) \in SUBSET S BY DEF UpTo
  <2>2. /\ IsFiniteSet(UpTo(S, x, i))
        /\ Cardinality(UpTo(S, x, i)) <= Cardinality(S)
    BY <2>1, FS_Subset
  <2>3. Cardinality(UpTo(S, x, i)) \in Nat BY <2>2, FS_CardinalityType
  <2>4. Cardinality(UpTo(S, x, i)) # 0 BY <2>1, <2>2, FS_EmptySet
  <2> QED BY <1>1, <2>1, <2>2, <2>3, <2>4
<1>3. ASSUME NEW i \in S, NEW j \in S, i # j, j \in UpTo(S, x, i)
      PROVE  Cardinality(UpTo(S, x, j)) < Cardinality(UpTo(S, x, i))
  <2>a. x[i] \in Int /\ x[j] \in Int /\ i \in Int /\ j \in Int OBVIOUS
  <2>b. x[j] < x[i] \/ (x[j] = x[i] /\ j < i) BY <1>3, <2>a DEF UpTo
  <2>c. ASSUME NEW k \in UpTo(S, x, j) PROVE k \in UpTo(S, x, i)
    <3>1. k \in S /\ (x[k] < x[j] \/ (x[k] = x[j] /\ k <= j)) BY DEF UpTo
    <3>2. x[k] \in Int /\ k \in Int BY <3>1
    <3> QED BY <2>a, <2>b, <3>1, <3>2 DEF UpTo
  <2>d. i \notin UpTo(S, x, j) BY <2>a, <2>b DEF UpTo
  <2>1. UpTo(S, x, j) \in SUBSET UpTo(S, x, i) /\ i \notin UpTo(S, x, j)
    BY <2>c, <2>d
  <2>2. /\ Cardinality(UpTo(S, x, j)) <= Cardinality(UpTo(S, x, i))
        /\ Cardinality(UpTo(S, x, j)) = Cardinality(UpTo(S, x, i))
             => UpTo(S, x, j) = UpTo(S, x, i)
    BY <1>2, <2>1, FS_Subset
  <2>3. UpTo(S, x, j) # UpTo(S, x, i) BY <1>2, <2>1
  <2>4. /\ Cardinality(UpTo(S, x, j)) \in Int
        /\ Cardinality(UpTo(S, x, i)) \in Int
    BY <1>1, <1>2
  <2> QED BY <2>2, <2>3, <2>4
<1>4. ASSUME NEW i \in S, NEW j \in S,
             Cardinality(UpTo(S, x, i)) = Cardinality(UpTo(S, x, j))
      PROVE  i = j
  <2>1. i \in UpTo(S, x, j) \/ j \in UpTo(S, x, i) BY DEF UpTo
  <2>2. Cardinality(UpTo(S, x, i)) \in Int BY <1>1, <1>2
  <2> QED BY <1>3, <1>4, <2>1, <2>2
<1> DEFINE r == [i \in S |-> Cardinality(UpTo(S, x, i))]
           T == 1 .. Cardinality(S)
<1>5. IsFiniteSet(T) /\ Cardinality(T) = Cardinality(S)
  BY <1>1, FS_Interval
<1>6. r \in [S -> T] BY <1>2
<1>7. \A i, j \in S : r[i] = r[j] => i = j BY <1>4
<1>8. \A n \in T : \E i \in S : r[i] = n
  <2> HIDE DEF r, T
  <2>1. r \in Injection(S, T) BY <1>6, <1>7 DEF Injection, IsInjective
  <2>2. r \in Surjection(S, T) BY <1>5, <2>1, FS_Injection
  <2> QED BY <2>2 DEF Surjection
<1> QED BY <1>1, <1>2, <1>4, <1>8

\* The sort neither loses nor doubles anything (std.mem.sort).
LEMMA InOrderKeeps ==
  ASSUME NEW S \in SUBSET Int, IsFiniteSet(S), NEW x, \A i \in S : x[i] \in Int
  PROVE  /\ InOrder(S, x) \in Seq(S) /\ Len(InOrder(S, x)) = Cardinality(S)
         /\ Range(InOrder(S, x)) = S /\ Cardinality(S) \in Nat
         /\ \A m, n \in 1 .. Cardinality(S) :
              InOrder(S, x)[m] = InOrder(S, x)[n] => m = n
<1> DEFINE s == InOrder(S, x)
           N == Cardinality(S)
<1>1. s = [n \in 1 .. N |-> CHOOSE i \in S : Cardinality(UpTo(S, x, i)) = n]
  BY DEF InOrder, UpTo
<1>2. N \in Nat BY Ranks
<1>a. \A i, j \in S :
        Cardinality(UpTo(S, x, i)) = Cardinality(UpTo(S, x, j)) => i = j
  BY Ranks
<1> HIDE DEF s
<1>3. \A n \in 1 .. N : s[n] \in S /\ Cardinality(UpTo(S, x, s[n])) = n
  BY <1>1, Ranks
<1>4. s \in [1 .. N -> S] BY <1>1, <1>3
<1>5. s \in Seq(S) /\ Len(s) = N BY <1>2, <1>4
<1>6. ASSUME NEW i \in S PROVE \E n \in 1 .. N : s[n] = i
  <2>1. PICK n \in 1 .. N : n = Cardinality(UpTo(S, x, i)) BY Ranks
  <2>2. s[n] \in S /\ Cardinality(UpTo(S, x, s[n])) = Cardinality(UpTo(S, x, i))
    BY <1>3, <2>1
  <2>3. s[n] = i BY <2>2, <1>a
  <2> QED BY <2>1, <2>3
<1>7. Range(s) = S BY <1>4, <1>6 DEF Range
<1>8. \A m, n \in 1 .. N : s[m] = s[n] => m = n BY <1>3
<1> QED BY <1>2, <1>5, <1>7, <1>8 DEF s

\* A finite set of numbers has a first one of least x.
LEMMA FirstOfLeast ==
  ASSUME NEW S \in SUBSET Int, IsFiniteSet(S), S # {}, NEW x,
         \A i \in S : x[i] \in Int
  PROVE  \E i \in S : \A j \in S : x[i] < x[j] \/ (x[i] = x[j] /\ i <= j)
<1>1. Cardinality(S) \in Nat /\ Cardinality(S) # 0
  BY FS_CardinalityType, FS_EmptySet
<1>2. PICK i \in S : Cardinality(UpTo(S, x, i)) = 1 BY <1>1, Ranks
<1>3. IsFiniteSet(UpTo(S, x, i))
  <2>1. UpTo(S, x, i) \in SUBSET S BY DEF UpTo
  <2> QED BY <2>1, FS_Subset
<1>4. i \in UpTo(S, x, i) BY DEF UpTo
<1>5. UpTo(S, x, i) = {i} BY <1>2, <1>3, <1>4, FS_Singleton
<1>6. ASSUME NEW j \in S PROVE x[i] < x[j] \/ (x[i] = x[j] /\ i <= j)
  <2>1. j = i \/ j \notin UpTo(S, x, i) BY <1>5
  <2> QED BY <2>1 DEF UpTo
<1> QED BY <1>6

\* A finite set of numbers that is not empty has a least and a greatest one.
LEMMA Extremes ==
  ASSUME NEW S \in SUBSET Int, IsFiniteSet(S), S # {}
  PROVE  /\ Min(S) \in S /\ \A y \in S : Min(S) <= y
         /\ Max(S) \in S /\ \A y \in S : y <= Max(S)
<1> DEFINE up == [i \in S |-> i]
           down == [i \in S |-> 0 - i]
<1>1. \E i \in S : \A j \in S : i <= j
  <2>1. \A i \in S : up[i] \in Int OBVIOUS
  <2>2. PICK i \in S : \A j \in S : up[i] < up[j] \/ (up[i] = up[j] /\ i <= j)
    <3> HIDE DEF up
    <3> QED BY <2>1, FirstOfLeast
  <2> QED BY <2>2
<1>2. \E i \in S : \A j \in S : i >= j
  <2>1. \A i \in S : down[i] \in Int OBVIOUS
  <2>2. PICK i \in S : \A j \in S : down[i] < down[j] \/ (down[i] = down[j] /\ i <= j)
    <3> HIDE DEF down
    <3> QED BY <2>1, FirstOfLeast
  <2> QED BY <2>2
<1>3. Min(S) \in S /\ \A y \in S : Min(S) <= y BY <1>1 DEF Min
<1>4. Max(S) \in S /\ \A y \in S : Max(S) >= y BY <1>2 DEF Max
<1> QED BY <1>3, <1>4

-----------------------------------------------------------------------------
(***************************************************************************)
(* The vectors, and pieces of a bucket.                                    *)
(***************************************************************************)
LEMMA Vectors ==
  ASSUME input \in Inputs
  PROVE  /\ Len(vecs) \in Nat /\ VectorIds \in SUBSET Nat /\ IsFiniteSet(VectorIds)
         /\ \A i \in VectorIds : vecs[i] \in [Dims -> Coordinates]
         /\ \A i \in VectorIds, d \in Dims : vecs[i][d] \in Coordinates
         /\ \A i \in VectorIds : input.key[i] \in Nat
         /\ PAD \notin VectorIds
<1>1. vecs \in Seq([Dims -> Coordinates]) /\ input.key \in [1 .. Len(vecs) -> Nat]
  BY InputConstants DEF vecs
<1>2. Len(vecs) \in Nat BY <1>1
<1>3. IsFiniteSet(VectorIds) BY <1>2, FS_Interval DEF VectorIds
<1>4. \A i \in VectorIds : vecs[i] \in [Dims -> Coordinates] BY <1>1 DEF VectorIds
<1>5. \A i \in VectorIds, d \in Dims : vecs[i][d] \in Coordinates BY <1>4
<1>6. \A i \in VectorIds : input.key[i] \in Nat BY <1>1 DEF VectorIds
<1>7. VectorIds \in SUBSET (Nat \ {0}) BY <1>2 DEF VectorIds
<1> QED BY <1>2, <1>3, <1>4, <1>5, <1>6, <1>7, InputConstants

\* Vectors in a row, none of them twice.
Piece(s) == s \in Seq(VectorIds) /\ \A m, n \in DOMAIN s : s[m] = s[n] => m = n

\* A piece has as many vectors as places.
LEMMA PieceSize ==
  ASSUME NEW s, Piece(s)
  PROVE  /\ Len(s) \in Nat /\ Range(s) \in SUBSET VectorIds
         /\ IsFiniteSet(Range(s)) /\ Cardinality(Range(s)) = Len(s)
<1>1. /\ Len(s) \in Nat /\ DOMAIN s = 1 .. Len(s) /\ s \in [1 .. Len(s) -> VectorIds]
      /\ \A m, n \in 1 .. Len(s) : s[m] = s[n] => m = n
  BY DEF Piece
<1>2. Range(s) \in SUBSET VectorIds BY <1>1 DEF Range
<1>3. IsFiniteSet(1 .. Len(s)) /\ Cardinality(1 .. Len(s)) = Len(s)
  BY <1>1, FS_Interval
<1> DEFINE D == 1 .. Len(s)
           R == Range(s)
<1>4. s \in [D -> R] /\ (\A t \in R : \E m \in D : s[m] = t) BY <1>1 DEF Range
<1>5. IsFiniteSet(R) /\ Cardinality(R) = Cardinality(D)
  <2> HIDE DEF D, R
  <2>1. s \in Surjection(D, R) BY <1>4 DEF Surjection
  <2>2. s \in Injection(D, R) BY <1>1, <1>4 DEF Injection, IsInjective, D
  <2> QED BY <1>3, <2>1, <2>2, FS_Surjection DEF D
<1> QED BY <1>1, <1>2, <1>3, <1>5

\* The halves of a piece share nothing, and make the whole.
LEMMA Halves ==
  ASSUME NEW s, Piece(s), Len(s) > 1
  PROVE  /\ Piece(LeftHalf(s)) /\ Piece(RightHalf(s))
         /\ Len(LeftHalf(s)) = Len(s) \div 2
         /\ Len(RightHalf(s)) = Len(s) - Len(s) \div 2
         /\ Range(LeftHalf(s)) # {} /\ Range(RightHalf(s)) # {}
         /\ Range(LeftHalf(s)) \cup Range(RightHalf(s)) = Range(s)
         /\ Range(LeftHalf(s)) \cap Range(RightHalf(s)) = {}
<1> DEFINE n == Len(s)
           h == Len(s) \div 2
           l == SubSeq(s, 1, h)
           r == SubSeq(s, h + 1, n)
<1>1. n \in Nat /\ h \in Nat /\ 1 <= h /\ h < n BY DEF Piece
<1>2. s \in Seq(VectorIds) /\ DOMAIN s = 1 .. n
      /\ \A i, j \in 1 .. n : s[i] = s[j] => i = j
  BY DEF Piece
<1> HIDE DEF n, h
<1>3. /\ l \in Seq(VectorIds) /\ Len(l) = h /\ DOMAIN l = 1 .. h
      /\ \A i \in 1 .. h : l[i] = s[i]
  BY <1>1, <1>2 DEF n
<1>4. /\ r \in Seq(VectorIds) /\ Len(r) = n - h /\ DOMAIN r = 1 .. n - h
      /\ \A i \in 1 .. n - h : r[i] = s[h + i]
  <2>1. \A i \in h + 1 .. n : s[i] \in VectorIds BY <1>1, <1>2
  <2>2. h + 1 \in Int /\ n \in Int /\ h + 1 <= n /\ n - (h + 1) + 1 = n - h
    BY <1>1
  <2>3. /\ r \in Seq(VectorIds) /\ Len(r) = n - h
        /\ \A i \in 1 .. n - h : r[i] = s[(h + 1) + i - 1]
    BY <2>1, <2>2, SubSeqProperties
  <2>4. \A i \in 1 .. n - h : (h + 1) + i - 1 = h + i BY <1>1
  <2> HIDE DEF r
  <2> QED BY <2>3, <2>4
<1> HIDE DEF l, r
<1>5. Piece(l) BY <1>1, <1>2, <1>3 DEF Piece
<1>6. Piece(r)
  <2>1. ASSUME NEW i \in 1 .. n - h, NEW j \in 1 .. n - h, r[i] = r[j] PROVE i = j
    <3>1. h + i \in 1 .. n /\ h + j \in 1 .. n /\ s[h + i] = s[h + j]
      BY <1>1, <1>4, <2>1
    <3> QED BY <1>1, <1>2, <3>1
  <2> QED BY <1>4, <2>1 DEF Piece
<1>7. Range(l) # {} /\ Range(r) # {}
  <2>1. 1 \in DOMAIN l /\ 1 \in DOMAIN r BY <1>1, <1>3, <1>4
  <2> QED BY <2>1 DEF Range
<1>8. \A t \in Range(l) : \E i \in 1 .. h : t = s[i]
  BY <1>3 DEF Range
<1>9. \A t \in Range(r) : \E i \in 1 .. n - h : t = s[h + i]
  BY <1>4 DEF Range
<1>10. Range(l) \cap Range(r) = {}
  <2>1. ASSUME NEW t \in Range(l), t \in Range(r) PROVE FALSE
    <3>1. PICK i \in 1 .. h : t = s[i] BY <1>8
    <3>2. PICK j \in 1 .. n - h : t = s[h + j] BY <1>9, <2>1
    <3>3. i \in 1 .. n /\ h + j \in 1 .. n /\ i # h + j BY <1>1
    <3> QED BY <1>2, <3>1, <3>2, <3>3
  <2> QED BY <2>1
<1>11. Range(l) \cup Range(r) = Range(s)
  <2>1. ASSUME NEW t \in Range(l) PROVE t \in Range(s)
    <3>1. PICK i \in 1 .. h : t = s[i] BY <1>8
    <3>2. i \in 1 .. n BY <1>1
    <3> QED BY <1>2, <3>1, <3>2 DEF Range
  <2>2. ASSUME NEW t \in Range(r) PROVE t \in Range(s)
    <3>1. PICK j \in 1 .. n - h : t = s[h + j] BY <1>9
    <3>2. h + j \in 1 .. n BY <1>1
    <3> QED BY <1>2, <3>1, <3>2 DEF Range
  <2>3. ASSUME NEW t \in Range(s) PROVE t \in Range(l) \cup Range(r)
    <3>1. PICK i \in 1 .. n : t = s[i] BY <1>2 DEF Range
    <3>2. CASE i <= h BY <1>1, <1>3, <3>1, <3>2 DEF Range
    <3>3. CASE i > h
      <4>1. i - h \in 1 .. n - h /\ h + (i - h) = i BY <1>1, <3>3
      <4>2. t = r[i - h] BY <1>4, <3>1, <4>1
      <4> QED BY <1>4, <4>1, <4>2 DEF Range
    <3> QED BY <1>1, <3>2, <3>3
  <2> QED BY <2>1, <2>2, <2>3
<1>12. l = LeftHalf(s) /\ r = RightHalf(s)
  BY DEF l, r, h, n, LeftHalf, RightHalf, Middle
<1> QED BY <1>3, <1>4, <1>5, <1>6, <1>7, <1>10, <1>11, <1>12 DEF h, n

\* Sorting a piece leaves the same vectors.
LEMMA SortedKeeps ==
  ASSUME input \in Inputs, NEW s, Piece(s), NEW d \in Dims
  PROVE  /\ Piece(SortedBy(s, d)) /\ Len(SortedBy(s, d)) = Len(s)
         /\ Range(SortedBy(s, d)) = Range(s)
<1> DEFINE D == DOMAIN s
           x == [i \in D |-> vecs[s[i]][d]]
           order == InOrder(D, x)
           t == [i \in D |-> s[order[i]]]
<1>1. /\ s \in Seq(VectorIds) /\ D = 1 .. Len(s) /\ Len(s) \in Nat
      /\ \A i, j \in D : s[i] = s[j] => i = j
  BY DEF Piece
<1>2. D \in SUBSET Int /\ IsFiniteSet(D) /\ Cardinality(D) = Len(s)
  BY <1>1, FS_Interval
<1>3. \A i \in D : x[i] \in Int
  <2>1. \A i \in D : s[i] \in VectorIds BY <1>1
  <2>2. \A i \in D : vecs[s[i]][d] \in Coordinates BY <2>1, Vectors
  <2>3. Coordinates \in SUBSET Int BY DEF Coordinates
  <2> QED BY <2>2, <2>3
<1> HIDE DEF D, x
<1>4. /\ order \in Seq(D) /\ Len(order) = Len(s) /\ Range(order) = D
      /\ \A i, j \in 1 .. Len(s) : order[i] = order[j] => i = j
  BY <1>2, <1>3, InOrderKeeps
<1> HIDE DEF order
<1>a. D = 1 .. Len(s) /\ DOMAIN order = D BY <1>1, <1>4 DEF D
<1>b. \A i \in D : \E j \in D : order[j] = i BY <1>4, <1>a DEF Range
<1>5. /\ order \in [D -> D]
      /\ \A i \in D : \E j \in D : order[j] = i
      /\ \A i, j \in D : order[i] = order[j] => i = j
  BY <1>4, <1>a, <1>b
<1>6. t \in [D -> VectorIds] /\ \A i \in D : t[i] = s[order[i]] BY <1>1, <1>5 DEF D
<1> HIDE DEF t
<1>7. t \in Seq(VectorIds) /\ Len(t) = Len(s) /\ DOMAIN t = D BY <1>1, <1>6
<1>8. ASSUME NEW i \in D, NEW j \in D, t[i] = t[j] PROVE i = j
  <2>1. order[i] \in D /\ order[j] \in D BY <1>5
  <2>2. order[i] = order[j] BY <1>1, <1>6, <1>8, <2>1 DEF D
  <2> QED BY <1>5, <2>2
<1>9. Piece(t) BY <1>7, <1>8 DEF Piece
<1>10. Range(t) = Range(s)
  <2>1. \A y \in Range(t) : y \in Range(s) BY <1>5, <1>6, <1>7 DEF Range, D
  <2>2. ASSUME NEW y \in Range(s) PROVE y \in Range(t)
    <3>1. PICK i \in D : y = s[i] BY DEF Range, D
    <3>2. PICK j \in D : order[j] = i BY <1>5
    <3>3. t[j] = y BY <1>6, <3>1, <3>2
    <3> QED BY <1>7, <3>3 DEF Range
  <2> QED BY <2>1, <2>2
<1>11. t = SortedBy(s, d) BY DEF t, order, x, D, SortedBy
<1> QED BY <1>7, <1>9, <1>10, <1>11

-----------------------------------------------------------------------------
(***************************************************************************)
(* Boxes.                                                                  *)
(***************************************************************************)
LEMMA CoordinateRange ==
  /\ MinI16 \in Int /\ MaxI16 \in Int /\ Coordinates \in SUBSET Int
  /\ \A x \in Coordinates : MinI16 <= x /\ x <= MaxI16
BY DEF Coordinates, MinI16, MaxI16

\* What vectors have in a dimension.
LEMMA CoordinatesOf ==
  ASSUME input \in Inputs, NEW S \in SUBSET VectorIds, NEW d \in Dims
  PROVE  /\ {vecs[i][d] : i \in S} \in SUBSET Coordinates
         /\ IsFiniteSet({vecs[i][d] : i \in S})
<1>1. {vecs[i][d] : i \in S} \in SUBSET Coordinates BY Vectors
<1>2. IsFiniteSet(Coordinates) BY CoordinateRange, FS_Interval DEF Coordinates
<1> QED BY <1>1, <1>2, FS_Subset

\* The box of some vectors touches them on every side.
LEMMA BoundsTouch ==
  ASSUME input \in Inputs, NEW S \in SUBSET VectorIds, S # {}, NEW d \in Dims
  PROVE  /\ Bounds(S).lo[d] = Min({vecs[i][d] : i \in S})
         /\ Bounds(S).hi[d] = Max({vecs[i][d] : i \in S})
<1> DEFINE at == {vecs[i][d] : i \in S}
<1>1. at \in SUBSET Coordinates /\ IsFiniteSet(at) /\ at # {} BY CoordinatesOf
<1>2. /\ Bounds(S).lo[d] = Min(at \cup {MaxI16})
      /\ Bounds(S).hi[d] = Max(at \cup {MinI16})
  BY DEF Bounds
<1> HIDE DEF at
<1>3. at \in SUBSET Int /\ MinI16 \in Int /\ MaxI16 \in Int
  BY <1>1, CoordinateRange
<1>4. /\ at \cup {MaxI16} \in SUBSET Int /\ IsFiniteSet(at \cup {MaxI16})
      /\ at \cup {MinI16} \in SUBSET Int /\ IsFiniteSet(at \cup {MinI16})
  BY <1>1, <1>3, FS_AddElement
<1>5. /\ Min(at) \in at /\ \A y \in at : Min(at) <= y
      /\ Max(at) \in at /\ \A y \in at : y <= Max(at)
  BY <1>1, <1>3, Extremes
<1>6. Min(at) <= MaxI16 /\ MinI16 <= Max(at)
  <2>1. Min(at) \in Coordinates /\ Max(at) \in Coordinates BY <1>1, <1>5
  <2> QED BY <2>1, CoordinateRange
<1> DEFINE low == Min(at \cup {MaxI16})
           high == Max(at \cup {MinI16})
<1>7. low \in at \cup {MaxI16} /\ \A y \in at \cup {MaxI16} : low <= y
  BY <1>4, Extremes
<1>8. high \in at \cup {MinI16} /\ \A y \in at \cup {MinI16} : y <= high
  BY <1>4, Extremes
<1> HIDE DEF low, high
<1>9. low = Min(at)
  <2>1. low <= Min(at) /\ Min(at) \in Int BY <1>3, <1>5, <1>7
  <2>2. low \in Int /\ Min(at) <= low BY <1>3, <1>5, <1>6, <1>7
  <2> QED BY <2>1, <2>2
<1>10. high = Max(at)
  <2>1. Max(at) <= high /\ Max(at) \in Int BY <1>3, <1>5, <1>8
  <2>2. high \in Int /\ high <= Max(at) BY <1>3, <1>5, <1>6, <1>8
  <2> QED BY <2>1, <2>2
<1> QED BY <1>2, <1>9, <1>10 DEF low, high, at

\* The box of a set of vectors encloses each of them (computeBounds).
LEMMA BoundsEnclose ==
  ASSUME input \in Inputs, NEW S \in SUBSET VectorIds, NEW i \in S, NEW d \in Dims
  PROVE  /\ Bounds(S).lo[d] \in Int /\ Bounds(S).hi[d] \in Int
         /\ Bounds(S).lo[d] <= vecs[i][d] /\ vecs[i][d] <= Bounds(S).hi[d]
<1> DEFINE at == {vecs[j][d] : j \in S}
<1>1. at \in SUBSET Coordinates /\ IsFiniteSet(at) BY CoordinatesOf
<1>2. vecs[i][d] \in at OBVIOUS
<1>3. Bounds(S).lo[d] = Min(at) /\ Bounds(S).hi[d] = Max(at) BY BoundsTouch
<1> HIDE DEF at
<1>4. at \in SUBSET Int BY <1>1, CoordinateRange
<1>5. /\ Min(at) \in at /\ \A y \in at : Min(at) <= y
      /\ Max(at) \in at /\ \A y \in at : y <= Max(at)
  BY <1>1, <1>2, <1>4, Extremes
<1> QED BY <1>2, <1>3, <1>4, <1>5

\* There is a widest dimension, and a first of them.
LEMMA WidestIs ==
  ASSUME NEW box, \A d \in Dims : box.lo[d] \in Int /\ box.hi[d] \in Int
  PROVE  WidestDim(box) \in Dims
<1> DEFINE width(d) == box.hi[d] - box.lo[d]
           x == [d \in Dims |-> 0 - width(d)]
<1>1. /\ Dims \in SUBSET Int /\ IsFiniteSet(Dims) /\ Dims # {}
      /\ \A d \in Dims : d \in Nat
  <2>1. DIMS \in Int /\ 1 \in Int /\ 1 <= DIMS BY InputConstants
  <2>2. IsFiniteSet(Dims) BY <2>1, FS_Interval DEF Dims
  <2>3. Dims \in SUBSET Int /\ 1 \in Dims /\ \A d \in Dims : d \in Nat
    BY <2>1 DEF Dims
  <2> QED BY <2>2, <2>3
<1>2. \A d \in Dims : width(d) \in Int /\ x[d] \in Int /\ x[d] = 0 - width(d) OBVIOUS
<1> HIDE DEF x
<1>3. PICK d \in Dims : \A e \in Dims : x[d] < x[e] \/ (x[d] = x[e] /\ d <= e)
  BY <1>1, <1>2, FirstOfLeast
<1> HIDE DEF width
<1>4. \A e \in Dims : width(e) <= width(d) BY <1>2, <1>3
<1>5. ASSUME NEW e \in 1 .. d - 1 PROVE width(e) < width(d)
  <2>1. e \in Dims /\ e < d /\ d \in Int BY <1>1, InputConstants DEF Dims
  <2> QED BY <1>2, <1>3, <2>1
<1>6. \E c \in Dims : /\ \A e \in Dims : width(e) <= width(c)
                      /\ \A e \in 1 .. c - 1 : width(e) < width(c)
  BY <1>4, <1>5
<1>7. WidestDim(box) =
        CHOOSE c \in Dims : /\ \A e \in Dims : width(e) <= width(c)
                            /\ \A e \in 1 .. c - 1 : width(e) < width(c)
  BY DEF WidestDim, width
<1> QED BY <1>6, <1>7

-----------------------------------------------------------------------------
(***************************************************************************)
(* Powers of two, by the subsets they count.                               *)
(***************************************************************************)
LEMMA PowerZero == 2 ^ 0 = 1
<1>1. Cardinality(SUBSET {}) = 2 ^ Cardinality({}) BY FS_EmptySet, FS_SUBSET
<1>2. SUBSET {} = {{}} OBVIOUS
<1>3. Cardinality({{}}) = 1 BY FS_Singleton
<1> QED BY <1>1, <1>2, <1>3, FS_EmptySet

\* Powers of two double.
LEMMA PowerNext ==
  ASSUME NEW n \in Nat
  PROVE  2 ^ n \in Nat /\ 2 ^ (n + 1) = 2 * 2 ^ n
<1> DEFINE S == 1 .. n
           T == 1 .. n + 1
           W == {t \cup {n + 1} : t \in SUBSET S}
           f == [t \in SUBSET S |-> t \cup {n + 1}]
<1>1. /\ IsFiniteSet(S) /\ Cardinality(S) = n
      /\ IsFiniteSet(T) /\ Cardinality(T) = n + 1
  BY FS_Interval
<1>2. /\ IsFiniteSet(SUBSET S) /\ Cardinality(SUBSET S) = 2 ^ n
      /\ IsFiniteSet(SUBSET T) /\ Cardinality(SUBSET T) = 2 ^ (n + 1)
  BY <1>1, FS_SUBSET
<1>3. T = S \cup {n + 1} /\ n + 1 \notin S OBVIOUS
<1>4. SUBSET T = (SUBSET S) \cup W
  <2>1. ASSUME NEW t \in SUBSET T, n + 1 \in t PROVE t \in W
    <3>1. t \ {n + 1} \in SUBSET S /\ t = (t \ {n + 1}) \cup {n + 1}
      BY <1>3, <2>1
    <3> QED BY <3>1
  <2>2. ASSUME NEW t \in SUBSET T, n + 1 \notin t PROVE t \in SUBSET S
    BY <1>3, <2>2
  <2>3. W \in SUBSET (SUBSET T) /\ SUBSET S \in SUBSET (SUBSET T) BY <1>3
  <2> HIDE DEF W, T, S
  <2> QED BY <2>1, <2>2, <2>3
<1>5. (SUBSET S) \cap W = {} BY <1>3
<1>6. IsFiniteSet(W) /\ Cardinality(W) = Cardinality(SUBSET S)
  <2>1. \A t, u \in SUBSET S : t \cup {n + 1} = u \cup {n + 1} => t = u
    <3>1. SUFFICES ASSUME NEW t \in SUBSET S, NEW u \in SUBSET S,
                          t \cup {n + 1} = u \cup {n + 1}
                   PROVE  t = u
      OBVIOUS
    <3>2. n + 1 \notin t /\ n + 1 \notin u BY <1>3
    <3>3. t = (t \cup {n + 1}) \ {n + 1} /\ u = (u \cup {n + 1}) \ {n + 1}
      BY <3>2
    <3> QED BY <3>1, <3>3
  <2>2. f \in [SUBSET S -> W] /\ \A w \in W : \E t \in SUBSET S : f[t] = w OBVIOUS
  <2>3. \A t, u \in SUBSET S : f[t] = f[u] => t = u BY <2>1
  <2> HIDE DEF f, W, S
  <2>4. f \in Surjection(SUBSET S, W) BY <2>2 DEF Surjection
  <2>5. f \in Injection(SUBSET S, W) BY <2>2, <2>3 DEF Injection, IsInjective
  <2> QED BY <1>2, <2>4, <2>5, FS_Surjection
<1>7. 2 ^ n \in Nat BY <1>2, FS_CardinalityType
<1>8. Cardinality(SUBSET T) = Cardinality(SUBSET S) + Cardinality(W)
  <2>1. Cardinality((SUBSET S) \cap W) = 0 BY <1>5, FS_EmptySet
  <2>2. Cardinality((SUBSET S) \cup W) =
          Cardinality(SUBSET S) + Cardinality(W) - Cardinality((SUBSET S) \cap W)
    BY <1>2, <1>6, FS_Union
  <2>3. Cardinality(W) \in Nat /\ Cardinality(SUBSET S) \in Nat
    BY <1>2, <1>6, FS_CardinalityType
  <2> HIDE DEF S, T, W
  <2>4. Cardinality(SUBSET T) = Cardinality((SUBSET S) \cup W) BY <1>4, Zenon
  <2> QED BY <2>1, <2>2, <2>3, <2>4
<1> DEFINE p == 2 ^ n
           q == 2 ^ (n + 1)
<1>9. p \in Nat /\ q = p + p
  <2> HIDE DEF S, T, W
  <2> QED BY <1>2, <1>6, <1>7, <1>8
<1>10. q = 2 * p
  <2> HIDE DEF p, q
  <2> QED BY <1>9
<1> QED BY <1>7, <1>10

-----------------------------------------------------------------------------
(***************************************************************************)
(* Blocks.                                                                 *)
(***************************************************************************)
LEMMA Divided ==
  ASSUME NEW n \in Nat, NEW k \in Nat \ {0}
  PROVE  /\ n \div k \in Nat /\ n % k \in 0 .. k - 1
         /\ n = (n \div k) * k + (n % k)
<1>1. n \div k \in Int /\ n % k \in 0 .. k - 1 /\ n = k * (n \div k) + (n % k)
  OBVIOUS
<1>2. n \div k \in Nat OBVIOUS
<1>3. \A q \in Int : k * q = q * k OBVIOUS
<1>4. k * (n \div k) = (n \div k) * k BY <1>1, <1>3
<1> QED BY <1>1, <1>2, <1>4

\* A number of blocks is what it is.
LEMMA WholeBlocks ==
  ASSUME NEW q \in Nat, NEW k \in Nat \ {0}
  PROVE  q * k \in Nat /\ (q * k) \div k = q
<1> DEFINE n == q * k
<1>1. n \in Nat OBVIOUS
<1> HIDE DEF n
<1>2. /\ n \div k \in Nat /\ n % k \in 0 .. k - 1
      /\ n = (n \div k) * k + (n % k)
  BY <1>1, Divided
<1>3. n \div k = q
  <2> DEFINE p == n \div k
             r == n % k
  <2>1. p \in Nat /\ r \in 0 .. k - 1 /\ q * k = p * k + r BY <1>2 DEF n
  <2> HIDE DEF p, r
  <2>2. CASE p < q
    <3>1. PICK e \in Nat : q = p + 1 + e
      <4>1. q - p - 1 \in Nat /\ q = p + 1 + (q - p - 1) BY <2>1, <2>2
      <4> QED BY <4>1
    <3>2. q * k = p * k + k + e * k BY <2>1, <3>1
    <3>3. e * k >= 0 BY <3>1
    <3> QED BY <2>1, <3>2, <3>3
  <2>3. CASE p > q
    <3>1. PICK e \in Nat : p = q + 1 + e
      <4>1. p - q - 1 \in Nat /\ p = q + 1 + (p - q - 1) BY <2>1, <2>3
      <4> QED BY <4>1
    <3>2. p * k = q * k + k + e * k BY <2>1, <3>1
    <3>3. e * k >= 0 BY <3>1
    <3> QED BY <2>1, <3>2, <3>3
  <2>4. p = q BY <2>1, <2>2, <2>3
  <2> QED BY <2>4 DEF p
<1> QED BY <1>1, <1>3 DEF n

\* What is stored fills its blocks.
Aligned(s) == Len(s) = (Len(s) \div LANES) * LANES

\* A leaf's points come after what is stored, and its last block is filled.
LEMMA StoredIs ==
  ASSUME input \in Inputs, slots \in Seq(VectorIds \cup {PAD}),
         NEW indices \in Seq(VectorIds)
  PROVE  /\ Stored(indices) \in Seq(VectorIds \cup {PAD})
         /\ Aligned(Stored(indices))
         /\ Len(slots) + Len(indices) <= Len(Stored(indices))
         /\ \A a \in 1 .. Len(slots) : Stored(indices)[a] = slots[a]
         /\ \A k \in 1 .. Len(indices) :
              Stored(indices)[Len(slots) + k] = indices[k]
<1> DEFINE S == VectorIds \cup {PAD}
           n == Len(slots) + Len(indices)
           m == (LANES - (n % LANES)) % LANES
           pad == Padding(n)
           t == slots \o indices
<1>1. LANES \in Nat \ {0} BY InputConstants
<1>2. /\ slots \in Seq(S) /\ indices \in Seq(S)
      /\ Len(slots) \in Nat /\ Len(indices) \in Nat /\ n \in Nat
  OBVIOUS
<1>3. /\ n % LANES \in 0 .. LANES - 1 /\ n \div LANES \in Nat
      /\ n = (n \div LANES) * LANES + (n % LANES)
  BY <1>1, <1>2, Divided
<1>4. /\ n % LANES = 0 => m = 0
      /\ n % LANES # 0 => m = LANES - (n % LANES)
  <2> DEFINE r == n % LANES
  <2>1. r \in 0 .. LANES - 1 BY <1>3
  <2> HIDE DEF r
  <2>2. CASE r = 0
    <3>1. LANES % LANES = 0 BY <1>1
    <3>2. (LANES - r) % LANES = 0 BY <1>1, <2>2, <3>1
    <3> QED BY <2>2, <3>2 DEF r
  <2>3. CASE r # 0
    <3>1. LANES - r \in 1 .. LANES - 1 BY <1>1, <2>1, <2>3
    <3>2. (LANES - r) % LANES = LANES - r BY <1>1, <3>1
    <3> QED BY <2>3, <3>2 DEF r
  <2> QED BY <2>2, <2>3
<1>5. m \in Nat /\ \E q \in Nat : n + m = q * LANES
  <2> DEFINE p == n \div LANES
             r == n % LANES
  <2>1. /\ r \in 0 .. LANES - 1 /\ p \in Nat /\ n = p * LANES + r
        /\ r = 0 => m = 0
        /\ r # 0 => m = LANES - r
    <3>1. r \in 0 .. LANES - 1 /\ p \in Nat /\ n = p * LANES + r BY <1>3
    <3>2. (r = 0 => m = 0) /\ (r # 0 => m = LANES - r) BY <1>4
    <3> QED BY <3>1, <3>2
  <2> HIDE DEF p, r, m, n
  <2>2. CASE r = 0 BY <1>1, <1>2, <2>1, <2>2
  <2>3. CASE r # 0
    <3>1. m \in Nat /\ n + m = p * LANES + LANES BY <1>1, <1>2, <2>1, <2>3
    <3>2. p * LANES + LANES = (p + 1) * LANES BY <1>1, <2>1
    <3>3. p + 1 \in Nat BY <2>1
    <3> QED BY <3>1, <3>2, <3>3
  <2> QED BY <2>2, <2>3
<1>6. pad = [i \in 1 .. m |-> PAD] BY DEF Padding
<1> HIDE DEF m, pad
<1>7. pad \in Seq(S) /\ Len(pad) = m
  <2>1. pad \in [1 .. m -> S] BY <1>6
  <2> QED BY <1>5, <2>1
<1>8. /\ t \in Seq(S) /\ Len(t) = n
      /\ \A a \in 1 .. n : t[a] = IF a <= Len(slots) THEN slots[a]
                                 ELSE indices[a - Len(slots)]
  BY <1>2, ConcatProperties
<1> HIDE DEF t
<1> DEFINE u == t \o pad
<1>9. /\ u \in Seq(S) /\ Len(u) = n + m
      /\ \A a \in 1 .. n + m : u[a] = IF a <= n THEN t[a] ELSE pad[a - n]
  BY <1>7, <1>8, ConcatProperties
<1> HIDE DEF u
<1>10. \A a \in 1 .. Len(slots) : u[a] = slots[a]
  <2>1. \A a \in 1 .. Len(slots) : a \in 1 .. n /\ a \in 1 .. n + m /\ a <= n /\ a <= Len(slots)
    BY <1>2, <1>5
  <2> QED BY <1>8, <1>9, <2>1
<1>11. ASSUME NEW k \in 1 .. Len(indices) PROVE u[Len(slots) + k] = indices[k]
  <2>1. /\ Len(slots) + k \in 1 .. n /\ Len(slots) + k \in 1 .. n + m
        /\ ~(Len(slots) + k <= Len(slots)) /\ Len(slots) + k - Len(slots) = k
        /\ Len(slots) + k <= n
    BY <1>2, <1>5
  <2> QED BY <1>8, <1>9, <2>1
<1>12. Aligned(u)
  <2>1. PICK q \in Nat : n + m = q * LANES BY <1>5
  <2>2. (q * LANES) \div LANES = q BY <1>1, WholeBlocks
  <2> QED BY <1>9, <2>1, <2>2 DEF Aligned
<1>13. u = Stored(indices) BY DEF u, t, pad, Stored
<1>14. n <= Len(u) BY <1>2, <1>5, <1>9
<1> QED BY <1>9, <1>10, <1>11, <1>12, <1>13, <1>14

-----------------------------------------------------------------------------
(***************************************************************************)
(* The stack of calls.                                                     *)
(***************************************************************************)
\* What popping leaves of a stack.
LEMMA TopRemoved ==
  ASSUME NEW S, NEW s \in Seq(S), s # <<>>
  PROVE  /\ Len(s) \in Nat \ {0} /\ s[Len(s)] \in S
         /\ SubSeq(s, 1, Len(s) - 1) \in Seq(S)
         /\ Len(SubSeq(s, 1, Len(s) - 1)) = Len(s) - 1
         /\ \A i \in 1 .. Len(s) - 1 : SubSeq(s, 1, Len(s) - 1)[i] = s[i]
<1> DEFINE n == Len(s)
<1>1. n \in Nat /\ n >= 1 /\ n \in 1 .. n BY EmptySeq
<1>2. s[n] \in S BY <1>1, ElementOfSeq
<1>3. \A i \in 1 .. n - 1 : s[i] \in S
  <2>1. \A i \in 1 .. n - 1 : i \in 1 .. n BY <1>1
  <2> QED BY <2>1, ElementOfSeq
<1>4. 1 \in Int /\ n - 1 \in Int BY <1>1
<1>5. /\ SubSeq(s, 1, n - 1) \in Seq(S)
      /\ Len(SubSeq(s, 1, n - 1)) = IF 1 <= n - 1 THEN (n - 1) - 1 + 1 ELSE 0
      /\ \A i \in 1 .. (n - 1) - 1 + 1 : SubSeq(s, 1, n - 1)[i] = s[1 + i - 1]
  BY <1>3, <1>4, SubSeqProperties
<1> HIDE DEF n
<1>6. \A i \in 1 .. n - 1 : i \in 1 .. (n - 1) - 1 + 1 /\ 1 + i - 1 = i BY <1>1
<1>7. /\ SubSeq(s, 1, n - 1) \in Seq(S) /\ Len(SubSeq(s, 1, n - 1)) = n - 1
      /\ \A i \in 1 .. n - 1 : SubSeq(s, 1, n - 1)[i] = s[i]
  BY <1>1, <1>5, <1>6
<1> QED BY <1>1, <1>2, <1>7 DEF n

\* What is on the stack when the record on top is replaced by two.
LEMMA TopReplaced ==
  ASSUME NEW S, NEW s \in Seq(S), s # <<>>, NEW a \in S, NEW b \in S,
         NEW t, t = SubSeq(s, 1, Len(s) - 1) \o <<a, b>>
  PROVE  /\ t \in Seq(S) /\ Len(t) = Len(s) + 1
         /\ \A i \in 1 .. Len(s) - 1 : t[i] = s[i]
         /\ t[Len(s)] = a /\ t[Len(t)] = b
<1> DEFINE n == Len(s)
           r == SubSeq(s, 1, n - 1)
<1>1. /\ n \in Nat \ {0} /\ r \in Seq(S) /\ Len(r) = n - 1
      /\ \A i \in 1 .. n - 1 : r[i] = s[i]
  BY TopRemoved
<1>2. <<a, b>> \in Seq(S) /\ Len(<<a, b>>) = 2 /\ t = r \o <<a, b>> OBVIOUS
<1> HIDE DEF n, r
<1>3. /\ t \in Seq(S) /\ Len(t) = (n - 1) + 2
      /\ \A i \in 1 .. (n - 1) + 2 :
           t[i] = IF i <= n - 1 THEN r[i] ELSE <<a, b>>[i - (n - 1)]
  BY <1>1, <1>2, ConcatProperties
<1>4. Len(t) = n + 1 BY <1>1, <1>3
<1>5. ASSUME NEW i \in 1 .. n - 1 PROVE t[i] = s[i]
  <2>1. i \in 1 .. (n - 1) + 2 /\ i <= n - 1 BY <1>1
  <2> QED BY <1>1, <1>3, <2>1
<1>6. t[n] = a
  <2>1. n \in 1 .. (n - 1) + 2 /\ ~(n <= n - 1) /\ n - (n - 1) = 1 BY <1>1
  <2> QED BY <1>3, <2>1
<1>7. t[n + 1] = b
  <2>1. n + 1 \in 1 .. (n - 1) + 2 /\ ~(n + 1 <= n - 1) /\ (n + 1) - (n - 1) = 2
    BY <1>1
  <2>2. t[n + 1] = <<a, b>>[(n + 1) - (n - 1)] BY <1>3, <2>1
  <2>3. <<a, b>>[(n + 1) - (n - 1)] = <<a, b>>[2] BY <2>1
  <2>4. <<a, b>>[2] = b OBVIOUS
  <2> QED BY <2>2, <2>3, <2>4
<1> QED BY <1>3, <1>4, <1>5, <1>6, <1>7 DEF r, n

-----------------------------------------------------------------------------
(***************************************************************************)
(* What holds while the trees are built.  U says which vectors are below a *)
(* node, H how high it stands; both are settled when a node is complete.   *)
(***************************************************************************)
\* The activation records, and the moments without any.
Frames == 1 .. Len(calls)
KdIdle == calls = <<>> /\ ret = NoNode

\* Nodes that are complete: those of calls that have returned.
Complete == {n \in NodeIds : \A j \in Frames : calls[j].node # n}
Leaves == {n \in Complete : nodes[n].left = NoNode}

\* What the call above a call was made for.
Half(call) ==
  IF call.left = NoNode THEN LeftHalf(call.indices) ELSE RightHalf(call.indices)

\* The vectors a call has yet to pass on.
Pending(call) ==
  IF call.node = NoNode THEN Range(call.indices)
  ELSE IF call.left = NoNode THEN Range(RightHalf(call.indices)) ELSE {}

\* Vectors of buckets no tree was begun for.
Untouched(i) ==
  /\ input.key[i] \in keys
  /\ KdIdle \/ input.key[i] # Min(keys)

\* Types of what is in the tables.
NodeTypes ==
  [left : Nat, right : Nat, start : Nat, len : Nat,
   box : [lo : [Dims -> Int], hi : [Dims -> Int]]]
CallTypes == [indices : Seq(VectorIds), node : Nat, left : Nat]

KdTypes ==
  /\ input \in Inputs
  /\ keys \in SUBSET Nat /\ IsFiniteSet(keys)
  /\ \A k \in keys : Bucket(k) # {}
  /\ calls \in Seq(CallTypes)
  /\ ret \in Nat
  /\ nodes \in Seq(NodeTypes)
  /\ parts \in Seq([key : Nat, root : Nat])
  /\ slots \in Seq(VectorIds \cup {PAD})
  /\ Aligned(slots)

\* An activation record: its vectors are distinct; its node, once made, has
\* their box; its left child, once there, has the left half of them below it.
CallOk(U, call) ==
  /\ Piece(call.indices) /\ call.indices # <<>>
  /\ call.node = NoNode => call.left = NoNode
  /\ call.node # NoNode =>
       /\ call.node \in NodeIds
       /\ Len(call.indices) > KD_LEAF_SIZE
       /\ nodes[call.node].box = Bounds(Range(call.indices))
  /\ call.left # NoNode =>
       /\ call.left \in Complete /\ call.left > call.node
       /\ U[call.left] = Range(LeftHalf(call.indices))

\* Only the innermost record may be without a node, and each call was made for
\* a half of its caller's vectors.
CallInv(U) ==
  \A j \in Frames :
    /\ CallOk(U, calls[j])
    /\ calls[j].node = NoNode <=> (j = Len(calls) /\ ret = NoNode)
    /\ j < Len(calls) => Range(calls[j + 1].indices) = Range(Half(calls[j]))

\* A call works on none of the vectors its callers have yet to pass on, and its
\* node comes after theirs.
StackInv ==
  \A j, k \in Frames : j < k =>
    /\ Range(calls[k].indices) \cap Pending(calls[j]) = {}
    /\ Range(calls[k].indices) \subseteq Range(calls[j].indices)
    /\ calls[k].node # NoNode => calls[j].node < calls[k].node

\* The bucket a tree is being made of, and the node just returned.
WorkInv(U) ==
  /\ ~KdIdle => keys # {}
  /\ calls # <<>> => Range(calls[1].indices) = Bucket(Min(keys))
  /\ ret # NoNode =>
       /\ ret \in Complete
       /\ U[ret] = IF calls = <<>> THEN Bucket(Min(keys)) ELSE Range(Half(Top))
       /\ calls # <<>> => Top.node < ret

\* A complete leaf: its lanes hold the vectors below it, each once.
LeafNode(U, H, n) ==
  /\ nodes[n].len <= KD_LEAF_SIZE /\ H[n] = 0
  /\ nodes[n].start * LANES + nodes[n].len <= Len(slots)
  /\ \A k \in 1 .. nodes[n].len : slots[nodes[n].start * LANES + k] \in U[n]
  /\ \A i \in U[n] :
       \E k \in 1 .. nodes[n].len : slots[nodes[n].start * LANES + k] = i
  /\ \A k, l \in 1 .. nodes[n].len :
       slots[nodes[n].start * LANES + k] = slots[nodes[n].start * LANES + l] => k = l

\* A complete inner node: its children come after it in the table, share what
\* is below it and are as shallow as their sizes allow.
InnerNode(U, H, n) ==
  LET l == nodes[n].left
      r == nodes[n].right
  IN /\ l \in Complete /\ r \in Complete /\ n < l /\ n < r
     /\ U[n] = U[l] \cup U[r] /\ U[l] \cap U[r] = {}
     /\ H[n] = 1 + Max({H[l], H[r]})
     /\ KD_LEAF_SIZE * 2 ^ (H[n] - 1) < nodes[n].len
     /\ KD_LEAF_SIZE < nodes[n].len

\* A complete node.
NodeInv(U, H, n) ==
  /\ U[n] \in SUBSET VectorIds /\ U[n] # {} /\ H[n] \in Nat
  /\ nodes[n].len = Cardinality(U[n])
  /\ nodes[n].box = Bounds(U[n])
  /\ nodes[n].left = NoNode => LeafNode(U, H, n)
  /\ nodes[n].left # NoNode => InnerNode(U, H, n)

TreeInv(U, H) == \A n \in Complete : NodeInv(U, H, n)

\* A vector is in one leaf, pending in a record, or in a bucket no tree was
\* begun for, and never in two of these.
PlacementInv(U) ==
  /\ \A m, n \in Leaves : m # n => U[m] \cap U[n] = {}
  /\ \A m \in Leaves, j \in Frames : U[m] \cap Pending(calls[j]) = {}
  /\ \A m \in Leaves : \A i \in U[m] : ~Untouched(i)
  /\ \A i \in VectorIds :
       \/ Untouched(i)
       \/ \E j \in Frames : i \in Pending(calls[j])
       \/ \E m \in Leaves : i \in U[m]

\* A finished tree holds its bucket.
PartsInv(U) ==
  \A p \in 1 .. Len(parts) :
    parts[p].root \in Complete /\ U[parts[p].root] = Bucket(parts[p].key)

\* The inductive invariant of the kd mode.
KdInv(U, H) ==
  /\ KdTypes /\ CallInv(U) /\ StackInv /\ WorkInv(U)
  /\ TreeInv(U, H) /\ PlacementInv(U) /\ PartsInv(U)

-----------------------------------------------------------------------------
(***************************************************************************)
(* What the actions have in common.                                        *)
(***************************************************************************)
LEMMA SameInput ==
  ASSUME input' = input
  PROVE  /\ vecs' = vecs /\ VectorIds' = VectorIds
         /\ \A S : Bounds(S)' = Bounds(S)
         /\ \A k : Bucket(k)' = Bucket(k)
         /\ \A s : Piece(s)' = Piece(s)
         /\ CallTypes' = CallTypes
<1>1. vecs' = vecs /\ VectorIds' = VectorIds BY DEF vecs, VectorIds
<1>2. \A S : Bounds(S)' = Bounds(S) BY <1>1 DEF Bounds
<1>3. \A k : Bucket(k)' = Bucket(k) BY <1>1 DEF Bucket
<1>4. \A s : Piece(s)' = Piece(s) BY <1>1 DEF Piece
<1>5. CallTypes' = CallTypes BY <1>1 DEF CallTypes
<1> QED BY <1>1, <1>2, <1>3, <1>4, <1>5

\* The innermost record, and the ones below it.
LEMMA TopIs ==
  ASSUME KdTypes, calls # <<>>
  PROVE  /\ Len(calls) \in Nat \ {0} /\ Len(calls) \in Frames
         /\ Top = calls[Len(calls)] /\ Top \in CallTypes
         /\ Callers \in Seq(CallTypes) /\ Len(Callers) = Len(calls) - 1
         /\ \A j \in 1 .. Len(calls) - 1 : j \in Frames /\ Callers[j] = calls[j]
<1>1. calls \in Seq(CallTypes) BY DEF KdTypes
<1>2. /\ Len(calls) \in Nat \ {0} /\ calls[Len(calls)] \in CallTypes
      /\ Callers \in Seq(CallTypes) /\ Len(Callers) = Len(calls) - 1
      /\ \A j \in 1 .. Len(calls) - 1 : Callers[j] = calls[j]
  BY <1>1, TopRemoved DEF Callers
<1> QED BY <1>2 DEF Top, Frames

\* Types of records and nodes, one by one.
LEMMA FrameTypes ==
  ASSUME KdTypes
  PROVE  /\ Len(calls) \in Nat /\ Len(nodes) \in Nat /\ Len(slots) \in Nat
         /\ \A j \in Frames : /\ calls[j] \in CallTypes
                              /\ calls[j].indices \in Seq(VectorIds)
                              /\ calls[j].node \in Nat /\ calls[j].left \in Nat
         /\ \A n \in NodeIds : nodes[n] \in NodeTypes /\ n \in Nat \ {0}
<1>1. /\ calls \in Seq(CallTypes) /\ nodes \in Seq(NodeTypes)
      /\ slots \in Seq(VectorIds \cup {PAD})
  BY DEF KdTypes
<1>2. Len(calls) \in Nat /\ Len(nodes) \in Nat /\ Len(slots) \in Nat BY <1>1
<1>3. \A j \in Frames : calls[j] \in CallTypes BY <1>1 DEF Frames
<1>4. \A n \in NodeIds : nodes[n] \in NodeTypes /\ n \in Nat \ {0}
  BY <1>1, <1>2 DEF NodeIds
<1>5. \A c \in CallTypes : /\ c.indices \in Seq(VectorIds)
                           /\ c.node \in Nat /\ c.left \in Nat
  BY DEF CallTypes
<1> QED BY <1>2, <1>3, <1>4, <1>5

\* A complete node stays as it is.
LEMMA NodesKept ==
  ASSUME NEW U, NEW H, NEW V, NEW G, KdTypes, TreeInv(U, H),
         Complete \subseteq Complete', input' = input,
         \A n \in Complete : nodes'[n] = nodes[n] /\ V[n] = U[n] /\ G[n] = H[n],
         Len(slots) \in Nat, Len(slots') \in Nat, Len(slots) <= Len(slots'),
         \A a \in 1 .. Len(slots) : slots'[a] = slots[a]
  PROVE  \A n \in Complete : NodeInv(V, G, n)'
<1> SUFFICES ASSUME NEW n \in Complete PROVE NodeInv(V, G, n)' OBVIOUS
<1>1. NodeInv(U, H, n) BY DEF TreeInv
<1>2. nodes'[n] = nodes[n] /\ V[n] = U[n] /\ G[n] = H[n] OBVIOUS
<1>3. /\ VectorIds' = VectorIds /\ Bounds(U[n])' = Bounds(U[n]) BY SameInput
<1>4. /\ V[n] \in SUBSET VectorIds' /\ V[n] # {} /\ G[n] \in Nat
      /\ nodes'[n].len = Cardinality(V[n])
      /\ nodes'[n].box = Bounds(V[n])'
  BY <1>1, <1>2, <1>3 DEF NodeInv
<1>5. ASSUME nodes[n].left = NoNode PROVE LeafNode(V, G, n)'
  <2> DEFINE first == nodes[n].start * LANES
             len == nodes[n].len
  <2>1. LeafNode(U, H, n) BY <1>1, <1>5 DEF NodeInv
  <2>2. first \in Nat /\ len \in Nat
    <3>1. nodes[n] \in NodeTypes BY FrameTypes DEF Complete
    <3>2. nodes[n].start \in Nat /\ nodes[n].len \in Nat BY <3>1 DEF NodeTypes
    <3> QED BY <3>2, InputConstants
  <2>3. /\ len <= KD_LEAF_SIZE /\ H[n] = 0 /\ first + len <= Len(slots)
        /\ \A k \in 1 .. len : slots[first + k] \in U[n]
        /\ \A i \in U[n] : \E k \in 1 .. len : slots[first + k] = i
        /\ \A k, l \in 1 .. len : slots[first + k] = slots[first + l] => k = l
    BY <2>1 DEF LeafNode
  <2>4. first = nodes'[n].start * LANES /\ len = nodes'[n].len BY <1>2
  <2> HIDE DEF first, len
  <2>5. \A k \in 1 .. len : slots'[first + k] = slots[first + k]
    <3>1. \A k \in 1 .. len : first + k \in 1 .. Len(slots) BY <2>2, <2>3
    <3> QED BY <3>1
  <2>6. first + len <= Len(slots') BY <2>2, <2>3
  <2>7. /\ \A k \in 1 .. len : slots'[first + k] \in V[n]
        /\ \A i \in V[n] : \E k \in 1 .. len : slots'[first + k] = i
        /\ \A k, l \in 1 .. len : slots'[first + k] = slots'[first + l] => k = l
    BY <1>2, <2>3, <2>5
  <2> QED BY <1>2, <2>3, <2>4, <2>6, <2>7 DEF LeafNode
<1>6. ASSUME nodes[n].left # NoNode PROVE InnerNode(V, G, n)'
  <2> DEFINE l == nodes[n].left
             r == nodes[n].right
  <2>1. InnerNode(U, H, n) BY <1>1, <1>6 DEF NodeInv
  <2>2. /\ l \in Complete /\ r \in Complete /\ n < l /\ n < r
        /\ U[n] = U[l] \cup U[r] /\ U[l] \cap U[r] = {}
        /\ H[n] = 1 + Max({H[l], H[r]})
        /\ KD_LEAF_SIZE * 2 ^ (H[n] - 1) < nodes[n].len
        /\ KD_LEAF_SIZE < nodes[n].len
    BY <2>1 DEF InnerNode
  <2>3. l = nodes'[n].left /\ r = nodes'[n].right /\ nodes'[n].len = nodes[n].len
    BY <1>2
  <2> HIDE DEF l, r
  <2>4. /\ V[l] = U[l] /\ V[r] = U[r] /\ G[l] = H[l] /\ G[r] = H[r]
        /\ l \in Complete' /\ r \in Complete'
    BY <2>2
  <2>5. /\ V[n] = V[l] \cup V[r] /\ V[l] \cap V[r] = {}
        /\ G[n] = 1 + Max({G[l], G[r]})
    BY <1>2, <2>2, <2>4
  <2>6. /\ KD_LEAF_SIZE * 2 ^ (G[n] - 1) < nodes'[n].len
        /\ KD_LEAF_SIZE < nodes'[n].len
    BY <1>2, <2>2, <2>3
  <2> QED BY <2>2, <2>3, <2>4, <2>5, <2>6 DEF InnerNode
<1>7. nodes'[n].left = nodes[n].left BY <1>2
<1> QED BY <1>4, <1>5, <1>6, <1>7 DEF NodeInv

\* A call stays as it is.
LEMMA CallKept ==
  ASSUME NEW U, NEW V, NEW c, CallOk(U, c), input' = input,
         Complete \subseteq Complete', NodeIds \subseteq NodeIds',
         \A n \in Complete : V[n] = U[n],
         c.node # NoNode => nodes'[c.node].box = nodes[c.node].box
  PROVE  CallOk(V, c)'
<1>1. /\ Piece(c.indices)' = Piece(c.indices)
      /\ Bounds(Range(c.indices))' = Bounds(Range(c.indices))
  BY SameInput
<1>2. /\ Piece(c.indices) /\ c.indices # <<>>
      /\ c.node = NoNode => c.left = NoNode
      /\ c.node # NoNode =>
           /\ c.node \in NodeIds
           /\ Len(c.indices) > KD_LEAF_SIZE
           /\ nodes[c.node].box = Bounds(Range(c.indices))
      /\ c.left # NoNode =>
           /\ c.left \in Complete /\ c.left > c.node
           /\ U[c.left] = Range(LeftHalf(c.indices))
  BY DEF CallOk
<1>3. LeftHalf(c.indices)' = LeftHalf(c.indices) BY DEF LeftHalf, Middle
<1>4. c.node # NoNode =>
        /\ c.node \in NodeIds'
        /\ nodes'[c.node].box = Bounds(Range(c.indices))'
  BY <1>1, <1>2
<1>5. c.left # NoNode =>
        /\ c.left \in Complete' /\ V[c.left] = Range(LeftHalf(c.indices))
  BY <1>2
<1>6. Piece(c.indices)' BY <1>1, <1>2
<1> QED BY <1>2, <1>3, <1>4, <1>5, <1>6 DEF CallOk

\* A record that is left alone stays right.
LEMMA FrameKept ==
  ASSUME NEW U, NEW V, NEW j, CallOk(U, calls[j]), calls'[j] = calls[j],
         input' = input,
         Complete \subseteq Complete', NodeIds \subseteq NodeIds',
         \A n \in Complete : V[n] = U[n],
         calls[j].node # NoNode =>
           nodes'[calls[j].node].box = nodes[calls[j].node].box
  PROVE  CallOk(V, calls[j])'
<1>1. PICK c : c = calls[j] OBVIOUS
<1>2. CallOk(U, c) /\ c = calls'[j] BY <1>1
<1>3. CallOk(V, c)' BY <1>1, <1>2, CallKept
<1> QED BY <1>2, <1>3 DEF CallOk

\* What a record has yet to pass on depends on the record only.
LEMMA FrameRigid ==
  ASSUME NEW j, calls'[j] = calls[j]
  PROVE  /\ Half(calls[j])' = Half(calls[j])
         /\ Pending(calls[j])' = Pending(calls[j])
BY DEF Half, Pending, LeftHalf, RightHalf, Middle

-----------------------------------------------------------------------------
(***************************************************************************)
(* The actions.                                                            *)
(***************************************************************************)
\* The vectors a call was made for are of the bucket in hand.
LEMMA OfBucket ==
  ASSUME NEW U, KdTypes, StackInv, WorkInv(U), NEW j \in Frames
  PROVE  Range(calls[j].indices) \in SUBSET Bucket(Min(keys))
<1>1. calls # <<>> /\ 1 \in Frames /\ j \in Nat /\ 1 <= j
  <2>1. Len(calls) \in Nat BY FrameTypes
  <2>2. j \in 1 .. Len(calls) BY DEF Frames
  <2>3. j \in Nat /\ 1 <= j /\ 1 \in Frames /\ Len(calls) # 0
    BY <2>1, <2>2 DEF Frames
  <2> QED BY <2>3
<1>2. Range(calls[1].indices) = Bucket(Min(keys)) BY <1>1 DEF WorkInv
<1>3. CASE j = 1 BY <1>2, <1>3
<1>4. CASE 1 < j
  <2>1. Range(calls[j].indices) \subseteq Range(calls[1].indices)
    BY <1>1, <1>4 DEF StackInv
  <2> QED BY <1>2, <2>1
<1> QED BY <1>1, <1>3, <1>4

\* A leaf is made.
LEMMA MakeLeafStep ==
  ASSUME NEW U, NEW H, KdInv(U, H), MakeLeaf
  PROVE  \E V, G : KdInv(V, G)'
<1>a. PICK N, s, me, new :
        /\ N = Len(calls) /\ s = Top.indices /\ me = Me
        /\ new = NewNode(s, Len(slots) \div LANES)
  OBVIOUS
<1>b. PICK V, G : /\ V = [n \in Nat |-> IF n = me THEN Range(s) ELSE U[n]]
                  /\ G = [n \in Nat |-> IF n = me THEN 0 ELSE H[n]]
  OBVIOUS
<1>1. /\ KdTypes /\ CallInv(U) /\ StackInv /\ WorkInv(U)
      /\ TreeInv(U, H) /\ PlacementInv(U) /\ PartsInv(U)
  BY DEF KdInv
<1>2. /\ calls # <<>> /\ ret = NoNode /\ Top.node = NoNode
      /\ Len(s) <= KD_LEAF_SIZE
      /\ nodes' = Append(nodes, new) /\ slots' = Stored(s)
      /\ ret' = me /\ calls' = Callers
      /\ input' = input /\ keys' = keys /\ parts' = parts
  BY <1>a DEF MakeLeaf, Entered
<1>3. /\ N \in Nat \ {0} /\ N \in Frames /\ Top = calls[N]
      /\ calls' \in Seq(CallTypes) /\ Len(calls') = N - 1
      /\ \A j \in 1 .. N - 1 : j \in Frames /\ calls'[j] = calls[j]
  BY <1>a, <1>1, <1>2, TopIs
<1>4. /\ Len(nodes) \in Nat /\ me = Len(nodes) + 1 /\ Len(slots) \in Nat
      /\ \A n \in NodeIds : nodes[n] \in NodeTypes /\ n \in Nat \ {0}
  BY <1>a, <1>1, FrameTypes DEF Me
<1>5. /\ VectorIds' = VectorIds /\ CallTypes' = CallTypes
      /\ \A S : Bounds(S)' = Bounds(S)
      /\ \A k : Bucket(k)' = Bucket(k)
      /\ \A t : Piece(t)' = Piece(t)
  BY <1>2, SameInput
<1>6. Piece(s) /\ s # <<>> /\ Top.left = NoNode
  BY <1>a, <1>1, <1>2, <1>3 DEF CallInv, CallOk
<1>7. /\ Len(s) \in Nat /\ Range(s) \in SUBSET VectorIds
      /\ IsFiniteSet(Range(s)) /\ Cardinality(Range(s)) = Len(s)
  BY <1>6, PieceSize
<1>8. input \in Inputs /\ slots \in Seq(VectorIds \cup {PAD}) /\ Aligned(slots)
  BY <1>1 DEF KdTypes
<1>9. /\ slots' \in Seq(VectorIds \cup {PAD}) /\ Aligned(slots')
      /\ Len(slots) + Len(s) <= Len(slots')
      /\ \A a \in 1 .. Len(slots) : slots'[a] = slots[a]
      /\ \A k \in 1 .. Len(s) : slots'[Len(slots) + k] = s[k]
  <2>1. s \in Seq(VectorIds) BY <1>6 DEF Piece
  <2>2. /\ Stored(s) \in Seq(VectorIds \cup {PAD}) /\ Aligned(Stored(s))
        /\ Len(slots) + Len(s) <= Len(Stored(s))
        /\ \A a \in 1 .. Len(slots) : Stored(s)[a] = slots[a]
        /\ \A k \in 1 .. Len(s) : Stored(s)[Len(slots) + k] = s[k]
    BY <1>8, <2>1, StoredIs
  <2>3. Aligned(slots') BY <1>2, <2>2 DEF Aligned
  <2> QED BY <1>2, <2>2, <2>3
<1>10. LANES \in Nat \ {0} /\ KD_LEAF_SIZE \in Nat \ {0}
  BY InputConstants, LeafSize
<1>11. /\ new.left = NoNode /\ new.right = NoNode
       /\ new.start = Len(slots) \div LANES /\ new.len = Len(s)
       /\ new.box = Bounds(Range(s)) /\ new \in NodeTypes
  <2>1. Len(slots) \div LANES \in Nat BY <1>4, <1>10, Divided
  <2>2. Bounds(Range(s)) \in [lo : [Dims -> Int], hi : [Dims -> Int]]
    <3>1. Range(s) # {}
      <4>1. 1 \in DOMAIN s BY <1>6 DEF Piece
      <4> QED BY <4>1 DEF Range
    <3>2. PICK i \in Range(s) : TRUE BY <3>1
    <3>3. \A d \in Dims : /\ Bounds(Range(s)).lo[d] \in Int
                          /\ Bounds(Range(s)).hi[d] \in Int
      BY <1>7, <1>8, <3>2, BoundsEnclose
    <3> QED BY <3>3 DEF Bounds
  <2> QED BY <1>a, <1>7, <2>1, <2>2 DEF NewNode, NodeTypes, NoNode
<1>12. /\ nodes' \in Seq(NodeTypes) /\ Len(nodes') = me /\ nodes'[me] = new
       /\ \A n \in NodeIds : nodes'[n] = nodes[n]
       /\ NodeIds' = NodeIds \cup {me} /\ me \notin NodeIds /\ me \in Nat \ {0}
  <2>1. nodes \in Seq(NodeTypes) BY <1>1 DEF KdTypes
  <2>2. /\ nodes' \in Seq(NodeTypes) /\ Len(nodes') = Len(nodes) + 1
        /\ nodes'[Len(nodes) + 1] = new
        /\ \A n \in 1 .. Len(nodes) : nodes'[n] = nodes[n]
    BY <1>2, <1>11, <2>1
  <2>3. 1 .. Len(nodes) + 1 = (1 .. Len(nodes)) \cup {Len(nodes) + 1} BY <1>4
  <2> QED BY <1>4, <2>2, <2>3 DEF NodeIds
<1>13. Frames' = 1 .. N - 1 /\ Frames = 1 .. N BY <1>a, <1>3 DEF Frames
<1>14. \A j \in 1 .. N - 1 : calls[j].node # NoNode /\ calls[j].node \in NodeIds
  <2> TAKE j \in 1 .. N - 1
  <2>1. j \in Frames /\ j # Len(calls) BY <1>a, <1>3
  <2>2. calls[j].node # NoNode BY <1>1, <2>1 DEF CallInv
  <2>3. CallOk(U, calls[j]) BY <1>1, <2>1 DEF CallInv
  <2> QED BY <2>2, <2>3 DEF CallOk
<1>15. Complete' = Complete \cup {me}
  <2>1. ASSUME NEW n \in Complete PROVE n \in Complete'
    BY <1>3, <1>12, <1>13 DEF Complete
  <2>2. me \in Complete'
    BY <1>3, <1>12, <1>13, <1>14 DEF Complete
  <2>3. ASSUME NEW n \in Complete', n # me PROVE n \in Complete
    <3>1. n \in NodeIds /\ \A j \in 1 .. N - 1 : calls[j].node # n
      BY <1>3, <1>12, <1>13, <2>3 DEF Complete
    <3>2. calls[N].node # n BY <1>2, <1>3, <1>4, <3>1 DEF NoNode
    <3>3. \A j \in 1 .. N : j \in 1 .. N - 1 \/ j = N BY <1>3
    <3> QED BY <1>13, <3>1, <3>2, <3>3 DEF Complete
  <2> QED BY <2>1, <2>2, <2>3
<1>16. /\ \A n \in Complete : n \in NodeIds /\ n \in Nat /\ n # me
       /\ \A n \in Complete : V[n] = U[n] /\ G[n] = H[n]
       /\ V[me] = Range(s) /\ G[me] = 0
  BY <1>b, <1>4, <1>12 DEF Complete
<1>17. Leaves' = Leaves \cup {me} /\ me \notin Leaves /\ Leaves \in SUBSET Complete
  BY <1>11, <1>12, <1>15, <1>16 DEF Leaves
<1>18. KdTypes'
  <2>1. parts \in Seq([key : Nat, root : Nat]) BY <1>1 DEF KdTypes
  <2>2. NodeTypes' = NodeTypes BY DEF NodeTypes
  <2>3. /\ keys' \in SUBSET Nat /\ IsFiniteSet(keys')
        /\ \A k \in keys' : Bucket(k)' # {}
    BY <1>1, <1>2, <1>5 DEF KdTypes
  <2> QED BY <1>2, <1>3, <1>5, <1>8, <1>9, <1>12, <2>1, <2>2, <2>3 DEF KdTypes
<1>19. CallInv(V)'
  <2> SUFFICES ASSUME NEW j \in 1 .. N - 1
               PROVE  /\ CallOk(V, calls[j])'
                      /\ calls'[j].node # NoNode /\ ret' # NoNode
                      /\ j < N - 1 =>
                           Range(calls'[j + 1].indices) = Range(Half(calls[j])')
    BY <1>3, <1>13 DEF CallInv
  <2>1. /\ CallOk(U, calls[j]) /\ calls'[j] = calls[j]
        /\ calls[j].node # NoNode /\ calls[j].node \in NodeIds
        /\ j < N => Range(calls[j + 1].indices) = Range(Half(calls[j]))
    BY <1>a, <1>1, <1>3, <1>14 DEF CallInv
  <2>2. j < N - 1 => calls'[j + 1] = calls[j + 1] /\ j < N BY <1>3
  <2>3. CallOk(V, calls[j])'
    BY <1>2, <1>12, <1>15, <1>16, <2>1, FrameKept
  <2>4. Half(calls[j])' = Half(calls[j]) BY <2>1, FrameRigid
  <2> QED BY <1>2, <1>12, <2>1, <2>2, <2>3, <2>4 DEF NoNode
<1>20. StackInv'
  BY <1>1, <1>3, <1>13 DEF StackInv, Pending, RightHalf, Middle
<1>21. WorkInv(V)'
  <2>1. keys # {} /\ ~KdIdle /\ Range(calls[1].indices) = Bucket(Min(keys))
    BY <1>1, <1>2 DEF WorkInv, KdIdle
  <2>2. calls' # <<>> => N - 1 >= 1 /\ N - 1 \in Frames /\ calls'[1] = calls[1]
                         /\ Top' = calls[N - 1] /\ Len(calls') = N - 1
    <3>1. calls' # <<>> => Len(calls') # 0 BY <1>3
    <3> QED BY <1>3, <3>1 DEF Top
  <2>3. V[me] = IF calls' = <<>> THEN Bucket(Min(keys)) ELSE Range(Half(Top'))
    <3>1. CASE calls' = <<>>
      <4>1. N = 1 BY <1>3, <3>1
      <4> QED BY <1>a, <1>3, <1>16, <2>1, <3>1, <4>1
    <3>2. CASE calls' # <<>>
      <4>1. Range(calls[(N - 1) + 1].indices) = Range(Half(calls[N - 1]))
        BY <1>a, <1>1, <1>3, <2>2, <3>2 DEF CallInv
      <4>2. (N - 1) + 1 = N BY <1>3
      <4> QED BY <1>a, <1>3, <1>16, <2>2, <3>2, <4>1, <4>2
    <3> QED BY <3>1, <3>2
  <2>4. calls' # <<>> => Top'.node < me
    <3>1. calls' # <<>> => Top'.node \in NodeIds BY <1>14, <2>2, <1>3
    <3> QED BY <1>4, <3>1 DEF NodeIds
  <2>5. Half(Top)' = Half(Top') BY DEF Half, LeftHalf, RightHalf, Middle
  <2>6. Min(keys') = Min(keys) /\ Bucket(Min(keys))' = Bucket(Min(keys))
    BY <1>2, <1>5
  <2> QED BY <1>2, <1>15, <2>1, <2>2, <2>3, <2>4, <2>5, <2>6 DEF WorkInv
<1>22. TreeInv(V, G)'
  <2>1. \A n \in Complete : NodeInv(V, G, n)'
    <3>1. Complete \subseteq Complete' BY <1>15
    <3>2. \A n \in Complete : nodes'[n] = nodes[n] /\ V[n] = U[n] /\ G[n] = H[n]
      BY <1>12, <1>16
    <3>3. Len(slots') \in Nat /\ Len(slots) <= Len(slots')
      BY <1>4, <1>7, <1>9
    <3>4. \A a \in 1 .. Len(slots) : slots'[a] = slots[a] BY <1>9
    <3>5. KdTypes /\ TreeInv(U, H) /\ input' = input /\ Len(slots) \in Nat
      BY <1>1, <1>2, <1>4
    <3> QED BY <3>1, <3>2, <3>3, <3>4, <3>5, NodesKept
  <2>2. NodeInv(V, G, me)'
    <3>1. Range(s) # {}
      <4>1. 1 \in DOMAIN s BY <1>6 DEF Piece
      <4> QED BY <4>1 DEF Range
    <3>2. new.start * LANES = Len(slots) BY <1>8, <1>11 DEF Aligned
    <3>3. /\ s \in [1 .. Len(s) -> VectorIds]
          /\ \A k, l \in 1 .. Len(s) : s[k] = s[l] => k = l
      BY <1>6 DEF Piece
    <3>4. /\ \A k \in 1 .. Len(s) : s[k] \in Range(s)
          /\ \A i \in Range(s) : \E k \in 1 .. Len(s) : s[k] = i
      BY <3>3 DEF Range
    <3>5. LeafNode(V, G, me)'
      <4>1. /\ \A k \in 1 .. Len(s) : slots'[Len(slots) + k] \in V[me]
            /\ \A i \in V[me] : \E k \in 1 .. Len(s) : slots'[Len(slots) + k] = i
            /\ \A k, l \in 1 .. Len(s) :
                 slots'[Len(slots) + k] = slots'[Len(slots) + l] => k = l
        BY <1>9, <1>16, <3>3, <3>4
      <4>2. /\ nodes'[me].start * LANES = Len(slots) /\ nodes'[me].len = Len(s)
            /\ Len(s) <= KD_LEAF_SIZE /\ G[me] = 0
        BY <1>2, <1>11, <1>12, <1>16, <3>2
      <4> QED BY <1>9, <4>1, <4>2 DEF LeafNode
    <3> QED BY <1>5, <1>7, <1>11, <1>12, <1>16, <3>1, <3>5 DEF NodeInv
  <2> QED BY <1>15, <2>1, <2>2 DEF TreeInv
<1>23. PlacementInv(V)'
  <2>1. Pending(calls[N]) = Range(s) BY <1>a, <1>2, <1>3 DEF Pending
  <2>2. \A m \in Leaves : U[m] \cap Range(s) = {} /\ V[m] = U[m]
    BY <1>1, <1>3, <1>16, <1>17, <2>1 DEF PlacementInv
  <2>3. \A m, n \in Leaves' : m # n => V[m] \cap V[n] = {}
    BY <1>1, <1>16, <1>17, <2>2 DEF PlacementInv
  <2>4. \A m \in Leaves', j \in Frames' : V[m] \cap Pending(calls[j])' = {}
    <3> SUFFICES ASSUME NEW m \in Leaves', NEW j \in 1 .. N - 1
                 PROVE  V[m] \cap Pending(calls'[j]) = {}
      <4>1. \A j : Pending(calls[j])' = Pending(calls'[j])
        BY DEF Pending, RightHalf, Middle
      <4> QED BY <1>13, <4>1
    <3>1. calls'[j] = calls[j] /\ j \in Frames BY <1>3
    <3>2. CASE m = me
      <4>1. j < N /\ j \in Nat BY <1>3
      <4>2. Range(calls[N].indices) \cap Pending(calls[j]) = {}
        BY <1>1, <1>3, <3>1, <4>1 DEF StackInv
      <4> QED BY <1>a, <1>3, <1>16, <3>1, <3>2, <4>2
    <3>3. CASE m \in Leaves
      BY <1>1, <2>2, <3>1, <3>3 DEF PlacementInv
    <3> QED BY <1>17, <3>2, <3>3
  <2>5. \A i : Untouched(i)' <=> Untouched(i)
    BY <1>2, <1>12 DEF Untouched, KdIdle, NoNode
  <2>6. \A i \in Range(s) : ~Untouched(i)
    <3>1. Range(s) \in SUBSET Bucket(Min(keys)) BY <1>a, <1>1, <1>3, OfBucket
    <3>2. ~KdIdle BY <1>2 DEF KdIdle
    <3> QED BY <3>1, <3>2 DEF Untouched, Bucket
  <2>7. \A m \in Leaves' : \A i \in V[m] : ~Untouched(i)'
    BY <1>1, <1>16, <1>17, <2>2, <2>5, <2>6 DEF PlacementInv
  <2>8. ASSUME NEW i \in VectorIds
        PROVE  \/ Untouched(i)'
               \/ \E j \in Frames' : i \in Pending(calls[j])'
               \/ \E m \in Leaves' : i \in V[m]
    <3>1. CASE Untouched(i) BY <2>5, <3>1
    <3>2. CASE \E m \in Leaves : i \in U[m] BY <1>17, <2>2, <3>2
    <3>3. ASSUME NEW j \in Frames, i \in Pending(calls[j])
          PROVE  \/ \E k \in Frames' : i \in Pending(calls[k])'
                 \/ \E m \in Leaves' : i \in V[m]
      <4>1. CASE j = N BY <1>16, <1>17, <2>1, <3>3, <4>1
      <4>2. CASE j # N
        <5>1. j \in 1 .. N - 1 BY <1>3, <1>13, <4>2
        <5>2. Pending(calls[j])' = Pending(calls[j])
          BY <1>3, <5>1 DEF Pending, RightHalf, Middle
        <5> QED BY <1>13, <3>3, <5>1, <5>2
      <4> QED BY <4>1, <4>2
    <3> QED BY <1>1, <3>1, <3>2, <3>3 DEF PlacementInv
  <2> QED BY <1>5, <2>3, <2>4, <2>7, <2>8 DEF PlacementInv
<1>24. PartsInv(V)'
  BY <1>1, <1>2, <1>5, <1>15, <1>16 DEF PartsInv
<1>25. KdInv(V, G)' BY <1>18, <1>19, <1>20, <1>21, <1>22, <1>23, <1>24 DEF KdInv
<1> QED BY <1>25

\* The stack after a call that goes on has called itself.
LEMMA Pushed ==
  ASSUME KdTypes, calls # <<>>, NEW a \in CallTypes, NEW b \in CallTypes,
         calls' = Callers \o <<a, b>>
  PROVE  /\ calls' \in Seq(CallTypes) /\ Len(calls') = Len(calls) + 1
         /\ \A i \in 1 .. Len(calls) - 1 : calls'[i] = calls[i]
         /\ calls'[Len(calls)] = a /\ calls'[Len(calls) + 1] = b
<1>1. PICK c, t, S : c = calls /\ t = calls' /\ S = CallTypes OBVIOUS
<1>2. c \in Seq(S) /\ c # <<>> /\ a \in S /\ b \in S
  BY <1>1 DEF KdTypes
<1>3. t = SubSeq(c, 1, Len(c) - 1) \o <<a, b>> BY <1>1 DEF Callers
<1>4. t \in Seq(S) /\ Len(t) = Len(c) + 1 BY <1>2, <1>3, TopReplaced
<1>5. \A i \in 1 .. Len(c) - 1 : t[i] = c[i] BY <1>2, <1>3, TopReplaced
<1>6. t[Len(c)] = a BY <1>2, <1>3, TopReplaced
<1>7. t[Len(t)] = b BY <1>2, <1>3, TopReplaced
<1> QED BY <1>1, <1>4, <1>5, <1>6, <1>7

\* A call goes on, and calls itself for a part of what it has yet to pass on.
LEMMA PushKeeps ==
  ASSUME NEW U, NEW H, NEW a, NEW b, KdInv(U, H), calls # <<>>,
         calls' = Callers \o <<a, b>>, a \in CallTypes, b \in CallTypes,
         input' = input, keys' = keys, parts' = parts, slots' = slots,
         ret' = NoNode, Complete' = Complete, NodeIds \subseteq NodeIds',
         nodes' \in Seq(NodeTypes),
         \A n \in NodeIds : nodes'[n] = nodes[n],
         CallOk(U, a)', CallOk(U, b)', a.node # NoNode, b.node = NoNode,
         \A j \in 1 .. Len(calls) - 1 : calls[j].node < a.node,
         Range(a.indices) = Range(Top.indices),
         Range(b.indices) = Range(Half(a)),
         Range(b.indices) \in SUBSET Range(Top.indices),
         Range(b.indices) \cap Pending(a) = {},
         Pending(Top) = Range(b.indices) \cup Pending(a)
  PROVE  KdInv(U, H)'
<1>a. PICK N, s : N = Len(calls) /\ s = Range(Top.indices) OBVIOUS
<1>1. /\ KdTypes /\ CallInv(U) /\ StackInv /\ WorkInv(U)
      /\ TreeInv(U, H) /\ PlacementInv(U) /\ PartsInv(U)
  BY DEF KdInv
<1>2. /\ N \in Nat \ {0} /\ N \in Frames /\ Top = calls[N]
      /\ \A j \in 1 .. N - 1 : j \in Frames
      /\ Frames = 1 .. N /\ s = Range(calls[N].indices)
  BY <1>a, <1>1, TopIs DEF Frames
<1>3. /\ calls' \in Seq(CallTypes) /\ Len(calls') = N + 1
      /\ \A j \in 1 .. N - 1 : calls'[j] = calls[j]
      /\ calls'[N] = a /\ calls'[N + 1] = b
  <2>1. KdTypes /\ calls # <<>> /\ calls' = Callers \o <<a, b>> BY <1>1
  <2> QED BY <1>a, <2>1, Pushed
<1>4. Frames' = 1 .. N + 1 /\ calls' # <<>> /\ 1 \in Frames'
  BY <1>2, <1>3 DEF Frames
<1>5. /\ VectorIds' = VectorIds /\ CallTypes' = CallTypes
      /\ \A k : Bucket(k)' = Bucket(k)
  BY SameInput
<1>6. \A j \in 1 .. N - 1 : calls[j].node # NoNode /\ calls[j].node \in NodeIds
  BY <1>a, <1>1, <1>2, LeafSize DEF CallInv, CallOk
<1>7. \A j \in 1 .. N - 1 : /\ Half(calls[j])' = Half(calls[j])
                            /\ Pending(calls[j])' = Pending(calls[j])
  BY <1>3, FrameRigid
<1>8. /\ Half(calls[N])' = Half(a) /\ Pending(calls[N])' = Pending(a)
      /\ Half(calls[N + 1])' = Half(b) /\ Pending(calls[N + 1])' = Pending(b)
  BY <1>3 DEF Half, Pending, LeftHalf, RightHalf, Middle
<1>9. \A j \in 1 .. N + 1 : j \in 1 .. N - 1 \/ j = N \/ j = N + 1 BY <1>2
<1>10. KdTypes'
  <2>1. NodeTypes' = NodeTypes BY DEF NodeTypes
  <2>2. /\ parts \in Seq([key : Nat, root : Nat]) /\ ret' \in Nat
        /\ input' \in Inputs /\ slots' \in Seq(VectorIds \cup {PAD})
    BY <1>1 DEF KdTypes, NoNode
  <2>3. Aligned(slots') BY <1>1 DEF KdTypes, Aligned
  <2>4. /\ keys' \in SUBSET Nat /\ IsFiniteSet(keys')
        /\ \A k \in keys' : Bucket(k)' # {}
    BY <1>1, <1>5 DEF KdTypes
  <2> QED BY <1>3, <1>5, <2>1, <2>2, <2>3, <2>4 DEF KdTypes
<1>11. CallInv(U)'
  <2> SUFFICES ASSUME NEW j \in 1 .. N + 1
               PROVE  /\ CallOk(U, calls[j])'
                      /\ calls'[j].node = NoNode <=> j = N + 1
                      /\ j < N + 1 =>
                           Range(calls'[j + 1].indices) = Range(Half(calls[j])')
    BY <1>3, <1>4 DEF CallInv
  <2>1. CASE j \in 1 .. N - 1
    <3>1. /\ CallOk(U, calls[j]) /\ calls'[j] = calls[j]
          /\ calls[j].node # NoNode /\ calls[j].node \in NodeIds
          /\ Range(calls[j + 1].indices) = Range(Half(calls[j]))
      BY <1>a, <1>1, <1>2, <1>3, <1>6, <2>1 DEF CallInv
    <3>2. CallOk(U, calls[j])' BY <3>1, FrameKept
    <3>3. Range(calls'[j + 1].indices) = Range(calls[j + 1].indices)
      <4>1. CASE j + 1 = N BY <1>2, <1>3, <4>1
      <4>2. CASE j + 1 # N
        <5>1. j + 1 \in 1 .. N - 1 BY <1>2, <2>1, <4>2
        <5> QED BY <1>3, <5>1
      <4> QED BY <4>1, <4>2
    <3>4. j # N + 1 BY <1>2, <2>1
    <3>5. Half(calls[j])' = Half(calls[j]) BY <1>7, <2>1
    <3> QED BY <3>1, <3>2, <3>3, <3>4, <3>5
  <2>2. CASE j = N
    <3>1. CallOk(U, calls[N])' BY <1>3 DEF CallOk
    <3> QED BY <1>2, <1>3, <1>8, <2>2, <3>1
  <2>3. CASE j = N + 1
    <3>1. CallOk(U, calls[N + 1])' BY <1>3 DEF CallOk
    <3> QED BY <1>2, <1>3, <2>3, <3>1
  <2> QED BY <1>9, <2>1, <2>2, <2>3
<1>12. StackInv'
  <2> SUFFICES ASSUME NEW j \in 1 .. N + 1, NEW k \in 1 .. N + 1, j < k
               PROVE  /\ Range(calls'[k].indices) \cap Pending(calls[j])' = {}
                      /\ Range(calls'[k].indices) \subseteq Range(calls'[j].indices)
                      /\ calls'[k].node # NoNode => calls'[j].node < calls'[k].node
    BY <1>4 DEF StackInv
  <2>1. CASE j \in 1 .. N - 1 /\ k \in 1 .. N - 1
    <3>1. /\ Range(calls[k].indices) \cap Pending(calls[j]) = {}
          /\ Range(calls[k].indices) \subseteq Range(calls[j].indices)
          /\ calls[k].node # NoNode => calls[j].node < calls[k].node
      BY <1>1, <1>2, <2>1 DEF StackInv
    <3> QED BY <1>3, <1>7, <2>1, <3>1
  <2>2. CASE j \in 1 .. N - 1 /\ k \in {N, N + 1}
    <3>1. /\ s \cap Pending(calls[j]) = {} /\ s \subseteq Range(calls[j].indices)
      <4>1. j \in Frames /\ N \in Frames /\ j < N BY <1>2, <2>2
      <4>2. /\ Range(calls[N].indices) \cap Pending(calls[j]) = {}
            /\ Range(calls[N].indices) \subseteq Range(calls[j].indices)
        BY <1>1, <4>1 DEF StackInv
      <4> QED BY <1>2, <4>2
    <3>2. Range(calls'[k].indices) \subseteq s BY <1>a, <1>3, <2>2
    <3>3. calls[j].node < a.node BY <1>a, <2>2
    <3> QED BY <1>3, <1>7, <2>2, <3>1, <3>2, <3>3
  <2>3. CASE j = N /\ k = N + 1
    BY <1>3, <1>8, <2>3
  <2>4. \/ j \in 1 .. N - 1 /\ k \in 1 .. N - 1
        \/ j \in 1 .. N - 1 /\ k \in {N, N + 1}
        \/ j = N /\ k = N + 1
    BY <1>2
  <2> QED BY <2>1, <2>2, <2>3, <2>4
<1>13. WorkInv(U)'
  <2>1. /\ keys # {} /\ Range(calls[1].indices) = Bucket(Min(keys))
    BY <1>1 DEF WorkInv, KdIdle
  <2>2. Range(calls'[1].indices) = Range(calls[1].indices)
    <3>1. CASE N = 1 BY <1>2, <1>3, <3>1
    <3>2. CASE N # 1
      <4>1. 1 \in 1 .. N - 1 BY <1>2, <3>2
      <4> QED BY <1>3, <4>1
    <3> QED BY <3>1, <3>2
  <2>3. Min(keys') = Min(keys) /\ Bucket(Min(keys))' = Bucket(Min(keys))
    BY <1>5
  <2> QED BY <2>1, <2>2, <2>3 DEF WorkInv
<1>14. TreeInv(U, H)'
  <2>1. Len(slots) \in Nat /\ Len(slots') \in Nat /\ Len(slots) <= Len(slots')
    BY <1>1, FrameTypes
  <2>2. \A n \in Complete : nodes'[n] = nodes[n] /\ U[n] = U[n] /\ H[n] = H[n]
    BY DEF Complete
  <2>4. \A x \in 1 .. Len(slots) : slots'[x] = slots[x] OBVIOUS
  <2>5. Complete \subseteq Complete' OBVIOUS
  <2>6. KdTypes /\ TreeInv(U, H) BY <1>1
  <2>3. \A n \in Complete : NodeInv(U, H, n)'
    BY <2>1, <2>2, <2>4, <2>5, <2>6, NodesKept
  <2> QED BY <2>3 DEF TreeInv
<1>15. PlacementInv(U)'
  <2>1. Leaves' = Leaves
    <3>1. \A n \in Complete : nodes'[n] = nodes[n] BY DEF Complete
    <3> QED BY <3>1 DEF Leaves
  <2>2. ASSUME NEW m \in Leaves, NEW j \in 1 .. N + 1
        PROVE  U[m] \cap Pending(calls[j])' = {}
    <3>1. U[m] \cap Pending(calls[N]) = {} BY <1>1, <1>2 DEF PlacementInv
    <3>2. CASE j \in 1 .. N - 1
      <4>1. U[m] \cap Pending(calls[j]) = {} BY <1>1, <1>2, <3>2 DEF PlacementInv
      <4> QED BY <1>7, <3>2, <4>1
    <3>3. CASE j = N BY <1>2, <1>8, <3>1, <3>3
    <3>4. CASE j = N + 1
      <4>1. Pending(b) = Range(b.indices) BY DEF Pending
      <4> QED BY <1>2, <1>8, <3>1, <3>4, <4>1
    <3> QED BY <1>9, <3>2, <3>3, <3>4
  <2>3. \A i : Untouched(i)' <=> Untouched(i)
    BY <1>4 DEF Untouched, KdIdle
  <2>4. ASSUME NEW i \in VectorIds
        PROVE  \/ Untouched(i)'
               \/ \E j \in Frames' : i \in Pending(calls[j])'
               \/ \E m \in Leaves' : i \in U[m]
    <3>1. CASE Untouched(i) BY <2>3, <3>1
    <3>2. CASE \E m \in Leaves : i \in U[m] BY <2>1, <3>2
    <3>3. ASSUME NEW j \in Frames, i \in Pending(calls[j])
          PROVE  \E k \in 1 .. N + 1 : i \in Pending(calls[k])'
      <4>1. CASE j \in 1 .. N - 1
        <5>1. j \in 1 .. N + 1 BY <1>2, <4>1
        <5> QED BY <1>7, <3>3, <4>1, <5>1
      <4>2. CASE j = N
        <5>1. i \in Range(b.indices) \/ i \in Pending(a) BY <1>2, <3>3, <4>2
        <5>2. Pending(b) = Range(b.indices) BY DEF Pending
        <5>3. N \in 1 .. N + 1 /\ N + 1 \in 1 .. N + 1 BY <1>2
        <5> QED BY <1>8, <5>1, <5>2, <5>3
      <4>3. j \in 1 .. N - 1 \/ j = N BY <1>2
      <4> QED BY <4>1, <4>2, <4>3
    <3> QED BY <1>1, <1>4, <3>1, <3>2, <3>3 DEF PlacementInv
  <2>5. \A m, n \in Leaves' : m # n => U[m] \cap U[n] = {}
    BY <1>1, <2>1 DEF PlacementInv
  <2>6. \A m \in Leaves' : \A i \in U[m] : ~Untouched(i)'
    BY <1>1, <2>1, <2>3 DEF PlacementInv
  <2>7. \A m \in Leaves', j \in Frames' : U[m] \cap Pending(calls[j])' = {}
    BY <1>4, <2>1, <2>2
  <2> QED BY <1>5, <2>4, <2>5, <2>6, <2>7 DEF PlacementInv
<1>16. PartsInv(U)'
  BY <1>1, <1>5 DEF PartsInv
<1> QED BY <1>10, <1>11, <1>12, <1>13, <1>14, <1>15, <1>16 DEF KdInv

\* A call puts its node into the table and calls itself for the left half.
LEMMA SplitStep ==
  ASSUME NEW U, NEW H, KdInv(U, H), Split
  PROVE  KdInv(U, H)'
<1>a. PICK N, s, me, new :
        N = Len(calls) /\ s = Top.indices /\ me = Me /\ new = NewNode(s, 0)
  OBVIOUS
<1>b. PICK t : t = SortedBy(s, WidestDim(new.box)) OBVIOUS
<1>c. PICK a, b : /\ a = [indices |-> t, node |-> me, left |-> NoNode]
                  /\ b = Call(LeftHalf(t))
  OBVIOUS
<1>1. /\ KdTypes /\ CallInv(U) /\ StackInv /\ WorkInv(U)
      /\ TreeInv(U, H) /\ PlacementInv(U) /\ PartsInv(U)
  BY DEF KdInv
<1>2. /\ calls # <<>> /\ ret = NoNode /\ Top.node = NoNode
      /\ Len(s) > KD_LEAF_SIZE
      /\ nodes' = Append(nodes, new) /\ calls' = Callers \o <<a, b>>
      /\ input' = input /\ keys' = keys /\ parts' = parts /\ slots' = slots
      /\ ret' = NoNode
  BY <1>a, <1>b, <1>c DEF Split, Entered
<1>3. /\ N \in Nat \ {0} /\ N \in Frames /\ Top = calls[N]
      /\ \A j \in 1 .. N - 1 : j \in Frames
  BY <1>a, <1>1, <1>2, TopIs
<1>4. /\ Len(nodes) \in Nat /\ me = Len(nodes) + 1
      /\ \A n \in NodeIds : n \in Nat \ {0}
  BY <1>a, <1>1, FrameTypes DEF Me
<1>5. /\ VectorIds' = VectorIds
      /\ \A S : Bounds(S)' = Bounds(S)
      /\ \A u : Piece(u)' = Piece(u)
  BY <1>2, SameInput
<1>6. Piece(s) /\ s # <<>>
  BY <1>a, <1>1, <1>3 DEF CallInv, CallOk
<1>7. /\ Len(s) \in Nat /\ Range(s) \in SUBSET VectorIds /\ Range(s) # {}
  <2>1. Len(s) \in Nat /\ Range(s) \in SUBSET VectorIds BY <1>6, PieceSize
  <2>2. 1 \in DOMAIN s BY <1>6 DEF Piece
  <2> QED BY <2>1, <2>2 DEF Range
<1>8. input \in Inputs BY <1>1 DEF KdTypes
<1>9. \A d \in Dims : Bounds(Range(s)).lo[d] \in Int /\ Bounds(Range(s)).hi[d] \in Int
  <2>1. PICK i \in Range(s) : TRUE BY <1>7
  <2> QED BY <1>7, <1>8, <2>1, BoundsEnclose
<1>10. /\ new.left = NoNode /\ new.box = Bounds(Range(s)) /\ new \in NodeTypes
  <2>1. Bounds(Range(s)) \in [lo : [Dims -> Int], hi : [Dims -> Int]]
    BY <1>9 DEF Bounds
  <2> QED BY <1>a, <1>7, <2>1 DEF NewNode, NodeTypes, NoNode
<1>11. Piece(t) /\ Len(t) = Len(s) /\ Range(t) = Range(s)
  <2>1. WidestDim(new.box) \in Dims BY <1>9, <1>10, WidestIs
  <2> QED BY <1>b, <1>6, <1>8, <2>1, SortedKeeps
<1>12. /\ Piece(LeftHalf(t)) /\ Range(LeftHalf(t)) # {}
       /\ Range(LeftHalf(t)) \cup Range(RightHalf(t)) = Range(t)
       /\ Range(LeftHalf(t)) \cap Range(RightHalf(t)) = {}
  <2>1. Len(t) > 1 BY <1>2, <1>7, <1>11, LeafSize
  <2> QED BY <1>11, <2>1, Halves
<1>13. /\ nodes' \in Seq(NodeTypes) /\ nodes'[me] = new
       /\ \A n \in NodeIds : nodes'[n] = nodes[n]
       /\ NodeIds' = NodeIds \cup {me} /\ me \notin NodeIds /\ me \in Nat \ {0}
  <2>1. nodes \in Seq(NodeTypes) BY <1>1 DEF KdTypes
  <2>2. /\ nodes' \in Seq(NodeTypes) /\ Len(nodes') = Len(nodes) + 1
        /\ nodes'[Len(nodes) + 1] = new
        /\ \A n \in 1 .. Len(nodes) : nodes'[n] = nodes[n]
    BY <1>2, <1>10, <2>1
  <2>3. 1 .. Len(nodes) + 1 = (1 .. Len(nodes)) \cup {Len(nodes) + 1} BY <1>4
  <2> QED BY <1>4, <2>2, <2>3 DEF NodeIds
<1>14. /\ a.indices = t /\ a.node = me /\ a.left = NoNode /\ a \in CallTypes
       /\ b.indices = LeftHalf(t) /\ b.node = NoNode /\ b.left = NoNode
       /\ b \in CallTypes
  <2>1. t \in Seq(VectorIds) /\ LeftHalf(t) \in Seq(VectorIds)
    BY <1>11, <1>12 DEF Piece
  <2> QED BY <1>c, <1>13, <2>1 DEF Call, CallTypes, NoNode
<1>15. /\ Len(calls') = N + 1 /\ calls'[N] = a /\ calls'[N + 1] = b
       /\ \A j \in 1 .. N - 1 : calls'[j] = calls[j]
  <2>1. KdTypes /\ calls # <<>> /\ calls' = Callers \o <<a, b>> BY <1>1, <1>2
  <2> QED BY <1>a, <1>14, <2>1, Pushed
<1>16. Frames' = 1 .. N + 1 /\ Frames = 1 .. N BY <1>a, <1>15 DEF Frames
<1>17. \A j \in 1 .. N - 1 : calls[j].node \in NodeIds
  BY <1>a, <1>1, <1>3, LeafSize DEF CallInv, CallOk
<1>18. Complete' = Complete
  <2>1. ASSUME NEW n \in Complete PROVE n \in Complete'
    <3>1. n \in NodeIds /\ \A j \in 1 .. N : calls[j].node # n
      BY <1>16 DEF Complete
    <3>2. n # me /\ n # NoNode BY <1>4, <1>13, <3>1 DEF NoNode
    <3>3. ASSUME NEW j \in 1 .. N + 1 PROVE calls'[j].node # n
      <4>1. CASE j \in 1 .. N - 1
        <5>1. j \in 1 .. N BY <1>3, <4>1
        <5> QED BY <1>15, <3>1, <4>1, <5>1
      <4>2. CASE j = N \/ j = N + 1 BY <1>14, <1>15, <3>2, <4>2
      <4> QED BY <1>3, <4>1, <4>2
    <3> QED BY <1>13, <1>16, <3>1, <3>3 DEF Complete
  <2>2. ASSUME NEW n \in Complete' PROVE n \in Complete
    <3>1. n \in NodeIds' /\ \A j \in 1 .. N + 1 : calls'[j].node # n
      BY <1>16 DEF Complete
    <3>2. N \in 1 .. N + 1 BY <1>3
    <3>3. n \in NodeIds BY <1>13, <1>14, <1>15, <3>1, <3>2
    <3>4. ASSUME NEW j \in 1 .. N PROVE calls[j].node # n
      <4>1. CASE j = N BY <1>2, <1>3, <1>4, <3>3, <4>1 DEF NoNode
      <4>2. CASE j # N
        <5>1. j \in 1 .. N - 1 /\ j \in 1 .. N + 1 BY <1>3, <4>2
        <5> QED BY <1>15, <3>1, <5>1
      <4> QED BY <4>1, <4>2
    <3> QED BY <1>16, <3>3, <3>4 DEF Complete
  <2> QED BY <2>1, <2>2
<1>19. CallOk(U, a)'
  <2>1. Piece(t)' /\ t # <<>>
    <3>1. t # <<>> BY <1>2, <1>7, <1>11, LeafSize
    <3> QED BY <1>5, <1>11, <3>1
  <2>2. me \in NodeIds' /\ nodes'[me].box = Bounds(Range(t))'
    BY <1>5, <1>10, <1>11, <1>13
  <2> QED BY <1>2, <1>11, <1>14, <2>1, <2>2 DEF CallOk
<1>20. CallOk(U, b)'
  <2>1. Piece(LeftHalf(t))' /\ LeftHalf(t)' = LeftHalf(t)
    BY <1>5, <1>12 DEF LeftHalf, Middle
  <2>2. LeftHalf(t) # <<>> BY <1>12 DEF Range
  <2> QED BY <1>14, <2>1, <2>2 DEF CallOk
<1>21. /\ a.node # NoNode /\ b.node = NoNode
       /\ \A j \in 1 .. Len(calls) - 1 : calls[j].node < a.node
  <2>1. \A n \in NodeIds : n < me BY <1>4 DEF NodeIds
  <2> QED BY <1>a, <1>13, <1>14, <1>17, <2>1 DEF NoNode
<1>22. /\ Range(a.indices) = Range(Top.indices)
       /\ Range(b.indices) = Range(Half(a))
       /\ Range(b.indices) \in SUBSET Range(Top.indices)
       /\ Range(b.indices) \cap Pending(a) = {}
       /\ Pending(Top) = Range(b.indices) \cup Pending(a)
  <2>1. Half(a) = LeftHalf(t) BY <1>14 DEF Half
  <2>2. Pending(a) = Range(RightHalf(t)) BY <1>13, <1>14 DEF Pending, NoNode
  <2>3. Pending(Top) = Range(s) BY <1>a, <1>2 DEF Pending
  <2> QED BY <1>a, <1>11, <1>12, <1>14, <2>1, <2>2, <2>3
<1>23. NodeIds \subseteq NodeIds' BY <1>13
<1> QED
  BY <1>2, <1>13, <1>14, <1>18, <1>19, <1>20, <1>21, <1>22, <1>23, PushKeeps

\* A call has its left child and calls itself for the right half.
LEMMA LeftBuiltStep ==
  ASSUME NEW U, NEW H, KdInv(U, H), LeftBuilt
  PROVE  KdInv(U, H)'
<1>a. PICK N, s, top, got :
        N = Len(calls) /\ s = Top.indices /\ top = Top /\ got = ret
  OBVIOUS
<1>c. PICK a, b : a = [top EXCEPT !.left = got] /\ b = Call(RightHalf(s))
  OBVIOUS
<1>1. /\ KdTypes /\ CallInv(U) /\ StackInv /\ WorkInv(U)
      /\ TreeInv(U, H) /\ PlacementInv(U) /\ PartsInv(U)
  BY DEF KdInv
<1>2. /\ calls # <<>> /\ ret # NoNode /\ Top.left = NoNode
      /\ calls' = Callers \o <<a, b>> /\ nodes' = nodes
      /\ input' = input /\ keys' = keys /\ parts' = parts /\ slots' = slots
      /\ ret' = NoNode
  BY <1>a, <1>c DEF LeftBuilt, Returned
<1>3. /\ N \in Nat \ {0} /\ N \in Frames /\ top = calls[N] /\ top \in CallTypes
      /\ \A j \in 1 .. N - 1 : j \in Frames
  BY <1>a, <1>1, <1>2, TopIs
<1>4. /\ \A n \in NodeIds : n \in Nat \ {0}
  BY <1>1, FrameTypes
<1>5. /\ VectorIds' = VectorIds /\ NodeIds' = NodeIds
      /\ \A S : Bounds(S)' = Bounds(S)
      /\ \A u : Piece(u)' = Piece(u)
  BY <1>2, SameInput DEF NodeIds
<1>6. CallOk(U, top) /\ top.node # NoNode
  BY <1>1, <1>2, <1>3 DEF CallInv
<1>7. /\ Piece(s) /\ s # <<>> /\ top.node \in NodeIds
      /\ Len(s) > KD_LEAF_SIZE /\ nodes[top.node].box = Bounds(Range(s))
      /\ s = top.indices /\ top.left = NoNode
  BY <1>a, <1>2, <1>6 DEF CallOk
<1>8. Len(s) \in Nat BY <1>7, PieceSize
<1>9. got \in Complete /\ U[got] = Range(LeftHalf(s)) /\ top.node < got
  BY <1>a, <1>1, <1>2 DEF WorkInv, Half
<1>12. /\ Piece(RightHalf(s)) /\ Range(RightHalf(s)) # {}
       /\ Range(RightHalf(s)) \in SUBSET Range(s)
  <2>1. Len(s) > 1 BY <1>7, <1>8, LeafSize
  <2> QED BY <1>7, <2>1, Halves
<1>13. got \in Nat /\ got # NoNode BY <1>a, <1>1, <1>2 DEF KdTypes
<1>14. /\ a.indices = s /\ a.node = top.node /\ a.left = got /\ a \in CallTypes
       /\ b.indices = RightHalf(s) /\ b.node = NoNode /\ b.left = NoNode
       /\ b \in CallTypes
  <2>1. RightHalf(s) \in Seq(VectorIds) BY <1>12 DEF Piece
  <2>2. /\ a.indices = s /\ a.node = top.node /\ a.left = got /\ a \in CallTypes
    BY <1>c, <1>3, <1>7, <1>13 DEF CallTypes
  <2>3. /\ b.indices = RightHalf(s) /\ b.node = NoNode /\ b.left = NoNode
        /\ b \in CallTypes
    BY <1>c, <2>1 DEF Call, CallTypes, NoNode
  <2> QED BY <2>2, <2>3
<1>15. /\ Len(calls') = N + 1 /\ calls'[N] = a /\ calls'[N + 1] = b
       /\ \A j \in 1 .. N - 1 : calls'[j] = calls[j]
  <2>1. KdTypes /\ calls # <<>> /\ calls' = Callers \o <<a, b>> BY <1>1, <1>2
  <2> QED BY <1>a, <1>14, <2>1, Pushed
<1>16. Frames' = 1 .. N + 1 /\ Frames = 1 .. N BY <1>a, <1>15 DEF Frames
<1>18. Complete' = Complete
  <2>1. ASSUME NEW n \in Complete PROVE n \in Complete'
    <3>1. n \in NodeIds /\ \A j \in 1 .. N : calls[j].node # n
      BY <1>16 DEF Complete
    <3>2. n # NoNode BY <1>4, <3>1 DEF NoNode
    <3>3. ASSUME NEW j \in 1 .. N + 1 PROVE calls'[j].node # n
      <4>1. CASE j \in 1 .. N - 1
        <5>1. j \in 1 .. N BY <1>3, <4>1
        <5> QED BY <1>15, <3>1, <4>1, <5>1
      <4>2. CASE j = N
        <5>1. N \in 1 .. N BY <1>3
        <5> QED BY <1>3, <1>14, <1>15, <3>1, <4>2, <5>1
      <4>3. CASE j = N + 1 BY <1>14, <1>15, <3>2, <4>3
      <4> QED BY <1>3, <4>1, <4>2, <4>3
    <3> QED BY <1>5, <1>16, <3>1, <3>3 DEF Complete
  <2>2. ASSUME NEW n \in Complete' PROVE n \in Complete
    <3>1. n \in NodeIds' /\ \A j \in 1 .. N + 1 : calls'[j].node # n
      BY <1>16 DEF Complete
    <3>4. ASSUME NEW j \in 1 .. N PROVE calls[j].node # n
      <4>1. CASE j = N
        <5>1. N \in 1 .. N + 1 BY <1>3
        <5> QED BY <1>3, <1>14, <1>15, <3>1, <4>1, <5>1
      <4>2. CASE j # N
        <5>1. j \in 1 .. N - 1 /\ j \in 1 .. N + 1 BY <1>3, <4>2
        <5> QED BY <1>15, <3>1, <5>1
      <4> QED BY <4>1, <4>2
    <3> QED BY <1>5, <1>16, <3>1, <3>4 DEF Complete
  <2> QED BY <2>1, <2>2
<1>19. CallOk(U, a)'
  <2>1. Piece(s)' /\ LeftHalf(s)' = LeftHalf(s)
    BY <1>5, <1>7 DEF LeftHalf, Middle
  <2>2. nodes'[top.node].box = Bounds(Range(s))' BY <1>2, <1>5, <1>7
  <2>3. got \in Complete' BY <1>9, <1>18
  <2> QED BY <1>5, <1>6, <1>7, <1>9, <1>14, <2>1, <2>2, <2>3 DEF CallOk
<1>20. CallOk(U, b)'
  <2>1. Piece(RightHalf(s))' BY <1>5, <1>12
  <2>2. RightHalf(s) # <<>> BY <1>12 DEF Range
  <2> QED BY <1>14, <2>1, <2>2 DEF CallOk
<1>21. \A j \in 1 .. Len(calls) - 1 : calls[j].node < a.node
  <2> SUFFICES ASSUME NEW j \in 1 .. N - 1 PROVE calls[j].node < top.node
    BY <1>a, <1>14
  <2>1. j \in Frames /\ j < N BY <1>3
  <2> QED BY <1>1, <1>3, <1>6, <2>1 DEF StackInv
<1>22. /\ Range(a.indices) = Range(Top.indices)
       /\ Range(b.indices) = Range(Half(a))
       /\ Range(b.indices) \in SUBSET Range(Top.indices)
       /\ Range(b.indices) \cap Pending(a) = {}
       /\ Pending(Top) = Range(b.indices) \cup Pending(a)
  <2>1. Half(a) = RightHalf(s) BY <1>13, <1>14 DEF Half
  <2>2. Pending(a) = {} BY <1>6, <1>13, <1>14 DEF Pending
  <2>3. Pending(Top) = Range(RightHalf(s)) BY <1>a, <1>6, <1>7 DEF Pending
  <2> QED BY <1>a, <1>12, <1>14, <2>1, <2>2, <2>3
<1>23. /\ NodeIds \subseteq NodeIds' /\ nodes' \in Seq(NodeTypes)
       /\ \A n \in NodeIds : nodes'[n] = nodes[n]
       /\ a.node # NoNode /\ b.node = NoNode
  BY <1>1, <1>2, <1>5, <1>6, <1>14 DEF KdTypes
<1> QED
  BY <1>2, <1>14, <1>18, <1>19, <1>20, <1>21, <1>22, <1>23, PushKeeps

\* A parent of children that are shallow and of even size is shallow.
LEMMA Shallow ==
  ASSUME NEW h \in Nat, NEW c \in Nat, NEW n \in Nat, n > KD_LEAF_SIZE,
         2 * c <= n + 1, h # 0 => KD_LEAF_SIZE * 2 ^ (h - 1) < c
  PROVE  KD_LEAF_SIZE * 2 ^ h < n
<1>1. KD_LEAF_SIZE \in Nat \ {0} BY LeafSize
<1>2. CASE h = 0
  <2>1. KD_LEAF_SIZE * 2 ^ h = KD_LEAF_SIZE BY <1>1, <1>2, PowerZero
  <2> QED BY <2>1
<1>3. CASE h # 0
  <2>1. PICK g \in Nat : g = h - 1 /\ h = g + 1
    <3>1. h - 1 \in Nat /\ h = (h - 1) + 1 BY <1>3
    <3> QED BY <3>1
  <2>2. PICK p \in Nat : p = 2 ^ g /\ 2 ^ h = 2 * p BY <2>1, PowerNext
  <2>3. KD_LEAF_SIZE * p < c BY <1>3, <2>1, <2>2
  <2>4. PICK x \in Nat : x = KD_LEAF_SIZE * p BY <1>1
  <2>5. KD_LEAF_SIZE * (2 * p) = 2 * x BY <1>1, <2>4
  <2>6. 2 * x < n BY <2>3, <2>4
  <2> QED BY <2>2, <2>5, <2>6
<1> QED BY <1>2, <1>3

\* The larger of two numbers.
LEMMA LargerOf ==
  ASSUME NEW x \in Nat, NEW y \in Nat
  PROVE  Max({x, y}) \in {x, y} /\ x <= Max({x, y}) /\ y <= Max({x, y})
<1>1. IsFiniteSet({x} \cup {y})
  BY FS_Singleton, FS_Union
<1>2. {x} \cup {y} = {x, y} /\ {x, y} \in SUBSET Int /\ {x, y} # {} OBVIOUS
<1> QED BY <1>1, <1>2, Extremes

\* The height of a complete node and its size.
LEMMA ChildIs ==
  ASSUME NEW U, NEW H, TreeInv(U, H), NEW c \in Complete
  PROVE  /\ H[c] \in Nat /\ nodes[c].len = Cardinality(U[c])
         /\ H[c] # 0 => KD_LEAF_SIZE * 2 ^ (H[c] - 1) < nodes[c].len
<1>1. NodeInv(U, H, c) BY DEF TreeInv
<1>2. CASE nodes[c].left = NoNode BY <1>1, <1>2 DEF NodeInv, LeafNode
<1>3. CASE nodes[c].left # NoNode BY <1>1, <1>3 DEF NodeInv, InnerNode
<1> QED BY <1>2, <1>3

\* A call has both children and is done.
LEMMA RightBuiltStep ==
  ASSUME NEW U, NEW H, KdInv(U, H), RightBuilt
  PROVE  \E V, G : KdInv(V, G)'
<1>a. PICK N, s, top, me, l, r :
        /\ N = Len(calls) /\ s = Top.indices /\ top = Top /\ me = Top.node
        /\ l = Top.left /\ r = ret
  OBVIOUS
<1>b. PICK V, G :
        /\ V = [n \in Nat |-> IF n = me THEN U[l] \cup U[r] ELSE U[n]]
        /\ G = [n \in Nat |-> IF n = me THEN 1 + Max({H[l], H[r]}) ELSE H[n]]
  OBVIOUS
<1>c. PICK new : new = [nodes[me] EXCEPT !.left = l, !.right = r,
                           !.start = nodes[l].start,
                           !.len = nodes[l].len + nodes[r].len]
  OBVIOUS
<1>1. /\ KdTypes /\ CallInv(U) /\ StackInv /\ WorkInv(U)
      /\ TreeInv(U, H) /\ PlacementInv(U) /\ PartsInv(U)
  BY DEF KdInv
<1>2. /\ calls # <<>> /\ r # NoNode /\ l # NoNode /\ ret # NoNode
      /\ nodes' = [nodes EXCEPT ![me] = new] /\ slots' = slots
      /\ ret' = me /\ calls' = Callers
      /\ input' = input /\ keys' = keys /\ parts' = parts
  BY <1>a, <1>c DEF RightBuilt, Returned
<1>3. /\ N \in Nat \ {0} /\ N \in Frames /\ top = calls[N] /\ top \in CallTypes
      /\ calls' \in Seq(CallTypes) /\ Len(calls') = N - 1
      /\ \A j \in 1 .. N - 1 : j \in Frames /\ calls'[j] = calls[j]
  BY <1>a, <1>1, <1>2, TopIs
<1>4. /\ Len(nodes) \in Nat /\ Len(slots) \in Nat
      /\ \A n \in NodeIds : nodes[n] \in NodeTypes /\ n \in Nat \ {0}
  BY <1>1, FrameTypes
<1>5. /\ VectorIds' = VectorIds /\ CallTypes' = CallTypes
      /\ \A S : Bounds(S)' = Bounds(S)
      /\ \A k : Bucket(k)' = Bucket(k)
      /\ \A t : Piece(t)' = Piece(t)
  BY <1>2, SameInput
<1>6. CallOk(U, top) /\ top.node # NoNode
  BY <1>1, <1>2, <1>3 DEF CallInv
<1>7. /\ Piece(s) /\ s # <<>> /\ me \in NodeIds /\ me # NoNode
      /\ Len(s) > KD_LEAF_SIZE /\ nodes[me].box = Bounds(Range(s))
      /\ l \in Complete /\ l > me /\ U[l] = Range(LeftHalf(s))
      /\ s = top.indices /\ me = top.node /\ l = top.left
  BY <1>a, <1>2, <1>6 DEF CallOk
<1>8. r \in Complete /\ me < r /\ U[r] = Range(RightHalf(s))
  BY <1>a, <1>1, <1>2 DEF WorkInv, Half
<1>9. /\ Len(s) \in Nat /\ Range(s) \in SUBSET VectorIds
      /\ Cardinality(Range(s)) = Len(s)
  BY <1>7, PieceSize
<1>10. /\ Piece(LeftHalf(s)) /\ Piece(RightHalf(s))
       /\ Len(LeftHalf(s)) = Len(s) \div 2
       /\ Len(RightHalf(s)) = Len(s) - Len(s) \div 2
       /\ U[l] \cup U[r] = Range(s) /\ U[l] \cap U[r] = {} /\ U[l] # {}
  <2>1. Len(s) > 1 BY <1>7, <1>9, LeafSize
  <2> QED BY <1>7, <1>8, <2>1, Halves
<1>11. /\ nodes[l].len = Len(s) \div 2 /\ nodes[r].len = Len(s) - Len(s) \div 2
       /\ H[l] \in Nat /\ H[r] \in Nat
       /\ H[l] # 0 => KD_LEAF_SIZE * 2 ^ (H[l] - 1) < nodes[l].len
       /\ H[r] # 0 => KD_LEAF_SIZE * 2 ^ (H[r] - 1) < nodes[r].len
  <2>1. /\ H[l] \in Nat /\ nodes[l].len = Cardinality(U[l])
        /\ H[l] # 0 => KD_LEAF_SIZE * 2 ^ (H[l] - 1) < nodes[l].len
    BY <1>1, <1>7, ChildIs
  <2>2. /\ H[r] \in Nat /\ nodes[r].len = Cardinality(U[r])
        /\ H[r] # 0 => KD_LEAF_SIZE * 2 ^ (H[r] - 1) < nodes[r].len
    BY <1>1, <1>8, ChildIs
  <2>3. /\ Cardinality(Range(LeftHalf(s))) = Len(LeftHalf(s))
        /\ Cardinality(Range(RightHalf(s))) = Len(RightHalf(s))
    BY <1>10, PieceSize
  <2> QED BY <1>7, <1>8, <1>10, <2>1, <2>2, <2>3
<1>12. /\ new.left = l /\ new.right = r /\ new.len = Len(s)
       /\ new.box = Bounds(Range(s)) /\ new \in NodeTypes
  <2>1. nodes[me] \in NodeTypes /\ nodes[l] \in NodeTypes BY <1>4, <1>7 DEF Complete
  <2>2. /\ l \in Nat /\ r \in Nat /\ nodes[l].start \in Nat
        /\ nodes[l].len + nodes[r].len = Len(s)
    <3>1. l \in Nat /\ r \in Nat BY <1>4, <1>7, <1>8 DEF Complete
    <3>2. nodes[l].start \in Nat BY <2>1 DEF NodeTypes
    <3>3. nodes[l].len + nodes[r].len = Len(s) BY <1>9, <1>11
    <3> QED BY <3>1, <3>2, <3>3
  <2>3. /\ new.left = l /\ new.right = r /\ new.len = Len(s)
        /\ new.box = nodes[me].box /\ new \in NodeTypes
    BY <1>c, <1>9, <2>1, <2>2 DEF NodeTypes
  <2> QED BY <1>7, <2>3
<1>13. /\ nodes' \in Seq(NodeTypes) /\ nodes'[me] = new
       /\ NodeIds' = NodeIds
       /\ \A n \in NodeIds : n # me => nodes'[n] = nodes[n]
       /\ \A n \in NodeIds : nodes'[n].box = nodes[n].box
  <2>1. /\ nodes \in Seq(NodeTypes) /\ me \in 1 .. Len(nodes)
    BY <1>1, <1>7 DEF KdTypes, NodeIds
  <2>2. nodes' \in Seq(NodeTypes) /\ Len(nodes') = Len(nodes)
    BY <1>2, <1>12, <2>1
  <2>3. \A n \in 1 .. Len(nodes) : nodes'[n] = IF n = me THEN new ELSE nodes[n]
    BY <1>2, <2>1
  <2> QED BY <1>7, <1>12, <2>1, <2>2, <2>3 DEF NodeIds
<1>14. Frames' = 1 .. N - 1 /\ Frames = 1 .. N BY <1>a, <1>3 DEF Frames
<1>15. /\ \A j \in 1 .. N - 1 : /\ calls[j].node # NoNode
                                /\ calls[j].node \in NodeIds
                                /\ calls[j].node < me
  <2> SUFFICES ASSUME NEW j \in 1 .. N - 1
               PROVE  /\ calls[j].node # NoNode /\ calls[j].node \in NodeIds
                      /\ calls[j].node < me
    OBVIOUS
  <2>1. j \in Frames /\ j < N /\ j # N BY <1>3
  <2>2. calls[j].node # NoNode BY <1>a, <1>1, <2>1 DEF CallInv
  <2>3. calls[j].node \in NodeIds BY <1>1, <2>1, <2>2 DEF CallInv, CallOk
  <2>4. calls[j].node < me BY <1>1, <1>3, <1>7, <2>1 DEF StackInv
  <2> QED BY <2>2, <2>3, <2>4
<1>16. Complete' = Complete \cup {me} /\ me \notin Complete
  <2>1. ASSUME NEW n \in Complete PROVE n \in Complete'
    BY <1>3, <1>13, <1>14 DEF Complete
  <2>2. me \in Complete'
    <3>1. \A j \in 1 .. N - 1 : calls'[j].node # me
      BY <1>3, <1>4, <1>7, <1>15
    <3> QED BY <1>7, <1>13, <1>14, <3>1 DEF Complete
  <2>3. ASSUME NEW n \in Complete', n # me PROVE n \in Complete
    <3>1. n \in NodeIds /\ \A j \in 1 .. N - 1 : calls[j].node # n
      BY <1>3, <1>13, <1>14 DEF Complete
    <3>2. calls[N].node # n BY <1>3, <1>7, <2>3
    <3>3. \A j \in 1 .. N : j \in 1 .. N - 1 \/ j = N BY <1>3
    <3> QED BY <1>14, <3>1, <3>2, <3>3 DEF Complete
  <2>4. me \notin Complete BY <1>3, <1>7 DEF Complete
  <2> QED BY <2>1, <2>2, <2>3, <2>4
<1>17. /\ \A n \in Complete : n \in NodeIds /\ n \in Nat /\ n # me
       /\ \A n \in Complete : nodes'[n] = nodes[n] /\ V[n] = U[n] /\ G[n] = H[n]
       /\ V[me] = U[l] \cup U[r] /\ G[me] = 1 + Max({H[l], H[r]})
  <2>1. \A n \in Complete : n \in NodeIds /\ n \in Nat /\ n # me
    BY <1>4, <1>16 DEF Complete
  <2> QED BY <1>b, <1>4, <1>7, <1>13, <2>1
<1>18. Leaves' = Leaves /\ Leaves \in SUBSET Complete
  BY <1>2, <1>12, <1>13, <1>16, <1>17 DEF Leaves
<1>19. KdTypes'
  <2>1. parts \in Seq([key : Nat, root : Nat]) BY <1>1 DEF KdTypes
  <2>2. NodeTypes' = NodeTypes BY DEF NodeTypes
  <2>3. /\ keys' \in SUBSET Nat /\ IsFiniteSet(keys')
        /\ \A k \in keys' : Bucket(k)' # {}
    BY <1>1, <1>2, <1>5 DEF KdTypes
  <2>4. slots' \in Seq(VectorIds \cup {PAD}) /\ Aligned(slots') /\ input \in Inputs
    BY <1>1, <1>2 DEF KdTypes, Aligned
  <2>5. ret' \in Nat BY <1>2, <1>4, <1>7
  <2> QED BY <1>2, <1>3, <1>5, <1>13, <2>1, <2>2, <2>3, <2>4, <2>5 DEF KdTypes
<1>20. CallInv(V)'
  <2> SUFFICES ASSUME NEW j \in 1 .. N - 1
               PROVE  /\ CallOk(V, calls[j])'
                      /\ calls'[j].node # NoNode /\ ret' # NoNode
                      /\ j < N - 1 =>
                           Range(calls'[j + 1].indices) = Range(Half(calls[j])')
    BY <1>3, <1>14 DEF CallInv
  <2>1. /\ CallOk(U, calls[j]) /\ calls'[j] = calls[j]
        /\ calls[j].node # NoNode /\ calls[j].node \in NodeIds
        /\ j < N => Range(calls[j + 1].indices) = Range(Half(calls[j]))
    BY <1>a, <1>1, <1>3, <1>15 DEF CallInv
  <2>2. j < N - 1 => calls'[j + 1] = calls[j + 1] /\ j < N BY <1>3
  <2>3. CallOk(V, calls[j])'
    <3>1. /\ Complete \subseteq Complete' /\ NodeIds \subseteq NodeIds'
          /\ \A n \in Complete : V[n] = U[n]
          /\ nodes'[calls[j].node].box = nodes[calls[j].node].box
      BY <1>13, <1>16, <1>17, <2>1
    <3> QED BY <1>2, <2>1, <3>1, FrameKept
  <2>4. Half(calls[j])' = Half(calls[j]) BY <2>1, FrameRigid
  <2> QED BY <1>2, <1>7, <2>1, <2>2, <2>3, <2>4
<1>21. StackInv'
  BY <1>1, <1>3, <1>14 DEF StackInv, Pending, RightHalf, Middle
<1>22. WorkInv(V)'
  <2>1. keys # {} /\ ~KdIdle /\ Range(calls[1].indices) = Bucket(Min(keys))
    BY <1>1, <1>2 DEF WorkInv, KdIdle
  <2>2. calls' # <<>> => N - 1 >= 1 /\ N - 1 \in Frames /\ calls'[1] = calls[1]
                         /\ Top' = calls[N - 1] /\ Len(calls') = N - 1
    <3>1. calls' # <<>> => Len(calls') # 0 BY <1>3
    <3> QED BY <1>3, <3>1 DEF Top
  <2>3. V[me] = IF calls' = <<>> THEN Bucket(Min(keys)) ELSE Range(Half(Top'))
    <3>1. CASE calls' = <<>>
      <4>1. N = 1 BY <1>3, <3>1
      <4> QED BY <1>3, <1>7, <1>10, <1>17, <2>1, <3>1, <4>1
    <3>2. CASE calls' # <<>>
      <4>1. Range(calls[(N - 1) + 1].indices) = Range(Half(calls[N - 1]))
        BY <1>a, <1>1, <1>3, <2>2, <3>2 DEF CallInv
      <4>2. (N - 1) + 1 = N BY <1>3
      <4> QED BY <1>3, <1>7, <1>10, <1>17, <2>2, <3>2, <4>1, <4>2
    <3> QED BY <3>1, <3>2
  <2>4. calls' # <<>> => Top'.node < me BY <1>15, <2>2, <1>3
  <2>5. Half(Top)' = Half(Top') BY DEF Half, LeftHalf, RightHalf, Middle
  <2>6. Min(keys') = Min(keys) /\ Bucket(Min(keys))' = Bucket(Min(keys))
    BY <1>2, <1>5
  <2> QED BY <1>2, <1>16, <2>1, <2>2, <2>3, <2>4, <2>5, <2>6 DEF WorkInv
<1>23. TreeInv(V, G)'
  <2>1. \A n \in Complete : NodeInv(V, G, n)'
    <3>1. Complete \subseteq Complete' BY <1>16
    <3>2. \A n \in Complete : nodes'[n] = nodes[n] /\ V[n] = U[n] /\ G[n] = H[n]
      BY <1>17
    <3>3. Len(slots') \in Nat /\ Len(slots) <= Len(slots')
      BY <1>2, <1>4
    <3>4. \A a \in 1 .. Len(slots) : slots'[a] = slots[a] BY <1>2
    <3>5. KdTypes /\ TreeInv(U, H) /\ input' = input /\ Len(slots) \in Nat
      BY <1>1, <1>2, <1>4
    <3> QED BY <3>1, <3>2, <3>3, <3>4, <3>5, NodesKept
  <2>2. NodeInv(V, G, me)'
    <3>1. V[me] = Range(s) /\ V[me] # {} BY <1>10, <1>17
    <3>2. PICK h \in {H[l], H[r]} : h = Max({H[l], H[r]}) BY <1>11, LargerOf
    <3>3. h \in Nat /\ G[me] = 1 + h /\ G[me] - 1 = h /\ G[me] \in Nat
      BY <1>11, <1>17, <3>2
    <3>4. KD_LEAF_SIZE * 2 ^ h < Len(s)
      <4>1. PICK c \in {nodes[l].len, nodes[r].len} :
              h # 0 => KD_LEAF_SIZE * 2 ^ (h - 1) < c
        BY <1>11, <3>2
      <4>2. c \in Nat /\ 2 * c <= Len(s) + 1 BY <1>9, <1>11
      <4> QED BY <1>7, <1>9, <3>3, <4>1, <4>2, Shallow
    <3>5. InnerNode(V, G, me)'
      <4>1. /\ V[l] = U[l] /\ V[r] = U[r] /\ V[l] \cap V[r] = {}
            /\ G[l] = H[l] /\ G[r] = H[r]
            /\ l \in Complete' /\ r \in Complete'
        BY <1>7, <1>8, <1>10, <1>16, <1>17
      <4>2. G[me] = 1 + Max({G[l], G[r]}) BY <1>17, <4>1
      <4>3. KD_LEAF_SIZE * 2 ^ (G[me] - 1) < Len(s) BY <3>3, <3>4
      <4>4. /\ nodes'[me].left = l /\ nodes'[me].right = r
            /\ nodes'[me].len = Len(s)
        BY <1>12, <1>13
      <4>5. me < l BY <1>4, <1>7 DEF Complete
      <4> QED BY <1>7, <1>8, <1>17, <4>1, <4>2, <4>3, <4>4, <4>5 DEF InnerNode
    <3>6. nodes'[me].left # NoNode BY <1>2, <1>12, <1>13
    <3>7. nodes'[me].len = Cardinality(V[me]) /\ nodes'[me].box = Bounds(V[me])'
      BY <1>5, <1>9, <1>12, <1>13, <3>1
    <3> QED BY <1>5, <1>9, <3>1, <3>3, <3>5, <3>6, <3>7 DEF NodeInv
  <2> QED BY <1>16, <2>1, <2>2 DEF TreeInv
<1>24. PlacementInv(V)'
  <2>1. \A m \in Leaves : V[m] = U[m] BY <1>17, <1>18
  <2>2. Pending(calls[N]) = {} BY <1>2, <1>3, <1>7, <1>6 DEF Pending
  <2>3. ASSUME NEW j \in 1 .. N - 1 PROVE Pending(calls[j])' = Pending(calls[j])
    BY <1>3, FrameRigid
  <2>4. \A i : Untouched(i)' <=> Untouched(i)
    BY <1>2, <1>7 DEF Untouched, KdIdle
  <2>5. \A m, n \in Leaves' : m # n => V[m] \cap V[n] = {}
    BY <1>1, <1>18, <2>1 DEF PlacementInv
  <2>6. ASSUME NEW m \in Leaves, NEW j \in 1 .. N - 1
        PROVE  V[m] \cap Pending(calls[j])' = {}
    <3>1. U[m] \cap Pending(calls[j]) = {} BY <1>1, <1>3 DEF PlacementInv
    <3> QED BY <2>1, <2>3, <3>1
  <2>7. \A m \in Leaves', j \in Frames' : V[m] \cap Pending(calls[j])' = {}
    BY <1>14, <1>18, <2>6
  <2>8. \A m \in Leaves' : \A i \in V[m] : ~Untouched(i)'
    BY <1>1, <1>18, <2>1, <2>4 DEF PlacementInv
  <2>9. ASSUME NEW i \in VectorIds
        PROVE  \/ Untouched(i)'
               \/ \E j \in Frames' : i \in Pending(calls[j])'
               \/ \E m \in Leaves' : i \in V[m]
    <3>1. CASE Untouched(i) BY <2>4, <3>1
    <3>2. CASE \E m \in Leaves : i \in U[m] BY <1>18, <2>1, <3>2
    <3>3. ASSUME NEW j \in Frames, i \in Pending(calls[j])
          PROVE  \E k \in Frames' : i \in Pending(calls[k])'
      <4>1. j # N BY <2>2, <3>3
      <4>2. j \in 1 .. N - 1 BY <1>3, <1>14, <4>1
      <4> QED BY <1>14, <2>3, <3>3, <4>2
    <3> QED BY <1>1, <3>1, <3>2, <3>3 DEF PlacementInv
  <2> QED BY <1>5, <2>5, <2>7, <2>8, <2>9 DEF PlacementInv
<1>25. PartsInv(V)'
  BY <1>1, <1>2, <1>5, <1>16, <1>17 DEF PartsInv
<1>26. KdInv(V, G)'
  BY <1>19, <1>20, <1>21, <1>22, <1>23, <1>24, <1>25 DEF KdInv
<1> QED BY <1>26

\* What KdInv says depends on nothing else.
LEMMA KdInvKept ==
  ASSUME NEW U, NEW H, KdInv(U, H), UNCHANGED <<input, slots, kdVars>>
  PROVE  KdInv(U, H)'
<1>1. /\ KdTypes /\ CallInv(U) /\ StackInv /\ WorkInv(U)
      /\ TreeInv(U, H) /\ PlacementInv(U) /\ PartsInv(U)
  BY DEF KdInv
<1>2. /\ input' = input /\ slots' = slots /\ keys' = keys /\ calls' = calls
      /\ ret' = ret /\ nodes' = nodes /\ parts' = parts
  BY DEF kdVars
<1>3. /\ VectorIds' = VectorIds /\ CallTypes' = CallTypes
      /\ \A S : Bounds(S)' = Bounds(S)
      /\ \A k : Bucket(k)' = Bucket(k)
      /\ \A t : Piece(t)' = Piece(t)
  BY <1>2, SameInput
<1>4. /\ Frames' = Frames /\ NodeIds' = NodeIds
      /\ NodeTypes' = NodeTypes /\ KdIdle' = KdIdle /\ Top' = Top
  BY <1>2 DEF Frames, NodeIds, NodeTypes, KdIdle, Top
<1>5. Complete' = Complete /\ Leaves' = Leaves
  BY <1>2, <1>4 DEF Complete, Leaves
<1>6. KdTypes' BY <1>1, <1>2, <1>3, <1>4 DEF KdTypes, Aligned
<1>7. \A j \in Frames : /\ Half(calls[j])' = Half(calls[j])
                        /\ Pending(calls[j])' = Pending(calls[j])
  BY <1>2, FrameRigid
<1>8. CallInv(U)'
  <2>1. ASSUME NEW j \in Frames PROVE CallOk(U, calls[j])'
    <3>1. CallOk(U, calls[j]) /\ calls'[j] = calls[j] BY <1>1, <1>2 DEF CallInv
    <3>2. /\ Complete \subseteq Complete' /\ NodeIds \subseteq NodeIds'
          /\ nodes'[calls[j].node].box = nodes[calls[j].node].box
      BY <1>2, <1>4, <1>5
    <3> QED BY <1>2, <3>1, <3>2, FrameKept
  <2> QED BY <1>1, <1>2, <1>4, <1>7, <2>1 DEF CallInv
<1>9. StackInv' BY <1>1, <1>2, <1>4, <1>7 DEF StackInv
<1>10. WorkInv(U)'
  <2>1. Half(Top)' = Half(Top) BY <1>4 DEF Half, LeftHalf, RightHalf, Middle
  <2>2. Min(keys') = Min(keys) /\ Bucket(Min(keys))' = Bucket(Min(keys))
    BY <1>2, <1>3
  <2> QED BY <1>1, <1>2, <1>4, <1>5, <2>1, <2>2 DEF WorkInv
<1>11. TreeInv(U, H)'
  <2>1. Len(slots) \in Nat /\ Len(slots') \in Nat /\ Len(slots) <= Len(slots')
    BY <1>1, <1>2, FrameTypes
  <2>2. \A n \in Complete : nodes'[n] = nodes[n] /\ U[n] = U[n] /\ H[n] = H[n]
    BY <1>2
  <2>3. \A x \in 1 .. Len(slots) : slots'[x] = slots[x] BY <1>2
  <2>4. Complete \subseteq Complete' /\ input' = input BY <1>2, <1>5
  <2>5. KdTypes /\ TreeInv(U, H) BY <1>1
  <2>6. \A n \in Complete : NodeInv(U, H, n)'
    BY <2>1, <2>2, <2>3, <2>4, <2>5, NodesKept
  <2> QED BY <1>5, <2>6 DEF TreeInv
<1>12. PlacementInv(U)'
  <2>1. \A i : Untouched(i)' <=> Untouched(i) BY <1>2, <1>4 DEF Untouched
  <2> QED BY <1>1, <1>3, <1>4, <1>5, <1>7, <2>1 DEF PlacementInv
<1>13. PartsInv(U)' BY <1>1, <1>2, <1>3, <1>5 DEF PartsInv
<1> QED BY <1>6, <1>8, <1>9, <1>10, <1>11, <1>12, <1>13 DEF KdInv

\* The vectors are put into buckets.
LEMMA BucketVectorsStep ==
  ASSUME NEW U, NEW H, InitKd, slots = <<>>, input \in Inputs, BucketVectors
  PROVE  KdInv(U, H)'
<1>1. /\ input' = input /\ slots' = <<>> /\ calls' = <<>> /\ ret' = NoNode
      /\ nodes' = <<>> /\ parts' = <<>>
      /\ keys' = {input.key[i] : i \in VectorIds}
  BY DEF InitKd, BucketVectors
<1>2. VectorIds' = VectorIds /\ \A k : Bucket(k)' = Bucket(k) BY <1>1, SameInput
<1>3. /\ VectorIds \in SUBSET Nat /\ IsFiniteSet(VectorIds)
      /\ \A i \in VectorIds : input.key[i] \in Nat
  BY Vectors
<1>4. keys' \in SUBSET Nat /\ IsFiniteSet(keys')
  <2> DEFINE f == [i \in VectorIds |-> input.key[i]]
             T == {input.key[i] : i \in VectorIds}
  <2>1. f \in Surjection(VectorIds, T) BY DEF Surjection
  <2>2. IsFiniteSet(T) BY <1>3, <2>1, FS_Surjection
  <2>3. T \in SUBSET Nat BY <1>3
  <2> QED BY <1>1, <2>2, <2>3
<1>5. \A k \in keys' : Bucket(k)' # {} BY <1>1, <1>2 DEF Bucket
<1>6. Frames' = {} /\ NodeIds' = {} /\ Complete' = {} /\ Leaves' = {}
  BY <1>1 DEF Frames, NodeIds, Complete, Leaves
<1>7. KdTypes'
  <2>1. Aligned(slots')
    <3>1. LANES \in Nat \ {0} BY InputConstants
    <3>2. Len(<<>>) = 0 /\ 0 \div LANES = 0 BY <3>1
    <3> QED BY <1>1, <3>1, <3>2 DEF Aligned
  <2>2. /\ <<>> \in Seq(CallTypes') /\ <<>> \in Seq(NodeTypes')
        /\ <<>> \in Seq([key : Nat, root : Nat])
        /\ <<>> \in Seq(VectorIds' \cup {PAD})
    OBVIOUS
  <2>3. ret' \in Nat /\ input' \in Inputs BY <1>1 DEF NoNode
  <2> QED BY <1>1, <1>4, <1>5, <2>1, <2>2, <2>3 DEF KdTypes
<1>8. CallInv(U)' /\ StackInv' BY <1>6 DEF CallInv, StackInv
<1>9. WorkInv(U)' BY <1>1 DEF WorkInv, KdIdle
<1>10. TreeInv(U, H)' BY <1>6 DEF TreeInv
<1>11. PlacementInv(U)'
  <2>1. \A i \in VectorIds : Untouched(i)' BY <1>1 DEF Untouched, KdIdle
  <2> QED BY <1>2, <1>6, <2>1 DEF PlacementInv
<1>12. PartsInv(U)' BY <1>1 DEF PartsInv
<1> QED BY <1>7, <1>8, <1>9, <1>10, <1>11, <1>12 DEF KdInv

\* The next tree is begun.
LEMMA CallRootStep ==
  ASSUME NEW U, NEW H, KdInv(U, H), CallRoot
  PROVE  KdInv(U, H)'
<1>a. PICK k, t, b : /\ k = Min(keys)
                     /\ t = InOrder(Bucket(k), [i \in VectorIds |-> 0])
                     /\ b = Call(t)
  OBVIOUS
<1>1. /\ KdTypes /\ CallInv(U) /\ StackInv /\ WorkInv(U)
      /\ TreeInv(U, H) /\ PlacementInv(U) /\ PartsInv(U)
  BY DEF KdInv
<1>2. /\ calls = <<>> /\ ret = NoNode /\ keys # {} /\ calls' = <<b>>
      /\ input' = input /\ slots' = slots /\ keys' = keys /\ ret' = ret
      /\ nodes' = nodes /\ parts' = parts
  BY <1>a DEF CallRoot
<1>3. /\ VectorIds' = VectorIds /\ CallTypes' = CallTypes
      /\ \A n : Bucket(n)' = Bucket(n)
      /\ \A s : Piece(s)' = Piece(s)
  BY <1>2, SameInput
<1>4. /\ VectorIds \in SUBSET Nat /\ IsFiniteSet(VectorIds)
      /\ \A i \in VectorIds : input.key[i] \in Nat
  BY <1>1, Vectors DEF KdTypes
<1>5. k \in keys
  <2>1. keys \in SUBSET Int /\ IsFiniteSet(keys) BY <1>1 DEF KdTypes
  <2> QED BY <1>a, <1>2, <2>1, Extremes
<1>6. /\ Bucket(k) \in SUBSET VectorIds /\ Bucket(k) # {}
      /\ IsFiniteSet(Bucket(k)) /\ Bucket(k) \in SUBSET Int
  <2>1. Bucket(k) \in SUBSET VectorIds BY DEF Bucket
  <2>2. IsFiniteSet(Bucket(k)) BY <1>4, <2>1, FS_Subset
  <2>3. Bucket(k) # {} BY <1>1, <1>5 DEF KdTypes
  <2>4. VectorIds \in SUBSET Int BY <1>4
  <2>5. Bucket(k) \in SUBSET Int BY <2>1, <2>4
  <2> QED BY <2>1, <2>2, <2>3, <2>5
<1>7. Piece(t) /\ t # <<>> /\ Range(t) = Bucket(k)
  <2> DEFINE z == [i \in VectorIds |-> 0]
             B == Bucket(k)
  <2>1. \A i \in B : z[i] \in Int BY <1>6
  <2>2. B \in SUBSET Int /\ IsFiniteSet(B) BY <1>6
  <2>3. t = InOrder(B, z) BY <1>a
  <2> HIDE DEF z, B
  <2>4. /\ t \in Seq(B) /\ Len(t) = Cardinality(B) /\ Range(t) = B
        /\ \A m, n \in 1 .. Cardinality(B) : t[m] = t[n] => m = n
    BY <2>1, <2>2, <2>3, InOrderKeeps
  <2>5. t \in Seq(VectorIds) BY <1>6, <2>4 DEF B
  <2>6. DOMAIN t = 1 .. Cardinality(B) BY <2>4
  <2>7. t # <<>> BY <1>6, <2>4 DEF B, Range
  <2> QED BY <2>4, <2>5, <2>6, <2>7 DEF Piece, B
<1>8. /\ b.indices = t /\ b.node = NoNode /\ b.left = NoNode /\ b \in CallTypes
  <2>1. t \in Seq(VectorIds) BY <1>7 DEF Piece
  <2> QED BY <1>a, <2>1 DEF Call, CallTypes, NoNode
<1>9. calls' \in Seq(CallTypes) /\ Len(calls') = 1 /\ calls'[1] = b
  BY <1>2, <1>8
<1>10. Frames = {} /\ Frames' = {1} /\ NodeIds' = NodeIds
  BY <1>2, <1>9 DEF Frames, NodeIds
<1>11. \A n \in NodeIds : n \in Nat \ {0} BY <1>1, FrameTypes
<1>12. Complete' = Complete
  BY <1>8, <1>9, <1>10, <1>11 DEF Complete, NoNode
<1>13. Leaves' = Leaves BY <1>2, <1>12 DEF Leaves
<1>14. KdTypes'
  <2>1. NodeTypes' = NodeTypes BY DEF NodeTypes
  <2>2. Aligned(slots') BY <1>1, <1>2 DEF KdTypes, Aligned
  <2> QED BY <1>1, <1>2, <1>3, <1>9, <2>1, <2>2 DEF KdTypes
<1>15. CallInv(U)'
  <2>1. CallOk(U, b)' BY <1>3, <1>7, <1>8 DEF CallOk
  <2>2. CallOk(U, calls[1])' BY <1>9, <2>1 DEF CallOk
  <2> QED BY <1>2, <1>8, <1>9, <1>10, <2>2 DEF CallInv
<1>16. StackInv' BY <1>10 DEF StackInv
<1>17. WorkInv(U)'
  <2>1. Bucket(Min(keys))' = Bucket(k) BY <1>a, <1>2, <1>3
  <2> QED BY <1>2, <1>7, <1>8, <1>9, <2>1 DEF WorkInv
<1>18. TreeInv(U, H)'
  <2>1. Len(slots) \in Nat /\ Len(slots') \in Nat /\ Len(slots) <= Len(slots')
    BY <1>1, <1>2, FrameTypes
  <2>2. \A n \in Complete : nodes'[n] = nodes[n] /\ U[n] = U[n] /\ H[n] = H[n]
    BY <1>2
  <2>3. \A x \in 1 .. Len(slots) : slots'[x] = slots[x] BY <1>2
  <2>4. Complete \subseteq Complete' /\ input' = input BY <1>2, <1>12
  <2>5. KdTypes /\ TreeInv(U, H) BY <1>1
  <2>6. \A n \in Complete : NodeInv(U, H, n)'
    BY <2>1, <2>2, <2>3, <2>4, <2>5, NodesKept
  <2> QED BY <1>12, <2>6 DEF TreeInv
<1>19. PlacementInv(U)'
  <2>1. Pending(calls[1])' = Bucket(k)
    <3>1. Pending(calls[1])' = Range(calls'[1].indices)
      BY <1>8, <1>9 DEF Pending
    <3> QED BY <1>7, <1>8, <1>9, <3>1
  <2>2. \A i : Untouched(i)' <=> (Untouched(i) /\ input.key[i] # k)
    BY <1>a, <1>2 DEF Untouched, KdIdle
  <2>3. \A m \in Leaves : U[m] \cap Bucket(k) = {}
    BY <1>1, <1>2, <1>5 DEF PlacementInv, Untouched, KdIdle, Bucket
  <2>4. \A m, n \in Leaves' : m # n => U[m] \cap U[n] = {}
    BY <1>1, <1>13 DEF PlacementInv
  <2>5. \A m \in Leaves', j \in Frames' : U[m] \cap Pending(calls[j])' = {}
    BY <1>10, <1>13, <2>1, <2>3
  <2>6. \A m \in Leaves' : \A i \in U[m] : ~Untouched(i)'
    BY <1>1, <1>13, <2>2 DEF PlacementInv
  <2>7. ASSUME NEW i \in VectorIds
        PROVE  \/ Untouched(i)'
               \/ \E j \in Frames' : i \in Pending(calls[j])'
               \/ \E m \in Leaves' : i \in U[m]
    <3>1. \/ Untouched(i) \/ \E m \in Leaves : i \in U[m]
      BY <1>1, <1>10 DEF PlacementInv
    <3>2. CASE Untouched(i) /\ input.key[i] # k BY <2>2, <3>2
    <3>3. CASE Untouched(i) /\ input.key[i] = k
      <4>1. i \in Bucket(k) BY <3>3 DEF Bucket
      <4> QED BY <1>10, <2>1, <4>1
    <3> QED BY <1>13, <3>1, <3>2, <3>3
  <2> QED BY <1>3, <2>4, <2>5, <2>6, <2>7 DEF PlacementInv
<1>20. PartsInv(U)' BY <1>1, <1>2, <1>3, <1>12 DEF PartsInv
<1> QED BY <1>14, <1>15, <1>16, <1>17, <1>18, <1>19, <1>20 DEF KdInv

\* A tree is done.
LEMMA RootBuiltStep ==
  ASSUME NEW U, NEW H, KdInv(U, H), RootBuilt
  PROVE  KdInv(U, H)'
<1>a. PICK k, root, part :
        k = Min(keys) /\ root = ret /\ part = [key |-> k, root |-> root]
  OBVIOUS
<1>1. /\ KdTypes /\ CallInv(U) /\ StackInv /\ WorkInv(U)
      /\ TreeInv(U, H) /\ PlacementInv(U) /\ PartsInv(U)
  BY DEF KdInv
<1>2. /\ calls = <<>> /\ ret # NoNode /\ calls' = <<>> /\ ret' = NoNode
      /\ parts' = Append(parts, part) /\ keys' = keys \ {k}
      /\ input' = input /\ slots' = slots /\ nodes' = nodes
  BY <1>a DEF RootBuilt
<1>3. /\ VectorIds' = VectorIds /\ CallTypes' = CallTypes
      /\ \A n : Bucket(n)' = Bucket(n)
  BY <1>2, SameInput
<1>4. keys # {} /\ root \in Complete /\ U[root] = Bucket(k)
  BY <1>a, <1>1, <1>2 DEF WorkInv, KdIdle
<1>5. /\ keys \in SUBSET Nat /\ IsFiniteSet(keys) /\ k \in keys
  <2>1. keys \in SUBSET Int /\ IsFiniteSet(keys) /\ keys \in SUBSET Nat
    BY <1>1 DEF KdTypes
  <2> QED BY <1>a, <1>4, <2>1, Extremes
<1>6. /\ Frames = {} /\ Frames' = {} /\ NodeIds' = NodeIds
      /\ Complete' = Complete /\ Leaves' = Leaves
  BY <1>2 DEF Frames, NodeIds, Complete, Leaves
<1>7. root \in Nat BY <1>1, <1>4, FrameTypes DEF Complete
<1>8. /\ parts' \in Seq([key : Nat, root : Nat]) /\ Len(parts) \in Nat
      /\ Len(parts') = Len(parts) + 1 /\ parts'[Len(parts) + 1] = part
      /\ \A p \in 1 .. Len(parts) : parts'[p] = parts[p]
  <2>1. part \in [key : Nat, root : Nat] BY <1>a, <1>5, <1>7
  <2>2. parts \in Seq([key : Nat, root : Nat]) BY <1>1 DEF KdTypes
  <2> QED BY <1>2, <2>1, <2>2
<1>9. KdTypes'
  <2>1. NodeTypes' = NodeTypes BY DEF NodeTypes
  <2>2. Aligned(slots') BY <1>1, <1>2 DEF KdTypes, Aligned
  <2>3. /\ keys' \in SUBSET Nat /\ IsFiniteSet(keys')
        /\ \A n \in keys' : Bucket(n)' # {}
    <3>1. keys' \in SUBSET keys BY <1>2
    <3>2. IsFiniteSet(keys') BY <1>5, <3>1, FS_Subset
    <3> QED BY <1>1, <1>3, <1>5, <3>1, <3>2 DEF KdTypes
  <2>4. ret' \in Nat /\ calls' \in Seq(CallTypes) BY <1>1, <1>2 DEF KdTypes, NoNode
  <2> QED BY <1>1, <1>2, <1>3, <1>8, <2>1, <2>2, <2>3, <2>4 DEF KdTypes
<1>10. CallInv(U)' /\ StackInv' BY <1>6 DEF CallInv, StackInv
<1>11. WorkInv(U)' BY <1>2 DEF WorkInv, KdIdle
<1>12. TreeInv(U, H)'
  <2>1. Len(slots) \in Nat /\ Len(slots') \in Nat /\ Len(slots) <= Len(slots')
    BY <1>1, <1>2, FrameTypes
  <2>2. \A n \in Complete : nodes'[n] = nodes[n] /\ U[n] = U[n] /\ H[n] = H[n]
    BY <1>2
  <2>3. \A x \in 1 .. Len(slots) : slots'[x] = slots[x] BY <1>2
  <2>4. Complete \subseteq Complete' /\ input' = input BY <1>2, <1>6
  <2>5. KdTypes /\ TreeInv(U, H) BY <1>1
  <2>6. \A n \in Complete : NodeInv(U, H, n)'
    BY <2>1, <2>2, <2>3, <2>4, <2>5, NodesKept
  <2> QED BY <1>6, <2>6 DEF TreeInv
<1>13. PlacementInv(U)'
  <2>1. \A i : Untouched(i)' <=> Untouched(i)
    BY <1>a, <1>2 DEF Untouched, KdIdle
  <2> QED BY <1>1, <1>3, <1>6, <2>1 DEF PlacementInv
<1>14. PartsInv(U)'
  <2> SUFFICES ASSUME NEW p \in 1 .. Len(parts')
               PROVE  /\ parts'[p].root \in Complete
                      /\ U[parts'[p].root] = Bucket(parts'[p].key)
    BY <1>3, <1>6 DEF PartsInv
  <2>1. CASE p \in 1 .. Len(parts) BY <1>1, <1>8, <2>1 DEF PartsInv
  <2>2. CASE p = Len(parts) + 1 BY <1>a, <1>4, <1>8, <2>2
  <2> QED BY <1>8, <2>1, <2>2
<1> QED BY <1>9, <1>10, <1>11, <1>12, <1>13, <1>14 DEF KdInv

-----------------------------------------------------------------------------
(***************************************************************************)
(* What holds of the kd index when it is built.                            *)
(***************************************************************************)
\* Functions agree on 1..n; they agree at a place if they do at those after it.
Agree(n, f, g) == \A m \in 1 .. n : f[m] = g[m]
AgreeBackwards(n, f, g) ==
  \A m \in 1 .. n : (\A k \in 1 .. n : m < k => f[k] = g[k]) => f[m] = g[m]

\* Children come after their parents, so functions that agree at a node when
\* they do at its children agree everywhere.
LEMMA FromTheEnd ==
  ASSUME NEW n \in Nat, NEW f, NEW g, AgreeBackwards(n, f, g)
  PROVE  Agree(n, f, g)
<1> USE DEF Agree, AgreeBackwards
<1> DEFINE D == {m \in 1 .. n : f[m] # g[m]}
<1>1. SUFFICES ASSUME D # {} PROVE FALSE OBVIOUS
<1>2. D \in SUBSET Int /\ IsFiniteSet(D)
  <2>1. IsFiniteSet(1 .. n) BY FS_Interval
  <2>2. D \in SUBSET (1 .. n) OBVIOUS
  <2> QED BY <2>1, <2>2, FS_Subset
<1>3. Max(D) \in D /\ \A k \in D : k <= Max(D)
  <2> HIDE DEF D
  <2> QED BY <1>1, <1>2, Extremes
<1>4. PICK m \in D : \A k \in D : k <= m BY <1>3
<1>5. \A k \in 1 .. n : m < k => f[k] = g[k] BY <1>4
<1> QED BY <1>4, <1>5

\* The equations that define Under and Height, as operators on functions.
UnderOf(f) ==
  [n \in NodeIds |->
     IF n \in LeafIds THEN {LeafPoints(n)[k] : k \in 1 .. nodes[n].len}
     ELSE f[nodes[n].left] \cup f[nodes[n].right]]

HeightOf(f) ==
  [n \in NodeIds |->
     IF n \in LeafIds THEN 0
     ELSE 1 + Max({f[nodes[n].left], f[nodes[n].right]})]

\* Under and Height are what satisfies their equations.
LEMMA Unfolded ==
  /\ Under = CHOOSE f : f = UnderOf(f)
  /\ Height = CHOOSE f : f = HeightOf(f)
<1>1. Under = CHOOSE f : f = UnderOf(f) BY Zenon DEF Under, UnderOf
<1>2. Height = CHOOSE f : f = HeightOf(f) BY Zenon DEF Height, HeightOf
<1> QED BY <1>1, <1>2

\* What is read of a leaf.
LEMMA LeafPointsAre ==
  ASSUME NEW U, NEW H, KdInv(U, H), NEW n \in Leaves
  PROVE  /\ nodes[n].len \in Nat /\ nodes[n].len <= KD_LEAF_SIZE
         /\ Len(LeafPoints(n)) = nodes[n].len
         /\ \A k \in 1 .. nodes[n].len : LeafPoints(n)[k] \in U[n]
         /\ \A i \in U[n] : \E k \in 1 .. nodes[n].len : LeafPoints(n)[k] = i
         /\ \A k, l \in 1 .. nodes[n].len :
              LeafPoints(n)[k] = LeafPoints(n)[l] => k = l
<1> DEFINE first == nodes[n].start * LANES
           len == nodes[n].len
           pts == SubSeq(slots, first + 1, first + len)
           S == VectorIds \cup {PAD}
<1>1. KdTypes /\ TreeInv(U, H) BY DEF KdInv
<1>2. n \in Complete /\ nodes[n].left = NoNode /\ n \in NodeIds
  BY DEF Leaves, Complete
<1>3. LeafNode(U, H, n) BY <1>1, <1>2 DEF TreeInv, NodeInv
<1>4. first \in Nat /\ len \in Nat
  <2>1. nodes[n] \in NodeTypes BY <1>1, <1>2, FrameTypes
  <2>2. nodes[n].start \in Nat /\ nodes[n].len \in Nat BY <2>1 DEF NodeTypes
  <2> QED BY <2>2, InputConstants
<1>5. /\ len <= KD_LEAF_SIZE /\ first + len <= Len(slots)
      /\ \A k \in 1 .. len : slots[first + k] \in U[n]
      /\ \A i \in U[n] : \E k \in 1 .. len : slots[first + k] = i
      /\ \A k, l \in 1 .. len : slots[first + k] = slots[first + l] => k = l
  BY <1>3 DEF LeafNode
<1>6. slots \in Seq(S) /\ Len(slots) \in Nat BY <1>1 DEF KdTypes
<1>7. LeafPoints(n) = pts BY DEF LeafPoints
<1> HIDE DEF first, len, S
<1>8. /\ Len(pts) = len
      /\ \A k \in 1 .. len : pts[k] = slots[first + k]
  <2>1. first + 1 \in Int /\ first + len \in Int BY <1>4
  <2>2. \A i \in first + 1 .. first + len : slots[i] \in S
    <3>1. \A i \in first + 1 .. first + len : i \in 1 .. Len(slots)
      BY <1>4, <1>5, <1>6
    <3> QED BY <1>6, <3>1
  <2>3. /\ Len(pts) = IF first + 1 <= first + len
                       THEN (first + len) - (first + 1) + 1 ELSE 0
        /\ \A i \in 1 .. (first + len) - (first + 1) + 1 :
             pts[i] = slots[(first + 1) + i - 1]
    BY <2>1, <2>2, SubSeqProperties
  <2>4. \A k \in 1 .. len : /\ k \in 1 .. (first + len) - (first + 1) + 1
                            /\ (first + 1) + k - 1 = first + k
    BY <1>4
  <2> HIDE DEF pts
  <2>5. Len(pts) = len BY <1>4, <2>3
  <2>6. \A k \in 1 .. len : pts[k] = slots[first + k] BY <2>3, <2>4
  <2> QED BY <2>5, <2>6
<1> HIDE DEF pts
<1>9. \A k \in 1 .. len : pts[k] = slots[first + k] BY <1>8
<1>10. /\ \A k \in 1 .. len : pts[k] \in U[n]
       /\ \A i \in U[n] : \E k \in 1 .. len : pts[k] = i
       /\ \A k, l \in 1 .. len : pts[k] = pts[l] => k = l
  BY <1>5, <1>9
<1> QED BY <1>4, <1>5, <1>7, <1>8, <1>10 DEF len

\* Every node is complete when no call is left.
LEMMA AllComplete ==
  ASSUME calls = <<>>
  PROVE  Frames = {} /\ Complete = NodeIds /\ Leaves = LeafIds
BY DEF Frames, Complete, Leaves, LeafIds

\* When the trees are complete, U and H are what the finished tables say.
LEMMA SettledIs ==
  ASSUME NEW U, NEW H, KdInv(U, H), calls = <<>>
  PROVE  \A n \in NodeIds : Under[n] = U[n] /\ Height[n] = H[n]
<1>1. KdTypes /\ TreeInv(U, H) /\ Complete = NodeIds /\ Leaves = LeafIds
  BY AllComplete DEF KdInv
<1>2. Len(nodes) \in Nat /\ NodeIds = 1 .. Len(nodes)
  BY <1>1, FrameTypes DEF NodeIds
<1>3. ASSUME NEW n \in LeafIds
      PROVE  U[n] = {LeafPoints(n)[k] : k \in 1 .. nodes[n].len} /\ H[n] = 0
  <2>1. n \in Leaves /\ n \in Complete /\ nodes[n].left = NoNode
    BY <1>1, <1>3 DEF LeafIds
  <2>2. H[n] = 0 BY <1>1, <2>1 DEF TreeInv, NodeInv, LeafNode
  <2>3. /\ \A k \in 1 .. nodes[n].len : LeafPoints(n)[k] \in U[n]
        /\ \A i \in U[n] : \E k \in 1 .. nodes[n].len : LeafPoints(n)[k] = i
    BY <2>1, LeafPointsAre
  <2> QED BY <2>2, <2>3
<1>4. ASSUME NEW n \in NodeIds, n \notin LeafIds
      PROVE  LET l == nodes[n].left
                 r == nodes[n].right
             IN /\ l \in NodeIds /\ r \in NodeIds /\ n < l /\ n < r
                /\ U[n] = U[l] \cup U[r] /\ H[n] = 1 + Max({H[l], H[r]})
  BY <1>1, <1>4 DEF TreeInv, NodeInv, InnerNode, LeafIds
<1>5. \A n \in NodeIds : Under[n] = U[n]
  <2> DEFINE u == [n \in NodeIds |-> U[n]]
  <2>1. u = UnderOf(u) BY <1>3, <1>4 DEF UnderOf
  <2>2. Under = UnderOf(Under)
    <3>1. \E f : f = UnderOf(f) BY <2>1
    <3> QED BY <3>1, Unfolded
  <2>3. ASSUME NEW m \in NodeIds,
               \A k \in NodeIds : m < k => Under[k] = U[k]
        PROVE  Under[m] = U[m]
    <3>1. CASE m \in LeafIds
      <4>1. Under[m] = {LeafPoints(m)[k] : k \in 1 .. nodes[m].len}
        BY <2>2, <3>1 DEF UnderOf
      <4> QED BY <1>3, <3>1, <4>1
    <3>2. CASE m \notin LeafIds
      <4>1. Under[m] = Under[nodes[m].left] \cup Under[nodes[m].right]
        BY <2>2, <3>2 DEF UnderOf
      <4> QED BY <1>4, <2>3, <3>2, <4>1
    <3> QED BY <3>1, <3>2
  <2>4. PICK N, f : N = Len(nodes) /\ f = Under OBVIOUS
  <2>5. N \in Nat /\ NodeIds = 1 .. N BY <1>2, <2>4
  <2>6. \A m \in 1 .. N :
          (\A k \in 1 .. N : m < k => f[k] = U[k]) => f[m] = U[m]
    BY <2>3, <2>4, <2>5
  <2>7. AgreeBackwards(N, f, U) BY <2>6 DEF AgreeBackwards
  <2>8. Agree(N, f, U) BY <2>5, <2>7, FromTheEnd
  <2> QED BY <2>4, <2>5, <2>8 DEF Agree
<1>6. \A n \in NodeIds : Height[n] = H[n]
  <2> DEFINE h == [n \in NodeIds |-> H[n]]
  <2>1. h = HeightOf(h) BY <1>3, <1>4 DEF HeightOf
  <2>2. Height = HeightOf(Height)
    <3>1. \E f : f = HeightOf(f) BY <2>1
    <3> QED BY <3>1, Unfolded
  <2>3. ASSUME NEW m \in NodeIds,
               \A k \in NodeIds : m < k => Height[k] = H[k]
        PROVE  Height[m] = H[m]
    <3>1. CASE m \in LeafIds
      <4>1. Height[m] = 0 BY <2>2, <3>1 DEF HeightOf
      <4> QED BY <1>3, <3>1, <4>1
    <3>2. CASE m \notin LeafIds
      <4>1. Height[m] = 1 + Max({Height[nodes[m].left], Height[nodes[m].right]})
        BY <2>2, <3>2 DEF HeightOf
      <4> QED BY <1>4, <2>3, <3>2, <4>1
    <3> QED BY <3>1, <3>2
  <2>4. PICK N, f : N = Len(nodes) /\ f = Height OBVIOUS
  <2>5. N \in Nat /\ NodeIds = 1 .. N BY <1>2, <2>4
  <2>6. \A m \in 1 .. N :
          (\A k \in 1 .. N : m < k => f[k] = H[k]) => f[m] = H[m]
    BY <2>3, <2>4, <2>5
  <2>7. AgreeBackwards(N, f, H) BY <2>6 DEF AgreeBackwards
  <2>8. Agree(N, f, H) BY <2>5, <2>7, FromTheEnd
  <2> QED BY <2>4, <2>5, <2>8 DEF Agree
<1> QED BY <1>5, <1>6

\* Every vector is in one leaf, once.
LEMMA StoredOnce ==
  ASSUME NEW U, NEW H, KdInv(U, H), KdIdle, keys = {}, NEW i \in VectorIds
  PROVE  Cardinality({at \in LeafIds \X (1 .. KD_LEAF_SIZE) :
                        /\ at[2] <= nodes[at[1]].len
                        /\ LeafPoints(at[1])[at[2]] = i}) = 1
<1> DEFINE T == {at \in LeafIds \X (1 .. KD_LEAF_SIZE) :
                   /\ at[2] <= nodes[at[1]].len
                   /\ LeafPoints(at[1])[at[2]] = i}
<1>1. /\ PlacementInv(U) /\ calls = <<>> /\ Leaves = LeafIds /\ Frames = {}
      /\ KD_LEAF_SIZE \in Nat
  BY AllComplete, LeafSize DEF KdInv, KdIdle
<1>2. ASSUME NEW m \in LeafIds
      PROVE  /\ nodes[m].len \in Nat /\ nodes[m].len <= KD_LEAF_SIZE
             /\ \A k \in 1 .. nodes[m].len : LeafPoints(m)[k] \in U[m]
             /\ \A x \in U[m] : \E k \in 1 .. nodes[m].len : LeafPoints(m)[k] = x
             /\ \A k, l \in 1 .. nodes[m].len :
                  LeafPoints(m)[k] = LeafPoints(m)[l] => k = l
  BY <1>1, LeafPointsAre
<1>3. PICK m \in LeafIds : i \in U[m]
  BY <1>1 DEF PlacementInv, Untouched
<1>4. PICK k \in 1 .. nodes[m].len : LeafPoints(m)[k] = i BY <1>2, <1>3
<1>5. <<m, k>> \in T
  <2>1. k \in 1 .. KD_LEAF_SIZE /\ k <= nodes[m].len BY <1>1, <1>2, <1>4
  <2> QED BY <1>4, <2>1
<1>6. ASSUME NEW at \in T PROVE at = <<m, k>>
  <2>1. PICK n \in LeafIds, l \in 1 .. KD_LEAF_SIZE :
          at = <<n, l>> /\ l <= nodes[n].len /\ LeafPoints(n)[l] = i
    OBVIOUS
  <2>2. l \in 1 .. nodes[n].len BY <1>1, <1>2, <2>1
  <2>3. i \in U[n] BY <1>2, <2>1, <2>2
  <2>4. n = m BY <1>1, <1>3, <2>3 DEF PlacementInv
  <2>5. l = k BY <1>2, <1>4, <2>1, <2>2, <2>4
  <2> QED BY <2>1, <2>4, <2>5
<1>7. T = {<<m, k>>} BY <1>5, <1>6
<1> QED BY <1>7, FS_Singleton

\* The properties of a kd index that is built.
LEMMA KdIndexIs ==
  ASSUME NEW U, NEW H, KdInv(U, H), KdIdle, keys = {}
  PROVE  EveryVectorStoredOnce /\ BoxesEnclose /\ TreesBalanced
<1>1. calls = <<>> BY DEF KdIdle
<1>2. /\ KdTypes /\ TreeInv(U, H) /\ PartsInv(U) /\ Complete = NodeIds
  BY <1>1, AllComplete DEF KdInv
<1>3. \A n \in NodeIds : Under[n] = U[n] /\ Height[n] = H[n]
  BY <1>1, SettledIs
<1>4. \A n \in NodeIds : NodeInv(U, H, n) BY <1>2 DEF TreeInv
<1>5. EveryVectorStoredOnce
  <2>1. ASSUME NEW p \in 1 .. Len(parts)
        PROVE  Under[parts[p].root] = Bucket(parts[p].key)
    BY <1>2, <1>3 DEF PartsInv
  <2> QED BY <2>1, StoredOnce DEF EveryVectorStoredOnce
<1>6. BoxesEnclose
  <2> SUFFICES ASSUME NEW n \in NodeIds
               PROVE  /\ Cardinality(U[n]) = nodes[n].len
                      /\ \A d \in Dims :
                           /\ nodes[n].box.lo[d] = Min({vecs[i][d] : i \in U[n]})
                           /\ nodes[n].box.hi[d] = Max({vecs[i][d] : i \in U[n]})
    BY <1>3 DEF BoxesEnclose
  <2>1. /\ U[n] \in SUBSET VectorIds /\ U[n] # {}
        /\ nodes[n].len = Cardinality(U[n]) /\ nodes[n].box = Bounds(U[n])
    BY <1>4 DEF NodeInv
  <2>2. input \in Inputs BY <1>2 DEF KdTypes
  <2>3. \A d \in Dims : /\ Bounds(U[n]).lo[d] = Min({vecs[i][d] : i \in U[n]})
                        /\ Bounds(U[n]).hi[d] = Max({vecs[i][d] : i \in U[n]})
    BY <2>1, <2>2, BoundsTouch
  <2> QED BY <2>1, <2>3
<1>7. TreesBalanced
  <2> SUFFICES ASSUME NEW n \in NodeIds, nodes[n].len > KD_LEAF_SIZE
               PROVE  KD_LEAF_SIZE * 2 ^ (H[n] - 1) < nodes[n].len
    BY <1>3 DEF TreesBalanced
  <2>1. CASE nodes[n].left = NoNode
    <3>1. nodes[n].len <= KD_LEAF_SIZE BY <1>4, <2>1 DEF NodeInv, LeafNode
    <3>2. nodes[n].len \in Nat
      <4>1. nodes[n] \in NodeTypes BY <1>2, FrameTypes
      <4> QED BY <4>1 DEF NodeTypes
    <3> QED BY <3>1, <3>2, LeafSize
  <2>2. CASE nodes[n].left # NoNode BY <1>4, <2>2 DEF NodeInv, InnerNode
  <2> QED BY <2>1, <2>2
<1> QED BY <1>5, <1>6, <1>7

-----------------------------------------------------------------------------
(***************************************************************************)
(* Sums of squares.                                                        *)
(***************************************************************************)
\* f has the partial sums of the squares of gap.
Sums(n, gap, f) ==
  f = [d \in 0 .. n |-> IF d = 0 THEN 0 ELSE f[d - 1] + gap[d] * gap[d]]

\* A set of numbers from 0 to n has a least.
LEMMA LeastIn ==
  ASSUME NEW n \in Nat, NEW S \in SUBSET (0 .. n), S # {}
  PROVE  \E k \in S : \A j \in S : k <= j
<1>1. IsFiniteSet(0 .. n) BY FS_Interval
<1>2. IsFiniteSet(S) BY <1>1, FS_Subset
<1>3. S \in SUBSET Int OBVIOUS
<1> QED BY <1>2, <1>3, Extremes

\* Partial sums exist: a shortest gap without them would have one less to sum.
LEMMA SumsExist ==
  ASSUME NEW n \in Nat, NEW gap
  PROVE  \E f : Sums(n, gap, f)
<1> DEFINE S == {k \in 0 .. n : ~ \E f : Sums(k, gap, f)}
<1>1. SUFFICES ASSUME n \in S PROVE FALSE OBVIOUS
<1>2. PICK k \in S : \A j \in S : k <= j
  <2>1. S \in SUBSET (0 .. n) /\ S # {} BY <1>1
  <2> HIDE DEF S
  <2> QED BY <2>1, LeastIn
<1>3. CASE k = 0
  <2> DEFINE f == [d \in 0 .. 0 |-> 0]
  <2>1. Sums(k, gap, f) BY <1>3 DEF Sums
  <2> QED BY <1>2, <2>1
<1>4. CASE k # 0
  <2>1. k - 1 \in 0 .. n /\ k - 1 \notin S BY <1>2, <1>4
  <2>2. PICK g : Sums(k - 1, gap, g) BY <2>1
  <2> DEFINE f == [d \in 0 .. k |-> IF d = k THEN g[k - 1] + gap[k] * gap[k] ELSE g[d]]
             s == [d \in 0 .. k |-> IF d = 0 THEN 0 ELSE f[d - 1] + gap[d] * gap[d]]
  <2>3. ASSUME NEW d \in 0 .. k PROVE f[d] = s[d]
    <3>1. k \in Nat BY <1>2
    <3>2. CASE d = k
      <4>1. k - 1 \in 0 .. k /\ k - 1 # k BY <1>4, <3>1
      <4> QED BY <1>4, <3>1, <3>2, <4>1
    <3>3. CASE d # k
      <4>1. d \in 0 .. k - 1 BY <3>1, <3>3
      <4>2. f[d] = g[d] BY <3>3
      <4>3. g[d] = IF d = 0 THEN 0 ELSE g[d - 1] + gap[d] * gap[d]
        BY <2>2, <4>1 DEF Sums
      <4>4. d # 0 => d - 1 \in 0 .. k /\ d - 1 # k BY <3>1, <4>1
      <4>5. d # 0 => f[d - 1] = g[d - 1] BY <4>4
      <4> QED BY <4>2, <4>3, <4>5
    <3> QED BY <3>2, <3>3
  <2>4. f = s BY <2>3
  <2>5. Sums(k, gap, f) BY <2>4 DEF Sums
  <2> QED BY <1>2, <2>5
<1> QED BY <1>3, <1>4

\* Partial sums are numbers, and no less where every square is no less.
LEMMA SumsOrdered ==
  ASSUME NEW n \in Nat, NEW gap, NEW f, NEW other, NEW e,
         Sums(n, gap, f), Sums(n, other, e),
         \A d \in 1 .. n :
           /\ gap[d] \in Int /\ other[d] \in Int
           /\ gap[d] * gap[d] <= other[d] * other[d]
  PROVE  \A d \in 0 .. n : f[d] \in Int /\ e[d] \in Int /\ f[d] <= e[d]
<1> DEFINE S == {d \in 0 .. n : ~(f[d] \in Int /\ e[d] \in Int /\ f[d] <= e[d])}
<1>1. SUFFICES ASSUME S # {} PROVE FALSE OBVIOUS
<1>2. PICK k \in S : \A j \in S : k <= j
  <2>1. S \in SUBSET (0 .. n) OBVIOUS
  <2> HIDE DEF S
  <2> QED BY <1>1, <2>1, LeastIn
<1>3. /\ f[k] = IF k = 0 THEN 0 ELSE f[k - 1] + gap[k] * gap[k]
      /\ e[k] = IF k = 0 THEN 0 ELSE e[k - 1] + other[k] * other[k]
  BY <1>2 DEF Sums
<1>4. CASE k = 0 BY <1>2, <1>3, <1>4
<1>5. CASE k # 0
  <2>1. k - 1 \in 0 .. n /\ k - 1 \notin S /\ k \in 1 .. n BY <1>2, <1>5
  <2>2. f[k - 1] \in Int /\ e[k - 1] \in Int /\ f[k - 1] <= e[k - 1] BY <2>1
  <2>3. PICK x \in Int, y \in Int : x = gap[k] * gap[k] /\ y = other[k] * other[k]
    BY <2>1
  <2>4. x <= y BY <2>1, <2>3
  <2>5. f[k] = f[k - 1] + x /\ e[k] = e[k - 1] + y BY <1>3, <1>5, <2>3
  <2>6. f[k] \in Int /\ e[k] \in Int /\ f[k] <= e[k] BY <2>2, <2>4, <2>5
  <2> QED BY <1>2, <2>6
<1> QED BY <1>4, <1>5

\* The sum of squares is the last of the partial sums.
LEMMA SumOfSquaresIs ==
  ASSUME NEW n \in Nat, NEW gap \in [1 .. n -> Int]
  PROVE  \E f : Sums(n, gap, f) /\ SumOfSquares(gap) = f[n]
<1>1. Len(gap) = n OBVIOUS
<1> DEFINE s == CHOOSE f : Sums(n, gap, f)
<1>2. Sums(n, gap, s) BY SumsExist
<1>3. SumOfSquares(gap) = s[n] BY <1>1, Zenon DEF SumOfSquares, Sums
<1> QED BY <1>2, <1>3

\* Sums of squares are numbers, and no less where every square is no less.
LEMMA SquaresOrdered ==
  ASSUME NEW n \in Nat, NEW gap \in [1 .. n -> Int], NEW other \in [1 .. n -> Int],
         \A d \in 1 .. n : gap[d] * gap[d] <= other[d] * other[d]
  PROVE  /\ SumOfSquares(gap) \in Int /\ SumOfSquares(other) \in Int
         /\ SumOfSquares(gap) <= SumOfSquares(other)
<1>1. PICK f : Sums(n, gap, f) /\ SumOfSquares(gap) = f[n] BY SumOfSquaresIs
<1>2. PICK e : Sums(n, other, e) /\ SumOfSquares(other) = e[n] BY SumOfSquaresIs
<1>3. \A d \in 1 .. n : gap[d] \in Int /\ other[d] \in Int OBVIOUS
<1>4. \A d \in 0 .. n : f[d] \in Int /\ e[d] \in Int /\ f[d] <= e[d]
  BY <1>1, <1>2, <1>3, SumsOrdered
<1>5. n \in 0 .. n OBVIOUS
<1> QED BY <1>1, <1>2, <1>4, <1>5

\* Distances are numbers (blkDist).
LEMMA DistanceIs ==
  ASSUME NEW q \in [Dims -> Int], NEW v \in [Dims -> Int]
  PROVE  SquaredDistance(q, v) \in Int
<1> DEFINE gap == [d \in DOMAIN q |-> q[d] - v[d]]
<1>1. DIMS \in Nat BY InputConstants
<1>2. gap \in [1 .. DIMS -> Int] BY DEF Dims
<1>3. \A d \in 1 .. DIMS : gap[d] * gap[d] <= gap[d] * gap[d]
  <2>1. \A d \in 1 .. DIMS : gap[d] \in Int BY <1>2
  <2> HIDE DEF gap
  <2> QED BY <2>1
<1> HIDE DEF gap
<1>4. SumOfSquares(gap) \in Int BY <1>1, <1>2, <1>3, SquaresOrdered
<1> QED BY <1>4 DEF SquaredDistance, gap

\* How far a number is outside of an interval is no more than its distance from
\* what is in it.
LEMMA GapIs ==
  ASSUME NEW x \in Int, NEW lo \in Int, NEW hi \in Int, NEW v \in Int,
         lo <= v, v <= hi
  PROVE  Gap(x, lo, hi) \in Int
         /\ Gap(x, lo, hi) * Gap(x, lo, hi) <= (x - v) * (x - v)
<1> DEFINE S == {lo - x, x - hi, 0}
<1>1. PICK g : g = Gap(x, lo, hi) OBVIOUS
<1>2. S \in SUBSET Int /\ S # {} OBVIOUS
<1>3. IsFiniteSet(S)
  <2> DEFINE T == {lo - x} \cup {x - hi}
  <2>1. S = T \cup {0} OBVIOUS
  <2>2. IsFiniteSet(T) BY FS_Singleton, FS_Union
  <2> HIDE DEF T, S
  <2>3. IsFiniteSet(T \cup {0}) BY <2>2, FS_Singleton, FS_Union
  <2> QED BY <2>1, <2>3
<1>4. g \in S /\ \A y \in S : y <= g
  <2>1. g = Max(S) BY <1>1 DEF Gap
  <2> HIDE DEF S
  <2> QED BY <1>2, <1>3, <2>1, Extremes
<1>5. g \in Nat BY <1>4
<1>6. PICK w \in Nat : g <= w /\ w * w = (x - v) * (x - v)
  <2>1. CASE x <= v
    <3>1. v - x \in Nat /\ g <= v - x BY <1>4, <1>5, <2>1
    <3>2. (v - x) * (v - x) = (x - v) * (x - v) OBVIOUS
    <3> QED BY <3>1, <3>2
  <2>2. CASE v <= x
    <3>1. x - v \in Nat /\ g <= x - v BY <1>4, <1>5, <2>2
    <3> QED BY <3>1
  <2> QED BY <2>1, <2>2
<1>7. g * g <= w * w
  <2>1. g * g <= g * w BY <1>5, <1>6
  <2>2. g * w <= w * w BY <1>5, <1>6
  <2>3. g * g \in Int /\ g * w \in Int /\ w * w \in Int BY <1>5, <1>6
  <2> QED BY <2>1, <2>2, <2>3
<1> QED BY <1>1, <1>5, <1>6, <1>7

\* The bound for a box is one for what is in it.
LEMMA BoundIs ==
  ASSUME NEW q \in [Dims -> Int], NEW v \in [Dims -> Int], NEW box,
         \A d \in Dims : /\ box.lo[d] \in Int /\ box.hi[d] \in Int
                         /\ box.lo[d] <= v[d] /\ v[d] <= box.hi[d]
  PROVE  BoxLowerBound(q, box) <= SquaredDistance(q, v)
<1> DEFINE gap == [d \in DOMAIN q |-> Gap(q[d], box.lo[d], box.hi[d])]
           other == [d \in DOMAIN q |-> q[d] - v[d]]
<1>1. DIMS \in Nat /\ Dims = 1 .. DIMS BY InputConstants DEF Dims
<1>2. ASSUME NEW d \in 1 .. DIMS
      PROVE  gap[d] \in Int /\ other[d] \in Int
             /\ gap[d] * gap[d] <= other[d] * other[d]
  <2>1. d \in DOMAIN q /\ q[d] \in Int /\ v[d] \in Int BY <1>1
  <2>2. PICK g : g = Gap(q[d], box.lo[d], box.hi[d]) OBVIOUS
  <2>3. g \in Int /\ g * g <= (q[d] - v[d]) * (q[d] - v[d])
    BY <1>1, <2>1, <2>2, GapIs
  <2>4. gap[d] = g /\ other[d] = q[d] - v[d] BY <2>1, <2>2
  <2>5. other[d] \in Int BY <2>1, <2>4
  <2> QED BY <2>3, <2>4, <2>5
<1>3. gap \in [1 .. DIMS -> Int] /\ other \in [1 .. DIMS -> Int] BY <1>1, <1>2
<1> HIDE DEF gap, other
<1>4. SumOfSquares(gap) <= SumOfSquares(other)
  BY <1>1, <1>2, <1>3, SquaresOrdered
<1> QED BY <1>4 DEF BoxLowerBound, SquaredDistance, gap, other

\* Every vector has a nearest center.
LEMMA NearestIs ==
  ASSUME NEW v \in [Dims -> Int], centers \in Seq([Dims -> Int]), centers # <<>>
  PROVE  NearestCenter(v) \in Clusters
<1> DEFINE x == [c \in Clusters |-> SquaredDistance(v, centers[c])]
<1>1. Len(centers) \in Nat /\ Len(centers) # 0 BY EmptySeq
<1>2. /\ Clusters \in SUBSET Int /\ IsFiniteSet(Clusters) /\ Clusters # {}
  <2>1. IsFiniteSet(1 .. Len(centers)) BY <1>1, FS_Interval
  <2>2. 1 \in 1 .. Len(centers) BY <1>1
  <2>3. 1 .. Len(centers) \in SUBSET Int BY <1>1
  <2>4. Clusters = 1 .. Len(centers) BY DEF Clusters
  <2> QED BY <2>1, <2>2, <2>3, <2>4
<1>3. \A c \in Clusters : x[c] \in Int
  <2>1. \A c \in Clusters : centers[c] \in [Dims -> Int] BY DEF Clusters
  <2> QED BY <2>1, DistanceIs
<1>4. PICK c \in Clusters : \A o \in Clusters : x[c] < x[o] \/ (x[c] = x[o] /\ c <= o)
  <2> HIDE DEF x
  <2> QED BY <1>2, <1>3, FirstOfLeast
<1>5. /\ \A o \in Clusters : SquaredDistance(v, centers[c]) <= SquaredDistance(v, centers[o])
      /\ \A o \in 1 .. c - 1 :
           SquaredDistance(v, centers[c]) < SquaredDistance(v, centers[o])
  <2>1. \A o \in Clusters : x[c] <= x[o] BY <1>3, <1>4
  <2>2. \A o \in 1 .. c - 1 : o \in Clusters /\ o < c BY <1>1 DEF Clusters
  <2>3. \A o \in 1 .. c - 1 : x[c] < x[o] BY <1>2, <1>4, <2>2
  <2> QED BY <2>1, <2>2, <2>3
<1> QED BY <1>5 DEF NearestCenter

-----------------------------------------------------------------------------
(***************************************************************************)
(* What holds while the clusters are stored.                               *)
(***************************************************************************)
\* Every vector has a cluster, and the clusters are counted.
AssignInv ==
  /\ assignments \in [VectorIds -> Clusters]
  /\ counts = [c \in Clusters |-> Cardinality({i \in VectorIds : assignments[i] = c})]

\* A cluster's blocks begin where those of the one before end.
OffsetInv ==
  /\ block_offsets \in Seq(Nat) /\ block_offsets # <<>>
  /\ Len(block_offsets) <= Len(centers) + 1
  /\ \A c \in 1 .. Len(block_offsets) - 1 :
       block_offsets[c + 1] = block_offsets[c] + BlocksFor(counts[c])
  /\ \A c, d \in 1 .. Len(block_offsets) :
       c <= d => block_offsets[c] <= block_offsets[d]

\* The clusters stored so far are in their blocks, in order.
StoreInv ==
  /\ Len(block_offsets) = Len(centers) + 1
  /\ slots \in Seq(VectorIds \cup {PAD})
  /\ Len(slots) = block_offsets[Len(centers) + 1] * LANES
  /\ boxes \in Seq({ClusterBox(ClusterIdx(c)) : c \in Clusters})
  /\ Len(boxes) <= Len(centers)
  /\ \A c \in 1 .. Len(boxes) :
       /\ boxes[c] = ClusterBox(ClusterIdx(c))
       /\ \A k \in 1 .. counts[c] :
            slots[block_offsets[c] * LANES + k] = ClusterIdx(c)[k]

\* There is a center at least.
CentersInv == centers \in Seq([Dims -> Int]) /\ centers # <<>>

\* The inductive invariant of the clustered mode.
IvfInv ==
  /\ CentersInv
  /\ step # "assign" => AssignInv /\ OffsetInv
  /\ step \in {"assign", "offsets"} => boxes = <<>>
  /\ step \in {"codes", "ivf_built"} => StoreInv
  /\ step = "ivf_built" => Len(boxes) = Len(centers)

\* Clusters are numbered from 1, as their centers.
LEMMA ClustersAre ==
  ASSUME CentersInv
  PROVE  /\ Len(centers) \in Nat \ {0} /\ Clusters \in SUBSET Nat
         /\ \A c \in Clusters : centers[c] \in [Dims -> Int]
         /\ \A c \in Clusters : c \in 1 .. Len(centers)
BY EmptySeq DEF CentersInv, Clusters

\* A vector has whole coordinates.
LEMMA VectorIs ==
  ASSUME input \in Inputs, NEW i \in VectorIds
  PROVE  vecs[i] \in [Dims -> Int]
BY Vectors, CoordinateRange

\* The vectors of a cluster, in the order they are stored in.
LEMMA ClusterIdxIs ==
  ASSUME input \in Inputs, CentersInv, AssignInv, NEW c \in Clusters
  PROVE  /\ counts[c] \in Nat /\ counts[c] <= Len(vecs)
         /\ ClusterIdx(c) \in Seq(VectorIds) /\ Len(ClusterIdx(c)) = counts[c]
         /\ Range(ClusterIdx(c)) = {i \in VectorIds : assignments[i] = c}
         /\ \A m, n \in 1 .. counts[c] :
              ClusterIdx(c)[m] = ClusterIdx(c)[n] => m = n
<1> DEFINE S == {i \in VectorIds : assignments[i] = c}
           x == [i \in VectorIds |-> SquaredDistance(vecs[i], centers[c])]
<1>1. counts[c] = Cardinality(S) BY DEF AssignInv
<1>2. /\ VectorIds \in SUBSET Nat /\ IsFiniteSet(VectorIds)
      /\ Len(vecs) \in Nat
  BY Vectors
<1>3. S \in SUBSET VectorIds OBVIOUS
<1>4. \A i \in S : x[i] \in Int
  <2>1. centers[c] \in [Dims -> Int] BY ClustersAre
  <2> QED BY <1>3, <2>1, VectorIs, DistanceIs
<1>5. ClusterIdx(c) = InOrder(S, x) BY DEF ClusterIdx
<1> HIDE DEF S, x
<1>6. /\ IsFiniteSet(S) /\ Cardinality(S) <= Cardinality(VectorIds)
  BY <1>2, <1>3, FS_Subset
<1>7. Cardinality(VectorIds) = Len(vecs) BY <1>2, FS_Interval DEF VectorIds
<1>8. S \in SUBSET Int BY <1>2, <1>3
<1>9. /\ InOrder(S, x) \in Seq(S) /\ Len(InOrder(S, x)) = Cardinality(S)
      /\ Range(InOrder(S, x)) = S /\ Cardinality(S) \in Nat
      /\ \A m, n \in 1 .. Cardinality(S) :
           InOrder(S, x)[m] = InOrder(S, x)[n] => m = n
  BY <1>4, <1>6, <1>8, InOrderKeeps
<1>10. InOrder(S, x) \in Seq(VectorIds) BY <1>3, <1>9
<1> QED BY <1>1, <1>5, <1>6, <1>7, <1>9, <1>10 DEF S

\* Offsets in blocks and in lanes are ordered alike.
LEMMA TimesOrdered ==
  ASSUME NEW a \in Nat, NEW b \in Nat, NEW k \in Nat, a <= b
  PROVE  a * k \in Nat /\ a * k <= b * k
<1>1. PICK e \in Nat : b = a + e
  <2>1. b - a \in Nat /\ b = a + (b - a) OBVIOUS
  <2> QED BY <2>1
<1>2. b * k = a * k + e * k BY <1>1
<1>3. a * k \in Nat /\ e * k \in Nat BY <1>1
<1> QED BY <1>2, <1>3

\* The blocks of a cluster have room for it.
LEMMA BlocksEnough ==
  ASSUME NEW n \in Nat
  PROVE  BlocksFor(n) \in Nat /\ n <= BlocksFor(n) * LANES
<1>1. LANES \in Nat \ {0} BY InputConstants
<1> DEFINE m == n + LANES - 1
<1>2. m \in Nat BY <1>1
<1> HIDE DEF m
<1>3. /\ m \div LANES \in Nat /\ m % LANES \in 0 .. LANES - 1
      /\ m = (m \div LANES) * LANES + (m % LANES)
  BY <1>1, <1>2, Divided
<1>4. PICK q \in Nat : q = (m \div LANES) * LANES BY <1>1, <1>3
<1>5. n <= q BY <1>1, <1>3, <1>4 DEF m
<1> QED BY <1>3, <1>4, <1>5 DEF BlocksFor, m

\* Where a cluster's blocks are.
LEMMA Region ==
  ASSUME input \in Inputs, CentersInv, AssignInv, OffsetInv,
         Len(block_offsets) = Len(centers) + 1, NEW c \in Clusters
  PROVE  /\ block_offsets[c] * LANES \in Nat
         /\ block_offsets[c] * LANES + counts[c] <= block_offsets[c + 1] * LANES
         /\ \A d \in 1 .. Len(centers) + 1 :
              c < d => block_offsets[c + 1] * LANES <= block_offsets[d] * LANES
         /\ \A d \in 1 .. Len(centers) + 1 : block_offsets[d] * LANES \in Nat
<1>1. LANES \in Nat \ {0} BY InputConstants
<1>2. Len(centers) \in Nat \ {0} /\ c \in 1 .. Len(centers) BY ClustersAre
<1>3. \A d \in 1 .. Len(centers) + 1 : block_offsets[d] \in Nat
  BY DEF OffsetInv
<1>4. /\ c \in 1 .. Len(centers) + 1 /\ c + 1 \in 1 .. Len(centers) + 1
      /\ c \in 1 .. Len(block_offsets) - 1
  BY <1>2
<1>5. counts[c] \in Nat BY ClusterIdxIs
<1>6. block_offsets[c + 1] = block_offsets[c] + BlocksFor(counts[c])
  BY <1>4 DEF OffsetInv
<1>7. BlocksFor(counts[c]) \in Nat /\ counts[c] <= BlocksFor(counts[c]) * LANES
  BY <1>5, BlocksEnough
<1>8. PICK a \in Nat, b \in Nat : a = block_offsets[c] /\ b = BlocksFor(counts[c])
  BY <1>3, <1>4, <1>7
<1>9. (a + b) * LANES = a * LANES + b * LANES /\ a * LANES \in Nat /\ b * LANES \in Nat
  BY <1>1
<1>10. a * LANES + counts[c] <= (a + b) * LANES
  <2>1. PICK p \in Nat, q \in Nat : p = a * LANES /\ q = b * LANES BY <1>9
  <2>2. counts[c] <= q BY <1>7, <1>8, <2>1
  <2>3. p + counts[c] <= p + q BY <1>5, <2>2
  <2> QED BY <1>9, <2>1, <2>3
<1>11. ASSUME NEW d \in 1 .. Len(centers) + 1, c < d
       PROVE  block_offsets[c + 1] * LANES <= block_offsets[d] * LANES
  <2>1. c + 1 <= d BY <1>2, <1>11
  <2>2. block_offsets[c + 1] <= block_offsets[d] BY <1>4, <2>1 DEF OffsetInv
  <2> QED BY <1>1, <1>3, <1>4, <2>2, TimesOrdered
<1>12. \A d \in 1 .. Len(centers) + 1 : block_offsets[d] * LANES \in Nat
  BY <1>1, <1>3
<1> QED BY <1>4, <1>6, <1>8, <1>10, <1>11, <1>12

\* The operators see only the variables they read.
LEMMA SameClusters ==
  ASSUME input' = input, centers' = centers
  PROVE  /\ vecs' = vecs /\ VectorIds' = VectorIds /\ Clusters' = Clusters
         /\ CentersInv' = CentersInv
         /\ \A s : ClusterBox(s)' = ClusterBox(s)
<1>1. vecs' = vecs /\ VectorIds' = VectorIds /\ \A S : Bounds(S)' = Bounds(S)
  BY SameInput
<1>2. Clusters' = Clusters /\ CentersInv' = CentersInv
  BY DEF Clusters, CentersInv
<1>3. \A s : ClusterBox(s)' = ClusterBox(s) BY <1>1 DEF ClusterBox
<1> QED BY <1>1, <1>2, <1>3

\* A cluster's order depends on the vectors, centers and assignments only.
LEMMA SameAssignments ==
  ASSUME input' = input, centers' = centers, assignments' = assignments
  PROVE  \A c : ClusterIdx(c)' = ClusterIdx(c)
BY SameClusters DEF ClusterIdx

\* Parts of the invariant whose variables stay stay true.
LEMMA AssignKept ==
  ASSUME input' = input, centers' = centers, assignments' = assignments,
         counts' = counts, AssignInv
  PROVE  AssignInv'
BY SameClusters DEF AssignInv

LEMMA OffsetKept ==
  ASSUME centers' = centers, counts' = counts, block_offsets' = block_offsets,
         OffsetInv
  PROVE  OffsetInv'
BY DEF OffsetInv, BlocksFor

LEMMA StoreKept ==
  ASSUME UNCHANGED <<input, slots, ivfVars>>, StoreInv
  PROVE  StoreInv'
<1>1. /\ input' = input /\ slots' = slots /\ centers' = centers
      /\ assignments' = assignments /\ counts' = counts
      /\ block_offsets' = block_offsets /\ boxes' = boxes
  BY DEF ivfVars
<1>2. /\ VectorIds' = VectorIds /\ Clusters' = Clusters
      /\ \A s : ClusterBox(s)' = ClusterBox(s)
      /\ \A c : ClusterIdx(c)' = ClusterIdx(c)
  BY <1>1, SameClusters, SameAssignments
<1>3. \A c : ClusterBox(ClusterIdx(c))' = ClusterBox(ClusterIdx(c))
  BY <1>1, <1>2, SameInput DEF ClusterBox
<1>4. {ClusterBox(ClusterIdx(c)) : c \in Clusters}'
        = {ClusterBox(ClusterIdx(c)) : c \in Clusters}
  BY <1>2, <1>3
<1> QED BY <1>1, <1>2, <1>3, <1>4 DEF StoreInv

\* Centers are chosen: nothing is assigned yet.
LEMMA KMeansStep ==
  ASSUME boxes = <<>>, KMeans
  PROVE  IvfInv'
<1>1. centers' \in CenterSets /\ step' = "assign" /\ boxes' = <<>> BY DEF KMeans
<1>2. CentersInv' BY <1>1, CentersAssumption DEF CentersInv
<1> QED BY <1>1, <1>2 DEF IvfInv

\* Every vector goes to a nearest center, which there is.
LEMMA AssignStep ==
  ASSUME input \in Inputs, IvfInv, Assign
  PROVE  IvfInv'
<1>1. /\ step = "assign" /\ step' = "offsets" /\ input' = input
      /\ centers' = centers /\ boxes' = boxes /\ block_offsets' = <<0>>
      /\ assignments' = [i \in VectorIds |-> NearestCenter(vecs[i])]
      /\ counts' =
           [c \in Clusters |-> Cardinality({i \in VectorIds : assignments'[i] = c})]
  BY DEF Assign
<1>2. CentersInv /\ boxes = <<>> BY <1>1 DEF IvfInv
<1>3. VectorIds' = VectorIds /\ Clusters' = Clusters /\ CentersInv'
  BY <1>1, <1>2, SameClusters
<1>4. \A i \in VectorIds : NearestCenter(vecs[i]) \in Clusters
  BY <1>2, VectorIs, NearestIs DEF CentersInv
<1>5. AssignInv'
  <2>1. assignments' \in [VectorIds -> Clusters] BY <1>1, <1>4
  <2> QED BY <1>1, <1>3, <2>1 DEF AssignInv
<1>6. OffsetInv'
  <2>1. <<0>> \in Seq(Nat) /\ <<0>> # <<>> /\ Len(<<0>>) = 1 /\ <<0>>[1] = 0
    OBVIOUS
  <2>2. Len(centers) \in Nat BY <1>2, ClustersAre
  <2> QED BY <1>1, <2>1, <2>2 DEF OffsetInv
<1> QED BY <1>1, <1>2, <1>3, <1>5, <1>6 DEF IvfInv

\* One more cluster has its blocks.
LEMMA OffsetStep ==
  ASSUME input \in Inputs, IvfInv, Offset
  PROVE  IvfInv'
<1>a. PICK n, b, e : /\ n = Len(block_offsets) /\ b = BlocksFor(counts[n])
                     /\ e = block_offsets[n] + b
  OBVIOUS
<1>1. /\ step = "offsets" /\ step' = step /\ input' = input /\ centers' = centers
      /\ boxes' = boxes /\ assignments' = assignments /\ counts' = counts
      /\ n <= Len(centers) /\ block_offsets' = Append(block_offsets, e)
  BY <1>a DEF Offset
<1>2. CentersInv /\ boxes = <<>> /\ AssignInv /\ OffsetInv BY <1>1 DEF IvfInv
<1>3. CentersInv' /\ AssignInv' BY <1>1, <1>2, SameClusters, AssignKept
<1>4. /\ block_offsets \in Seq(Nat) /\ n \in Nat \ {0}
      /\ \A c \in 1 .. n : block_offsets[c] \in Nat
      /\ \A c \in 1 .. n - 1 :
           block_offsets[c + 1] = block_offsets[c] + BlocksFor(counts[c])
      /\ \A c, d \in 1 .. n : c <= d => block_offsets[c] <= block_offsets[d]
  <2>1. /\ block_offsets \in Seq(Nat) /\ block_offsets # <<>>
        /\ \A c \in 1 .. n - 1 :
             block_offsets[c + 1] = block_offsets[c] + BlocksFor(counts[c])
        /\ \A c, d \in 1 .. n : c <= d => block_offsets[c] <= block_offsets[d]
    BY <1>a, <1>2 DEF OffsetInv
  <2>2. n \in Nat \ {0} BY <1>a, <2>1, EmptySeq
  <2>3. \A c \in 1 .. n : block_offsets[c] \in Nat BY <1>a, <2>1
  <2> QED BY <2>1, <2>2, <2>3
<1>5. Len(centers) \in Nat /\ n \in Clusters
  BY <1>1, <1>2, <1>4, ClustersAre DEF Clusters
<1>6. b \in Nat /\ e \in Nat /\ block_offsets[n] <= e
  <2>1. counts[n] \in Nat BY <1>2, <1>5, ClusterIdxIs
  <2>2. b \in Nat BY <1>a, <2>1, BlocksEnough
  <2>3. block_offsets[n] \in Nat BY <1>4
  <2> QED BY <1>a, <2>2, <2>3
<1>7. /\ block_offsets' \in Seq(Nat) /\ Len(block_offsets') = n + 1
      /\ block_offsets'[n + 1] = e
      /\ \A c \in 1 .. n : block_offsets'[c] = block_offsets[c]
  BY <1>a, <1>1, <1>4, <1>6
<1>8. OffsetInv'
  <2>1. ASSUME NEW c \in 1 .. n
        PROVE  block_offsets'[c + 1] = block_offsets'[c] + BlocksFor(counts'[c])
    <3>1. BlocksFor(counts'[c]) = BlocksFor(counts[c]) BY <1>1
    <3>2. CASE c = n BY <1>a, <1>7, <3>1, <3>2
    <3>3. CASE c # n
      <4>1. c \in 1 .. n - 1 /\ c + 1 \in 1 .. n BY <1>4, <3>3
      <4> QED BY <1>4, <1>7, <3>1, <4>1
    <3> QED BY <3>2, <3>3
  <2>2. ASSUME NEW c \in 1 .. n + 1, NEW d \in 1 .. n + 1, c <= d
        PROVE  block_offsets'[c] <= block_offsets'[d]
    <3>1. CASE d \in 1 .. n
      <4>1. c \in 1 .. n BY <1>4, <2>2, <3>1
      <4> QED BY <1>4, <1>7, <2>2, <3>1, <4>1
    <3>2. CASE d = n + 1 /\ c \in 1 .. n
      <4>1. block_offsets[c] <= block_offsets[n] BY <1>4, <3>2
      <4>2. block_offsets[c] \in Nat /\ block_offsets[n] \in Nat BY <1>4, <3>2
      <4>3. block_offsets[c] <= e BY <1>6, <4>1, <4>2
      <4> QED BY <1>7, <3>2, <4>3
    <3>3. CASE d = n + 1 /\ c = n + 1 BY <1>6, <1>7, <3>3
    <3> QED BY <1>4, <3>1, <3>2, <3>3
  <2>3. block_offsets' # <<>> BY <1>4, <1>7
  <2>4. n + 1 <= Len(centers') + 1 BY <1>1, <1>4, <1>5
  <2>5. 1 .. Len(block_offsets') - 1 = 1 .. n BY <1>4, <1>7
  <2>6. \A c : BlocksFor(counts[c])' = BlocksFor(counts'[c]) BY DEF BlocksFor
  <2> QED BY <1>7, <2>1, <2>2, <2>3, <2>4, <2>5, <2>6 DEF OffsetInv
<1> QED BY <1>1, <1>2, <1>3, <1>8 DEF IvfInv

\* As many lanes are made as the blocks have, all of them padding.
LEMMA AllocateStep ==
  ASSUME input \in Inputs, IvfInv, Allocate
  PROVE  IvfInv'
<1>a. PICK n, m : n = Len(block_offsets) /\ m = block_offsets[n] * LANES OBVIOUS
<1>1. /\ step = "offsets" /\ step' = "codes" /\ input' = input
      /\ centers' = centers /\ boxes' = boxes /\ assignments' = assignments
      /\ counts' = counts /\ block_offsets' = block_offsets
      /\ n > Len(centers) /\ slots' = [a \in 1 .. m |-> PAD]
  BY <1>a DEF Allocate
<1>2. CentersInv /\ boxes = <<>> /\ AssignInv /\ OffsetInv BY <1>1 DEF IvfInv
<1>3. CentersInv' /\ AssignInv' /\ OffsetInv'
  BY <1>1, <1>2, SameClusters, AssignKept, OffsetKept
<1>4. Len(centers) \in Nat BY <1>2, ClustersAre
<1>5. n = Len(centers) + 1 /\ m \in Nat
  <2>1. block_offsets \in Seq(Nat) /\ n <= Len(centers) + 1
    BY <1>a, <1>2 DEF OffsetInv
  <2>2. n = Len(centers) + 1 BY <1>a, <1>1, <1>4, <2>1
  <2>3. n \in 1 .. Len(block_offsets) BY <1>a, <1>4, <2>2
  <2>4. block_offsets[n] \in Nat BY <2>1, <2>3
  <2> QED BY <1>a, <2>2, <2>4, InputConstants
<1>6. StoreInv'
  <2>1. slots' \in [1 .. m -> VectorIds \cup {PAD}] BY <1>1
  <2>2. slots' \in Seq(VectorIds \cup {PAD}) /\ Len(slots') = m BY <1>5, <2>1
  <2>3. VectorIds' = VectorIds BY <1>1, SameClusters
  <2>4. Len(block_offsets') = Len(centers') + 1 BY <1>a, <1>1, <1>5
  <2>5. Len(slots') = block_offsets'[Len(centers') + 1] * LANES
    BY <1>a, <1>1, <1>5, <2>2
  <2>6. /\ boxes' = <<>> /\ Len(boxes') = 0
    BY <1>1, <1>2
  <2>7. \A S : <<>> \in Seq(S) OBVIOUS
  <2>8. slots' \in Seq(VectorIds' \cup {PAD}) BY <2>2, <2>3
  <2>9. boxes' \in Seq({ClusterBox(ClusterIdx(c)) : c \in Clusters}') BY <2>6, <2>7
  <2>10. Len(boxes') <= Len(centers') BY <1>1, <1>4, <2>6
  <2>11. 1 .. Len(boxes') = {} BY <2>6
  <2> QED BY <2>4, <2>5, <2>8, <2>9, <2>10, <2>11 DEF StoreInv
<1> QED BY <1>1, <1>3, <1>6 DEF IvfInv

\* A cluster's points fill lanes of its own blocks and touch no other's.
LEMMA StoreClusterStep ==
  ASSUME input \in Inputs, IvfInv, StoreCluster
  PROVE  IvfInv'
<1>a. PICK n, first, idx, box :
        /\ n = Len(boxes) + 1 /\ first = block_offsets[n] * LANES
        /\ idx = ClusterIdx(n) /\ box = ClusterBox(idx)
  OBVIOUS
<1>1. /\ step = "codes" /\ step' = step /\ input' = input
      /\ centers' = centers /\ assignments' = assignments
      /\ counts' = counts /\ block_offsets' = block_offsets
      /\ n <= Len(centers) /\ boxes' = Append(boxes, box)
      /\ slots' = [a \in DOMAIN slots |->
                     IF a - first \in DOMAIN idx THEN idx[a - first] ELSE slots[a]]
  BY <1>a DEF StoreCluster
<1>2. CentersInv /\ AssignInv /\ OffsetInv /\ StoreInv BY <1>1 DEF IvfInv
<1>3. CentersInv' /\ AssignInv' /\ OffsetInv'
  BY <1>1, <1>2, SameClusters, AssignKept, OffsetKept
<1>4. /\ VectorIds' = VectorIds /\ Clusters' = Clusters
      /\ \A c : ClusterIdx(c)' = ClusterIdx(c)
      /\ \A s : ClusterBox(s)' = ClusterBox(s)
  BY <1>1, SameClusters, SameAssignments
<1>5. /\ \A c : ClusterBox(ClusterIdx(c))' = ClusterBox(ClusterIdx(c))
      /\ {ClusterBox(ClusterIdx(c)) : c \in Clusters}'
           = {ClusterBox(ClusterIdx(c)) : c \in Clusters}
  <2>1. \A c : ClusterBox(ClusterIdx(c))' = ClusterBox(ClusterIdx(c))
    BY <1>1, <1>4, SameInput DEF ClusterBox
  <2> QED BY <1>4, <2>1
<1>6. /\ Len(block_offsets) = Len(centers) + 1
      /\ slots \in Seq(VectorIds \cup {PAD})
      /\ Len(slots) = block_offsets[Len(centers) + 1] * LANES
      /\ boxes \in Seq({ClusterBox(ClusterIdx(c)) : c \in Clusters})
      /\ \A c \in 1 .. Len(boxes) :
           /\ boxes[c] = ClusterBox(ClusterIdx(c))
           /\ \A k \in 1 .. counts[c] :
                slots[block_offsets[c] * LANES + k] = ClusterIdx(c)[k]
  BY <1>2 DEF StoreInv
<1>7. /\ Len(boxes) \in Nat /\ Len(slots) \in Nat /\ Len(centers) \in Nat
      /\ n \in Nat \ {0} /\ n \in Clusters
  BY <1>a, <1>1, <1>2, <1>6, ClustersAre DEF Clusters
<1>8. /\ counts[n] \in Nat /\ idx \in Seq(VectorIds) /\ Len(idx) = counts[n]
      /\ DOMAIN idx = 1 .. counts[n]
  BY <1>a, <1>2, <1>7, ClusterIdxIs
<1>9. /\ first \in Nat /\ first + counts[n] <= Len(slots)
  <2>1. /\ first \in Nat
        /\ first + counts[n] <= block_offsets[n + 1] * LANES
        /\ \A d \in 1 .. Len(centers) + 1 :
             n < d => block_offsets[n + 1] * LANES <= block_offsets[d] * LANES
        /\ \A d \in 1 .. Len(centers) + 1 : block_offsets[d] * LANES \in Nat
    BY <1>a, <1>2, <1>6, <1>7, Region
  <2>2. /\ Len(centers) + 1 \in 1 .. Len(centers) + 1 /\ n < Len(centers) + 1
        /\ n + 1 \in 1 .. Len(centers) + 1
    BY <1>1, <1>7
  <2>3. PICK x \in Nat : x = block_offsets[n + 1] * LANES BY <2>1, <2>2
  <2>4. x <= Len(slots) BY <1>6, <2>1, <2>2, <2>3
  <2> QED BY <1>7, <1>8, <2>1, <2>3, <2>4
<1>10. /\ slots' \in Seq(VectorIds \cup {PAD}) /\ Len(slots') = Len(slots)
       /\ \A a \in 1 .. Len(slots) :
            slots'[a] = IF a - first \in DOMAIN idx THEN idx[a - first] ELSE slots[a]
  <2>1. DOMAIN slots = 1 .. Len(slots) BY <1>6
  <2>2. \A a \in 1 .. Len(slots) :
          slots'[a] = IF a - first \in DOMAIN idx THEN idx[a - first] ELSE slots[a]
    BY <1>1, <2>1
  <2>3. ASSUME NEW a \in 1 .. Len(slots) PROVE slots'[a] \in VectorIds \cup {PAD}
    <3>1. a - first \in DOMAIN idx => idx[a - first] \in VectorIds BY <1>8
    <3>2. slots[a] \in VectorIds \cup {PAD} BY <1>6
    <3> QED BY <2>2, <3>1, <3>2
  <2>4. slots' \in [1 .. Len(slots) -> VectorIds \cup {PAD}] BY <1>1, <2>1, <2>3
  <2> QED BY <1>7, <2>2, <2>4
<1>11. ASSUME NEW k \in 1 .. counts[n] PROVE slots'[first + k] = idx[k]
  <2>1. first + k \in 1 .. Len(slots) /\ (first + k) - first = k
    BY <1>7, <1>8, <1>9
  <2> QED BY <1>8, <1>10, <2>1
<1>12. ASSUME NEW c \in 1 .. Len(boxes), NEW k \in 1 .. counts[c]
       PROVE  slots'[block_offsets[c] * LANES + k] = ClusterIdx(c)[k]
  <2>1. c \in Clusters /\ c < n /\ n \in 1 .. Len(centers) + 1
    BY <1>a, <1>1, <1>7 DEF Clusters
  <2>2. PICK x : x = block_offsets[c] * LANES OBVIOUS
  <2>3. counts[c] \in Nat BY <1>2, <2>1, ClusterIdxIs
  <2>4. /\ x \in Nat /\ x + counts[c] <= block_offsets[c + 1] * LANES
        /\ block_offsets[c + 1] * LANES <= first
        /\ block_offsets[c + 1] * LANES \in Nat
    <3>1. /\ x \in Nat /\ x + counts[c] <= block_offsets[c + 1] * LANES
          /\ \A d \in 1 .. Len(centers) + 1 :
               c < d => block_offsets[c + 1] * LANES <= block_offsets[d] * LANES
          /\ \A d \in 1 .. Len(centers) + 1 : block_offsets[d] * LANES \in Nat
      BY <1>2, <1>6, <2>1, <2>2, Region
    <3>2. c + 1 \in 1 .. Len(centers) + 1 BY <1>7, <2>1
    <3> QED BY <1>a, <2>1, <3>1, <3>2
  <2>5. PICK y \in Nat : y = block_offsets[c + 1] * LANES BY <2>4
  <2>6. PICK m \in Nat : m = counts[c] BY <2>3
  <2>7. k \in 1 .. m /\ x + m <= y /\ y <= first BY <2>4, <2>5, <2>6
  <2>8. PICK a \in Nat : a = x + k BY <2>4, <2>7
  <2>9. a >= 1 /\ a <= first BY <1>9, <2>4, <2>5, <2>7, <2>8
  <2>10. a \in 1 .. Len(slots) BY <1>7, <1>8, <1>9, <2>9
  <2>11. a - first \notin 1 .. counts[n] BY <1>8, <1>9, <2>9
  <2>12. slots'[a] = slots[a] BY <1>8, <1>10, <2>10, <2>11
  <2> QED BY <1>6, <2>2, <2>8, <2>12
<1>13. /\ boxes' \in Seq({ClusterBox(ClusterIdx(c)) : c \in Clusters})
       /\ Len(boxes') = n /\ boxes'[n] = box
       /\ \A c \in 1 .. Len(boxes) : boxes'[c] = boxes[c]
  <2>1. PICK S : S = {ClusterBox(ClusterIdx(c)) : c \in Clusters} OBVIOUS
  <2>2. box \in S BY <1>a, <1>7, <2>1
  <2>3. boxes \in Seq(S) BY <1>6, <2>1
  <2>4. /\ boxes' \in Seq(S) /\ Len(boxes') = Len(boxes) + 1
        /\ boxes'[Len(boxes) + 1] = box
        /\ \A c \in 1 .. Len(boxes) : boxes'[c] = boxes[c]
    BY <1>1, <2>2, <2>3
  <2> QED BY <1>a, <2>1, <2>4
<1>14. ASSUME NEW c \in 1 .. n
       PROVE  /\ boxes'[c] = ClusterBox(ClusterIdx(c))
              /\ \A k \in 1 .. counts[c] :
                   slots'[block_offsets[c] * LANES + k] = ClusterIdx(c)[k]
  <2>1. CASE c = n BY <1>a, <1>11, <1>13, <2>1
  <2>2. CASE c # n
    <3>1. c \in 1 .. Len(boxes) BY <1>a, <1>7, <2>2
    <3> QED BY <1>6, <1>12, <1>13, <3>1
  <2> QED BY <2>1, <2>2
<1>15. StoreInv'
  <2>1. slots' \in Seq(VectorIds' \cup {PAD}) BY <1>4, <1>10
  <2>2. boxes' \in Seq({ClusterBox(ClusterIdx(c)) : c \in Clusters}')
    BY <1>5, <1>13
  <2>3. /\ Len(block_offsets') = Len(centers') + 1
        /\ Len(slots') = block_offsets'[Len(centers') + 1] * LANES
        /\ Len(boxes') <= Len(centers')
    BY <1>1, <1>6, <1>10, <1>13
  <2>4. \A c \in 1 .. Len(boxes') :
          /\ boxes'[c] = ClusterBox(ClusterIdx(c))'
          /\ \A k \in 1 .. counts'[c] :
               slots'[block_offsets'[c] * LANES + k] = ClusterIdx(c)'[k]
    BY <1>1, <1>4, <1>5, <1>13, <1>14
  <2> QED BY <2>1, <2>2, <2>3, <2>4 DEF StoreInv
<1> QED BY <1>1, <1>3, <1>15 DEF IvfInv

\* The last cluster is stored.
LEMMA FinishIvfStep ==
  ASSUME input \in Inputs, IvfInv, FinishIvf
  PROVE  IvfInv'
<1>1. /\ step = "codes" /\ step' = "ivf_built" /\ Len(boxes) = Len(centers)
      /\ UNCHANGED <<input, slots, ivfVars>>
  BY DEF FinishIvf
<1>2. CentersInv /\ AssignInv /\ OffsetInv /\ StoreInv BY <1>1 DEF IvfInv
<1>3. /\ input' = input /\ centers' = centers /\ assignments' = assignments
      /\ counts' = counts /\ block_offsets' = block_offsets /\ boxes' = boxes
  BY <1>1 DEF ivfVars
<1>4. CentersInv' /\ AssignInv' /\ OffsetInv' /\ StoreInv'
  BY <1>1, <1>2, <1>3, SameClusters, AssignKept, OffsetKept, StoreKept
<1> QED BY <1>1, <1>3, <1>4 DEF IvfInv

\* A search reads of a cluster its points, each once, and no padding
\* (scan_cluster): the blocks up to the next offset hold all of them.
LEMMA ClusterPointsAre ==
  ASSUME input \in Inputs, CentersInv, AssignInv, OffsetInv, StoreInv,
         Len(boxes) = Len(centers), NEW c \in Clusters
  PROVE  /\ counts[c] \in Nat /\ counts[c] <= Len(vecs)
         /\ Len(ClusterPoints(c)) = counts[c]
         /\ Range(ClusterPoints(c)) = {i \in VectorIds : assignments[i] = c}
         /\ \A k \in 1 .. counts[c] : ClusterPoints(c)[k] \in VectorIds
                                      /\ assignments[ClusterPoints(c)[k]] = c
         /\ \A i \in VectorIds : assignments[i] = c =>
              \E k \in 1 .. counts[c] : ClusterPoints(c)[k] = i
         /\ \A m, n \in 1 .. counts[c] :
              ClusterPoints(c)[m] = ClusterPoints(c)[n] => m = n
<1>a. PICK first, idx, n, last, pts :
        /\ first = block_offsets[c] * LANES /\ idx = ClusterIdx(c)
        /\ n = counts[c] /\ last = block_offsets[c + 1] * LANES
        /\ pts = SubSeq(slots, first + 1, first + n)
  OBVIOUS
<1>1. /\ n \in Nat /\ n <= Len(vecs) /\ idx \in Seq(VectorIds) /\ Len(idx) = n
      /\ Range(idx) = {i \in VectorIds : assignments[i] = c}
      /\ \A m, l \in 1 .. n : idx[m] = idx[l] => m = l
  BY <1>a, ClusterIdxIs
<1>2. Len(centers) \in Nat /\ c \in 1 .. Len(centers) BY ClustersAre
<1>3. /\ Len(block_offsets) = Len(centers) + 1
      /\ slots \in Seq(VectorIds \cup {PAD}) /\ Len(slots) \in Nat
      /\ Len(slots) = block_offsets[Len(centers) + 1] * LANES
      /\ \A k \in 1 .. n : slots[first + k] = idx[k]
  BY <1>a, <1>2 DEF StoreInv
<1>4. /\ first \in Nat /\ last \in Nat /\ first + n <= last /\ last <= Len(slots)
  <2>1. /\ first \in Nat /\ first + n <= last
        /\ \A d \in 1 .. Len(centers) + 1 : c < d => last <= block_offsets[d] * LANES
        /\ \A d \in 1 .. Len(centers) + 1 : block_offsets[d] * LANES \in Nat
    BY <1>a, <1>3, Region
  <2>2. /\ c + 1 \in 1 .. Len(centers) + 1
        /\ Len(centers) + 1 \in 1 .. Len(centers) + 1 /\ c < Len(centers) + 1
    BY <1>2
  <2> QED BY <1>a, <1>3, <2>1, <2>2
<1>5. ClusterPoints(c) = pts
  <2>1. (IF first + n < last THEN first + n ELSE last) = first + n
    BY <1>1, <1>4
  <2> QED BY <1>a, <2>1 DEF ClusterPoints
<1>6. /\ Len(pts) = n /\ DOMAIN pts = 1 .. n
      /\ \A k \in 1 .. n : pts[k] = idx[k]
  <2>1. first + 1 \in Int /\ first + n \in Int BY <1>1, <1>4
  <2>2. \A i \in first + 1 .. first + n : slots[i] \in VectorIds \cup {PAD}
    <3>1. \A i \in first + 1 .. first + n : i \in 1 .. Len(slots)
      BY <1>1, <1>3, <1>4
    <3> QED BY <1>3, <3>1
  <2> DEFINE sub == SubSeq(slots, first + 1, first + n)
  <2>3. /\ sub \in Seq(VectorIds \cup {PAD})
        /\ Len(sub) = IF first + 1 <= first + n
                      THEN (first + n) - (first + 1) + 1 ELSE 0
        /\ \A i \in 1 .. (first + n) - (first + 1) + 1 :
             sub[i] = slots[(first + 1) + i - 1]
    BY <2>1, <2>2, SubSeqProperties
  <2>8. pts = sub BY <1>a
  <2> HIDE DEF sub
  <2>4. Len(pts) = n BY <1>1, <1>4, <2>3, <2>8
  <2>5. \A k \in 1 .. n : /\ k \in 1 .. (first + n) - (first + 1) + 1
                          /\ (first + 1) + k - 1 = first + k
    BY <1>1, <1>4
  <2>6. \A k \in 1 .. n : pts[k] = idx[k] BY <1>3, <2>3, <2>5, <2>8
  <2>7. DOMAIN pts = 1 .. n BY <2>3, <2>4, <2>8
  <2> QED BY <2>4, <2>6, <2>7
<1>7. /\ \A k \in 1 .. n : idx[k] \in Range(idx)
      /\ \A i \in Range(idx) : \E k \in 1 .. n : idx[k] = i
  <2>1. DOMAIN idx = 1 .. n BY <1>1
  <2> QED BY <2>1 DEF Range
<1>8. Range(pts) = Range(idx)
  <2>1. Range(pts) = {pts[k] : k \in 1 .. n} BY <1>6 DEF Range
  <2>2. {pts[k] : k \in 1 .. n} = {idx[k] : k \in 1 .. n} BY <1>6
  <2>3. DOMAIN idx = 1 .. n BY <1>1
  <2>4. Range(idx) = {idx[k] : k \in 1 .. n} BY <2>3 DEF Range
  <2> QED BY <2>1, <2>2, <2>4
<1>9. /\ \A k \in 1 .. n : pts[k] \in VectorIds /\ assignments[pts[k]] = c
      /\ \A i \in VectorIds : assignments[i] = c => \E k \in 1 .. n : pts[k] = i
      /\ \A m, l \in 1 .. n : pts[m] = pts[l] => m = l
  BY <1>1, <1>6, <1>7
<1> QED BY <1>a, <1>1, <1>5, <1>6, <1>8, <1>9

\* Every vector is in one cluster, once.
LEMMA InOneCluster ==
  ASSUME input \in Inputs, CentersInv, AssignInv, OffsetInv, StoreInv,
         Len(boxes) = Len(centers), NEW i \in VectorIds
  PROVE  Cardinality({at \in Clusters \X VectorIds :
                        /\ at[2] <= Len(ClusterPoints(at[1]))
                        /\ ClusterPoints(at[1])[at[2]] = i}) = 1
<1> DEFINE T == {at \in Clusters \X VectorIds :
                   /\ at[2] <= Len(ClusterPoints(at[1]))
                   /\ ClusterPoints(at[1])[at[2]] = i}
<1>1. ASSUME NEW c \in Clusters
      PROVE  /\ counts[c] \in Nat /\ counts[c] <= Len(vecs)
             /\ Len(ClusterPoints(c)) = counts[c]
             /\ \A k \in 1 .. counts[c] : assignments[ClusterPoints(c)[k]] = c
             /\ \A x \in VectorIds : assignments[x] = c =>
                  \E k \in 1 .. counts[c] : ClusterPoints(c)[k] = x
             /\ \A m, n \in 1 .. counts[c] :
                  ClusterPoints(c)[m] = ClusterPoints(c)[n] => m = n
  BY ClusterPointsAre
<1>2. Len(vecs) \in Nat /\ VectorIds = 1 .. Len(vecs) BY Vectors DEF VectorIds
<1>3. PICK c \in Clusters : assignments[i] = c BY DEF AssignInv
<1>4. PICK k \in 1 .. counts[c] : ClusterPoints(c)[k] = i BY <1>1, <1>3
<1>5. <<c, k>> \in T
  <2>1. k \in VectorIds /\ k <= Len(ClusterPoints(c)) BY <1>1, <1>2, <1>4
  <2> QED BY <1>4, <2>1
<1>6. ASSUME NEW at \in T PROVE at = <<c, k>>
  <2>1. PICK d \in Clusters, l \in VectorIds :
          at = <<d, l>> /\ l <= Len(ClusterPoints(d)) /\ ClusterPoints(d)[l] = i
    OBVIOUS
  <2>2. l \in 1 .. counts[d] BY <1>1, <1>2, <2>1
  <2>3. d = c BY <1>1, <1>3, <2>1, <2>2
  <2>4. l = k BY <1>1, <1>4, <2>1, <2>2, <2>3
  <2> QED BY <2>1, <2>3, <2>4
<1>7. T = {<<c, k>>} BY <1>5, <1>6
<1> QED BY <1>7, FS_Singleton

\* The bound for a cluster's box is one for each of its points.
LEMMA BoundOfCluster ==
  ASSUME input \in Inputs, CentersInv, AssignInv, OffsetInv, StoreInv,
         Len(boxes) = Len(centers), NEW c \in Clusters,
         NEW p \in Range(ClusterPoints(c)), NEW q \in [Dims -> Int]
  PROVE  BoxLowerBound(q, boxes[c]) <= SquaredDistance(q, vecs[p])
<1> DEFINE idx == ClusterIdx(c)
           S == {idx[i] : i \in DOMAIN idx}
<1>1. p \in VectorIds /\ assignments[p] = c BY ClusterPointsAre
<1>2. /\ idx \in Seq(VectorIds)
      /\ Range(idx) = {i \in VectorIds : assignments[i] = c}
  BY ClusterIdxIs
<1>3. boxes[c] = Bounds(S)
  <2>1. c \in 1 .. Len(boxes) BY DEF Clusters
  <2> QED BY <2>1 DEF StoreInv, ClusterBox
<1>4. S = Range(idx) BY DEF Range
<1>5. S \in SUBSET VectorIds /\ p \in S BY <1>1, <1>2, <1>4
<1> HIDE DEF S
<1>6. \A d \in Dims :
        /\ boxes[c].lo[d] \in Int /\ boxes[c].hi[d] \in Int
        /\ boxes[c].lo[d] <= vecs[p][d] /\ vecs[p][d] <= boxes[c].hi[d]
  BY <1>3, <1>5, BoundsEnclose
<1>7. PICK v, box : v = vecs[p] /\ box = boxes[c] OBVIOUS
<1>8. v \in [Dims -> Int] BY <1>1, <1>7, VectorIs
<1>9. BoxLowerBound(q, box) <= SquaredDistance(q, v) BY <1>6, <1>7, <1>8, BoundIs
<1> QED BY <1>7, <1>9

\* The properties of a clustered index that is built.
LEMMA ClusteredIndexIs ==
  ASSUME input \in Inputs, IvfInv, step = "ivf_built"
  PROVE  EveryVectorInOneCluster /\ ClusterBoundsSound
<1>1. /\ CentersInv /\ AssignInv /\ OffsetInv /\ StoreInv
      /\ Len(boxes) = Len(centers)
  BY DEF IvfInv
<1>2. \A c \in Clusters :
        Range(ClusterPoints(c)) = {i \in VectorIds : assignments[i] = c}
  BY <1>1, ClusterPointsAre
<1>3. EveryVectorInOneCluster
  BY <1>1, <1>2, InOneCluster DEF EveryVectorInOneCluster
<1>4. \A c \in Clusters : \A p \in Range(ClusterPoints(c)) : \A q \in Range(vecs) :
        BoxLowerBound(q, boxes[c]) <= SquaredDistance(q, vecs[p])
  <2> SUFFICES ASSUME NEW c \in Clusters, NEW p \in Range(ClusterPoints(c)),
                      NEW q \in Range(vecs)
               PROVE  BoxLowerBound(q, boxes[c]) <= SquaredDistance(q, vecs[p])
    OBVIOUS
  <2>1. q \in [Dims -> Int]
    <3>1. PICK i \in DOMAIN vecs : q = vecs[i] BY DEF Range
    <3>2. DOMAIN vecs = VectorIds
      <4>1. vecs \in Seq([Dims -> Coordinates]) BY InputConstants DEF vecs
      <4> QED BY <4>1 DEF VectorIds
    <3> QED BY <3>1, <3>2, VectorIs
  <2> QED BY <1>1, <2>1, BoundOfCluster
<1>5. ClusterBoundsSound BY <1>4 DEF ClusterBoundsSound
<1> QED BY <1>3, <1>5

-----------------------------------------------------------------------------
(***************************************************************************)
(* The theorems.                                                           *)
(***************************************************************************)
\* How far the two modes get.
KdSteps == {"kd", "kd_built"}
IvfSteps == {"assign", "offsets", "codes", "ivf_built"}

\* The inductive invariant: in each mode its own, with nothing done in the
\* other.  U and H are not in the state: the finished tables settle them.
IInv ==
  /\ input \in Inputs
  /\ step \in {"start"} \cup KdSteps \cup IvfSteps
  /\ step \notin KdSteps => InitKd
  /\ step \in KdSteps => \E U, H : KdInv(U, H)
  /\ step = "kd_built" => KdIdle /\ keys = {}
  /\ step = "start" => slots = <<>> /\ boxes = <<>>
  /\ step \in IvfSteps => IvfInv

\* The invariant holds at the start.
LEMMA InitIInv == Init => IInv
BY DEF Init, IInv, InitIvf, KdSteps, IvfSteps

\* In the steps of a mode.
LEMMA KdStepIInv ==
  ASSUME IInv, BuildKdMain
  PROVE  IInv'
<1>1. input \in Inputs /\ UNCHANGED ivfVars /\ NextKd BY DEF BuildKdMain, IInv
<1>2. CASE BucketVectors
  <2>1. step = "start" /\ step' = "kd" /\ input' = input BY <1>2 DEF BucketVectors
  <2>2. InitKd /\ slots = <<>> BY <2>1 DEF IInv, KdSteps
  <2>3. KdInv(0, 0)' BY <1>1, <1>2, <2>2, BucketVectorsStep
  <2>4. \E U, H : KdInv(U, H)' BY <2>3
  <2> QED BY <1>1, <2>1, <2>4 DEF IInv, KdSteps, IvfSteps
<1>3. ASSUME NextKd, ~BucketVectors PROVE step = "kd" /\ \E U, H : KdInv(U, H)
  <2>1. step = "kd" \/ calls # <<>> \/ ret # NoNode
    BY <1>3 DEF NextKd, CallRoot, MakeLeaf, Split, LeftBuilt, RightBuilt, RootBuilt,
                FinishKd, Entered, Returned
  <2>2. step = "kd"
    BY <2>1 DEF IInv, InitKd, KdIdle, KdSteps, IvfSteps
  <2> QED BY <2>2 DEF IInv, KdSteps
<1>4. CASE ~BucketVectors
  <2>1. step = "kd" BY <1>1, <1>3, <1>4
  <2>2. PICK U, H : KdInv(U, H) BY <1>1, <1>3, <1>4
  <2>3. CASE FinishKd
    <3>1. /\ step' = "kd_built" /\ UNCHANGED <<input, slots, kdVars>>
          /\ calls = <<>> /\ ret = NoNode /\ keys = {}
      BY <2>3 DEF FinishKd
    <3>2. KdInv(U, H)' BY <2>2, <3>1, KdInvKept
    <3>3. \E V, G : KdInv(V, G)' BY <3>2
    <3>4. KdIdle' /\ keys' = {} /\ input' = input BY <3>1 DEF KdIdle, kdVars
    <3> QED BY <1>1, <3>1, <3>3, <3>4 DEF IInv, KdSteps, IvfSteps
  <2>4. CASE ~FinishKd
    <3>1. step' = step /\ input' = input
      BY <1>1, <1>4, <2>4 DEF NextKd, CallRoot, MakeLeaf, Split, LeftBuilt, RightBuilt,
                              RootBuilt
    <3>2. \E V, G : KdInv(V, G)'
      <4>1. CASE CallRoot
        <5>1. KdInv(U, H)' BY <2>2, <4>1, CallRootStep
        <5> QED BY <5>1
      <4>2. CASE MakeLeaf BY <2>2, <4>2, MakeLeafStep
      <4>3. CASE Split
        <5>1. KdInv(U, H)' BY <2>2, <4>3, SplitStep
        <5> QED BY <5>1
      <4>4. CASE LeftBuilt
        <5>1. KdInv(U, H)' BY <2>2, <4>4, LeftBuiltStep
        <5> QED BY <5>1
      <4>5. CASE RightBuilt BY <2>2, <4>5, RightBuiltStep
      <4>6. CASE RootBuilt
        <5>1. KdInv(U, H)' BY <2>2, <4>6, RootBuiltStep
        <5> QED BY <5>1
      <4> QED BY <1>1, <1>4, <2>4, <4>1, <4>2, <4>3, <4>4, <4>5, <4>6 DEF NextKd
    <3> QED BY <1>1, <2>1, <3>1, <3>2 DEF IInv, KdSteps, IvfSteps
  <2> QED BY <2>3, <2>4
<1> QED BY <1>2, <1>4

\* It is kept in the clustered mode.
LEMMA IvfStepIInv ==
  ASSUME IInv, BuildIvfMain
  PROVE  IInv'
<1>1. input \in Inputs /\ UNCHANGED kdVars /\ NextIvf BY DEF BuildIvfMain, IInv
<1>2. /\ input' = input /\ step \notin KdSteps /\ step' \in IvfSteps
  BY <1>1 DEF NextIvf, KMeans, Assign, Offset, Allocate, StoreCluster, FinishIvf,
              KdSteps, IvfSteps
<1>3. InitKd' BY <1>1, <1>2 DEF IInv, InitKd, kdVars
<1>4. IvfInv'
  <2>1. CASE KMeans
    <3>1. boxes = <<>> BY <2>1 DEF KMeans, IInv
    <3> QED BY <2>1, <3>1, KMeansStep
  <2>2. CASE ~KMeans
    <3>1. step \in IvfSteps
      BY <1>1, <2>2 DEF NextIvf, Assign, Offset, Allocate, StoreCluster, FinishIvf,
                        IvfSteps
    <3>2. IvfInv BY <3>1 DEF IInv
    <3>3. CASE Assign BY <1>1, <3>2, <3>3, AssignStep
    <3>4. CASE Offset BY <1>1, <3>2, <3>4, OffsetStep
    <3>5. CASE Allocate BY <1>1, <3>2, <3>5, AllocateStep
    <3>6. CASE StoreCluster BY <1>1, <3>2, <3>6, StoreClusterStep
    <3>7. CASE FinishIvf BY <1>1, <3>2, <3>7, FinishIvfStep
    <3> QED BY <1>1, <2>2, <3>3, <3>4, <3>5, <3>6, <3>7 DEF NextIvf
  <2> QED BY <2>1, <2>2
<1>5. step' \notin KdSteps /\ step' # "start" /\ step' # "kd_built"
  BY <1>2 DEF KdSteps, IvfSteps
<1> QED BY <1>1, <1>2, <1>3, <1>4, <1>5 DEF IInv

\* Every step keeps it.
LEMMA NextIInv == IInv /\ [Next]_vars => IInv'
<1> SUFFICES ASSUME IInv, [Next]_vars PROVE IInv' OBVIOUS
<1>1. CASE BuildKdMain BY <1>1, KdStepIInv
<1>2. CASE BuildIvfMain BY <1>2, IvfStepIInv
<1>3. CASE UNCHANGED vars
  <2>1. /\ UNCHANGED <<input, slots, kdVars>> /\ UNCHANGED <<input, slots, ivfVars>>
        /\ step' = step /\ input' = input /\ slots' = slots
    BY <1>3 DEF vars
  <2>2. /\ keys' = keys /\ calls' = calls /\ ret' = ret /\ nodes' = nodes
        /\ parts' = parts
    BY <2>1 DEF kdVars
  <2>3. /\ centers' = centers /\ assignments' = assignments /\ counts' = counts
        /\ block_offsets' = block_offsets /\ boxes' = boxes
    BY <2>1 DEF ivfVars
  <2>4. InitKd' = InitKd /\ KdIdle' = KdIdle BY <2>2 DEF InitKd, KdIdle
  <2>5. ASSUME step \in KdSteps PROVE \E U, H : KdInv(U, H)'
    <3>1. PICK U, H : KdInv(U, H) BY <2>5 DEF IInv
    <3>2. KdInv(U, H)' BY <2>1, <3>1, KdInvKept
    <3> QED BY <3>2
  <2>6. ASSUME step \in IvfSteps PROVE IvfInv'
    <3>1. IvfInv BY <2>6 DEF IInv
    <3>2. CentersInv' /\ (step # "assign" => AssignInv' /\ OffsetInv')
      BY <2>1, <2>3, <3>1, SameClusters, AssignKept, OffsetKept DEF IvfInv
    <3>3. step \in {"codes", "ivf_built"} => StoreInv'
      BY <2>1, <3>1, StoreKept DEF IvfInv
    <3> QED BY <2>1, <2>3, <3>1, <3>2, <3>3 DEF IvfInv
  <2> QED BY <2>1, <2>2, <2>3, <2>4, <2>5, <2>6 DEF IInv, KdSteps, IvfSteps
<1> QED BY <1>1, <1>2, <1>3 DEF Next

\* The inductive invariant holds throughout a run of the builder.
THEOREM Invariance == Spec => []IInv
<1>1. Init => IInv BY InitIInv
<1>2. IInv /\ [Next]_vars => IInv' BY NextIInv
<1> QED BY <1>1, <1>2, PTL DEF Spec

\* It gives the builder's properties.
LEMMA IInvImplies ==
  IInv => /\ EveryVectorStoredOnce /\ BoxesEnclose /\ TreesBalanced
          /\ EveryVectorInOneCluster /\ ClusterBoundsSound
<1> SUFFICES ASSUME IInv
             PROVE  /\ EveryVectorStoredOnce /\ BoxesEnclose /\ TreesBalanced
                    /\ EveryVectorInOneCluster /\ ClusterBoundsSound
  OBVIOUS
<1>1. EveryVectorStoredOnce /\ BoxesEnclose /\ TreesBalanced
  <2>1. CASE step = "kd_built"
    <3>1. PICK U, H : KdInv(U, H) BY <2>1 DEF IInv, KdSteps
    <3>2. KdIdle /\ keys = {} BY <2>1 DEF IInv
    <3> QED BY <3>1, <3>2, KdIndexIs
  <2>2. CASE step # "kd_built"
    BY <2>2 DEF EveryVectorStoredOnce, BoxesEnclose, TreesBalanced, Built
  <2> QED BY <2>1, <2>2
<1>2. EveryVectorInOneCluster /\ ClusterBoundsSound
  <2>1. CASE step = "ivf_built"
    <3>1. input \in Inputs /\ IvfInv BY <2>1 DEF IInv, IvfSteps
    <3> QED BY <2>1, <3>1, ClusteredIndexIs
  <2>2. CASE step # "ivf_built"
    BY <2>2 DEF EveryVectorInOneCluster, ClusterBoundsSound, Clustered
  <2> QED BY <2>1, <2>2
<1> QED BY <1>1, <1>2

\* The kd index holds every vector of the dump in exactly one leaf, of the tree
\* of its own partition key, and no padding (buildKdMain, buildKdTree).
THEOREM StoredOnceCorrect == Spec => []EveryVectorStoredOnce
BY Invariance, IInvImplies, PTL

\* Every node's box is the tightest around the points below it, and its length
\* counts them (computeBounds, and the nodes' entries in buildKdTree).
THEOREM BoxesCorrect == Spec => []BoxesEnclose
BY Invariance, IInvImplies, PTL

\* Trees are as shallow as median splits make them, so that the search's stack
\* of 128 entries is never full (the halves in buildKdTree).
THEOREM BalanceCorrect == Spec => []TreesBalanced
BY Invariance, IInvImplies, PTL

\* The clustered index gives a search every vector in exactly one cluster, once,
\* and no padding (main: assignments, block_offsets and the codes).
THEOREM OneClusterCorrect == Spec => []EveryVectorInOneCluster
BY Invariance, IInvImplies, PTL

\* The bound a search computes from a cluster's box is never more than the
\* distance of a point of the cluster (bbox_min, bbox_max).
THEOREM ClusterBoundsCorrect == Spec => []ClusterBoundsSound
BY Invariance, IInvImplies, PTL

-----------------------------------------------------------------------------
(***************************************************************************)
(* What the searches assume of an index is true of every one that is       *)
(* built.                                                                  *)
(***************************************************************************)
\* A key waits for its tree or has one, and no key has two.
KeysInv ==
  step \in KdSteps =>
    /\ \A p \in 1 .. Len(parts) : parts[p].key \notin keys
    /\ \A p, o \in 1 .. Len(parts) : p # o => parts[p].key # parts[o].key
    /\ \A i \in VectorIds :
         input.key[i] \in keys \/ \E p \in 1 .. Len(parts) : parts[p].key = input.key[i]

\* The key of a finished tree no longer waits.
LEMMA RootBuiltKeys ==
  ASSUME NEW U, NEW H, KdInv(U, H), RootBuilt, step \in KdSteps, KeysInv
  PROVE  KeysInv'
<1>a. PICK N, k, part :
        N = Len(parts) /\ k = Min(keys) /\ part = [key |-> k, root |-> ret]
  OBVIOUS
<1>1. /\ keys # {} /\ keys \in SUBSET Nat /\ IsFiniteSet(keys)
      /\ parts \in Seq([key : Nat, root : Nat]) /\ ret \in Nat
  BY DEF KdInv, KdTypes, WorkInv, KdIdle, RootBuilt
<1>2. k \in keys
  <2>1. keys \in SUBSET Int BY <1>1
  <2> QED BY <1>a, <1>1, <2>1, Extremes
<1>3. keys' = keys \ {k} /\ parts' = Append(parts, part) /\ input' = input
  BY <1>a DEF RootBuilt
<1>4. VectorIds' = VectorIds BY <1>3, SameInput
<1>5. /\ N \in Nat /\ Len(parts') = N + 1 /\ part.key = k
      /\ parts'[N + 1] = part /\ \A p \in 1 .. N : parts'[p] = parts[p]
  <2>1. part \in [key : Nat, root : Nat] BY <1>a, <1>1, <1>2
  <2> QED BY <1>a, <1>1, <1>3, <2>1
<1>6. /\ \A p \in 1 .. N : parts[p].key \notin keys
      /\ \A p, o \in 1 .. N : p # o => parts[p].key # parts[o].key
      /\ \A i \in VectorIds :
           input.key[i] \in keys \/ \E p \in 1 .. N : parts[p].key = input.key[i]
  BY <1>a DEF KeysInv
<1>7. \A p \in 1 .. N + 1 : p \in 1 .. N \/ p = N + 1 BY <1>5
<1>8. \A p \in 1 .. N + 1 : parts'[p].key \notin keys'
  BY <1>2, <1>3, <1>5, <1>6, <1>7
<1>9. \A p, o \in 1 .. N + 1 : p # o => parts'[p].key # parts'[o].key
  BY <1>2, <1>5, <1>6, <1>7
<1>10. ASSUME NEW i \in VectorIds
       PROVE  \/ input.key[i] \in keys'
              \/ \E p \in 1 .. N + 1 : parts'[p].key = input.key[i]
  <2>1. CASE input.key[i] = k
    <3>1. N + 1 \in 1 .. N + 1 BY <1>5
    <3> QED BY <1>5, <2>1, <3>1
  <2>2. CASE input.key[i] # k
    <3>1. \A p \in 1 .. N : p \in 1 .. N + 1 BY <1>5
    <3> QED BY <1>3, <1>5, <1>6, <2>2, <3>1
  <2> QED BY <2>1, <2>2
<1> QED BY <1>3, <1>4, <1>5, <1>8, <1>9, <1>10 DEF KeysInv

\* What KeysInv says depends on nothing else.
LEMMA SameKeys ==
  ASSUME KeysInv, step \in KdSteps, UNCHANGED <<input, keys, parts>>
  PROVE  KeysInv'
<1>1. VectorIds' = VectorIds /\ keys' = keys /\ parts' = parts /\ input' = input
  BY SameInput
<1> QED BY <1>1 DEF KeysInv

\* Every step keeps it.
LEMMA NextKeysInv == IInv /\ KeysInv /\ [Next]_vars => KeysInv'
<1> SUFFICES ASSUME IInv, KeysInv, [Next]_vars PROVE KeysInv' OBVIOUS
<1>1. CASE BucketVectors
  <2>1. parts = <<>> BY <1>1 DEF BucketVectors, IInv, InitKd, KdSteps
  <2>2. /\ parts' = <<>> /\ keys' = {input.key[i] : i \in VectorIds} /\ input' = input
    BY <1>1, <2>1 DEF BucketVectors
  <2>3. VectorIds' = VectorIds BY <2>2, SameInput
  <2> QED BY <2>2, <2>3 DEF KeysInv
<1>2. CASE RootBuilt
  <2>1. step \in KdSteps BY <1>2 DEF RootBuilt, IInv, InitKd
  <2>2. PICK U, H : KdInv(U, H) BY <2>1 DEF IInv
  <2> QED BY <1>2, <2>1, <2>2, RootBuiltKeys
<1>3. CASE ~BucketVectors /\ ~RootBuilt
  <2> SUFFICES ASSUME step' \in KdSteps PROVE KeysInv' BY DEF KeysInv
  <2>1. CASE BuildKdMain
    <3>1. UNCHANGED <<input, keys, parts>>
      BY <1>3, <2>1 DEF BuildKdMain, NextKd, CallRoot, MakeLeaf, Split, LeftBuilt,
                        RightBuilt, FinishKd, kdVars
    <3>2. step \in KdSteps
      <4>1. step = "kd" \/ step' = step
        BY <1>3, <2>1 DEF BuildKdMain, NextKd, CallRoot, MakeLeaf, Split, LeftBuilt,
                          RightBuilt, FinishKd
      <4> QED BY <4>1 DEF KdSteps
    <3> QED BY <3>1, <3>2, SameKeys
  <2>2. CASE BuildIvfMain
    <3>1. step' \notin KdSteps
      BY <2>2 DEF BuildIvfMain, NextIvf, KMeans, Assign, Offset, Allocate, StoreCluster,
                  FinishIvf, KdSteps
    <3> QED BY <3>1
  <2>3. CASE UNCHANGED vars
    <3>1. UNCHANGED <<input, keys, parts>> /\ step' = step
      BY <2>3 DEF vars, kdVars
    <3> QED BY <3>1, SameKeys
  <2> QED BY <2>1, <2>2, <2>3 DEF Next
<1> QED BY <1>1, <1>2, <1>3

\* Powers of two are in the order of their exponents.
LEMMA PowersOrdered ==
  ASSUME NEW m \in Nat, NEW n \in Nat, m <= n
  PROVE  2 ^ m <= 2 ^ n
<1> DEFINE S == 1 .. m
           T == 1 .. n
<1>1. /\ IsFiniteSet(S) /\ Cardinality(S) = m
      /\ IsFiniteSet(T) /\ Cardinality(T) = n
  BY FS_Interval
<1>2. S \in SUBSET T OBVIOUS
<1> HIDE DEF S, T
<1>3. /\ IsFiniteSet(SUBSET T) /\ Cardinality(SUBSET S) = 2 ^ m
      /\ Cardinality(SUBSET T) = 2 ^ n
  BY <1>1, FS_SUBSET
<1>4. (SUBSET S) \in SUBSET (SUBSET T) BY <1>2
<1>5. Cardinality(SUBSET S) <= Cardinality(SUBSET T) BY <1>3, <1>4, FS_Subset
<1> QED BY <1>3, <1>5

\* What KdSearch assumes of its index (KdIndex there), said of the builder's
\* tables: children's points make up their parent's and are apart, a leaf's are
\* stored once, boxes bound from below the distance from any query, every vector
\* is below one root, and trees are no higher than the number of vectors needs.
SearchableKd ==
  Built =>
    /\ \A n \in NodeIds :
         IF n \in LeafIds
           THEN /\ Under[n] = {LeafPoints(n)[k] : k \in 1 .. Len(LeafPoints(n))}
                /\ \A k, l \in 1 .. Len(LeafPoints(n)) :
                     LeafPoints(n)[k] = LeafPoints(n)[l] => k = l
           ELSE LET l == nodes[n].left
                    r == nodes[n].right
                IN /\ l \in NodeIds /\ r \in NodeIds
                   /\ Under[n] = Under[l] \cup Under[r]
                   /\ Under[l] \cap Under[r] = {}
                   /\ Height[n] > Height[l] /\ Height[n] > Height[r]
    /\ \A q \in [Dims -> Int], n \in NodeIds : \A i \in Under[n] :
         BoxLowerBound(q, nodes[n].box) <= SquaredDistance(q, vecs[i])
    /\ \A p \in 1 .. Len(parts) : parts[p].root \in NodeIds
    /\ \A i \in VectorIds : \E p \in 1 .. Len(parts) : i \in Under[parts[p].root]
    /\ \A p, o \in 1 .. Len(parts) :
         p # o => Under[parts[p].root] \cap Under[parts[o].root] = {}
    /\ \A depth \in Nat :
         Len(vecs) <= KD_LEAF_SIZE * 2 ^ depth =>
           \A p \in 1 .. Len(parts) : Height[parts[p].root] <= depth

\* What IvfSearch assumes of its index (IvfIndex there), said likewise.
SearchableIvf ==
  Clustered =>
    /\ \A i \in VectorIds : \E c \in Clusters : i \in Range(ClusterPoints(c))
    /\ \A c, o \in Clusters :
         c # o => Range(ClusterPoints(c)) \cap Range(ClusterPoints(o)) = {}
    /\ \A c \in Clusters : \A k, l \in 1 .. Len(ClusterPoints(c)) :
         ClusterPoints(c)[k] = ClusterPoints(c)[l] => k = l
    /\ \A q \in [Dims -> Int], c \in Clusters : \A i \in Range(ClusterPoints(c)) :
         BoxLowerBound(q, boxes[c]) <= SquaredDistance(q, vecs[i])

\* A tree over so many vectors is not higher than they need.
LEMMA HeightBounded ==
  ASSUME NEW h \in Nat, NEW depth \in Nat, NEW len \in Nat,
         h = 0 \/ KD_LEAF_SIZE * 2 ^ (h - 1) < len,
         len <= KD_LEAF_SIZE * 2 ^ depth
  PROVE  h <= depth
<1> SUFFICES ASSUME h > depth PROVE FALSE OBVIOUS
<1>1. h - 1 \in Nat /\ depth <= h - 1 /\ h # 0 OBVIOUS
<1>2. PICK g \in Nat : g = h - 1 BY <1>1
<1>3. PICK x, y : x = 2 ^ depth /\ y = 2 ^ g OBVIOUS
<1>4. x \in Nat /\ y \in Nat /\ x <= y BY <1>1, <1>2, <1>3, PowersOrdered, PowerNext
<1>5. KD_LEAF_SIZE \in Nat \ {0} BY LeafSize
<1>6. x * KD_LEAF_SIZE <= y * KD_LEAF_SIZE BY <1>4, <1>5, TimesOrdered
<1>7. /\ x * KD_LEAF_SIZE = KD_LEAF_SIZE * x /\ y * KD_LEAF_SIZE = KD_LEAF_SIZE * y
      /\ KD_LEAF_SIZE * x \in Nat /\ KD_LEAF_SIZE * y \in Nat
  BY <1>4, <1>5
<1>8. KD_LEAF_SIZE * y < len /\ len <= KD_LEAF_SIZE * x BY <1>1, <1>2, <1>3
<1> QED BY <1>6, <1>7, <1>8

\* The kd index, when it is built.
LEMMA KdSearchableIs ==
  ASSUME NEW U, NEW H, KdInv(U, H), KdIdle, keys = {}, KeysInv, step = "kd_built"
  PROVE  SearchableKd
<1>1. calls = <<>> BY DEF KdIdle
<1>2. /\ KdTypes /\ TreeInv(U, H) /\ PartsInv(U)
      /\ Complete = NodeIds /\ Leaves = LeafIds
  BY <1>1, AllComplete DEF KdInv
<1>3. \A n \in NodeIds : Under[n] = U[n] /\ Height[n] = H[n]
  BY <1>1, SettledIs
<1>4. \A n \in NodeIds : NodeInv(U, H, n) BY <1>2 DEF TreeInv
<1>5. \A p \in 1 .. Len(parts) :
        /\ parts[p].root \in NodeIds
        /\ Under[parts[p].root] = Bucket(parts[p].key)
  BY <1>2, <1>3 DEF PartsInv
<1>6. /\ \A p, o \in 1 .. Len(parts) : p # o => parts[p].key # parts[o].key
      /\ \A i \in VectorIds :
           \E p \in 1 .. Len(parts) : parts[p].key = input.key[i]
  BY DEF KeysInv, KdSteps
<1>7. \A i \in VectorIds : \E p \in 1 .. Len(parts) : i \in Under[parts[p].root]
  BY <1>5, <1>6 DEF Bucket
<1>8. \A p, o \in 1 .. Len(parts) :
        p # o => Under[parts[p].root] \cap Under[parts[o].root] = {}
  BY <1>5, <1>6 DEF Bucket
<1>9. ASSUME NEW n \in LeafIds
      PROVE  /\ Under[n] = {LeafPoints(n)[k] : k \in 1 .. Len(LeafPoints(n))}
             /\ \A k, l \in 1 .. Len(LeafPoints(n)) :
                  LeafPoints(n)[k] = LeafPoints(n)[l] => k = l
  <2>1. n \in Leaves /\ Under[n] = U[n] BY <1>2, <1>3 DEF LeafIds
  <2>2. /\ Len(LeafPoints(n)) = nodes[n].len
        /\ \A k \in 1 .. nodes[n].len : LeafPoints(n)[k] \in U[n]
        /\ \A i \in U[n] : \E k \in 1 .. nodes[n].len : LeafPoints(n)[k] = i
        /\ \A k, l \in 1 .. nodes[n].len :
             LeafPoints(n)[k] = LeafPoints(n)[l] => k = l
    BY <2>1, LeafPointsAre
  <2>3. U[n] = {LeafPoints(n)[k] : k \in 1 .. nodes[n].len} BY <2>2
  <2> QED BY <2>1, <2>2, <2>3
<1>10. ASSUME NEW n \in NodeIds, n \notin LeafIds
       PROVE  LET l == nodes[n].left
                  r == nodes[n].right
              IN /\ l \in NodeIds /\ r \in NodeIds
                 /\ Under[n] = Under[l] \cup Under[r]
                 /\ Under[l] \cap Under[r] = {}
                 /\ Height[n] > Height[l] /\ Height[n] > Height[r]
  <2>1. PICK l, r : l = nodes[n].left /\ r = nodes[n].right OBVIOUS
  <2>2. /\ l \in NodeIds /\ r \in NodeIds
        /\ U[n] = U[l] \cup U[r] /\ U[l] \cap U[r] = {}
        /\ H[n] = 1 + Max({H[l], H[r]})
    BY <1>2, <1>4, <1>10, <2>1 DEF NodeInv, InnerNode, LeafIds
  <2>3. H[l] \in Nat /\ H[r] \in Nat BY <1>4, <2>2 DEF NodeInv
  <2>4. PICK m : m = Max({H[l], H[r]}) OBVIOUS
  <2>5. m \in {H[l], H[r]} /\ H[l] <= m /\ H[r] <= m BY <2>3, <2>4, LargerOf
  <2>6. H[n] > H[l] /\ H[n] > H[r] BY <2>2, <2>3, <2>4, <2>5
  <2> QED BY <1>3, <2>1, <2>2, <2>6
<1>11. ASSUME NEW q \in [Dims -> Int], NEW n \in NodeIds, NEW i \in Under[n]
       PROVE  BoxLowerBound(q, nodes[n].box) <= SquaredDistance(q, vecs[i])
  <2>1. /\ U[n] \in SUBSET VectorIds /\ i \in U[n] /\ nodes[n].box = Bounds(U[n])
        /\ input \in Inputs
    BY <1>2, <1>3, <1>4 DEF NodeInv, KdTypes
  <2>2. PICK v, box : v = vecs[i] /\ box = nodes[n].box OBVIOUS
  <2>3. v \in [Dims -> Int] BY <2>1, <2>2, VectorIs
  <2>4. \A d \in Dims : /\ box.lo[d] \in Int /\ box.hi[d] \in Int
                        /\ box.lo[d] <= v[d] /\ v[d] <= box.hi[d]
    BY <2>1, <2>2, BoundsEnclose
  <2>5. BoxLowerBound(q, box) <= SquaredDistance(q, v) BY <2>3, <2>4, BoundIs
  <2> QED BY <2>2, <2>5
<1>12. ASSUME NEW depth \in Nat, Len(vecs) <= KD_LEAF_SIZE * 2 ^ depth,
              NEW p \in 1 .. Len(parts)
       PROVE  Height[parts[p].root] <= depth
  <2>1. PICK n \in NodeIds : n = parts[p].root BY <1>5
  <2>2. /\ U[n] \in SUBSET VectorIds /\ H[n] \in Nat
        /\ H[n] # 0 => KD_LEAF_SIZE * 2 ^ (H[n] - 1) < Cardinality(U[n])
    <3>1. /\ H[n] \in Nat /\ nodes[n].len = Cardinality(U[n])
          /\ H[n] # 0 => KD_LEAF_SIZE * 2 ^ (H[n] - 1) < nodes[n].len
      BY <1>2, ChildIs
    <3> QED BY <1>4, <3>1 DEF NodeInv
  <2>3. /\ Cardinality(U[n]) \in Nat /\ Cardinality(U[n]) <= Len(vecs)
        /\ Len(vecs) \in Nat
    <3>1. input \in Inputs BY <1>2 DEF KdTypes
    <3>2. IsFiniteSet(VectorIds) /\ Len(vecs) \in Nat BY <3>1, Vectors
    <3>3. Cardinality(VectorIds) = Len(vecs)
      <4>1. PICK k \in Nat : k = Len(vecs) BY <3>2
      <4>2. Cardinality(1 .. k) = k BY FS_Interval
      <4> QED BY <4>1, <4>2 DEF VectorIds
    <3> QED BY <2>2, <3>2, <3>3, FS_Subset, FS_CardinalityType
  <2>4. PICK x : x = KD_LEAF_SIZE * 2 ^ depth OBVIOUS
  <2>5. x \in Nat BY <2>4, LeafSize, PowerNext
  <2>6. Cardinality(U[n]) <= x BY <1>12, <2>3, <2>4, <2>5
  <2>7. H[n] <= depth BY <2>2, <2>3, <2>4, <2>6, HeightBounded
  <2> QED BY <1>3, <2>1, <2>7
<1> QED BY <1>5, <1>7, <1>8, <1>9, <1>10, <1>11, <1>12 DEF SearchableKd

\* The clustered index, when it is built.
LEMMA IvfSearchableIs ==
  ASSUME input \in Inputs, IvfInv, step = "ivf_built"
  PROVE  SearchableIvf
<1>1. /\ CentersInv /\ AssignInv /\ OffsetInv /\ StoreInv
      /\ Len(boxes) = Len(centers)
  BY DEF IvfInv
<1>2. ASSUME NEW c \in Clusters
      PROVE  /\ Range(ClusterPoints(c)) = {i \in VectorIds : assignments[i] = c}
             /\ \A k, l \in 1 .. Len(ClusterPoints(c)) :
                  ClusterPoints(c)[k] = ClusterPoints(c)[l] => k = l
  BY <1>1, ClusterPointsAre
<1>3. \A i \in VectorIds : assignments[i] \in Clusters BY <1>1 DEF AssignInv
<1>4. \A q \in [Dims -> Int], c \in Clusters : \A i \in Range(ClusterPoints(c)) :
        BoxLowerBound(q, boxes[c]) <= SquaredDistance(q, vecs[i])
  BY <1>1, BoundOfCluster
<1> QED BY <1>2, <1>3, <1>4 DEF SearchableIvf

-----------------------------------------------------------------------------
\* The invariants give what the searches assume.
LEMMA IInvSearchable == IInv /\ KeysInv => SearchableKd /\ SearchableIvf
<1> SUFFICES ASSUME IInv, KeysInv PROVE SearchableKd /\ SearchableIvf OBVIOUS
<1>1. SearchableKd
  <2>1. CASE step = "kd_built"
    <3>1. PICK U, H : KdInv(U, H) BY <2>1 DEF IInv, KdSteps
    <3>2. KdIdle /\ keys = {} BY <2>1 DEF IInv
    <3> QED BY <2>1, <3>1, <3>2, KdSearchableIs
  <2>2. CASE step # "kd_built" BY <2>2 DEF SearchableKd, Built
  <2> QED BY <2>1, <2>2
<1>2. SearchableIvf
  <2>1. CASE step = "ivf_built"
    <3>1. input \in Inputs /\ IvfInv BY <2>1 DEF IInv, IvfSteps
    <3> QED BY <2>1, <3>1, IvfSearchableIs
  <2>2. CASE step # "ivf_built" BY <2>2 DEF SearchableIvf, Clustered
  <2> QED BY <2>1, <2>2
<1> QED BY <1>1, <1>2

\* Keys are accounted for throughout a run.
LEMMA KeysInvariance == Spec => []KeysInv
<1>1. Init => KeysInv BY DEF Init, KeysInv, KdSteps
<1>2. IInv /\ KeysInv /\ [Next]_vars => KeysInv' BY NextKeysInv
<1> QED BY <1>1, <1>2, Invariance, PTL DEF Spec

\* Every kd index the builder finishes is one that score() may be run on: for
\* any query in whole coordinates the bounds are sound, the partitions are apart,
\* and 2^depth leaves for all vectors keep each tree within a stack of depth
\* entries (buildKdTree, bboxLowerBound, STACK_DEPTH in kdtree.zig).
THEOREM KdIndexSearchable == Spec => []SearchableKd
BY Invariance, KeysInvariance, IInvSearchable, PTL

\* Every clustered index the builder finishes is one that the search of ivf.zig
\* may be run on: each vector is in one cluster's blocks, once, and the bound
\* computed from the cluster's box is sound for any query (main, scan_cluster).
THEOREM IvfIndexSearchable == Spec => []SearchableIvf
BY Invariance, KeysInvariance, IInvSearchable, PTL
=============================================================================
