----------------------------- MODULE DataProofs -----------------------------
(***************************************************************************)
(* Proofs about the program's data: the percentiles for every number of    *)
(* samples; the orders as text, from what is typed to what is reported,    *)
(* for any texts and any mishap; and what the files of the uploads hold,   *)
(* for any uploads.                                                        *)
(***************************************************************************)
EXTENDS OrderText, BenchFiles, ByteLemmas

-----------------------------------------------------------------------------
(***************************************************************************)
(* Percentiles.                                                            *)
(***************************************************************************)
(***************************************************************************)
(* The index is one of the list', however few there are: the two clamps *)
(* of get_percentile leave nothing to read past the end or before the      *)
(* beginning (benchmark.cpp:132), and only a fraction of 1 needs them.     *)
(***************************************************************************)
THEOREM IndexInRange ==
    ASSUME NEW n \in Nat \ {0}, NEW p \in 0..1000
    PROVE  /\ Index(n, p) \in 0..(n - 1)
           /\ p < 1000 => Index(n, p) = Truncated(n, p)
<1>1. n * p \in Nat
  <2>1. p \in Nat /\ n \in Nat  OBVIOUS
  <2> QED  BY <2>1
<1> DEFINE a == n * p
<1> HIDE DEF a
<1>2. a \in Nat  BY <1>1 DEF a
<1>3. (a \div 1000) \in Nat /\ 1000 * (a \div 1000) <= a /\ a < 1000 * (a \div 1000) + 1000
  BY <1>2
<1>4. p < 1000 => a < 1000 * n
  <2>1. p < 1000 => p <= 999  OBVIOUS
  <2>2. p <= 999 => n * p <= n * 999  OBVIOUS
  <2> QED  BY <2>1, <2>2 DEF a
<1> DEFINE q == a \div 1000
<1>5. Index(n, p) = AtLeast0(AtMost(q, n - 1))  BY DEF Index, Truncated, a
<1> HIDE DEF q
<1>6. q \in Nat /\ 1000 * q <= a  BY <1>3 DEF q
<1>7. p < 1000 => q <= n - 1
  <2>1. n \in Int /\ q \in Int  BY <1>6
  <2>2. 1000 * q < 1000 * n => q <= n - 1  BY <2>1
  <2>3. p < 1000 => 1000 * q < 1000 * n  BY <1>2, <1>4, <1>6, <2>1
  <2> QED  BY <2>2, <2>3
<1>8. Index(n, p) \in 0..(n - 1)  BY <1>5, <1>6 DEF AtLeast0, AtMost
<1>9. ASSUME p < 1000 PROVE Index(n, p) = q
  BY <1>5, <1>6, <1>7, <1>9 DEF AtLeast0, AtMost
<1> QED  BY <1>8, <1>9 DEF Truncated, a, q

(***************************************************************************)
(* Up to a hundred list p99 is the maximum, and up to a thousand p999   *)
(* is: the tail the charts compare is then one single measurement.         *)
(***************************************************************************)
THEOREM FewSamplesShowTheMaximum ==
    ASSUME NEW n \in Nat \ {0}
    PROVE  /\ n <= 100 => Index(n, 990) = n - 1
           /\ n <= 1000 => Index(n, 999) = n - 1
<1>1. n * 990 \in Nat /\ n * 999 \in Nat  OBVIOUS
<1>2. n <= 100 => (n * 990) \div 1000 = n - 1  OBVIOUS
<1>3. n <= 1000 => (n * 999) \div 1000 = n - 1  OBVIOUS
<1>4. 990 \in 0..1000 /\ 999 \in 0..1000 /\ 990 < 1000 /\ 999 < 1000  OBVIOUS
<1>5. Index(n, 990) = Truncated(n, 990)  BY <1>4, IndexInRange
<1>6. Index(n, 999) = Truncated(n, 999)  BY <1>4, IndexInRange
<1> QED  BY <1>2, <1>3, <1>5, <1>6 DEF Truncated

\* The size of an interval from one.
LEMMA UpToCardinality ==
    ASSUME NEW e \in Nat
    PROVE  IsFiniteSet(1..e) /\ Cardinality(1..e) = e
<1>1. IsFiniteSet(1..e) /\ Cardinality(1..e) = IF 1 > e THEN 0 ELSE e - 1 + 1
  BY FS_Interval
<1> QED  BY <1>1

(***************************************************************************)
(* In ascending list the one at the index is a p-quantile: at least p   *)
(* thousandths of them are no larger, and at least the rest no smaller.    *)
(***************************************************************************)
THEOREM SortedIndexIsQuantile ==
    ASSUME NEW list \in Seq(Int), list # <<>>, NEW p \in 0..1000,
           \A i, j \in 1..Len(list) : i <= j => list[i] <= list[j]
    PROVE  QuantileOf(list, p, list[Index(Len(list), p) + 1])
<1> DEFINE size == Len(list)
           at == Index(size, p)
           x == list[at + 1]
           low == NoLarger(list, x)
           high == NoSmaller(list, x)
<1>1. size \in Nat \ {0}  OBVIOUS
<1> HIDE DEF size
<1>0. at \in 0..(size - 1) /\ (p < 1000 => at = Truncated(size, p))
  BY <1>1, IndexInRange, ZenonT(40) DEF at
<1>2. at \in 0..(size - 1)  BY <1>0
<1> HIDE DEF at
<1>3. at + 1 \in 1..size  BY <1>1, <1>2
<1>4. IsFiniteSet(1..size) /\ Cardinality(1..(at + 1)) = at + 1 /\ Cardinality((at + 1)..size) = size - at
      /\ IsFiniteSet(1..(at + 1)) /\ IsFiniteSet((at + 1)..size)
  <2>1. 1 \in Int /\ at + 1 \in Int /\ size \in Int /\ ~(1 > at + 1) /\ ~(at + 1 > size)  BY <1>1, <1>2
  <2>2. IsFiniteSet(1..size)  BY <2>1, FS_Interval, SMTT(30)
  <2>3. IsFiniteSet(1..(at + 1)) /\ Cardinality(1..(at + 1)) = at + 1
    <3>1. at + 1 \in Nat  BY <1>2
    <3> QED  BY <3>1, UpToCardinality, Zenon
  <2>4. IsFiniteSet((at + 1)..size) /\ Cardinality((at + 1)..size) = size - (at + 1) + 1
    BY <2>1, FS_Interval, SMTT(30)
  <2> QED  BY <1>1, <1>2, <2>2, <2>3, <2>4
<1>5. 1..(at + 1) \in SUBSET low
  <2> SUFFICES ASSUME NEW i \in 1..(at + 1) PROVE i \in low  OBVIOUS
  <2>1. i \in 1..size /\ i <= at + 1  BY <1>1, <1>2
  <2>2. list[i] <= list[at + 1]  BY <1>3, <2>1 DEF size
  <2> QED  BY <2>1, <2>2 DEF NoLarger, size
<1>6. (at + 1)..size \in SUBSET high
  <2> SUFFICES ASSUME NEW i \in (at + 1)..size PROVE i \in high  OBVIOUS
  <2>1. i \in 1..size /\ at + 1 <= i  BY <1>1, <1>2
  <2>2. list[at + 1] <= list[i]  BY <1>3, <2>1 DEF size
  <2>3. list[i] \in Int /\ list[at + 1] \in Int  BY <1>3, <2>1 DEF size
  <2> QED  BY <2>1, <2>2, <2>3 DEF NoSmaller, size
<1>7. low \in SUBSET (1..size) /\ high \in SUBSET (1..size)  BY DEF NoLarger, NoSmaller, size
<1>8. IsFiniteSet(low) /\ IsFiniteSet(high)  BY <1>4, <1>7, FS_Subset
<1>9. Cardinality(low) \in Nat /\ Cardinality(high) \in Nat  BY <1>8, FS_CardinalityType
<1> HIDE DEF x, low, high
<1>10. at + 1 <= Cardinality(low)
  <2>1. Cardinality(1..(at + 1)) <= Cardinality(low)  BY <1>5, <1>8, FS_Subset, Zenon
  <2> QED  BY <1>4, <2>1
<1>11. size - at <= Cardinality(high)
  <2>1. Cardinality((at + 1)..size) <= Cardinality(high)  BY <1>6, <1>8, FS_Subset, Zenon
  <2> QED  BY <1>4, <2>1
<1>12. 1000 * (at + 1) >= p * size /\ 1000 * (size - at) >= (1000 - p) * size
  <2> DEFINE a == size * p
  <2>0. a \in Nat /\ p * size = a /\ (1000 - p) * size = 1000 * size - a  BY <1>1
  <2>1. CASE p < 1000
    <3>1. at = a \div 1000  BY <1>0, <2>1 DEF Truncated
    <3> HIDE DEF a
    <3>2. 1000 * (a \div 1000) <= a /\ a < 1000 * (a \div 1000) + 1000  BY <2>0
    <3> QED  BY <1>1, <1>2, <2>0, <3>1, <3>2
  <2>2. CASE p = 1000
    <3>1. a = 1000 * size  BY <1>1, <2>2
    <3>2. at = size - 1
      <4>1. (size * 1000) \div 1000 = size  BY <1>1
      <4> QED  BY <1>1, <2>2, <4>1 DEF at, Index, Truncated, AtLeast0, AtMost
    <3> QED  BY <1>1, <1>2, <2>0, <3>1, <3>2
  <2> QED  BY <2>1, <2>2
<1>13. 1000 * Cardinality(low) >= 1000 * (at + 1) /\ 1000 * Cardinality(high) >= 1000 * (size - at)
  BY <1>1, <1>2, <1>9, <1>10, <1>11
<1>14. p * size \in Int /\ (1000 - p) * size \in Int  BY <1>1
<1>15. size \in Int /\ at \in Int  BY <1>1, <1>2
<1>16. 1000 * Cardinality(low) >= p * size  BY <1>9, <1>12, <1>13, <1>14, <1>15
<1>17. 1000 * Cardinality(high) >= (1000 - p) * size  BY <1>9, <1>12, <1>13, <1>14, <1>15
<1> QED  BY <1>16, <1>17 DEF QuantileOf, size, at, x, low, high

-----------------------------------------------------------------------------
(***************************************************************************)
(* The percentile of any samples: sorting by rank puts at each place a     *)
(* sample with enough others on either side.                               *)
(***************************************************************************)
\* The counts a rank is made of.
LEMMA Counted ==
    ASSUME NEW list \in Seq(Int), NEW x \in Int
    PROVE  /\ IsFiniteSet(NoLarger(list, x)) /\ Cardinality(NoLarger(list, x)) \in Nat
           /\ Cardinality(NoLarger(list, x)) <= Len(list)
           /\ IsFiniteSet(Below(list, x)) /\ Cardinality(Below(list, x)) \in Nat
<1>1. PICK n \in Nat : n = Len(list)  OBVIOUS
<1>2. IsFiniteSet(1..n) /\ Cardinality(1..n) = n
  BY UpToCardinality
<1>3. NoLarger(list, x) \in SUBSET (1..n) /\ Below(list, x) \in SUBSET (1..n)
  BY <1>1 DEF NoLarger, Below
<1>4. \A S \in SUBSET (1..n) : IsFiniteSet(S) /\ Cardinality(S) \in Nat /\ Cardinality(S) <= n
  <2> TAKE S \in SUBSET (1..n)
  <2>1. IsFiniteSet(S) /\ Cardinality(S) <= n  BY <1>2, FS_Subset
  <2>2. Cardinality(S) \in Nat  BY <2>1, FS_CardinalityType
  <2> QED  BY <2>1, <2>2
<1> QED  BY <1>1, <1>3, <1>4

\* A larger value has more list up to it, if it is a sample itself.
LEMMA MoreUpTo ==
    ASSUME NEW list \in Seq(Int), NEW i \in 1..Len(list), NEW x \in Int, x < list[i]
    PROVE  Cardinality(NoLarger(list, x)) < Cardinality(NoLarger(list, list[i]))
<1>1. list[i] \in Int  OBVIOUS
<1>2. PICK y \in Int : y = list[i]  BY <1>1
<1>3. NoLarger(list, x) \in SUBSET NoLarger(list, y)
  <2> SUFFICES ASSUME NEW j \in 1..Len(list), list[j] <= x PROVE list[j] <= y
    BY DEF NoLarger
  <2>1. list[j] \in Int  OBVIOUS
  <2> QED  BY <2>1, <1>2
<1>4. i \in NoLarger(list, y) /\ i \notin NoLarger(list, x)
  BY <1>2 DEF NoLarger
<1>5. IsFiniteSet(NoLarger(list, y)) /\ Cardinality(NoLarger(list, y)) \in Nat
      /\ Cardinality(NoLarger(list, x)) \in Nat
  BY Counted
<1>6. Cardinality(NoLarger(list, x)) <= Cardinality(NoLarger(list, y))
      /\ Cardinality(NoLarger(list, x)) # Cardinality(NoLarger(list, y))
  BY <1>3, <1>4, <1>5, FS_Subset
<1> QED  BY <1>2, <1>5, <1>6

\* Among some of the list there is a largest.
LEMMA LargestOf ==
    ASSUME NEW list \in Seq(Int), NEW J, J \subseteq 1..Len(list), J # {}
    PROVE  \E j \in J : \A i \in J : list[i] <= list[j]
<1>1. PICK n \in Nat : n = Len(list)  OBVIOUS
<1> DEFINE Above(i) == n - Cardinality(NoLarger(list, list[i]))
           S == {Above(i) : i \in J}
<1>2. \A i \in J : list[i] \in Int  OBVIOUS
<1>3. \A i \in J : Above(i) \in Nat
  <2> TAKE i \in J
  <2>1. PICK x \in Int : x = list[i]  BY <1>2
  <2>2. Cardinality(NoLarger(list, x)) \in Nat /\ Cardinality(NoLarger(list, x)) <= n  BY <1>1, Counted
  <2> QED  BY <1>1, <2>1, <2>2
<1>4. S \subseteq Nat /\ S # {}  BY <1>3
<1> HIDE DEF Above
<1>5. PICK j \in J : \A i \in J : Above(j) <= Above(i)
  <2>1. PICK m \in S : \A k \in S : m <= k
    <3> HIDE DEF S
    <3> QED  BY <1>4, LeastIn
  <2> QED  BY <2>1
<1>6. \A i \in J : list[i] <= list[j]
  <2> SUFFICES ASSUME NEW i \in J, ~ list[i] <= list[j] PROVE FALSE
    OBVIOUS
  <2>1. list[j] \in Int /\ list[i] \in Int /\ i \in 1..Len(list)  BY <1>2
  <2>2. list[j] < list[i]  BY <2>1
  <2>3. Cardinality(NoLarger(list, list[j])) < Cardinality(NoLarger(list, list[i]))
    BY <2>1, <2>2, MoreUpTo
  <2>4. Cardinality(NoLarger(list, list[j])) \in Nat /\ Cardinality(NoLarger(list, list[i])) \in Nat
    BY <2>1, Counted
  <2>5. Above(i) < Above(j)  BY <1>1, <2>3, <2>4 DEF Above
  <2> QED  BY <1>3, <1>5, <2>5
<1> QED  BY <1>6

\* There is a sample of every rank.
LEMMA OneOfEachRank ==
    ASSUME NEW list \in Seq(Int), NEW k \in 1..Len(list)
    PROVE  \E i \in 1..Len(list) :
              Cardinality(Below(list, list[i])) < k /\ k <= Cardinality(NoLarger(list, list[i]))
<1>1. PICK n \in Nat : n = Len(list)  OBVIOUS
<1>2. \A i \in 1..n : list[i] \in Int  BY <1>1
<1> DEFINE UpTo(i) == Cardinality(NoLarger(list, list[i]))
           Many == {i \in 1..n : k <= UpTo(i)}
           S == {UpTo(i) : i \in Many}
<1>3. \A i \in 1..n : UpTo(i) \in Nat
  <2> TAKE i \in 1..n
  <2>1. PICK x \in Int : x = list[i]  BY <1>2
  <2>2. Cardinality(NoLarger(list, x)) \in Nat  BY Counted
  <2> QED  BY <2>1, <2>2
<1>4. Many # {}
  <2>1. 1..n \subseteq 1..Len(list) /\ 1..n # {}  BY <1>1
  <2>2. PICK j \in 1..n : \A i \in 1..n : list[i] <= list[j]  BY <1>1, <2>1, LargestOf
  <2>3. NoLarger(list, list[j]) = 1..n  BY <1>1, <2>2 DEF NoLarger
  <2>4. UpTo(j) = n  BY <2>3, UpToCardinality
  <2> QED  BY <1>1, <2>4
<1>5. S \subseteq Nat /\ S # {}  BY <1>3, <1>4
<1> HIDE DEF UpTo
<1>6. PICK i \in Many : \A j \in Many : UpTo(i) <= UpTo(j)
  <2>1. PICK m \in S : \A l \in S : m <= l
    <3> HIDE DEF S
    <3> QED  BY <1>5, LeastIn
  <2> QED  BY <2>1
<1>7. i \in 1..n /\ k <= UpTo(i)  OBVIOUS
<1>8. Cardinality(Below(list, list[i])) < k
  <2> DEFINE J == Below(list, list[i])
  <2>1. IsFiniteSet(J) /\ Cardinality(J) \in Nat  BY <1>2, <1>7, Counted
  <2> SUFFICES ASSUME k <= Cardinality(J) PROVE FALSE
    BY <1>1, <2>1
  <2>2. J # {}
    <3>1. k \in Nat /\ k >= 1  BY <1>1
    <3>2. Cardinality({}) = 0  BY FS_EmptySet
    <3>3. k <= Cardinality(J)  OBVIOUS
    <3> HIDE DEF J
    <3> SUFFICES ASSUME J = {} PROVE FALSE  OBVIOUS
    <3>4. Cardinality(J) = 0  BY <3>2, Zenon
    <3> QED  BY <3>1, <3>3, <3>4
  <2>3. J \subseteq 1..Len(list)  BY DEF Below
  <2>4. PICK j \in J : \A l \in J : list[l] <= list[j]
    <3> HIDE DEF J
    <3> QED  BY <2>2, <2>3, LargestOf
  <2>5. j \in 1..n /\ list[j] < list[i]  BY <1>1 DEF Below
  <2>6. J \in SUBSET NoLarger(list, list[j])  BY <2>3, <2>4 DEF NoLarger
  <2>7. IsFiniteSet(NoLarger(list, list[j]))  BY <1>2, <2>5, Counted
  <2>8. Cardinality(J) <= UpTo(j)
    <3> HIDE DEF J
    <3> QED  BY <2>6, <2>7, FS_Subset DEF UpTo
  <2>9. UpTo(j) < UpTo(i)
    BY <1>1, <1>2, <1>7, <2>5, MoreUpTo DEF UpTo
  <2>10. j \in Many
    <3> HIDE DEF J
    <3> QED  BY <1>1, <1>3, <2>1, <2>5, <2>8
  <2> HIDE DEF J, Many
  <2> QED  BY <1>3, <1>6, <1>7, <2>5, <2>9, <2>10
<1> QED  BY <1>1, <1>7, <1>8 DEF UpTo

\* What is not below is no smaller.
LEMMA BelowAndNoSmaller ==
    ASSUME NEW list \in Seq(Int), NEW x \in Int
    PROVE  /\ Cardinality(NoSmaller(list, x)) = Len(list) - Cardinality(Below(list, x))
           /\ Cardinality(NoSmaller(list, x)) \in Nat
<1>1. PICK n \in Nat : n = Len(list)  OBVIOUS
<1>2. IsFiniteSet(1..n) /\ Cardinality(1..n) = n
  BY UpToCardinality
<1>3. PICK L, H : L = Below(list, x) /\ H = NoSmaller(list, x)  OBVIOUS
<1>4. L \cup H = 1..n /\ L \cap H = {}
  <2>1. \A i \in 1..n : list[i] \in Int  BY <1>1
  <2> QED  BY <1>1, <1>3, <2>1 DEF Below, NoSmaller
<1>5. L \in SUBSET (1..n) /\ H \in SUBSET (1..n)  BY <1>4
<1>6. IsFiniteSet(L) /\ IsFiniteSet(H)  BY <1>2, <1>5, FS_Subset
<1>7. Cardinality(L) \in Nat /\ Cardinality(H) \in Nat  BY <1>6, FS_CardinalityType
<1>8. Cardinality(L \cup H) = Cardinality(L) + Cardinality(H) - Cardinality(L \cap H)
  BY <1>6, FS_Union
<1>9. Cardinality(L \cap H) = 0  BY <1>4, FS_EmptySet
<1>10. PICK l \in Nat, h \in Nat : l = Cardinality(L) /\ h = Cardinality(H)  BY <1>7
<1>11. n = l + h - 0  BY <1>2, <1>4, <1>8, <1>9, <1>10, Zenon
<1>12. h = n - l  BY <1>11
<1> QED  BY <1>1, <1>3, <1>10, <1>12

\* At least the fraction of the places are up to this one, at least the rest from it on.
SplitsAt(size, p, at) ==
    1000 * (at + 1) >= p * size /\ 1000 * (size - at) >= (1000 - p) * size

(***************************************************************************)
(* The index of a percentile, as an inequality: at least the fraction of   *)
(* the places are up to it, at least the rest from it on.                  *)
(***************************************************************************)
LEMMA IndexArithmetic ==
    ASSUME NEW size \in Nat \ {0}, NEW p \in 0..1000
    PROVE  SplitsAt(size, p, Index(size, p))
<1>3. PICK at : at = Index(size, p)  OBVIOUS
<1>1. size \in Nat \ {0}  OBVIOUS
<1>0. at \in 0..(size - 1) /\ (p < 1000 => at = Truncated(size, p))
  <2>1. Index(size, p) \in 0..(size - 1) /\ (p < 1000 => Index(size, p) = Truncated(size, p))
    BY IndexInRange, ZenonT(40)
  <2> QED  BY <1>3, <2>1
<1>2. at \in 0..(size - 1)  BY <1>0
<1>12. 1000 * (at + 1) >= p * size /\ 1000 * (size - at) >= (1000 - p) * size
  <2> DEFINE a == size * p
  <2>0. a \in Nat /\ p * size = a /\ (1000 - p) * size = 1000 * size - a  BY <1>1
  <2>1. CASE p < 1000
    <3>1. at = a \div 1000  BY <1>0, <2>1 DEF Truncated
    <3> HIDE DEF a
    <3>2. 1000 * (a \div 1000) <= a /\ a < 1000 * (a \div 1000) + 1000  BY <2>0
    <3> QED  BY <1>1, <1>2, <2>0, <3>1, <3>2
  <2>2. CASE p = 1000
    <3>1. a = 1000 * size  BY <1>1, <2>2
    <3>2. at = size - 1
      <4>1. (size * 1000) \div 1000 = size  BY <1>1
      <4> QED  BY <1>1, <1>3, <2>2, <4>1 DEF Index, Truncated, AtLeast0, AtMost
    <3> QED  BY <1>1, <1>2, <2>0, <3>1, <3>2
  <2> QED  BY <2>1, <2>2
<1> QED  BY <1>3, <1>12 DEF SplitsAt

(***************************************************************************)
(* The percentile of any list, in whatever order they were measured, is *)
(* a quantile of them (benchmark.cpp:127-144).                             *)
(***************************************************************************)
THEOREM PercentileIsQuantile ==
    ASSUME NEW list \in Seq(Int), list # <<>>, NEW p \in 0..1000
    PROVE  QuantileOf(list, p, Percentile(list, p))
<1>1. PICK n \in Nat \ {0} : n = Len(list)  OBVIOUS
<1>2. PICK at \in 0..n - 1 : at = Index(n, p)  BY IndexInRange, ZenonT(40)
<1>3. PICK k \in 1..n : k = at + 1
  <2>1. at + 1 \in 1..n  OBVIOUS
  <2> QED  BY <2>1
<1> DEFINE Ranked(x) == Cardinality(Below(list, x)) < k /\ k <= Cardinality(NoLarger(list, x))
           Values == {list[i] : i \in 1..Len(list)}
<1>4. Percentile(list, p) = CHOOSE x \in Values : Ranked(x)
  <2>1. Percentile(list, p) = Sorted(list)[k]  BY <1>1, <1>2, <1>3, Zenon DEF Percentile
  <2>2. k \in 1..Len(list)  BY <1>1
  <2> QED  BY <2>1, <2>2 DEF Sorted
<1>5. \E x \in Values : Ranked(x)
  <2>1. PICK i \in 1..Len(list) : Ranked(list[i])  BY <1>1, OneOfEachRank
  <2>2. list[i] \in Values  OBVIOUS
  <2> HIDE DEF Ranked, Values
  <2> QED  BY <2>1, <2>2
<1>6. PICK x \in Int : x = Percentile(list, p) /\ Ranked(x)
  <2>1. \A x \in Values : x \in Int  OBVIOUS
  <2> HIDE DEF Ranked, Values
  <2>2. PICK x : x = CHOOSE y \in Values : Ranked(y)  OBVIOUS
  <2>3. x \in Values /\ Ranked(x)  BY <1>5, <2>2, Zenon
  <2> QED  BY <1>4, <2>1, <2>2, <2>3
<1>7. Cardinality(NoLarger(list, x)) \in Nat /\ Cardinality(Below(list, x)) \in Nat  BY Counted
<1>8. PICK a \in Nat, b \in Nat, c \in Nat :
         /\ a = Cardinality(NoLarger(list, x)) /\ b = Cardinality(Below(list, x))
         /\ c = Cardinality(NoSmaller(list, x)) /\ c = n - b
  BY <1>1, <1>7, BelowAndNoSmaller
<1>9. a >= at + 1 /\ c >= n - at
  <2>1. b < k /\ k <= a  BY <1>6, <1>8
  <2> QED  BY <1>3, <1>8, <2>1
<1>10. 1000 * (at + 1) >= p * n /\ 1000 * (n - at) >= (1000 - p) * n
  <2>1. SplitsAt(n, p, Index(n, p))  BY IndexArithmetic, ZenonT(40)
  <2> QED  BY <1>2, <2>1 DEF SplitsAt
<1>11. p * n \in Int /\ (1000 - p) * n \in Int  OBVIOUS
<1>12. 1000 * a >= p * n /\ 1000 * c >= (1000 - p) * n
  BY <1>9, <1>10, <1>11
<1> QED  BY <1>1, <1>6, <1>8, <1>12 DEF QuantileOf

-----------------------------------------------------------------------------
(***************************************************************************)
(* The orders and the reports of OrderText.                                *)
(***************************************************************************)
\* The bytes of a text that has no byte in it that JSON.stringify would escape.
Shown == 32..255

\* What the order form gives.
LEMMA EntriesAre ==
    ASSUME NEW v \in Entries
    PROVE  v \in [Key -> Seq(Plain) \cup {NoKey}]
<1>1. PICK a \in Typed["symbol"], b \in Typed["side"], c \in Typed["qty"], d \in Typed["price"] :
         v = [symbol |-> a, side |-> b, qty |-> c, price |-> d]
  BY DEF Entries
<1>2. \A k \in Key : Typed[k] \subseteq Seq(Plain) \cup {NoKey}  BY TextAssumption
<1>3. /\ a \in Seq(Plain) \cup {NoKey} /\ b \in Seq(Plain) \cup {NoKey}
      /\ c \in Seq(Plain) \cup {NoKey} /\ d \in Seq(Plain) \cup {NoKey}
  BY <1>1, <1>2 DEF Key
<1> QED  BY <1>1, <1>3 DEF Key

\* The fields of an order and of a report.
IsOrder(f, v) ==
    /\ DOMAIN f = 1..8
    /\ f[1] = Field(35, <<68>>) /\ f[2] = Field(11, Id)
    /\ f[3] = Field(21, <<49>>) /\ f[4] = Field(55, v["symbol"])
    /\ f[5] = Field(54, v["side"]) /\ f[6] = Field(38, v["qty"])
    /\ f[7] = Field(40, <<50>>) /\ f[8] = Field(44, v["price"])

\* The fields of a report.
IsReport(f, id, v) ==
    /\ DOMAIN f = 1..12
    /\ f[1] = Field(35, <<56>>) /\ f[2] = Field(11, id) /\ f[3] = Field(37, <<79, 49>>)
    /\ f[4] = Field(17, <<69, 49>>) /\ f[5] = Field(150, <<50>>) /\ f[6] = Field(39, <<50>>)
    /\ f[7] = Field(55, v["symbol"]) /\ f[8] = Field(54, v["side"])
    /\ f[9] = Field(38, v["qty"]) /\ f[10] = Field(44, v["price"])
    /\ f[11] = Field(151, <<48>>) /\ f[12] = Field(14, v["qty"])

\* The fields of an order and of a report are these.
LEMMA FieldsAre ==
    /\ \A v \in [Key -> Seq(Byte)] : IsOrder(OrderFields(v), v)
    /\ \A v \in [Key -> Seq(Byte)] : \A id : IsReport(ReportFields(id, v), id, v)
BY DEF OrderFields, IsOrder, ReportFields, IsReport

\* A field is good.
LEMMA FieldIsGood ==
    ASSUME NEW tag \in 11..999, NEW value \in Seq(Byte)
    PROVE  /\ GoodField(Field(tag, value))
           /\ Field(tag, value).tag = tag /\ Field(tag, value).value = value
BY DEF GoodField, Field

\* The web server's ClOrdID.
LEMMA IdIs == Id \in Seq(Byte) /\ Id # <<>> /\ \A i \in 1..Len(Id) : Id[i] \notin {EQ, BAR, SOH}
<1>1. Id \in Seq(Plain \ {EQ, BAR}) /\ Id # <<>>  BY TextAssumption
<1>2. Plain \ {EQ, BAR} \subseteq Byte  BY DEF Plain, Byte
<1>3. \A i \in 1..Len(Id) : Id[i] \in Plain \ {EQ, BAR}  BY <1>1, ElementOfSeq
<1>4. \A i \in 1..Len(Id) : Id[i] \in Byte  BY <1>2, <1>3
<1>5. SOH \notin Plain  BY DEF SOH, Plain
<1>6. Id \in Seq(Byte)
  <2>1. Id \in [1..Len(Id) -> Byte]  BY <1>1, <1>4
  <2>2. Len(Id) \in Nat  BY <1>1
  <2> QED  BY <2>1, <2>2
<1> QED  BY <1>1, <1>3, <1>5, <1>6

\* One byte, or two.
LEMMA Small ==
    /\ \A a \in Byte : <<a>> \in Seq(Byte) /\ Len(<<a>>) = 1
    /\ \A a \in Byte : \A b \in Byte : <<a, b>> \in Seq(Byte) /\ Len(<<a, b>>) = 2
OBVIOUS

\* The fields of an order can be written.
LEMMA OrderFieldsGood ==
    ASSUME NEW v \in [Key -> Seq(Byte)]
    PROVE  AllGood(OrderFields(v), 8)
<1>0. PICK f : f = OrderFields(v) /\ IsOrder(f, v)  BY FieldsAre
<1>1. /\ v["symbol"] \in Seq(Byte) /\ v["side"] \in Seq(Byte) /\ v["qty"] \in Seq(Byte)
      /\ v["price"] \in Seq(Byte)
  BY DEF Key
<1>2. 68 \in Byte /\ 49 \in Byte /\ 50 \in Byte  BY DEF Byte
<1>3. /\ <<68>> \in Seq(Byte) /\ <<49>> \in Seq(Byte) /\ <<50>> \in Seq(Byte) /\ Id \in Seq(Byte)
  BY <1>2, Small, IdIs
<1>4. /\ GoodField(Field(35, <<68>>)) /\ GoodField(Field(11, Id)) /\ GoodField(Field(21, <<49>>))
      /\ GoodField(Field(55, v["symbol"])) /\ GoodField(Field(54, v["side"]))
      /\ GoodField(Field(38, v["qty"])) /\ GoodField(Field(40, <<50>>))
      /\ GoodField(Field(44, v["price"]))
  <2>1. 35 \in 11..999  OBVIOUS
  <2>2. GoodField(Field(35, <<68>>))  BY <1>1, <1>3, <2>1, FieldIsGood, ZenonT(40)
  <2>3. 11 \in 11..999  OBVIOUS
  <2>4. GoodField(Field(11, Id))  BY <1>1, <1>3, <2>3, FieldIsGood
  <2>5. 21 \in 11..999  OBVIOUS
  <2>6. GoodField(Field(21, <<49>>))  BY <1>1, <1>3, <2>5, FieldIsGood, ZenonT(40)
  <2>7. 55 \in 11..999  OBVIOUS
  <2>8. GoodField(Field(55, v["symbol"]))  BY <1>1, <1>3, <2>7, FieldIsGood
  <2>9. 54 \in 11..999  OBVIOUS
  <2>10. GoodField(Field(54, v["side"]))  BY <1>1, <1>3, <2>9, FieldIsGood
  <2>11. 38 \in 11..999  OBVIOUS
  <2>12. GoodField(Field(38, v["qty"]))  BY <1>1, <1>3, <2>11, FieldIsGood
  <2>13. 40 \in 11..999  OBVIOUS
  <2>14. GoodField(Field(40, <<50>>))  BY <1>1, <1>3, <2>13, FieldIsGood, ZenonT(40)
  <2>15. 44 \in 11..999  OBVIOUS
  <2>16. GoodField(Field(44, v["price"]))  BY <1>1, <1>3, <2>15, FieldIsGood
  <2> QED  BY <2>2, <2>4, <2>6, <2>8, <2>10, <2>12, <2>14, <2>16, Zenon
<1>5. /\ GoodField(f[1]) /\ GoodField(f[2]) /\ GoodField(f[3]) /\ GoodField(f[4])
      /\ GoodField(f[5]) /\ GoodField(f[6]) /\ GoodField(f[7]) /\ GoodField(f[8])
  BY <1>0, <1>4 DEF IsOrder
<1>6. \A i \in 1..8 : GoodField(f[i])
  BY <1>5
<1> QED  BY <1>0, <1>6 DEF AllGood

\* The fields of a report can be written.
LEMMA ReportFieldsGood ==
    ASSUME NEW id \in Seq(Byte), NEW v \in [Key -> Seq(Byte)]
    PROVE  AllGood(ReportFields(id, v), 12)
<1>0. PICK f : f = ReportFields(id, v) /\ IsReport(f, id, v)  BY FieldsAre
<1>1. /\ v["symbol"] \in Seq(Byte) /\ v["side"] \in Seq(Byte) /\ v["qty"] \in Seq(Byte)
      /\ v["price"] \in Seq(Byte)
  BY DEF Key
<1>2. {56, 79, 49, 69, 50, 48} \subseteq Byte  BY DEF Byte
<1>3. /\ <<56>> \in Seq(Byte) /\ <<50>> \in Seq(Byte) /\ <<48>> \in Seq(Byte)
      /\ <<79, 49>> \in Seq(Byte) /\ <<69, 49>> \in Seq(Byte)
  BY <1>2, Small
<1>4. /\ GoodField(Field(35, <<56>>)) /\ GoodField(Field(11, id)) /\ GoodField(Field(37, <<79, 49>>))
      /\ GoodField(Field(17, <<69, 49>>)) /\ GoodField(Field(150, <<50>>))
      /\ GoodField(Field(39, <<50>>))
      /\ GoodField(Field(55, v["symbol"])) /\ GoodField(Field(54, v["side"]))
      /\ GoodField(Field(38, v["qty"])) /\ GoodField(Field(44, v["price"]))
      /\ GoodField(Field(151, <<48>>)) /\ GoodField(Field(14, v["qty"]))
  <2>1. 35 \in 11..999  OBVIOUS
  <2>2. GoodField(Field(35, <<56>>))  BY <1>1, <1>3, <2>1, FieldIsGood, ZenonT(40)
  <2>3. 11 \in 11..999  OBVIOUS
  <2>4. GoodField(Field(11, id))  BY <1>1, <1>3, <2>3, FieldIsGood
  <2>5. 37 \in 11..999  OBVIOUS
  <2>6. GoodField(Field(37, <<79, 49>>))
    <3>1. PICK w \in Seq(Byte) : w = <<79, 49>>  BY <1>3, Zenon
    <3>2. GoodField(Field(37, w))  BY ONLY <2>5, w \in Seq(Byte), FieldIsGood, Zenon
    <3> QED  BY ONLY <3>1, <3>2, Zenon
  <2>7. 17 \in 11..999  OBVIOUS
  <2>8. GoodField(Field(17, <<69, 49>>))
    <3>1. PICK w \in Seq(Byte) : w = <<69, 49>>  BY <1>3, Zenon
    <3>2. GoodField(Field(17, w))  BY ONLY <2>7, w \in Seq(Byte), FieldIsGood, Zenon
    <3> QED  BY ONLY <3>1, <3>2, Zenon
  <2>9. 150 \in 11..999  OBVIOUS
  <2>10. GoodField(Field(150, <<50>>))  BY <1>1, <1>3, <2>9, FieldIsGood, ZenonT(40)
  <2>11. 39 \in 11..999  OBVIOUS
  <2>12. GoodField(Field(39, <<50>>))  BY <1>1, <1>3, <2>11, FieldIsGood, ZenonT(40)
  <2>13. 55 \in 11..999  OBVIOUS
  <2>14. GoodField(Field(55, v["symbol"]))  BY <1>1, <1>3, <2>13, FieldIsGood
  <2>15. 54 \in 11..999  OBVIOUS
  <2>16. GoodField(Field(54, v["side"]))  BY <1>1, <1>3, <2>15, FieldIsGood
  <2>17. 38 \in 11..999  OBVIOUS
  <2>18. GoodField(Field(38, v["qty"]))  BY <1>1, <1>3, <2>17, FieldIsGood
  <2>19. 44 \in 11..999  OBVIOUS
  <2>20. GoodField(Field(44, v["price"]))  BY <1>1, <1>3, <2>19, FieldIsGood
  <2>21. 151 \in 11..999  OBVIOUS
  <2>22. GoodField(Field(151, <<48>>))  BY <1>1, <1>3, <2>21, FieldIsGood, ZenonT(40)
  <2>23. 14 \in 11..999  OBVIOUS
  <2>24. GoodField(Field(14, v["qty"]))  BY <1>1, <1>3, <2>23, FieldIsGood
  <2> QED  BY <2>2, <2>4, <2>6, <2>8, <2>10, <2>12, <2>14, <2>16, <2>18, <2>20, <2>22, <2>24, Zenon
<1>5. /\ GoodField(f[1]) /\ GoodField(f[2]) /\ GoodField(f[3]) /\ GoodField(f[4])
      /\ GoodField(f[5]) /\ GoodField(f[6]) /\ GoodField(f[7]) /\ GoodField(f[8])
      /\ GoodField(f[9]) /\ GoodField(f[10]) /\ GoodField(f[11]) /\ GoodField(f[12])
  <2>1. /\ f[1] = Field(35, <<56>>) /\ f[2] = Field(11, id) /\ f[3] = Field(37, <<79, 49>>)
        /\ f[4] = Field(17, <<69, 49>>) /\ f[5] = Field(150, <<50>>) /\ f[6] = Field(39, <<50>>)
        /\ f[7] = Field(55, v["symbol"]) /\ f[8] = Field(54, v["side"]) /\ f[9] = Field(38, v["qty"])
        /\ f[10] = Field(44, v["price"]) /\ f[11] = Field(151, <<48>>) /\ f[12] = Field(14, v["qty"])
    BY <1>0 DEF IsReport
  <2>2. GoodField(f[1]) /\ GoodField(f[2]) /\ GoodField(f[3]) /\ GoodField(f[4])  BY <1>4, <2>1, Zenon
  <2>3. GoodField(f[5]) /\ GoodField(f[6]) /\ GoodField(f[7]) /\ GoodField(f[8])  BY <1>4, <2>1, Zenon
  <2>4. GoodField(f[9]) /\ GoodField(f[10])  BY <1>4, <2>1, Zenon
  <2>5. GoodField(f[11]) /\ GoodField(f[12])  BY <1>4, <2>1, Zenon
  <2> QED  BY <2>2, <2>3, <2>4, <2>5
<1>6. \A i \in 1..12 : GoodField(f[i])
  BY <1>5
<1> QED  BY <1>0, <1>6 DEF AllGood

\* What is built is a text of bytes, and ends in a SOH.
LEMMA BuiltIs ==
    ASSUME NEW n \in Nat \ {0}, NEW fields, DOMAIN fields = 1..n, AllGood(fields, n)
    PROVE  BuildMessage(fields) \in Seq(Byte) /\ Shape(BuildMessage(fields), Len(Body(fields)))
<1>1. Body(fields) \in Seq(Byte)  BY BodyEnds
<1>2. Shape(BuildMessage(fields), Len(Body(fields)))  BY <1>1, BuiltShape
<1> QED  BY <1>2 DEF Shape, Opens

\* Which of the two separators a line has makes no difference to the exchange.
LEMMA PipeOrSoh ==
    ASSUME NEW text \in Seq(Byte)
    PROVE  ToPipe(text) \in Seq(Byte) /\ ToSoh(ToPipe(text)) = ToSoh(text)
<1>1. PICK n \in Nat : n = Len(text)  OBVIOUS
<1>2. \A i \in 1..n : text[i] \in Byte  BY <1>1, ElementOfSeq
<1>3. BAR \in Byte /\ SOH \in Byte /\ BAR # SOH  BY DEF BAR, SOH, Byte
<1>4. DOMAIN text = 1..n  BY <1>1
<1>5. PICK p : p = ToPipe(text)  OBVIOUS
<1>6. p = [i \in 1..n |-> IF text[i] = SOH THEN BAR ELSE text[i]]  BY <1>4, <1>5, Zenon DEF ToPipe
<1>7. p \in [1..n -> Byte]
  <2>1. \A i \in 1..n : (IF text[i] = SOH THEN BAR ELSE text[i]) \in Byte  BY <1>2, <1>3
  <2> QED  BY <1>6, <2>1
<1>8. p \in Seq(Byte) /\ Len(p) = n /\ DOMAIN p = 1..n  BY <1>7
<1>9. ToSoh(p) = [i \in 1..n |-> IF p[i] = BAR THEN SOH ELSE p[i]]  BY <1>8, Zenon DEF ToSoh
<1>10. ToSoh(text) = [i \in 1..n |-> IF text[i] = BAR THEN SOH ELSE text[i]]  BY <1>4, Zenon DEF ToSoh
<1>11. \A i \in 1..n : (IF p[i] = BAR THEN SOH ELSE p[i]) = IF text[i] = BAR THEN SOH ELSE text[i]
  BY <1>3, <1>6
<1> QED  BY <1>5, <1>8, <1>9, <1>10, <1>11

-----------------------------------------------------------------------------
(***************************************************************************)
(* extract_json_field.                                                     *)
(***************************************************************************)
\* A text of some bytes is one of any more.
LEMMA SeqWithin ==
    ASSUME NEW S, NEW T, S \subseteq T, NEW s \in Seq(S)
    PROVE  s \in Seq(T)
<1>1. Len(s) \in Nat /\ s \in [1..Len(s) -> S]  OBVIOUS
<1>2. s \in [1..Len(s) -> T]
  <2>1. \A i \in 1..Len(s) : s[i] \in T  BY <1>1
  <2> QED  BY <1>1, <2>1, Zenon
<1> QED  BY <1>1, <1>2

\* The next byte of a set.
LEMMA NextOfIs ==
    ASSUME NEW set, NEW text, NEW n \in Nat, n = Len(text), NEW from \in 1..n + 1
    PROVE  /\ NextOf(set, text, from) \in from..n + 1
           /\ NextOf(set, text, from) # n + 1 => text[NextOf(set, text, from)] \in set
           /\ \A i \in from..NextOf(set, text, from) - 1 : text[i] \notin set
<1> DEFINE S == {i \in from..Len(text) : text[i] \in set} \cup {Len(text) + 1}
<1>1. S \subseteq Nat /\ S # {}  OBVIOUS
<1>2. PICK x \in S : \A y \in S : x <= y
  <2> HIDE DEF S
  <2> QED  BY <1>1, LeastIn
<1>3. \A z \in S : (\A y \in S : z <= y) => z = x
  <2> TAKE z \in S
  <2>1. z \in Nat /\ x \in Nat  BY <1>1, <1>2
  <2> HIDE DEF S
  <2> QED  BY <1>2, <2>1
<1>4. NextOf(set, text, from) = x
  <2>1. NextOf(set, text, from) = CHOOSE z \in S : \A y \in S : z <= y  BY DEF NextOf, Min
  <2> HIDE DEF S
  <2> QED  BY <1>2, <1>3, <2>1
<1>5. x \in from..n + 1 /\ (x # n + 1 => text[x] \in set)  BY <1>2
<1>6. \A i \in from..x - 1 : text[i] \notin set
  <2> TAKE i \in from..x - 1
  <2>1. i \notin S  BY <1>1, <1>2, <1>5
  <2>2. i \in from..Len(text)  BY <1>5
  <2> QED  BY <2>1, <2>2
<1> QED  BY <1>4, <1>5, <1>6

\* How extract_json_field goes through a text: key, colon, first byte, end.
Finds(json, at, colon, start, end) ==
    /\ colon \in at..Len(json) /\ json[colon] = COLON
    /\ \A i \in at..colon - 1 : json[i] # COLON
    /\ start \in colon + 1..Len(json) + 1
    /\ \A i \in colon + 1..start - 1 : json[i] \in {SPACE, QUOTE}
    /\ start # Len(json) + 1 => json[start] \notin {SPACE, QUOTE}
    /\ end \in start..Len(json) + 1
    /\ end # Len(json) + 1 => json[end] = QUOTE
    /\ \A i \in start..end - 1 : json[i] # QUOTE

\* What extract_json_field goes through, place by place.
LEMMA ExtractIs ==
    ASSUME NEW json \in Seq(Byte), NEW key
    PROVE  \E at, colon, start, end :
              /\ at \in Nat /\ at = Find(Quoted(<<key>>), json, 1)
              /\ at # 0 => FirstAt(colon, COLON, json, at)
              /\ at # 0 /\ colon # 0 => Finds(json, at, colon, start, end)
              /\ ExtractJsonField(json, key) =
                   IF at = 0 \/ colon = 0 THEN <<>> ELSE SubSeq(json, start, end - 1)
<1>1. PICK n \in Nat : n = Len(json)  OBVIOUS
<1>2. PICK at : at = Find(Quoted(<<key>>), json, 1)  OBVIOUS
<1>3. Len(Quoted(<<key>>)) \in Nat
  <2>1. QUOTE \in {QUOTE, key} /\ key \in {QUOTE, key}  OBVIOUS
  <2>2. <<QUOTE>> \in Seq({QUOTE, key}) /\ <<key>> \in Seq({QUOTE, key})  BY <2>1
  <2> QED  BY <2>2 DEF Quoted
<1>4. at \in Nat  BY <1>1, <1>2, <1>3, FindIs
<1>5. PICK colon : colon = ColonOf(json, at)  OBVIOUS
<1>6. PICK start : start = NextOf(0..255 \ {SPACE, QUOTE}, json, colon + 1)  OBVIOUS
<1>7. PICK end : end = NextOf({QUOTE}, json, start)  OBVIOUS
<1>8. ExtractJsonField(json, key) =
        IF at = 0 \/ colon = 0 THEN <<>> ELSE SubSeq(json, start, end - 1)
  BY <1>2, <1>5, <1>6, <1>7, Zenon DEF ExtractJsonField
<1>9. at # 0 => FirstAt(colon, COLON, json, at)
  <2> HAVE at # 0
  <2>1. FirstAt(Find(<<COLON>>, json, at), COLON, json, at)  BY <1>1, <1>4, FindByte
  <2> QED  BY <1>5, <2>1 DEF ColonOf
<1>10. ASSUME at # 0, colon # 0
       PROVE  Finds(json, at, colon, start, end)
  <2>1. /\ colon \in at..n /\ json[colon] = COLON
        /\ \A i \in at..colon - 1 : json[i] # COLON
    BY <1>1, <1>9, <1>10 DEF FirstAt
  <2>2. PICK from \in 1..n + 1 : from = colon + 1  BY <1>4, <2>1
  <2>3. /\ start \in from..n + 1
        /\ start # n + 1 => json[start] \in 0..255 \ {SPACE, QUOTE}
        /\ \A i \in from..start - 1 : json[i] \notin 0..255 \ {SPACE, QUOTE}
    <3> DEFINE other == 0..255 \ {SPACE, QUOTE}
    <3>1. start = NextOf(other, json, from)  BY <1>6, <2>2
    <3> HIDE DEF other
    <3>2. /\ start \in from..n + 1
          /\ start # n + 1 => json[start] \in other
          /\ \A i \in from..start - 1 : json[i] \notin other
      BY <1>1, <3>1, NextOfIs
    <3> QED  BY <3>2 DEF other
  <2>4. start \in 1..n + 1  BY <2>3
  <2>5. /\ end \in start..n + 1
        /\ end # n + 1 => json[end] \in {QUOTE}
        /\ \A i \in start..end - 1 : json[i] \notin {QUOTE}
    BY <1>1, <1>7, <2>4, NextOfIs
  <2>6. \A i \in 1..n : json[i] \in 0..255  BY <1>1, ElementOfSeq DEF Byte
  <2>7. \A i \in from..start - 1 : json[i] \in {SPACE, QUOTE}
    <3> TAKE i \in from..start - 1
    <3>1. i \in 1..n  BY <2>3, <2>4
    <3>2. json[i] \in 0..255 /\ json[i] \notin 0..255 \ {SPACE, QUOTE}  BY <2>3, <2>6, <3>1
    <3> QED  BY <3>2
  <2> QED  BY <1>1, <2>1, <2>2, <2>3, <2>5, <2>7 DEF Finds
<1> QED  BY <1>2, <1>4, <1>8, <1>9, <1>10

\* What is extracted is a piece of the text, and begins with no blank.
LEMMA ExtractType ==
    ASSUME NEW S, S \subseteq Byte, NEW json \in Seq(S), NEW key
    PROVE  /\ ExtractJsonField(json, key) \in Seq(S)
           /\ ExtractJsonField(json, key) # <<>> => ExtractJsonField(json, key)[1] # SPACE
<1>1. json \in Seq(Byte)  BY SeqWithin
<1>2. PICK at, colon, start, end :
         /\ at \in Nat
         /\ at # 0 /\ colon # 0 => Finds(json, at, colon, start, end)
         /\ ExtractJsonField(json, key) =
              IF at = 0 \/ colon = 0 THEN <<>> ELSE SubSeq(json, start, end - 1)
  BY <1>1, ExtractIs
<1>3. CASE at = 0 \/ colon = 0
  BY <1>2, <1>3
<1>4. CASE at # 0 /\ colon # 0
  <2>1. PICK n \in Nat : n = Len(json)  OBVIOUS
  <2>2. /\ colon \in at..n /\ start \in colon + 1..n + 1 /\ end \in start..n + 1
        /\ start # n + 1 => json[start] \notin {SPACE, QUOTE}
    BY <1>2, <1>4, <2>1 DEF Finds
  <2>3. PICK a \in Nat \ {0}, b \in Nat : a = start /\ b = end - 1 /\ b <= n /\ a <= b + 1
    <3>1. at \in Nat  BY <1>2
    <3> QED  BY <2>2, <3>1
  <2>4. /\ SubSeq(json, a, b) \in Seq(S) /\ Len(SubSeq(json, a, b)) = b - a + 1
        /\ \A i \in 1..b - a + 1 : SubSeq(json, a, b)[i] = json[a + i - 1]
    BY <2>1, <2>3, SubParts
  <2>5. PICK s \in Seq(S) : s = ExtractJsonField(json, key) /\ s = SubSeq(json, a, b)
    BY <1>2, <1>4, <2>3, <2>4
  <2>6. ASSUME s # <<>>
        PROVE  s[1] # SPACE
    <3>1. Len(s) # 0  BY <2>6
    <3>2. 1 \in 1..b - a + 1 /\ a # n + 1  BY <2>3, <2>4, <2>5, <3>1
    <3>3. s[1] = json[a + 1 - 1] /\ a + 1 - 1 = a  BY <2>4, <2>5, <3>2
    <3> QED  BY <2>2, <2>3, <3>2, <3>3
  <2> QED  BY <2>5, <2>6
<1> QED  BY <1>3, <1>4

\* What is posted has none of the bytes below the blank in it.
LEMMA StringifyType ==
    ASSUME NEW v \in [Key -> Seq(Plain) \cup {NoKey}]
    PROVE  Stringify(v) \in Seq(Shown)
<1>1. /\ {QUOTE, COLON, COMMA, OPEN, CLOSE} \subseteq Shown /\ Plain \subseteq Shown
  BY DEF Shown, Plain, QUOTE, COLON, COMMA, OPEN, CLOSE
<1>2. /\ <<QUOTE>> \in Seq(Shown) /\ <<COLON>> \in Seq(Shown) /\ <<COMMA>> \in Seq(Shown)
      /\ <<OPEN>> \in Seq(Shown) /\ <<CLOSE>> \in Seq(Shown) /\ <<>> \in Seq(Shown)
  BY <1>1
<1>3. \A s \in Seq(Shown), t \in Seq(Shown) : s \o t \in Seq(Shown)  OBVIOUS
<1>4. \A s \in Seq(Shown) : Quoted(s) \in Seq(Shown)  BY <1>2, <1>3 DEF Quoted
<1>5. ASSUME NEW i \in 1..4
      PROVE  Member(v, i) \in Seq(Shown)
  <2>1. Keys[i] \in Key /\ KeyByte[Keys[i]] \in Shown  BY DEF Keys, Key, KeyByte, Shown
  <2>2. <<KeyByte[Keys[i]]>> \in Seq(Shown)  BY <2>1
  <2>3. PICK b \in Seq(Shown) : b = Quoted(<<KeyByte[Keys[i]]>>)  BY <1>4, <2>2
  <2>4. Comma(v, i) \in Seq(Shown)  BY <1>2, Zenon DEF Comma
  <2>5. CASE v[Keys[i]] = NoKey  BY <1>2, <2>5, Zenon DEF Member
  <2>6. CASE v[Keys[i]] # NoKey
    <3>1. v[Keys[i]] \in Seq(Plain)  BY <2>1, <2>6
    <3>2. v[Keys[i]] \in Seq(Shown)  BY <1>1, <3>1, SeqWithin
    <3>3. PICK w \in Seq(Shown) : w = Quoted(v[Keys[i]])  BY <1>4, <3>2
    <3>4. Member(v, i) = b \o <<COLON>> \o w \o Comma(v, i)  BY <2>3, <2>6, <3>3, Zenon DEF Member
    <3> QED  BY <1>2, <1>3, <2>4, <3>4
  <2> QED  BY <2>5, <2>6
<1>6. /\ Member(v, 1) \in Seq(Shown) /\ Member(v, 2) \in Seq(Shown)
      /\ Member(v, 3) \in Seq(Shown) /\ Member(v, 4) \in Seq(Shown)
  BY <1>5
<1> QED  BY <1>2, <1>3, <1>6 DEF Stringify

-----------------------------------------------------------------------------
(***************************************************************************)
(* The fields of orders and reports, one by one.                           *)
(***************************************************************************)
\* No tag stands in a short text, or in one without '='.
LEMMA NoTagIn ==
    /\ \A a : \A t : ~ HasTag(<<a>>, t)
    /\ \A a, b : \A t : ~ HasTag(<<a, b>>, t)
    /\ \A t : ~ HasTag(<<>>, t)
    /\ \A t : ~ HasTag(Id, t)
<1>1. \A a : 1..Len(<<a>>) - 2 = {}  OBVIOUS
<1>2. \A a, b : 1..Len(<<a, b>>) - 2 = {}  OBVIOUS
<1>3. 1..Len(<<>>) - 2 = {}  OBVIOUS
<1>4. ASSUME NEW t, NEW i \in 1..Len(Id) - 2
      PROVE  ~ TagAt(Id, i, t)
  <2>1. PICK n \in Nat : n = Len(Id)  BY IdIs
  <2>2. i + 2 \in 1..Len(Id)  BY <1>4, <2>1
  <2>3. Id[i + 2] # EQ  BY <2>2, IdIs
  <2> QED  BY <2>3 DEF TagAt
<1> QED  BY <1>1, <1>2, <1>3, <1>4 DEF HasTag

\* What the fields of an order and of a report have in them.
LEMMA OrderParts ==
    ASSUME NEW f, NEW v, IsOrder(f, v)
    PROVE  /\ f[1].tag = 35 /\ f[2].tag = 11 /\ f[3].tag = 21 /\ f[4].tag = 55
           /\ f[5].tag = 54 /\ f[6].tag = 38 /\ f[7].tag = 40 /\ f[8].tag = 44
           /\ f[1].value = <<68>> /\ f[2].value = Id /\ f[3].value = <<49>>
           /\ f[4].value = v["symbol"] /\ f[5].value = v["side"] /\ f[6].value = v["qty"]
           /\ f[7].value = <<50>> /\ f[8].value = v["price"]
BY DEF IsOrder, Field

\* The tags and the values of a report.
LEMMA ReportParts ==
    ASSUME NEW f, NEW id, NEW v, IsReport(f, id, v)
    PROVE  /\ f[1].tag = 35 /\ f[2].tag = 11 /\ f[3].tag = 37 /\ f[4].tag = 17
           /\ f[5].tag = 150 /\ f[6].tag = 39 /\ f[7].tag = 55 /\ f[8].tag = 54
           /\ f[9].tag = 38 /\ f[10].tag = 44
           /\ f[1].value = <<56>> /\ f[2].value = id /\ f[3].value = <<79, 49>>
           /\ f[4].value = <<69, 49>> /\ f[5].value = <<50>> /\ f[6].value = <<50>>
           /\ f[7].value = v["symbol"] /\ f[8].value = v["side"] /\ f[9].value = v["qty"]
           /\ f[10].value = v["price"]
BY DEF IsReport, Field

\* The tag stands in the value of one of the first keys.
InFirst(v, k, t) == \E j \in 1..k : HasTag(v[Keys[j]], t)

\* The same, spelled out.
LEMMA InFirstIs ==
    ASSUME NEW v, NEW t
    PROVE  /\ InFirst(v, 0, t) <=> FALSE
           /\ InFirst(v, 1, t) <=> HasTag(v["symbol"], t)
           /\ InFirst(v, 2, t) <=> HasTag(v["symbol"], t) \/ HasTag(v["side"], t)
           /\ InFirst(v, 3, t) <=> HasTag(v["symbol"], t) \/ HasTag(v["side"], t) \/ HasTag(v["qty"], t)
           /\ InFirst(v, 4, t) <=> \/ HasTag(v["symbol"], t) \/ HasTag(v["side"], t)
                                   \/ HasTag(v["qty"], t) \/ HasTag(v["price"], t)
<1>1. Keys[1] = "symbol" /\ Keys[2] = "side" /\ Keys[3] = "qty" /\ Keys[4] = "price"  BY DEF Keys
<1> QED  BY <1>1 DEF InFirst

\* Where a tag stands in front of the h-th field of an order.
LEMMA InsideOrder ==
    ASSUME NEW f, NEW v, IsOrder(f, v), NEW t
    PROVE  /\ ~ InsideEarlier(f, 0, t) /\ ~ InsideEarlier(f, 1, t)
           /\ InsideEarlier(f, 3, t) <=> InFirst(v, 0, t)
           /\ InsideEarlier(f, 4, t) <=> InFirst(v, 1, t)
           /\ InsideEarlier(f, 5, t) <=> InFirst(v, 2, t)
           /\ InsideEarlier(f, 7, t) <=> InFirst(v, 3, t)
           /\ InsideEarlier(f, 8, t) <=> InFirst(v, 4, t)
<1>1. /\ ~ HasTag(f[1].value, t) /\ ~ HasTag(f[2].value, t) /\ ~ HasTag(f[3].value, t)
      /\ ~ HasTag(f[7].value, t)
  <2>1. f[1].value = <<68>> /\ f[2].value = Id /\ f[3].value = <<49>> /\ f[7].value = <<50>>
    BY OrderParts
  <2> QED  BY <2>1, NoTagIn, ZenonT(40)
<1>2. /\ HasTag(f[4].value, t) <=> HasTag(v["symbol"], t)
      /\ HasTag(f[5].value, t) <=> HasTag(v["side"], t)
      /\ HasTag(f[6].value, t) <=> HasTag(v["qty"], t)
      /\ HasTag(f[8].value, t) <=> HasTag(v["price"], t)
  BY OrderParts
<1> DEFINE H(i) == HasTag(f[i].value, t)
<1>3. /\ ~ H(1) /\ ~ H(2) /\ ~ H(3) /\ ~ H(7)
      /\ H(4) <=> HasTag(v["symbol"], t)
      /\ H(5) <=> HasTag(v["side"], t)
      /\ H(6) <=> HasTag(v["qty"], t)
      /\ H(8) <=> HasTag(v["price"], t)
  BY <1>1, <1>2
<1>4. \A k : InsideEarlier(f, k, t) <=> \E i \in 1..k : H(i)  BY DEF InsideEarlier
<1> HIDE DEF H
<1>5. ~ InsideEarlier(f, 0, t) /\ ~ InsideEarlier(f, 1, t) /\ ~ InsideEarlier(f, 3, t)
  BY <1>3, <1>4
<1>6. InsideEarlier(f, 4, t) <=> H(4)  BY <1>3, <1>4
<1>7. InsideEarlier(f, 5, t) <=> H(4) \/ H(5)  BY <1>3, <1>4
<1>8. InsideEarlier(f, 7, t) <=> H(4) \/ H(5) \/ H(6)  BY <1>3, <1>4
<1>9. InsideEarlier(f, 8, t) <=> H(4) \/ H(5) \/ H(6) \/ H(8)  BY <1>3, <1>4
<1> QED  BY <1>3, <1>5, <1>6, <1>7, <1>8, <1>9, InFirstIs

\* The values in front of a field of a report are those of the first keys.
LEMMA InsideReport ==
    ASSUME NEW f, NEW v, IsReport(f, Id, v), NEW t
    PROVE  /\ ~ InsideEarlier(f, 1, t)
           /\ InsideEarlier(f, 6, t) <=> InFirst(v, 0, t)
           /\ InsideEarlier(f, 7, t) <=> InFirst(v, 1, t)
           /\ InsideEarlier(f, 8, t) <=> InFirst(v, 2, t)
           /\ InsideEarlier(f, 9, t) <=> InFirst(v, 3, t)
<1>1. /\ ~ HasTag(f[1].value, t) /\ ~ HasTag(f[2].value, t) /\ ~ HasTag(f[3].value, t)
      /\ ~ HasTag(f[4].value, t) /\ ~ HasTag(f[5].value, t) /\ ~ HasTag(f[6].value, t)
  <2>1. /\ f[1].value = <<56>> /\ f[2].value = Id /\ f[3].value = <<79, 49>>
        /\ f[4].value = <<69, 49>> /\ f[5].value = <<50>> /\ f[6].value = <<50>>
    BY ReportParts
  <2>2. /\ ~ HasTag(<<56>>, t) /\ ~ HasTag(Id, t) /\ ~ HasTag(<<50>>, t)
        /\ ~ HasTag(<<79, 49>>, t) /\ ~ HasTag(<<69, 49>>, t)
    BY NoTagIn
  <2> QED  BY <2>1, <2>2
<1>2. /\ HasTag(f[7].value, t) <=> HasTag(v["symbol"], t)
      /\ HasTag(f[8].value, t) <=> HasTag(v["side"], t)
      /\ HasTag(f[9].value, t) <=> HasTag(v["qty"], t)
  BY ReportParts
<1> DEFINE H(i) == HasTag(f[i].value, t)
<1>3. /\ ~ H(1) /\ ~ H(2) /\ ~ H(3) /\ ~ H(4) /\ ~ H(5) /\ ~ H(6)
      /\ H(7) <=> HasTag(v["symbol"], t)
      /\ H(8) <=> HasTag(v["side"], t)
      /\ H(9) <=> HasTag(v["qty"], t)
  BY <1>1, <1>2
<1>4. \A k : InsideEarlier(f, k, t) <=> \E i \in 1..k : H(i)  BY DEF InsideEarlier
<1> HIDE DEF H
<1>5. ~ InsideEarlier(f, 1, t) /\ ~ InsideEarlier(f, 6, t)
  BY <1>3, <1>4
<1>6. InsideEarlier(f, 7, t) <=> H(7)  BY <1>3, <1>4
<1>7. InsideEarlier(f, 8, t) <=> H(7) \/ H(8)  BY <1>3, <1>4
<1>8. InsideEarlier(f, 9, t) <=> H(7) \/ H(8) \/ H(9)  BY <1>3, <1>4
<1> QED  BY <1>3, <1>5, <1>6, <1>7, <1>8, InFirstIs

-----------------------------------------------------------------------------
(***************************************************************************)
(* What is read of an order and of a report.                               *)
(***************************************************************************)
\* No separator in the values of an order, in the first two or in all of them.
NoSeparators(v) == \A k \in Key : NoSeparator(v[k])

\* The values that are the same in each message.
LEMMA FixedHaveNone ==
    /\ NoSeparator(Id)
    /\ \A a \in {68, 49, 50, 56} : NoSeparator(<<a>>)
    /\ NoSeparator(<<79, 49>>) /\ NoSeparator(<<69, 49>>)
<1>1. NoSeparator(Id)  BY IdIs DEF NoSeparator
<1>2. \A a \in {68, 49, 50, 56, 79, 69} : a # SOH /\ a # BAR  BY DEF SOH, BAR
<1>3. \A a \in {68, 49, 50, 56} : NoSeparator(<<a>>)
  BY <1>2 DEF NoSeparator
<1>4. NoSeparator(<<79, 49>>) /\ NoSeparator(<<69, 49>>)
  BY <1>2 DEF NoSeparator
<1> QED  BY <1>1, <1>3, <1>4

\* The values of an order up to a field, without separators.
LEMMA OrderPlain ==
    ASSUME NEW f, NEW v, IsOrder(f, v)
    PROVE  /\ AllPlain(f, 1) /\ AllPlain(f, 2)
           /\ NoSeparators(v) => AllPlain(f, 4) /\ AllPlain(f, 5) /\ AllPlain(f, 6) /\ AllPlain(f, 8)
<1> DEFINE P(i) == NoSeparator(f[i].value)
<1>1. f[1].value = <<68>> /\ f[2].value = Id /\ f[3].value = <<49>> /\ f[7].value = <<50>>
  BY OrderParts
<1>2. P(1) /\ P(2) /\ P(3) /\ P(7)
  <2>1. NoSeparator(<<68>>) /\ NoSeparator(Id) /\ NoSeparator(<<49>>) /\ NoSeparator(<<50>>)
    BY FixedHaveNone
  <2> QED  BY <1>1, <2>1
<1>3. NoSeparators(v) => P(4) /\ P(5) /\ P(6) /\ P(8)
  <2>1. /\ f[4].value = v["symbol"] /\ f[5].value = v["side"] /\ f[6].value = v["qty"]
        /\ f[8].value = v["price"]
    BY OrderParts
  <2> QED  BY <2>1 DEF NoSeparators, Key
<1>4. \A k : AllPlain(f, k) <=> \A i \in 1..k : P(i)  BY DEF AllPlain
<1> HIDE DEF P
<1>5. AllPlain(f, 1) /\ AllPlain(f, 2)  BY <1>2, <1>4
<1>6. NoSeparators(v) => AllPlain(f, 4) /\ AllPlain(f, 5) /\ AllPlain(f, 6) /\ AllPlain(f, 8)
  BY <1>2, <1>3, <1>4
<1> QED  BY <1>5, <1>6

\* The same of a report.
LEMMA ReportPlain ==
    ASSUME NEW f, NEW v, IsReport(f, Id, v)
    PROVE  /\ AllPlain(f, 2)
           /\ NoSeparators(v) => AllPlain(f, 7) /\ AllPlain(f, 8) /\ AllPlain(f, 9) /\ AllPlain(f, 10)
<1> DEFINE P(i) == NoSeparator(f[i].value)
<1>1. /\ f[1].value = <<56>> /\ f[2].value = Id /\ f[3].value = <<79, 49>>
      /\ f[4].value = <<69, 49>> /\ f[5].value = <<50>> /\ f[6].value = <<50>>
  BY ReportParts
<1>2. P(1) /\ P(2) /\ P(3) /\ P(4) /\ P(5) /\ P(6)
  <2>1. /\ NoSeparator(<<56>>) /\ NoSeparator(Id) /\ NoSeparator(<<79, 49>>)
        /\ NoSeparator(<<69, 49>>) /\ NoSeparator(<<50>>)
    BY FixedHaveNone
  <2> QED  BY <1>1, <2>1
<1>3. NoSeparators(v) => P(7) /\ P(8) /\ P(9) /\ P(10)
  <2>1. /\ f[7].value = v["symbol"] /\ f[8].value = v["side"] /\ f[9].value = v["qty"]
        /\ f[10].value = v["price"]
    BY ReportParts
  <2> QED  BY <2>1 DEF NoSeparators, Key
<1>4. \A k : AllPlain(f, k) <=> \A i \in 1..k : P(i)  BY DEF AllPlain
<1> HIDE DEF P
<1>5. AllPlain(f, 2)  BY <1>2, <1>4
<1>6. ASSUME NoSeparators(v)
      PROVE  AllPlain(f, 7) /\ AllPlain(f, 8) /\ AllPlain(f, 9) /\ AllPlain(f, 10)
  <2>1. \A i \in 1..10 : P(i)  BY <1>2, <1>3, <1>6
  <2>2. 1..7 \subseteq 1..10 /\ 1..8 \subseteq 1..10 /\ 1..9 \subseteq 1..10  OBVIOUS
  <2> QED  BY <1>4, <2>1, <2>2
<1> QED  BY <1>5, <1>6

\* No tag in front of a field ends like its own.
LEMMA OrderTags ==
    ASSUME NEW f, NEW v, IsOrder(f, v)
    PROVE  /\ AllOther(f, 0, 35) /\ AllOther(f, 1, 11) /\ AllOther(f, 3, 55) /\ AllOther(f, 4, 54)
           /\ AllOther(f, 5, 38) /\ AllOther(f, 7, 44) /\ AllOther(f, 8, 10)
<1> DEFINE T(i) == f[i].tag
<1>1. T(1) = 35 /\ T(2) = 11 /\ T(3) = 21 /\ T(4) = 55 /\ T(5) = 54 /\ T(6) = 38 /\ T(7) = 40 /\ T(8) = 44
  BY OrderParts
<1>2. \A k, t : AllOther(f, k, t) <=> \A i \in 1..k : T(i) % 100 # t  BY DEF AllOther, OtherTag
<1> HIDE DEF T
<1>3. AllOther(f, 0, 35) /\ AllOther(f, 1, 11) /\ AllOther(f, 3, 55)  BY <1>1, <1>2
<1>4. AllOther(f, 4, 54) /\ AllOther(f, 5, 38)  BY <1>1, <1>2
<1>5. AllOther(f, 7, 44) /\ AllOther(f, 8, 10)  BY <1>1, <1>2
<1> QED  BY <1>3, <1>4, <1>5

\* The same of a report.
LEMMA ReportTags ==
    ASSUME NEW f, NEW v, IsReport(f, Id, v)
    PROVE  /\ AllOther(f, 1, 11) /\ AllOther(f, 6, 55) /\ AllOther(f, 7, 54)
           /\ AllOther(f, 8, 38) /\ AllOther(f, 9, 44)
<1> DEFINE T(i) == f[i].tag
<1>1. /\ T(1) = 35 /\ T(2) = 11 /\ T(3) = 37 /\ T(4) = 17 /\ T(5) = 150 /\ T(6) = 39
      /\ T(7) = 55 /\ T(8) = 54 /\ T(9) = 38
  BY ReportParts
<1>2. \A k, t : AllOther(f, k, t) <=> \A i \in 1..k : T(i) % 100 # t  BY DEF AllOther, OtherTag
<1> HIDE DEF T
<1>3. AllOther(f, 1, 11) /\ AllOther(f, 6, 55)  BY <1>1, <1>2
<1>4. AllOther(f, 7, 54) /\ AllOther(f, 8, 38)  BY <1>1, <1>2
<1>5. AllOther(f, 9, 44)  BY <1>1, <1>2
<1> QED  BY <1>3, <1>4, <1>5

\* What the exchange reads of an order that arrives whole.
LEMMA OrderReads ==
    ASSUME NEW v \in [Key -> Seq(Byte)], NEW u \in Seq(Byte), Carries(u, BuildMessage(OrderFields(v)))
    PROVE  /\ GetField(u, 35) = <<68>> /\ GetField(u, 11) = Id
           /\ NoSeparators(v) => \A i \in 1..4 :
                GetField(u, Tag[Keys[i]]) = IF InFirst(v, i - 1, Tag[Keys[i]]) THEN <<>> ELSE v[Keys[i]]
<1>1. PICK f : f = OrderFields(v) /\ IsOrder(f, v) /\ AllGood(f, 8)  BY FieldsAre, OrderFieldsGood
<1>2. DOMAIN f = 1..8  BY <1>1 DEF IsOrder
<1>3. ASSUME NEW k \in Nat, NEW h \in 1..8, h = k + 1, NEW t \in 11..99, f[h].tag = t,
             AllPlain(f, h), AllOther(f, k, t)
      PROVE  CanRead(u, f, 8, k, h, t)
  <2>1. 8 \in Nat \ {0}  OBVIOUS
  <2> QED  BY <1>1, <1>2, <1>3, <2>1 DEF CanRead
<1>4. Reads(u, f, 0, 1, 35) /\ Reads(u, f, 1, 2, 11)
  <2>1. f[1].tag = 35 /\ f[2].tag = 11  BY <1>1, OrderParts
  <2>2. AllPlain(f, 1) /\ AllPlain(f, 2)  BY <1>1, OrderPlain
  <2>3. AllOther(f, 0, 35) /\ AllOther(f, 1, 11)  BY <1>1, OrderTags
  <2>4. CanRead(u, f, 8, 0, 1, 35) /\ CanRead(u, f, 8, 1, 2, 11)  BY <1>3, <2>1, <2>2, <2>3
  <2> QED  BY <2>4, BuiltIsRead
<1>5. GetField(u, 35) = <<68>> /\ GetField(u, 11) = Id
  <2>1. f[1].value = <<68>> /\ f[2].value = Id  BY <1>1, OrderParts
  <2>2. ~ InsideEarlier(f, 0, 35) /\ ~ InsideEarlier(f, 1, 11)  BY <1>1, InsideOrder
  <2> QED  BY <1>4, <2>1, <2>2 DEF Reads
<1>6. ASSUME NoSeparators(v)
      PROVE  /\ Reads(u, f, 3, 4, 55) /\ Reads(u, f, 4, 5, 54)
             /\ Reads(u, f, 5, 6, 38) /\ Reads(u, f, 7, 8, 44)
  <2>1. f[4].tag = 55 /\ f[5].tag = 54 /\ f[6].tag = 38 /\ f[8].tag = 44  BY <1>1, OrderParts
  <2>2. AllPlain(f, 4) /\ AllPlain(f, 5) /\ AllPlain(f, 6) /\ AllPlain(f, 8)
    BY <1>1, <1>6, OrderPlain
  <2>3. AllOther(f, 3, 55) /\ AllOther(f, 4, 54) /\ AllOther(f, 5, 38) /\ AllOther(f, 7, 44)
    BY <1>1, OrderTags
  <2>4. CanRead(u, f, 8, 3, 4, 55) /\ CanRead(u, f, 8, 4, 5, 54)  BY <1>3, <2>1, <2>2, <2>3
  <2>5. CanRead(u, f, 8, 5, 6, 38) /\ CanRead(u, f, 8, 7, 8, 44)  BY <1>3, <2>1, <2>2, <2>3
  <2> QED  BY <2>4, <2>5, BuiltIsRead
<1>7. ASSUME NoSeparators(v), NEW i \in 1..4
      PROVE  GetField(u, Tag[Keys[i]]) = IF InFirst(v, i - 1, Tag[Keys[i]]) THEN <<>> ELSE v[Keys[i]]
  <2>1. /\ InsideEarlier(f, 3, 55) <=> InFirst(v, 0, 55)
        /\ InsideEarlier(f, 4, 54) <=> InFirst(v, 1, 54)
        /\ InsideEarlier(f, 5, 38) <=> InFirst(v, 2, 38)
        /\ InsideEarlier(f, 7, 44) <=> InFirst(v, 3, 44)
    BY <1>1, InsideOrder
  <2>2. /\ Keys[1] = "symbol" /\ Keys[2] = "side" /\ Keys[3] = "qty" /\ Keys[4] = "price"
        /\ Tag["symbol"] = 55 /\ Tag["side"] = 54 /\ Tag["qty"] = 38 /\ Tag["price"] = 44
    BY DEF Keys, Tag
  <2>3. CASE i = 1  BY <1>1, <1>6, <1>7, <2>1, <2>2, <2>3, OrderParts DEF Reads
  <2>4. CASE i = 2  BY <1>1, <1>6, <1>7, <2>1, <2>2, <2>4, OrderParts DEF Reads
  <2>5. CASE i = 3  BY <1>1, <1>6, <1>7, <2>1, <2>2, <2>5, OrderParts DEF Reads
  <2>6. CASE i = 4  BY <1>1, <1>6, <1>7, <2>1, <2>2, <2>6, OrderParts DEF Reads
  <2> QED  BY <2>3, <2>4, <2>5, <2>6
<1> QED  BY <1>5, <1>7

\* What is read of a report.
LEMMA ReportReads ==
    ASSUME NEW v \in [Key -> Seq(Byte)], NEW u \in Seq(Byte), u = BuildMessage(ReportFields(Id, v))
    PROVE  /\ GetField(u, 11) = Id
           /\ NoSeparators(v) => \A i \in 1..4 :
                GetField(u, Tag[Keys[i]]) = IF InFirst(v, i - 1, Tag[Keys[i]]) THEN <<>> ELSE v[Keys[i]]
<1>1. PICK f : f = ReportFields(Id, v) /\ IsReport(f, Id, v) /\ AllGood(f, 12)
  BY IdIs, FieldsAre, ReportFieldsGood
<1>2. DOMAIN f = 1..12  BY <1>1 DEF IsReport
<1>3. ASSUME NEW k \in Nat, NEW h \in 1..12, h = k + 1, NEW t \in 11..99, f[h].tag = t,
             AllPlain(f, h), AllOther(f, k, t)
      PROVE  CanRead(u, f, 12, k, h, t)
  <2>1. 12 \in Nat \ {0}  OBVIOUS
  <2>2. Len(u) \in Nat  OBVIOUS
  <2>3. Carries(u, BuildMessage(f))  BY <1>1, <2>2 DEF Carries
  <2> QED  BY <1>1, <1>2, <1>3, <2>1, <2>3 DEF CanRead
<1>4. Reads(u, f, 1, 2, 11)
  <2>1. f[2].tag = 11  BY <1>1, ReportParts
  <2>2. AllPlain(f, 2) /\ AllOther(f, 1, 11)  BY <1>1, ReportPlain, ReportTags
  <2>3. CanRead(u, f, 12, 1, 2, 11)  BY <1>3, <2>1, <2>2, SMTT(40)
  <2> QED  BY <2>3, BuiltIsRead
<1>5. GetField(u, 11) = Id
  <2>1. f[2].value = Id /\ ~ InsideEarlier(f, 1, 11)  BY <1>1, ReportParts, InsideReport
  <2> QED  BY <1>4, <2>1 DEF Reads
<1>6. ASSUME NoSeparators(v)
      PROVE  /\ Reads(u, f, 6, 7, 55) /\ Reads(u, f, 7, 8, 54)
             /\ Reads(u, f, 8, 9, 38) /\ Reads(u, f, 9, 10, 44)
  <2>1. f[7].tag = 55 /\ f[8].tag = 54 /\ f[9].tag = 38 /\ f[10].tag = 44  BY <1>1, ReportParts
  <2>2. AllPlain(f, 7) /\ AllPlain(f, 8) /\ AllPlain(f, 9) /\ AllPlain(f, 10)
    BY <1>1, <1>6, ReportPlain
  <2>3. AllOther(f, 6, 55) /\ AllOther(f, 7, 54) /\ AllOther(f, 8, 38) /\ AllOther(f, 9, 44)
    BY <1>1, ReportTags
  <2>4. CanRead(u, f, 12, 6, 7, 55)
    <3>1. 6 \in Nat /\ 7 \in 1..12 /\ 7 = 6 + 1 /\ 55 \in 11..99  OBVIOUS
    <3> QED  BY ONLY <1>3, <2>1, <2>2, <2>3, <3>1, ZenonT(40)
  <2>5. CanRead(u, f, 12, 7, 8, 54)
    <3>1. 7 \in Nat /\ 8 \in 1..12 /\ 8 = 7 + 1 /\ 54 \in 11..99  OBVIOUS
    <3> QED  BY ONLY <1>3, <2>1, <2>2, <2>3, <3>1, ZenonT(40)
  <2>6. CanRead(u, f, 12, 8, 9, 38)
    <3>1. 8 \in Nat /\ 9 \in 1..12 /\ 9 = 8 + 1 /\ 38 \in 11..99  OBVIOUS
    <3> QED  BY ONLY <1>3, <2>1, <2>2, <2>3, <3>1, ZenonT(40)
  <2>7. CanRead(u, f, 12, 9, 10, 44)
    <3>1. 9 \in Nat /\ 10 \in 1..12 /\ 10 = 9 + 1 /\ 44 \in 11..99  OBVIOUS
    <3> QED  BY ONLY <1>3, <2>1, <2>2, <2>3, <3>1, ZenonT(40)
  <2> QED  BY <2>4, <2>5, <2>6, <2>7, BuiltIsRead
<1>7. ASSUME NoSeparators(v), NEW i \in 1..4
      PROVE  GetField(u, Tag[Keys[i]]) = IF InFirst(v, i - 1, Tag[Keys[i]]) THEN <<>> ELSE v[Keys[i]]
  <2>1. /\ InsideEarlier(f, 6, 55) <=> InFirst(v, 0, 55)
        /\ InsideEarlier(f, 7, 54) <=> InFirst(v, 1, 54)
        /\ InsideEarlier(f, 8, 38) <=> InFirst(v, 2, 38)
        /\ InsideEarlier(f, 9, 44) <=> InFirst(v, 3, 44)
    BY <1>1, InsideReport
  <2>2. /\ Keys[1] = "symbol" /\ Keys[2] = "side" /\ Keys[3] = "qty" /\ Keys[4] = "price"
        /\ Tag["symbol"] = 55 /\ Tag["side"] = 54 /\ Tag["qty"] = 38 /\ Tag["price"] = 44
    BY DEF Keys, Tag
  <2>3. CASE i = 1  BY <1>1, <1>6, <1>7, <2>1, <2>2, <2>3, ReportParts, SMTT(40) DEF Reads
  <2>4. CASE i = 2  BY <1>1, <1>6, <1>7, <2>1, <2>2, <2>4, ReportParts, SMTT(40) DEF Reads
  <2>5. CASE i = 3  BY <1>1, <1>6, <1>7, <2>1, <2>2, <2>5, ReportParts, SMTT(40) DEF Reads
  <2>6. CASE i = 4  BY <1>1, <1>6, <1>7, <2>1, <2>2, <2>6, ReportParts, SMTT(40) DEF Reads
  <2> QED  BY <2>3, <2>4, <2>5, <2>6
<1> QED  BY <1>5, <1>7

-----------------------------------------------------------------------------
(***************************************************************************)
(* When an order that arrives as it was sent is accepted.                  *)
(***************************************************************************)
\* Found in a text is the same as standing in it.
LEMMA HoldsIs ==
    ASSUME NEW text \in Seq(Byte), NEW t \in 10..99
    PROVE  Holds(text, t) <=> HasTag(text, t)
<1>1. Len(text) \in Nat  OBVIOUS
<1>2. \A i : i \in Found(Prefix(t), text, 1) <=> i \in 1..Len(text) - 2 /\ TagAt(text, i, t)
  BY <1>1, FoundTag
<1>3. Found(Prefix(t), text, 1) # {} <=> \E i : i \in Found(Prefix(t), text, 1)  OBVIOUS
<1> QED  BY <1>2, <1>3, Zenon DEF Holds, HasTag

\* The '|' of the body are those of the four values.
LEMMA BarsOfOrder ==
    ASSUME NEW v \in [Key -> Seq(Byte)]
    PROVE  LET body == Body(OrderFields(v)) IN
             AllBars(v) \in Nat /\ BarsUpTo(body, Len(body)) = AllBars(v)
<1>1. PICK f : f = OrderFields(v) /\ IsOrder(f, v) /\ AllGood(f, 8)  BY FieldsAre, OrderFieldsGood
<1>2. DOMAIN f = 1..8 /\ 8 \in Nat \ {0}  BY <1>1 DEF IsOrder
<1>3. PICK off : Laid(Body(f), 0, f, off, 8) /\ off[8] = Len(Body(f))
  BY <1>1, <1>2, BodyIs
<1> DEFINE S(i) == BarsUpTo(Body(f), off[i])
           P(i) == BarsUpTo(f[i].value, Len(f[i].value))
<1>4. \A i \in 1..8 : S(0) = 0 /\ S(i) = S(i - 1) + P(i)
  BY <1>1, <1>2, <1>3, BarsOfPiece
<1>5. \A text \in Seq(Byte) : Bars(text) = BarsUpTo(text, Len(text)) /\ Bars(text) \in Nat
  <2> TAKE text \in Seq(Byte)
  <2>1. DOMAIN text = 1..Len(text) /\ Len(text) \in Nat  OBVIOUS
  <2>2. Bars(text) = BarsUpTo(text, Len(text))  BY <2>1, Zenon DEF Bars, BarsUpTo
  <2>3. BarsUpTo(text, Len(text)) \in Nat  BY <2>1, BarsStep
  <2> QED  BY <2>2, <2>3
<1>6. PICK a \in Nat, b \in Nat, c \in Nat, d \in Nat :
        /\ a = Bars(v["symbol"]) /\ b = Bars(v["side"]) /\ c = Bars(v["qty"]) /\ d = Bars(v["price"])
  <2>1. /\ v["symbol"] \in Seq(Byte) /\ v["side"] \in Seq(Byte) /\ v["qty"] \in Seq(Byte)
        /\ v["price"] \in Seq(Byte)
    BY DEF Key
  <2> QED  BY <1>5, <2>1
<1>7. P(4) = a /\ P(5) = b /\ P(6) = c /\ P(8) = d
  <2>1. /\ f[4].value = v["symbol"] /\ f[5].value = v["side"] /\ f[6].value = v["qty"]
        /\ f[8].value = v["price"]
    BY <1>1, OrderParts
  <2>2. /\ v["symbol"] \in Seq(Byte) /\ v["side"] \in Seq(Byte) /\ v["qty"] \in Seq(Byte)
        /\ v["price"] \in Seq(Byte)
    BY DEF Key
  <2> QED  BY <1>5, <1>6, <2>1, <2>2
<1>8. P(1) = 0 /\ P(2) = 0 /\ P(3) = 0 /\ P(7) = 0
  <2>1. f[1].value = <<68>> /\ f[2].value = Id /\ f[3].value = <<49>> /\ f[7].value = <<50>>
    BY <1>1, OrderParts
  <2>2. NoSeparator(<<68>>) /\ NoSeparator(Id) /\ NoSeparator(<<49>>) /\ NoSeparator(<<50>>)
    BY FixedHaveNone
  <2>3. Len(<<68>>) \in Nat /\ Len(Id) \in Nat /\ Len(<<49>>) \in Nat /\ Len(<<50>>) \in Nat  BY IdIs
  <2>4. ASSUME NEW text, NoSeparator(text), Len(text) \in Nat
        PROVE  BarsUpTo(text, Len(text)) = 0
    BY <2>4, NoBars DEF NoSeparator
  <2>5. /\ BarsUpTo(<<68>>, Len(<<68>>)) = 0 /\ BarsUpTo(Id, Len(Id)) = 0
        /\ BarsUpTo(<<49>>, Len(<<49>>)) = 0 /\ BarsUpTo(<<50>>, Len(<<50>>)) = 0
    BY <2>2, <2>3, <2>4
  <2> QED  BY <2>1, <2>5
<1> HIDE DEF S, P
<1>9. S(8) = a + b + c + d
  <2>1. S(0) = 0 /\ S(1) = S(0) + P(1) /\ S(2) = S(1) + P(2) /\ S(3) = S(2) + P(3)
    BY <1>4
  <2>2. S(4) = S(3) + P(4) /\ S(5) = S(4) + P(5) /\ S(6) = S(5) + P(6)
    BY <1>4
  <2>3. S(7) = S(6) + P(7) /\ S(8) = S(7) + P(8)
    BY <1>4
  <2>4. S(3) = 0  BY <1>8, <2>1
  <2>5. S(6) = a + b + c  BY <1>7, <2>2, <2>4
  <2> QED  BY <1>7, <1>8, <2>3, <2>5
<1>10. AllBars(v) = a + b + c + d  BY <1>6 DEF AllBars
<1> QED  BY <1>1, <1>3, <1>9, <1>10 DEF S

\* Which orders are accepted as they were sent.
LEMMA OrderAccepted ==
    ASSUME NEW v \in [Key -> Seq(Byte)]
    PROVE  ValidateMessage(ToSoh(BuildMessage(OrderFields(v)))) <=>
             (\A k \in Key : ~Holds(v[k], 10)) /\ AllBars(v) % 256 = 0
<1>1. PICK f : f = OrderFields(v) /\ IsOrder(f, v) /\ AllGood(f, 8)  BY FieldsAre, OrderFieldsGood
<1>2. DOMAIN f = 1..8 /\ 8 \in Nat \ {0}  BY <1>1 DEF IsOrder
<1>3. PICK body : body = Body(f)  OBVIOUS
<1>4. body \in Seq(Byte) /\ Len(body) >= 4 /\ body[Len(body)] = SOH  BY <1>1, <1>2, <1>3, BodyEnds
<1>5. ValidateMessage(ToSoh(BuildMessage(f))) <=>
        ~ HasTag(body, 10) /\ BarsUpTo(body, Len(body)) % 256 = 0
  BY <1>3, <1>4, BuiltIsAccepted
<1>6. HasTag(body, 10) <=> InsideEarlier(f, 8, 10)
  <2>1. \A i \in 1..8 : OtherTag(f[i].tag, 10)  BY <1>1, OrderTags DEF AllOther
  <2>2. 10 \in 10..99  OBVIOUS
  <2> QED  BY <1>1, <1>2, <1>3, <2>1, <2>2, TagsOfBody
<1>7. InsideEarlier(f, 8, 10) <=> InFirst(v, 4, 10)  BY <1>1, InsideOrder
<1>8. InFirst(v, 4, 10) <=> \E k \in Key : HasTag(v[k], 10)  BY InFirstIs DEF Key
<1>9. \A k \in Key : Holds(v[k], 10) <=> HasTag(v[k], 10)
  <2> TAKE k \in Key
  <2>1. v[k] \in Seq(Byte) /\ 10 \in 10..99  OBVIOUS
  <2> QED  BY <2>1, HoldsIs
<1>10. BarsUpTo(body, Len(body)) = AllBars(v)  BY <1>1, <1>3, BarsOfOrder
<1> QED  BY <1>1, <1>5, <1>6, <1>7, <1>8, <1>9, <1>10

-----------------------------------------------------------------------------
(***************************************************************************)
(* The inductive invariant of OrderText.                                   *)
(***************************************************************************)
(***************************************************************************)
(* The inductive invariant of OrderText: the message is that of the order  *)
(* (with SOH or with '|'), the order is what was taken out of the request, *)
(* what arrives is the message after at most one mishap, and a report on a *)
(* message that came whole is about what was read of it.                   *)
(***************************************************************************)
SentInv ==
    Sent =>
      /\ order \in [Key -> Seq(Shown)]
      /\ message \in Seq(Byte)
      /\ ToSoh(message) = ToSoh(BuildMessage(OrderFields(order)))
      /\ typed # None => /\ typed \in [Key -> Seq(Plain) \cup {NoKey}]
                         /\ order = Taken /\ ~ Missing(order)

\* What arrives is what was sent, after at most one mishap.
WayInv ==
    /\ stage = "sent" => wire = message
    /\ stage = "altered" => \E i \in DOMAIN message, b \in Bytes : wire = [message EXCEPT ![i] = b]
    /\ stage = "cut" => \E n \in 0..Len(message) - 1 : wire = SubSeq(message, 1, n)
    /\ stage = "joined" => \E n \in DOMAIN Other : wire = message \o SubSeq(Other, 1, n)
    /\ stage = "behind" => \E n \in 2..Len(Other) : wire = SubSeq(Other, n, Len(Other)) \o message

\* A report is of what was read from the message that arrived.
ReportInv ==
    /\ ~ Sent => report = <<>>
    /\ stage = "sent" /\ report # <<>> => report = BuildMessage(ReportFields(Id, ReadOrder(Text)))
    /\ stage = "joined" /\ report # <<>> =>
         \E v \in [Key -> Seq(Byte)] : report = BuildMessage(ReportFields(Id, v))

\* All of it.
TextInv ==
    /\ stage \in {"start", "typed", "rejected", "sent", "altered", "cut", "joined", "behind"}
    /\ stage = "start" => typed = None
    /\ stage = "typed" => typed \in Entries
    /\ samples \in Seq(Latencies)
    /\ SentInv /\ WayInv /\ ReportInv
-----------------------------------------------------------------------------
\* A text that begins with the message carries what was built.
LEMMA CarriesIs ==
    ASSUME NEW m \in Seq(Byte), NEW g \in Seq(Byte), ToSoh(g) = ToSoh(m),
           NEW w \in Seq(Byte), Len(w) >= Len(g), \A i \in 1..Len(g) : w[i] = g[i]
    PROVE  Carries(ToSoh(w), m) /\ ToSoh(w) \in Seq(Byte)
<1>1. /\ ToSoh(w) \in Seq(Byte) /\ Len(ToSoh(w)) = Len(w)
      /\ \A i \in 1..Len(w) : ToSoh(w)[i] = IF w[i] = BAR THEN SOH ELSE w[i]
  BY ToSohIs
<1>2. /\ Len(ToSoh(g)) = Len(g)
      /\ \A i \in 1..Len(g) : ToSoh(g)[i] = IF g[i] = BAR THEN SOH ELSE g[i]
  BY ToSohIs
<1>3. /\ Len(ToSoh(m)) = Len(m)
      /\ \A i \in 1..Len(m) : ToSoh(m)[i] = IF m[i] = BAR THEN SOH ELSE m[i]
  BY ToSohIs
<1>4. PICK k \in Nat, l \in Nat : k = Len(g) /\ l = Len(w)  OBVIOUS
<1>5. Len(m) = k  BY <1>2, <1>3, <1>4
<1>6. ASSUME NEW i \in 1..k, m[i] # BAR
      PROVE  ToSoh(w)[i] = m[i]
  <2>1. i \in 1..l /\ w[i] = g[i]  BY <1>4, <1>6
  <2>2. ToSoh(m)[i] = m[i]  BY <1>3, <1>5, <1>6
  <2>3. ToSoh(w)[i] = ToSoh(g)[i]  BY <1>1, <1>2, <1>4, <2>1
  <2> QED  BY <2>2, <2>3
<1> QED  BY <1>1, <1>4, <1>5, <1>6 DEF Carries

\* Values are texts of bytes.
LEMMA OrderType ==
    ASSUME NEW v \in [Key -> Seq(Shown)]
    PROVE  v \in [Key -> Seq(Byte)]
<1>1. Shown \subseteq Byte  BY DEF Shown, Byte
<1>2. \A k \in Key : v[k] \in Seq(Byte)  BY <1>1, SeqWithin
<1>3. v \in [Key -> Seq(Byte)] <=> \A k \in Key : v[k] \in Seq(Byte)  OBVIOUS
<1> QED  BY <1>2, <1>3

\* What arrives is a text of bytes, and an order that came whole is in it.
LEMMA WireIs ==
    ASSUME TextInv, Sent
    PROVE  /\ order \in [Key -> Seq(Byte)] /\ wire \in Seq(Byte)
           /\ BuildMessage(OrderFields(order)) \in Seq(Byte)
           /\ stage \in {"sent", "joined"} =>
                /\ Carries(Text, BuildMessage(OrderFields(order))) /\ Text \in Seq(Byte)
<1>1. order \in [Key -> Seq(Byte)]  BY OrderType DEF TextInv, SentInv
<1>2. PICK g \in Seq(Byte) : g = message /\ ToSoh(g) = ToSoh(BuildMessage(OrderFields(order)))
  BY DEF TextInv, SentInv
<1>3. PICK m \in Seq(Byte) : m = BuildMessage(OrderFields(order))
  <2>1. PICK f : f = OrderFields(order) /\ IsOrder(f, order) /\ AllGood(f, 8)
    BY <1>1, FieldsAre, OrderFieldsGood
  <2>2. DOMAIN f = 1..8 /\ 8 \in Nat \ {0}  BY <2>1 DEF IsOrder
  <2> QED  BY <2>1, <2>2, BuiltIs
<1>4. Other \in Seq(Byte) /\ Bytes \subseteq Byte  BY TextAssumption DEF Byte
<1>5. PICK n \in Nat : n = Len(g)  OBVIOUS
<1>6. PICK l \in Nat : l = Len(Other) /\ DOMAIN Other = 1..l  BY <1>4
<1>12. Text = ToSoh(wire)  BY DEF Text
<1>7. CASE stage = "sent"
  <2>1. wire = g  BY <1>2, <1>7 DEF TextInv, WayInv
  <2>2. Carries(ToSoh(wire), m) /\ ToSoh(wire) \in Seq(Byte)
    BY <1>2, <1>3, <1>5, <2>1, CarriesIs
  <2>3. wire \in Seq(Byte)  BY <2>1
  <2> QED  BY <1>1, <1>3, <1>12, <2>2, <2>3
<1>8. CASE stage = "joined"
  <2>1. PICK k \in 1..l : wire = g \o SubSeq(Other, 1, k)
    BY <1>2, <1>4, <1>6, <1>8 DEF TextInv, WayInv
  <2>2. PICK s \in Seq(Byte) : s = SubSeq(Other, 1, k)
    <3>1. k \in Nat /\ k <= Len(Other)  BY <1>6
    <3> QED  BY <1>4, <3>1, FrontParts
  <2>3. /\ wire \in Seq(Byte) /\ Len(wire) = n + Len(s) /\ Len(s) \in Nat
        /\ \A i \in 1..n : wire[i] = g[i]
    BY <1>5, <2>1, <2>2, ConcatParts
  <2>4. Len(wire) >= Len(g) /\ \A i \in 1..Len(g) : wire[i] = g[i]  BY <1>5, <2>3
  <2>5. Carries(ToSoh(wire), m) /\ ToSoh(wire) \in Seq(Byte)
    BY <1>2, <1>3, <2>3, <2>4, CarriesIs
  <2> QED  BY <1>1, <1>3, <1>12, <2>3, <2>5
<1>9. CASE stage = "altered"
  <2>1. PICK i \in 1..n, b \in Byte : wire = [g EXCEPT ![i] = b]
    BY <1>2, <1>4, <1>5, <1>9 DEF TextInv, WayInv
  <2>2. wire \in Seq(Byte)
    <3>1. g \in [1..n -> Byte]  BY <1>5
    <3>2. wire \in [1..n -> Byte]  BY <2>1, <3>1
    <3> QED  BY <3>2
  <2> QED  BY <1>1, <1>3, <1>9, <2>2
<1>10. CASE stage = "cut"
  <2>1. PICK k \in 0..n - 1 : wire = SubSeq(g, 1, k)
    BY <1>2, <1>5, <1>10 DEF TextInv, WayInv
  <2>2. wire \in Seq(Byte)  BY <1>5, <2>1, FrontParts
  <2> QED  BY <1>1, <1>3, <1>10, <2>2
<1>11. CASE stage = "behind"
  <2>1. PICK k \in 2..l : wire = SubSeq(Other, k, l) \o g
    BY <1>2, <1>6, <1>11 DEF TextInv, WayInv
  <2>2. SubSeq(Other, k, l) \in Seq(Byte)
    BY <1>4, <1>6, SubParts
  <2>3. wire \in Seq(Byte)  BY <2>1, <2>2
  <2> QED  BY <1>1, <1>3, <1>11, <2>3
<1> QED  BY <1>7, <1>8, <1>9, <1>10, <1>11 DEF TextInv, Sent

\* What the exchange reads of it: the order under its own ClOrdID.
LEMMA WireReads ==
    ASSUME TextInv, stage \in {"sent", "joined"}
    PROVE  GetField(Text, 35) = <<68>> /\ ReadId(Text) = Id
<1>1. Sent  BY DEF Sent
<1>2. PICK u \in Seq(Byte), v \in [Key -> Seq(Byte)] :
         u = Text /\ v = order /\ Carries(u, BuildMessage(OrderFields(v)))
  BY <1>1, WireIs
<1>3. GetField(u, 35) = <<68>> /\ GetField(u, 11) = Id  BY <1>2, OrderReads
<1> QED  BY <1>2, <1>3, IdIs DEF ReadId

\* The values that are read of any text.
LEMMA ReadOrderType ==
    ASSUME NEW u \in Seq(Byte)
    PROVE  ReadOrder(u) \in [Key -> Seq(Byte)]
<1>1. \A k \in Key : Tag[k] \in 10..99
  <2>1. Tag["symbol"] = 55 /\ Tag["side"] = 54 /\ Tag["qty"] = 38 /\ Tag["price"] = 44  BY DEF Tag
  <2> TAKE k \in Key
  <2>2. k = "symbol" \/ k = "side" \/ k = "qty" \/ k = "price"  BY DEF Key
  <2>3. Tag[k] = 55 \/ Tag[k] = 54 \/ Tag[k] = 38 \/ Tag[k] = 44  BY <2>1, <2>2, Zenon
  <2> QED  BY <2>3
<1>2. \A k \in Key : GetField(u, Tag[k]) \in Seq(Byte)  BY <1>1, GetFieldType
<1> QED  BY <1>2 DEF ReadOrder

-----------------------------------------------------------------------------
(***************************************************************************)
(* Its steps keep it.                                                      *)
(***************************************************************************)
\* What is taken out of a request is made of the bytes of the request.
LEMMA TakenType ==
    ASSUME typed \in [Key -> Seq(Plain) \cup {NoKey}]
    PROVE  Taken \in [Key -> Seq(Shown)]
<1>1. PICK json \in Seq(Shown) : json = Stringify(typed)  BY StringifyType
<1>2. Shown \subseteq Byte  BY DEF Shown, Byte
<1>3. \A key : ExtractJsonField(json, key) \in Seq(Shown)  BY <1>1, <1>2, ExtractType
<1> QED  BY <1>1, <1>3 DEF Taken

\* What the generator writes.
LEMMA GeneratedType ==
    ASSUME NEW v \in Generated
    PROVE  v \in [Key -> Seq(Shown)]
<1>1. v \in Entries /\ \A k \in Key : v[k] \notin {<<>>, NoKey}  BY DEF Generated
<1>2. v \in [Key -> Seq(Plain) \cup {NoKey}]  BY <1>1, EntriesAre
<1>3. Plain \subseteq Shown  BY DEF Plain, Shown
<1>4. \A k \in Key : v[k] \in Seq(Shown)
  <2> TAKE k \in Key
  <2>1. v[k] \in Seq(Plain)  BY <1>1, <1>2
  <2> QED  BY <1>3, <2>1, SeqWithin
<1>5. v \in [Key -> Seq(Shown)] <=> \A k \in Key : v[k] \in Seq(Shown)  BY <1>2
<1> QED  BY <1>4, <1>5

\* The message of such an order.
LEMMA MessageType ==
    ASSUME NEW v \in [Key -> Seq(Shown)]
    PROVE  BuildMessage(OrderFields(v)) \in Seq(Byte)
<1>1. v \in [Key -> Seq(Byte)]  BY OrderType
<1>2. PICK f : f = OrderFields(v) /\ IsOrder(f, v) /\ AllGood(f, 8)
  BY <1>1, FieldsAre, OrderFieldsGood
<1>3. DOMAIN f = 1..8 /\ 8 \in Nat \ {0}  BY <1>2 DEF IsOrder
<1> QED  BY <1>2, <1>3, BuiltIs

\* The stages of an order.
Stages == {"start", "typed", "rejected", "sent", "altered", "cut", "joined", "behind"}
\* Those in which the message met something.
Mishaps == {"altered", "cut", "joined", "behind"}

\* A mishap leaves the order and its report alone.
LEMMA MishapKeepsInv ==
    ASSUME TextInv, NEW what \in Mishaps, NEW text, Becomes(what, text), WayInv'
    PROVE  TextInv'
<1>1. /\ stage = "sent" /\ wire' = text /\ stage' = what
      /\ UNCHANGED <<typed, order, message, report, samples>>
  BY DEF Becomes
<1>2. Sent /\ Sent'  BY <1>1 DEF Sent, Mishaps
<1>3. SentInv'
  <2>1. Taken' = Taken /\ Missing(order)' = Missing(order)  BY <1>1 DEF Taken, Missing
  <2> QED  BY <1>1, <1>2, <2>1 DEF TextInv, SentInv
<1>4. ReportInv'
  <2>1. ASSUME stage' = "joined", report' # <<>>
        PROVE  \E v \in [Key -> Seq(Byte)] : report' = BuildMessage(ReportFields(Id, v))
    <3>1. report' = BuildMessage(ReportFields(Id, ReadOrder(Text)))
      BY <1>1, <2>1 DEF TextInv, ReportInv
    <3>2. Text \in Seq(Byte)  BY <1>1, <1>2, WireIs
    <3>3. ReadOrder(Text) \in [Key -> Seq(Byte)]  BY <3>2, ReadOrderType
    <3> QED  BY <3>1, <3>3
  <2>2. stage' # "sent"  BY <1>1 DEF Mishaps
  <2> QED  BY <1>2, <2>1, <2>2 DEF ReportInv
<1>5. stage' \in Stages /\ stage' # "start" /\ stage' # "typed"  BY <1>1 DEF Mishaps, Stages
<1> QED  BY <1>1, <1>3, <1>4, <1>5 DEF TextInv, Stages

\* An order is sent.
LEMMA SendKeepsInv ==
    ASSUME TextInv, ~ Sent, NEW v \in [Key -> Seq(Shown)], NEW text \in Seq(Byte), Sends(v, text),
           ToSoh(text) = ToSoh(BuildMessage(OrderFields(v))),
           UNCHANGED <<typed, report, samples>>,
           typed # None => /\ typed \in [Key -> Seq(Plain) \cup {NoKey}]
                           /\ v = Taken /\ ~ Missing(v)
    PROVE  TextInv'
<1>1. order' = v /\ message' = text /\ wire' = text /\ stage' = "sent"  BY DEF Sends
<1>2. report' = <<>>  BY DEF TextInv, ReportInv
<1>3. SentInv'
  <2>1. Taken' = Taken /\ Missing(order)' = Missing(v)  BY <1>1 DEF Taken, Missing
  <2>2. OrderFields(order)' = OrderFields(v)  BY <1>1
  <2>3. BuildMessage(OrderFields(order))' = BuildMessage(OrderFields(v))  BY <1>1
  <2> QED  BY <1>1, <2>1, <2>3 DEF SentInv
<1>4. WayInv'  BY <1>1 DEF WayInv
<1>5. ReportInv'
  <2>1. stage' # "joined" /\ Sent'  BY <1>1 DEF Sent
  <2> QED  BY <1>2, <2>1 DEF ReportInv
<1>6. stage' \in Stages  BY <1>1 DEF Stages
<1> QED  BY <1>1, <1>3, <1>4, <1>5, <1>6 DEF TextInv, Stages

-----------------------------------------------------------------------------
\* It holds before anything is typed.
LEMMA InitTextInv ==
    ASSUME TextInit
    PROVE  TextInv
BY DEF TextInit, TextInv, SentInv, WayInv, ReportInv, Sent

\* The steps before a message is sent, and the samples.
LEMMA BeforeKeepsInv ==
    ASSUME TextInv, Type \/ Reject \/ Measure
    PROVE  TextInv'
<1>1. CASE Type
  <2>1. /\ stage = "start" /\ typed' \in Entries /\ stage' = "typed"
        /\ UNCHANGED <<order, message, wire, report, samples>>
    BY <1>1 DEF Type
  <2>2. ~ Sent' /\ report = <<>>  BY <2>1 DEF TextInv, ReportInv, Sent
  <2>3. SentInv'  BY <2>2 DEF SentInv
  <2>4. WayInv'  BY <2>1 DEF WayInv
  <2>5. ReportInv'  BY <2>1, <2>2 DEF ReportInv
  <2> QED  BY <2>1, <2>3, <2>4, <2>5 DEF TextInv
<1>2. CASE Reject
  <2>1. /\ stage = "typed" /\ stage' = "rejected"
        /\ UNCHANGED <<typed, order, message, wire, report, samples>>
    BY <1>2 DEF Reject
  <2>2. ~ Sent' /\ report = <<>>  BY <2>1 DEF TextInv, ReportInv, Sent
  <2>3. SentInv'  BY <2>2 DEF SentInv
  <2>4. WayInv'  BY <2>1 DEF WayInv
  <2>5. ReportInv'  BY <2>1, <2>2 DEF ReportInv
  <2> QED  BY <2>1, <2>3, <2>4, <2>5 DEF TextInv
<1>3. CASE Measure
  <2>1. PICK x \in Latencies : /\ stage = "start" /\ samples' = Append(samples, x)
                               /\ UNCHANGED <<stage, typed, order, message, wire, report>>
    BY <1>3 DEF Measure
  <2>2. samples' \in Seq(Latencies)  BY <2>1 DEF TextInv
  <2>3. ~ Sent' /\ report = <<>>  BY <2>1 DEF TextInv, ReportInv, Sent
  <2>4. SentInv'  BY <2>3 DEF SentInv
  <2>5. WayInv'  BY <2>1 DEF WayInv
  <2>6. ReportInv'  BY <2>1, <2>3 DEF ReportInv
  <2> QED  BY <2>1, <2>2, <2>4, <2>5, <2>6 DEF TextInv
<1> QED  BY <1>1, <1>2, <1>3

\* The exchange reports.
LEMMA ProcessKeepsInv ==
    ASSUME TextInv, Process
    PROVE  TextInv'
<1>1. /\ stage \in {"sent", "altered", "cut", "joined", "behind"}
      /\ report' = BuildMessage(ReportFields(ReadId(Text), ReadOrder(Text)))
      /\ UNCHANGED <<stage, typed, order, message, wire, samples>>
  BY DEF Process
<1>2. Sent /\ Sent'  BY <1>1 DEF Sent
<1>3. SentInv'
  <2>1. Taken' = Taken /\ Missing(order)' = Missing(order)  BY <1>1 DEF Taken, Missing
  <2> QED  BY <1>1, <1>2, <2>1 DEF TextInv, SentInv
<1>4. WayInv'  BY <1>1 DEF TextInv, WayInv
<1>5. Text' = Text  BY <1>1 DEF Text
<1>6. ReportInv'
  <2>1. ASSUME stage \in {"sent", "joined"}
        PROVE  /\ report' = BuildMessage(ReportFields(Id, ReadOrder(Text)))
               /\ ReadOrder(Text) \in [Key -> Seq(Byte)]
    <3>1. ReadId(Text) = Id  BY <2>1, WireReads
    <3>2. Text \in Seq(Byte)  BY <1>2, <2>1, WireIs
    <3> QED  BY <1>1, <3>1, <3>2, ReadOrderType
  <2>2. stage' = stage  BY <1>1
  <2> QED  BY <1>2, <1>5, <2>1, <2>2 DEF ReportInv
<1> QED  BY <1>1, <1>3, <1>4, <1>6 DEF TextInv

\* Every step keeps the invariant.
LEMMA StepTextInv ==
    ASSUME TextInv, [TextNext]_textVars
    PROVE  TextInv'
<1>1. CASE Type \/ Reject \/ Measure  BY <1>1, BeforeKeepsInv
<1>2. CASE Post
  <2>1. /\ stage = "typed" /\ ~ Missing(Taken) /\ Sends(Taken, BuildMessage(OrderFields(Taken)))
        /\ UNCHANGED <<typed, report, samples>>
    BY <1>2 DEF Post
  <2>2. ~ Sent /\ typed \in Entries  BY <2>1 DEF Sent, TextInv
  <2>3. typed \in [Key -> Seq(Plain) \cup {NoKey}]  BY <2>2, EntriesAre
  <2>4. Taken \in [Key -> Seq(Shown)]  BY <2>3, TakenType
  <2>5. BuildMessage(OrderFields(Taken)) \in Seq(Byte)  BY <2>4, MessageType
  <2> QED  BY <2>1, <2>2, <2>3, <2>4, <2>5, SendKeepsInv
<1>3. CASE WriteLine
  <2>1. PICK v \in Generated : /\ stage = "start"
                               /\ Sends(v, ToPipe(BuildMessage(OrderFields(v))))
                               /\ UNCHANGED <<typed, report, samples>>
    BY <1>3 DEF WriteLine
  <2>2. ~ Sent /\ typed = None  BY <2>1 DEF Sent, TextInv
  <2>3. v \in [Key -> Seq(Shown)]  BY GeneratedType
  <2>4. BuildMessage(OrderFields(v)) \in Seq(Byte)  BY <2>3, MessageType
  <2>5. PICK text \in Seq(Byte) : /\ text = ToPipe(BuildMessage(OrderFields(v)))
                                  /\ ToSoh(text) = ToSoh(BuildMessage(OrderFields(v)))
    BY <2>4, PipeOrSoh
  <2> QED  BY <2>1, <2>2, <2>3, <2>5, SendKeepsInv
<1>4. CASE Alter
  <2>1. PICK i \in DOMAIN wire, b \in Bytes : Becomes("altered", [wire EXCEPT ![i] = b])
    BY <1>4 DEF Alter
  <2>2. wire = message /\ message' = message /\ stage' = "altered" /\ wire' = [wire EXCEPT ![i] = b]
    BY <2>1 DEF Becomes, TextInv, WayInv
  <2>3. WayInv'  BY <2>2 DEF WayInv
  <2> QED  BY <2>1, <2>3, MishapKeepsInv DEF Mishaps
<1>5. CASE Cut
  <2>1. PICK n \in 0..Len(wire) - 1 : Becomes("cut", SubSeq(wire, 1, n))
    BY <1>5 DEF Cut
  <2>2. wire = message /\ message' = message /\ stage' = "cut" /\ wire' = SubSeq(wire, 1, n)
    BY <2>1 DEF Becomes, TextInv, WayInv
  <2>3. WayInv'  BY <2>2 DEF WayInv
  <2> QED  BY <2>1, <2>3, MishapKeepsInv DEF Mishaps
<1>6. CASE Join
  <2>1. PICK n \in DOMAIN Other : Becomes("joined", wire \o SubSeq(Other, 1, n))
    BY <1>6 DEF Join
  <2>2. wire = message /\ message' = message /\ stage' = "joined" /\ wire' = wire \o SubSeq(Other, 1, n)
    BY <2>1 DEF Becomes, TextInv, WayInv
  <2>3. WayInv'  BY <2>2 DEF WayInv
  <2> QED  BY <2>1, <2>3, MishapKeepsInv DEF Mishaps
<1>7. CASE Follow
  <2>1. PICK n \in 2..Len(Other) : Becomes("behind", SubSeq(Other, n, Len(Other)) \o wire)
    BY <1>7 DEF Follow
  <2>2. /\ wire = message /\ message' = message /\ stage' = "behind"
        /\ wire' = SubSeq(Other, n, Len(Other)) \o wire
    BY <2>1 DEF Becomes, TextInv, WayInv
  <2>3. WayInv'  BY <2>2 DEF WayInv
  <2> QED  BY <2>1, <2>3, MishapKeepsInv DEF Mishaps
<1>8. CASE Process  BY <1>8, ProcessKeepsInv
<1>9. CASE UNCHANGED textVars
  <2>1. UNCHANGED <<stage, typed, order, message, wire, report, samples>>  BY <1>9 DEF textVars
  <2>2. /\ Taken' = Taken /\ Missing(order)' = Missing(order) /\ Sent' = Sent /\ Text' = Text
    BY <2>1 DEF Taken, Missing, Sent, Text
  <2>3. SentInv'  BY <2>1, <2>2 DEF TextInv, SentInv
  <2>4. WayInv'  BY <2>1 DEF TextInv, WayInv
  <2>5. ReportInv'  BY <2>1, <2>2 DEF TextInv, ReportInv
  <2> QED  BY <2>1, <2>3, <2>4, <2>5 DEF TextInv
<1> QED  BY <1>1, <1>2, <1>3, <1>4, <1>5, <1>6, <1>7, <1>8, <1>9 DEF TextNext

\* It holds throughout.
LEMMA TextInvariance == TextSpec => []TextInv
<1>1. TextInit => TextInv  BY InitTextInv
<1>2. TextInv /\ [TextNext]_textVars => TextInv'  BY StepTextInv
<1> QED  BY <1>1, <1>2, PTL DEF TextSpec

(***************************************************************************)
(* What the benchmark writes for p50, p90, p99 and p999 (benchmark.cpp:    *)
(* 127-144) is a quantile of what it has measured, for every number of     *)
(* orders and all latencies.                                               *)
(***************************************************************************)
THEOREM PercentilesAreQuantiles == TextSpec => []IsQuantile
<1>1. ASSUME TextInv
      PROVE  IsQuantile
  <2>1. samples \in Seq(Int)
    <3>1. samples \in Seq(Latencies) /\ Latencies \subseteq Int  BY <1>1, TextAssumption DEF TextInv
    <3> QED  BY <3>1, SeqWithin
  <2>2. ASSUME samples # <<>>, NEW p \in Permille
        PROVE  QuantileOf(samples, p, Percentile(samples, p))
    <3>1. p \in 0..1000  BY DEF Permille
    <3> QED  BY <2>1, <2>2, <3>1, PercentileIsQuantile, ZenonT(40)
  <2> QED  BY <2>2 DEF IsQuantile
<1> QED  BY <1>1, TextInvariance, PTL

(***************************************************************************)
(* Whatever the order, its message is accepted as it was sent exactly when *)
(* no value holds a "10=" and the '|' in the values are a multiple of 256: *)
(* build_message and validate_message (fix_utils.hpp:56-148) agree about   *)
(* BodyLength and CheckSum for every length and every sum.                 *)
(***************************************************************************)
THEOREM SentIsAccepted == TextSpec => []AcceptedUnlessTagInside
<1>1. ASSUME TextInv
      PROVE  AcceptedUnlessTagInside
  <2> SUFFICES ASSUME stage = "sent"
               PROVE  Accepted <=> (\A k \in Key : ~Holds(order[k], 10)) /\ AllBars(order) % 256 = 0
    BY DEF AcceptedUnlessTagInside
  <2>1. Sent  BY DEF Sent
  <2>2. order \in [Key -> Seq(Byte)]  BY <1>1, <2>1, WireIs
  <2>3. Text = ToSoh(BuildMessage(OrderFields(order)))
    BY <1>1, <2>1 DEF TextInv, SentInv, WayInv, Text
  <2> QED  BY <2>2, <2>3, OrderAccepted DEF Accepted
<1> QED  BY <1>1, TextInvariance, PTL

-----------------------------------------------------------------------------
(***************************************************************************)
(* The exchange's report.                                                  *)
(***************************************************************************)
\* The four keys and their tags.
LEMMA KeysAre ==
    /\ \A i \in 1..4 : Keys[i] \in Key /\ Tag[Keys[i]] \in 10..99
    /\ \A k \in Key : \E i \in 1..4 : k = Keys[i]
<1>1. Keys[1] = "symbol" /\ Keys[2] = "side" /\ Keys[3] = "qty" /\ Keys[4] = "price"  BY DEF Keys
<1>2. Tag["symbol"] = 55 /\ Tag["side"] = 54 /\ Tag["qty"] = 38 /\ Tag["price"] = 44  BY DEF Tag
<1>3. \A k \in Key : k = Keys[1] \/ k = Keys[2] \/ k = Keys[3] \/ k = Keys[4]  BY <1>1 DEF Key
<1>4. \A i \in 1..4 : i = 1 \/ i = 2 \/ i = 3 \/ i = 4  OBVIOUS
<1>5. Keys[1] \in Key /\ Keys[2] \in Key /\ Keys[3] \in Key /\ Keys[4] \in Key  BY <1>1 DEF Key
<1>6. 55 \in 10..99 /\ 54 \in 10..99 /\ 38 \in 10..99 /\ 44 \in 10..99  OBVIOUS
<1>7. \A i \in 1..4 : Keys[i] \in Key  BY <1>4, <1>5
<1>8. \A i \in 1..4 : Tag[Keys[i]] = 55 \/ Tag[Keys[i]] = 54 \/ Tag[Keys[i]] = 38 \/ Tag[Keys[i]] = 44
  BY <1>1, <1>2, <1>4
<1>9. \A i \in 1..4 : Tag[Keys[i]] \in 10..99  BY <1>8
<1> QED  BY <1>3, <1>7, <1>9

\* Values without '|' have no separator.
LEMMA PlainOrder ==
    ASSUME NEW v \in [Key -> Seq(Shown)], \A k \in Key : BAR \notin ToSet(v[k])
    PROVE  NoSeparators(v)
<1> SUFFICES ASSUME NEW k \in Key PROVE NoSeparator(v[k])
  BY DEF NoSeparators
<1>1. v[k] \in Seq(Shown)  OBVIOUS
<1>2. \A i \in 1..Len(v[k]) : v[k][i] \in Shown  BY <1>1, ElementOfSeq
<1>3. SOH \notin Shown  BY DEF SOH, Shown
<1>4. \A i \in 1..Len(v[k]) : v[k][i] # BAR
  <2>1. DOMAIN v[k] = 1..Len(v[k])  BY <1>1
  <2> QED  BY <2>1 DEF ToSet
<1> QED  BY <1>2, <1>3, <1>4 DEF NoSeparator

(***************************************************************************)
(* The report on an order that came whole (mock_bist.cpp:36-71) has each   *)
(* value of the order or, where an earlier value holds its tag, nothing,   *)
(* and has the order's own ClOrdID whatever the values are and whatever    *)
(* follows in the same read.                                               *)
(***************************************************************************)
THEOREM ReportsEcho == TextSpec => []ReportEchoes
<1>1. ASSUME TextInv
      PROVE  EchoedOrNothing
  <2> SUFFICES ASSUME stage = "sent", report # <<>>, \A k \in Key : BAR \notin ToSet(order[k]),
                      NEW i \in 1..4
               PROVE  GetField(report, Tag[Keys[i]]) = IF Shadowed(i) THEN <<>> ELSE order[Keys[i]]
    BY DEF EchoedOrNothing
  <2>1. Sent  BY DEF Sent
  <2>2. PICK v \in [Key -> Seq(Byte)], u \in Seq(Byte) :
           v = order /\ u = Text /\ Carries(u, BuildMessage(OrderFields(v)))
    BY <1>1, <2>1, WireIs
  <2>3. NoSeparators(v)
    <3>1. order \in [Key -> Seq(Shown)]  BY <1>1, <2>1 DEF TextInv, SentInv
    <3> QED  BY <2>2, <3>1, PlainOrder
  <2>4. \A j \in 1..4 :
          GetField(u, Tag[Keys[j]]) = IF InFirst(v, j - 1, Tag[Keys[j]]) THEN <<>> ELSE v[Keys[j]]
    BY <2>2, <2>3, OrderReads
  <2>5. PICK w \in [Key -> Seq(Byte)] : w = ReadOrder(u)  BY <2>2, ReadOrderType
  <2>6. \A j \in 1..4 :
          w[Keys[j]] = IF InFirst(v, j - 1, Tag[Keys[j]]) THEN <<>> ELSE v[Keys[j]]
    <3>1. \A k \in Key : w[k] = GetField(u, Tag[k])  BY <2>5 DEF ReadOrder
    <3> QED  BY <2>4, <3>1, KeysAre
  <2>7. NoSeparators(w)
    <3> SUFFICES ASSUME NEW k \in Key PROVE NoSeparator(w[k])
      BY DEF NoSeparators
    <3>1. PICK j \in 1..4 : k = Keys[j]  BY KeysAre
    <3>2. w[k] = <<>> \/ w[k] = v[k]  BY <2>6, <3>1
    <3>3. NoSeparator(<<>>)  BY DEF NoSeparator
    <3>4. NoSeparator(v[k])  BY <2>3 DEF NoSeparators
    <3> QED  BY <3>2, <3>3, <3>4
  <2>8. report = BuildMessage(ReportFields(Id, w))
    BY <1>1, <2>2, <2>5 DEF TextInv, ReportInv
  <2>9. PICK r \in Seq(Byte) : r = report
    <3>1. PICK f : f = ReportFields(Id, w) /\ IsReport(f, Id, w) /\ AllGood(f, 12)
      BY FieldsAre, ReportFieldsGood, IdIs
    <3>2. DOMAIN f = 1..12 /\ 12 \in Nat \ {0}  BY <3>1 DEF IsReport
    <3> QED  BY <2>8, <3>1, <3>2, BuiltIs
  <2>10. PICK t \in 10..99 : t = Tag[Keys[i]]  BY KeysAre
  <2>11. GetField(r, t) = IF InFirst(w, i - 1, t) THEN <<>> ELSE w[Keys[i]]
    BY <2>7, <2>8, <2>9, <2>10, ReportReads
  <2>12. InFirst(w, i - 1, t) => InFirst(v, i - 1, t)
    <3> SUFFICES ASSUME NEW j \in 1..i - 1, HasTag(w[Keys[j]], t)
                 PROVE  HasTag(v[Keys[j]], t)
      BY DEF InFirst
    <3>1. j \in 1..4  OBVIOUS
    <3>2. w[Keys[j]] = <<>> \/ w[Keys[j]] = v[Keys[j]]  BY <2>6, <3>1
    <3>3. ~ HasTag(<<>>, t)  BY NoTagIn
    <3> QED  BY <3>2, <3>3
  <2>13. Shadowed(i) <=> InFirst(v, i - 1, t)
    <3>1. \A j \in 1..i - 1 : Holds(order[Keys[j]], t) <=> HasTag(v[Keys[j]], t)
      <4> TAKE j \in 1..i - 1
      <4>1. j \in 1..4  OBVIOUS
      <4>2. v[Keys[j]] \in Seq(Byte)  BY <4>1, KeysAre
      <4> QED  BY <2>2, <4>2, HoldsIs
    <3> QED  BY <2>10, <3>1 DEF Shadowed, InFirst
  <2>14. w[Keys[i]] = IF InFirst(v, i - 1, t) THEN <<>> ELSE v[Keys[i]]  BY <2>6, <2>10
  <2> QED  BY <2>2, <2>9, <2>10, <2>11, <2>12, <2>13, <2>14
<1>2. ASSUME TextInv
      PROVE  IdEchoed
  <2> SUFFICES ASSUME stage \in {"sent", "joined"}
               PROVE  /\ GetField(Text, 35) = <<68>> /\ ReadId(Text) = Id
                      /\ report # <<>> => GetField(report, 11) = Id
    BY DEF IdEchoed
  <2>1. GetField(Text, 35) = <<68>> /\ ReadId(Text) = Id  BY <1>2, WireReads
  <2>2. ASSUME report # <<>>
        PROVE  GetField(report, 11) = Id
    <3>1. PICK v \in [Key -> Seq(Byte)] : report = BuildMessage(ReportFields(Id, v))
      <4>1. Sent  BY DEF Sent
      <4>2. Text \in Seq(Byte)  BY <1>2, <4>1, WireIs
      <4>3. ReadOrder(Text) \in [Key -> Seq(Byte)]  BY <4>2, ReadOrderType
      <4> QED  BY <1>2, <2>2, <4>3 DEF TextInv, ReportInv
    <3>2. PICK f : f = ReportFields(Id, v) /\ IsReport(f, Id, v) /\ AllGood(f, 12)
      BY FieldsAre, ReportFieldsGood, IdIs
    <3>3. DOMAIN f = 1..12 /\ 12 \in Nat \ {0}  BY <3>2 DEF IsReport
    <3>4. report \in Seq(Byte)  BY <3>1, <3>2, <3>3, BuiltIs
    <3> QED  BY <3>1, <3>4, ReportReads
  <2> QED  BY <2>1, <2>2
<1>3. TextInv => ReportEchoes  BY <1>1, <1>2 DEF ReportEchoes
<1> QED  BY <1>3, TextInvariance, PTL

-----------------------------------------------------------------------------
(***************************************************************************)
(* A message and what a mishap leaves of it.                               *)
(***************************************************************************)
\* The first byte of an order's body, the 3 of "35=", is neither '0' nor '='.
LEMMA FirstPiece ==
    ASSUME NEW v \in [Key -> Seq(Byte)]
    PROVE  Piece(OrderFields(v)[1])[1] = 51
<1>1. PICK f : f = OrderFields(v) /\ IsOrder(f, v)  BY FieldsAre
<1>2. f[1].tag = 35 /\ f[1].value = <<68>>  BY <1>1, OrderParts
<1>3. PICK p, s, z : p = Prefix(35) /\ s = <<68>> /\ z = <<SOH>>  OBVIOUS
<1>4. p \in Seq(Byte) /\ Len(p) = 3 /\ p[1] = 51
  <2>1. 35 \in Nat /\ 35 \in 10..99 /\ 35 \div 10 = 3  OBVIOUS
  <2>2. Prefix(35) \in Seq(Byte)  BY <2>1, PrefixParts
  <2>3. Len(Prefix(35)) = 3 /\ Prefix(35)[1] = 48 + (35 \div 10)  BY <2>1, PrefixOfTwo
  <2> QED  BY <1>3, <2>1, <2>2, <2>3
<1>5. s \in Seq(Byte) /\ Len(s) = 1 /\ z \in Seq(Byte)
  <2>1. 68 \in Byte /\ SOH \in Byte  BY DEF Byte, SOH
  <2> QED  BY <1>3, <2>1, Small
<1>6. PICK q : q = p \o s  OBVIOUS
<1>7. q \in Seq(Byte) /\ Len(q) = Len(p) + Len(s) /\ \A i \in 1..Len(p) : q[i] = p[i]
  <2>1. p \in Seq(Byte)  BY <1>4
  <2>2. s \in Seq(Byte)  BY <1>5
  <2>3. p \o s \in Seq(Byte) /\ Len(p \o s) = Len(p) + Len(s) /\ \A i \in 1..Len(p) : (p \o s)[i] = p[i]
    BY <2>1, <2>2, ConcatParts
  <2> QED  BY <1>6, <2>3, Zenon
<1>8. Len(q) = 4 /\ q[1] = p[1]
  <2>1. 1 \in 1..Len(p) /\ 3 + 1 = 4  BY <1>4
  <2> QED  BY <1>4, <1>5, <1>7, <2>1
<1>9. (q \o z)[1] = q[1]
  <2>1. 1 \in 1..Len(q)  BY <1>8
  <2> QED  BY <1>5, <1>7, <2>1, ConcatParts
<1>10. Piece(f[1]) = q \o z  BY <1>2, <1>3, <1>6, Zenon DEF Piece
<1> QED  BY <1>1, <1>4, <1>8, <1>9, <1>10, Zenon

\* Two fields are eight bytes, so the body of an order is no shorter.
LEMMA OrderBodyLength ==
    ASSUME NEW f, DOMAIN f = 1..8, AllGood(f, 8)
    PROVE  Len(Body(f)) \in Nat /\ Len(Body(f)) >= 5
<1>1. PICK body, off : body = Body(f) /\ Laid(body, 0, f, off, 8) /\ body \in Seq(Byte) /\ off[8] = Len(body)
  <2>1. 8 \in Nat \ {0}  OBVIOUS
  <2> QED  BY <2>1, BodyIs
<1>2. PICK p1, p2 : p1 = Piece(f[1]) /\ p2 = Piece(f[2])  OBVIOUS
<1>3. off[0] = 0 /\ off[1] = off[0] + Len(p1) /\ off[2] = off[1] + Len(p2) /\ off[2] \in Nat /\ off[1] \in Nat
  BY <1>1, <1>2 DEF Laid
<1>4. \A p \in {p1, p2} : Len(p) \in Nat /\ Len(p) >= 4
  <2> TAKE p \in {p1, p2}
  <2>1. GoodField(f[1]) /\ GoodField(f[2])
    <3>1. 1 \in 1..8 /\ 2 \in 1..8  OBVIOUS
    <3> QED  BY <3>1, Zenon DEF AllGood
  <2>2. PICK tag, value, d, w : PieceParts(p, tag, value, d, w)  BY <1>2, <2>1, PieceIs
  <2>3. d \in {2, 3} /\ w \in Nat /\ Len(p) = d + w + 2  BY <2>2 DEF PieceParts
  <2> QED  BY <2>3
<1>5. off[2] >= 8  BY <1>3, <1>4
<1>6. off[2] <= off[8] /\ off[8] \in Nat
  <2>1. 0 \in Nat /\ 8 \in Nat /\ 2 \in 0..8 /\ 8 \in 0..8  OBVIOUS
  <2>2. off[8] \in Nat  BY <1>1, <2>1 DEF Laid
  <2> QED  BY <1>1, <2>1, <2>2, LaidGrows
<1> QED  BY <1>1, <1>3, <1>5, <1>6

\* An order's message that is accepted has all that the lemmas about mishaps need.
LEMMA SoundOrder ==
    ASSUME NEW v \in [Key -> Seq(Byte)], NEW g, g = ToSoh(BuildMessage(OrderFields(v))),
           ValidateMessage(g)
    PROVE  \E n : Sound(g, n)
<1>1. PICK f : f = OrderFields(v) /\ IsOrder(f, v) /\ AllGood(f, 8)  BY FieldsAre, OrderFieldsGood
<1>2. DOMAIN f = 1..8 /\ 8 \in Nat \ {0}  BY <1>1 DEF IsOrder
<1>3. PICK n \in Nat : n = Len(Body(f)) /\ n >= 5  BY <1>1, <1>2, OrderBodyLength
<1>4. PICK m \in Seq(Byte) : m = BuildMessage(f) /\ Shape(m, n)
  BY <1>1, <1>2, <1>3, BuiltIs
<1>5. g = ToSoh(m)  BY <1>1, <1>4
<1>6. g \in Seq(Byte) /\ NoBar(g)  BY <1>5, ToSohIs
<1>7. Shape(g, n)  BY <1>4, <1>5, ToSohKeeps
<1>8. Opens(g, n) /\ Len(g) = Trailer(n) + 6  BY <1>7 DEF Shape
<1>9. PICK e \in Nat, t \in Nat : e = Ending(n) /\ t = Trailer(n) /\ t = e + n + 1 /\ e >= 14
  BY FrameIs
<1>10. Len(g) >= 25  BY <1>3, <1>8, <1>9
<1>11. Entire(g, n)  BY <1>6, <1>8, <1>10, HeadEntire
<1>12. Carries(g, m)
  <2>1. Len(m) >= Len(m)  BY <1>4
  <2> QED  BY <1>4, <1>5, <2>1, CarriesIs
<1>13. PICK off : Laid(g, e, f, off, 1)
  <2>1. 1 \in 0..8 /\ AllPlain(f, 1)  BY <1>1, OrderPlain
  <2> QED  BY <1>1, <1>2, <1>3, <1>4, <1>6, <1>9, <1>12, <2>1, BuiltLaid
<1>14. PICK p : p = Piece(f[1]) /\ p[1] = 51  BY <1>1, FirstPiece
<1>15. g[e + 1] = 51
  <2>1. 1 \in 1..1 /\ 1 - 1 = 0  OBVIOUS
  <2>2. off[0] = e /\ \A j \in 1..Len(p) : g[off[0] + j] = p[j]
    BY <1>13, <1>14, <2>1 DEF Laid
  <2>3. 1 \in 1..Len(p)
    <3>1. GoodField(f[1])
      <4>1. 1 \in 1..8  OBVIOUS
      <4> QED  BY <1>1, <4>1, Zenon DEF AllGood
    <3>2. PICK tag, value, d, w : PieceParts(p, tag, value, d, w)  BY <1>14, <3>1, PieceIs
    <3>3. d \in {2, 3} /\ w \in Nat /\ Len(p) = d + w + 2  BY <3>2 DEF PieceParts
    <3> QED  BY <3>3
  <2> QED  BY <1>14, <2>2, <2>3, Zenon
<1>16. g[Ending(n) + 1] \notin {48, EQ}  BY <1>9, <1>15 DEF EQ
<1> QED  BY <1>3, <1>6, <1>7, <1>11, <1>16 DEF Sound

-----------------------------------------------------------------------------
\* One message in the place of another is told by the front of the one.
Told(u, m) == ValidateMessage(u) <=> IsPrefix(Front(m), u)

\* Both sides of that, from what the mishap leaves.
LEMMA ToldIf ==
    ASSUME NEW n, NEW m, Sound(m, n), NEW u \in Seq(Byte), NoBar(u),
           AllBut(u, m) \/ ~ ValidateMessage(u)
    PROVE  Told(u, m)
<1>1. m \in Seq(Byte) /\ Len(m) >= 1
  <2>1. PICK e, t, c : Parts(m, n, e, t, c)  BY SoundParts
  <2>2. m \in Seq(Byte) /\ t \in Nat /\ Len(m) = t + 6  BY <2>1 DEF Parts
  <2> QED  BY <2>2
<1>2. IsPrefix(Front(m), u) <=> AllBut(u, m)  BY <1>1, FrontIs
<1>3. AllBut(u, m) => ValidateMessage(u)  BY WholeAccepted
<1> QED  BY <1>2, <1>3, Zenon DEF Told

\* A message with another byte somewhere.
LEMMA AlteredTold ==
    ASSUME NEW n, NEW m, Sound(m, n), NEW k \in Nat, k = Len(m),
           NEW u \in Seq(Byte), NoBar(u), Len(u) = k,
           NEW i \in 1..k, \A j \in 1..k : j # i => u[j] = m[j]
    PROVE  Told(u, m)
<1>1. CASE i = k \/ u[i] = m[i]
  <2>1. \A j \in 1..k - 1 : u[j] = m[j]
    <3> TAKE j \in 1..k - 1
    <3>1. j \in 1..k /\ j # k  OBVIOUS
    <3> QED  BY <1>1, <3>1, Zenon
  <2>2. k >= k - 1  OBVIOUS
  <2>3. AllBut(u, m)  BY <2>1, <2>2 DEF AllBut
  <2> QED  BY <2>3, ToldIf
<1>2. CASE i # k /\ u[i] # m[i]
  <2>1. i \in 1..k - 1  BY <1>2
  <2>2. Altered(u, m, i)  BY <1>2, <2>1, Zenon DEF Altered
  <2>3. ~ ValidateMessage(u)  BY <2>2, AlteredRefused
  <2> QED  BY <2>3, ToldIf
<1> QED  BY <1>1, <1>2

\* The beginning of a message.
LEMMA CutTold ==
    ASSUME NEW n, NEW m, Sound(m, n), NEW k \in Nat, k <= Len(m) - 1,
           NEW u \in Seq(Byte), NoBar(u), Len(u) = k, \A j \in 1..k : u[j] = m[j]
    PROVE  Told(u, m)
<1>1. PICK l \in Nat : l = Len(m)
  <2>1. PICK e, t, c : Parts(m, n, e, t, c)  BY SoundParts
  <2>2. t \in Nat /\ Len(m) = t + 6  BY <2>1 DEF Parts
  <2> QED  BY <2>2
<1>2. CASE k = l - 1
  <2>1. AllBut(u, m)
    <3>1. Len(u) >= Len(m) - 1  BY <1>1, <1>2
    <3>2. \A j \in 1..l - 1 : u[j] = m[j]  BY <1>2, Zenon
    <3> QED  BY <1>1, <3>1, <3>2 DEF AllBut
  <2> QED  BY <2>1, ToldIf
<1>3. CASE k # l - 1
  <2>1. k <= Len(m) - 2  BY <1>1, <1>3
  <2>2. ~ ValidateMessage(u)  BY <2>1, CutRefused
  <2> QED  BY <2>2, ToldIf
<1> QED  BY <1>2, <1>3

\* u is r bytes and then m.
Behind(u, m, r) == Len(u) = r + Len(m) /\ \A j \in 1..Len(m) : u[r + j] = m[j]

\* The rest of another message, r bytes of it, in front of one: it may not begin
\* with a BeginString of its own.
LEMMA BehindTold ==
    ASSUME NEW n, NEW m, Sound(m, n), NEW u \in Seq(Byte), NoBar(u), NEW r \in Nat \ {0},
           Behind(u, m, r),
           r >= 10 => \A v \in {2, 4} : ~ BegunWith(u, v)
    PROVE  Told(u, m)
<1>1. PICK l \in Nat : l = Len(m) /\ l >= 6
  <2>1. PICK e, t, c : Parts(m, n, e, t, c)  BY SoundParts
  <2>2. t \in Nat /\ Len(m) = t + 6  BY <2>1 DEF Parts
  <2> QED  BY <2>2
<1>2. n \in Nat /\ Opens(m, n)  BY DEF Sound, Shape
<1>3. ~ ValidateMessage(u)
  <2> SUFFICES ASSUME ValidateMessage(u)
               PROVE  FALSE
    OBVIOUS
  <2>1. PICK v \in {2, 4} : BegunWith(u, v)  BY AcceptedBegins
  <2>2. ~ r >= 10  BY <2>1, Zenon
  <2>3. PICK q \in 2..10 : q = r + 1  BY <2>2
  <2>4. u[q] = m[1]
    <3>1. 1 \in 1..Len(m)  BY <1>1
    <3>2. u[r + 1] = m[1]  BY <3>1, Zenon DEF Behind
    <3> QED  BY <2>3, <3>2, Zenon
  <2>5. ~ BegunWith(u, v)
    <3>1. n \in Nat /\ Opens(m, n)  BY <1>2
    <3> QED  BY <2>4, <3>1, ShiftedBegins, Zenon
  <2> QED  BY <2>1, <2>5
<1> QED  BY <1>3, ToldIf

-----------------------------------------------------------------------------
\* u has the ten bytes that stand behind place h of o.
TenFrom(u, o, h) == \A j \in 1..10 : u[j] = o[h + j]

\* No rest of the other message has a BeginString in front.
LEMMA RestBegins ==
    ASSUME NEW h \in Nat \ {0}, h + 10 <= Len(Other), NEW u, TenFrom(u, ToSoh(Other), h),
           NEW v \in {2, 4}
    PROVE  ~ BegunWith(u, v)
<1> SUFFICES ASSUME BegunWith(u, v)
             PROVE  FALSE
  OBVIOUS
<1>0. PICK o : o = ToSoh(Other)  OBVIOUS
<1>1. PICK l \in Nat : Len(o) = l /\ h + 10 <= l
  <2>1. Other \in Seq(Byte)  BY TextAssumption DEF Byte
  <2> QED  BY <1>0, <2>1, ToSohIs
<1>2. PICK w : w = BeginString(v) /\ Len(w) = 10
  <2>1. v \in 0..9  OBVIOUS
  <2>2. Len(BeginString(v)) = 10  BY <2>1, BeginStringIs, Zenon
  <2> QED  BY <2>2, Zenon
<1>3. \A j \in 1..10 : o[h + j] = w[j]  BY <1>0, <1>2, Zenon DEF BegunWith, TenFrom
<1>4. PICK k : k = h + 1 /\ k \in 2..(l - 10 + 1)  BY <1>1
<1>5. \A j \in 1..10 : k + j - 1 = h + j  BY <1>4
<1>6. \A j \in 1..10 : o[k + j - 1] = w[j]  BY <1>3, <1>5, Zenon
<1>7. k \in Found(w, o, 2)  BY <1>1, <1>2, <1>4, <1>6, Zenon DEF Found
<1>8. Found(w, o, 2) = {}  BY <1>0, <1>2, TextAssumption, Zenon
<1> QED  BY <1>7, <1>8, Zenon

\* What arrives after a mishap, as the lemmas about each want it: without '|'.
LEMMA MishapTold ==
    ASSUME TextInv, Sent, ValidateMessage(ToSoh(message))
    PROVE  Told(Text, ToSoh(message))
<1>1. PICK v \in [Key -> Seq(Byte)] : v = order  BY WireIs
<1>2. PICK g \in Seq(Byte) : g = message /\ ToSoh(g) = ToSoh(BuildMessage(OrderFields(v)))
  BY <1>1 DEF TextInv, SentInv
<1>3. PICK m : m = ToSoh(g)  OBVIOUS
<1>4. PICK n : Sound(m, n)
  <2>1. ValidateMessage(m)  BY <1>2, <1>3, Zenon
  <2>2. m = ToSoh(BuildMessage(OrderFields(v)))  BY <1>2, <1>3
  <2> QED  BY <2>1, <2>2, SoundOrder
<1>5. wire \in Seq(Byte)  BY WireIs
<1>6. PICK u \in Seq(Byte) : u = Text /\ u = ToSoh(wire) /\ NoBar(u) /\ Len(u) = Len(wire)
  BY <1>5, ToSohIs DEF Text
<1>7. \A i \in 1..Len(wire) : u[i] = IF wire[i] = BAR THEN SOH ELSE wire[i]
  BY <1>5, <1>6, ToSohIs
<1>8. PICK k \in Nat : k = Len(g) /\ k = Len(m) /\ DOMAIN g = 1..k
  BY <1>2, <1>3, ToSohIs
<1>9. \A i \in 1..k : m[i] = IF g[i] = BAR THEN SOH ELSE g[i]
  BY <1>3, <1>8, ToSohIs
<1>10. Other \in Seq(Byte) /\ Bytes \subseteq Byte  BY TextAssumption DEF Byte
<1>11. PICK l \in Nat : l = Len(Other) /\ DOMAIN Other = 1..l  BY <1>10
<1>12. Told(u, m)
  <2>1. CASE stage = "sent"
    <3>1. wire = g  BY <1>2, <2>1 DEF TextInv, WayInv
    <3>2. u = m  BY <1>3, <1>6, <3>1
    <3>3. k >= k - 1  OBVIOUS
    <3>4. AllBut(u, m)  BY <1>8, <3>2, <3>3 DEF AllBut
    <3> QED  BY <1>4, <1>6, <3>4, ToldIf
  <2>2. CASE stage = "joined"
    <3>1. PICK j \in 1..l : wire = g \o SubSeq(Other, 1, j)
      BY <1>2, <1>11, <2>2 DEF TextInv, WayInv
    <3>2. PICK s \in Seq(Byte) : s = SubSeq(Other, 1, j)
      <4>1. j \in Nat /\ j <= Len(Other)  BY <1>11
      <4> QED  BY <1>10, <4>1, FrontParts
    <3>3. Len(wire) = k + Len(s) /\ Len(s) \in Nat /\ \A i \in 1..k : wire[i] = g[i]
      <4>1. PICK c : c = Len(s) /\ c \in Nat  OBVIOUS
      <4>2. /\ Len(g \o s) = Len(g) + Len(s)
            /\ \A i \in 1..Len(g) : (g \o s)[i] = g[i]
        BY ConcatParts
      <4>3. wire = g \o s  BY <3>1, <3>2, Zenon
      <4> QED  BY <1>8, <4>1, <4>2, <4>3, Zenon
    <3>4. \A i \in 1..k - 1 : i \in 1..k /\ i \in 1..Len(wire)  BY <3>3
    <3>5. \A i \in 1..k - 1 : u[i] = m[i]  BY <1>7, <1>9, <3>3, <3>4, Zenon
    <3>6. Len(u) >= Len(m) - 1  BY <1>6, <1>8, <3>3
    <3>7. AllBut(u, m)  BY <1>8, <3>5, <3>6 DEF AllBut
    <3> QED  BY <1>4, <1>6, <3>7, ToldIf
  <2>3. CASE stage = "altered"
    <3>1. PICK i \in 1..k, b \in Byte : wire = [g EXCEPT ![i] = b]
      BY <1>2, <1>8, <1>10, <2>3 DEF TextInv, WayInv
    <3>2. Len(wire) = k /\ \A j \in 1..k : j # i => wire[j] = g[j]
      <4>1. g \in [1..k -> Byte]  BY <1>8
      <4>2. DOMAIN wire = 1..k  BY <3>1, <4>1
      <4>3. \A j \in 1..k : j # i => wire[j] = g[j]  BY <3>1, <4>1
      <4> QED  BY <1>5, <4>2, <4>3
    <3>3. \A j \in 1..k : j # i => u[j] = m[j]  BY <1>7, <1>9, <3>2, Zenon
    <3>4. Len(u) = k  BY <1>6, <3>2
    <3> QED  BY <1>4, <1>6, <1>8, <3>3, <3>4, AlteredTold
  <2>4. CASE stage = "cut"
    <3>1. PICK j \in 0..k - 1 : wire = SubSeq(g, 1, j)
      BY <1>2, <1>8, <2>4 DEF TextInv, WayInv
    <3>2. j \in Nat /\ j <= Len(g) /\ j <= Len(m) - 1  BY <1>8
    <3>3. Len(wire) = j /\ \A i \in 1..j : wire[i] = g[i]  BY <3>1, <3>2, FrontParts
    <3>4. \A i \in 1..j : i \in 1..k  OBVIOUS
    <3>5. \A i \in 1..j : u[i] = m[i]  BY <1>7, <1>9, <3>3, <3>4, Zenon
    <3>6. Len(u) = j  BY <1>6, <3>3
    <3> QED  BY <1>4, <1>6, <3>2, <3>5, <3>6, CutTold
  <2>5. CASE stage = "behind"
    <3>1. PICK h \in 2..l : wire = SubSeq(Other, h, l) \o g
      BY <1>2, <1>11, <2>5 DEF TextInv, WayInv
    <3>2. PICK r \in Nat \ {0} : r = l - h + 1  OBVIOUS
    <3>3. PICK s \in Seq(Byte) : /\ s = SubSeq(Other, h, l) /\ Len(s) = r
                                 /\ \A i \in 1..r : s[i] = Other[h + i - 1]
      <4>1. h \in Nat \ {0} /\ l <= Len(Other) /\ h <= l + 1  BY <1>11
      <4>2. /\ SubSeq(Other, h, l) \in Seq(Byte) /\ Len(SubSeq(Other, h, l)) = l - h + 1
            /\ \A i \in 1..l - h + 1 : SubSeq(Other, h, l)[i] = Other[h + i - 1]
        BY <1>10, <4>1, SubParts
      <4> QED  BY <3>2, <4>2, Zenon
    <3>4. /\ Len(wire) = r + k
          /\ \A i \in 1..r : wire[i] = s[i]
          /\ \A i \in 1..k : wire[r + i] = g[i]
      <4>1. /\ Len(s \o g) = Len(s) + Len(g)
            /\ \A i \in 1..Len(s) : (s \o g)[i] = s[i]
            /\ \A i \in 1..Len(g) : (s \o g)[Len(s) + i] = g[i]
        BY ConcatParts
      <4>2. wire = s \o g  BY <3>1, <3>3, Zenon
      <4> QED  BY <1>8, <3>3, <4>1, <4>2, Zenon
    <3>5. \A i \in 1..k : u[r + i] = m[i]
      <4>1. \A i \in 1..k : r + i \in 1..Len(wire)  BY <3>4
      <4> QED  BY <1>7, <1>9, <3>4, <4>1, Zenon
    <3>6. Behind(u, m, r)
      <4>1. Len(u) = r + Len(m)  BY <1>6, <1>8, <3>4
      <4> QED  BY <1>8, <3>5, <4>1, Zenon DEF Behind
    <3>7. r >= 10 => \A w \in {2, 4} : ~ BegunWith(u, w)
      <4> SUFFICES ASSUME r >= 10, NEW w \in {2, 4}
                   PROVE  ~ BegunWith(u, w)
        OBVIOUS
      <4>1. PICK o : o = ToSoh(Other)  OBVIOUS
      <4>2. \A i \in 1..l : o[i] = IF Other[i] = BAR THEN SOH ELSE Other[i]
        BY <1>10, <1>11, <4>1, ToSohIs
      <4>0. PICK a \in Nat \ {0} : a = h - 1 /\ a + 10 <= l  BY <3>2
      <4>3. \A j \in 1..10 : j \in 1..r /\ j \in 1..Len(wire) /\ a + j \in 1..l /\ a + j = h + j - 1
        <5> TAKE j \in 1..10
        <5>1. PICK c : c = Len(wire) /\ c = r + k  BY <3>4, Zenon
        <5>2. j \in 1..r /\ j \in 1..c  BY <5>1
        <5>3. a + j \in 1..l /\ a + j = h + j - 1  BY <4>0
        <5> QED  BY <5>1, <5>2, <5>3, Zenon
      <4>4. \A j \in 1..10 : wire[j] = Other[a + j]
        <5> TAKE j \in 1..10
        <5>1. j \in 1..r /\ a + j = h + j - 1  BY <4>3
        <5>2. wire[j] = s[j]  BY <3>4, <5>1
        <5>3. s[j] = Other[h + j - 1]  BY <3>3, <5>1
        <5> QED  BY <5>1, <5>2, <5>3, Zenon
      <4>5. TenFrom(u, o, a)  BY <1>7, <4>2, <4>3, <4>4, Zenon DEF TenFrom
      <4>6. a + 10 <= Len(Other)  BY <1>11, <4>0
      <4> QED  BY <4>1, <4>5, <4>6, RestBegins, Zenon
    <3> QED  BY <1>4, <1>6, <3>6, <3>7, BehindTold, Zenon
  <2> QED  BY <2>1, <2>2, <2>3, <2>4, <2>5 DEF TextInv, Sent
<1> QED  BY <1>2, <1>3, <1>6, <1>12, Zenon

(***************************************************************************)
(* One altered byte, a cut anywhere and the rest of an earlier message in  *)
(* front are found out by validate_message (fix_utils.hpp:97-148), for     *)
(* every order whose message it accepts as it was sent, every byte and     *)
(* every place; and what follows in the same read does not matter.         *)
(***************************************************************************)
THEOREM MishapsAreFoundOut == TextSpec => []AcceptedIffWhole
<1>1. ASSUME TextInv
      PROVE  AcceptedIffWhole
  <2> SUFFICES ASSUME Sent, ValidateMessage(ToSoh(message))
               PROVE  Accepted <=> IsPrefix(Front(ToSoh(message)), Text)
    BY Zenon DEF AcceptedIffWhole
  <2>1. Told(Text, ToSoh(message))  BY <1>1, MishapTold
  <2> QED  BY <2>1, Zenon DEF Told, Accepted
<1> QED  BY <1>1, TextInvariance, PTL

-----------------------------------------------------------------------------
(***************************************************************************)
(* The request, byte by byte: JSON.stringify.                              *)
(***************************************************************************)
\* Every key has a value, which begins with no blank.
Present(v) ==
    \A i \in 1..4 : v[Keys[i]] \in Seq(Plain) /\ v[Keys[i]] # <<>> /\ v[Keys[i]][1] # SPACE

\* A member with a key byte k and a value w of l bytes, behind place o; a comma or
\* the end of the object follows.
MemberBytes(text, o, k, w, l) ==
    /\ text[o + 1] = QUOTE /\ text[o + 2] = k /\ text[o + 3] = QUOTE
    /\ text[o + 4] = COLON /\ text[o + 5] = QUOTE
    /\ \A m \in 1..l : text[o + 5 + m] = w[m]
    /\ text[o + 6 + l] = QUOTE

\* The same, inside an object.
MemberAt(text, o, k, w, l) ==
    /\ o \in Nat /\ l \in Nat \ {0} /\ l = Len(w) /\ w \in Seq(Plain) /\ w[1] # SPACE
    /\ k \in {121, 105, 113, 112}
    /\ o + 7 + l <= Len(text)
    /\ MemberBytes(text, o, k, w, l)
    /\ text[o + 7 + l] \in {COMMA, CLOSE}

\* What is posted, member by member: o are the places in front of them.
Posted(json, v, o) ==
    /\ json \in Seq(Byte) /\ json[1] = OPEN
    /\ o[0] = 1 /\ o[4] = Len(json)
    /\ \A i \in 1..4 :
         /\ o[i] = o[i - 1] + 7 + Len(v[Keys[i]])
         /\ MemberAt(json, o[i - 1], KeyByte[Keys[i]], v[Keys[i]], Len(v[Keys[i]]))

\* No key is left out of a text that can be typed.
LEMMA NoKeyIsNone == NoKey \notin Seq(Plain)
<1> SUFFICES ASSUME NoKey \in Seq(Plain) PROVE FALSE
  OBVIOUS
<1>1. Len(NoKey) = 1 /\ NoKey[1] = 0  BY DEF NoKey
<1>2. 1 \in 1..Len(NoKey)  BY <1>1
<1>3. NoKey[1] \in Plain  BY <1>2, ElementOfSeq
<1> QED  BY <1>1, <1>3 DEF Plain

\* The marks are bytes.
LEMMA Marks ==
    /\ QUOTE \in Byte /\ COMMA \in Byte /\ COLON \in Byte /\ OPEN \in Byte /\ CLOSE \in Byte
    /\ Plain \subseteq Byte
BY DEF QUOTE, COMMA, COLON, OPEN, CLOSE, Plain, Byte

\* A quoted text.
LEMMA QuotedIs ==
    ASSUME NEW w \in Seq(Byte), NEW l \in Nat, l = Len(w)
    PROVE  /\ Quoted(w) \in Seq(Byte) /\ Len(Quoted(w)) = l + 2
           /\ Quoted(w)[1] = QUOTE /\ Quoted(w)[l + 2] = QUOTE
           /\ \A m \in 1..l : Quoted(w)[1 + m] = w[m]
<1>1. QUOTE \in Byte  BY Marks
<1>2. <<QUOTE>> \in Seq(Byte) /\ Len(<<QUOTE>>) = 1  BY <1>1, Small
<1>3. PICK q \in Seq(Byte) : q = <<QUOTE>> /\ Len(q) = 1 /\ q[1] = QUOTE
  BY <1>2
<1>4. q \o w \in Seq(Byte) /\ IsConcat(q \o w, q, w)  BY <1>3, ConcatIs
<1>5. PICK a \in Seq(Byte) : a = q \o w /\ IsConcat(a, q, w)  BY <1>4
<1>6. a \o q \in Seq(Byte) /\ IsConcat(a \o q, a, q)  BY <1>3, <1>5, ConcatIs
<1>7. PICK b \in Seq(Byte) : b = a \o q /\ IsConcat(b, a, q)  BY <1>6
<1>8. Quoted(w) = b  BY <1>3, <1>5, <1>7, Zenon DEF Quoted
<1>9. Len(a) = 1 + l /\ a[1] = QUOTE /\ \A m \in 1..l : a[1 + m] = w[m]
  BY <1>3, <1>5 DEF IsConcat
<1>10. Len(b) = l + 2 /\ (\A m \in 1..1 + l : b[m] = a[m]) /\ b[l + 2] = QUOTE
  <2>1. Len(b) = (1 + l) + 1 /\ (\A m \in 1..1 + l : b[m] = a[m]) /\ b[(1 + l) + 1] = q[1]
    BY <1>3, <1>7, <1>9, SMTT(40) DEF IsConcat
  <2> QED  BY <1>3, <2>1
<1>11. b[1] = QUOTE  BY <1>9, <1>10
<1>12. \A m \in 1..l : b[1 + m] = w[m]
  <2> TAKE m \in 1..l
  <2>1. 1 + m \in 1..1 + l  OBVIOUS
  <2> QED  BY <1>9, <1>10, <2>1
<1> QED  BY <1>8, <1>10, <1>11, <1>12

\* A member of the object.
LEMMA MemberIs ==
    ASSUME NEW v \in [Key -> Seq(Plain) \cup {NoKey}], Present(v), NEW i \in 1..4
    PROVE  \E l \in Nat \ {0} :
             /\ l = Len(v[Keys[i]])
             /\ Member(v, i) \in Seq(Byte)
             /\ MemberBytes(Member(v, i), 0, KeyByte[Keys[i]], v[Keys[i]], l)
             /\ i # 4 => Len(Member(v, i)) = l + 7 /\ Member(v, i)[l + 7] = COMMA
             /\ i = 4 => Len(Member(v, i)) = l + 6
<1>1. PICK w \in Seq(Plain) : w = v[Keys[i]] /\ w # <<>>  BY DEF Present
<1>2. PICK l \in Nat \ {0} : l = Len(w)  BY <1>1
<1>3. w \in Seq(Byte)  BY Marks, SeqWithin
<1>4. PICK k \in Byte : k = KeyByte[Keys[i]]
  <2>1. i = 1 \/ i = 2 \/ i = 3 \/ i = 4  OBVIOUS
  <2>2. Keys[1] = "symbol" /\ Keys[2] = "side" /\ Keys[3] = "qty" /\ Keys[4] = "price"  BY DEF Keys
  <2>3. /\ KeyByte["symbol"] = 121 /\ KeyByte["side"] = 105 /\ KeyByte["qty"] = 113
        /\ KeyByte["price"] = 112
    BY DEF KeyByte
  <2>4. KeyByte[Keys[i]] \in {121, 105, 113, 112}  BY <2>1, <2>2, <2>3
  <2> QED  BY <2>4 DEF Byte
<1>5. PICK s \in Seq(Byte) : s = <<k>> /\ Len(s) = 1 /\ s[1] = k
  <2>1. <<k>> \in Seq(Byte) /\ Len(<<k>>) = 1  BY Small
  <2> QED  BY <2>1
<1>6. PICK a \in Seq(Byte) : a = Quoted(s) /\ Len(a) = 3 /\ a[1] = QUOTE /\ a[2] = k /\ a[3] = QUOTE
  <2>1. /\ Quoted(s) \in Seq(Byte) /\ Len(Quoted(s)) = 1 + 2
        /\ Quoted(s)[1] = QUOTE /\ Quoted(s)[1 + 2] = QUOTE
        /\ \A m \in 1..1 : Quoted(s)[1 + m] = s[m]
    BY <1>5, QuotedIs
  <2>2. Quoted(s)[2] = s[1]  BY <2>1
  <2> QED  BY <1>5, <2>1, <2>2
<1>7. PICK c \in Seq(Byte) : c = <<COLON>> /\ Len(c) = 1 /\ c[1] = COLON
  <2>1. COLON \in Byte  BY Marks
  <2>2. <<COLON>> \in Seq(Byte) /\ Len(<<COLON>>) = 1  BY <2>1, Small
  <2> QED  BY <2>2
<1>8. PICK b \in Seq(Byte) : b = Quoted(w) /\ Len(b) = l + 2 /\ b[1] = QUOTE /\ b[l + 2] = QUOTE
                             /\ \A m \in 1..l : b[1 + m] = w[m]
  BY <1>2, <1>3, QuotedIs
<1>9. PICK e \in Seq(Byte) : /\ e = Comma(v, i)
                             /\ i # 4 => Len(e) = 1 /\ e[1] = COMMA
                             /\ i = 4 => Len(e) = 0
  <2>1. v[Keys[4]] # NoKey
    <3>1. v[Keys[4]] \in Seq(Plain)  BY DEF Present
    <3> QED  BY <3>1, NoKeyIsNone
  <2>2. i # 4 => Comma(v, i) = <<COMMA>>
    <3>1. i # 4 => 4 \in i + 1..4  OBVIOUS
    <3> QED  BY <2>1, <3>1 DEF Comma
  <2>3. i = 4 => Comma(v, i) = <<>>
    <3>1. i = 4 => i + 1..4 = {}  OBVIOUS
    <3> QED  BY <3>1 DEF Comma
  <2>4. <<COMMA>> \in Seq(Byte) /\ Len(<<COMMA>>) = 1 /\ <<COMMA>>[1] = COMMA
    <3>1. COMMA \in Byte  BY Marks
    <3> QED  BY <3>1, Small
  <2>5. <<>> \in Seq(Byte) /\ Len(<<>>) = 0  OBVIOUS
  <2>6. CASE i # 4  BY <2>2, <2>4, <2>6
  <2>7. CASE i = 4  BY <2>3, <2>5, <2>7
  <2> QED  BY <2>6, <2>7
<1>10. PICK f \in Seq(Byte) : f = a \o c /\ IsConcat(f, a, c)
  <2>1. a \o c \in Seq(Byte) /\ IsConcat(a \o c, a, c)  BY ConcatIs
  <2> QED  BY <2>1
<1>11. PICK g \in Seq(Byte) : g = f \o b /\ IsConcat(g, f, b)
  <2>1. f \o b \in Seq(Byte) /\ IsConcat(f \o b, f, b)  BY ConcatIs
  <2> QED  BY <2>1
<1>12. PICK h \in Seq(Byte) : h = g \o e /\ IsConcat(h, g, e)
  <2>1. g \o e \in Seq(Byte) /\ IsConcat(g \o e, g, e)  BY ConcatIs
  <2> QED  BY <2>1
<1>13. Member(v, i) = h
  <2>1. w # NoKey  BY NoKeyIsNone
  <2>2. Member(v, i) = Quoted(<<KeyByte[Keys[i]]>>) \o <<COLON>> \o Quoted(v[Keys[i]]) \o Comma(v, i)
    BY <1>1, <2>1, Zenon DEF Member
  <2>3. Quoted(<<KeyByte[Keys[i]]>>) = a  BY <1>4, <1>5, <1>6, Zenon
  <2>4. Quoted(v[Keys[i]]) = b  BY <1>1, <1>8, Zenon
  <2> QED  BY <1>7, <1>9, <1>10, <1>11, <1>12, <2>2, <2>3, <2>4, Zenon
<1>14. Len(f) = 4 /\ f[1] = QUOTE /\ f[2] = k /\ f[3] = QUOTE /\ f[4] = COLON
  <2>1. Len(f) = 3 + 1 /\ (\A m \in 1..3 : f[m] = a[m]) /\ \A m \in 1..1 : f[3 + m] = c[m]
    BY <1>6, <1>7, <1>10 DEF IsConcat
  <2> QED  BY <1>6, <1>7, <2>1
<1>15. Len(g) = l + 6 /\ (\A m \in 1..4 : g[m] = f[m]) /\ \A m \in 1..l + 2 : g[4 + m] = b[m]
  <2>1. Len(f) = 4 /\ Len(b) = l + 2 /\ IsConcat(g, f, b)  BY <1>8, <1>14, <1>11
  <2>2. Len(g) = 4 + (l + 2)  BY <2>1 DEF IsConcat
  <2>3. \A m \in 1..4 : g[m] = f[m]  BY <2>1 DEF IsConcat
  <2>4. \A m \in 1..l + 2 : g[4 + m] = b[m]  BY <2>1, Zenon DEF IsConcat
  <2>5. Len(g) = l + 6  BY ONLY <2>2, l \in Nat
  <2> QED  BY <2>3, <2>4, <2>5, Zenon
<1>16. Len(h) = l + 6 + Len(e) /\ (\A m \in 1..l + 6 : h[m] = g[m])
       /\ \A m \in 1..Len(e) : h[l + 6 + m] = e[m]
  BY <1>15, <1>12 DEF IsConcat
<1>17. MemberBytes(h, 0, k, w, l)
  <2>1. h[1] = QUOTE /\ h[2] = k /\ h[3] = QUOTE /\ h[4] = COLON
    <3>1. 1 \in 1..4 /\ 2 \in 1..4 /\ 3 \in 1..4 /\ 4 \in 1..4  OBVIOUS
    <3>2. \A m \in 1..4 : h[m] = f[m]
      <4> TAKE m \in 1..4
      <4>1. m \in 1..l + 6  OBVIOUS
      <4> QED  BY <1>15, <1>16, <4>1
    <3> QED  BY <1>14, <3>1, <3>2
  <2>2. \A m \in 1..l + 2 : h[4 + m] = b[m]
    <3> TAKE m \in 1..l + 2
    <3>1. 4 + m \in 1..l + 6  OBVIOUS
    <3> QED  BY <1>15, <1>16, <3>1
  <2>3. h[5] = QUOTE /\ h[6 + l] = QUOTE
    <3>1. 1 \in 1..l + 2 /\ l + 2 \in 1..l + 2 /\ 4 + 1 = 5 /\ 4 + (l + 2) = 6 + l  OBVIOUS
    <3>2. h[4 + 1] = b[1] /\ h[4 + (l + 2)] = b[l + 2]  BY <2>2, <3>1
    <3> QED  BY <1>8, <3>1, <3>2
  <2>4. \A m \in 1..l : h[5 + m] = w[m]
    <3> TAKE m \in 1..l
    <3>1. 1 + m \in 1..l + 2 /\ 4 + (1 + m) = 5 + m  OBVIOUS
    <3>2. h[5 + m] = b[1 + m]  BY <2>2, <3>1
    <3> QED  BY <1>8, <3>2
  <2>5. /\ 0 + 1 = 1 /\ 0 + 2 = 2 /\ 0 + 3 = 3 /\ 0 + 4 = 4 /\ 0 + 5 = 5
        /\ 0 + 6 + l = 6 + l
    OBVIOUS
  <2> QED  BY <2>1, <2>3, <2>4, <2>5 DEF MemberBytes
<1>18. i # 4 => Len(h) = l + 7 /\ h[l + 7] = COMMA
  <2> HAVE i # 4
  <2>1. Len(e) = 1 /\ e[1] = COMMA  BY <1>9
  <2>2. h[l + 6 + 1] = e[1]  BY <1>16, <2>1
  <2> QED  BY <1>16, <2>1, <2>2
<1>19. i = 4 => Len(h) = l + 6  BY <1>9, <1>16
<1>20. l = Len(v[Keys[i]])  BY <1>1, <1>2
<1> QED  BY <1>1, <1>4, <1>13, <1>17, <1>18, <1>19, <1>20

-----------------------------------------------------------------------------
\* q is p and one more member, whose value is of l bytes.
Grown(p, o, v, i, q, l) ==
    /\ q \in Seq(Byte) /\ l \in Nat \ {0} /\ l = Len(v[Keys[i]])
    /\ Begins(p, q)
    /\ MemberBytes(q, o, KeyByte[Keys[i]], v[Keys[i]], l)
    /\ i # 4 => Len(q) = o + 7 + l /\ q[o + 7 + l] = COMMA
    /\ i = 4 => Len(q) = o + 6 + l

\* One more member.
LEMMA MemberAppended ==
    ASSUME NEW v \in [Key -> Seq(Plain) \cup {NoKey}], Present(v), NEW i \in 1..4,
           NEW p \in Seq(Byte), NEW o \in Nat \ {0}, o = Len(p)
    PROVE  \E l : Grown(p, o, v, i, p \o Member(v, i), l)
<1>a. PICK l \in Nat \ {0} :
           /\ l = Len(v[Keys[i]])
           /\ Member(v, i) \in Seq(Byte)
           /\ MemberBytes(Member(v, i), 0, KeyByte[Keys[i]], v[Keys[i]], l)
           /\ i # 4 => Len(Member(v, i)) = l + 7 /\ Member(v, i)[l + 7] = COMMA
           /\ i = 4 => Len(Member(v, i)) = l + 6
  BY MemberIs
<1>b. PICK h \in Seq(Byte) : h = Member(v, i)  BY <1>a
<1>c. PICK k, w : k = KeyByte[Keys[i]] /\ w = v[Keys[i]]  OBVIOUS
<1>1. /\ h = Member(v, i) /\ l = Len(v[Keys[i]]) /\ k = KeyByte[Keys[i]] /\ w = v[Keys[i]]
      /\ MemberBytes(h, 0, k, w, l)
      /\ i # 4 => Len(h) = l + 7 /\ h[l + 7] = COMMA
      /\ i = 4 => Len(h) = l + 6
  BY <1>a, <1>b, <1>c, Zenon
<1>2. p \o h \in Seq(Byte) /\ IsConcat(p \o h, p, h)  BY ConcatIs
<1>3. PICK q \in Seq(Byte) : q = p \o h /\ IsConcat(q, p, h)  BY <1>2
<1>4. PICK n \in Nat : n = Len(h) /\ n >= l + 6
  <2>1. CASE i # 4  BY <1>1, <2>1
  <2>2. CASE i = 4  BY <1>1, <2>2
  <2> QED  BY <2>1, <2>2
<1>5. Len(q) = o + n /\ (\A m \in 1..o : q[m] = p[m]) /\ \A m \in 1..n : q[o + m] = h[m]
  BY <1>3, <1>4 DEF IsConcat
<1>6. Begins(p, q)  BY <1>5 DEF Begins
<1>7. MemberBytes(q, o, k, w, l)
  <2>1. /\ h[1] = QUOTE /\ h[2] = k /\ h[3] = QUOTE /\ h[4] = COLON /\ h[5] = QUOTE
        /\ (\A m \in 1..l : h[5 + m] = w[m]) /\ h[6 + l] = QUOTE
    <3>1. /\ 0 + 1 = 1 /\ 0 + 2 = 2 /\ 0 + 3 = 3 /\ 0 + 4 = 4 /\ 0 + 5 = 5
          /\ 0 + 6 + l = 6 + l
      OBVIOUS
    <3> QED  BY <1>1, <3>1 DEF MemberBytes
  <2>2. 1 \in 1..n /\ 2 \in 1..n /\ 3 \in 1..n /\ 4 \in 1..n /\ 5 \in 1..n /\ 6 + l \in 1..n
    BY <1>4
  <2>3. /\ q[o + 1] = QUOTE /\ q[o + 2] = k /\ q[o + 3] = QUOTE /\ q[o + 4] = COLON
        /\ q[o + 5] = QUOTE
    BY <1>5, <2>1, <2>2
  <2>4. q[o + 6 + l] = QUOTE
    <3>1. o + (6 + l) = o + 6 + l  OBVIOUS
    <3> QED  BY <1>5, <2>1, <2>2, <3>1
  <2>5. \A m \in 1..l : q[o + 5 + m] = w[m]
    <3> TAKE m \in 1..l
    <3>1. 5 + m \in 1..n /\ o + (5 + m) = o + 5 + m  BY <1>4
    <3> QED  BY <1>5, <2>1, <3>1
  <2> QED  BY <2>3, <2>4, <2>5 DEF MemberBytes
<1>8. i # 4 => Len(q) = o + 7 + l /\ q[o + 7 + l] = COMMA
  <2> HAVE i # 4
  <2>1. n = l + 7 /\ h[l + 7] = COMMA  BY <1>1, <1>4
  <2>2. l + 7 \in 1..n /\ o + (l + 7) = o + 7 + l  BY <2>1
  <2>3. q[o + (l + 7)] = h[l + 7]  BY <1>5, <2>2
  <2>4. Len(q) = o + 7 + l  BY <1>5, <2>1
  <2>5. q[o + 7 + l] = COMMA  BY <2>1, <2>2, <2>3, Zenon
  <2> QED  BY <2>4, <2>5, Zenon
<1>9. i = 4 => Len(q) = o + 6 + l
  <2> HAVE i = 4
  <2>1. n = l + 6  BY <1>1, <1>4
  <2> QED  BY <1>5, <2>1
<1>10. Grown(p, o, v, i, q, l)
  BY <1>1, <1>3, <1>6, <1>7, <1>8, <1>9, Zenon DEF Grown
<1> QED  BY <1>1, <1>3, <1>10, Zenon

\* What comes behind leaves a member where it is.
LEMMA MemberStays ==
    ASSUME NEW p, NEW q, Begins(p, q), NEW o \in Nat, NEW l \in Nat, Len(p) \in Nat,
           o + 6 + l <= Len(p), NEW k, NEW w, MemberBytes(p, o, k, w, l)
    PROVE  MemberBytes(q, o, k, w, l)
<1>1. \A m \in 1..Len(p) : q[m] = p[m]  BY DEF Begins
<1>2. /\ o + 1 \in 1..Len(p) /\ o + 2 \in 1..Len(p) /\ o + 3 \in 1..Len(p)
      /\ o + 4 \in 1..Len(p) /\ o + 5 \in 1..Len(p) /\ o + 6 + l \in 1..Len(p)
      /\ \A m \in 1..l : o + 5 + m \in 1..Len(p)
  OBVIOUS
<1>3. /\ p[o + 1] = QUOTE /\ p[o + 2] = k /\ p[o + 3] = QUOTE /\ p[o + 4] = COLON
      /\ p[o + 5] = QUOTE /\ (\A m \in 1..l : p[o + 5 + m] = w[m]) /\ p[o + 6 + l] = QUOTE
  BY DEF MemberBytes
<1>4. /\ q[o + 1] = QUOTE /\ q[o + 2] = k /\ q[o + 3] = QUOTE /\ q[o + 4] = COLON
      /\ q[o + 5] = QUOTE /\ q[o + 6 + l] = QUOTE
  BY <1>1, <1>2, <1>3
<1>5. \A m \in 1..l : q[o + 5 + m] = w[m]  BY <1>1, <1>2, <1>3
<1> QED  BY <1>4, <1>5 DEF MemberBytes

\* Texts that begin with each other.
LEMMA BeginsOn ==
    ASSUME NEW p, NEW q, NEW r, Begins(p, q), Begins(q, r), Len(p) \in Nat, Len(q) \in Nat,
           Len(r) \in Nat
    PROVE  Begins(p, r)
BY DEF Begins

\* The keys are different bytes, none of them a mark.
LEMMA KeyBytes ==
    /\ \A i \in 1..4 : KeyByte[Keys[i]] \in {121, 105, 113, 112}
    /\ \A i \in 1..4, j \in 1..4 : KeyByte[Keys[i]] = KeyByte[Keys[j]] => i = j
<1>1. Keys[1] = "symbol" /\ Keys[2] = "side" /\ Keys[3] = "qty" /\ Keys[4] = "price"  BY DEF Keys
<1>2. /\ KeyByte["symbol"] = 121 /\ KeyByte["side"] = 105 /\ KeyByte["qty"] = 113
      /\ KeyByte["price"] = 112
  BY DEF KeyByte
<1>3. \A i \in 1..4 : i = 1 \/ i = 2 \/ i = 3 \/ i = 4  OBVIOUS
<1>4. /\ KeyByte[Keys[1]] = 121 /\ KeyByte[Keys[2]] = 105 /\ KeyByte[Keys[3]] = 113
      /\ KeyByte[Keys[4]] = 112
  BY <1>1, <1>2
<1> QED  BY <1>3, <1>4

-----------------------------------------------------------------------------
\* A value that is present.
LEMMA ValueIs ==
    ASSUME NEW v, Present(v), NEW i \in 1..4
    PROVE  v[Keys[i]] \in Seq(Plain) /\ v[Keys[i]][1] # SPACE
BY DEF Present

\* A member is there in the whole object.
LEMMA GrownStays ==
    ASSUME NEW v, Present(v), NEW i \in 1..4, NEW p, NEW o \in Nat, NEW q, NEW l,
           Grown(p, o, v, i, q, l), NEW r \in Seq(Byte), Begins(q, r),
           i = 4 => Len(r) = o + 7 + l /\ r[o + 7 + l] = CLOSE
    PROVE  MemberAt(r, o, KeyByte[Keys[i]], v[Keys[i]], l)
<1>1. /\ q \in Seq(Byte) /\ l \in Nat \ {0} /\ l = Len(v[Keys[i]])
      /\ MemberBytes(q, o, KeyByte[Keys[i]], v[Keys[i]], l)
      /\ i # 4 => Len(q) = o + 7 + l /\ q[o + 7 + l] = COMMA
      /\ i = 4 => Len(q) = o + 6 + l
  BY Zenon DEF Grown
<1>2. PICK n \in Nat : n = Len(q) /\ n >= o + 6 + l /\ n <= Len(r)
  <2>1. Len(q) >= o + 6 + l  BY <1>1
  <2>2. Len(q) \in Nat  BY <1>1
  <2> QED  BY <2>1, <2>2 DEF Begins
<1>3. MemberBytes(r, o, KeyByte[Keys[i]], v[Keys[i]], l)
  BY <1>1, <1>2, MemberStays
<1>4. r[o + 7 + l] \in {COMMA, CLOSE} /\ o + 7 + l <= Len(r)
  <2>1. CASE i = 4
    <3>1. Len(r) = o + 7 + l /\ r[o + 7 + l] = CLOSE  BY <2>1
    <3>2. o + 7 + l <= Len(r)  BY <1>1, <3>1
    <3> QED  BY <3>1, <3>2
  <2>2. CASE i # 4
    <3>1. n = o + 7 + l /\ q[o + 7 + l] = COMMA  BY <1>1, <1>2, <2>2
    <3>2. r[n] = q[n]
      <4>1. n \in 1..Len(q)  BY <1>1, <1>2, <3>1
      <4> QED  BY <4>1 DEF Begins
    <3> QED  BY <1>2, <3>1, <3>2
  <2> QED  BY <2>1, <2>2
<1>5. v[Keys[i]] \in Seq(Plain) /\ v[Keys[i]][1] # SPACE  BY ValueIs
<1>6. KeyByte[Keys[i]] \in {121, 105, 113, 112}  BY KeyBytes
<1> QED  BY <1>1, <1>3, <1>4, <1>5, <1>6 DEF MemberAt

\* What is posted for an order that has a value for each key.
LEMMA PostedIs ==
    ASSUME NEW v \in [Key -> Seq(Plain) \cup {NoKey}], Present(v)
    PROVE  \E o : Posted(Stringify(v), v, o)
<1>1. PICK p \in Seq(Byte) : p = <<OPEN>> /\ Len(p) = 1 /\ p[1] = OPEN
  <2>1. OPEN \in Byte  BY Marks
  <2>2. <<OPEN>> \in Seq(Byte) /\ Len(<<OPEN>>) = 1  BY <2>1, Small
  <2> QED  BY <2>2
<1>2. PICK q1 \in Seq(Byte), l1 \in Nat \ {0} : q1 = p \o Member(v, 1) /\ Grown(p, 1, v, 1, q1, l1)
  <2>0. 1 \in 1..4 /\ 1 \in Nat \ {0}  OBVIOUS
  <2>1. \E l : Grown(p, 1, v, 1, p \o Member(v, 1), l)  BY <2>0, <1>1, MemberAppended
  <2> QED  BY <2>1 DEF Grown
<1>3. PICK o1 \in Nat \ {0} : o1 = 8 + l1 /\ o1 = Len(q1)
  <2>1. Len(q1) = 1 + 7 + l1  BY <1>2 DEF Grown
  <2> QED  BY <2>1
<1>4. PICK q2 \in Seq(Byte), l2 \in Nat \ {0} : q2 = q1 \o Member(v, 2) /\ Grown(q1, o1, v, 2, q2, l2)
  <2>0. 2 \in 1..4 /\ q1 \in Seq(Byte) /\ o1 \in Nat \ {0} /\ o1 = Len(q1)  BY <1>2, <1>3
  <2>1. \E l : Grown(q1, o1, v, 2, q1 \o Member(v, 2), l)  BY <2>0, MemberAppended
  <2> QED  BY <2>1 DEF Grown
<1>5. PICK o2 \in Nat \ {0} : o2 = o1 + 7 + l2 /\ o2 = Len(q2)
  <2>1. Len(q2) = o1 + 7 + l2  BY <1>4 DEF Grown
  <2> QED  BY <2>1
<1>6. PICK q3 \in Seq(Byte), l3 \in Nat \ {0} : q3 = q2 \o Member(v, 3) /\ Grown(q2, o2, v, 3, q3, l3)
  <2>0. 3 \in 1..4 /\ 1 \in Nat \ {0}  OBVIOUS
  <2>1. \E l : Grown(q2, o2, v, 3, q2 \o Member(v, 3), l)  BY <2>0, <1>5, MemberAppended
  <2> QED  BY <2>1 DEF Grown
<1>7. PICK o3 \in Nat \ {0} : o3 = o2 + 7 + l3 /\ o3 = Len(q3)
  <2>1. Len(q3) = o2 + 7 + l3  BY <1>6 DEF Grown
  <2> QED  BY <2>1
<1>8. PICK q4 \in Seq(Byte), l4 \in Nat \ {0} : q4 = q3 \o Member(v, 4) /\ Grown(q3, o3, v, 4, q4, l4)
  <2>0. 4 \in 1..4 /\ 1 \in Nat \ {0}  OBVIOUS
  <2>1. \E l : Grown(q3, o3, v, 4, q3 \o Member(v, 4), l)  BY <2>0, <1>7, MemberAppended
  <2> QED  BY <2>1 DEF Grown
<1>9. Len(q4) = o3 + 6 + l4  BY <1>8 DEF Grown
<1>10. PICK c \in Seq(Byte) : c = <<CLOSE>> /\ Len(c) = 1 /\ c[1] = CLOSE
  <2>1. CLOSE \in Byte  BY Marks
  <2>2. <<CLOSE>> \in Seq(Byte) /\ Len(<<CLOSE>>) = 1  BY <2>1, Small
  <2> QED  BY <2>2
<1>11. PICK r \in Seq(Byte) : r = q4 \o c /\ IsConcat(r, q4, c)
  <2>1. q4 \o c \in Seq(Byte) /\ IsConcat(q4 \o c, q4, c)  BY <1>10, ConcatIs
  <2> QED  BY <2>1
<1>12. PICK o4 \in Nat : o4 = o3 + 7 + l4 /\ o4 = Len(r) /\ r[o4] = CLOSE
  <2>1. /\ Len(r) = (o3 + 6 + l4) + 1
        /\ r[(o3 + 6 + l4) + 1] = c[1]
    BY <1>9, <1>10, <1>11 DEF IsConcat
  <2> QED  BY <1>10, <2>1
<1>13. Begins(q4, r)
  <2>1. \A m \in 1..Len(q4) : r[m] = q4[m]  BY <1>11 DEF IsConcat
  <2>2. Len(q4) <= Len(r)  BY <1>9, <1>12
  <2> QED  BY <2>1, <2>2 DEF Begins
<1>14. Begins(p, q1) /\ Begins(q1, q2) /\ Begins(q2, q3) /\ Begins(q3, q4)
  BY <1>2, <1>4, <1>6, <1>8 DEF Grown
<1>15. /\ Len(p) \in Nat /\ Len(q1) \in Nat /\ Len(q2) \in Nat /\ Len(q3) \in Nat
       /\ Len(q4) \in Nat /\ Len(r) \in Nat
  OBVIOUS
<1>16. Begins(q3, r)  BY <1>13, <1>14, <1>15, BeginsOn
<1>17. Begins(q2, r)  BY <1>14, <1>15, <1>16, BeginsOn
<1>18. Begins(q1, r)  BY <1>14, <1>15, <1>17, BeginsOn
<1>19. Begins(p, r)  BY <1>14, <1>15, <1>18, BeginsOn
<1>20. r[1] = OPEN
  <2>1. 1 \in 1..Len(p)  BY <1>1
  <2> QED  BY <1>1, <1>19, <2>1 DEF Begins
<1>21. /\ MemberAt(r, 1, KeyByte[Keys[1]], v[Keys[1]], l1)
       /\ MemberAt(r, o1, KeyByte[Keys[2]], v[Keys[2]], l2)
       /\ MemberAt(r, o2, KeyByte[Keys[3]], v[Keys[3]], l3)
  <2>1. /\ 1 \in 1..4 /\ 1 \in Nat /\ 1 # 4 /\ 2 \in 1..4 /\ 2 # 4 /\ 3 \in 1..4 /\ 3 # 4
    OBVIOUS
  <2>2. MemberAt(r, 1, KeyByte[Keys[1]], v[Keys[1]], l1)
    BY <2>1, <1>2, <1>18, GrownStays, Zenon
  <2>3. MemberAt(r, o1, KeyByte[Keys[2]], v[Keys[2]], l2)
    BY <2>1, <1>3, <1>4, <1>17, GrownStays
  <2>4. MemberAt(r, o2, KeyByte[Keys[3]], v[Keys[3]], l3)
    BY <2>1, <1>5, <1>6, <1>16, GrownStays
  <2> QED  BY <2>2, <2>3, <2>4
<1>24. MemberAt(r, o3, KeyByte[Keys[4]], v[Keys[4]], l4)
  <2>1. 4 \in 1..4 /\ Len(r) = o3 + 7 + l4 /\ r[o3 + 7 + l4] = CLOSE  BY <1>12
  <2> QED  BY <2>1, <1>7, <1>8, <1>13, GrownStays
<1>25. /\ l1 = Len(v[Keys[1]]) /\ l2 = Len(v[Keys[2]]) /\ l3 = Len(v[Keys[3]])
       /\ l4 = Len(v[Keys[4]])
  BY <1>2, <1>4, <1>6, <1>8 DEF Grown
<1>26. PICK o : o[0] = 1 /\ o[1] = o1 /\ o[2] = o2 /\ o[3] = o3 /\ o[4] = o4
  <2> DEFINE f == [i \in 0..4 |-> IF i = 0 THEN 1 ELSE IF i = 1 THEN o1
                                  ELSE IF i = 2 THEN o2 ELSE IF i = 3 THEN o3 ELSE o4]
  <2>1. f[0] = 1 /\ f[1] = o1 /\ f[2] = o2 /\ f[3] = o3 /\ f[4] = o4  OBVIOUS
  <2> HIDE DEF f
  <2> QED  BY <2>1
<1>27. \A i \in 1..4 :
         /\ o[i] = o[i - 1] + 7 + Len(v[Keys[i]])
         /\ MemberAt(r, o[i - 1], KeyByte[Keys[i]], v[Keys[i]], Len(v[Keys[i]]))
  <2> TAKE i \in 1..4
  <2>1. i = 1 \/ i = 2 \/ i = 3 \/ i = 4  OBVIOUS
  <2>2. 1 - 1 = 0 /\ 2 - 1 = 1 /\ 3 - 1 = 2 /\ 4 - 1 = 3  OBVIOUS
  <2>3. CASE i = 1
    <3>1. o[1] = o[0] + 7 + Len(v[Keys[1]])
      <4>1. o1 = 1 + 7 + l1  BY <1>3
      <4> QED  BY <1>25, <1>26, <4>1
    <3>2. MemberAt(r, o[0], KeyByte[Keys[1]], v[Keys[1]], Len(v[Keys[1]]))
      BY <1>21, <1>25, <1>26, Zenon
    <3> QED  BY <2>2, <2>3, <3>1, <3>2
  <2>4. CASE i = 2  BY <1>5, <1>21, <1>25, <1>26, <2>2, <2>4
  <2>5. CASE i = 3  BY <1>7, <1>21, <1>25, <1>26, <2>2, <2>5
  <2>6. CASE i = 4  BY <1>12, <1>24, <1>25, <1>26, <2>2, <2>6
  <2> QED  BY <2>1, <2>3, <2>4, <2>5, <2>6
<1>28. Stringify(v) = r
  <2>1. Stringify(v) =
          ((((<<OPEN>> \o Member(v, 1)) \o Member(v, 2)) \o Member(v, 3)) \o Member(v, 4)) \o <<CLOSE>>
    BY DEF Stringify
  <2> QED  BY <1>1, <1>2, <1>4, <1>6, <1>8, <1>10, <1>11, <2>1, Zenon
<1>29. Posted(r, v, o)  BY <1>12, <1>20, <1>26, <1>27 DEF Posted
<1> QED  BY <1>28, <1>29

-----------------------------------------------------------------------------
(***************************************************************************)
(* Where a key is found in a request, and what is taken for its value.     *)
(***************************************************************************)
\* The marks are no key bytes, and no byte that is typed is a quote.
LEMMA MarksAre ==
    /\ QUOTE = 34 /\ COMMA = 44 /\ COLON = 58 /\ OPEN = 123 /\ CLOSE = 125 /\ SPACE = 32
    /\ \A b \in Plain : b \in Nat /\ b # 34
BY DEF QUOTE, COMMA, COLON, OPEN, CLOSE, SPACE, Plain

\* Three bytes of a member that look like a key are its key or its value.
LEMMA HitInMember ==
    ASSUME NEW json, NEW p \in Nat, NEW k, NEW w, NEW l, MemberAt(json, p, k, w, l),
           NEW x \in p + 1..p + 7 + l, NEW c \in {121, 105, 113, 112},
           json[x] = QUOTE, json[x + 1] = c, json[x + 2] = QUOTE
    PROVE  \/ x = p + 1 /\ c = k
           \/ x = p + 5 /\ l = 1 /\ w[1] = c
<1>1. /\ l \in Nat \ {0} /\ l = Len(w) /\ w \in Seq(Plain) /\ k \in {121, 105, 113, 112}
      /\ MemberBytes(json, p, k, w, l) /\ json[p + 7 + l] \in {COMMA, CLOSE}
  BY DEF MemberAt
<1>2. /\ json[p + 1] = QUOTE /\ json[p + 2] = k /\ json[p + 3] = QUOTE
      /\ json[p + 4] = COLON /\ json[p + 5] = QUOTE
      /\ (\A m \in 1..l : json[p + 5 + m] = w[m])
      /\ json[p + 6 + l] = QUOTE
  BY <1>1 DEF MemberBytes
<1>3. \A m \in 1..l : w[m] \in Nat /\ w[m] # 34
  <2> TAKE m \in 1..l
  <2>1. w[m] \in Plain  BY <1>1, ElementOfSeq
  <2> QED  BY <2>1, MarksAre
<1>4. CASE x = p + 1
  <2>1. x + 1 = p + 2  BY <1>4
  <2> QED  BY <1>2, <1>4, <2>1
<1>5. CASE x = p + 2
  BY <1>1, <1>2, <1>5, MarksAre
<1>6. CASE x = p + 3
  <2>1. x + 1 = p + 4  BY <1>6
  <2> QED  BY <1>2, <2>1, MarksAre
<1>7. CASE x = p + 4
  BY <1>2, <1>7, MarksAre
<1>8. CASE x = p + 5
  <2>1. x + 1 = p + 5 + 1 /\ x + 2 = p + 5 + 2 /\ 1 \in 1..l  BY <1>1, <1>8
  <2>2. w[1] = c  BY <1>2, <2>1
  <2>3. l = 1
    <3> SUFFICES ASSUME l # 1 PROVE FALSE
      OBVIOUS
    <3>1. 2 \in 1..l  BY <1>1
    <3>2. json[p + 5 + 2] = w[2]  BY <1>2, <3>1
    <3> QED  BY <1>3, <2>1, <3>1, <3>2, MarksAre
  <2> QED  BY <1>8, <2>2, <2>3
<1>9. CASE x > p + 5 /\ x <= p + 5 + l
  <2>1. PICK m \in 1..l : x = p + 5 + m
    <3>1. x - (p + 5) \in 1..l /\ x = p + 5 + (x - (p + 5))  BY <1>1, <1>9
    <3> QED  BY <3>1
  <2>2. json[x] = w[m]  BY <1>2, <2>1
  <2>3. w[m] # 34  BY <1>3
  <2>4. json[x] = 34  BY MarksAre
  <2> QED  BY <2>2, <2>3, <2>4
<1>10. CASE x = p + 6 + l
  <2>1. x + 1 = p + 7 + l  BY <1>1, <1>10
  <2> QED  BY <1>1, <2>1, MarksAre
<1>11. CASE x = p + 7 + l
  BY <1>1, <1>11, MarksAre
<1>12. x \in Nat /\ x >= p + 1 /\ x <= p + 7 + l /\ l \in Nat  BY <1>1
<1> QED  BY <1>4, <1>5, <1>6, <1>7, <1>8, <1>9, <1>10, <1>11, <1>12

\* One of the members, from p to q.
Between(json, p, v, i, q) ==
    /\ Len(v[Keys[i]]) \in Nat \ {0}
    /\ q = p + 7 + Len(v[Keys[i]])
    /\ MemberAt(json, p, KeyByte[Keys[i]], v[Keys[i]], Len(v[Keys[i]]))

\* It is there.
LEMMA MemberOf ==
    ASSUME NEW json, NEW v, NEW o, Posted(json, v, o), NEW i \in 1..4
    PROVE  Between(json, o[i - 1], v, i, o[i])
<1>1. /\ o[i] = o[i - 1] + 7 + Len(v[Keys[i]])
      /\ MemberAt(json, o[i - 1], KeyByte[Keys[i]], v[Keys[i]], Len(v[Keys[i]]))
  BY DEF Posted
<1>2. Len(v[Keys[i]]) \in Nat \ {0}  BY <1>1 DEF MemberAt
<1> QED  BY <1>1, <1>2 DEF Between

\* The members, one after the other.
LEMMA PlacesAre ==
    ASSUME NEW json, NEW v, NEW o, Posted(json, v, o)
    PROVE  /\ \A i \in 0..4 : o[i] \in Nat \ {0}
           /\ \A i \in 0..4, j \in 0..4 : i < j => o[i] + 8 <= o[j]
           /\ o[0] = 1 /\ o[4] = Len(json)
<1>1. /\ o[0] = 1 /\ o[4] = Len(json)
      /\ \A i \in 1..4 :
           /\ o[i] = o[i - 1] + 7 + Len(v[Keys[i]])
           /\ MemberAt(json, o[i - 1], KeyByte[Keys[i]], v[Keys[i]], Len(v[Keys[i]]))
  BY DEF Posted
<1>2. \A i \in 1..4 : Len(v[Keys[i]]) \in Nat \ {0}  BY <1>1 DEF MemberAt
<1>3. PICK l1, l2, l3, l4 :
         /\ l1 = Len(v[Keys[1]]) /\ l2 = Len(v[Keys[2]]) /\ l3 = Len(v[Keys[3]])
         /\ l4 = Len(v[Keys[4]])
  OBVIOUS
<1>0. l1 \in Nat \ {0} /\ l2 \in Nat \ {0} /\ l3 \in Nat \ {0} /\ l4 \in Nat \ {0}
  <2>1. 1 \in 1..4 /\ 2 \in 1..4 /\ 3 \in 1..4 /\ 4 \in 1..4  OBVIOUS
  <2> QED  BY <1>2, <1>3, <2>1
<1>4. o[1] = o[0] + 7 + l1 /\ o[2] = o[1] + 7 + l2 /\ o[3] = o[2] + 7 + l3 /\ o[4] = o[3] + 7 + l4
  <2>1. o[1] = o[1 - 1] + 7 + l1 /\ o[2] = o[2 - 1] + 7 + l2 /\ o[3] = o[3 - 1] + 7 + l3
        /\ o[4] = o[4 - 1] + 7 + l4
    BY <1>1, <1>3
  <2> QED  BY <2>1
<1>5. PICK o1, o2, o3, o4 : o[1] = o1 /\ o[2] = o2 /\ o[3] = o3 /\ o[4] = o4
  OBVIOUS
<1>9. /\ o1 = 1 + 7 + l1 /\ o2 = o1 + 7 + l2 /\ o3 = o2 + 7 + l3 /\ o4 = o3 + 7 + l4
      /\ o1 \in Nat /\ o2 \in Nat /\ o3 \in Nat /\ o4 \in Nat
  <2>1. o1 = 1 + 7 + l1 /\ o1 \in Nat
    <3>1. o1 = 1 + 7 + l1  BY <1>1, <1>4, <1>5, Zenon
    <3> QED  BY <1>0, <3>1
  <2>2. o2 = o1 + 7 + l2 /\ o2 \in Nat  BY <1>0, <1>4, <1>5, <2>1
  <2>3. o3 = o2 + 7 + l3 /\ o3 \in Nat  BY <1>0, <1>4, <1>5, <2>2
  <2>4. o4 = o3 + 7 + l4 /\ o4 \in Nat  BY <1>0, <1>4, <1>5, <2>3
  <2> QED  BY <2>1, <2>2, <2>3, <2>4
<1>6. \A i \in 0..4 : i = 0 \/ i = 1 \/ i = 2 \/ i = 3 \/ i = 4  OBVIOUS
<1>7. \A i \in 0..4 : o[i] \in Nat \ {0}
  <2>1. /\ o[0] \in Nat \ {0} /\ o[1] \in Nat \ {0} /\ o[2] \in Nat \ {0} /\ o[3] \in Nat \ {0}
        /\ o[4] \in Nat \ {0}
    <3>1. o1 # 0 /\ o2 # 0 /\ o3 # 0 /\ o4 # 0  BY <1>0, <1>9
    <3> QED  BY <1>1, <1>5, <1>9, <3>1
  <2> QED  BY <1>6, <2>1
<1>8. \A i \in 0..4, j \in 0..4 : i < j => o[i] + 8 <= o[j]
  <2>1. /\ 1 + 8 <= o1 /\ 1 + 8 <= o2 /\ 1 + 8 <= o3 /\ 1 + 8 <= o4
        /\ o1 + 8 <= o2 /\ o1 + 8 <= o3 /\ o1 + 8 <= o4
        /\ o2 + 8 <= o3 /\ o2 + 8 <= o4 /\ o3 + 8 <= o4
    BY <1>0, <1>9
  <2> TAKE i \in 0..4, j \in 0..4
  <2> HAVE i < j
  <2>2. CASE i = 0
    <3>1. j = 1 \/ j = 2 \/ j = 3 \/ j = 4  BY <2>2
    <3> QED  BY <1>1, <1>5, <2>1, <2>2, <3>1
  <2>3. CASE i = 1
    <3>1. j = 2 \/ j = 3 \/ j = 4  BY <2>3
    <3> QED  BY <1>5, <2>1, <2>3, <3>1
  <2>4. CASE i = 2
    <3>1. j = 3 \/ j = 4  BY <2>4
    <3> QED  BY <1>5, <2>1, <2>4, <3>1
  <2>5. CASE i = 3 /\ j = 4  BY <1>5, <2>1, <2>5
  <2>6. i = 0 \/ i = 1 \/ i = 2 \/ (i = 3 /\ j = 4)  OBVIOUS
  <2> QED  BY <2>2, <2>3, <2>4, <2>5, <2>6
<1> QED  BY <1>1, <1>2, <1>7, <1>8

\* Where three bytes of what is posted look like a key.
LEMMA HitPlaces ==
    ASSUME NEW json, NEW v, NEW o, Posted(json, v, o), NEW j \in 1..4, NEW x \in 1..Len(json),
           json[x] = QUOTE, json[x + 1] = KeyByte[Keys[j]], json[x + 2] = QUOTE
    PROVE  \/ x = o[j - 1] + 1
           \/ \E i \in 1..4 : x = o[i - 1] + 5 /\ v[Keys[i]] = <<KeyByte[Keys[j]]>>
<1>1. PICK c \in {121, 105, 113, 112} : c = KeyByte[Keys[j]]  BY KeyBytes
<1>2. x # 1
  <2>1. json[1] = OPEN  BY Zenon DEF Posted
  <2> QED  BY <2>1, MarksAre
<1>3. PICK i \in 1..4 : x \in o[i - 1] + 1..o[i]
  <2>1. \A i \in 0..4 : o[i] \in Nat \ {0}  BY PlacesAre
  <2>2. o[0] = 1 /\ o[4] = Len(json)  BY PlacesAre
  <2>3. o[0] \in Nat /\ o[1] \in Nat /\ o[2] \in Nat /\ o[3] \in Nat /\ o[4] \in Nat  BY <2>1
  <2>4. \/ x \in o[0] + 1..o[1] \/ x \in o[1] + 1..o[2] \/ x \in o[2] + 1..o[3]
        \/ x \in o[3] + 1..o[4]
    BY <1>2, <2>2, <2>3, SMTT(40)
  <2>5. 1 - 1 = 0 /\ 2 - 1 = 1 /\ 3 - 1 = 2 /\ 4 - 1 = 3
        /\ 1 \in 1..4 /\ 2 \in 1..4 /\ 3 \in 1..4 /\ 4 \in 1..4
    OBVIOUS
  <2>6. CASE x \in o[0] + 1..o[1]  BY <2>5, <2>6
  <2>7. CASE x \in o[1] + 1..o[2]  BY <2>5, <2>7
  <2>8. CASE x \in o[2] + 1..o[3]  BY <2>5, <2>8
  <2>9. CASE x \in o[3] + 1..o[4]  BY <2>5, <2>9
  <2> QED  BY <2>4, <2>6, <2>7, <2>8, <2>9
<1>0. PICK l, p, w, k :
         l = Len(v[Keys[i]]) /\ p = o[i - 1] /\ w = v[Keys[i]] /\ k = KeyByte[Keys[i]]
  OBVIOUS
<1>4. l \in Nat \ {0} /\ p \in Nat \ {0} /\ o[i] = p + 7 + l /\ MemberAt(json, p, k, w, l)
  <2>1. i - 1 \in 0..4  OBVIOUS
  <2>2. o[i - 1] \in Nat \ {0}  BY <2>1, PlacesAre
  <2>3. Between(json, o[i - 1], v, i, o[i])  BY MemberOf
  <2> QED  BY <1>0, <2>2, <2>3, Zenon DEF Between
<1>5. x \in p + 1..p + 7 + l
  <2>1. x \in p + 1..o[i]  BY <1>0, <1>3
  <2> QED  BY <1>4, <2>1
<1>6. (x = p + 1 /\ c = k) \/ (x = p + 5 /\ l = 1 /\ w[1] = c)
  <2>1. json[x] = QUOTE /\ json[x + 1] = c /\ json[x + 2] = QUOTE  BY <1>1
  <2> QED  BY <1>4, <1>5, <2>1, HitInMember, SMTT(40)
<1>7. CASE x = p + 1 /\ c = k
  <2>1. i = j
    <3>1. KeyByte[Keys[i]] = KeyByte[Keys[j]]  BY <1>0, <1>1, <1>7
    <3> QED  BY <3>1, KeyBytes
  <2> QED  BY <1>0, <1>4, <1>7, <2>1
<1>8. CASE x = p + 5 /\ l = 1 /\ w[1] = c
  <2>1. w \in Seq(Plain) /\ Len(w) = 1  BY <1>4, <1>8 DEF MemberAt
  <2>2. w = <<c>>
    <3>1. 1 \in 1..Len(w)  BY <2>1
    <3>2. w[1] \in Plain  BY <2>1, <3>1, ElementOfSeq
    <3>3. PICK s \in Seq(Plain) : s = <<c>> /\ Len(s) = 1 /\ s[1] = c
      <4>1. c \in Plain  BY <1>8, <3>2
      <4>2. <<c>> \in Seq(Plain) /\ Len(<<c>>) = 1 /\ <<c>>[1] = c  BY <4>1
      <4> QED  BY <4>2
    <3>4. \A h \in 1..Len(w) : w[h] = s[h]  BY <1>8, <2>1, <3>3
    <3> QED  BY <2>1, <3>3, <3>4, SeqEqual
  <2> QED  BY <1>1, <1>0, <1>4, <1>8, <2>2
<1> QED  BY <1>6, <1>7, <1>8

\* What extract_json_field looks for, a key byte between two quotes, and where it is.
Hit(json, x, c) == json[x] = QUOTE /\ json[x + 1] = c /\ json[x + 2] = QUOTE
AtKey(v, o, x, j, c) ==
    \/ x = o[j - 1] + 1
    \/ \E i \in 1..4 : x = o[i - 1] + 5 /\ v[Keys[i]] = <<c>>

\* The same, said with these.
LEMMA HitIs ==
    ASSUME NEW json, NEW v, NEW o, Posted(json, v, o), NEW j \in 1..4, NEW x \in 1..Len(json),
           NEW c, c = KeyByte[Keys[j]], Hit(json, x, c)
    PROVE  AtKey(v, o, x, j, c)
<1>1. json[x] = QUOTE /\ json[x + 1] = KeyByte[Keys[j]] /\ json[x + 2] = QUOTE  BY Zenon DEF Hit
<1>2. \/ x = o[j - 1] + 1
      \/ \E i \in 1..4 : x = o[i - 1] + 5 /\ v[Keys[i]] = <<KeyByte[Keys[j]]>>
  BY <1>1, HitPlaces
<1> QED  BY <1>2, Zenon DEF AtKey

-----------------------------------------------------------------------------
\* Where it can be found.
LEMMA FoundKey ==
    ASSUME NEW json, Len(json) \in Nat, NEW c \in Byte
    PROVE  /\ Len(Quoted(<<c>>)) \in Nat
           /\ \A x : x \in Found(Quoted(<<c>>), json, 1) <=> x \in 1..Len(json) - 2 /\ Hit(json, x, c)
<1>1. PICK s \in Seq(Byte) : s = <<c>> /\ Len(s) = 1 /\ s[1] = c
  <2>1. <<c>> \in Seq(Byte) /\ Len(<<c>>) = 1  BY Small
  <2> QED  BY <2>1
<1>2. PICK p : p = Quoted(s)  OBVIOUS
<1>3. Len(p) = 3 /\ p[1] = QUOTE /\ p[2] = c /\ p[3] = QUOTE
  <2>1. /\ Quoted(s) \in Seq(Byte) /\ Len(Quoted(s)) = 1 + 2
        /\ Quoted(s)[1] = QUOTE /\ Quoted(s)[1 + 2] = QUOTE
        /\ \A m \in 1..1 : Quoted(s)[1 + m] = s[m]
    BY <1>1, QuotedIs
  <2>2. Quoted(s)[2] = s[1]  BY <2>1
  <2> QED  BY <1>1, <1>2, <2>1, <2>2
<1>4. \A j : j \in 1..3 <=> j \in {1, 2, 3}  OBVIOUS
<1>5. \A x : x \in Found(p, json, 1) <=> x \in 1..Len(json) - 2 /\ Hit(json, x, c)
  <2> TAKE x
  <2>1. x \in Found(p, json, 1) <=>
          x \in 1..(Len(json) - 3 + 1) /\ \A j \in 1..3 : json[x + j - 1] = p[j]
    BY <1>3 DEF Found
  <2>2. x \in 1..(Len(json) - 3 + 1) <=> x \in 1..Len(json) - 2  OBVIOUS
  <2>3. ASSUME x \in Int
        PROVE  (\A j \in 1..3 : json[x + j - 1] = p[j]) <=>
               json[x] = p[1] /\ json[x + 1] = p[2] /\ json[x + 2] = p[3]
    <3>1. x + 1 - 1 = x /\ x + 2 - 1 = x + 1 /\ x + 3 - 1 = x + 2  BY <2>3
    <3> QED  BY <3>1, <1>4
  <2>4. x \in 1..Len(json) - 2 => x \in Int  OBVIOUS
  <2>5. Hit(json, x, c) <=> json[x] = p[1] /\ json[x + 1] = p[2] /\ json[x + 2] = p[3]
    BY <1>3 DEF Hit
  <2> QED  BY <2>1, <2>2, <2>3, <2>4, <2>5
<1> QED  BY <1>1, <1>2, <1>3, <1>5

\* The bytes of a member.
LEMMA MemberReads ==
    ASSUME NEW json, NEW v, NEW o, Posted(json, v, o), NEW i \in 1..4
    PROVE  \E p \in Nat \ {0}, l \in Nat \ {0} :
             /\ p = o[i - 1] /\ l = Len(v[Keys[i]]) /\ o[i] = p + 7 + l
             /\ o[i] <= Len(json)
             /\ v[Keys[i]] \in Seq(Plain) /\ v[Keys[i]][1] # SPACE
             /\ MemberBytes(json, p, KeyByte[Keys[i]], v[Keys[i]], l)
<1>1. PICK p, l : p = o[i - 1] /\ l = Len(v[Keys[i]])  OBVIOUS
<1>2. l \in Nat \ {0} /\ o[i] = p + 7 + l /\ MemberAt(json, p, KeyByte[Keys[i]], v[Keys[i]], l)
  BY <1>1, MemberOf DEF Between
<1>3. p \in Nat \ {0}
  <2>1. i - 1 \in 0..4  OBVIOUS
  <2> QED  BY <1>1, <2>1, PlacesAre
<1>4. /\ p + 7 + l <= Len(json)
      /\ v[Keys[i]] \in Seq(Plain) /\ v[Keys[i]][1] # SPACE
      /\ MemberBytes(json, p, KeyByte[Keys[i]], v[Keys[i]], l)
  BY <1>2 DEF MemberAt
<1> QED  BY <1>1, <1>2, <1>3, <1>4

\* What stands behind it.
LEMMA MemberEnds ==
    ASSUME NEW json, NEW v, NEW o, Posted(json, v, o), NEW i \in 1..4,
           NEW p, p = o[i - 1], NEW l, l = Len(v[Keys[i]])
    PROVE  json[p + 7 + l] \in {COMMA, CLOSE}
BY MemberOf DEF Between, MemberAt

\* A key is found where its member is, and in a value of that one byte.
LEMMA Hits ==
    ASSUME NEW json, NEW v, NEW o, Posted(json, v, o), NEW i \in 1..4
    PROVE  /\ o[i - 1] + 1 \in 1..Len(json) - 2 /\ Hit(json, o[i - 1] + 1, KeyByte[Keys[i]])
           /\ \A c : v[Keys[i]] = <<c>> =>
                 o[i - 1] + 5 \in 1..Len(json) - 2 /\ Hit(json, o[i - 1] + 5, c)
<1>1. PICK p \in Nat \ {0}, l \in Nat \ {0} :
             /\ p = o[i - 1] /\ l = Len(v[Keys[i]]) /\ o[i] = p + 7 + l
             /\ o[i] <= Len(json)
             /\ MemberBytes(json, p, KeyByte[Keys[i]], v[Keys[i]], l)
  BY MemberReads
<1>2. PICK n \in Nat : n = Len(json) /\ p + 7 + l <= n
  <2>1. Len(json) \in Nat  BY DEF Posted
  <2> QED  BY <1>1, <2>1
<1>3. /\ json[p + 1] = QUOTE /\ json[p + 2] = KeyByte[Keys[i]] /\ json[p + 3] = QUOTE
      /\ json[p + 4] = COLON /\ json[p + 5] = QUOTE
      /\ (\A m \in 1..l : json[p + 5 + m] = v[Keys[i]][m])
      /\ json[p + 6 + l] = QUOTE
  BY <1>1 DEF MemberBytes
<1>4. p + 1 \in 1..n - 2 /\ Hit(json, p + 1, KeyByte[Keys[i]])
  <2>1. p + 1 + 1 = p + 2 /\ p + 1 + 2 = p + 3  OBVIOUS
  <2>2. p + 1 \in 1..n - 2  BY ONLY <1>2, p \in Nat \ {0}, l \in Nat \ {0}
  <2>3. Hit(json, p + 1, KeyByte[Keys[i]])  BY <1>3, <2>1, Zenon DEF Hit
  <2> QED  BY <2>2, <2>3
<1>5. ASSUME NEW c, v[Keys[i]] = <<c>>
      PROVE  p + 5 \in 1..n - 2 /\ Hit(json, p + 5, c)
  <2>1. l = 1 /\ v[Keys[i]][1] = c  BY <1>1, <1>5
  <2>2. p + 6 + l = p + 5 + 2 /\ 1 \in 1..l  BY <2>1
  <2>3. json[p + 5 + 1] = c /\ json[p + 5 + 2] = QUOTE  BY <1>3, <2>1, <2>2
  <2>4. p + 5 \in 1..n - 2  BY <1>2
  <2> QED  BY <1>3, <2>3, <2>4 DEF Hit
<1> QED  BY <1>1, <1>2, <1>4, <1>5

\* The first of the values that is this key's byte.
FirstSuch(v, c, i) ==
    v[Keys[i]] = <<c>> /\ \A h \in 1..i - 1 : v[Keys[h]] # <<c>>

\* Where a key is found first.
LEMMA KeyIsFound ==
    ASSUME NEW json, NEW v, NEW o, Posted(json, v, o), NEW j \in 1..4,
           NEW at, at = Find(Quoted(<<KeyByte[Keys[j]]>>), json, 1)
    PROVE  /\ \A i \in 1..j - 1 : FirstSuch(v, KeyByte[Keys[j]], i) => at = o[i - 1] + 5
           /\ (\A i \in 1..j - 1 : v[Keys[i]] # <<KeyByte[Keys[j]]>>) => at = o[j - 1] + 1
<1>1. PICK c \in Byte : c = KeyByte[Keys[j]]
  <2>1. KeyByte[Keys[j]] \in {121, 105, 113, 112}  BY KeyBytes
  <2>2. KeyByte[Keys[j]] \in Byte  BY <2>1 DEF Byte
  <2> QED  BY <2>2
<1>2. PICK n \in Nat : n = Len(json)
  <2>1. Len(json) \in Nat  BY DEF Posted
  <2> QED  BY <2>1
<1>3. PICK I : I = Found(Quoted(<<c>>), json, 1)  OBVIOUS
<1>4. /\ Len(Quoted(<<c>>)) \in Nat
      /\ \A x : x \in I <=> x \in 1..n - 2 /\ Hit(json, x, c)
  BY <1>2, <1>3, FoundKey
<1>5. at \in Nat /\ (at = 0 <=> I = {}) /\ (at # 0 => at \in I /\ \A x \in I : at <= x)
  <2>1. at = Find(Quoted(<<c>>), json, 1)  BY <1>1, Zenon
  <2>2. Len(json) \in Nat /\ 1 \in Nat \ {0}  BY <1>2
  <2> QED  BY <1>3, <1>4, <2>1, <2>2, FindIs
<1>6. \A x \in I : \/ x = o[j - 1] + 1
                   \/ \E i \in 1..4 : x = o[i - 1] + 5 /\ v[Keys[i]] = <<c>>
  <2> TAKE x \in I
  <2>0. x \in 1..n - 2 /\ Hit(json, x, c)  BY <1>4
  <2>1. x \in 1..Len(json)  BY <1>2, <2>0
  <2>2. c = KeyByte[Keys[j]]  BY <1>1
  <2>3. AtKey(v, o, x, j, c)  BY <2>0, <2>1, <2>2, HitIs, Zenon
  <2> QED  BY <2>3, Zenon DEF AtKey
<1>7. o[j - 1] + 1 \in I  BY <1>1, <1>2, <1>4, Hits
<1>8. \A i \in 1..4 : v[Keys[i]] = <<c>> => o[i - 1] + 5 \in I
  <2> TAKE i \in 1..4
  <2> HAVE v[Keys[i]] = <<c>>
  <2>1. o[i - 1] + 5 \in 1..Len(json) - 2 /\ Hit(json, o[i - 1] + 5, c)  BY Hits
  <2> QED  BY <1>2, <1>4, <2>1
<1>9. at \in I /\ \A x \in I : at <= x
  <2>1. I # {}  BY <1>7
  <2> QED  BY <1>5, <2>1
<1>10. /\ \A i \in 0..4 : o[i] \in Nat
       /\ \A i \in 0..4, h \in 0..4 : i < h => o[i] + 8 <= o[h]
  BY PlacesAre
<1>11. \/ at = o[j - 1] + 1
       \/ \E i \in 1..4 : at = o[i - 1] + 5 /\ v[Keys[i]] = <<c>>
  BY <1>6, <1>9
<1>12. ASSUME NEW i \in 1..j - 1, FirstSuch(v, c, i)
       PROVE  at = o[i - 1] + 5
  <2>1. i \in 1..4 /\ v[Keys[i]] = <<c>> /\ \A h \in 1..i - 1 : v[Keys[h]] # <<c>>
    BY <1>12 DEF FirstSuch
  <2>2. at <= o[i - 1] + 5  BY <1>8, <1>9, <2>1
  <2>3. i - 1 \in 0..4 /\ j - 1 \in 0..4 /\ i - 1 < j - 1  OBVIOUS
  <2>4. o[i - 1] + 8 <= o[j - 1] /\ o[i - 1] \in Nat /\ o[j - 1] \in Nat  BY <1>10, <2>3
  <2>5. at # o[j - 1] + 1  BY <2>2, <2>4
  <2>6. PICK h \in 1..4 : at = o[h - 1] + 5 /\ v[Keys[h]] = <<c>>  BY <1>11, <2>5
  <2>7. ~ h < i  BY <2>1, <2>6
  <2>8. ~ i < h
    <3> SUFFICES ASSUME i < h PROVE FALSE
      OBVIOUS
    <3>1. h - 1 \in 0..4 /\ i - 1 < h - 1  BY <2>1
    <3>2. o[i - 1] + 8 <= o[h - 1] /\ o[h - 1] \in Nat  BY <1>10, <2>3, <3>1
    <3> QED  BY <2>2, <2>4, <2>6, <3>2
  <2>9. h = i  BY <2>7, <2>8
  <2> QED  BY <2>6, <2>9
<1>13. ASSUME \A i \in 1..j - 1 : v[Keys[i]] # <<c>>
       PROVE  at = o[j - 1] + 1
  <2>1. at <= o[j - 1] + 1  BY <1>7, <1>9
  <2> SUFFICES ASSUME NEW h \in 1..4, at = o[h - 1] + 5, v[Keys[h]] = <<c>>
               PROVE  FALSE
    BY <1>11
  <2>2. h >= j  BY <1>13
  <2>3. h - 1 \in 0..4 /\ j - 1 \in 0..4  OBVIOUS
  <2>4. o[j - 1] \in Nat /\ o[h - 1] \in Nat  BY <1>10, <2>3
  <2>5. o[j - 1] <= o[h - 1]
    <3>1. CASE h = j  BY <3>1, <2>4
    <3>2. CASE h > j
      <4>1. j - 1 < h - 1  BY <3>2
      <4> QED  BY <1>10, <2>3, <2>4, <4>1
    <3> QED  BY <2>2, <3>1, <3>2
  <2> QED  BY <2>1, <2>4, <2>5
<1> QED  BY <1>1, <1>12, <1>13

-----------------------------------------------------------------------------
\* Once a key is found in front of a member, its value is what is taken.
LEMMA ExtractsMember ==
    ASSUME NEW json, NEW v, NEW o, Posted(json, v, o), NEW m \in 1..4, NEW key,
           NEW at \in Nat \ {0}, at = Find(Quoted(<<key>>), json, 1), at <= o[m - 1] + 4,
           \A x \in at..o[m - 1] + 3 : json[x] # COLON
    PROVE  ExtractJsonField(json, key) = v[Keys[m]]
<1>1. PICK p \in Nat \ {0}, l \in Nat \ {0} :
             /\ p = o[m - 1] /\ l = Len(v[Keys[m]]) /\ o[m] = p + 7 + l
             /\ o[m] <= Len(json)
             /\ v[Keys[m]] \in Seq(Plain) /\ v[Keys[m]][1] # SPACE
             /\ MemberBytes(json, p, KeyByte[Keys[m]], v[Keys[m]], l)
  BY MemberReads
<1>2. PICK w \in Seq(Plain) : w = v[Keys[m]] /\ Len(w) = l /\ w[1] # SPACE  BY <1>1
<1>3. /\ json[p + 4] = COLON /\ json[p + 5] = QUOTE
      /\ (\A i \in 1..l : json[p + 5 + i] = w[i])
      /\ json[p + 6 + l] = QUOTE
  BY <1>1, <1>2 DEF MemberBytes
<1>4. json \in Seq(Byte)  BY DEF Posted
<1>5. PICK n \in Nat : n = Len(json) /\ p + 7 + l <= n  BY <1>1, <1>4
<1>6. PICK a, colon, start, end :
         /\ a = Find(Quoted(<<key>>), json, 1)
         /\ a # 0 => FirstAt(colon, COLON, json, a)
         /\ a # 0 /\ colon # 0 => Finds(json, a, colon, start, end)
         /\ ExtractJsonField(json, key) =
              IF a = 0 \/ colon = 0 THEN <<>> ELSE SubSeq(json, start, end - 1)
  BY <1>4, ExtractIs
<1>7. a = at /\ a # 0  BY <1>6
<1>8. FirstAt(colon, COLON, json, at)  BY <1>6, <1>7, Zenon
<1>9. colon = p + 4
  <2>1. p + 4 \in at..n
    <3>1. at <= p + 4  BY <1>1
    <3>2. p + 4 <= n  BY <1>5
    <3> QED  BY <3>1, <3>2
  <2>2. colon # 0  BY <1>3, <1>5, <1>8, <2>1 DEF FirstAt
  <2>3. /\ colon \in at..n /\ json[colon] = COLON
        /\ \A i \in at..colon - 1 : json[i] # COLON
    BY <1>5, <1>8, <2>2 DEF FirstAt
  <2>4. ~ colon < p + 4
    <3> SUFFICES ASSUME colon < p + 4 PROVE FALSE
      OBVIOUS
    <3>1. colon \in at..p + 3  BY <2>3
    <3> QED  BY <1>1, <2>3, <3>1
  <2>5. ~ colon > p + 4
    <3> SUFFICES ASSUME colon > p + 4 PROVE FALSE
      OBVIOUS
    <3>1. p + 4 \in at..colon - 1  BY <2>1, <2>3
    <3> QED  BY <1>3, <2>3, <3>1
  <2> QED  BY <2>3, <2>4, <2>5
<1>10. Finds(json, at, colon, start, end)  BY <1>6, <1>7, <1>9
<1>11. /\ start \in p + 5..n + 1
       /\ \A i \in p + 5..start - 1 : json[i] \in {SPACE, QUOTE}
       /\ start # n + 1 => json[start] \notin {SPACE, QUOTE}
       /\ end \in start..n + 1
       /\ end # n + 1 => json[end] = QUOTE
       /\ \A i \in start..end - 1 : json[i] # QUOTE
  <2>1. p + 4 + 1 = p + 5  OBVIOUS
  <2> QED  BY <1>5, <1>9, <1>10, <2>1 DEF Finds
<1>12. json[p + 6] = w[1] /\ w[1] \notin {SPACE, QUOTE}
  <2>1. 1 \in 1..l /\ p + 5 + 1 = p + 6  OBVIOUS
  <2>2. w[1] \in Plain  BY <1>2, <2>1, ElementOfSeq
  <2> QED  BY <1>2, <1>3, <2>1, <2>2, MarksAre
<1>13. start = p + 6
  <2>1. start # p + 5  BY <1>3, <1>5, <1>11
  <2>2. ~ start > p + 6
    <3> SUFFICES ASSUME start > p + 6 PROVE FALSE
      OBVIOUS
    <3>1. p + 6 \in p + 5..start - 1  BY <1>11
    <3> QED  BY <1>11, <1>12, <3>1
  <2> QED  BY <1>11, <2>1, <2>2
<1>14. \A i \in 1..l : json[p + 5 + i] # QUOTE
  <2> TAKE i \in 1..l
  <2>1. w[i] \in Plain  BY <1>2, ElementOfSeq
  <2> QED  BY <1>3, <2>1, MarksAre
<1>15. end = p + 6 + l
  <2>1. ~ end > p + 6 + l
    <3> SUFFICES ASSUME end > p + 6 + l PROVE FALSE
      OBVIOUS
    <3>1. p + 6 + l \in start..end - 1  BY <1>11, <1>13
    <3> QED  BY <1>3, <1>11, <3>1
  <2>2. ~ end < p + 6 + l
    <3> SUFFICES ASSUME end < p + 6 + l PROVE FALSE
      OBVIOUS
    <3>1. end \in p + 6..p + 5 + l /\ end # n + 1  BY <1>5, <1>11, <1>13
    <3>2. json[end] = QUOTE  BY <1>11, <3>1
    <3>3. end - (p + 5) \in 1..l /\ p + 5 + (end - (p + 5)) = end  BY <3>1
    <3> QED  BY <1>14, <3>2, <3>3
  <2> QED  BY <1>11, <2>1, <2>2
<1>16. ExtractJsonField(json, key) = SubSeq(json, p + 6, p + 5 + l)
  <2>1. colon # 0 /\ p + 6 + l - 1 = p + 5 + l  BY <1>9
  <2>2. ExtractJsonField(json, key) = SubSeq(json, start, end - 1)  BY <1>6, <1>7, <2>1
  <2> QED  BY <1>13, <1>15, <2>1, <2>2
<1>17. PICK s \in Seq(Byte) : /\ s = SubSeq(json, p + 6, p + 5 + l) /\ Len(s) = l
                              /\ \A i \in 1..l : s[i] = json[p + 5 + i]
  <2>1. PICK x \in Nat \ {0}, y \in Nat : x = p + 6 /\ y = p + 5 + l /\ y <= Len(json) /\ x <= y + 1
    BY <1>5
  <2>2. /\ SubSeq(json, x, y) \in Seq(Byte) /\ Len(SubSeq(json, x, y)) = y - x + 1
        /\ \A i \in 1..y - x + 1 : SubSeq(json, x, y)[i] = json[x + i - 1]
    BY <1>4, <2>1, SubParts
  <2>3. y - x + 1 = l /\ \A i \in 1..l : x + i - 1 = p + 5 + i  BY <2>1
  <2>4. Len(SubSeq(json, x, y)) = l /\ \A i \in 1..l : SubSeq(json, x, y)[i] = json[p + 5 + i]
    <3>1. Len(SubSeq(json, x, y)) = l  BY <2>2, <2>3
    <3>2. \A i \in 1..l : SubSeq(json, x, y)[i] = json[x + i - 1]  BY <2>2, <2>3, Zenon
    <3>3. \A i \in 1..l : json[x + i - 1] = json[p + 5 + i]  BY <2>3, Zenon
    <3> QED  BY <3>1, <3>2, <3>3
  <2> QED  BY <2>1, <2>2, <2>4, Zenon
<1>18. s = w
  <2>1. w \in Seq(Byte)  BY Marks, SeqWithin
  <2>2. \A i \in 1..Len(s) : s[i] = w[i]  BY <1>3, <1>17
  <2> QED  BY <1>2, <1>17, <2>1, <2>2, SeqEqual
<1> QED  BY <1>2, <1>16, <1>17, <1>18

-----------------------------------------------------------------------------
\* From a key to its value there is no other colon, nor from a value that is taken for a
\* key to the next value.
LEMMA ColonBehind ==
    ASSUME NEW json, NEW v, NEW o, Posted(json, v, o), NEW m \in 1..4
    PROVE  /\ \A x \in o[m - 1] + 1..o[m - 1] + 3 : json[x] # COLON
           /\ \A i \in 1..3, c \in {121, 105, 113, 112} : m = i + 1 /\ v[Keys[i]] = <<c>> =>
                /\ o[m - 1] = o[i - 1] + 8
                /\ \A x \in o[i - 1] + 5..o[i - 1] + 8 : json[x] # COLON
<1>1. PICK p \in Nat \ {0}, l \in Nat \ {0} :
             /\ p = o[m - 1] /\ l = Len(v[Keys[m]])
             /\ MemberBytes(json, p, KeyByte[Keys[m]], v[Keys[m]], l)
  BY MemberReads
<1>2. json[p + 1] = QUOTE /\ json[p + 2] = KeyByte[Keys[m]] /\ json[p + 3] = QUOTE
  BY <1>1 DEF MemberBytes
<1>3. KeyByte[Keys[m]] \in {121, 105, 113, 112}  BY KeyBytes
<1>4. \A x \in p + 1..p + 3 : json[x] # COLON
  <2> TAKE x \in p + 1..p + 3
  <2>1. x = p + 1 \/ x = p + 2 \/ x = p + 3  BY <1>1
  <2> QED  BY <1>2, <1>3, <2>1, MarksAre
<1>6. \A i \in 1..4 : \E q \in Nat \ {0}, k \in Nat \ {0} :
             /\ q = o[i - 1] /\ k = Len(v[Keys[i]]) /\ o[i] = q + 7 + k
             /\ MemberBytes(json, q, KeyByte[Keys[i]], v[Keys[i]], k)
  <2> TAKE i \in 1..4
  <2> QED  BY MemberReads
<1>5. ASSUME NEW i \in 1..3, NEW c \in {121, 105, 113, 112}, m = i + 1, v[Keys[i]] = <<c>>
      PROVE  /\ o[m - 1] = o[i - 1] + 8
             /\ \A x \in o[i - 1] + 5..o[i - 1] + 8 : json[x] # COLON
  <2>0. i \in 1..4 /\ m - 1 = i  BY <1>5
  <2>1. PICK q \in Nat \ {0}, k \in Nat \ {0} :
             /\ q = o[i - 1] /\ k = Len(v[Keys[i]]) /\ o[i] = q + 7 + k
             /\ MemberBytes(json, q, KeyByte[Keys[i]], v[Keys[i]], k)
    BY <1>6, <2>0
  <2>2. k = 1 /\ v[Keys[i]][1] = c  BY <1>5, <2>1
  <2>3. /\ json[q + 5] = QUOTE /\ (\A y \in 1..k : json[q + 5 + y] = v[Keys[i]][y])
        /\ json[q + 6 + k] = QUOTE
    BY <2>1 DEF MemberBytes
  <2>4. json[q + 6] = c /\ json[q + 7] = QUOTE /\ json[q + 8] \in {COMMA, CLOSE}
    <3>1. 1 \in 1..k /\ q + 5 + 1 = q + 6 /\ q + 6 + k = q + 7 /\ q + 7 + k = q + 8  BY <2>1, <2>2
    <3>2. json[q + 7 + k] \in {COMMA, CLOSE}  BY <2>0, <2>1, MemberEnds
    <3> QED  BY <2>1, <2>2, <2>3, <3>1, <3>2
  <2>5. \A x \in q + 5..q + 8 : json[x] # COLON
    <3> TAKE x \in q + 5..q + 8
    <3>1. x = q + 5 \/ x = q + 6 \/ x = q + 7 \/ x = q + 8  OBVIOUS
    <3> QED  BY <2>3, <2>4, <3>1, MarksAre
  <2>6. o[m - 1] = q + 8
    <3>1. q + 7 + k = q + 8  BY <2>1, <2>2
    <3> QED  BY <2>0, <2>1, <3>1
  <2> QED  BY <2>1, <2>5, <2>6
<1> QED  BY <1>1, <1>4, <1>5

\* What is taken for a key: its value, unless an earlier value is the key's byte; then
\* the value behind the first such.
LEMMA ValueTaken ==
    ASSUME NEW json, NEW v, NEW o, Posted(json, v, o), NEW j \in 1..4
    PROVE  /\ \A i \in 1..j - 1 : FirstSuch(v, KeyByte[Keys[j]], i) =>
                 ExtractJsonField(json, KeyByte[Keys[j]]) = v[Keys[i + 1]]
           /\ (\A i \in 1..j - 1 : v[Keys[i]] # <<KeyByte[Keys[j]]>>) =>
                 ExtractJsonField(json, KeyByte[Keys[j]]) = v[Keys[j]]
<1>1. PICK c \in {121, 105, 113, 112} : c = KeyByte[Keys[j]]  BY KeyBytes
<1>2. PICK at : at = Find(Quoted(<<c>>), json, 1)  OBVIOUS
<1>3. /\ \A i \in 1..j - 1 : FirstSuch(v, c, i) => at = o[i - 1] + 5
      /\ (\A i \in 1..j - 1 : v[Keys[i]] # <<c>>) => at = o[j - 1] + 1
  BY <1>1, <1>2, KeyIsFound
<1>4. ASSUME NEW i \in 1..j - 1, FirstSuch(v, c, i)
      PROVE  ExtractJsonField(json, c) = v[Keys[i + 1]]
  <2>1. at = o[i - 1] + 5  BY <1>3, <1>4
  <2>2. PICK m \in 1..4 : m = i + 1 /\ i \in 1..3 /\ i \in 1..4  BY <1>4
  <2>3. v[Keys[i]] = <<c>>  BY <1>4 DEF FirstSuch
  <2>4. /\ \A x \in o[m - 1] + 1..o[m - 1] + 3 : json[x] # COLON
        /\ o[m - 1] = o[i - 1] + 8
        /\ \A x \in o[i - 1] + 5..o[i - 1] + 8 : json[x] # COLON
    BY <2>2, <2>3, ColonBehind
  <2>5. PICK p \in Nat \ {0} : p = o[i - 1]
    <3>1. i - 1 \in 0..4  BY <2>2
    <3> QED  BY <3>1, PlacesAre
  <2>6. at \in Nat \ {0} /\ at <= o[m - 1] + 4  BY <2>1, <2>4, <2>5
  <2>7. \A x \in at..o[m - 1] + 3 : json[x] # COLON
    <3> TAKE x \in at..o[m - 1] + 3
    <3>1. x \in p + 5..p + 8 \/ x \in (p + 8) + 1..(p + 8) + 3  BY <2>1, <2>4, <2>5
    <3> QED  BY <2>4, <2>5, <3>1
  <2>8. ExtractJsonField(json, c) = v[Keys[m]]  BY <1>2, <2>6, <2>7, ExtractsMember
  <2> QED  BY <2>2, <2>8
<1>5. ASSUME \A i \in 1..j - 1 : v[Keys[i]] # <<c>>
      PROVE  ExtractJsonField(json, c) = v[Keys[j]]
  <2>1. at = o[j - 1] + 1  BY <1>3, <1>5
  <2>2. PICK p \in Nat \ {0} : p = o[j - 1]
    <3>1. j - 1 \in 0..4  OBVIOUS
    <3> QED  BY <3>1, PlacesAre
  <2>3. at \in Nat \ {0} /\ at <= o[j - 1] + 4  BY <2>1, <2>2
  <2>4. \A x \in at..o[j - 1] + 3 : json[x] # COLON  BY <2>1, ColonBehind
  <2> QED  BY <1>2, <2>3, <2>4, ExtractsMember
<1> QED  BY <1>1, <1>4, <1>5

\* The first of several.
LEMMA SomeFirst ==
    ASSUME NEW v, NEW c, NEW i \in Nat \ {0}, v[Keys[i]] = <<c>>
    PROVE  \E h \in 1..i : FirstSuch(v, c, h)
<1> DEFINE S == {h \in 1..i : v[Keys[h]] = <<c>>}
<1>1. S \subseteq Nat /\ S # {}
  <2>1. i \in S  OBVIOUS
  <2> QED  BY <2>1
<1>2. PICK h \in S : \A k \in S : h <= k
  <2> HIDE DEF S
  <2> QED  BY <1>1, LeastIn
<1>3. \A k \in 1..h - 1 : v[Keys[k]] # <<c>>
  <2> TAKE k \in 1..h - 1
  <2>1. k \in 1..i /\ ~ h <= k  BY <1>2
  <2> QED  BY <1>2, <2>1
<1> QED  BY <1>2, <1>3 DEF FirstSuch

-----------------------------------------------------------------------------
(***************************************************************************)
(* The web server orders what was typed.                                   *)
(***************************************************************************)
\* What the web server takes out of a request, key by key.
LEMMA TakenIs ==
    ASSUME TextInv, Sent, typed # None
    PROVE  /\ typed \in [Key -> Seq(Plain) \cup {NoKey}] /\ order \in [Key -> Seq(Shown)]
           /\ \A i \in 1..4 : /\ Keys[i] \in Key
                              /\ order[Keys[i]] = ExtractJsonField(Stringify(typed), KeyByte[Keys[i]])
                              /\ order[Keys[i]] # <<>> /\ order[Keys[i]][1] # SPACE
           /\ order = typed <=> \A i \in 1..4 : order[Keys[i]] = typed[Keys[i]]
<1>1. /\ typed \in [Key -> Seq(Plain) \cup {NoKey}] /\ order \in [Key -> Seq(Shown)]
      /\ order = Taken /\ ~ Missing(order)
  BY DEF TextInv, SentInv
<1>2. \A k \in Key : order[k] = ExtractJsonField(Stringify(typed), KeyByte[k])
  BY <1>1 DEF Taken
<1>3. \A k \in Key : order[k] # <<>>  BY <1>1 DEF Missing
<1>4. \A k \in Key : order[k][1] # SPACE
  <2> TAKE k \in Key
  <2>1. Shown \subseteq Byte  BY DEF Shown, Byte
  <2>2. Stringify(typed) \in Seq(Shown)  BY <1>1, StringifyType
  <2>3. PICK e : e = ExtractJsonField(Stringify(typed), KeyByte[k])  OBVIOUS
  <2>4. e # <<>> => e[1] # SPACE  BY <2>1, <2>2, <2>3, ExtractType
  <2> QED  BY <1>2, <1>3, <2>3, <2>4
<1>5. /\ \A i \in 1..4 : Keys[i] \in Key
      /\ \A k \in Key : \E i \in 1..4 : k = Keys[i]
  BY KeysAre
<1>6. order = typed <=> \A i \in 1..4 : order[Keys[i]] = typed[Keys[i]]
  <2>1. order = typed <=> \A k \in Key : order[k] = typed[k]
    BY <1>1
  <2>2. (\A k \in Key : order[k] = typed[k]) <=> \A i \in 1..4 : order[Keys[i]] = typed[Keys[i]]
    BY <1>5, Zenon
  <2> QED  BY <2>1, <2>2
<1> QED  BY <1>1, <1>2, <1>3, <1>4, <1>5, <1>6

\* When each key has a value, only a value that is a later key's byte is mistaken.
LEMMA TakenRight ==
    ASSUME TextInv, Sent, typed # None, Present(typed)
    PROVE  order = typed <=> \A i \in 1..4 : ~ TakenFor(i)
<1>1. /\ typed \in [Key -> Seq(Plain) \cup {NoKey}]
      /\ order = typed <=> \A i \in 1..4 : order[Keys[i]] = typed[Keys[i]]
  BY TakenIs
<1>2. PICK o : Posted(Stringify(typed), typed, o)  BY <1>1, PostedIs
<1>3. \A j \in 1..4 :
        /\ \A i \in 1..j - 1 : FirstSuch(typed, KeyByte[Keys[j]], i) =>
              order[Keys[j]] = typed[Keys[i + 1]]
        /\ (\A i \in 1..j - 1 : typed[Keys[i]] # <<KeyByte[Keys[j]]>>) =>
              order[Keys[j]] = typed[Keys[j]]
  <2> TAKE j \in 1..4
  <2>1. order[Keys[j]] = ExtractJsonField(Stringify(typed), KeyByte[Keys[j]])  BY TakenIs
  <2>2. /\ \A i \in 1..j - 1 : FirstSuch(typed, KeyByte[Keys[j]], i) =>
              ExtractJsonField(Stringify(typed), KeyByte[Keys[j]]) = typed[Keys[i + 1]]
        /\ (\A i \in 1..j - 1 : typed[Keys[i]] # <<KeyByte[Keys[j]]>>) =>
              ExtractJsonField(Stringify(typed), KeyByte[Keys[j]]) = typed[Keys[j]]
    BY <1>2, ValueTaken
  <2> QED  BY <2>1, <2>2, Zenon
<1>4. ASSUME order = typed, NEW i \in 1..4, TakenFor(i)
      PROVE  FALSE
  <2>1. PICK j \in i + 1..4 :
          /\ typed[Keys[i]] = <<KeyByte[Keys[j]]>>
          /\ \A h \in 1..i - 1 : typed[Keys[h]] # typed[Keys[i]]
          /\ typed[Keys[i + 1]] # typed[Keys[j]]
    BY <1>4 DEF TakenFor
  <2>2. j \in 1..4 /\ i \in 1..j - 1  OBVIOUS
  <2>3. FirstSuch(typed, KeyByte[Keys[j]], i)  BY <2>1, Zenon DEF FirstSuch
  <2>4. order[Keys[j]] = typed[Keys[i + 1]]  BY <1>3, <2>2, <2>3
  <2> QED  BY <1>4, <2>1, <2>4
<1>5. ASSUME \A i \in 1..4 : ~ TakenFor(i), NEW j \in 1..4
      PROVE  order[Keys[j]] = typed[Keys[j]]
  <2>1. CASE \A i \in 1..j - 1 : typed[Keys[i]] # <<KeyByte[Keys[j]]>>
    BY <1>3, <2>1
  <2>2. ASSUME NEW i \in 1..j - 1, typed[Keys[i]] = <<KeyByte[Keys[j]]>>
        PROVE  order[Keys[j]] = typed[Keys[j]]
    <3>1. PICK c : c = KeyByte[Keys[j]]  OBVIOUS
    <3>2. i \in Nat \ {0}  OBVIOUS
    <3>3. PICK h \in 1..i : FirstSuch(typed, c, h)  BY <2>2, <3>1, <3>2, SomeFirst
    <3>4. h \in 1..j - 1 /\ h \in 1..4 /\ j \in h + 1..4  OBVIOUS
    <3>5. order[Keys[j]] = typed[Keys[h + 1]]  BY <1>3, <3>1, <3>3, <3>4
    <3>6. typed[Keys[h]] = <<c>> /\ \A k \in 1..h - 1 : typed[Keys[k]] # typed[Keys[h]]
      BY <3>3, Zenon DEF FirstSuch
    <3>7. typed[Keys[h + 1]] = typed[Keys[j]]
      <4>1. ~ TakenFor(h)  BY <1>5, <3>4
      <4> QED  BY <3>1, <3>4, <3>6, <4>1, Zenon DEF TakenFor
    <3> QED  BY <3>5, <3>7
  <2> QED  BY <2>1, <2>2
<1> QED  BY <1>1, <1>4, <1>5

(***************************************************************************)
(* Whatever is typed, the web server orders it field by field exactly when *)
(* no key is left out or empty, none begins with a blank, and none is      *)
(* taken for a later key (web_server.cpp:33-58 on what the page posts).    *)
(***************************************************************************)
THEOREM OrdersAreAsTyped == TextSpec => []OrderAsTyped
<1>1. TextInv => OrderAsTyped
  <2> SUFFICES ASSUME TextInv, Sent, typed # None
               PROVE  order = typed <=> \A i \in 1..4 :
                        /\ typed[Keys[i]] \notin {<<>>, NoKey}
                        /\ typed[Keys[i]][1] # SPACE
                        /\ ~ TakenFor(i)
    BY DEF OrderAsTyped
  <2>1. /\ typed \in [Key -> Seq(Plain) \cup {NoKey}] /\ order \in [Key -> Seq(Shown)]
        /\ \A i \in 1..4 : /\ Keys[i] \in Key
                           /\ order[Keys[i]] # <<>> /\ order[Keys[i]][1] # SPACE
    BY TakenIs
  <2>2. \A i \in 1..4 : typed[Keys[i]] \in Seq(Plain) \/ typed[Keys[i]] = NoKey
    <3> TAKE i \in 1..4
    <3>1. Keys[i] \in Key  BY <2>1
    <3> QED  BY <2>1, <3>1
  <2>3. Present(typed) <=> \A i \in 1..4 :
                        /\ typed[Keys[i]] \notin {<<>>, NoKey}
                        /\ typed[Keys[i]][1] # SPACE
    <3>1. \A i \in 1..4 : typed[Keys[i]] \in Seq(Plain) <=> typed[Keys[i]] # NoKey
      BY <2>2, NoKeyIsNone
    <3>2. Present(typed) <=> \A i \in 1..4 :
             typed[Keys[i]] \in Seq(Plain) /\ typed[Keys[i]] # <<>> /\ typed[Keys[i]][1] # SPACE
      BY Zenon DEF Present
    <3> QED  BY <3>1, <3>2
  <2>4. order = typed => Present(typed)
    <3> SUFFICES ASSUME order = typed
                 PROVE  \A i \in 1..4 :
                          /\ typed[Keys[i]] \in Seq(Plain)
                          /\ typed[Keys[i]] # <<>>
                          /\ typed[Keys[i]][1] # SPACE
      BY Zenon DEF Present
    <3> TAKE i \in 1..4
    <3>1. Keys[i] \in Key /\ typed[Keys[i]] # <<>> /\ typed[Keys[i]][1] # SPACE
      BY <2>1, Zenon
    <3>2. typed[Keys[i]] \in Seq(Shown)
      <4>1. order[Keys[i]] \in Seq(Shown)  BY <2>1, <3>1
      <4> QED  BY <4>1, Zenon
    <3>3. NoKey \notin Seq(Shown)
      <4>1. NoKey[1] = 0 /\ Len(NoKey) = 1  BY DEF NoKey
      <4>2. 0 \notin Shown  BY DEF Shown
      <4> QED  BY <4>1, <4>2
    <3>4. typed[Keys[i]] # NoKey  BY <3>2, <3>3, Zenon
    <3>5. typed[Keys[i]] \in Seq(Plain)  BY <2>2, <3>4, Zenon
    <3> QED  BY <3>1, <3>5
  <2>5. Present(typed) => (order = typed <=> \A i \in 1..4 : ~ TakenFor(i))  BY TakenRight
  <2> QED  BY <2>3, <2>4, <2>5
<1>2. TextSpec => []TextInv  BY TextInvariance
<1> QED  BY <1>1, <1>2, PTL

-----------------------------------------------------------------------------
(***************************************************************************)
(* The inductive invariant of the uploads and their files.  The files say  *)
(* something only while nothing runs beside an upload: Own is what they    *)
(* hold at each stand of an upload that is alone.                          *)
(***************************************************************************)
Quiet == {"idle"} \cup Ended
Stand == Quiet \cup {"upload", "read", "measure", "rows", "tail"}

StateInv ==
    /\ pc \in [Upload -> Stand] /\ pos \in [Upload -> Nat]
    /\ orders = [u \in Upload |-> orders[u]]
    /\ crossed \in BOOLEAN
    /\ \A u \in Upload : pc[u] \in Quiet \cup {"upload"} => orders[u] = <<>>

Own(u) ==
    /\ pc[u] \in {"upload", "read", "rows"} => pos[u] \in 1..(Blocks[u] + 1)
    /\ pc[u] = "upload" => input = Whole(u, pos[u] - 1)
    /\ pc[u] = "read" => input = Whole(u, Blocks[u]) /\ orders[u] = Whole(u, pos[u] - 1)
    /\ pc[u] \in {"measure", "rows", "tail"} => orders[u] = Whole(u, Blocks[u])
    /\ pc[u] = "rows" => csv = Whole(u, pos[u] - 1)
    /\ pc[u] = "tail" => csv = Whole(u, Blocks[u]) /\ tail = <<>>
    /\ pc[u] = "done" /\ Blocks[u] > 0 => csv = Whole(u, Blocks[u]) /\ tail = Whole(u, 1)

AloneInv ==
    \A u \in Upload : alone = {u} => Active \subseteq {u} /\ pc[u] # "idle" /\ Own(u)

\* Both result files are of one run, complete, or not written yet.
Complete ==
    \/ csv = <<>> /\ tail = <<>>
    \/ \E u \in Upload : csv = Whole(u, Blocks[u]) /\ tail = Whole(u, 1)

ChartInv ==
    ~crossed =>
        /\ \A u \in Active : alone = {u}
        /\ (\A u \in Upload : pc[u] \notin {"rows", "tail"}) => Complete

IInv == StateInv /\ AloneInv /\ ChartInv
-----------------------------------------------------------------------------
(***************************************************************************)
(* What one stream writes alone.                                           *)
(***************************************************************************)
\* The blocks of such a file; without any it is empty.
LEMMA WholeIs ==
    ASSUME NEW u, NEW n \in Nat
    PROVE  /\ Whole(u, n) \in Seq({Block(u, i) : i \in 1..n})
           /\ Len(Whole(u, n)) = n /\ DOMAIN Whole(u, n) = 1..n
           /\ \A i \in 1..n : Whole(u, n)[i] = Block(u, i)
           /\ Whole(u, 0) = <<>>
<1> DEFINE S == {Block(u, i) : i \in 1..n}
<1>1. Whole(u, n) \in [1..n -> S]
  BY DEF Whole
<1>2. Whole(u, n) \in Seq(S)
  <2> HIDE DEF S
  <2> QED BY <1>1
<1>3. DOMAIN Whole(u, n) = 1..n
  BY <1>1
<1> HIDE DEF S
<1>4. Len(Whole(u, n)) = n
  <2>1. PICK m \in Nat : m = Len(Whole(u, n)) /\ DOMAIN Whole(u, n) = 1..m
    BY <1>2, LenProperties
  <2>2. m = n
    <3>1. 1..m = 1..n
      BY <1>3, <2>1
    <3> QED BY <3>1
  <2> QED BY <2>1, <2>2
<1>5. \A i \in 1..n : Whole(u, n)[i] = Block(u, i)
  BY DEF Whole
<1>6. Whole(u, 0) = <<>>
  <2>1. Whole(u, 0) \in [1..0 -> {}]
    BY DEF Whole
  <2>2. Whole(u, 0) \in Seq({})
    BY <2>1
  <2>3. DOMAIN Whole(u, 0) = {}
    BY DEF Whole
  <2> QED BY <2>2, <2>3, EmptySeq
<1> QED BY <1>2, <1>3, <1>4, <1>5, <1>6 DEF S

\* A block is not torn.
LEMMA BlockIsNotTorn ==
    ASSUME NEW u, NEW i
    PROVE  Block(u, i) # Torn
<1>1. "i" \in DOMAIN Block(u, i)
  BY DEF Block
<1>2. "i" \notin DOMAIN Torn
  BY DEF Torn
<1> QED BY <1>1, <1>2

\* The next block makes it one block longer, whether it is the last or not.
LEMMA PutWhole ==
    ASSUME NEW u, NEW k \in Nat \ {0}, NEW last,
           NEW file \in Put(Whole(u, k - 1), Block(u, k), last)
    PROVE  file = Whole(u, k)
<1> DEFINE old == Whole(u, k - 1)
<1>1. Len(old) = k - 1 /\ \A i \in 1..(k - 1) : old[i] = Block(u, i)
  <2>1. k - 1 \in Nat
    OBVIOUS
  <2> QED BY <2>1, WholeIs
<1>2. Block(u, k).i = k
  BY DEF Block
<1> HIDE DEF old
<1>3. /\ k > Len(old) /\ ~(k <= Len(old))
      /\ \A i \in 1..k : i # k => i <= Len(old) /\ i \in 1..(k - 1)
  BY <1>1
<1>4. file \in Put(old, Block(u, k), last)
  BY DEF old
<1>5. file = [i \in 1..k |-> IF i = k THEN Block(u, k) ELSE IF i <= Len(old) THEN old[i] ELSE Torn]
  BY <1>2, <1>3, <1>4 DEF Put
<1>6. file = [i \in 1..k |-> Block(u, i)]
  BY <1>1, <1>3, <1>5
<1> QED BY <1>6 DEF Whole

\* So does reading it.
LEMMA AppendWhole ==
    ASSUME NEW u, NEW k \in Nat \ {0}
    PROVE  Append(Whole(u, k - 1), Block(u, k)) = Whole(u, k)
<1> DEFINE S == {Block(u, i) : i \in 1..k}
           old == Whole(u, k - 1)
           new == Whole(u, k)
<1>1. k - 1 \in Nat /\ k \in Nat /\ 1..(k - 1) \subseteq 1..k
  OBVIOUS
<1>2. old \in Seq(S)
  <2>1. old \in [1..(k - 1) -> S]
    BY <1>1 DEF Whole
  <2> QED BY <1>1, <2>1
<1>3. /\ Len(old) = k - 1 /\ \A i \in 1..(k - 1) : old[i] = Block(u, i)
      /\ new \in Seq(S) /\ Len(new) = k /\ \A i \in 1..k : new[i] = Block(u, i)
  BY <1>1, WholeIs, ZenonT(40)
<1>4. Block(u, k) \in S
  BY <1>1
<1> HIDE DEF S, old, new
<1> DEFINE app == Append(old, Block(u, k))
<1>5. /\ app \in Seq(S) /\ Len(app) = Len(old) + 1 /\ app[Len(old) + 1] = Block(u, k)
      /\ \A i \in 1..Len(old) : app[i] = old[i]
  BY <1>2, <1>4, AppendProperties
<1> HIDE DEF app
<1>6. Len(app) = k /\ app[k] = Block(u, k) /\ \A i \in 1..(k - 1) : app[i] = old[i]
  BY <1>1, <1>3, <1>5
<1>7. \A i \in 1..k : i = k \/ i \in 1..(k - 1)
  BY <1>1
<1>8. \A i \in 1..k : app[i] = new[i]
  BY <1>3, <1>6, <1>7
<1>9. app = new
  BY <1>3, <1>5, <1>6, <1>8, SeqEqual
<1> QED BY <1>9 DEF app, old, new

\* A file without torn rows is what benchmark_data answers.
LEMMA WholeIsShown ==
    ASSUME NEW u, NEW n \in Nat, csv = Whole(u, n)
    PROVE  BenchmarkData = Whole(u, n)
<1>1. \A i \in DOMAIN csv : csv[i] = Block(u, i)
  BY WholeIs
<1>2. Torn \notin {csv[i] : i \in DOMAIN csv}
  BY <1>1, BlockIsNotTorn
<1> QED BY <1>2 DEF BenchmarkData
-----------------------------------------------------------------------------
(***************************************************************************)
(* The steps of an upload.                                                 *)
(***************************************************************************)
\* What a step of an upload owes the invariant: if the upload is alone its files are
\* as Own says where it now stands, and unless it stands where it writes results, it
\* has left the result files alone, or its own in them.
LEMMA StepKeeps ==
    ASSUME IInv, NEW w \in Upload, pc[w] \notin Quiet,
           NEW s \in Stand, s # "idle", NEW p \in Nat, NEW o,
           Goes(w, s, p), UNCHANGED <<alone, crossed>>,
           orders' = [u \in Upload |-> IF u = w THEN o ELSE orders[u]],
           s \in Quiet \cup {"upload"} => o = <<>>,
           alone = {w} => Own(w)',
           \/ s \in {"rows", "tail"}
           \/ pc[w] \notin {"rows", "tail"} /\ csv' = csv /\ tail' = tail
           \/ alone = {w} => csv' = Whole(w, Blocks[w]) /\ tail' = Whole(w, 1)
    PROVE  IInv'
<1>1. StateInv /\ AloneInv /\ ChartInv
  BY DEF IInv
<1>2. pc \in [Upload -> Stand] /\ pos \in [Upload -> Nat]
  BY <1>1 DEF StateInv
<1>3. /\ pc' = [pc EXCEPT ![w] = s] /\ pos' = [pos EXCEPT ![w] = p]
      /\ alone' = alone /\ crossed' = crossed
  BY DEF Goes
<1> HIDE DEF Stand
<1>4. /\ pc' \in [Upload -> Stand] /\ pos' \in [Upload -> Nat]
      /\ \A u \in Upload : pc'[u] = IF u = w THEN s ELSE pc[u]
  BY <1>2, <1>3
<1>5. \A u \in Upload : u \in Active <=> pc[u] \notin Quiet
  BY DEF Active, Quiet
<1>6. w \in Active /\ Active' \subseteq Active
  <2>1. \A u \in Upload : u \in Active' <=> pc'[u] \notin Quiet
    BY DEF Active, Quiet
  <2>2. Active' \subseteq Upload
    BY DEF Active
  <2> QED BY <2>1, <2>2, <1>4, <1>5
<1>7. StateInv'
  <2>1. orders' = [u \in Upload |-> orders'[u]]
    OBVIOUS
  <2>2. \A u \in Upload : pc'[u] \in Quiet \cup {"upload"} => orders'[u] = <<>>
    BY <1>1, <1>4 DEF StateInv
  <2> QED BY <2>1, <2>2, <1>1, <1>3, <1>4 DEF StateInv
<1>8. AloneInv'
  <2> SUFFICES ASSUME NEW u \in Upload, alone' = {u}
               PROVE  Active' \subseteq {u} /\ pc'[u] # "idle" /\ Own(u)'
    BY DEF AloneInv
  <2>1. alone = {u} /\ Active \subseteq {u}
    BY <1>1, <1>3 DEF AloneInv
  <2>2. u = w
    BY <2>1, <1>6
  <2>3. Own(u)'
    BY <2>1, <2>2
  <2> QED BY <2>1, <2>2, <2>3, <1>4, <1>6
<1>9. ChartInv'
  <2> SUFFICES ASSUME ~crossed
               PROVE  /\ \A u \in Active' : alone' = {u}
                      /\ (\A u \in Upload : pc'[u] \notin {"rows", "tail"}) => Complete'
    BY <1>3 DEF ChartInv
  <2>1. alone = {w} /\ \A u \in Active' : alone' = {u}
    BY <1>1, <1>3, <1>6 DEF ChartInv
  <2>2. ASSUME \A u \in Upload : pc'[u] \notin {"rows", "tail"} PROVE Complete'
    <3>1. s \notin {"rows", "tail"}
      BY <2>2, <1>4
    <3>2. CASE pc[w] \notin {"rows", "tail"} /\ csv' = csv /\ tail' = tail
      <4>1. \A u \in Upload : pc[u] \notin {"rows", "tail"}
        BY <3>2, <2>2, <1>4
      <4>2. Complete
        BY <4>1, <1>1 DEF ChartInv
      <4> QED BY <4>2, <3>2 DEF Complete
    <3>3. CASE csv' = Whole(w, Blocks[w]) /\ tail' = Whole(w, 1)
      BY <3>3 DEF Complete
    <3> QED BY <3>1, <3>2, <3>3, <2>1
  <2> QED BY <2>1, <2>2
<1> QED BY <1>7, <1>8, <1>9 DEF IInv

\* What holds of an upload at work before its step.
LEMMA AtWork ==
    ASSUME IInv, NEW w \in Upload
    PROVE  /\ orders = [u \in Upload |-> orders[u]]
           /\ pos[w] \in Nat /\ Blocks[w] \in Nat
           /\ alone = {w} => Own(w)
BY BenchAssumption DEF IInv, StateInv, AloneInv

\* A handler empties the file of orders.
LEMMA OpenInputKeeps ==
    ASSUME IInv, NEW u \in Upload, OpenInput(u)
    PROVE  IInv'
<1>1. StateInv /\ AloneInv /\ ChartInv
  BY DEF IInv
<1>2. /\ u \notin Active /\ pc' = [pc EXCEPT ![u] = "upload"] /\ pos' = [pos EXCEPT ![u] = 1]
      /\ input' = <<>> /\ csv' = csv /\ tail' = tail /\ orders' = orders
      /\ alone' = (IF Active = {} THEN {u} ELSE {})
      /\ crossed' = (crossed \/ Active # {})
  BY DEF OpenInput, Goes, Opened
<1>3. pc \in [Upload -> Stand] /\ pos \in [Upload -> Nat]
  BY <1>1 DEF StateInv
<1>4. "upload" \in Stand /\ "upload" \notin Quiet
  BY DEF Stand, Quiet, Ended
<1> HIDE DEF Stand
<1>5. /\ pc' \in [Upload -> Stand] /\ pos' \in [Upload -> Nat]
      /\ \A v \in Upload : pc'[v] = IF v = u THEN "upload" ELSE pc[v]
      /\ pos'[u] = 1
  BY <1>2, <1>3, <1>4
<1>6. \A v : /\ v \in Active <=> v \in Upload /\ pc[v] \notin Quiet
             /\ v \in Active' <=> v \in Upload /\ pc'[v] \notin Quiet
  BY DEF Active, Quiet
<1>7. StateInv'
  <2>1. orders[u] = <<>>
    BY <1>1, <1>2, <1>6 DEF StateInv
  <2>2. orders' = [v \in Upload |-> orders'[v]]
    BY <1>1, <1>2 DEF StateInv
  <2>3. \A v \in Upload : pc'[v] \in Quiet \cup {"upload"} => orders'[v] = <<>>
    BY <2>1, <1>1, <1>2, <1>5 DEF StateInv
  <2>4. crossed' \in BOOLEAN
    BY <1>2
  <2> QED BY <2>2, <2>3, <2>4, <1>5 DEF StateInv
<1>8. CASE Active = {}
  <2>1. alone' = {u} /\ crossed' = crossed
    BY <1>1, <1>2, <1>8 DEF StateInv
  <2>2. Active' = {u}
    BY <1>4, <1>5, <1>6, <1>8
  <2>3. Own(u)'
    <3>1. Whole(u, 0) = <<>> /\ Blocks[u] \in Nat
      BY WholeIs, BenchAssumption
    <3>2. pos'[u] - 1 = 0 /\ 1 \in 1..(Blocks[u] + 1)
      BY <3>1, <1>5
    <3> QED BY <3>1, <3>2, <1>2, <1>5 DEF Own
  <2>4. AloneInv'
    BY <2>1, <2>2, <2>3, <1>5 DEF AloneInv
  <2>5. ChartInv'
    <3>1. \A v \in Upload : pc[v] \notin {"rows", "tail"}
      BY <1>6, <1>8 DEF Quiet, Ended
    <3>2. ~crossed => Complete'
      BY <3>1, <1>1, <1>2 DEF ChartInv, Complete
    <3> QED BY <3>2, <2>1, <2>2 DEF ChartInv
  <2> QED BY <2>4, <2>5, <1>7 DEF IInv
<1>9. CASE Active # {}
  <2>1. alone' = {} /\ crossed'
    BY <1>2, <1>9
  <2>2. AloneInv' /\ ChartInv'
    BY <2>1 DEF AloneInv, ChartInv
  <2> QED BY <2>2, <1>7 DEF IInv
<1> QED BY <1>8, <1>9

\* The handler writes the next block of orders.
LEMMA WriteInputKeeps ==
    ASSUME IInv, NEW w \in Upload, WriteInput(w)
    PROVE  IInv'
<1>1. /\ pc[w] = "upload" /\ pos[w] <= Blocks[w]
      /\ input' \in Put(input, Block(w, pos[w]), pos[w] = Blocks[w])
      /\ Goes(w, "upload", pos[w] + 1) /\ UNCHANGED <<csv, tail, orders, alone, crossed>>
  BY DEF WriteInput, History
<1>2. /\ orders = [u \in Upload |-> orders[u]] /\ pos[w] \in Nat /\ Blocks[w] \in Nat
      /\ alone = {w} => Own(w)
  BY AtWork
<1>3. "upload" \in Stand /\ "upload" \notin Quiet
  BY DEF Stand, Quiet, Ended
<1>4. pc'[w] = "upload" /\ pos'[w] = pos[w] + 1
  BY <1>1, <1>3 DEF Goes, IInv, StateInv
<1>5. ASSUME alone = {w} PROVE Own(w)'
  <2>1. pos[w] \in Nat \ {0} /\ input = Whole(w, pos[w] - 1)
    BY <1>1, <1>2, <1>5 DEF Own
  <2>2. input' = Whole(w, pos[w])
    BY <2>1, <1>1, PutWhole
  <2>3. pos'[w] - 1 = pos[w] /\ pos'[w] \in 1..(Blocks[w] + 1)
    BY <2>1, <1>1, <1>2, <1>4
  <2> QED BY <2>2, <2>3, <1>4 DEF Own
<1>6. orders[w] = <<>>
  BY <1>1 DEF IInv, StateInv
<1>7. orders' = [u \in Upload |-> IF u = w THEN orders[w] ELSE orders[u]]
  BY <1>1, <1>2
<1>8. pos[w] + 1 \in Nat
  BY <1>2
<1> QED BY <1>1, <1>3, <1>5, <1>6, <1>7, <1>8, StepKeeps

\* The process is started, or cannot be.
LEMMA ExecKeeps ==
    ASSUME IInv, NEW w \in Upload, Exec(w) \/ ExecFails(w)
    PROVE  IInv'
<1>1. PICK s \in {"read", "failed"} :
        /\ pc[w] = "upload" /\ pos[w] > Blocks[w]
        /\ Goes(w, s, 1) /\ UNCHANGED <<input, csv, tail, orders, alone, crossed>>
  BY DEF Exec, ExecFails, History, files
<1>2. /\ orders = [u \in Upload |-> orders[u]] /\ pos[w] \in Nat /\ Blocks[w] \in Nat
      /\ alone = {w} => Own(w)
  BY AtWork
<1>3. s \in Stand /\ s # "idle" /\ "upload" \notin Quiet
  BY DEF Stand, Quiet, Ended
<1>4. pc'[w] = s /\ pos'[w] = 1
  BY <1>1, <1>3 DEF Goes, IInv, StateInv
<1>5. orders[w] = <<>> /\ orders' = [u \in Upload |-> IF u = w THEN orders[w] ELSE orders[u]]
  BY <1>1, <1>2 DEF IInv, StateInv
<1>6. ASSUME alone = {w} PROVE Own(w)'
  <2>1. input = Whole(w, Blocks[w])
    <3>1. pos[w] \in 1..(Blocks[w] + 1) /\ input = Whole(w, pos[w] - 1)
      BY <1>1, <1>2, <1>6 DEF Own
    <3>2. pos[w] - 1 = Blocks[w]
      BY <3>1, <1>1, <1>2
    <3> QED BY <3>1, <3>2
  <2>2. pos'[w] - 1 = 0 /\ 1 \in 1..(Blocks[w] + 1)
    BY <1>2, <1>4
  <2>3. orders'[w] = Whole(w, 0)
    BY <1>1, <1>5, WholeIs
  <2> QED BY <2>1, <2>2, <2>3, <1>1, <1>4 DEF Own
<1> QED BY <1>1, <1>3, <1>5, <1>6, StepKeeps

\* The benchmark reads a block of orders.
LEMMA ReadInputKeeps ==
    ASSUME IInv, NEW w \in Upload, ReadInput(w)
    PROVE  IInv'
<1>1. PICK b \in IF input[pos[w]] = Torn THEN {[of |-> x] : x \in {"torn"} \cup Orders}
                 ELSE {input[pos[w]]} :
        orders' = [orders EXCEPT ![w] = Append(@, b)]
  BY DEF ReadInput
<1>2. /\ pc[w] = "read" /\ pos[w] <= Len(input)
      /\ Goes(w, "read", pos[w] + 1) /\ UNCHANGED <<input, csv, tail, alone, crossed>>
  BY DEF ReadInput, History, files
<1>3. /\ orders = [u \in Upload |-> orders[u]] /\ pos[w] \in Nat /\ Blocks[w] \in Nat
      /\ alone = {w} => Own(w)
  BY AtWork
<1>4. "read" \in Stand /\ "read" \notin Quiet
  BY DEF Stand, Quiet, Ended
<1>5. pc'[w] = "read" /\ pos'[w] = pos[w] + 1
  BY <1>2, <1>4 DEF Goes, IInv, StateInv
<1> DEFINE o == Append(orders[w], b)
<1>6. orders' = [u \in Upload |-> IF u = w THEN o ELSE orders[u]]
  BY <1>1, <1>3
<1>7. ASSUME alone = {w} PROVE Own(w)'
  <2>1. /\ pos[w] \in 1..(Blocks[w] + 1) /\ input = Whole(w, Blocks[w])
        /\ orders[w] = Whole(w, pos[w] - 1)
    BY <1>2, <1>3, <1>7 DEF Own
  <2>2. Len(input) = Blocks[w] /\ \A i \in 1..Blocks[w] : input[i] = Block(w, i)
    BY <2>1, <1>3, WholeIs
  <2>3. pos[w] \in 1..Blocks[w] /\ pos[w] \in Nat \ {0}
    BY <2>1, <2>2, <1>2, <1>3
  <2>4. b = Block(w, pos[w])
    BY <2>2, <2>3, <1>1, BlockIsNotTorn
  <2>5. o = Whole(w, pos[w])
    BY <2>1, <2>3, <2>4, AppendWhole
  <2>6. pos'[w] - 1 = pos[w] /\ pos'[w] \in 1..(Blocks[w] + 1)
    BY <2>3, <1>3, <1>5
  <2> HIDE DEF o
  <2>7. orders'[w] = Whole(w, pos[w])
    BY <2>5, <1>6
  <2> QED BY <2>1, <2>6, <2>7, <1>2, <1>5 DEF Own
<1> HIDE DEF o
<1>8. pos[w] + 1 \in Nat /\ "read" # "upload"
  BY <1>3
<1> QED BY <1>2, <1>4, <1>6, <1>7, <1>8, StepKeeps

\* It comes to the end of the file.
LEMMA ReadInputEndsKeeps ==
    ASSUME IInv, NEW w \in Upload, ReadInputEnds(w)
    PROVE  IInv'
<1>1. /\ pc[w] = "read" /\ pos[w] > Len(input)
      /\ Goes(w, "measure", 1) /\ UNCHANGED <<input, csv, tail, orders, alone, crossed>>
  BY DEF ReadInputEnds, History, files
<1>2. /\ orders = [u \in Upload |-> orders[u]] /\ pos[w] \in Nat /\ Blocks[w] \in Nat
      /\ alone = {w} => Own(w)
  BY AtWork
<1>3. "measure" \in Stand /\ "measure" # "upload" /\ {"measure", "read"} \cap Quiet = {}
  BY DEF Stand, Quiet, Ended
<1>4. pc'[w] = "measure" /\ pos'[w] = 1
  BY <1>1, <1>3 DEF Goes, IInv, StateInv
<1>5. orders' = [u \in Upload |-> IF u = w THEN orders[w] ELSE orders[u]]
  BY <1>1, <1>2
<1>6. ASSUME alone = {w} PROVE Own(w)'
  <2>1. /\ pos[w] \in 1..(Blocks[w] + 1) /\ input = Whole(w, Blocks[w])
        /\ orders[w] = Whole(w, pos[w] - 1)
    BY <1>1, <1>2, <1>6 DEF Own
  <2>2. Len(input) = Blocks[w]
    BY <2>1, <1>2, WholeIs
  <2>3. pos[w] - 1 = Blocks[w]
    BY <2>1, <2>2, <1>1, <1>2
  <2> QED BY <2>1, <2>3, <1>1, <1>4 DEF Own
<1> QED BY <1>1, <1>3, <1>5, <1>6, StepKeeps

\* Without orders it ends and leaves the result files as they are.
LEMMA NoResultsKeeps ==
    ASSUME IInv, NEW w \in Upload, NoResults(w)
    PROVE  IInv'
<1>1. /\ pc[w] = "measure" /\ orders[w] = <<>>
      /\ Goes(w, "done", 1) /\ UNCHANGED <<input, csv, tail, orders, alone, crossed>>
  BY DEF NoResults, History, files
<1>2. /\ orders = [u \in Upload |-> orders[u]] /\ Blocks[w] \in Nat
      /\ alone = {w} => Own(w)
  BY AtWork
<1>3. "done" \in Stand /\ "measure" \notin Quiet
  BY DEF Stand, Quiet, Ended
<1>4. pc'[w] = "done"
  BY <1>1, <1>3 DEF Goes, IInv, StateInv
<1>5. orders' = [u \in Upload |-> IF u = w THEN <<>> ELSE orders[u]]
  BY <1>1, <1>2
<1>6. ASSUME alone = {w} PROVE Own(w)'
  <2>1. orders[w] = Whole(w, Blocks[w])
    BY <1>1, <1>2, <1>6 DEF Own
  <2>2. Blocks[w] = 0
    <3>1. Len(Whole(w, Blocks[w])) = Blocks[w]
      BY <1>2, WholeIs
    <3>2. Whole(w, Blocks[w]) = <<>> /\ Len(<<>>) = 0
      BY <2>1, <1>1
    <3> QED BY <3>1, <3>2
  <2> QED BY <2>2, <1>2, <1>4 DEF Own
<1> QED BY <1>1, <1>3, <1>5, <1>6, StepKeeps

\* It empties the file of results ...
LEMMA OpenCsvKeeps ==
    ASSUME IInv, NEW w \in Upload, OpenCsv(w)
    PROVE  IInv'
<1>1. /\ pc[w] = "measure" /\ csv' = <<>>
      /\ Goes(w, "rows", 1) /\ UNCHANGED <<input, tail, orders, alone, crossed>>
  BY DEF OpenCsv, History, Opened
<1>2. /\ orders = [u \in Upload |-> orders[u]] /\ Blocks[w] \in Nat
      /\ alone = {w} => Own(w)
  BY AtWork
<1>3. "rows" \in Stand /\ {"measure", "rows"} \cap Quiet = {}
  BY DEF Stand, Quiet, Ended
<1>4. pc'[w] = "rows" /\ pos'[w] = 1
  BY <1>1, <1>3 DEF Goes, IInv, StateInv
<1>5. orders' = [u \in Upload |-> IF u = w THEN orders[w] ELSE orders[u]]
  BY <1>1, <1>2
<1>6. ASSUME alone = {w} PROVE Own(w)'
  <2>1. orders[w] = Whole(w, Blocks[w])
    BY <1>1, <1>2, <1>6 DEF Own
  <2>2. csv' = Whole(w, 0)
    BY <1>1, WholeIs
  <2>3. pos'[w] - 1 = 0 /\ pos'[w] \in 1..(Blocks[w] + 1)
    BY <1>2, <1>4
  <2> QED BY <2>1, <2>2, <2>3, <1>1, <1>4 DEF Own
<1> QED BY <1>1, <1>3, <1>5, <1>6, StepKeeps

\* ... and writes a block of them for each block of orders, ...
LEMMA WriteRowsKeeps ==
    ASSUME IInv, NEW w \in Upload, WriteRows(w)
    PROVE  IInv'
<1>1. /\ pc[w] = "rows" /\ pos[w] <= Len(orders[w])
      /\ csv' \in Put(csv, Block(w, pos[w]), pos[w] = Len(orders[w]))
      /\ Goes(w, "rows", pos[w] + 1) /\ UNCHANGED <<input, tail, orders, alone, crossed>>
  BY DEF WriteRows, History
<1>2. /\ orders = [u \in Upload |-> orders[u]] /\ pos[w] \in Nat /\ Blocks[w] \in Nat
      /\ alone = {w} => Own(w)
  BY AtWork
<1>3. "rows" \in Stand /\ "rows" \notin Quiet
  BY DEF Stand, Quiet, Ended
<1>4. pc'[w] = "rows" /\ pos'[w] = pos[w] + 1
  BY <1>1, <1>3 DEF Goes, IInv, StateInv
<1>5. orders' = [u \in Upload |-> IF u = w THEN orders[w] ELSE orders[u]]
  BY <1>1, <1>2
<1>6. ASSUME alone = {w} PROVE Own(w)'
  <2>1. /\ pos[w] \in Nat \ {0} /\ csv = Whole(w, pos[w] - 1)
        /\ orders[w] = Whole(w, Blocks[w])
    BY <1>1, <1>2, <1>6 DEF Own
  <2>2. Len(orders[w]) = Blocks[w]
    <3>1. Len(Whole(w, Blocks[w])) = Blocks[w]
      BY <1>2, WholeIs
    <3> QED BY <2>1, <3>1
  <2>3. csv' = Whole(w, pos[w])
    BY <2>1, <1>1, PutWhole
  <2>4. pos'[w] - 1 = pos[w] /\ pos'[w] \in 1..(Blocks[w] + 1)
    BY <2>1, <2>2, <1>1, <1>2, <1>4
  <2> QED BY <2>1, <2>3, <2>4, <1>1, <1>4 DEF Own
<1>7. pos[w] + 1 \in Nat
  BY <1>2
<1> QED BY <1>1, <1>3, <1>5, <1>6, <1>7, StepKeeps

\* ... empties the file of percentiles, ...
LEMMA OpenTailKeeps ==
    ASSUME IInv, NEW w \in Upload, OpenTail(w)
    PROVE  IInv'
<1>1. /\ pc[w] = "rows" /\ pos[w] > Len(orders[w]) /\ tail' = <<>>
      /\ Goes(w, "tail", 1) /\ UNCHANGED <<input, csv, orders, alone, crossed>>
  BY DEF OpenTail, History, Opened
<1>2. /\ orders = [u \in Upload |-> orders[u]] /\ pos[w] \in Nat /\ Blocks[w] \in Nat
      /\ alone = {w} => Own(w)
  BY AtWork
<1>3. "tail" \in Stand /\ {"rows", "tail"} \cap Quiet = {}
  BY DEF Stand, Quiet, Ended
<1>4. pc'[w] = "tail"
  BY <1>1, <1>3 DEF Goes, IInv, StateInv
<1>5. orders' = [u \in Upload |-> IF u = w THEN orders[w] ELSE orders[u]]
  BY <1>1, <1>2
<1>6. ASSUME alone = {w} PROVE Own(w)'
  <2>1. /\ pos[w] \in 1..(Blocks[w] + 1) /\ csv = Whole(w, pos[w] - 1)
        /\ orders[w] = Whole(w, Blocks[w])
    BY <1>1, <1>2, <1>6 DEF Own
  <2>2. Len(orders[w]) = Blocks[w]
    <3>1. Len(Whole(w, Blocks[w])) = Blocks[w]
      BY <1>2, WholeIs
    <3> QED BY <2>1, <3>1
  <2>3. pos[w] - 1 = Blocks[w]
    BY <2>1, <2>2, <1>1, <1>2
  <2> QED BY <2>1, <2>3, <1>1, <1>4 DEF Own
<1> QED BY <1>1, <1>3, <1>5, <1>6, StepKeeps

\* ... and writes those.
LEMMA WriteTailKeeps ==
    ASSUME IInv, NEW w \in Upload, WriteTail(w)
    PROVE  IInv'
<1>1. /\ pc[w] = "tail" /\ tail' \in Put(tail, Block(w, 1), TRUE)
      /\ orders' = [orders EXCEPT ![w] = <<>>]
      /\ Goes(w, "done", 1) /\ UNCHANGED <<input, csv, alone, crossed>>
  BY DEF WriteTail, History
<1>2. /\ orders = [u \in Upload |-> orders[u]] /\ Blocks[w] \in Nat
      /\ alone = {w} => Own(w)
  BY AtWork
<1>3. "done" \in Stand /\ "tail" \notin Quiet
  BY DEF Stand, Quiet, Ended
<1>4. pc'[w] = "done"
  BY <1>1, <1>3 DEF Goes, IInv, StateInv
<1>5. orders' = [u \in Upload |-> IF u = w THEN <<>> ELSE orders[u]]
  BY <1>1, <1>2
<1>6. ASSUME alone = {w} PROVE csv' = Whole(w, Blocks[w]) /\ tail' = Whole(w, 1)
  <2>1. csv = Whole(w, Blocks[w]) /\ tail = <<>>
    BY <1>1, <1>2, <1>6 DEF Own
  <2>2. PICK k \in Nat \ {0} : k = 1 /\ k - 1 = 0
    OBVIOUS
  <2>3. tail = Whole(w, k - 1)
    <3>1. Whole(w, 0) = <<>>
      BY <1>2, WholeIs
    <3> QED BY <2>1, <2>2, <3>1
  <2>4. tail' \in Put(Whole(w, k - 1), Block(w, k), TRUE)
    BY <1>1, <2>2, <2>3
  <2>5. tail' = Whole(w, k)
    BY <2>4, PutWhole
  <2> QED BY <2>1, <2>2, <2>5, <1>1
<1>7. alone = {w} => Own(w)'
  BY <1>4, <1>6 DEF Own
<1>8. pc[w] \notin Quiet /\ UNCHANGED <<alone, crossed>> /\ "done" # "idle"
  BY <1>1, <1>3
<1>9. alone = {w} => csv' = Whole(w, Blocks[w]) /\ tail' = Whole(w, 1)
  BY <1>6
<1>10. PICK s \in Stand, p \in Nat : s = "done" /\ p = 1
  BY <1>3
<1>11. Goes(w, s, p) /\ s # "idle"
  BY <1>1, <1>8, <1>10, Zenon
<1> QED BY <1>5, <1>7, <1>8, <1>9, <1>11, StepKeeps

-----------------------------------------------------------------------------
(***************************************************************************)
(* The theorems.                                                           *)
(***************************************************************************)
\* The invariant holds at the start.
LEMMA InitHolds ==
    ASSUME Init
    PROVE  IInv
<1>1. /\ csv = <<>> /\ tail = <<>> /\ alone = {} /\ crossed = FALSE
      /\ pc = [u \in Upload |-> "idle"] /\ pos = [u \in Upload |-> 1]
      /\ orders = [u \in Upload |-> <<>>]
  BY DEF Init
<1>2. "idle" \in Stand
  BY DEF Stand, Quiet
<1>3. StateInv
  <2> HIDE DEF Stand
  <2> QED BY <1>1, <1>2 DEF StateInv
<1>4. AloneInv
  BY <1>1 DEF AloneInv
<1>5. ChartInv
  BY <1>1 DEF ChartInv, Active, Complete
<1> QED BY <1>3, <1>4, <1>5 DEF IInv

\* Every step keeps the invariant.
LEMMA NextKeeps ==
    ASSUME IInv, [Next]_vars
    PROVE  IInv'
<1>1. CASE UNCHANGED <<files, pc, pos, orders, alone, crossed>>
  BY <1>1 DEF files, IInv, StateInv, AloneInv, ChartInv, Active, Own, Complete
<1>2. CASE UNCHANGED vars \/ Proxies
  BY <1>1, <1>2 DEF vars, files, Proxies, History
<1>3. ASSUME NEW u \in Upload, OpenInput(u) \/ Request(u) PROVE IInv'
  BY <1>3, OpenInputKeeps, WriteInputKeeps, ExecKeeps, ReadInputKeeps, ReadInputEndsKeeps,
     NoResultsKeeps, OpenCsvKeeps, WriteRowsKeeps, OpenTailKeeps, WriteTailKeeps
     DEF Request
<1> QED BY <1>2, <1>3 DEF Next

\* The invariant holds in every reachable state, for any browsers, bodies and orders.
THEOREM Invariance == Spec => []IInv
BY InitHolds, NextKeeps, PTL DEF Spec

\* An upload that ran alone finds both result files its own when it is answered, whatever
\* earlier ones had left in them.
THEOREM AloneMeansOwn == Spec => []OwnResults
<1>1. IInv => OwnResults
  BY DEF IInv, AloneInv, Own, OwnResults
<1> QED BY <1>1, Invariance, PTL

\* Unless two uploads ran at one time the charts never mix two runs, and show one run
\* complete whenever no benchmark writes.
THEOREM ChartsAreOfOneRun == Spec => []ChartsOfOneRun
<1>1. ASSUME IInv, ~crossed
      PROVE  /\ \E u \in Upload : \E n \in 0..Blocks[u] : BenchmarkData = Whole(u, n)
             /\ (\A u \in Upload : pc[u] \notin {"rows", "tail"}) =>
                    \E u \in Upload : Shows(u, Blocks[u], 1) \/ Shows(u, 0, 0)
  <2>1. CASE \A u \in Upload : pc[u] \notin {"rows", "tail"}
    <3>1. Complete
      BY <2>1, <1>1 DEF IInv, ChartInv
    <3>2. CASE csv = <<>> /\ tail = <<>>
      <4>1. PICK u \in Upload : TRUE
        BY BenchAssumption
      <4>2. 0 \in Nat /\ Blocks[u] \in Nat /\ Whole(u, 0) = <<>>
        BY WholeIs, BenchAssumption
      <4>3. BenchmarkData = Whole(u, 0)
        BY <3>2, <4>2, WholeIsShown
      <4>4. 0 \in 0..Blocks[u] /\ Shows(u, 0, 0)
        BY <3>2, <4>2, <4>3 DEF Shows, AcademicData
      <4> QED BY <4>3, <4>4
    <3>3. CASE \E u \in Upload : csv = Whole(u, Blocks[u]) /\ tail = Whole(u, 1)
      <4>1. PICK u \in Upload : csv = Whole(u, Blocks[u]) /\ tail = Whole(u, 1)
        BY <3>3
      <4>2. Blocks[u] \in Nat
        BY BenchAssumption
      <4>3. BenchmarkData = Whole(u, Blocks[u])
        BY <4>1, <4>2, WholeIsShown
      <4>4. Blocks[u] \in 0..Blocks[u] /\ Shows(u, Blocks[u], 1)
        BY <4>1, <4>2, <4>3 DEF Shows, AcademicData
      <4> QED BY <4>3, <4>4
    <3> QED BY <3>1, <3>2, <3>3 DEF Complete
  <2>2. CASE \E u \in Upload : pc[u] \in {"rows", "tail"}
    <3>1. PICK u \in Upload : pc[u] \in {"rows", "tail"}
      BY <2>2
    <3>2. u \in Active
      BY <3>1 DEF Active, Ended
    <3>3. Own(u) /\ Blocks[u] \in Nat
      BY <3>2, <1>1, BenchAssumption DEF IInv, ChartInv, AloneInv
    <3>4. \E n \in 0..Blocks[u] : csv = Whole(u, n)
      <4>1. CASE pc[u] = "rows"
        <5>1. pos[u] \in 1..(Blocks[u] + 1) /\ csv = Whole(u, pos[u] - 1)
          BY <4>1, <3>3 DEF Own
        <5>2. pos[u] - 1 \in 0..Blocks[u]
          BY <5>1, <3>3
        <5> QED BY <5>1, <5>2
      <4>2. CASE pc[u] = "tail"
        <5>1. csv = Whole(u, Blocks[u]) /\ Blocks[u] \in 0..Blocks[u]
          BY <4>2, <3>3 DEF Own
        <5> QED BY <5>1
      <4> QED BY <3>1, <4>1, <4>2
    <3>5. PICK n \in 0..Blocks[u] : csv = Whole(u, n)
      BY <3>4
    <3>6. BenchmarkData = Whole(u, n)
      BY <3>5, WholeIsShown
    <3> QED BY <3>6, <2>2
  <2> QED BY <2>1, <2>2
<1>2. IInv => ChartsOfOneRun
  BY <1>1 DEF ChartsOfOneRun
<1> QED BY <1>2, Invariance, PTL
=============================================================================
