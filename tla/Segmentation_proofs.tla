------------------------- MODULE Segmentation_proofs -------------------------
(* Theorems about Segmentation, for texts and segments of any length. *)
EXTENDS Segmentation, FiniteSetTheorems, WellFoundedInduction, TLAPS

(* Induction over the numbers, with the set of those of which a claim is true. *)
LEMMA LeastNumber ==
  ASSUME NEW T \in SUBSET Nat, T # {}
  PROVE  \E x \in T : \A y \in T : x <= y
<1> DEFINE R == {ss \in Nat \X Nat : ss[1] < ss[2]}
<1>1. IsWellFoundedOn(R, Nat)
  BY NatLessThanWellFounded DEF OpToRel
<1>2. \A x, y \in Nat : <<x, y>> \in R <=> x < y
  OBVIOUS
<1> HIDE DEF R
<1>3. PICK x \in T : \A y \in T : ~ (<<y, x>> \in R)
  BY <1>1, WFMin
<1>4. \A y \in T : ~ (y < x)
  BY <1>2, <1>3
<1> QED
  BY <1>4

LEMMA AllNumbers ==
  ASSUME NEW T, 0 \in T, \A k \in Nat : k \in T => k + 1 \in T
  PROVE  Nat \subseteq T
<1> DEFINE Others == Nat \ T
<1> SUFFICES ASSUME Others # {} PROVE FALSE
  OBVIOUS
<1>1. PICK x \in Others : \A y \in Others : x <= y
  BY LeastNumber
<1>2. x # 0 /\ x - 1 \in Nat /\ ~ (x <= x - 1) /\ (x - 1) + 1 = x
  OBVIOUS
<1>3. x - 1 \in T
  BY <1>1, <1>2
<1> QED
  BY <1>2, <1>3

LEMMA LargestNumber ==
  ASSUME NEW n \in Nat, NEW S \in SUBSET (1..n), S # {}
  PROVE  Max(S) \in S /\ \A y \in S : Max(S) >= y
<1> DEFINE T == {k \in Nat : \E x \in S : k = n - x}
<1>1. T \in SUBSET Nat /\ \A x \in S : n - x \in T
  OBVIOUS
<1> HIDE DEF T
<1>2. PICK k \in T : \A j \in T : k <= j
  BY <1>1, LeastNumber
<1>3. PICK x \in S : k = n - x
  BY <1>2 DEF T
<1>4. ASSUME NEW y \in S PROVE x >= y
  <2>1. n - x <= n - y
    BY <1>1, <1>2, <1>3
  <2> QED
    BY <2>1
<1> QED
  BY <1>4 DEF Max

-----------------------------------------------------------------------------
(* Sums of the first k of n numbers, modulo 2^32. *)
IsSum(g, n, add) == g[0] = 0 /\ \A k \in 1..n : g[k] = (g[k - 1] + add[k]) % WORD

(* The function FoldLeft is the value of, over all sets of indices. *)
IsFold(f, n, add) ==
  f = [S \in SUBSET (1..n) |->
         IF S = {} THEN 0 ELSE (f[S \ {Max(S)}] + add[Max(S)]) % WORD]

LEMMA FoldExists ==
  ASSUME NEW n \in Nat, NEW add
  PROVE  \E f : IsFold(f, n, add)
<1> DEFINE T == {k \in Nat : \E f : IsFold(f, k, add)}
<1>1. 0 \in T
  <2> DEFINE f == [S \in SUBSET (1..0) |-> 0]
  <2>1. \A S \in SUBSET (1..0) : S = {}
    OBVIOUS
  <2>2. IsFold(f, 0, add)
    BY <2>1 DEF IsFold
  <2> QED
    BY <2>2
<1>2. ASSUME NEW k \in Nat, k \in T PROVE k + 1 \in T
  <2>1. PICK f : IsFold(f, k, add)
    BY <1>2
  <2> DEFINE g == [S \in SUBSET (1..(k + 1)) |->
                     IF k + 1 \in S THEN (f[S \ {k + 1}] + add[k + 1]) % WORD ELSE f[S]]
  <2>2. ASSUME NEW S \in SUBSET (1..(k + 1))
        PROVE  g[S] = IF S = {} THEN 0 ELSE (g[S \ {Max(S)}] + add[Max(S)]) % WORD
    <3>1. CASE k + 1 \in S
      <4>1. Max(S) = k + 1
        <5>1. k + 1 \in Nat /\ S # {}
          BY <3>1
        <5>2. Max(S) \in S /\ \A y \in S : Max(S) >= y
          BY <5>1, LargestNumber, Zenon
        <5>3. Max(S) \in 1..(k + 1) /\ Max(S) >= k + 1
          BY <3>1, <5>2
        <5> QED
          BY <5>3
      <4>2. S \ {k + 1} \in SUBSET (1..(k + 1)) /\ k + 1 \notin S \ {k + 1}
        OBVIOUS
      <4>3. g[S \ {k + 1}] = f[S \ {k + 1}]
        BY <4>2
      <4> QED
        BY <3>1, <4>1, <4>3
    <3>2. CASE k + 1 \notin S
      <4>1. S \in SUBSET (1..k)
        BY <3>2
      <4>2. f[S] = IF S = {} THEN 0 ELSE (f[S \ {Max(S)}] + add[Max(S)]) % WORD
        BY <2>1, <4>1 DEF IsFold
      <4>3. g[S] = f[S] /\ g[S \ {Max(S)}] = f[S \ {Max(S)}]
        BY <3>2
      <4> QED
        BY <4>2, <4>3
    <3> QED
      BY <3>1, <3>2
  <2>3. IsFold(g, k + 1, add)
    <3>1. g = [S \in SUBSET (1..(k + 1)) |-> g[S]]
      OBVIOUS
    <3> HIDE DEF g
    <3> QED
      BY <2>2, <3>1 DEF IsFold
  <2> HIDE DEF g
  <2> QED
    BY <2>3
<1> HIDE DEF T
<1>3. n \in T
  BY <1>1, <1>2, AllNumbers
<1> QED
  BY <1>3 DEF T

LEMMA FoldSums ==
  ASSUME NEW n \in Nat, NEW add, NEW f, IsFold(f, n, add)
  PROVE  \E g : IsSum(g, n, add) /\ g[n] = f[1..n]
<1> DEFINE g == [k \in 0..n |-> f[1..k]]
<1>1. g[0] = 0
  <2>1. 1..0 = {} /\ {} \in SUBSET (1..n)
    OBVIOUS
  <2> QED
    BY <2>1 DEF IsFold
<1>2. ASSUME NEW k \in 1..n PROVE g[k] = (g[k - 1] + add[k]) % WORD
  <2>1. k \in 1..k /\ 1..k \in SUBSET (1..n) /\ (1..k) \ {k} = 1..(k - 1) /\ k - 1 \in 0..n
        /\ k \in 0..n
    OBVIOUS
  <2>2. Max(1..k) = k
    <3>1. Max(1..k) \in 1..k /\ Max(1..k) >= k
      BY <2>1, LargestNumber
    <3> QED
      BY <3>1
  <2>3. f[1..k] = (f[1..(k - 1)] + add[k]) % WORD
    <3>1. 1..k # {}
      BY <2>1
    <3>2. f[1..k] = (f[(1..k) \ {Max(1..k)}] + add[Max(1..k)]) % WORD
      BY <2>1, <3>1 DEF IsFold
    <3> QED
      BY <2>1, <2>2, <3>2
  <2> QED
    BY <2>1, <2>3
<1>3. g[n] = f[1..n]
  OBVIOUS
<1> HIDE DEF g
<1> QED
  BY <1>1, <1>2, <1>3 DEF IsSum

LEMMA ServerSum ==
  ASSUME NEW data \in Seq(Bytes)
  PROVE  \E g : IsSum(g, Len(data), data) /\ g[Len(data)] = ServerChecksum(data)
<1>1. Len(data) \in Nat /\ DOMAIN data = 1..Len(data)
  OBVIOUS
<1>2. PICK f : f = CHOOSE e : IsFold(e, Len(data), data)
  OBVIOUS
<1>3. IsFold(f, Len(data), data)
  BY <1>1, <1>2, FoldExists
<1>4. ServerChecksum(data) = f[1..Len(data)]
  BY <1>1, <1>2 DEF ServerChecksum, FoldLeft, MapThenFoldSet, IsFold
<1> QED
  BY <1>1, <1>3, <1>4, FoldSums

Extended(data) == [i \in DOMAIN data |-> SignExtended(data[i])]

LEMMA ClientSum ==
  ASSUME NEW data \in Seq(Bytes)
  PROVE  \E g : IsSum(g, Len(data), Extended(data)) /\ g[Len(data)] = ClientChecksum(data)
<1> DEFINE n == Len(data)
           IsClientFold(f) ==
             f = [S \in SUBSET (1..n) |->
                    IF S = {} THEN 0
                    ELSE (f[S \ {Max(S)}] + SignExtended(data[Max(S)])) % WORD]
<1>1. n \in Nat /\ DOMAIN data = 1..n
  OBVIOUS
<1>2. \A S \in SUBSET (1..n) : S # {} => Extended(data)[Max(S)] = SignExtended(data[Max(S)])
  BY <1>1, LargestNumber DEF Extended
<1>3. PICK f : f = CHOOSE e : IsClientFold(e)
  OBVIOUS
<1>4. ClientChecksum(data) = f[1..n]
  BY <1>1, <1>3 DEF ClientChecksum, FoldLeft, MapThenFoldSet
<1> HIDE DEF n
<1>5. \A e : IsFold(e, n, Extended(data)) <=> IsClientFold(e)
  BY <1>2 DEF IsFold
<1>6. IsClientFold(f)
  <2>1. \E e : IsClientFold(e)
    BY <1>1, <1>5, FoldExists
  <2> HIDE DEF IsClientFold
  <2> QED
    BY <1>3, <2>1
<1>7. IsFold(f, n, Extended(data))
  BY <1>5, <1>6
<1> QED
  BY <1>1, <1>4, <1>7, FoldSums DEF n

-----------------------------------------------------------------------------
(* A sum over a segment does not reach 2^32. *)
LEMMA SumsFit ==
  ASSUME NEW k \in Nat, k <= max_segment_size
  PROVE  BYTE * k \in Nat /\ BYTE * k < WORD /\ BYTE * (k + 1) = BYTE * k + BYTE
<1>1. BYTE \in Nat /\ max_segment_size \in Nat /\ WORD > BYTE * max_segment_size /\ WORD \in Nat
  BY SegmentationAssumption
<1>2. BYTE * k <= BYTE * max_segment_size /\ BYTE * k \in Nat
  BY <1>1
<1>3. BYTE * (k + 1) = BYTE * k + BYTE
  BY <1>1
<1> QED
  BY <1>1, <1>2, <1>3

LEMMA ExactSum ==
  ASSUME NEW n \in Nat, n <= max_segment_size, NEW data, \A i \in 1..n : data[i] \in Bytes,
         NEW g, IsSum(g, n, data)
  PROVE  \A k \in 0..n : /\ g[k] \in Nat /\ g[k] <= BYTE * k
                         /\ k > 0 => g[k] = g[k - 1] + data[k]
<1> DEFINE T == {k \in Nat : k <= n => /\ g[k] \in Nat /\ g[k] <= BYTE * k
                                       /\ k > 0 => g[k] = g[k - 1] + data[k]}
<1>1. BYTE \in Nat /\ max_segment_size \in Nat /\ WORD \in Nat
  BY SegmentationAssumption
<1>2. 0 \in T
  BY <1>1 DEF IsSum
<1>3. ASSUME NEW k \in Nat, k \in T PROVE k + 1 \in T
  <2> SUFFICES ASSUME k + 1 <= n
               PROVE  /\ g[k + 1] \in Nat /\ g[k + 1] <= BYTE * (k + 1)
                      /\ g[k + 1] = g[(k + 1) - 1] + data[k + 1]
    OBVIOUS
  <2>1. k + 1 \in 1..n /\ (k + 1) - 1 = k
    OBVIOUS
  <2>2. g[k] \in Nat /\ g[k] <= BYTE * k
    BY <1>3
  <2>3. data[k + 1] \in Nat /\ data[k + 1] < BYTE
    BY <1>1, <2>1 DEF Bytes
  <2>4. g[k + 1] = (g[k] + data[k + 1]) % WORD
    <3>1. g[k + 1] = (g[(k + 1) - 1] + data[k + 1]) % WORD
      BY <2>1 DEF IsSum
    <3> QED
      BY <2>1, <3>1
  <2>5. /\ BYTE * k \in Nat /\ BYTE * (k + 1) = BYTE * k + BYTE /\ BYTE * (k + 1) < WORD
        /\ BYTE * (k + 1) \in Nat
    BY <1>1, <2>1, SumsFit
  <2>6. PICK sum \in Nat : sum = g[k] + data[k + 1]
    BY <2>2, <2>3
  <2>7. sum <= BYTE * (k + 1) /\ sum < WORD
    BY <1>1, <2>2, <2>3, <2>5, <2>6
  <2>8. sum % WORD = sum
    BY <1>1, <2>7
  <2> QED
    BY <2>1, <2>4, <2>6, <2>7, <2>8
<1> HIDE DEF T
<1>4. \A k \in 0..n : k \in T
  BY <1>2, <1>3, AllNumbers
<1> QED
  BY <1>4 DEF T

Difference(g, d) == IF d <= g THEN g - d ELSE g - d + WORD

More(d, c) == IF IsAscii(c) THEN d ELSE d + BYTE

(* The client's sum is less than the server's by BYTE for each byte that is not ASCII. *)
Deficit(data, g, s, k, d) ==
  /\ d \in Nat /\ d <= BYTE * k
  /\ d = 0 <=> \A i \in 1..k : IsAscii(data[i])
  /\ s[k] = Difference(g[k], d)

LEMMA SignsAddUp ==
  ASSUME NEW g \in Nat, NEW d \in Nat, NEW c \in Bytes, d + BYTE < WORD, g + BYTE < WORD
  PROVE  (Difference(g, d) + SignExtended(c)) % WORD = Difference(g + c, More(d, c))
<1>1. BYTE \in Nat \ {0} /\ WORD \in Nat \ {0} /\ c \in Nat /\ c < BYTE
  BY SegmentationAssumption DEF Bytes
<1> DEFINE sum == Difference(g, d) + SignExtended(c)
           new == Difference(g + c, More(d, c))
<1>2. sum \in Nat /\ new \in Nat /\ new < WORD /\ (sum = new \/ sum = new + WORD)
  <2>1. CASE IsAscii(c)
    BY <1>1, <2>1 DEF SignExtended, Difference, More
  <2>2. CASE ~ IsAscii(c)
    BY <1>1, <2>2 DEF SignExtended, Difference, More
  <2> QED
    BY <2>1, <2>2
<1> HIDE DEF sum, new
<1>3. sum % WORD = new
  <2>1. CASE sum = new
    BY <1>1, <1>2, <2>1
  <2>2. CASE sum = new + WORD
    <3>1. WORD <= sum /\ sum < WORD + WORD /\ sum - WORD = new
      BY <1>1, <1>2, <2>2
    <3> QED
      BY <1>1, <1>2, <3>1
  <2> QED
    BY <1>2, <2>1, <2>2
<1> QED
  BY <1>3 DEF sum, new

LEMMA SumsDiffer ==
  ASSUME NEW data \in Seq(Bytes), Len(data) <= max_segment_size
  PROVE  ClientChecksum(data) = ServerChecksum(data) <=> IsAsciiText(data)
<1> DEFINE n == Len(data)
<1>1. /\ n \in Nat /\ DOMAIN data = 1..n /\ \A i \in 1..n : data[i] \in Bytes
      /\ n <= max_segment_size
  OBVIOUS
<1>2. PICK g : IsSum(g, n, data) /\ g[n] = ServerChecksum(data)
  BY ServerSum
<1>3. PICK s : IsSum(s, n, Extended(data)) /\ s[n] = ClientChecksum(data)
  BY ClientSum
<1> HIDE DEF n
<1>4. \A k \in 0..n : g[k] \in Nat /\ g[k] <= BYTE * k /\ (k > 0 => g[k] = g[k - 1] + data[k])
  BY <1>1, <1>2, ExactSum
<1>5. BYTE \in Nat \ {0} /\ WORD \in Nat /\ max_segment_size \in Nat
  BY SegmentationAssumption
<1> DEFINE T == {k \in Nat : k <= n => \E d : Deficit(data, g, s, k, d)}
<1>6. 0 \in T
  <2>1. g[0] = 0 /\ s[0] = 0
    BY <1>2, <1>3 DEF IsSum
  <2>2. Deficit(data, g, s, 0, 0)
    BY <1>5, <2>1 DEF Deficit, Difference
  <2> QED
    BY <2>2
<1>7. ASSUME NEW k \in Nat, k \in T PROVE k + 1 \in T
  <2> SUFFICES ASSUME k + 1 <= n PROVE \E d : Deficit(data, g, s, k + 1, d)
    OBVIOUS
  <2>1. /\ k + 1 \in 1..n /\ k \in 0..n /\ k + 1 \in 0..n /\ (k + 1) - 1 = k /\ k + 1 > 0
        /\ k <= n
    BY <1>1
  <2>2. PICK d : Deficit(data, g, s, k, d)
    BY <1>7, <2>1
  <2>3. PICK c \in Bytes : c = data[k + 1]
    BY <1>1, <2>1
  <2>4. PICK e : e = More(d, c)
    OBVIOUS
  <2>5. /\ g[k] \in Nat /\ g[k] <= BYTE * k /\ g[k + 1] = g[k] + c
        /\ d \in Nat /\ d <= BYTE * k
    BY <1>4, <2>1, <2>2, <2>3 DEF Deficit
  <2>6. /\ BYTE * k \in Nat /\ BYTE * (k + 1) = BYTE * k + BYTE /\ BYTE * (k + 1) < WORD
    <3>1. k <= max_segment_size /\ k + 1 \in Nat /\ k + 1 <= max_segment_size
      BY <1>1, <1>5, <2>1
    <3>2. BYTE * k \in Nat /\ BYTE * (k + 1) = BYTE * k + BYTE
      BY <3>1, SumsFit
    <3>3. BYTE * (k + 1) < WORD
      BY <3>1, SumsFit, Zenon
    <3> QED
      BY <3>2, <3>3
  <2>7. d + BYTE < WORD /\ g[k] + BYTE < WORD /\ e \in Nat /\ e <= BYTE * (k + 1)
    <3>1. PICK most \in Nat : most = BYTE * k
      BY <2>6
    <3>2. most + BYTE < WORD /\ g[k] <= most /\ d <= most
      BY <2>5, <2>6, <3>1
    <3>3. d + BYTE < WORD /\ g[k] + BYTE < WORD
      BY <1>5, <2>5, <3>2
    <3>4. e \in Nat /\ e <= most + BYTE
      BY <1>5, <2>4, <2>5, <3>2 DEF More
    <3> QED
      BY <2>6, <3>1, <3>3, <3>4
  <2>8. s[k + 1] = (s[k] + SignExtended(c)) % WORD
    <3>1. s[k + 1] = (s[(k + 1) - 1] + Extended(data)[k + 1]) % WORD
      BY <1>3, <2>1 DEF IsSum
    <3>2. Extended(data)[k + 1] = SignExtended(c)
      BY <1>1, <2>1, <2>3 DEF Extended
    <3> QED
      BY <2>1, <3>1, <3>2
  <2>9. s[k] = Difference(g[k], d)
    BY <2>2 DEF Deficit
  <2>10. s[k + 1] = Difference(g[k + 1], e)
    <3>1. (Difference(g[k], d) + SignExtended(c)) % WORD = Difference(g[k] + c, More(d, c))
      BY <2>3, <2>5, <2>7, SignsAddUp
    <3> QED
      BY <2>4, <2>5, <2>8, <2>9, <3>1
  <2>11. e = 0 <=> \A i \in 1..(k + 1) : IsAscii(data[i])
    <3>1. d = 0 <=> \A i \in 1..k : IsAscii(data[i])
      BY <2>2 DEF Deficit
    <3>2. e = 0 <=> d = 0 /\ IsAscii(c)
      BY <1>5, <2>4, <2>5 DEF More
    <3>3. 1..(k + 1) = (1..k) \cup {k + 1}
      OBVIOUS
    <3> QED
      BY <2>3, <3>1, <3>2, <3>3
  <2>12. Deficit(data, g, s, k + 1, e)
    BY <2>7, <2>10, <2>11 DEF Deficit
  <2> QED
    BY <2>12
<1> HIDE DEF T
<1>8. n \in T
  BY <1>1, <1>6, <1>7, AllNumbers
<1>9. PICK d : Deficit(data, g, s, n, d)
  BY <1>1, <1>8 DEF T
<1>10. /\ g[n] \in Nat /\ d \in Nat /\ d <= BYTE * n /\ BYTE * n < WORD /\ BYTE * n \in Nat
       /\ s[n] = Difference(g[n], d)
  BY <1>1, <1>4, <1>9, SumsFit DEF Deficit
<1>11. s[n] = g[n] <=> d = 0
  BY <1>5, <1>10 DEF Difference
<1> QED
  BY <1>1, <1>2, <1>3, <1>9, <1>11 DEF Deficit, IsAsciiText

(* A segment with one other byte has another checksum. *)
LEMMA OneByteChanged ==
  ASSUME NEW data \in Seq(Bytes), Len(data) <= max_segment_size,
         NEW i \in DOMAIN data, NEW c \in Bytes \ {data[i]}
  PROVE  ServerChecksum([data EXCEPT ![i] = c]) # ServerChecksum(data)
<1> DEFINE n == Len(data)
<1>1. PICK other : other = [data EXCEPT ![i] = c]
  OBVIOUS
<1>2. /\ n \in Nat /\ DOMAIN data = 1..n /\ \A k \in 1..n : data[k] \in Bytes
      /\ n <= max_segment_size /\ i \in 1..n
  OBVIOUS
<1>3. /\ other \in Seq(Bytes) /\ Len(other) = n /\ other[i] = c
      /\ \A k \in 1..n : other[k] \in Bytes /\ (k # i => other[k] = data[k])
  BY <1>1
<1>4. PICK g : IsSum(g, n, data) /\ g[n] = ServerChecksum(data)
  BY ServerSum
<1>5. PICK h : IsSum(h, n, other) /\ h[n] = ServerChecksum(other)
  BY <1>3, ServerSum
<1> HIDE DEF n
<1>6. \A k \in 0..n : g[k] \in Nat /\ (k > 0 => g[k] = g[k - 1] + data[k])
  <2>1. IsSum(g, n, data) /\ n \in Nat /\ n <= max_segment_size
        /\ \A k \in 1..n : data[k] \in Bytes
    BY <1>2, <1>4
  <2> QED
    BY <2>1, ExactSum, ZenonT(60)
<1>7. \A k \in 0..n : h[k] \in Nat /\ (k > 0 => h[k] = h[k - 1] + other[k])
  <2>1. IsSum(h, n, other) /\ n \in Nat /\ n <= max_segment_size
        /\ \A k \in 1..n : other[k] \in Bytes
    BY <1>2, <1>3, <1>5
  <2> QED
    BY <2>1, ExactSum, ZenonT(60)
<1>8. BYTE \in Nat /\ c \in Nat /\ data[i] \in Nat /\ c # data[i]
  BY SegmentationAssumption, <1>2 DEF Bytes
<1> DEFINE T == {k \in Nat : k <= n => h[k] = IF k < i THEN g[k] ELSE g[k] - data[i] + c}
<1>9. 0 \in T
  BY <1>2, <1>4, <1>5 DEF IsSum
<1>10. ASSUME NEW k \in Nat, k \in T PROVE k + 1 \in T
  <2> SUFFICES ASSUME k + 1 <= n
               PROVE  h[k + 1] = IF k + 1 < i THEN g[k + 1] ELSE g[k + 1] - data[i] + c
    OBVIOUS
  <2>1. k + 1 \in 0..n /\ k \in 0..n /\ k + 1 \in 1..n /\ k + 1 > 0 /\ (k + 1) - 1 = k
        /\ k <= n
    BY <1>2
  <2>2. h[k] = IF k < i THEN g[k] ELSE g[k] - data[i] + c
    BY <1>10, <2>1
  <2>3. g[k + 1] = g[k] + data[k + 1] /\ g[k] \in Nat
    BY <1>6, <2>1
  <2>4. h[k + 1] = h[k] + other[k + 1]
    BY <1>7, <2>1
  <2>5. data[k + 1] \in Nat
    BY <1>2, <1>8, <2>1 DEF Bytes
  <2>6. CASE k + 1 = i
    <3>1. data[k + 1] = data[i] /\ other[k + 1] = c /\ k < i /\ ~ (k + 1 < i)
      BY <1>2, <1>3, <2>6
    <3>2. h[k] = g[k]
      BY <2>2, <3>1
    <3>3. h[k + 1] = g[k] + c /\ g[k + 1] = g[k] + data[i]
      BY <2>3, <2>4, <3>1, <3>2
    <3>4. h[k + 1] = g[k + 1] - data[i] + c
      BY <1>8, <2>3, <3>3
    <3> QED
      BY <3>1, <3>4
  <2>7. CASE k + 1 < i
    <3>1. other[k + 1] = data[k + 1] /\ h[k] = g[k]
      BY <1>2, <1>3, <2>1, <2>2, <2>7
    <3> QED
      BY <2>3, <2>4, <2>7, <3>1
  <2>8. CASE k + 1 > i
    <3>1. other[k + 1] = data[k + 1] /\ h[k] = g[k] - data[i] + c
      BY <1>2, <1>3, <2>1, <2>2, <2>8
    <3> QED
      BY <1>2, <1>8, <2>3, <2>4, <2>5, <2>8, <3>1
  <2> QED
    BY <1>2, <2>6, <2>7, <2>8
<1> HIDE DEF T
<1>11. n \in T
  BY <1>2, <1>9, <1>10, AllNumbers
<1>12. h[n] = g[n] - data[i] + c /\ g[n] \in Nat
  BY <1>2, <1>6, <1>11 DEF T
<1>13. h[n] # g[n]
  BY <1>8, <1>12
<1> QED
  BY <1>1, <1>4, <1>5, <1>13

-----------------------------------------------------------------------------
(* What a receiver reads of a payload. *)
LEMMA EndExists ==
  ASSUME NEW data \in Seq(Bytes)
  PROVE  \E n \in 0..Len(data) : EndsAt(data, n)
<1> DEFINE T == {k \in 0..Len(data) : k = Len(data) \/ data[k + 1] = 0}
<1>1. Len(data) \in Nat
  OBVIOUS
<1>2. T \in SUBSET Nat /\ T # {}
  BY <1>1
<1>3. \A k \in T : k \in 0..Len(data) /\ (k = Len(data) \/ data[k + 1] = 0)
  OBVIOUS
<1>4. \A k \in 0..Len(data) : k \notin T => data[k + 1] # 0
  OBVIOUS
<1> HIDE DEF T
<1>5. PICK n \in T : \A k \in T : n <= k
  BY <1>2, LeastNumber
<1>6. ASSUME NEW i \in 1..n PROVE data[i] # 0
  <2>1. i - 1 \in 0..Len(data) /\ i - 1 < n /\ (i - 1) + 1 = i
    BY <1>1, <1>3, <1>5
  <2>2. n \in Nat /\ ~ (n <= i - 1)
    BY <1>1, <1>3, <1>5
  <2>3. i - 1 \notin T
    BY <1>5, <2>2
  <2>4. data[(i - 1) + 1] # 0
    BY <1>4, <2>1, <2>3
  <2> QED
    BY <2>1, <2>4
<1>7. n \in 0..Len(data) /\ (n < Len(data) => data[n + 1] = 0)
  BY <1>1, <1>3, <1>5
<1>8. EndsAt(data, n)
  BY <1>6, <1>7 DEF EndsAt
<1> QED
  BY <1>7, <1>8

LEMMA EndIsUnique ==
  ASSUME NEW data \in Seq(Bytes), NEW m, NEW n, EndsAt(data, m), EndsAt(data, n)
  PROVE  m = n
<1>1. m \in Nat /\ n \in Nat /\ m <= Len(data) /\ n <= Len(data) /\ Len(data) \in Nat
  BY DEF EndsAt
<1>2. ~ (m < n)
  <2> SUFFICES ASSUME m < n PROVE FALSE
    OBVIOUS
  <2>1. m + 1 \in 1..n /\ m < Len(data)
    BY <1>1
  <2> QED
    BY <2>1 DEF EndsAt
<1>3. ~ (n < m)
  <2> SUFFICES ASSUME n < m PROVE FALSE
    OBVIOUS
  <2>1. n + 1 \in 1..m /\ n < Len(data)
    BY <1>1
  <2> QED
    BY <2>1 DEF EndsAt
<1> QED
  BY <1>1, <1>2, <1>3

LEMMA ReadUpto ==
  ASSUME NEW data \in Seq(Bytes), NEW n, EndsAt(data, n)
  PROVE  AsRead(data) = SubSeq(data, 1, n) /\ Len(AsRead(data)) = n
<1>1. n \in 0..Len(data)
  BY DEF EndsAt
<1>2. (CHOOSE k \in 0..Len(data) : EndsAt(data, k)) = n
  <2>1. PICK m : m = CHOOSE k \in 0..Len(data) : EndsAt(data, k)
    OBVIOUS
  <2>2. EndsAt(data, m)
    BY <1>1, <2>1
  <2> QED
    BY <2>1, <2>2, EndIsUnique
<1>3. AsRead(data) = SubSeq(data, 1, n)
  BY <1>2 DEF AsRead
<1> QED
  BY <1>1, <1>3

LEMMA NoNulIsRead ==
  ASSUME NEW data \in Seq(Bytes), \A i \in 1..Len(data) : data[i] # 0
  PROVE  AsRead(data) = data
<1>1. EndsAt(data, Len(data))
  BY DEF EndsAt
<1>2. AsRead(data) = SubSeq(data, 1, Len(data))
  BY <1>1, ReadUpto
<1> QED
  BY <1>2

(* The sums of the prefixes of a segment. *)
LEMMA PrefixSum ==
  ASSUME NEW data \in Seq(Bytes), NEW g, IsSum(g, Len(data), data), NEW k \in 0..Len(data)
  PROVE  ServerChecksum(SubSeq(data, 1, k)) = g[k]
<1>1. PICK part : part = SubSeq(data, 1, k)
  OBVIOUS
<1>2. part \in Seq(Bytes) /\ Len(part) = k /\ \A i \in 1..k : part[i] = data[i]
  BY <1>1
<1>3. PICK h : IsSum(h, k, part) /\ h[k] = ServerChecksum(part)
  BY <1>2, ServerSum
<1>4. PICK n \in Nat : n = Len(data)
  OBVIOUS
<1>5. k \in Nat /\ k <= n
  BY <1>4
<1> DEFINE T == {j \in Nat : j <= k => h[j] = g[j]}
<1>6. 0 \in T
  BY <1>3 DEF IsSum
<1>7. ASSUME NEW j \in Nat, j \in T PROVE j + 1 \in T
  <2> SUFFICES ASSUME j + 1 <= k PROVE h[j + 1] = g[j + 1]
    OBVIOUS
  <2>1. j + 1 \in 1..k /\ j + 1 \in 1..n /\ (j + 1) - 1 = j /\ j <= k
    BY <1>5
  <2>2. h[j] = g[j]
    BY <1>7, <2>1
  <2>3. h[j + 1] = (h[(j + 1) - 1] + part[j + 1]) % WORD
    BY <1>3, <2>1 DEF IsSum
  <2>4. g[j + 1] = (g[(j + 1) - 1] + data[j + 1]) % WORD
    BY <1>4, <2>1 DEF IsSum
  <2>5. part[j + 1] = data[j + 1]
    BY <1>2, <2>1
  <2> QED
    BY <2>1, <2>2, <2>3, <2>4, <2>5
<1> HIDE DEF T
<1>8. k \in T
  BY <1>5, <1>6, <1>7, AllNumbers
<1>9. h[k] = g[k]
  BY <1>5, <1>8 DEF T
<1> QED
  BY <1>1, <1>3, <1>9

(* Two prefixes have the same sum if there are only NULs between their ends. *)
LEMMA SamePrefixSum ==
  ASSUME NEW data \in Seq(Bytes), Len(data) <= max_segment_size,
         NEW a \in 0..Len(data), NEW b \in 0..Len(data), a <= b
  PROVE  ServerChecksum(SubSeq(data, 1, a)) = ServerChecksum(SubSeq(data, 1, b))
           <=> \A i \in (a + 1)..b : data[i] = 0
<1>1. PICK n \in Nat : n = Len(data)
  OBVIOUS
<1>2. PICK g : IsSum(g, Len(data), data)
  BY ServerSum
<1>3. IsSum(g, n, data) /\ n <= max_segment_size /\ \A i \in 1..n : data[i] \in Bytes
  BY <1>1, <1>2
<1>4. \A k \in 0..n : g[k] \in Nat /\ (k > 0 => g[k] = g[k - 1] + data[k])
  BY <1>3, ExactSum, ZenonT(60)
<1>5. a \in Nat /\ b \in Nat /\ b <= n /\ a <= n
  BY <1>1
<1>6. \A i \in 1..n : data[i] \in Nat
  BY <1>3, SegmentationAssumption DEF Bytes
<1> DEFINE T == {j \in Nat : a + j <= b =>
                   /\ g[a] <= g[a + j]
                   /\ g[a] = g[a + j] <=> \A i \in (a + 1)..(a + j) : data[i] = 0}
<1>7. 0 \in T
  <2>1. a + 0 = a /\ (a + 1)..(a + 0) = {} /\ a \in 0..n
    BY <1>5
  <2>2. g[a] <= g[a]
    BY <1>4, <2>1
  <2> QED
    BY <2>1, <2>2
<1>8. ASSUME NEW j \in Nat, j \in T PROVE j + 1 \in T
  <2> SUFFICES ASSUME a + (j + 1) <= b
               PROVE  /\ g[a] <= g[a + (j + 1)]
                      /\ g[a] = g[a + (j + 1)]
                           <=> \A i \in (a + 1)..(a + (j + 1)) : data[i] = 0
    OBVIOUS
  <2>1. PICK k \in Nat : k = a + j
    BY <1>5
  <2>2. /\ a + (j + 1) = k + 1 /\ k + 1 \in 0..n /\ k + 1 \in 1..n /\ k \in 0..n /\ k <= b
        /\ k + 1 > 0 /\ (k + 1) - 1 = k /\ a \in 0..n
    BY <1>5, <2>1
  <2>3. g[a] <= g[k] /\ (g[a] = g[k] <=> \A i \in (a + 1)..k : data[i] = 0)
    BY <1>8, <2>1, <2>2
  <2>4. g[k + 1] = g[k] + data[k + 1] /\ data[k + 1] \in Nat /\ g[k] \in Nat /\ g[a] \in Nat
    BY <1>4, <1>6, <2>2
  <2>5. (a + 1)..(k + 1) = ((a + 1)..k) \cup {k + 1}
    BY <1>5, <2>1
  <2>6. g[a] <= g[k + 1]
    BY <2>3, <2>4
  <2>7. g[a] = g[k + 1] <=> g[a] = g[k] /\ data[k + 1] = 0
    BY <2>3, <2>4
  <2>8. g[a] = g[k + 1] <=> \A i \in (a + 1)..(k + 1) : data[i] = 0
    BY <2>3, <2>5, <2>7
  <2> QED
    BY <2>2, <2>6, <2>8
<1> HIDE DEF T
<1>9. b - a \in T /\ a + (b - a) = b
  <2>1. b - a \in Nat /\ a + (b - a) = b
    BY <1>5
  <2> QED
    BY <1>7, <1>8, <2>1, AllNumbers
<1>10. g[a] = g[b] <=> \A i \in (a + 1)..b : data[i] = 0
  BY <1>5, <1>9 DEF T
<1>11. ServerChecksum(SubSeq(data, 1, a)) = g[a] /\ ServerChecksum(SubSeq(data, 1, b)) = g[b]
  BY <1>2, PrefixSum
<1> QED
  BY <1>10, <1>11

-----------------------------------------------------------------------------
(* How a text is cut.  The first k segments are of the bytes up to Upto(text, k). *)
Upto(message, k) ==
  IF k * max_segment_size <= Len(message) THEN k * max_segment_size ELSE Len(message)

LEMMA Quotient ==
  ASSUME NEW a \in Nat, NEW m \in Nat \ {0}
  PROVE  /\ (a + m - 1) \div m \in Nat
         /\ a <= ((a + m - 1) \div m) * m /\ ((a + m - 1) \div m) * m < a + m
<1>1. PICK b \in Nat : b = a + m - 1
  OBVIOUS
<1>2. PICK q \in Int : q = b \div m
  BY <1>1
<1>3. q \in Nat /\ q * m <= b /\ b < q * m + m
  BY <1>1, <1>2
<1> QED
  BY <1>1, <1>2, <1>3

LEMMA Cut ==
  ASSUME NEW message \in Seq(Bytes), NEW i \in Nat, i < TotalSegments(message)
  PROVE  /\ Upto(message, i) \in Nat /\ Upto(message, i + 1) \in Nat
         /\ Upto(message, i) < Upto(message, i + 1)
         /\ Upto(message, i + 1) <= Upto(message, i) + max_segment_size
         /\ Upto(message, i + 1) <= Len(message)
         /\ SegmentData(message, i)
              = SubSeq(message, Upto(message, i) + 1, Upto(message, i + 1))
<1>1. PICK m \in Nat \ {0} : m = max_segment_size
  BY SegmentationAssumption
<1>2. PICK a \in Nat : a = Len(message)
  OBVIOUS
<1>3. PICK tot : tot = TotalSegments(message)
  OBVIOUS
<1>4. tot \in Nat /\ tot * m < a + m /\ i < tot
  BY <1>1, <1>2, <1>3, Quotient DEF TotalSegments
<1>5. i * m \in Nat /\ i * m < a /\ (i + 1) * m = i * m + m
  <2>1. (i + 1) * m = i * m + m /\ i * m \in Nat
    BY <1>1
  <2>2. (i + 1) * m <= tot * m
    BY <1>1, <1>4
  <2>3. PICK all \in Nat : all = tot * m
    BY <1>1, <1>4
  <2> QED
    BY <1>1, <1>2, <1>4, <2>1, <2>2, <2>3
<1>6. PICK start \in Nat : start = i * m
  BY <1>5
<1>7. start < a /\ (i + 1) * m = start + m
  BY <1>5, <1>6
<1>8. Upto(message, i) = start
  BY <1>1, <1>2, <1>6, <1>7 DEF Upto
<1>9. Upto(message, i + 1) = IF start + m <= a THEN start + m ELSE a
  BY <1>1, <1>2, <1>7 DEF Upto
<1>10. SegmentData(message, i) = SubSeq(message, start + 1,
                                        start + IF a - start < m THEN a - start ELSE m)
  BY <1>1, <1>2, <1>6 DEF SegmentData
<1>11. start + (IF a - start < m THEN a - start ELSE m) = IF start + m <= a THEN start + m ELSE a
  BY <1>1
<1> QED
  BY <1>1, <1>2, <1>7, <1>8, <1>9, <1>10, <1>11

LEMMA CutAll ==
  ASSUME NEW message \in Seq(Bytes)
  PROVE  /\ TotalSegments(message) \in Nat
         /\ Upto(message, 0) = 0 /\ Upto(message, TotalSegments(message)) = Len(message)
         /\ TotalSegments(message) = 0 <=> message = <<>>
<1>1. PICK m \in Nat \ {0} : m = max_segment_size
  BY SegmentationAssumption
<1>2. PICK a \in Nat : a = Len(message)
  OBVIOUS
<1>3. PICK tot : tot = TotalSegments(message)
  OBVIOUS
<1>4. tot \in Nat /\ a <= tot * m /\ tot * m < a + m
  BY <1>1, <1>2, <1>3, Quotient DEF TotalSegments
<1>5. Upto(message, tot) = a
  BY <1>1, <1>2, <1>4 DEF Upto
<1>6. Upto(message, 0) = 0
  BY <1>1, <1>2 DEF Upto
<1>7. tot = 0 <=> a = 0
  <2>1. CASE tot = 0
    BY <1>1, <1>4, <2>1
  <2>2. CASE tot # 0
    <3>1. m <= tot * m
      BY <1>1, <1>4, <2>2
    <3>2. PICK all \in Nat : all = tot * m
      BY <1>1, <1>4
    <3> QED
      BY <1>1, <1>4, <2>2, <3>1, <3>2
  <2> QED
    BY <2>1, <2>2
<1>8. a = 0 <=> message = <<>>
  BY <1>2
<1> QED
  BY <1>2, <1>3, <1>4, <1>5, <1>6, <1>7, <1>8

LEMMA SegmentSize ==
  ASSUME NEW message \in Seq(Bytes), NEW i \in Nat, i < TotalSegments(message)
  PROVE  SegmentData(message, i) \in Seq(Bytes) /\ Len(SegmentData(message, i)) \in 1..max_segment_size
<1>1. PICK from \in Nat : from = Upto(message, i)
  BY Cut
<1>2. PICK to \in Nat : to = Upto(message, i + 1)
  BY Cut
<1>3. from < to /\ to <= from + max_segment_size /\ to <= Len(message)
      /\ SegmentData(message, i) = SubSeq(message, from + 1, to)
  BY <1>1, <1>2, Cut
<1>4. SubSeq(message, from + 1, to) \in Seq(Bytes)
  BY <1>3
<1>5. Len(SubSeq(message, from + 1, to)) = to - from
  BY <1>3
<1>6. max_segment_size \in Nat
  BY SegmentationAssumption
<1> QED
  BY <1>3, <1>4, <1>5, <1>6

-----------------------------------------------------------------------------
(* How the segments are joined. *)
IsFlatten(f, parts, n) ==
  f = [i \in 1..n |-> IF i = 1 THEN parts[i] ELSE f[i - 1] \o parts[i]]

LEMMA FlattenExists ==
  ASSUME NEW n \in Nat, NEW parts
  PROVE  \E f : IsFlatten(f, parts, n)
<1> DEFINE T == {k \in Nat : \E f : IsFlatten(f, parts, k)}
<1>1. 0 \in T
  <2> DEFINE f == [i \in 1..0 |-> 0]
  <2>1. IsFlatten(f, parts, 0)
    BY DEF IsFlatten
  <2> QED
    BY <2>1
<1>2. ASSUME NEW k \in Nat, k \in T PROVE k + 1 \in T
  <2>1. PICK f : IsFlatten(f, parts, k)
    BY <1>2
  <2> DEFINE g == [i \in 1..(k + 1) |->
                     IF i = k + 1 THEN IF i = 1 THEN parts[i] ELSE f[k] \o parts[i] ELSE f[i]]
  <2>2. ASSUME NEW i \in 1..(k + 1)
        PROVE  g[i] = IF i = 1 THEN parts[i] ELSE g[i - 1] \o parts[i]
    <3>1. CASE i = k + 1
      <4>1. i # 1 => g[i - 1] = f[k]
        BY <3>1
      <4> QED
        BY <3>1, <4>1
    <3>2. CASE i # k + 1
      <4>1. i \in 1..k /\ (i # 1 => i - 1 \in 1..k)
        BY <3>2
      <4>2. f[i] = IF i = 1 THEN parts[i] ELSE f[i - 1] \o parts[i]
        BY <2>1, <4>1 DEF IsFlatten
      <4>3. g[i] = f[i] /\ (i # 1 => g[i - 1] = f[i - 1])
        BY <3>2, <4>1
      <4> QED
        BY <4>2, <4>3
    <3> QED
      BY <3>1, <3>2
  <2>3. g = [i \in 1..(k + 1) |-> g[i]]
    OBVIOUS
  <2> HIDE DEF g
  <2>4. IsFlatten(g, parts, k + 1)
    BY <2>2, <2>3 DEF IsFlatten
  <2> QED
    BY <2>4
<1> HIDE DEF T
<1>3. n \in T
  BY <1>1, <1>2, AllNumbers
<1> QED
  BY <1>3 DEF T

LEMMA TwoParts ==
  ASSUME NEW message \in Seq(Bytes), NEW a \in Nat, NEW b \in Nat, a <= b, b <= Len(message)
  PROVE  SubSeq(message, 1, a) \o SubSeq(message, a + 1, b) = SubSeq(message, 1, b)
OBVIOUS

LEMMA WholeText ==
  ASSUME NEW message \in Seq(Bytes)
  PROVE  SubSeq(message, 1, Len(message)) = message
OBVIOUS

LEMMA PartsJoin ==
  ASSUME NEW message \in Seq(Bytes), message # <<>>, NEW parts \in Seq(Seq(Bytes)),
         Len(parts) = TotalSegments(message),
         \A i \in 1..Len(parts) : parts[i] = SegmentData(message, i - 1)
  PROVE  FlattenSeq(parts) = message
<1> DEFINE n == Len(parts)
<1>1. n \in Nat \ {0} /\ n = TotalSegments(message)
  BY CutAll
<1>2. PICK f : f = CHOOSE e : IsFlatten(e, parts, n)
  OBVIOUS
<1>3. FlattenSeq(parts) = f[n]
  BY <1>1, <1>2 DEF FlattenSeq, IsFlatten
<1>0. \A i \in 1..n : parts[i] = SegmentData(message, i - 1)
  OBVIOUS
<1> HIDE DEF n
<1>4. IsFlatten(f, parts, n)
  BY <1>1, <1>2, FlattenExists
<1> DEFINE T == {k \in Nat : k + 1 <= n => f[k + 1] = SubSeq(message, 1, Upto(message, k + 1))}
<1>5. 0 \in T
  <2>1. 1 \in 1..n /\ 0 < n
    BY <1>1
  <2>2. f[1] = SegmentData(message, 0)
    <3>1. f[1] = parts[1]
      BY <1>4, <2>1 DEF IsFlatten
    <3>2. parts[1] = SegmentData(message, 1 - 1)
      BY <1>0, <2>1
    <3>3. 1 - 1 = 0
      OBVIOUS
    <3> QED
      BY <3>1, <3>2, <3>3
  <2>3. SegmentData(message, 0) = SubSeq(message, Upto(message, 0) + 1, Upto(message, 0 + 1))
    <3>1. 0 \in Nat /\ 0 < TotalSegments(message)
      BY <1>1
    <3> QED
      BY <3>1, Cut
  <2> QED
    <3>1. 0 + 1 = 1
      OBVIOUS
    <3>2. Upto(message, 0) = 0
      BY CutAll
    <3>3. f[0 + 1] = SubSeq(message, 1, Upto(message, 0 + 1))
      BY <2>2, <2>3, <3>1, <3>2
    <3> QED
      BY <3>3
<1>6. ASSUME NEW k \in Nat, k \in T PROVE k + 1 \in T
  <2> SUFFICES ASSUME (k + 1) + 1 <= n
               PROVE  f[(k + 1) + 1] = SubSeq(message, 1, Upto(message, (k + 1) + 1))
    OBVIOUS
  <2>1. PICK i \in Nat : i = k + 1
    OBVIOUS
  <2>2. i <= n /\ i < n /\ i + 1 \in 1..n /\ i + 1 # 1 /\ (i + 1) - 1 = i
    BY <1>1, <2>1
  <2>3. f[i] = SubSeq(message, 1, Upto(message, i))
    BY <1>6, <2>1, <2>2
  <2>4. f[i + 1] = f[i] \o parts[i + 1]
    <3>1. f[i + 1] = f[(i + 1) - 1] \o parts[i + 1]
      BY <1>4, <2>2 DEF IsFlatten
    <3> QED
      BY <2>2, <3>1
  <2>5. parts[i + 1] = SegmentData(message, i)
    <3>1. parts[i + 1] = SegmentData(message, (i + 1) - 1)
      BY <1>0, <2>2
    <3> QED
      BY <2>2, <3>1
  <2>6. i < TotalSegments(message)
    BY <1>1, <2>2
  <2>7. PICK from \in Nat, to \in Nat : from = Upto(message, i) /\ to = Upto(message, i + 1)
    <3>1. Upto(message, i) \in Nat /\ Upto(message, i + 1) \in Nat
      BY <2>6, Cut
    <3> QED
      BY <3>1
  <2>8. from <= to /\ to <= Len(message)
        /\ SegmentData(message, i) = SubSeq(message, from + 1, to)
    <3>1. Upto(message, i) < Upto(message, i + 1) /\ Upto(message, i + 1) <= Len(message)
      BY <2>6, Cut
    <3>2. SegmentData(message, i)
            = SubSeq(message, Upto(message, i) + 1, Upto(message, i + 1))
      BY <2>6, Cut
    <3>3. from < to /\ to <= Len(message)
      BY <2>7, <3>1
    <3>4. from <= to
      BY <3>3
    <3> QED
      BY <2>7, <3>2, <3>3, <3>4
  <2>9. SubSeq(message, 1, from) \o SubSeq(message, from + 1, to) = SubSeq(message, 1, to)
    BY <2>8, TwoParts
  <2>10. f[i + 1] = SubSeq(message, 1, Upto(message, i + 1))
    BY <2>3, <2>4, <2>5, <2>7, <2>8, <2>9
  <2> QED
    BY <2>1, <2>10
<1> HIDE DEF T
<1>7. n - 1 \in T /\ (n - 1) + 1 = n
  <2>1. n - 1 \in Nat /\ (n - 1) + 1 = n
    BY <1>1
  <2> QED
    BY <2>1, <1>5, <1>6, AllNumbers
<1>8. f[n] = SubSeq(message, 1, Upto(message, n))
  BY <1>1, <1>7 DEF T
<1> QED
  BY <1>1, <1>3, <1>8, CutAll, WholeText

-----------------------------------------------------------------------------
(* The state: the segments are those of the text, and of them come the payloads. *)
Payload(i) == IF text = <<>> THEN <<>> ELSE SegmentData(text, i)

IsCut(tot) ==
  /\ tot \in Nat /\ DOMAIN segments = 1..tot /\ Len(segments) = tot
  /\ \A i \in 1..tot : /\ segments[i].seq = i - 1 /\ segments[i].tot = tot
                       /\ segments[i].payload = Payload(i - 1)
                       /\ segments[i] = Segment(segments[i].seq, segments[i].tot,
                                                segments[i].checksum, segments[i].payload)
  /\ IF text = <<>> THEN tot \in {0, 1} ELSE tot = TotalSegments(text)

IsSent ==
  /\ text \in Seq(Bytes) /\ sender \in {"client", "server"}
  /\ segments = IF sender = "client" THEN ClientSegments(text) ELSE ServerSegments(text)

SegmentationInv ==
  /\ IsSent
  /\ DOMAIN stored \subseteq 0..(Len(segments) - 1)
  /\ \A seq \in DOMAIN stored : stored[seq] = AsRead(Payload(seq))

LEMMA SegmentsAreCut ==
  ASSUME IsSent
  PROVE  IsCut(Len(segments))
<1>0. text \in Seq(Bytes) /\ segments \in {ClientSegments(text), ServerSegments(text)}
  BY DEF IsSent
<1>1. PICK tot \in Nat : tot = TotalSegments(text)
  BY <1>0, CutAll
<1>2. text = <<>> <=> tot = 0
  BY <1>0, <1>1, CutAll
<1>3. CASE text # <<>>
  <2>1. PICK sum : segments = [i \in 1..tot |-> Segment(i - 1, tot, sum[i],
                                                        SegmentData(text, i - 1))]
    <3>1. CASE segments = ClientSegments(text)
      <4> DEFINE sum == [i \in 1..tot |-> ClientChecksum(SegmentData(text, i - 1))]
      <4>1. segments = [i \in 1..tot |-> Segment(i - 1, tot, sum[i], SegmentData(text, i - 1))]
        BY <1>1, <3>1 DEF ClientSegments
      <4> HIDE DEF sum
      <4> QED
        BY <4>1
    <3>2. CASE segments = ServerSegments(text)
      <4> DEFINE sum == [i \in 1..tot |-> ServerChecksum(SegmentData(text, i - 1))]
      <4>1. segments = [i \in 1..tot |-> Segment(i - 1, tot, sum[i], SegmentData(text, i - 1))]
        BY <1>1, <1>3, <3>2 DEF ServerSegments
      <4> HIDE DEF sum
      <4> QED
        BY <4>1
    <3> QED
      BY <1>0, <3>1, <3>2
  <2>2. DOMAIN segments = 1..tot /\ Len(segments) = tot
    BY <2>1
  <2>3. ASSUME NEW i \in 1..tot
        PROVE  /\ segments[i].seq = i - 1 /\ segments[i].tot = tot
               /\ segments[i].payload = Payload(i - 1)
               /\ segments[i] = Segment(segments[i].seq, segments[i].tot,
                                        segments[i].checksum, segments[i].payload)
    <3>1. segments[i] = Segment(i - 1, tot, sum[i], SegmentData(text, i - 1))
      BY <2>1
    <3> QED
      BY <1>3, <3>1 DEF Segment, Payload
  <2> QED
    BY <1>1, <1>3, <2>2, <2>3 DEF IsCut
<1>4. CASE text = <<>>
  <2>1. CASE segments = ClientSegments(text)
    <3>1. segments = <<>>
      BY <1>1, <1>2, <1>4, <2>1 DEF ClientSegments
    <3> QED
      BY <1>4, <3>1 DEF IsCut
  <2>2. CASE segments = ServerSegments(text)
    <3>1. segments = <<Segment(0, 1, 0, <<>>)>>
      BY <1>4, <2>2 DEF ServerSegments
    <3> QED
      BY <1>4, <3>1 DEF IsCut, Segment, Payload
  <2> QED
    BY <1>0, <2>1, <2>2
<1> QED
  BY <1>3, <1>4

LEMMA SegmentationInitial == SegmentationInit => SegmentationInv
<1> SUFFICES ASSUME SegmentationInit PROVE SegmentationInv
  OBVIOUS
<1>1. text \in Seq(Bytes)
  BY SegmentationAssumption DEF SegmentationInit, Texts, SeqOf
<1>2. DOMAIN stored = {}
  BY DEF SegmentationInit
<1> QED
  BY <1>1, <1>2 DEF SegmentationInit, SegmentationInv, IsSent

LEMMA SegmentationStep ==
  SegmentationInv /\ [SegmentationNext]_segmentationVars => SegmentationInv'
<1> SUFFICES ASSUME SegmentationInv, [SegmentationNext]_segmentationVars
             PROVE  SegmentationInv'
  OBVIOUS
<1>1. CASE UNCHANGED segmentationVars
  BY <1>1 DEF SegmentationInv, IsSent, segmentationVars, Payload
<1>2. ASSUME NEW segment \in ToSet(segments), Arrive(segment)
      PROVE  SegmentationInv'
  <2>1. IsCut(Len(segments))
    BY SegmentsAreCut DEF SegmentationInv
  <2>2. PICK i \in 1..Len(segments) : segment = segments[i]
    BY <1>2, <2>1 DEF IsCut, ToSet
  <2>3. segment.seq \in 0..(Len(segments) - 1) /\ segment.payload = Payload(segment.seq)
    BY <2>1, <2>2 DEF IsCut
  <2>4. UNCHANGED <<text, sender, segments>> /\ \A k : Payload(k)' = Payload(k)
    BY <1>2 DEF Arrive, Payload
  <2>5. DOMAIN stored' = DOMAIN stored \cup {segment.seq}
        /\ \A seq \in DOMAIN stored' :
             stored'[seq] = IF seq = segment.seq THEN AsRead(segment.payload) ELSE stored[seq]
    BY <1>2 DEF Arrive
  <2>6. DOMAIN stored' \subseteq 0..(Len(segments) - 1)
    BY <2>3, <2>5 DEF SegmentationInv
  <2>7. \A seq \in DOMAIN stored' : stored'[seq] = AsRead(Payload(seq))
    BY <2>3, <2>5 DEF SegmentationInv
  <2> QED
    BY <2>4, <2>6, <2>7 DEF SegmentationInv, IsSent
<1>3. ASSUME NEW segment \in ToSet(segments), Refuse(segment)
      PROVE  SegmentationInv'
  BY <1>3 DEF SegmentationInv, IsSent, segmentationVars, Refuse, Payload
<1> QED
  BY <1>1, <1>2, <1>3 DEF SegmentationNext

LEMMA SegmentationInvariant == SegmentationSpec => []SegmentationInv
<1> QED
  BY SegmentationInitial, SegmentationStep, PTL DEF SegmentationSpec

(* A set of n of the numbers below n has all of them. *)
LEMMA FullSet ==
  ASSUME NEW n \in Nat, NEW S \in SUBSET (0..(n - 1)), Cardinality(S) = n
  PROVE  S = 0..(n - 1)
<1>1. IsFiniteSet(0..(n - 1)) /\ Cardinality(0..(n - 1)) = n
  <2> DEFINE last == n - 1
  <2>1. last \in Int /\ 0 \in Int /\ (IF 0 > last THEN 0 ELSE last - 0 + 1) = n
    OBVIOUS
  <2> HIDE DEF last
  <2>2. IsFiniteSet(0..last) /\ Cardinality(0..last) = n
    BY <2>1, FS_Interval
  <2> QED
    BY <2>2 DEF last
<1> QED
  BY <1>1, FS_Subset

LEMMA PayloadTypes ==
  ASSUME SegmentationInv, NEW segment \in ToSet(segments)
  PROVE  /\ segment.payload \in Seq(Bytes) /\ Len(segment.payload) <= max_segment_size
         /\ Len(segment.payload) \in (IF text = <<>> THEN {0} ELSE 1..max_segment_size)
         /\ segment.seq < segment.tot /\ segment.tot = Len(segments)
         /\ segment = Segment(segment.seq, segment.tot, segment.checksum, segment.payload)
<1>1. IsCut(Len(segments))
  BY SegmentsAreCut DEF SegmentationInv
<1>2. PICK i \in 1..Len(segments) : segment = segments[i]
  BY <1>1 DEF IsCut, ToSet
<1>3. /\ segment.seq = i - 1 /\ segment.tot = Len(segments)
      /\ segment.payload = Payload(i - 1)
      /\ segment = Segment(segment.seq, segment.tot, segment.checksum, segment.payload)
  BY <1>1, <1>2 DEF IsCut
<1>4. i - 1 \in Nat /\ i - 1 < Len(segments) /\ max_segment_size \in Nat
  BY <1>1, <1>2, SegmentationAssumption DEF IsCut
<1>5. Payload(i - 1) \in Seq(Bytes)
      /\ Len(Payload(i - 1)) \in (IF text = <<>> THEN {0} ELSE 1..max_segment_size)
  <2>1. CASE text = <<>>
    BY <2>1 DEF Payload
  <2>2. CASE text # <<>>
    <3>1. i - 1 < TotalSegments(text)
      BY <1>1, <1>4, <2>2 DEF IsCut
    <3> QED
      BY <1>4, <2>2, <3>1, SegmentSize DEF Payload, SegmentationInv, IsSent
  <2> QED
    BY <2>1, <2>2
<1>6. Len(segment.payload) <= max_segment_size
  BY <1>3, <1>4, <1>5
<1> QED
  BY <1>3, <1>4, <1>5, <1>6

(* Of a text without a NUL every payload is read as it is. *)
LEMMA PayloadIsRead ==
  ASSUME SegmentationInv, 0 \notin ToSet(text), IsCut(Len(segments)),
         NEW i \in Nat, i < Len(segments)
  PROVE  AsRead(Payload(i)) = Payload(i)
<1>1. text \in Seq(Bytes)
  BY DEF SegmentationInv, IsSent
<1>2. CASE text = <<>>
  <2>1. Payload(i) = <<>> /\ <<>> \in Seq(Bytes) /\ \A k \in 1..Len(<<>>) : <<>>[k] # 0
    BY <1>2 DEF Payload
  <2> QED
    BY <2>1, NoNulIsRead
<1>3. CASE text # <<>>
  <2>1. i < TotalSegments(text) /\ Payload(i) = SegmentData(text, i)
    BY <1>3 DEF IsCut, Payload
  <2>2. PICK data : data = SegmentData(text, i)
    OBVIOUS
  <2>3. data \in Seq(Bytes)
    BY <1>1, <2>1, <2>2, SegmentSize
  <2>4. PICK from \in Nat, to \in Nat :
          from < to /\ to <= Len(text) /\ data = SubSeq(text, from + 1, to)
    <3>1. /\ Upto(text, i) \in Nat /\ Upto(text, i + 1) \in Nat
          /\ Upto(text, i) < Upto(text, i + 1) /\ Upto(text, i + 1) <= Len(text)
          /\ data = SubSeq(text, Upto(text, i) + 1, Upto(text, i + 1))
      BY <1>1, <2>1, <2>2, Cut
    <3> QED
      BY <3>1
  <2>5. ASSUME NEW k \in 1..Len(data) PROVE data[k] # 0
    <3>1. data[k] = text[from + k] /\ from + k \in DOMAIN text
      BY <1>1, <2>4
    <3> QED
      BY <1>1, <3>1 DEF ToSet
  <2> QED
    BY <2>1, <2>2, <2>3, <2>5, NoNulIsRead
<1> QED
  BY <1>2, <1>3

LEMMA PayloadsJoin ==
  ASSUME SegmentationInv, Complete, 0 \notin ToSet(text)
  PROVE  Joined = text
<1>1. IsCut(Len(segments))
  BY SegmentsAreCut, SMTT(60) DEF SegmentationInv
<1>2. PICK tot \in Nat : tot = Len(segments)
  BY <1>1 DEF IsCut
<1>3. tot # 0
  BY <1>1, <1>2 DEF IsCut, Complete
<1>4. segments[1].tot = tot
  BY <1>1, <1>2, <1>3 DEF IsCut
<1>5. DOMAIN stored = 0..(tot - 1)
  BY <1>2, <1>4, FullSet DEF Complete, SegmentationInv
<1>6. PICK parts : parts = [i \in 1..tot |-> Payload(i - 1)]
  OBVIOUS
<1>7. Joined = FlattenSeq(parts)
  <2>1. ASSUME NEW i \in 1..tot PROVE stored[i - 1] = Payload(i - 1)
    <3>1. i - 1 \in 0..(tot - 1) /\ i - 1 \in Nat
      OBVIOUS
    <3>2. stored[i - 1] = AsRead(Payload(i - 1))
      BY <1>5, <3>1 DEF SegmentationInv
    <3>3. AsRead(Payload(i - 1)) = Payload(i - 1)
      BY <1>1, <1>2, <3>1, PayloadIsRead
    <3> QED
      BY <3>2, <3>3
  <2> QED
    BY <1>4, <1>6, <2>1 DEF Joined
<1>8. CASE text # <<>>
  <2>1. tot = TotalSegments(text) /\ text \in Seq(Bytes)
    BY <1>1, <1>2, <1>8 DEF IsCut, SegmentationInv, IsSent
  <2>2. \A i \in 1..tot : parts[i] = SegmentData(text, i - 1)
    BY <1>6, <1>8 DEF Payload
  <2>3. \A i \in 1..tot : SegmentData(text, i - 1) \in Seq(Bytes)
    <3> SUFFICES ASSUME NEW i \in 1..tot PROVE SegmentData(text, i - 1) \in Seq(Bytes)
      OBVIOUS
    <3>1. i - 1 \in Nat /\ i - 1 < TotalSegments(text)
      BY <2>1
    <3> QED
      BY <2>1, <3>1, SegmentSize
  <2>4. parts \in Seq(Seq(Bytes)) /\ Len(parts) = tot
    BY <1>6, <2>2, <2>3
  <2> QED
    BY <1>7, <1>8, <2>1, <2>2, <2>4, PartsJoin
<1>9. CASE text = <<>>
  <2>1. tot = 1
    BY <1>1, <1>2, <1>3, <1>9 DEF IsCut
  <2>2. Len(parts) = 1 /\ parts[1] = <<>>
    BY <1>6, <1>9, <2>1 DEF Payload
  <2>3. PICK f : f = CHOOSE e : IsFlatten(e, parts, 1)
    OBVIOUS
  <2>4. FlattenSeq(parts) = f[1]
    BY <2>2, <2>3 DEF FlattenSeq, IsFlatten
  <2>5. IsFlatten(f, parts, 1)
    BY <2>3, FlattenExists
  <2>6. f[1] = <<>>
    BY <2>2, <2>5 DEF IsFlatten
  <2> QED
    BY <1>7, <1>9, <2>4, <2>6
<1> QED
  BY <1>8, <1>9

(* A text of any length survives segmentation: it is cut into numbered segments, none
   empty or too long, and the payloads, whatever their order and repetition, are the
   text again once they are complete, if it has no NUL (segmentMessage,
   assembleMessage, receiveResponse). *)
THEOREM SegmentsSurvive == SegmentationSpec => []TextsSurvive
<1>1. ASSUME SegmentationInv PROVE TextsSurvive
  <2>1. ASSUME text # <<>> PROVE segments # <<>>
    <3>1. IsCut(Len(segments)) /\ text \in Seq(Bytes)
      BY <1>1, SegmentsAreCut DEF SegmentationInv, IsSent
    <3>2. Len(segments) # 0
      BY <2>1, <3>1, CutAll DEF IsCut
    <3> QED
      BY <3>2
  <2>2. Complete /\ 0 \notin ToSet(text) => Joined = text
    BY <1>1, PayloadsJoin
  <2> QED
    BY <1>1, <2>1, <2>2, PayloadTypes DEF TextsSurvive
<1> QED
  BY <1>1, SegmentationInvariant, PTL

(* Of a client's text without a NUL the server takes exactly the segments of ASCII
   bytes, as the two programs sum up chars of another sign; of a text in ASCII, those
   with nothing but NULs behind the first (udp_client.cpp:147, message_parser.cpp:8,
   udp_server.cpp:62). *)
THEOREM ClientMustWriteAscii == SegmentationSpec => []OnlyAsciiIsAccepted
<1>1. ASSUME SegmentationInv PROVE OnlyAsciiIsAccepted
  <2> SUFFICES ASSUME sender = "client", NEW segment \in ToSet(segments),
                      NEW data, data = segment.payload
               PROVE  /\ AsRead(data) = data => (Accepted(segment) <=> IsAsciiText(data))
                      /\ IsAsciiText(data) =>
                           (Accepted(segment) <=>
                              \A i \in DOMAIN data : i > Len(AsRead(data)) => data[i] = 0)
    BY DEF OnlyAsciiIsAccepted
  <2>1. data \in Seq(Bytes) /\ Len(data) <= max_segment_size
    BY <1>1, PayloadTypes
  <2>2. segment.checksum = ClientChecksum(data)
    <3>1. segments = ClientSegments(text)
      BY <1>1 DEF SegmentationInv, IsSent
    <3> QED
      BY <3>1 DEF ClientSegments, ToSet, Segment
  <2>3. ClientChecksum(data) = ServerChecksum(data) <=> IsAsciiText(data)
    BY <2>1, SumsDiffer
  <2>4. Accepted(segment) <=> ClientChecksum(data) = ServerChecksum(AsRead(data))
    BY <2>2 DEF Accepted
  <2>5. PICK n \in 0..Len(data) : EndsAt(data, n)
    BY <2>1, EndExists
  <2>6. AsRead(data) = SubSeq(data, 1, n) /\ Len(AsRead(data)) = n
    BY <2>1, <2>5, ReadUpto
  <2>7. ServerChecksum(AsRead(data)) = ServerChecksum(data)
          <=> \A i \in DOMAIN data : i > n => data[i] = 0
    <3>1. Len(data) \in 0..Len(data) /\ n <= Len(data)
          /\ SubSeq(data, 1, Len(data)) = data /\ DOMAIN data = 1..Len(data)
      BY <2>1
    <3>2. ServerChecksum(SubSeq(data, 1, n)) = ServerChecksum(SubSeq(data, 1, Len(data)))
            <=> \A i \in (n + 1)..Len(data) : data[i] = 0
      BY <2>1, <2>5, <3>1, SamePrefixSum
    <3>3. (\A i \in (n + 1)..Len(data) : data[i] = 0)
            <=> \A i \in DOMAIN data : i > n => data[i] = 0
      BY <2>1, <2>5, <3>1
    <3> QED
      BY <2>6, <3>1, <3>2, <3>3
  <2>8. AsRead(data) = data => (Accepted(segment) <=> IsAsciiText(data))
    BY <2>3, <2>4
  <2>9. ASSUME IsAsciiText(data)
        PROVE  Accepted(segment) <=>
                 \A i \in DOMAIN data : i > Len(AsRead(data)) => data[i] = 0
    <3>1. Accepted(segment) <=> ServerChecksum(AsRead(data)) = ServerChecksum(data)
      BY <2>3, <2>4, <2>9
    <3> QED
      BY <2>6, <2>7, <3>1
  <2> QED
    BY <2>8, <2>9
<1> QED
  BY <1>1, SegmentationInvariant, PTL

(* What becomes of the sum the server takes of a payload with one other byte. *)
LEMMA ChangedByte ==
  ASSUME NEW data \in Seq(Bytes), Len(data) <= max_segment_size,
         NEW i \in DOMAIN data, NEW c \in Bytes \ {data[i]},
         NEW other, other = [data EXCEPT ![i] = c]
  PROVE  IF i > Len(AsRead(data)) + 1
           THEN AsRead(other) = AsRead(data)
           ELSE ServerChecksum(AsRead(other)) # ServerChecksum(AsRead(data))
<1>1. PICK n \in 0..Len(data) : EndsAt(data, n)
  BY EndExists
<1>2. AsRead(data) = SubSeq(data, 1, n) /\ Len(AsRead(data)) = n
  BY <1>1, ReadUpto
<1>3. PICK len \in Nat : len = Len(data)
  OBVIOUS
<1>4. /\ other \in Seq(Bytes) /\ Len(other) = len /\ other[i] = c /\ c # data[i]
      /\ \A k \in 1..len : k # i => other[k] = data[k]
      /\ i \in 1..len /\ n \in Nat /\ n <= len /\ len <= max_segment_size
  BY <1>3
<1>5. (\A k \in 1..n : data[k] # 0) /\ (n < len => data[n + 1] = 0)
  BY <1>1, <1>3 DEF EndsAt
<1>6. ASSUME i > n + 1 PROVE AsRead(other) = AsRead(data)
  <2>1. \A k \in 1..n : other[k] = data[k]
    BY <1>4, <1>6
  <2>2. n < len => other[n + 1] = 0
    BY <1>4, <1>5, <1>6
  <2>3. EndsAt(other, n)
    BY <1>4, <1>5, <2>1, <2>2 DEF EndsAt
  <2>4. AsRead(other) = SubSeq(other, 1, n)
    BY <1>4, <2>3, ReadUpto
  <2>5. SubSeq(other, 1, n) = SubSeq(data, 1, n)
    BY <1>3, <1>4, <2>1
  <2> QED
    BY <1>2, <2>4, <2>5
<1>7. ASSUME i = n + 1 PROVE ServerChecksum(AsRead(other)) # ServerChecksum(AsRead(data))
  <2>1. PICK m \in 0..Len(other) : EndsAt(other, m)
    BY <1>4, EndExists
  <2>2. AsRead(other) = SubSeq(other, 1, m)
    BY <1>4, <2>1, ReadUpto
  <2>3. n \in 0..len /\ m \in 0..len /\ m \in Nat /\ data[i] = 0 /\ c # 0
    BY <1>4, <1>5, <1>7, <2>1
  <2>4. ~ (m <= n)
    <3> SUFFICES ASSUME m <= n PROVE FALSE
      OBVIOUS
    <3>1. m < len /\ m + 1 \in 1..len
      BY <1>4, <1>7, <2>3
    <3>2. other[m + 1] = 0
      BY <1>4, <2>1, <3>1 DEF EndsAt
    <3>3. m + 1 # i
      BY <1>4, <2>3, <3>2
    <3>4. m + 1 \in 1..n /\ other[m + 1] = data[m + 1]
      BY <1>4, <1>7, <2>3, <3>1, <3>3
    <3> QED
      BY <1>5, <3>2, <3>4
  <2>5. n <= m /\ i \in (n + 1)..m /\ other[i] # 0
    BY <1>4, <1>7, <2>3, <2>4
  <2>6. ServerChecksum(SubSeq(other, 1, n)) # ServerChecksum(SubSeq(other, 1, m))
    BY <1>4, <2>3, <2>5, SamePrefixSum
  <2>7. SubSeq(other, 1, n) = SubSeq(data, 1, n)
    BY <1>3, <1>4, <1>7
  <2> QED
    BY <1>2, <2>2, <2>6, <2>7, Zenon
<1>8. ASSUME i <= n, c = 0 PROVE ServerChecksum(AsRead(other)) # ServerChecksum(AsRead(data))
  <2>1. i - 1 \in 0..len /\ i - 1 < len /\ (i - 1) + 1 = i /\ i - 1 <= n /\ i \in ((i - 1) + 1)..n
    BY <1>4, <1>8
  <2>2. \A k \in 1..(i - 1) : other[k] = data[k] /\ data[k] # 0
    BY <1>4, <1>5, <1>8
  <2>3. EndsAt(other, i - 1)
    BY <1>4, <1>8, <2>1, <2>2 DEF EndsAt
  <2>4. AsRead(other) = SubSeq(other, 1, i - 1)
    BY <1>4, <2>3, ReadUpto
  <2>5. SubSeq(other, 1, i - 1) = SubSeq(data, 1, i - 1)
    BY <1>3, <1>4, <2>1, <2>2
  <2>6. data[i] # 0
    BY <1>4, <1>5, <1>8
  <2>7. ServerChecksum(SubSeq(data, 1, i - 1)) # ServerChecksum(SubSeq(data, 1, n))
    BY <1>1, <1>3, <1>4, <2>1, <2>6, SamePrefixSum
  <2> QED
    BY <1>2, <2>4, <2>5, <2>7, Zenon
<1>9. ASSUME i <= n, c # 0 PROVE ServerChecksum(AsRead(other)) # ServerChecksum(AsRead(data))
  <2>1. \A k \in 1..n : other[k] # 0
    BY <1>4, <1>5, <1>9
  <2>2. n < len => other[n + 1] = 0
    BY <1>4, <1>5, <1>9
  <2>3. EndsAt(other, n)
    BY <1>4, <2>1, <2>2 DEF EndsAt
  <2>4. AsRead(other) = SubSeq(other, 1, n)
    BY <1>4, <2>3, ReadUpto
  <2>5. PICK part : part = SubSeq(data, 1, n)
    OBVIOUS
  <2>6. part \in Seq(Bytes) /\ Len(part) = n /\ i \in DOMAIN part /\ part[i] = data[i]
        /\ n <= max_segment_size
    BY <1>3, <1>4, <1>9, <2>5, SegmentationAssumption
  <2>7. SubSeq(other, 1, n) = [part EXCEPT ![i] = c]
    <3>1. PICK new : new = SubSeq(other, 1, n)
      OBVIOUS
    <3>2. PICK changed : changed = [part EXCEPT ![i] = c]
      OBVIOUS
    <3>3. new \in Seq(Bytes) /\ Len(new) = n /\ \A k \in 1..n : new[k] = other[k]
      BY <1>4, <3>1
    <3>4. \A k \in 1..n : part[k] = data[k]
      BY <1>3, <1>4, <2>5
    <3>5. changed \in Seq(Bytes) /\ Len(changed) = n
          /\ \A k \in 1..n : changed[k] = IF k = i THEN c ELSE part[k]
      BY <2>6, <3>2
    <3>6. \A k \in 1..n : new[k] = changed[k]
      BY <1>4, <3>3, <3>4, <3>5
    <3>7. new = changed
      BY <3>3, <3>5, <3>6
    <3> QED
      BY <3>1, <3>2, <3>7
  <2>8. ServerChecksum([part EXCEPT ![i] = c]) # ServerChecksum(part)
    BY <1>4, <2>6, OneByteChanged
  <2> QED
    BY <1>2, <2>4, <2>5, <2>7, <2>8, Zenon
<1>10. CASE i > n + 1
  BY <1>2, <1>6, <1>10
<1>11. CASE ~ (i > n + 1)
  <2>1. i = n + 1 \/ i <= n
    BY <1>4, <1>11
  <2>2. ServerChecksum(AsRead(other)) # ServerChecksum(AsRead(data))
    BY <1>7, <1>8, <1>9, <2>1
  <2>3. ~ (i > Len(AsRead(data)) + 1)
    BY <1>2, <1>11
  <2> QED
    BY <2>2, <2>3, Zenon
<1> QED
  BY <1>10, <1>11

(* One byte of a segment, changed on its way, is enough for the server to refuse it,
   unless it is behind the first NUL, where nothing is read (handleDataMessage,
   udp_server.cpp:62 and 145). *)
THEOREM ChangedBytesAreNoticed == SegmentationSpec => []DamageIsNoticed
<1>1. ASSUME SegmentationInv PROVE DamageIsNoticed
  <2> SUFFICES ASSUME NEW segment \in ToSet(segments), Accepted(segment),
                      NEW i \in DOMAIN segment.payload, NEW c \in Bytes \ {segment.payload[i]}
               PROVE  LET damaged == [segment EXCEPT !.payload[i] = c] IN
                      /\ Accepted(damaged) <=> i > Len(AsRead(segment.payload)) + 1
                      /\ Accepted(damaged) => AsRead(damaged.payload) = AsRead(segment.payload)
    BY DEF DamageIsNoticed
  <2>0. PICK damaged : damaged = [segment EXCEPT !.payload[i] = c]
    OBVIOUS
  <2>1. PICK data : data = segment.payload
    OBVIOUS
  <2>2. /\ data \in Seq(Bytes) /\ Len(data) <= max_segment_size
        /\ segment = Segment(segment.seq, segment.tot, segment.checksum, data)
    BY <1>1, <2>1, PayloadTypes
  <2>3. damaged.checksum = segment.checksum /\ damaged.payload = [data EXCEPT ![i] = c]
    BY <2>0, <2>1, <2>2 DEF Segment
  <2>4. IF i > Len(AsRead(data)) + 1
          THEN AsRead(damaged.payload) = AsRead(data)
          ELSE ServerChecksum(AsRead(damaged.payload)) # ServerChecksum(AsRead(data))
    BY <2>1, <2>2, <2>3, ChangedByte
  <2>5. segment.checksum = ServerChecksum(AsRead(data))
    BY <2>1 DEF Accepted
  <2>6. /\ Accepted(damaged) <=> i > Len(AsRead(data)) + 1
        /\ Accepted(damaged) => AsRead(damaged.payload) = AsRead(data)
    BY <2>3, <2>4, <2>5 DEF Accepted
  <2> QED
    BY <2>0, <2>1, <2>6
<1> QED
  BY <1>1, SegmentationInvariant, PTL
=============================================================================
