----------------------------- MODULE HeapProofs -----------------------------
(***************************************************************************)
(* The kernel's memory in Heap, for any threads, any memory and any        *)
(* requests: what bitmap_scan returns, who holds kernel_pool.lock, and     *)
(* where the page frames, the pages and the blocks are.                    *)
(***************************************************************************)
EXTENDS Heap, FiniteSetTheorems, WellFoundedInduction, TLAPS

(* A set of natural numbers that is not empty has a least element.         *)
LEMMA Least ==
  ASSUME NEW S, S \subseteq Nat, S # {} PROVE \E n \in S : \A m \in S : n <= m
<1> DEFINE R == OpToRel(<, Nat)
<1>1. R = {ss \in Nat \X Nat : ss[1] < ss[2]}
  BY Zenon DEF OpToRel
<1>2. IsWellFoundedOn(R, Nat)
  BY NatLessThanWellFounded, Zenon
<1>3. \A y, z \in Nat : y < z => <<y, z>> \in R
  <2> SUFFICES ASSUME NEW y \in Nat, NEW z \in Nat, y < z PROVE <<y, z>> \in R
    OBVIOUS
  <2>1. <<y, z>> \in Nat \X Nat /\ <<y, z>>[1] < <<y, z>>[2]
    OBVIOUS
  <2> HIDE DEF R
  <2> QED
    BY <1>1, <2>1, Zenon
<1> HIDE DEF R
<1>4. PICK x \in S : \A y \in S : ~(<<y, x>> \in R)
  BY <1>2, WFMin, Zenon
<1>5. \A y \in S : x <= y
  <2> SUFFICES ASSUME NEW y \in S PROVE x <= y
    OBVIOUS
  <2>1. x \in Nat /\ y \in Nat
    OBVIOUS
  <2>2. ~(y < x)
    BY <1>3, <1>4, <2>1, Zenon
  <2> QED
    BY <2>1, <2>2
<1> QED
  BY <1>5

(* Min is the least element of a set of natural numbers that has one.      *)
LEMMA MinLeast ==
  ASSUME NEW S, S \subseteq Nat, S # {}
  PROVE  Min(S) \in S /\ \A m \in S : Min(S) <= m
BY Least, Zenon DEF Min

(* A least element is the least element.                                   *)
LEMMA MinIs ==
  ASSUME NEW S, S \subseteq Nat, NEW m \in S, \A x \in S : m <= x
  PROVE  Min(S) = m
<1>1. Min(S) \in S /\ \A x \in S : Min(S) <= x
  BY MinLeast
<1>2. Min(S) \in Nat /\ m \in Nat /\ Min(S) <= m /\ m <= Min(S)
  BY <1>1
<1> QED
  BY <1>2

-----------------------------------------------------------------------------

(* k is the length of the run of clear bits that ends with bit b and does  *)
(* not begin before bit start.                                             *)
IsRun(used, start, b, k) ==
  /\ k \in 0 .. b - start + 1
  /\ k = b - start + 1 \/ b - k \in used
  /\ \A n \in 0 .. k - 1 : b - n \notin used

(* A run from i on has a length.                                           *)
LEMMA RunExists ==
  ASSUME NEW used, NEW start \in Nat, NEW b \in Nat, start <= b
  PROVE  \E k \in Nat : IsRun(used, start, b, k)
<1> DEFINE S == {n \in 0 .. b - start + 1 : n = b - start + 1 \/ b - n \in used}
<1>1. S \subseteq Nat /\ b - start + 1 \in S
  OBVIOUS
<1>2. PICK k \in S : \A m \in S : k <= m
  BY <1>1, Least
<1>3. IsRun(used, start, b, k)
  BY <1>2 DEF IsRun
<1> QED
  BY <1>1, <1>3

(* That length is the only one.                                            *)
LEMMA RunUnique ==
  ASSUME NEW used, NEW start \in Nat, NEW b \in Nat, NEW j, NEW k,
         IsRun(used, start, b, j), IsRun(used, start, b, k)
  PROVE  j = k
BY DEF IsRun

(* The local definitions of bitmap_scan and FirstFit.                      *)
Gaps(used, len)  == {i \in 0 .. len \div ByteBits - 1 : ~(Byte(i) \subseteq used)}
First(used, len) == Min(Byte(Min(Gaps(used, len))) \ used)
Counter(used, start, len) ==
  CHOOSE f : f = [b \in start .. len - 1 |->
    IF b = start THEN 1 ELSE IF b \in used THEN 0 ELSE f[b - 1] + 1]
Ends(count, start, len, cnt) == {b \in start .. len - 1 : count[b] = cnt}
Fits(used, len, cnt) == {i \in 0 .. len - cnt : (i .. i + cnt - 1) \cap used = {}}

(* The counter is the length of the run up to each bit.                    *)
LEMMA CountsRuns ==
  ASSUME NEW used, NEW start \in Nat, NEW len \in Nat, start \notin used,
         NEW count, count = Counter(used, start, len)
  PROVE  \A b \in start .. len - 1 : count[b] \in Nat /\ IsRun(used, start, b, count[b])
<1> DEFINE D == start .. len - 1
           Turn(f) == [b \in D |-> IF b = start THEN 1 ELSE IF b \in used THEN 0 ELSE f[b - 1] + 1]
           w == [b \in D |-> CHOOSE k : k \in Nat /\ IsRun(used, start, b, k)]
<1>1. ASSUME NEW b \in D PROVE w[b] \in Nat /\ IsRun(used, start, b, w[b])
  <2>0. b \in Nat /\ start <= b
    OBVIOUS
  <2>1. \E k : k \in Nat /\ IsRun(used, start, b, k)
    BY <2>0, RunExists, Zenon
  <2>2. w[b] = CHOOSE k : k \in Nat /\ IsRun(used, start, b, k)
    OBVIOUS
  <2> HIDE DEF w
  <2> QED
    BY <2>1, <2>2, Zenon
<1>2. ASSUME NEW b \in D
      PROVE  w[b] = IF b = start THEN 1 ELSE IF b \in used THEN 0 ELSE w[b - 1] + 1
  <2> HIDE DEF w
  <2>1. CASE b = start
    <3>1. IsRun(used, start, b, 1)
      BY <2>1 DEF IsRun
    <3> QED
      BY <1>1, <2>1, <3>1, RunUnique
  <2>2. CASE b # start /\ b \in used
    <3>1. IsRun(used, start, b, 0)
      BY <2>2 DEF IsRun
    <3> QED
      BY <1>1, <2>2, <3>1, RunUnique
  <2>3. CASE b # start /\ b \notin used
    <3>1. b - 1 \in D
      BY <2>3
    <3>2. PICK k \in Nat : k = w[b - 1] /\ IsRun(used, start, b - 1, k)
      BY <1>1, <3>1
    <3>3. ASSUME NEW n \in 0 .. k PROVE b - n \notin used
      <4>1. CASE n = 0
        BY <2>3, <4>1
      <4>2. CASE n # 0
        <5>1. n - 1 \in 0 .. k - 1 /\ (b - 1) - (n - 1) = b - n
          BY <4>2
        <5> QED
          BY <3>2, <5>1 DEF IsRun
      <4> QED
        BY <4>1, <4>2
    <3>4. k \in 0 .. (b - 1) - start + 1 /\ (k = (b - 1) - start + 1 \/ (b - 1) - k \in used)
      BY <3>2 DEF IsRun
    <3>5. (b - 1) - k = b - (k + 1) /\ (k + 1) - 1 = k
      OBVIOUS
    <3>6. k + 1 \in 0 .. b - start + 1 /\ (k + 1 = b - start + 1 \/ b - (k + 1) \in used)
      BY <3>4, <3>5
    <3>7. IsRun(used, start, b, k + 1)
      BY <3>3, <3>5, <3>6, Zenon DEF IsRun
    <3> QED
      BY <1>1, <2>3, <3>2, <3>7, RunUnique
  <2> QED
    BY <2>1, <2>2, <2>3
<1>3. w = Turn(w)
  <2>1. w = [b \in D |-> w[b]]
    OBVIOUS
  <2> HIDE DEF w
  <2> QED
    BY <1>2, <2>1
<1>4. count = Turn(count)
  <2> HIDE DEF w
  <2> QED
    BY <1>3, Zenon DEF Counter
<1>5. ASSUME NEW b \in D, \A c \in D : c < b => count[c] = w[c] PROVE count[b] = w[b]
  <2> HIDE DEF w
  <2>1. count[b] = IF b = start THEN 1 ELSE IF b \in used THEN 0 ELSE count[b - 1] + 1
    BY <1>4
  <2>2. b # start => b - 1 \in D /\ b - 1 < b
    OBVIOUS
  <2> QED
    BY <1>2, <1>5, <2>1, <2>2
<1>6. \A b \in D : count[b] = w[b]
  <2> HIDE DEF w
  <2> DEFINE S == {b \in D : count[b] # w[b]}
  <2>1. CASE S # {}
    <3>1. S \subseteq Nat
      OBVIOUS
    <3>2. PICK b \in S : \A c \in S : b <= c
      BY <2>1, <3>1, Least
    <3>3. \A c \in D : c < b => count[c] = w[c]
      BY <3>2
    <3> QED
      BY <1>5, <3>2, <3>3
  <2> QED
    BY <2>1
<1> QED
  BY <1>1, <1>6

-----------------------------------------------------------------------------

(* The bytes of a bitmap of q * ByteBits bits.                             *)
LEMMA BytesCover ==
  ASSUME ByteBits \in Nat \ {0}, NEW q \in Nat, NEW b \in 0 .. q * ByteBits - 1
  PROVE  \E i \in 0 .. q - 1 : b \in Byte(i)
<1>1. b \div ByteBits \in Nat /\ b = ByteBits * (b \div ByteBits) + (b % ByteBits)
      /\ b % ByteBits \in 0 .. ByteBits - 1
  OBVIOUS
<1>2. PICK i \in Nat : i = b \div ByteBits
  BY <1>1
<1>3. b \in Byte(i)
  BY <1>1, <1>2 DEF Byte
<1>4. i < q
  BY <1>1, <1>2
<1> QED
  BY <1>3, <1>4

(* The bits of different bytes differ.                                     *)
LEMMA BytesApart ==
  ASSUME ByteBits \in Nat \ {0}, NEW i \in Nat, NEW j \in Nat, i < j
  PROVE  \A b \in Byte(i), c \in Byte(j) : b < c
<1>1. (i + 1) * ByteBits <= j * ByteBits
  OBVIOUS
<1>2. i * ByteBits \in Nat /\ (i + 1) * ByteBits \in Nat /\ j * ByteBits \in Nat
  OBVIOUS
<1> QED
  BY <1>1, <1>2 DEF Byte

(* The bits of the bytes of a bitmap are bits of it.                       *)
LEMMA BytesInside ==
  ASSUME ByteBits \in Nat \ {0}, NEW q \in Nat, NEW i \in 0 .. q - 1
  PROVE  Byte(i) \subseteq 0 .. q * ByteBits - 1
<1>1. (i + 1) * ByteBits <= q * ByteBits
  OBVIOUS
<1>2. i * ByteBits \in Nat /\ (i + 1) * ByteBits \in Nat /\ q * ByteBits \in Nat
  OBVIOUS
<1> QED
  BY <1>1, <1>2 DEF Byte

-----------------------------------------------------------------------------

(* The bit bitmap_scan starts from is the first clear one.                 *)
LEMMA FirstClear ==
  ASSUME ByteBits \in Nat \ {0}, NEW len \in Nat, len % ByteBits = 0, NEW used
  PROVE  /\ Gaps(used, len) = {} => 0 .. len - 1 \subseteq used
         /\ Gaps(used, len) # {} =>
              /\ First(used, len) \in (0 .. len - 1) \ used
              /\ \A y \in (0 .. len - 1) \ used : First(used, len) <= y
<1>0. PICK bytes : bytes = Gaps(used, len) /\ First(used, len) = Min(Byte(Min(bytes)) \ used)
                   /\ bytes = {i \in 0 .. len \div ByteBits - 1 : ~(Byte(i) \subseteq used)}
  BY Zenon DEF Gaps, First
<1>1. PICK q \in Nat : q = len \div ByteBits /\ len = q * ByteBits
  <2>1. len \div ByteBits \in Nat /\ len = ByteBits * (len \div ByteBits) + (len % ByteBits)
    OBVIOUS
  <2> QED
    BY <2>1
<1>2. \A y \in 0 .. len - 1 : \E i \in 0 .. q - 1 : y \in Byte(i)
  BY <1>1, BytesCover
<1>3. bytes = {} => 0 .. len - 1 \subseteq used
  BY <1>0, <1>1, <1>2
<1>4. ASSUME bytes # {}
      PROVE  \E start \in (0 .. len - 1) \ used :
               start = Min(Byte(Min(bytes)) \ used) /\ \A y \in (0 .. len - 1) \ used : start <= y
  <2>1. bytes \subseteq Nat
    BY <1>0
  <2>a. Min(bytes) \in bytes /\ \A i \in bytes : Min(bytes) <= i
    BY <1>4, <2>1, MinLeast
  <2>2. PICK m \in bytes : m = Min(bytes) /\ \A i \in bytes : m <= i
    BY <2>a, Zenon
  <2>3. m \in 0 .. q - 1 /\ Byte(m) \ used # {}
    BY <1>0, <1>1, <2>2
  <2>4. Byte(m) \subseteq 0 .. len - 1
    BY <1>1, <2>3, BytesInside
  <2>5. Byte(m) \ used \subseteq Nat
    BY <2>4
  <2>6. PICK start \in Byte(m) \ used :
          start = Min(Byte(m) \ used) /\ \A y \in Byte(m) \ used : start <= y
    BY <2>3, <2>5, MinLeast, Zenon
  <2>7. ASSUME NEW y \in (0 .. len - 1) \ used PROVE start <= y
    <3>1. PICK i \in 0 .. q - 1 : y \in Byte(i)
      BY <1>2
    <3>2. i \in bytes /\ m <= i /\ i \in Nat /\ m \in Nat
      BY <1>0, <1>1, <2>2, <2>3, <3>1
    <3>3. CASE i = m
      BY <2>6, <3>1, <3>3
    <3>4. CASE m < i
      <4>1. start < y
        BY <2>6, <3>1, <3>2, <3>4, BytesApart
      <4>2. start \in Nat
        BY <2>5
      <4> QED
        BY <4>1, <4>2
    <3> QED
      BY <3>2, <3>3, <3>4
  <2>8. start \in (0 .. len - 1) \ used
    BY <2>4
  <2> QED
    BY <2>2, <2>6, <2>7, <2>8, Zenon
<1> QED
  BY <1>0, <1>3, <1>4, Zenon

(* Where the counter first reaches cnt, the first run of cnt clear bits    *)
(* ends.                                                                   *)
LEMMA FirstRun ==
  ASSUME NEW used, NEW len \in Nat, NEW cnt \in Nat \ {0},
         NEW start \in (0 .. len - 1) \ used, \A y \in (0 .. len - 1) \ used : start <= y,
         NEW count, \A b \in start .. len - 1 : count[b] \in Nat /\ IsRun(used, start, b, count[b])
  PROVE  /\ \A e \in Ends(count, start, len, cnt) : e - cnt + 1 \in Fits(used, len, cnt)
         /\ \A i \in Fits(used, len, cnt) :
              \E e \in Ends(count, start, len, cnt) : e - cnt + 1 <= i
<1> DEFINE ends == {b \in start .. len - 1 : count[b] = cnt}
           fits == {i \in 0 .. len - cnt : (i .. i + cnt - 1) \cap used = {}}
<1>1. ASSUME NEW e \in ends PROVE e - cnt + 1 \in fits
  <2>1. IsRun(used, start, e, cnt) /\ e \in start .. len - 1
    OBVIOUS
  <2>2. cnt <= e - start + 1 /\ \A n \in 0 .. cnt - 1 : e - n \notin used
    BY <2>1 DEF IsRun
  <2>3. ASSUME NEW x \in e - cnt + 1 .. e PROVE x \notin used
    <3>1. e - x \in 0 .. cnt - 1 /\ e - (e - x) = x
      BY <2>1
    <3> QED
      BY <2>2, <3>1
  <2>4. e - cnt + 1 \in 0 .. len - cnt /\ (e - cnt + 1) + cnt - 1 = e
    BY <2>1, <2>2
  <2> QED
    BY <2>3, <2>4
<1>2. ASSUME NEW i \in fits PROVE \E e \in ends : e - cnt + 1 <= i
  <2>1. i \in 0 .. len - cnt /\ \A x \in i .. i + cnt - 1 : x \notin used
    OBVIOUS
  <2>2. i \in (0 .. len - 1) \ used
    BY <2>1
  <2>3. start <= i
    BY <2>2
  <2>4. PICK b \in start .. len - 1 : b = i + cnt - 1
    BY <2>1, <2>3
  <2>5. PICK k \in Nat : k = count[b] /\ IsRun(used, start, b, k)
    OBVIOUS
  <2>6. k \in 0 .. b - start + 1 /\ (k = b - start + 1 \/ b - k \in used)
        /\ \A n \in 0 .. k - 1 : b - n \notin used
    BY <2>5 DEF IsRun
  <2>7. cnt <= k
    <3>1. CASE k < cnt
      <4>1. b - k \in i .. i + cnt - 1 /\ k # b - start + 1
        BY <2>3, <2>4, <3>1
      <4> QED
        BY <2>1, <2>6, <4>1
    <3> QED
      BY <3>1
  <2>8. PICK e \in start .. len - 1 : e = b - (k - cnt)
    BY <2>4, <2>6, <2>7
  <2>9. IsRun(used, start, e, cnt)
    <3>1. cnt \in 0 .. e - start + 1
      BY <2>6, <2>7, <2>8
    <3>2. e - cnt = b - k /\ (k = b - start + 1 => cnt = e - start + 1)
      BY <2>8
    <3>3. ASSUME NEW n \in 0 .. cnt - 1 PROVE e - n \notin used
      <4>1. n + (k - cnt) \in 0 .. k - 1 /\ b - (n + (k - cnt)) = e - n
        BY <2>7, <2>8
      <4> QED
        BY <2>6, <4>1
    <3> QED
      BY <2>6, <3>1, <3>2, <3>3 DEF IsRun
  <2>10. count[e] = cnt
    <3>1. e \in Nat /\ IsRun(used, start, e, count[e])
      OBVIOUS
    <3> QED
      BY <2>9, <3>1, RunUnique
  <2>11. e - cnt + 1 <= i
    BY <2>4, <2>7, <2>8
  <2> QED
    BY <2>10, <2>11
<1> QED
  BY <1>1, <1>2, Zenon DEF Ends, Fits

(* bitmap_scan: for every bitmap whose length is a whole number of bytes   *)
(* and every number of bits asked for, the scan byte by byte and the       *)
(* counter find the first hole that is large enough, or that there is none.*)
THEOREM BitmapScanIsFirstFit ==
  ASSUME ByteBits \in Nat \ {0}, NEW len \in Nat, len % ByteBits = 0, NEW used,
         NEW cnt \in Nat \ {0}
  PROVE  bitmap_scan(used, len, cnt) = FirstFit(used, len, cnt)
<1> DEFINE bytes == Gaps(used, len)
           start == First(used, len)
           count == Counter(used, start, len)
           ends  == Ends(count, start, len, cnt)
           fits  == Fits(used, len, cnt)
<1>1. bitmap_scan(used, len, cnt) = IF bytes = {} THEN NoBits ELSE IF cnt = 1 THEN start
                                    ELSE IF ends = {} THEN NoBits ELSE Min(ends) - cnt + 1
  BY Zenon DEF bitmap_scan, Gaps, First, Counter, Ends
<1>2. FirstFit(used, len, cnt) = IF fits = {} THEN NoBits ELSE Min(fits)
  BY Zenon DEF FirstFit, Fits
<1>3. fits \subseteq Nat /\ \A i \in fits : i \in (0 .. len - 1) \ used
  BY DEF Fits
<1>4. /\ bytes = {} => 0 .. len - 1 \subseteq used
      /\ bytes # {} => /\ start \in (0 .. len - 1) \ used
                      /\ \A y \in (0 .. len - 1) \ used : start <= y
  BY FirstClear, Zenon
<1>5. CASE bytes = {}
  <2>1. fits = {}
    BY <1>3, <1>4, <1>5
  <2> QED
    BY <1>1, <1>2, <1>5, <2>1
<1>6. CASE bytes # {} /\ cnt = 1
  <2> HIDE DEF bytes, start
  <2>1. start \in fits /\ \A i \in fits : start <= i
    BY <1>3, <1>4, <1>6 DEF Fits
  <2> HIDE DEF fits
  <2>2. Min(fits) = start
    BY <1>3, <2>1, MinIs
  <2> QED
    BY <1>1, <1>2, <1>6, <2>1, <2>2
<1>7. CASE bytes # {} /\ cnt # 1
  <2>1. PICK s \in (0 .. len - 1) \ used : s = start
    BY <1>4, <1>7
  <2>2. PICK n : n = count
    OBVIOUS
  <2> HIDE DEF start
  <2>3. \A b \in s .. len - 1 : n[b] \in Nat /\ IsRun(used, s, b, n[b])
    BY <2>1, <2>2, CountsRuns
  <2> HIDE DEF count
  <2>4. /\ \A e \in ends : e - cnt + 1 \in fits
        /\ \A i \in fits : \E e \in ends : e - cnt + 1 <= i
    BY <1>4, <1>7, <2>1, <2>2, <2>3, FirstRun
  <2>5. ends \subseteq Nat
    BY <2>1 DEF Ends
  <2> HIDE DEF ends, fits
  <2>6. CASE ends = {}
    BY <1>1, <1>2, <1>7, <2>4, <2>6
  <2>7. CASE ends # {}
    <3>1. PICK e \in ends : e = Min(ends) /\ \A b \in ends : e <= b
      BY <2>5, <2>7, MinLeast, Zenon
    <3>2. e - cnt + 1 \in fits /\ \A i \in fits : e - cnt + 1 <= i
      <4>1. ASSUME NEW i \in fits PROVE e - cnt + 1 <= i
        <5>1. PICK b \in ends : b - cnt + 1 <= i
          BY <2>4
        <5>2. b \in Nat /\ e \in Nat /\ e <= b /\ i \in Nat
          BY <1>3, <2>5, <3>1
        <5> QED
          BY <5>1, <5>2
      <4> QED
        BY <2>4, <4>1
    <3>3. Min(fits) = e - cnt + 1
      BY <1>3, <3>2, MinIs
    <3> QED
      BY <1>1, <1>2, <1>7, <2>7, <3>1, <3>2, <3>3
  <2> QED
    BY <2>6, <2>7
<1> QED
  BY <1>5, <1>6, <1>7

-----------------------------------------------------------------------------

(* Which elements are on a list.                                           *)
LEMMA InToSet ==
  ASSUME NEW S, NEW s \in Seq(S)
  PROVE  /\ DOMAIN s = 1 .. Len(s) /\ Len(s) \in Nat /\ ToSet(s) \subseteq S
         /\ \A y : y \in ToSet(s) <=> \E i \in 1 .. Len(s) : s[i] = y
<1>1. DOMAIN s = 1 .. Len(s) /\ Len(s) \in Nat /\ \A i \in 1 .. Len(s) : s[i] \in S
  OBVIOUS
<1>2. \A y : y \in ToSet(s) <=> \E i \in 1 .. Len(s) : s[i] = y
  BY <1>1, Zenon DEF ToSet
<1> QED
  BY <1>1, <1>2

(* list_append.                                                            *)
LEMMA AppendElements ==
  ASSUME NEW S, NEW s \in Seq(S), NEW x \in S
  PROVE  /\ Append(s, x) \in Seq(S)
         /\ \A y : y \in ToSet(Append(s, x)) <=> y \in ToSet(s) \/ y = x
         /\ IsInjective(s) /\ x \notin ToSet(s) => IsInjective(Append(s, x))
<1> DEFINE a == Append(s, x)
<1>1. /\ a \in Seq(S) /\ Len(a) = Len(s) + 1 /\ Len(s) \in Nat
      /\ a[Len(s) + 1] = x /\ \A i \in 1 .. Len(s) : a[i] = s[i]
  OBVIOUS
<1>2. /\ DOMAIN s = 1 .. Len(s)
      /\ \A y : y \in ToSet(s) <=> \E i \in 1 .. Len(s) : s[i] = y
  BY InToSet
<1>3. /\ DOMAIN a = 1 .. Len(a)
      /\ \A y : y \in ToSet(a) <=> \E i \in 1 .. Len(a) : a[i] = y
  BY <1>1, InToSet
<1> HIDE DEF a
<1>4. \A y : y \in ToSet(a) <=> y \in ToSet(s) \/ y = x
  BY <1>1, <1>2, <1>3
<1>5. ASSUME IsInjective(s), x \notin ToSet(s) PROVE IsInjective(a)
  BY <1>1, <1>2, <1>3, <1>5 DEF IsInjective
<1> QED
  BY <1>1, <1>4, <1>5 DEF a

(* list_pop.                                                               *)
LEMMA TailElements ==
  ASSUME NEW S, NEW s \in Seq(S), s # <<>>, IsInjective(s)
  PROVE  /\ Head(s) \in S /\ Head(s) \in ToSet(s) /\ Tail(s) \in Seq(S)
         /\ IsInjective(Tail(s))
         /\ \A y : y \in ToSet(Tail(s)) <=> y \in ToSet(s) /\ y # Head(s)
<1> DEFINE a == Tail(s)
<1>1. /\ a \in Seq(S) /\ Len(a) = Len(s) - 1 /\ Len(s) \in Nat \ {0}
      /\ Head(s) = s[1] /\ \A i \in 1 .. Len(a) : a[i] = s[i + 1]
  OBVIOUS
<1> HIDE DEF a
<1>2. /\ DOMAIN s = 1 .. Len(s) /\ ToSet(s) \subseteq S
      /\ \A y : y \in ToSet(s) <=> \E i \in 1 .. Len(s) : s[i] = y
  BY InToSet
<1>3. /\ DOMAIN a = 1 .. Len(a)
      /\ \A y : y \in ToSet(a) <=> \E i \in 1 .. Len(a) : a[i] = y
  BY <1>1, InToSet
<1>4. Head(s) \in ToSet(s)
  BY <1>1, <1>2
<1>5. IsInjective(a)
  <2> SUFFICES ASSUME NEW i \in 1 .. Len(a), NEW j \in 1 .. Len(a), a[i] = a[j] PROVE i = j
    BY <1>3 DEF IsInjective
  <2>1. i + 1 \in 1 .. Len(s) /\ j + 1 \in 1 .. Len(s) /\ s[i + 1] = s[j + 1]
    BY <1>1
  <2>2. i + 1 = j + 1
    BY <1>2, <2>1 DEF IsInjective
  <2> QED
    BY <2>2
<1>6. ASSUME NEW y, y \in ToSet(a) PROVE y \in ToSet(s) /\ y # Head(s)
  <2>1. PICK i \in 1 .. Len(a) : a[i] = y
    BY <1>3, <1>6
  <2>2. i + 1 \in 1 .. Len(s) /\ s[i + 1] = y /\ i + 1 # 1
    BY <1>1, <2>1
  <2> QED
    BY <1>1, <1>2, <2>2 DEF IsInjective
<1>7. ASSUME NEW y, y \in ToSet(s), y # Head(s) PROVE y \in ToSet(a)
  <2>1. PICK i \in 1 .. Len(s) : s[i] = y
    BY <1>2, <1>7
  <2>2. i - 1 \in 1 .. Len(a) /\ a[i - 1] = y
    BY <1>1, <1>7, <2>1
  <2> QED
    BY <1>3, <2>2
<1> QED
  BY <1>1, <1>2, <1>4, <1>5, <1>6, <1>7 DEF a

(* Two lists, one after the other.                                         *)
LEMMA Joined ==
  ASSUME NEW S, NEW s \in Seq(S), NEW r \in Seq(S)
  PROVE  /\ s \o r \in Seq(S) /\ Len(s \o r) = Len(s) + Len(r) /\ Len(s) \in Nat
         /\ \A i \in 1 .. Len(s) : (s \o r)[i] = s[i]
         /\ \A k \in 1 .. Len(r) : (s \o r)[Len(s) + k] = r[k]
OBVIOUS

(* The blocks of a new arena are appended one after the other.             *)
LEMMA NewBlocks ==
  ASSUME NEW S, NEW s \in Seq(S \X Nat), NEW p \in S, NEW n \in Nat,
         \A y \in ToSet(s) : y[1] # p
  PROVE  LET a == s \o [k \in 1 .. n |-> <<p, k - 1>>]
         IN  /\ a \in Seq(S \X Nat) /\ (n > 0 => a # <<>>)
             /\ IsInjective(s) => IsInjective(a)
             /\ \A y : y \in ToSet(a) <=> y \in ToSet(s) \/ y \in {p} \X (0 .. n - 1)
<1> DEFINE r == [k \in 1 .. n |-> <<p, k - 1>>]
           a == s \o r
<1>1. r \in Seq(S \X Nat) /\ Len(r) = n /\ \A k \in 1 .. n : r[k] = <<p, k - 1>>
  OBVIOUS
<1> HIDE DEF r
<1>2. /\ a \in Seq(S \X Nat) /\ Len(a) = Len(s) + n /\ Len(s) \in Nat
      /\ \A i \in 1 .. Len(s) : a[i] = s[i]
      /\ \A k \in 1 .. n : a[Len(s) + k] = r[k]
  <2>1. PICK T : T = S \X Nat
    OBVIOUS
  <2>2. s \in Seq(T) /\ r \in Seq(T)
    BY <1>1, <2>1, Zenon
  <2>3. /\ s \o r \in Seq(T) /\ Len(s \o r) = Len(s) + Len(r) /\ Len(s) \in Nat
        /\ \A i \in 1 .. Len(s) : (s \o r)[i] = s[i]
        /\ \A k \in 1 .. Len(r) : (s \o r)[Len(s) + k] = r[k]
    BY <2>2, Joined
  <2> QED
    BY <1>1, <2>1, <2>3, Zenon
<1> HIDE DEF a
<1>3. /\ DOMAIN s = 1 .. Len(s)
      /\ \A y : y \in ToSet(s) <=> \E i \in 1 .. Len(s) : s[i] = y
  BY InToSet
<1>4. /\ DOMAIN a = 1 .. Len(a)
      /\ \A y : y \in ToSet(a) <=> \E i \in 1 .. Len(a) : a[i] = y
  BY <1>2, InToSet
<1>5. \A i \in 1 .. Len(a) : \/ i \in 1 .. Len(s) /\ a[i] = s[i]
                             \/ i - Len(s) \in 1 .. n /\ a[i] = <<p, i - Len(s) - 1>>
  <2> SUFFICES ASSUME NEW i \in 1 .. Len(a)
               PROVE  \/ i \in 1 .. Len(s) /\ a[i] = s[i]
                      \/ i - Len(s) \in 1 .. n /\ a[i] = <<p, i - Len(s) - 1>>
    BY Zenon
  <2>0. CASE i \in 1 .. Len(s)
    BY <1>2, <2>0
  <2>1. CASE i \notin 1 .. Len(s)
    <3>1. i - Len(s) \in 1 .. n /\ i = Len(s) + (i - Len(s))
      <4>1. Len(a) = Len(s) + n /\ Len(s) \in Nat
        BY <1>2
      <4> QED
        BY <2>1, <4>1
    <3>2. PICK k \in 1 .. n : k = i - Len(s)
      BY <3>1
    <3>3. a[i] = r[k] /\ r[k] = <<p, k - 1>>
      BY <1>1, <1>2, <3>1, <3>2
    <3> QED
      BY <3>1, <3>2, <3>3
  <2> QED
    BY <2>0, <2>1
<1>6. \A k \in 1 .. n : Len(s) + k \in 1 .. Len(a) /\ a[Len(s) + k] = <<p, k - 1>>
  <2> SUFFICES ASSUME NEW k \in 1 .. n
               PROVE  Len(s) + k \in 1 .. Len(a) /\ a[Len(s) + k] = <<p, k - 1>>
    OBVIOUS
  <2>1. Len(a) = Len(s) + n /\ Len(s) \in Nat
    BY <1>2
  <2>2. a[Len(s) + k] = r[k] /\ r[k] = <<p, k - 1>>
    BY <1>1, <1>2
  <2> QED
    BY <2>1, <2>2
<1>7. ASSUME NEW y PROVE y \in ToSet(a) <=> y \in ToSet(s) \/ y \in {p} \X (0 .. n - 1)
  <2>1. ASSUME y \in ToSet(a) PROVE y \in ToSet(s) \/ y \in {p} \X (0 .. n - 1)
    <3>1. PICK i \in 1 .. Len(a) : a[i] = y
      BY <1>4, <2>1
    <3>2. CASE i \in 1 .. Len(s) /\ a[i] = s[i]
      BY <1>3, <3>1, <3>2
    <3>3. CASE i - Len(s) \in 1 .. n /\ a[i] = <<p, i - Len(s) - 1>>
      <4>1. PICK k \in 1 .. n : k = i - Len(s)
        BY <3>3
      <4>2. y = <<p, k - 1>> /\ k - 1 \in 0 .. n - 1
        BY <3>1, <3>3, <4>1
      <4> QED
        BY <4>2
    <3> QED
      BY <1>5, <3>2, <3>3
  <2>2. ASSUME y \in ToSet(s) PROVE y \in ToSet(a)
    <3>1. PICK i \in 1 .. Len(s) : s[i] = y
      BY <1>3, <2>2
    <3>2. i \in 1 .. Len(a) /\ a[i] = y
      BY <1>2, <3>1
    <3> QED
      BY <1>4, <3>2
  <2>3. ASSUME y \in {p} \X (0 .. n - 1) PROVE y \in ToSet(a)
    <3>1. PICK k \in 0 .. n - 1 : y = <<p, k>>
      BY <2>3
    <3>2. k + 1 \in 1 .. n /\ (k + 1) - 1 = k
      OBVIOUS
    <3>3. Len(s) + (k + 1) \in 1 .. Len(a) /\ a[Len(s) + (k + 1)] = y
      BY <1>6, <3>1, <3>2
    <3> QED
      BY <1>4, <3>3
  <2> QED
    BY <2>1, <2>2, <2>3
<1>8. ASSUME IsInjective(s) PROVE IsInjective(a)
  <2> SUFFICES ASSUME NEW i \in 1 .. Len(a), NEW j \in 1 .. Len(a), a[i] = a[j]
               PROVE  i = j
    BY <1>4 DEF IsInjective
  <2>1. CASE i \in 1 .. Len(s) /\ j \in 1 .. Len(s)
    <3>1. s[i] = s[j]
      BY <1>2, <2>1
    <3> QED
      BY <1>3, <1>8, <2>1, <3>1 DEF IsInjective
  <2>2. CASE i \notin 1 .. Len(s) /\ j \notin 1 .. Len(s)
    <3>1. <<p, i - Len(s) - 1>> = <<p, j - Len(s) - 1>>
      BY <1>5, <2>2
    <3>2. i - Len(s) - 1 = j - Len(s) - 1
      BY <3>1
    <3> QED
      BY <1>2, <3>2
  <2>3. ASSUME NEW x \in 1 .. Len(s), NEW z \in 1 .. Len(a), z \notin 1 .. Len(s), a[x] = a[z]
        PROVE  FALSE
    <3>1. a[x] \in ToSet(s)
      BY <1>2, <1>3
    <3>2. a[z] = <<p, z - Len(s) - 1>>
      BY <1>5, <2>3
    <3>3. a[z][1] = p
      BY <3>2
    <3> QED
      BY <2>3, <3>1, <3>3
  <2> QED
    BY <2>1, <2>2, <2>3
<1>9. n > 0 => a # <<>>
  BY <1>2, <1>4
<1> QED
  BY <1>2, <1>7, <1>8, <1>9 DEF a, r

(* The walk of sys_free over an arena without a block in use, as the       *)
(* function of how far it has come.                                        *)
Rest(list, p) ==
  CHOOSE f : f = [i \in 0 .. Len(list) |->
    IF i = 0 THEN <<>> ELSE IF list[i][1] = p THEN f[i - 1] ELSE Append(f[i - 1], list[i])]

(* The loop of sys_free, step by step.                                     *)
LEMMA RestExists ==
  ASSUME NEW S, NEW s \in Seq(S), NEW p
  PROVE  /\ Rest(s, p)[0] = <<>>
         /\ \A i \in 1 .. Len(s) : Rest(s, p)[i] =
              IF s[i][1] = p THEN Rest(s, p)[i - 1] ELSE Append(Rest(s, p)[i - 1], s[i])
<1> DEFINE Step(f, i) == IF i = 0 THEN <<>>
                         ELSE IF s[i][1] = p THEN f[i - 1] ELSE Append(f[i - 1], s[i])
           Upto(f, n) == f = [i \in 0 .. n |-> Step(f, i)]
           Bad == {n \in 0 .. Len(s) : ~ \E f : Upto(f, n)}
<1>1. Bad = {}
  <2> SUFFICES ASSUME Bad # {} PROVE FALSE
    OBVIOUS
  <2>1. Bad \subseteq Nat
    OBVIOUS
  <2>2. PICK n \in Bad : \A m \in Bad : n <= m
    BY <2>1, Least
  <2>a. n \in 0 .. Len(s) /\ Len(s) \in Nat
    OBVIOUS
  <2>3. CASE n = 0
    <3>1. Upto([i \in 0 .. 0 |-> <<>>], 0)
      OBVIOUS
    <3> QED
      BY <2>2, <2>3, <3>1
  <2>4. CASE n # 0
    <3>1. n - 1 \in 0 .. Len(s) /\ n - 1 \notin Bad
      <4> HIDE DEF Bad
      <4> QED
        BY <2>2, <2>4, <2>a
    <3>2. PICK f : Upto(f, n - 1)
      BY <3>1
    <3> DEFINE g == [i \in 0 .. n |-> IF i = n THEN Step(f, n) ELSE f[i]]
    <3>3. \A i \in 0 .. n - 1 : f[i] = Step(f, i)
      <4> HIDE DEF Step
      <4> QED
        BY <3>2
    <3>4. \A i \in 0 .. n : i # 0 => i - 1 \in 0 .. n /\ g[i - 1] = f[i - 1]
      OBVIOUS
    <3>5. \A i \in 0 .. n : Step(g, i) = Step(f, i)
      <4> HIDE DEF g
      <4> QED
        BY <3>4
    <3>6. \A i \in 0 .. n : g[i] = Step(f, i)
      <4> HIDE DEF Step
      <4> QED
        BY <3>3
    <3>7. g = [i \in 0 .. n |-> g[i]]
      OBVIOUS
    <3>8. Upto(g, n)
      <4> HIDE DEF g, Step
      <4> QED
        BY <3>5, <3>6, <3>7
    <3> QED
      BY <2>2, <3>8
  <2> QED
    BY <2>3, <2>4
<1>2. \E f : Upto(f, Len(s))
  <2>1. Len(s) \in 0 .. Len(s)
    OBVIOUS
  <2> HIDE DEF Upto
  <2> QED
    BY <1>1, <2>1
<1>3. Upto(Rest(s, p), Len(s))
  <2>1. Rest(s, p) = CHOOSE f : Upto(f, Len(s))
    BY DEF Rest
  <2> HIDE DEF Upto
  <2> QED
    BY <1>2, <2>1, Zenon
<1>4. \A i \in 0 .. Len(s) : Rest(s, p)[i] = Step(Rest(s, p), i)
  <2> HIDE DEF Step
  <2> QED
    BY <1>3
<1> QED
  BY <1>4

(* It keeps the other blocks, in their order.                              *)
LEMMA WithoutElements ==
  ASSUME NEW S, NEW s \in Seq(S), NEW p
  PROVE  /\ Without(s, p) \in Seq(S)
         /\ \A y : y \in ToSet(Without(s, p)) <=> y \in ToSet(s) /\ y[1] # p
         /\ IsInjective(s) => IsInjective(Without(s, p))
<1> DEFINE f == Rest(s, p)
           Good(i) == /\ f[i] \in Seq(S)
                      /\ \A y : y \in ToSet(f[i]) <=> y[1] # p /\ \E j \in 1 .. i : s[j] = y
                      /\ IsInjective(s) => IsInjective(f[i])
           Bad == {i \in 0 .. Len(s) : ~Good(i)}
<1>1. /\ f[0] = <<>>
      /\ \A i \in 1 .. Len(s) : f[i] = IF s[i][1] = p THEN f[i - 1] ELSE Append(f[i - 1], s[i])
  BY RestExists
<1>2. /\ DOMAIN s = 1 .. Len(s) /\ Len(s) \in Nat /\ \A i \in 1 .. Len(s) : s[i] \in S
      /\ \A y : y \in ToSet(s) <=> \E i \in 1 .. Len(s) : s[i] = y
  BY InToSet
<1> HIDE DEF f
<1>3. Good(0)
  <2>1. PICK e \in Seq(S) : e = f[0] /\ Len(e) = 0
    <3>1. <<>> \in Seq(S) /\ Len(<<>>) = 0
      OBVIOUS
    <3>2. f[0] = <<>>
      BY <1>1
    <3> HIDE DEF Good, Bad
    <3> QED
      BY <3>1, <3>2, Zenon
  <2>2. /\ DOMAIN e = 1 .. Len(e)
        /\ \A y : y \in ToSet(e) <=> \E i \in 1 .. Len(e) : e[i] = y
    BY InToSet
  <2> QED
    BY <2>1, <2>2 DEF IsInjective
<1>4. ASSUME NEW i \in 1 .. Len(s), Good(i - 1) PROVE Good(i)
  <2>1. /\ f[i - 1] \in Seq(S)
        /\ \A y : y \in ToSet(f[i - 1]) <=> y[1] # p /\ \E j \in 1 .. i - 1 : s[j] = y
        /\ IsInjective(s) => IsInjective(f[i - 1])
    BY <1>4
  <2>2. \A y : (\E j \in 1 .. i : s[j] = y) <=> y = s[i] \/ \E j \in 1 .. i - 1 : s[j] = y
    <3>1. \A j \in 1 .. i : j = i \/ j \in 1 .. i - 1
      OBVIOUS
    <3>2. i \in 1 .. i /\ \A j \in 1 .. i - 1 : j \in 1 .. i
      OBVIOUS
    <3> QED
      BY <3>1, <3>2, Zenon
  <2>3. CASE s[i][1] = p
    <3>1. f[i] = f[i - 1]
      BY <1>1, <2>3
    <3>2. \A y : y \in ToSet(f[i]) <=> y[1] # p /\ \E j \in 1 .. i : s[j] = y
      BY <2>1, <2>2, <2>3, <3>1, Zenon
    <3> QED
      BY <2>1, <3>1, <3>2, Zenon
  <2>4. CASE s[i][1] # p
    <3>1. f[i] = Append(f[i - 1], s[i]) /\ s[i] \in S
      BY <1>1, <1>2, <2>4
    <3>2. /\ f[i] \in Seq(S) /\ \A y : y \in ToSet(f[i]) <=> y \in ToSet(f[i - 1]) \/ y = s[i]
          /\ IsInjective(f[i - 1]) /\ s[i] \notin ToSet(f[i - 1]) => IsInjective(f[i])
      BY <2>1, <3>1, AppendElements
    <3>3. ASSUME NEW y PROVE y \in ToSet(f[i]) <=> y[1] # p /\ \E j \in 1 .. i : s[j] = y
      BY <2>1, <2>2, <2>4, <3>2, Zenon
    <3>4. ASSUME IsInjective(s) PROVE s[i] \notin ToSet(f[i - 1])
      <4>1. \A j \in 1 .. i - 1 : s[j] # s[i]
        BY <1>2, <3>4 DEF IsInjective
      <4> QED
        BY <2>1, <4>1, Zenon
    <3> QED
      BY <2>1, <3>2, <3>3, <3>4, Zenon
  <2> QED
    BY <2>3, <2>4
<1>5. Bad = {}
  <2> SUFFICES ASSUME Bad # {} PROVE FALSE
    OBVIOUS
  <2>1. Bad \subseteq Nat /\ Bad \subseteq 0 .. Len(s)
    OBVIOUS
  <2>2. PICK n \in Bad : \A m \in Bad : n <= m
    BY <2>1, Least
  <2>3. ~Good(n)
    BY <2>2
  <2> HIDE DEF Good
  <2>4. n \in 1 .. Len(s)
    BY <1>2, <1>3, <2>1, <2>3
  <2>5. n - 1 \in 0 .. Len(s) /\ ~(n <= n - 1)
    BY <1>2, <2>4
  <2>6. n - 1 \notin Bad
    <3> HIDE DEF Bad
    <3> QED
      BY <2>2, <2>5
  <2>7. Good(n - 1)
    BY <2>5, <2>6
  <2> QED
    BY <1>4, <2>3, <2>4, <2>7
<1>6. Good(Len(s))
  <2> HIDE DEF Good
  <2> QED
    BY <1>2, <1>5
<1>7. Without(s, p) = f[Len(s)]
  BY Zenon DEF Without, Rest, f
<1> QED
  BY <1>2, <1>6, <1>7, Zenon

-----------------------------------------------------------------------------

(* The blocks of an arena, counted.                                        *)
LEMMA ArenaCounted ==
  ASSUME NEW p, NEW n \in Nat
  PROVE  IsFiniteSet({p} \X (0 .. n - 1)) /\ Cardinality({p} \X (0 .. n - 1)) = n
<1>1. IsFiniteSet(0 .. n - 1) /\ Cardinality(0 .. n - 1) = n
  <2>1. 0 \in Int /\ n - 1 \in Int
    OBVIOUS
  <2>2. IsFiniteSet(0 .. n - 1) /\ Cardinality(0 .. n - 1) = IF 0 > n - 1 THEN 0 ELSE n - 1 - 0 + 1
    BY <2>1, FS_Interval
  <2> QED
    BY <2>2
<1>2. IsFiniteSet({p}) /\ Cardinality({p}) = 1
  BY FS_Singleton
<1>3. /\ IsFiniteSet({p} \X (0 .. n - 1))
      /\ Cardinality({p} \X (0 .. n - 1)) = Cardinality({p}) * Cardinality(0 .. n - 1)
  BY <1>1, <1>2, FS_Product
<1> QED
  BY <1>1, <1>2, <1>3

(* All but one of them and that one are all of them.                       *)
LEMMA LastOne ==
  ASSUME NEW all, IsFiniteSet(all), NEW S, S \subseteq all, NEW x \in all, x \notin S
  PROVE  /\ IsFiniteSet(S) /\ Cardinality(S) \in Nat /\ Cardinality(S) < Cardinality(all)
         /\ Cardinality(S \cup {x}) = Cardinality(S) + 1
         /\ Cardinality(S) + 1 = Cardinality(all) => S \cup {x} = all
<1>1. IsFiniteSet(S) /\ Cardinality(S) \in Nat /\ Cardinality(all) \in Nat
  BY FS_Subset, FS_CardinalityType
<1>2. Cardinality(S \cup {x}) = Cardinality(S) + 1
  BY <1>1, FS_AddElement
<1>3. /\ Cardinality(S \cup {x}) <= Cardinality(all)
      /\ Cardinality(S \cup {x}) = Cardinality(all) => S \cup {x} = all
  <2>1. S \cup {x} \subseteq all
    OBVIOUS
  <2> QED
    BY <2>1, FS_Subset
<1> QED
  BY <1>1, <1>2, <1>3

-----------------------------------------------------------------------------

Fields == {"op", "desc", "step", "n", "i", "page", "idx"}

LockTypes ==
  /\ owner \in Threads \cup {None} /\ depth \in Nat
  /\ kept \in [Threads -> Nat]
  /\ DOMAIN call = Threads
  /\ call = [t \in Threads |-> call[t]]
  /\ \A t \in Threads : DOMAIN call[t] = Fields

(* What a step says about the operation it belongs to.                     *)
StepInv == \A t \in Threads :
  /\ call[t].step = "out"  => call[t].op = "none"
  /\ call[t].step = "pop"  => call[t].op = "small"
  /\ call[t].step = "free" => call[t].op = "free"

HInv == LockTypes /\ StepInv /\ LockKeptByLarge

-----------------------------------------------------------------------------

(* mem_init leaves the lock free and nobody in a call.                     *)
LEMMA InitSound == Init => HInv
BY HeapAssumption DEF Init, HInv, LockTypes, StepInv, LockKeptByLarge, InUse, NoCall, Fields

(* A step of t that keeps the operations of all threads and the lock.      *)
LEMMA QuietSound ==
  ASSUME HInv, NEW t \in Threads, UNCHANGED <<lock, kept>>,
         DOMAIN call' = Threads, call' = [u \in Threads |-> call'[u]],
         DOMAIN call'[t] = Fields, \A u \in Threads \ {t} : call'[u] = call[u],
         InUse(t)' = InUse(t),
         call'[t].step = "out"  => call'[t].op = "none",
         call'[t].step = "pop"  => call'[t].op = "small",
         call'[t].step = "free" => call'[t].op = "free"
  PROVE  HInv'
<1>1. LockTypes' /\ StepInv'
  BY DEF HInv, LockTypes, StepInv, lock
<1>2. \A u \in Threads : InUse(u)' = InUse(u)
  BY DEF InUse
<1>3. LockKeptByLarge'
  BY <1>2, HeapAssumption DEF HInv, LockTypes, LockKeptByLarge, lock
<1> QED
  BY <1>1, <1>3 DEF HInv

(* A step that begins an operation takes the lock.                         *)
LEMMA AcquireSound ==
  ASSUME HInv, NEW t \in Threads, call[t].step = "out", Acquire(t), kept' = kept,
         NEW c, call' = [call EXCEPT ![t] = c], DOMAIN c = Fields,
         c.op \in {"small", "large", "free"}, c.step # "out",
         c.step = "pop" => c.op = "small", c.step = "free" => c.op = "free"
  PROVE  HInv'
<1>1. LockTypes' /\ StepInv'
  BY DEF HInv, LockTypes, StepInv, Acquire
<1>2. ~InUse(t) /\ InUse(t)' /\ \A u \in Threads \ {t} : InUse(u)' = InUse(u)
  BY DEF HInv, LockTypes, StepInv, InUse
<1>3. owner' = t /\ depth' = depth + 1 /\ (owner = t \/ owner = None)
  BY DEF Acquire
<1>4. \A u \in Threads \ {t} : ~InUse(u) /\ ~(kept[u] > 0)
  BY <1>3, HeapAssumption DEF HInv, LockKeptByLarge
<1>5. depth = kept[t]
  BY <1>2, <1>3, HeapAssumption DEF HInv, LockTypes, LockKeptByLarge
<1>6. LockKeptByLarge'
  BY <1>2, <1>3, <1>4, <1>5, HeapAssumption DEF HInv, LockTypes, LockKeptByLarge
<1> QED
  BY <1>1, <1>6 DEF HInv

(* One that ends a small request or a call of sys_free gives it back.      *)
LEMMA ReleaseSound ==
  ASSUME HInv, NEW t \in Threads, call[t].step \in {"pop", "free"}, Release, Return(t),
         kept' = kept
  PROVE  HInv'
<1>1. owner = t /\ depth = kept[t] + 1 /\ InUse(t)
  BY HeapAssumption DEF HInv, StepInv, LockKeptByLarge, InUse
<1>2. depth' = kept[t] /\ owner' = IF kept[t] = 0 THEN None ELSE t
  BY <1>1 DEF Release, HInv, LockTypes
<1>3. LockTypes' /\ StepInv'
  BY <1>2 DEF HInv, LockTypes, StepInv, Return, NoCall, Fields
<1>4. ~InUse(t)' /\ \A u \in Threads \ {t} : InUse(u)' = InUse(u)
  BY DEF HInv, LockTypes, Return, NoCall, InUse
<1>5. \A u \in Threads \ {t} : ~InUse(u) /\ ~(kept[u] > 0)
  BY <1>1 DEF HInv, LockKeptByLarge
<1>6. LockKeptByLarge'
  BY <1>2, <1>4, <1>5, HeapAssumption DEF HInv, LockTypes, LockKeptByLarge
<1> QED
  BY <1>3, <1>6 DEF HInv

-----------------------------------------------------------------------------

(* A step within a call keeps the bookkeeping of the lock.                 *)
LEMMA WorkSound == ASSUME HInv, NEW t \in Threads, Work(t) PROVE HInv'
<1> USE DEF HInv, LockTypes, At, lock
<1>1. CASE vaddr_get(t)
  BY <1>1, QuietSound DEF vaddr_get, Fields, InUse
<1>2. CASE vaddr_set(t)
  <2>1. call' = [call EXCEPT ![t].page = call[t].idx, ![t].step = "palloc"]
        /\ UNCHANGED <<lock, kept>>
    BY <1>2 DEF vaddr_set
  <2>2. DOMAIN call' = Threads /\ call' = [u \in Threads |-> call'[u]]
        /\ DOMAIN call'[t] = Fields /\ call'[t].op = call[t].op /\ call'[t].step = "palloc"
        /\ \A u \in Threads \ {t} : call'[u] = call[u]
    BY <2>1 DEF Fields
  <2> QED
    BY <2>1, <2>2, QuietSound DEF InUse
<1>3. CASE palloc(t)
  BY <1>3, QuietSound DEF palloc, Fields, InUse
<1>4. CASE map(t)
  <2>1. CASE call[t].i + 1 < call[t].n \/ call[t].op # "pages"
    BY <1>4, <2>1, QuietSound DEF map, Fields, InUse
  <2>2. CASE ~(call[t].i + 1 < call[t].n) /\ call[t].op = "pages"
    BY <1>4, <2>2, QuietSound DEF map, Return, NoCall, Fields, InUse
  <2> QED
    BY <2>1, <2>2
<1>5. CASE header_large(t)
  <2>1. owner = t /\ depth = kept[t] + 1
    BY <1>5, HeapAssumption DEF header_large, LockKeptByLarge, InUse
  <2>2. kept' = [kept EXCEPT ![t] = @ + 1] /\ UNCHANGED <<owner, depth>> /\ Return(t)
    BY <1>5 DEF header_large
  <2>3. ~InUse(t)' /\ \A u \in Threads \ {t} : InUse(u)' = InUse(u)
    BY <2>2 DEF Return, NoCall, InUse
  <2>4. LockTypes' /\ StepInv'
    BY <2>2 DEF StepInv, Return, NoCall, Fields
  <2>5. LockKeptByLarge'
    BY <2>1, <2>2, <2>3, HeapAssumption DEF LockKeptByLarge
  <2> QED
    BY <2>4, <2>5
<1>6. CASE header_small(t)
  <2>1. call' = [call EXCEPT ![t].step = "pop"] /\ call[t].op = "small"
        /\ UNCHANGED <<lock, kept>>
    BY <1>6 DEF header_small, Goto
  <2>2. DOMAIN call' = Threads /\ call' = [u \in Threads |-> call'[u]]
        /\ DOMAIN call'[t] = Fields /\ call'[t].op = "small" /\ call'[t].step = "pop"
        /\ \A u \in Threads \ {t} : call'[u] = call[u]
    BY <2>1 DEF Fields
  <2> QED
    BY <2>1, <2>2, QuietSound DEF InUse
<1>7. CASE pop(t)
  BY <1>7, ReleaseSound DEF pop
<1>8. CASE free_large(t)
  BY <1>8, ReleaseSound DEF free_large
<1>9. CASE free_small(t)
  BY <1>9, ReleaseSound DEF free_small
<1>10. CASE malloc_page_TooMany(t)
  BY <1>10 DEF malloc_page_TooMany, StepInv, LockKeptByLarge, InUse
<1> QED
  BY <1>1, <1>2, <1>3, <1>4, <1>5, <1>6, <1>7, <1>8, <1>9, <1>10 DEF Work

(* Every step does.                                                        *)
LEMMA NextSound == ASSUME HInv, [Next]_vars PROVE HInv'
<1>1. CASE intr_enable \/ UNCHANGED vars
  BY <1>1 DEF intr_enable, vars, lock, HInv, LockTypes, StepInv, LockKeptByLarge, InUse
<1>2. ASSUME NEW t \in Threads, get_kernel_pages(t) PROVE HInv'
  BY <1>2, QuietSound DEF get_kernel_pages, Begin, At, NoCall, Fields, InUse, HInv, LockTypes, StepInv
<1>3. ASSUME NEW t \in Threads, sys_malloc_large(t) PROVE HInv'
  <2>1. PICK n \in 1 .. MaxPages : Begin(t, "large", None, n, "vaddr_get")
    BY <1>3 DEF sys_malloc_large
  <2> DEFINE c == [NoCall EXCEPT !.op = "large", !.desc = None, !.n = n, !.step = "vaddr_get"]
  <2>2. call[t].step = "out" /\ call' = [call EXCEPT ![t] = c]
    BY <2>1 DEF Begin, At
  <2>3. DOMAIN c = Fields /\ c.op = "large" /\ c.step = "vaddr_get"
    BY DEF NoCall, Fields
  <2>4. Acquire(t) /\ kept' = kept
    BY <1>3 DEF sys_malloc_large
  <2> HIDE DEF c
  <2> QED
    BY <2>2, <2>3, <2>4, AcquireSound
<1>4. ASSUME NEW t \in Threads, sys_malloc_small(t) PROVE HInv'
  <2>1. PICK d \in Descs :
          Begin(t, "small", d, 1, IF free[d] = <<>> THEN "vaddr_get" ELSE "pop")
    BY <1>4 DEF sys_malloc_small
  <2> DEFINE step == IF free[d] = <<>> THEN "vaddr_get" ELSE "pop"
             c == [NoCall EXCEPT !.op = "small", !.desc = d, !.n = 1, !.step = step]
  <2>2. call[t].step = "out" /\ call' = [call EXCEPT ![t] = c]
    BY <2>1 DEF Begin, At
  <2>3. DOMAIN c = Fields /\ c.op = "small" /\ c.step \in {"vaddr_get", "pop"}
    BY DEF NoCall, Fields
  <2>4. Acquire(t) /\ kept' = kept
    BY <1>4 DEF sys_malloc_small
  <2> HIDE DEF c
  <2> QED
    BY <2>2, <2>3, <2>4, AcquireSound
<1>5. ASSUME NEW t \in Threads, sys_free(t) PROVE HInv'
  <2>1. PICK b \in live : call' = [call EXCEPT ![t] =
          [NoCall EXCEPT !.op = "free", !.step = "free", !.page = b[1], !.idx = b[2]]]
    BY <1>5 DEF sys_free
  <2> DEFINE c == [NoCall EXCEPT !.op = "free", !.step = "free", !.page = b[1], !.idx = b[2]]
  <2>2. call[t].step = "out" /\ call' = [call EXCEPT ![t] = c]
    BY <1>5, <2>1 DEF sys_free, At
  <2>3. DOMAIN c = Fields /\ c.op = "free" /\ c.step = "free"
    BY DEF NoCall, Fields
  <2>4. Acquire(t) /\ kept' = kept
    BY <1>5 DEF sys_free
  <2> HIDE DEF c
  <2> QED
    BY <2>2, <2>3, <2>4, AcquireSound
<1> QED
  BY <1>1, <1>2, <1>3, <1>4, <1>5, WorkSound DEF Next

(* sys_malloc, sys_free: whatever the sizes, the threads and the state of  *)
(* memory, the lock is held exactly by the thread that is in a call or was *)
(* granted a large request, once for each.                                 *)
THEOREM LockIsKeptByLarge == Spec => []LockKeptByLarge
<1>1. HInv /\ [Next]_vars => HInv'
  BY NextSound
<1>2. HInv => LockKeptByLarge
  BY DEF HInv
<1> QED
  BY InitSound, <1>1, <1>2, PTL DEF Spec

-----------------------------------------------------------------------------

(***************************************************************************)
(* What belongs to whom while get_kernel_pages is called by main alone.    *)
(* The proofs follow three resources: the page frames, which belong to the *)
(* pages that are mapped to them; the pages, which belong to an arena, to  *)
(* a caller of get_kernel_pages or to the call that is getting them; and   *)
(* the blocks, which are free, in use or on their way back.                *)
(***************************************************************************)

Getting == {"palloc", "map", "header"}  \* the call has its pages

(* Who is in a call: main during init_all, and then whoever has the lock.  *)
Boots ==
  /\ booting => \A t \in Threads \ {Main} : call[t].step = "out"
  /\ \A t \in Threads : call[t].op = "pages" => booting

(* What a call has in hand from one step to the next.                      *)
Request(t) == LET c == call[t] IN
  /\ c.op \in {"none", "pages", "large", "small", "free"} /\ (c.op = "none" => c.step = "out")
  /\ c.step \in {"vaddr_get", "vaddr_set"} \cup Getting =>
       /\ c.op \in {"pages", "large", "small"} /\ c.n \in Nat \ {0} /\ c.i \in 0 .. c.n
       /\ c.op = "small" => c.n = 1 /\ c.desc \in Descs
  /\ c.step \in {"vaddr_get", "vaddr_set"} => c.i = 0
  /\ c.step \in {"palloc", "map"} => c.i < c.n
  /\ c.step = "header" => c.i = c.n /\ c.op # "pages"
  /\ c.step \in Getting => c.page \in Nat /\ c.page + c.n <= VLen
  /\ c.step = "pop" => c.desc \in Descs /\ free[c.desc] # <<>>
  /\ c.step = "free" => c.page \in VPages /\ c.idx \in Nat
  /\ c.step = "vaddr_set" /\ ~panicked => c.idx \in Nat /\ Span(c.idx, c.n) \subseteq VPages \ vbits
  /\ c.step = "map" /\ ~panicked => c.idx \in Frames \ pbits
Requests == \A t \in Threads : Request(t)

PoolTypes ==
  /\ vbits \subseteq VPages /\ pbits \subseteq Frames
  /\ pte \in [VPages -> Frames \cup {None}]
  /\ arena \in [VPages -> Arenas \cup {None}]
  /\ free \in [Descs -> Seq(VPages \X Nat)]
  /\ live \subseteq VPages \X Nat

(* Page q is part of the arena on page p; or a call is getting it, and has *)
(* mapped the first i pages of its n.                                      *)
Has(p, q)  == p \in VPages /\ arena[p] # None /\ q \in Extent(p)
Gets(t, q) == call[t].step \in Getting /\ q \in Span(call[t].page, call[t].n)

Pages ==
  /\ \A q \in vbits : q \in given \/ (\E p \in VPages : Has(p, q)) \/ (\E t \in Threads : Gets(t, q))
  /\ given \subseteq vbits \cap Mapped
  /\ \A p, q : Has(p, q) => q \in vbits \cap Mapped /\ q \notin given
  /\ \A p \in VPages : arena[p] # None => Has(p, p)
  /\ \A p, r, q : Has(p, q) /\ Has(r, q) => p = r
  /\ \A t \in Threads : \A q : Gets(t, q) =>
       /\ q \in vbits /\ q \notin given /\ \A p : ~Has(p, q)
       /\ q \in Mapped <=> q < call[t].page + call[t].i
  /\ Mapped \subseteq vbits

(* The blocks in the hands of threads, and those of an arena that are free.*)
Out == live \cup Freed
FreeOf(p) == {b \in ToSet(free[arena[p].desc]) : b[1] = p}

BlockTypes ==
  /\ \A d \in Descs : IsInjective(free[d])
  /\ \A d \in Descs : \A b \in ToSet(free[d]) :
       /\ b[1] \in VPages /\ arena[b[1]] # None /\ arena[b[1]].desc = d
       /\ b[2] \in Blocks(d)
  /\ \A b \in Out :
       /\ b[1] \in VPages /\ arena[b[1]] # None
       /\ IF arena[b[1]].desc = None THEN b[2] = 0
          ELSE b[2] \in Blocks(arena[b[1]].desc) /\ b \notin ToSet(free[arena[b[1]].desc])
  /\ live \cap Freed = {}

BlockCounts == \A p \in VPages : arena[p] # None =>
  IF arena[p].desc = None THEN <<p, 0>> \in Out
  ELSE /\ \A k \in Blocks(arena[p].desc) : <<p, k>> \in Out \cup FreeOf(p)
       /\ arena[p].cnt = Cardinality(FreeOf(p))

Memory == PoolTypes /\ FramesExclusive /\ Pages /\ BlockTypes /\ BlockCounts
IInv   == HInv /\ Boots /\ Requests /\ Memory /\ OnlyTooLargePanics

-----------------------------------------------------------------------------

(* Nobody but t is in a call.                                              *)
Others(t) == \A u \in Threads \ {t} : call[u].step = "out" /\ call[u].op = "none"
Untouched(t) == \A u \in Threads \ {t} : call'[u] = call[u]

(* Main is alone during init_all, and afterwards a call has the lock.      *)
LEMMA AloneInCall ==
  ASSUME PageCallers = {}, HInv, Boots, Requests, NEW t \in Threads, booting => t = Main,
         call[t].step # "out" \/ owner \in {t, None} \/ booting
  PROVE  Others(t)
<1> SUFFICES ASSUME NEW u \in Threads \ {t}, call[u].step # "out" PROVE FALSE
  BY DEF Others, HInv, StepInv
<1>1. booting => u = Main
  BY DEF Boots
<1>2. ~booting
  BY <1>1
<1>3. \A v \in Threads : call[v].step # "out" => owner = v
  <2> SUFFICES ASSUME NEW v \in Threads, call[v].step # "out" PROVE owner = v
    OBVIOUS
  <2>1. call[v].op \in {"none", "pages", "large", "small", "free"}
        /\ (call[v].op = "none" => call[v].step = "out")
    BY DEF Requests, Request
  <2>2. call[v].op # "pages"
    BY <1>2 DEF Boots
  <2> QED
    BY <2>1, <2>2 DEF HInv, LockKeptByLarge, InUse
<1> QED
  BY <1>2, <1>3, HeapAssumption

(* A step of t, which is main during init_all, keeps Boots.                *)
LEMMA BootsKept ==
  ASSUME Boots, NEW t \in Threads, booting' = booting, booting => t = Main, Untouched(t),
         call'[t].op = "pages" => booting
  PROVE  Boots'
BY DEF Boots, Untouched

(* What the others have in hand does not change when they are in no call.  *)
LEMMA RequestsKept ==
  ASSUME NEW t \in Threads, Others(t), Untouched(t), Request(t)'
  PROVE  Requests'
BY DEF Requests, Request, Others, Untouched, Getting

(* The pages and the blocks do not depend on the other steps of a call.    *)
LEMMA PagesSame ==
  ASSUME Pages, UNCHANGED <<vbits, pte, given>>,
         \A p, q : Has(p, q)' <=> Has(p, q),
         \A p \in VPages : arena'[p] # None <=> arena[p] # None,
         \A u \in Threads : \A q : Gets(u, q)' <=> Gets(u, q),
         \A u \in Threads : call[u].step \in Getting =>
           call'[u].page = call[u].page /\ call'[u].i = call[u].i
  PROVE  Pages'
<1>1. Mapped' = Mapped
  BY DEF Mapped
<1>2. \A u \in Threads : \A q : Gets(u, q) => call[u].step \in Getting
  BY DEF Gets
<1> QED
  BY <1>1, <1>2 DEF Pages

(* No sys_free begins or ends.                                             *)
LEMMA FreedSame ==
  ASSUME NEW t \in Threads, Untouched(t), call[t].step # "free", call'[t].step # "free"
  PROVE  Freed' = Freed
BY DEF Freed, Untouched

(* At most one block is on its way back.                                   *)
LEMMA FreedOne ==
  ASSUME NEW t \in Threads, Others(t)
  PROVE  /\ call[t].step = "free" => Freed = {<<call[t].page, call[t].idx>>}
         /\ call[t].step # "free" => Freed = {}
BY DEF Freed, Others

(* Steps that leave arenas, lists and the blocks in use alone.             *)
LEMMA BlocksSame ==
  ASSUME BlockTypes, BlockCounts, UNCHANGED <<arena, free, live>>, Freed' = Freed
  PROVE  BlockTypes' /\ BlockCounts'
BY DEF BlockTypes, BlockCounts, Out, FreeOf

(* A step of t that leaves the memory alone.                               *)
LEMMA MemoryQuiet ==
  ASSUME Memory, NEW t \in Threads, Untouched(t), UNCHANGED <<pool, heap, given>>,
         call[t].step # "free", call'[t].step # "free",
         call[t].step \in Getting <=> call'[t].step \in Getting,
         call[t].step \in Getting => /\ call'[t].page = call[t].page
                                    /\ call'[t].i = call[t].i /\ call'[t].n = call[t].n
  PROVE  Memory'
<1>1. UNCHANGED <<vbits, pbits, pte, arena, free, live, given>>
  BY DEF pool, heap
<1>2. \A p, q : Has(p, q)' <=> Has(p, q)
  BY <1>1 DEF Has, Extent
<1>3. \A u \in Threads : \A q : Gets(u, q)' <=> Gets(u, q)
  BY DEF Gets, Untouched
<1>4. \A u \in Threads : call[u].step \in Getting =>
        call'[u].page = call[u].page /\ call'[u].i = call[u].i
  BY DEF Untouched
<1>5. Pages'
  BY <1>1, <1>2, <1>3, <1>4, PagesSame, Zenon DEF Memory
<1>6. PoolTypes' /\ FramesExclusive'
  BY <1>1 DEF Memory, PoolTypes, FramesExclusive, Mapped
<1>7. BlockTypes' /\ BlockCounts'
  BY <1>1, FreedSame, BlocksSame DEF Memory
<1> QED
  BY <1>5, <1>6, <1>7 DEF Memory

(* FirstFit returns a hole, if there is one.                               *)
LEMMA FirstFitHole ==
  ASSUME NEW used, NEW len \in Nat, NEW cnt \in Nat \ {0}
  PROVE  /\ FirstFit(used, len, cnt) # NoBits =>
              /\ FirstFit(used, len, cnt) \in Nat
              /\ Span(FirstFit(used, len, cnt), cnt) \subseteq (0 .. len - 1) \ used
         /\ FirstFit(used, len, 1) = NoBits => 0 .. len - 1 \subseteq used
<1>1. \A n : FirstFit(used, len, n) = IF Fits(used, len, n) = {} THEN NoBits ELSE Min(Fits(used, len, n))
  BY Zenon DEF FirstFit, Fits
<1>2. \A n \in Nat : Fits(used, len, n) \subseteq Nat
  BY DEF Fits
<1>3. ASSUME FirstFit(used, len, cnt) # NoBits
      PROVE  /\ FirstFit(used, len, cnt) \in Nat
             /\ Span(FirstFit(used, len, cnt), cnt) \subseteq (0 .. len - 1) \ used
  <2>1. PICK i \in Fits(used, len, cnt) : i = FirstFit(used, len, cnt)
    <3>1. Fits(used, len, cnt) # {} /\ FirstFit(used, len, cnt) = Min(Fits(used, len, cnt))
      BY <1>1, <1>3
    <3>2. Min(Fits(used, len, cnt)) \in Fits(used, len, cnt)
      BY <1>2, <3>1, MinLeast
    <3> QED
      BY <3>1, <3>2
  <2>2. i \in 0 .. len - cnt /\ (i .. i + cnt - 1) \cap used = {}
    BY DEF Fits
  <2>3. i .. i + cnt - 1 \subseteq (0 .. len - 1) \ used
    BY <2>2
  <2> QED
    BY <2>1, <2>2, <2>3 DEF Span
<1>4. ASSUME FirstFit(used, len, 1) = NoBits PROVE 0 .. len - 1 \subseteq used
  <2>1. Fits(used, len, 1) = {}
    <3>1. ASSUME Fits(used, len, 1) # {} PROVE FALSE
      <4>1. FirstFit(used, len, 1) \in Nat
        BY <1>1, <1>2, <3>1, MinLeast
      <4> QED
        BY <1>4, <4>1 DEF NoBits
    <3> QED
      BY <3>1
  <2> QED
    BY <2>1 DEF Fits
<1> QED
  BY <1>3, <1>4

-----------------------------------------------------------------------------

(* malloc_page, refusing a request: the caller is still where it was.      *)
LEMMA TooManySound ==
  ASSUME IInv, NEW t \in Threads, malloc_page_TooMany(t)
  PROVE  Boots' /\ Requests' /\ Memory' /\ OnlyTooLargePanics'
<1>1. UNCHANGED <<vbits, pbits, pte, arena, free, live, given, call, booting>>
  BY DEF malloc_page_TooMany, pool, heap
<1>2. Boots' /\ Requests'
  <2>1. Boots'
    BY <1>1 DEF IInv, Boots
  <2>2. panicked'
    BY DEF malloc_page_TooMany
  <2>3. ASSUME NEW u \in Threads PROVE Request(u)'
    BY <1>1, <2>2 DEF IInv, Requests, Request
  <2> QED
    BY <2>1, <2>3 DEF Requests
<1>3. PoolTypes' /\ FramesExclusive'
  BY <1>1 DEF IInv, Memory, PoolTypes, FramesExclusive, Mapped
<1>4. Pages'
  BY <1>1 DEF IInv, Memory, Pages, Has, Gets, Extent, Mapped
<1>5. BlockTypes' /\ BlockCounts'
  <2>1. Freed' = Freed
    BY <1>1 DEF Freed
  <2> QED
    BY <1>1, <2>1, BlocksSame DEF IInv, Memory
<1>6. OnlyTooLargePanics'
  BY <1>1 DEF malloc_page_TooMany, At, OnlyTooLargePanics
<1> QED
  BY <1>2, <1>3, <1>4, <1>5, <1>6 DEF Memory

(* vaddr_get and palloc, scanning.                                         *)
LEMMA VaddrGetSound ==
  ASSUME IInv, NEW t \in Threads, Others(t), vaddr_get(t)
  PROVE  Boots' /\ Requests' /\ Memory' /\ OnlyTooLargePanics'
<1> DEFINE idx == bitmap_scan(vbits, VLen, call[t].n)
<1>1. /\ Untouched(t) /\ call[t].step = "vaddr_get" /\ call'[t].step = "vaddr_set"
      /\ call'[t].op = call[t].op /\ call'[t].desc = call[t].desc /\ call'[t].n = call[t].n
      /\ call'[t].i = call[t].i /\ call'[t].idx = idx
      /\ (booting => t = Main) /\ booting' = booting
      /\ UNCHANGED <<pool, heap, given>> /\ (panicked' <=> idx = NoBits)
  <2> HIDE DEF idx
  <2> QED
    BY DEF IInv, HInv, LockTypes, Fields, vaddr_get, At, Untouched, idx
<1>2. Request(t)
  BY DEF IInv, Requests
<1>3. call[t].n \in Nat \ {0}
  BY <1>1, <1>2 DEF Request
<1>4. idx = FirstFit(vbits, VLen, call[t].n)
  BY <1>3, HeapAssumption, BitmapScanIsFirstFit
<1> HIDE DEF idx
<1>5. idx # NoBits => idx \in Nat /\ Span(idx, call[t].n) \subseteq VPages \ vbits
  BY <1>3, <1>4, HeapAssumption, FirstFitHole DEF VPages
<1>6. Request(t)'
  BY <1>1, <1>2, <1>5 DEF Request, Getting, pool
<1>7. OnlyTooLargePanics'
  BY <1>1, <1>4 DEF OnlyTooLargePanics, pool
<1>8. Boots'
  BY <1>1, BootsKept DEF IInv, Boots
<1>9. Memory'
  BY <1>1, MemoryQuiet DEF IInv, Getting
<1> QED
  BY <1>1, <1>6, <1>7, <1>8, <1>9, RequestsKept

(* palloc, looking: the frame it found is nobody's.                        *)
LEMMA PallocSound ==
  ASSUME IInv, NEW t \in Threads, Others(t), palloc(t)
  PROVE  Boots' /\ Requests' /\ Memory' /\ OnlyTooLargePanics'
<1> DEFINE idx == bitmap_scan(pbits, PLen, 1)
<1>1. /\ Untouched(t) /\ call[t].step = "palloc" /\ call'[t].step = "map"
      /\ call'[t].op = call[t].op /\ call'[t].desc = call[t].desc /\ call'[t].n = call[t].n
      /\ call'[t].i = call[t].i /\ call'[t].page = call[t].page /\ call'[t].idx = idx
      /\ (booting => t = Main) /\ booting' = booting
      /\ UNCHANGED <<pool, heap, given>> /\ (panicked' <=> idx = NoBits)
  <2> HIDE DEF idx
  <2> QED
    BY DEF IInv, HInv, LockTypes, Fields, palloc, At, Untouched, idx
<1>2. Request(t)
  BY DEF IInv, Requests
<1>3. idx = FirstFit(pbits, PLen, 1)
  BY HeapAssumption, BitmapScanIsFirstFit
<1> HIDE DEF idx
<1>4. idx # NoBits => idx \in Nat /\ Span(idx, 1) \subseteq Frames \ pbits
  BY <1>3, HeapAssumption, FirstFitHole DEF Frames
<1>5. idx # NoBits => idx \in Frames \ pbits
  BY <1>4 DEF Span
<1>6. idx = NoBits => pbits = Frames
  <2>1. PLen \in Nat /\ pbits \subseteq Frames
    BY HeapAssumption DEF IInv, Memory, PoolTypes
  <2>2. FirstFit(pbits, PLen, 1) = NoBits => 0 .. PLen - 1 \subseteq pbits
    BY <2>1, FirstFitHole
  <2> QED
    BY <1>3, <2>1, <2>2 DEF Frames
<1>7. Request(t)'
  BY <1>1, <1>2, <1>5 DEF Request, Getting, pool
<1>8. OnlyTooLargePanics'
  BY <1>1, <1>6 DEF OnlyTooLargePanics, pool
<1>9. Boots'
  BY <1>1, BootsKept DEF IInv, Boots
<1>10. Memory'
  BY <1>1, MemoryQuiet DEF IInv, Getting
<1> QED
  BY <1>1, <1>7, <1>8, <1>9, <1>10, RequestsKept

(* vaddr_get, reserving: the pages were nobody's.                          *)
LEMMA VaddrSetSound ==
  ASSUME IInv, NEW t \in Threads, Others(t), vaddr_set(t)
  PROVE  Boots' /\ Requests' /\ Memory' /\ OnlyTooLargePanics'
<1> DEFINE new == Span(call[t].idx, call[t].n)
<1>1. /\ Untouched(t) /\ call[t].step = "vaddr_set" /\ call'[t].step = "palloc"
      /\ call'[t].op = call[t].op /\ call'[t].desc = call[t].desc /\ call'[t].n = call[t].n
      /\ call'[t].i = call[t].i /\ call'[t].page = call[t].idx
      /\ (booting => t = Main) /\ booting' = booting /\ ~panicked /\ panicked' = panicked
      /\ UNCHANGED <<pbits, pte, heap, given>> /\ vbits' = vbits \cup new
  <2> HIDE DEF new
  <2> QED
    BY DEF IInv, HInv, LockTypes, Fields, vaddr_set, At, Untouched, Span, new
<1>2. Request(t)
  BY DEF IInv, Requests
<1>3. /\ call[t].n \in Nat \ {0} /\ call[t].i = 0 /\ call[t].idx \in Nat
      /\ new \subseteq VPages /\ new \cap vbits = {}
  BY <1>1, <1>2 DEF Request
<1>4. call[t].idx + call[t].n <= VLen
  <2>1. call[t].idx + call[t].n - 1 \in new
    BY <1>3 DEF Span
  <2>2. call[t].idx + call[t].n - 1 \in VPages
    BY <1>3, <2>1
  <2> QED
    BY <1>3, <2>2, HeapAssumption DEF VPages
<1>5. Request(t)'
  BY <1>1, <1>2, <1>3, <1>4 DEF Request, Getting, heap
<1>6. \A u \in Threads : \A q : Gets(u, q)' <=> u = t /\ q \in new
  BY <1>1 DEF Gets, Getting, Others, Untouched
<1>7. \A q \in new : q >= call'[t].page + call'[t].i
  BY <1>1, <1>3 DEF Span
<1>8. \A p, q : Has(p, q)' <=> Has(p, q)
  BY <1>1 DEF Has, Extent, heap
<1> HIDE DEF new
<1>9. Pages'
  <2>1. Mapped' = Mapped /\ given' = given /\ arena' = arena
    BY <1>1 DEF Mapped, heap
  <2>2. Pages
    BY DEF IInv, Memory
  <2>3. \A u \in Threads : \A q : ~Gets(u, q)
    BY <1>1 DEF Gets, Getting, Others
  <2>4. \A q \in new : q \in Int /\ call'[t].page + call'[t].i \in Nat
    BY <1>1, <1>3 DEF VPages
  <2>5. \A q \in new : q \notin Mapped /\ ~(q < call'[t].page + call'[t].i)
    BY <1>3, <1>7, <2>2, <2>4 DEF Pages
  <2> QED
    BY <1>1, <1>3, <1>6, <1>8, <2>1, <2>2, <2>3, <2>5 DEF Pages
<1>10. PoolTypes' /\ FramesExclusive'
  BY <1>1, <1>3 DEF IInv, Memory, PoolTypes, FramesExclusive, Mapped, heap
<1>11. BlockTypes' /\ BlockCounts'
  <2>1. Freed' = Freed
    BY <1>1, FreedSame
  <2> QED
    BY <1>1, <2>1, BlocksSame DEF IInv, Memory, heap
<1>12. OnlyTooLargePanics'
  BY <1>1 DEF OnlyTooLargePanics
<1>13. Boots'
  BY <1>1, BootsKept DEF IInv, Boots
<1> QED
  BY <1>1, <1>5, <1>9, <1>10, <1>11, <1>12, <1>13, RequestsKept DEF Memory

-----------------------------------------------------------------------------

(* pfree, vaddr_remove and page_table_pte_remove of all pages of an arena. *)
LEMMA FreeArena ==
  ASSUME PoolTypes, FramesExclusive, Pages, NEW p \in VPages, NEW n,
         arena[p] # None, Extent(p) = Span(p, n), mfree_page(p, n),
         arena' = [arena EXCEPT ![p] = None], given' = given,
         \A u \in Threads : \A q : ~Gets(u, q) /\ ~Gets(u, q)'
  PROVE  /\ vbits' \subseteq VPages /\ pbits' \subseteq Frames
         /\ pte' \in [VPages -> Frames \cup {None}] /\ arena' \in [VPages -> Arenas \cup {None}]
         /\ FramesExclusive' /\ Pages'
<1> DEFINE gone == Extent(p)
<1>1. /\ pbits' = pbits \ {pte[q] : q \in gone} /\ vbits' = vbits \ gone
      /\ pte' = [q \in VPages |-> IF q \in gone THEN None ELSE pte[q]]
  BY DEF mfree_page
<1>2. gone \subseteq Mapped
  BY DEF Pages, Has
<1>3. \A r, q : Has(r, q)' <=> r # p /\ Has(r, q)
  BY DEF Has, Extent, PoolTypes
<1>4. \A q \in gone : Has(p, q)
  BY DEF Has
<1> HIDE DEF gone
<1>5. Mapped' = Mapped \ gone
  BY <1>1 DEF Mapped
<1>6. \A q \in Mapped' : pte'[q] = pte[q]
  BY <1>1, <1>5 DEF Mapped
<1>7. pbits' = {pte'[q] : q \in Mapped'}
  <2>1. ASSUME NEW x \in pbits' PROVE x \in {pte'[q] : q \in Mapped'}
    <3>1. PICK q \in Mapped : x = pte[q] /\ q \notin gone
      BY <1>1, <2>1 DEF FramesExclusive
    <3> QED
      BY <1>5, <1>6, <3>1
  <2>2. ASSUME NEW q \in Mapped' PROVE pte'[q] \in pbits'
    <3>1. pte'[q] = pte[q] /\ q \in Mapped /\ q \notin gone
      BY <1>5, <1>6
    <3>2. \A r \in gone : pte[r] # pte[q]
      BY <1>2, <3>1 DEF FramesExclusive
    <3> QED
      BY <1>1, <3>1, <3>2 DEF FramesExclusive
  <2> QED
    BY <2>1, <2>2
<1>8. FramesExclusive'
  BY <1>5, <1>6, <1>7 DEF FramesExclusive
<1>9. \A q : q \in gone => q \notin given /\ \A r : r # p => ~Has(r, q)
  BY <1>4 DEF Pages
<1>10. \A q : Has(p, q) => q \in gone
  BY DEF Has, gone
<1>11. Pages'
  <2>1. \A q \in vbits' : q \in given' \/ \E r \in VPages : Has(r, q)'
    <3> SUFFICES ASSUME NEW q \in vbits', q \notin given' PROVE \E r \in VPages : Has(r, q)'
      OBVIOUS
    <3>1. PICK r \in VPages : Has(r, q)
      BY <1>1 DEF Pages
    <3> QED
      BY <1>1, <1>3, <1>10, <3>1
  <2>2. given' \subseteq vbits' \cap Mapped'
    BY <1>1, <1>5, <1>9 DEF Pages
  <2>3. \A r, q : Has(r, q)' => q \in vbits' \cap Mapped' /\ q \notin given'
    BY <1>1, <1>3, <1>5, <1>9 DEF Pages
  <2>4. \A r \in VPages : arena'[r] # None => Has(r, r)'
    BY <1>3 DEF Pages, PoolTypes
  <2>5. \A r, s, q : Has(r, q)' /\ Has(s, q)' => r = s
    BY <1>3 DEF Pages
  <2>6. Mapped' \subseteq vbits'
    BY <1>1, <1>5 DEF Pages
  <2> QED
    BY <2>1, <2>2, <2>3, <2>4, <2>5, <2>6 DEF Pages
<1>12. /\ vbits' \subseteq VPages /\ pbits' \subseteq Frames
       /\ pte' \in [VPages -> Frames \cup {None}] /\ arena' \in [VPages -> Arenas \cup {None}]
  BY <1>1 DEF PoolTypes
<1> QED
  BY <1>8, <1>11, <1>12

(* palloc and page_table_add: a frame that was nobody's for a page that    *)
(* was mapped to none.                                                     *)
LEMMA MapSound ==
  ASSUME IInv, NEW t \in Threads, Others(t), map(t)
  PROVE  Boots' /\ Requests' /\ Memory' /\ OnlyTooLargePanics'
<1> DEFINE page == call[t].page + call[t].i
           more == call[t].i + 1 < call[t].n
           back == ~more /\ call[t].op = "pages"
<1>1. /\ Untouched(t) /\ call[t].step = "map" /\ (booting => t = Main) /\ booting' = booting
      /\ ~panicked /\ UNCHANGED <<vbits, heap>>
      /\ pbits' = pbits \cup {call[t].idx} /\ pte' = [pte EXCEPT ![page] = call[t].idx]
      /\ (panicked' <=> pte[page] # None)
  BY DEF IInv, HInv, LockTypes, map, At, Untouched, Return
<1>2. /\ ~back => /\ call'[t].op = call[t].op /\ call'[t].desc = call[t].desc
                  /\ call'[t].n = call[t].n /\ call'[t].page = call[t].page
                  /\ call'[t].i = call[t].i + 1 /\ given' = given
                  /\ call'[t].step = IF more THEN "palloc" ELSE "header"
      /\ back => call'[t] = NoCall /\ given' = given \cup Span(call[t].page, call[t].n)
  <2>1. CASE more
    <3>1. call' = [call EXCEPT ![t].i = @ + 1, ![t].step = "palloc"] /\ given' = given /\ ~back
      BY <2>1 DEF map
    <3> HIDE DEF more, back
    <3> QED
      BY <2>1, <3>1 DEF IInv, HInv, LockTypes, Fields
  <2>2. CASE back
    <3>1. Return(t) /\ given' = given \cup Span(call[t].page, call[t].n)
      BY <2>2 DEF map
    <3> HIDE DEF back
    <3> QED
      BY <2>2, <3>1 DEF IInv, HInv, LockTypes, Return
  <2>3. CASE ~more /\ ~back
    <3>1. call' = [call EXCEPT ![t].i = @ + 1, ![t].step = "header"] /\ given' = given
      BY <2>3 DEF map
    <3> HIDE DEF more, back
    <3> QED
      BY <2>3, <3>1 DEF IInv, HInv, LockTypes, Fields
  <2> QED
    BY <2>1, <2>2, <2>3
<1>3. Request(t)
  BY DEF IInv, Requests
<1>4. /\ call[t].n \in Nat \ {0} /\ call[t].i \in Nat /\ call[t].i < call[t].n
      /\ call[t].page \in Nat /\ call[t].page + call[t].n <= VLen
      /\ call[t].idx \in Frames \ pbits
  BY <1>1, <1>3 DEF Request, Getting
<1>5. Request(t)'
  BY <1>1, <1>2, <1>3, <1>4 DEF Request, Getting, NoCall, heap
<1>6. Pages /\ PoolTypes /\ FramesExclusive
  BY DEF IInv, Memory
<1>7. /\ \A u \in Threads : \A q : Gets(u, q) <=> u = t /\ q \in Span(call[t].page, call[t].n)
      /\ \A u \in Threads : \A q : Gets(u, q)' <=> ~back /\ u = t /\ q \in Span(call[t].page, call[t].n)
  BY <1>1, <1>2 DEF Gets, Getting, Others, Untouched, NoCall
<1>8. \A q \in Span(call[t].page, call[t].n) :
        /\ q \in vbits /\ q \in VPages /\ q \notin given /\ \A p : ~Has(p, q)
        /\ q \in Mapped <=> q < page
  BY <1>6, <1>7 DEF Pages, PoolTypes
<1>9. page \in Span(call[t].page, call[t].n)
  BY <1>4 DEF Span
<1>10. page \in VPages /\ page \notin Mapped
  BY <1>4, <1>8, <1>9
<1>11. call[t].idx # None
  BY <1>4, HeapAssumption DEF Frames
<1>12. \A q \in Span(call[t].page, call[t].n) : q < page \/ q = page <=> q < page + 1
  BY <1>4 DEF Span
<1>13. \A q \in Span(call[t].page, call[t].n) : ~more => q < page + 1
  BY <1>4 DEF Span
<1>14. page + 1 = call[t].page + (call[t].i + 1)
  BY <1>4
<1> HIDE DEF page, more, back
<1>15. ~panicked'
  BY <1>1, <1>10 DEF Mapped
<1>16. /\ Mapped' = Mapped \cup {page} /\ pte'[page] = call[t].idx
       /\ \A q \in Mapped : pte'[q] = pte[q] /\ q # page
  BY <1>1, <1>6, <1>10, <1>11 DEF Mapped, PoolTypes
<1>17. FramesExclusive'
  <2>1. pbits' = {pte'[q] : q \in Mapped'}
    BY <1>1, <1>6, <1>16 DEF FramesExclusive
  <2>2. \A q \in Mapped : pte[q] # call[t].idx
    BY <1>4, <1>6 DEF FramesExclusive
  <2>3. \A p, q \in Mapped' : pte'[p] = pte'[q] => p = q
    BY <1>6, <1>16, <2>2 DEF FramesExclusive
  <2> QED
    BY <2>1, <2>3 DEF FramesExclusive
<1>18. UNCHANGED <<arena, free, live>> /\ \A p, q : Has(p, q)' <=> Has(p, q)
  BY <1>1 DEF heap, Has, Extent
<1>19. \A q \in Span(call[t].page, call[t].n) : q \in Mapped' <=> q < page + 1
  BY <1>8, <1>12, <1>16
<1>20. Pages'
  <2>1. CASE back
    <3>1. \A q : q \in given' <=> q \in given \/ q \in Span(call[t].page, call[t].n)
      BY <1>2, <2>1
    <3>2. \A q \in Span(call[t].page, call[t].n) : q \in Mapped'
      BY <1>13, <1>19, <2>1 DEF back
    <3> QED
      BY <1>1, <1>6, <1>7, <1>8, <1>9, <1>16, <1>18, <2>1, <3>1, <3>2 DEF Pages
  <2>2. CASE ~back
    <3>1. call'[t].page + call'[t].i = page + 1 /\ given' = given
      BY <1>2, <1>14, <2>2
    <3> QED
      BY <1>1, <1>6, <1>7, <1>8, <1>9, <1>16, <1>18, <1>19, <2>2, <3>1 DEF Pages
  <2> QED
    BY <2>1, <2>2
<1>21. PoolTypes'
  BY <1>1, <1>4, <1>6, <1>10, <1>18 DEF PoolTypes
<1>22. BlockTypes' /\ BlockCounts'
  <2>1. Freed' = Freed
    <3>1. call'[t].step # "free"
      BY <1>2 DEF NoCall
    <3> QED
      BY <1>1, <3>1, FreedSame
  <2> QED
    BY <1>18, <2>1, BlocksSame DEF IInv, Memory
<1>23. OnlyTooLargePanics'
  BY <1>15 DEF OnlyTooLargePanics
<1>24. Boots'
  <2>1. call'[t].op = "pages" => booting
    BY <1>2 DEF IInv, Boots, NoCall
  <2> QED
    BY <1>1, <2>1, BootsKept DEF IInv
<1> QED
  BY <1>1, <1>5, <1>17, <1>20, <1>21, <1>22, <1>23, <1>24, RequestsKept DEF Memory

-----------------------------------------------------------------------------

(* The pages of a call become an arena.                                    *)
LEMMA NewArena ==
  ASSUME PoolTypes, Pages, NEW t \in Threads, Others(t), call[t].step = "header", Request(t),
         UNCHANGED <<vbits, pbits, pte, given>>, NEW a \in Arenas, arena' = [arena EXCEPT ![call[t].page] = a],
         IF a.desc = None THEN a.cnt = call[t].n ELSE call[t].n = 1,
         \A u \in Threads : \A q : ~Gets(u, q)'
  PROVE  /\ call[t].page \in VPages /\ arena[call[t].page] = None /\ arena'[call[t].page] = a
         /\ \A p \in VPages : p # call[t].page => arena'[p] = arena[p]
         /\ arena' \in [VPages -> Arenas \cup {None}] /\ Pages'
<1>0. PICK page : page = call[t].page
  OBVIOUS
<1> DEFINE new == Span(page, call[t].n)
<1>1. /\ call[t].n \in Nat \ {0} /\ call[t].i = call[t].n /\ page \in Nat
      /\ page + call[t].n <= VLen
  BY <1>0 DEF Request, Getting
<1>2. \A u \in Threads : \A q : Gets(u, q) <=> u = t /\ q \in new
  BY <1>0 DEF Gets, Getting, Others
<1>3. page \in new /\ new \subseteq VPages /\ \A q \in new : q < page + call[t].i
  BY <1>1, HeapAssumption DEF Span, VPages
<1>4. \A q \in new : q \in vbits /\ q \in Mapped /\ q \notin given /\ \A p : ~Has(p, q)
  BY <1>0, <1>2, <1>3 DEF Pages
<1>a. call[t].n = 1 => new = {page}
  BY <1>1 DEF Span
<1> HIDE DEF new
<1>5. arena[page] = None /\ page \in VPages
  BY <1>3, <1>4 DEF Pages
<1>6. /\ arena'[page] = a /\ \A p \in VPages : p # page => arena'[p] = arena[p]
      /\ arena' \in [VPages -> Arenas \cup {None}]
  BY <1>0, <1>5 DEF PoolTypes
<1>7. a # None
  BY HeapAssumption
<1>8. \A q : Has(page, q)' <=> q \in new
  <2>1. Extent(page)' = new
    <3>1. CASE a.desc = None
      BY <1>6, <3>1 DEF Extent, new
    <3>2. CASE a.desc # None
      BY <1>6, <1>a, <3>2 DEF Extent
    <3> QED
      BY <3>1, <3>2
  <2> QED
    BY <1>5, <1>6, <1>7, <2>1 DEF Has
<1>9. \A p, q : p # page => (Has(p, q)' <=> Has(p, q))
  BY <1>6 DEF Has, Extent
<1>10. \A q : ~Has(page, q)
  BY <1>5 DEF Has
<1>11. Mapped' = Mapped
  BY DEF Mapped
<1>12. Pages'
  <2>1. \A q \in vbits' : q \in given' \/ \E p \in VPages : Has(p, q)'
    <3> SUFFICES ASSUME NEW q \in vbits, q \notin given PROVE \E p \in VPages : Has(p, q)'
      OBVIOUS
    <3>1. q \in new \/ \E p \in VPages : Has(p, q)
      BY <1>2 DEF Pages
    <3> QED
      BY <1>5, <1>8, <1>9, <1>10, <3>1
  <2>2. \A p, q : Has(p, q)' => q \in vbits' \cap Mapped' /\ q \notin given'
    BY <1>4, <1>8, <1>9, <1>11 DEF Pages
  <2>3. \A p \in VPages : arena'[p] # None => Has(p, p)'
    BY <1>3, <1>6, <1>8, <1>9 DEF Pages
  <2>4. \A p, r, q : Has(p, q)' /\ Has(r, q)' => p = r
    BY <1>4, <1>8, <1>9 DEF Pages
  <2>5. given' \subseteq vbits' \cap Mapped' /\ Mapped' \subseteq vbits'
    BY <1>11 DEF Pages
  <2> QED
    BY <2>1, <2>2, <2>3, <2>4, <2>5 DEF Pages
<1> QED
  BY <1>0, <1>5, <1>6, <1>12

(* The return of a large arena.                                            *)
LEMMA HeaderLargeSound ==
  ASSUME IInv, NEW t \in Threads, Others(t), header_large(t)
  PROVE  Boots' /\ Requests' /\ Memory' /\ OnlyTooLargePanics'
<1> DEFINE page == call[t].page
           a == [desc |-> None, cnt |-> call[t].n]
<1>1. /\ Untouched(t) /\ call[t].step = "header" /\ call'[t] = NoCall
      /\ (booting => t = Main) /\ booting' = booting /\ ~panicked /\ ~panicked'
      /\ UNCHANGED <<vbits, pbits, pte, free, given>>
      /\ arena' = [arena EXCEPT ![page] = a] /\ live' = live \cup {<<page, 0>>}
  BY DEF IInv, HInv, LockTypes, header_large, At, Untouched, Return, pool
<1>2. Request(t)
  BY DEF IInv, Requests
<1>3. a \in Arenas /\ a.desc = None /\ a.cnt = call[t].n
  BY <1>1, <1>2 DEF Request, Getting, Arenas
<1> HIDE DEF a
<1>4. \A u \in Threads : \A q : ~Gets(u, q)'
  BY <1>1 DEF Gets, Getting, Others, Untouched, NoCall
<1>5. /\ page \in VPages /\ arena[page] = None /\ arena'[page] = a
      /\ \A p \in VPages : p # page => arena'[p] = arena[p]
      /\ arena' \in [VPages -> Arenas \cup {None}] /\ Pages'
  BY <1>1, <1>2, <1>3, <1>4, NewArena DEF IInv, Memory
<1> HIDE DEF page
<1>6. PoolTypes'
  BY <1>1, <1>5 DEF IInv, Memory, PoolTypes
<1>7. FramesExclusive'
  BY <1>1 DEF IInv, Memory, FramesExclusive, Mapped
<1>8. Freed = {} /\ Freed' = {}
  BY <1>1, FreedOne, FreedSame DEF NoCall
<1>9. a # None
  BY <1>3, HeapAssumption
<1>10. BlockTypes'
  <2>1. \A d \in Descs : \A b \in ToSet(free[d]) : b[1] \in VPages /\ b[1] # page
    BY <1>5 DEF IInv, Memory, BlockTypes
  <2>2. \A b \in live : b[1] \in VPages /\ b[1] # page
    BY <1>5 DEF IInv, Memory, BlockTypes, Out
  <2>3. \A b \in Out' : b = <<page, 0>> \/ b \in live
    BY <1>1, <1>8 DEF Out
  <2>4. \A b \in Out' : b[1] \in VPages /\ arena'[b[1]] # None
         /\ IF arena'[b[1]].desc = None THEN b[2] = 0
            ELSE b[2] \in Blocks(arena'[b[1]].desc) /\ b \notin ToSet(free[arena'[b[1]].desc])
    <3> SUFFICES ASSUME NEW b \in Out'
                 PROVE  b[1] \in VPages /\ arena'[b[1]] # None
                        /\ IF arena'[b[1]].desc = None THEN b[2] = 0
                           ELSE b[2] \in Blocks(arena'[b[1]].desc) /\ b \notin ToSet(free[arena'[b[1]].desc])
      OBVIOUS
    <3>1. CASE b = <<page, 0>>
      BY <1>3, <1>5, <1>9, <3>1
    <3>2. CASE b \in live
      BY <1>5, <2>2, <3>2 DEF IInv, Memory, BlockTypes, Out
    <3> QED
      BY <2>3, <3>1, <3>2
  <2>5. \A d \in Descs : \A b \in ToSet(free'[d]) :
          b[1] \in VPages /\ arena'[b[1]] # None /\ arena'[b[1]].desc = d /\ b[2] \in Blocks(d)
    BY <1>1, <1>5, <2>1 DEF IInv, Memory, BlockTypes
  <2> QED
    BY <1>1, <1>8, <2>4, <2>5 DEF IInv, Memory, BlockTypes
<1>11. BlockCounts'
  <2> SUFFICES ASSUME NEW p \in VPages, arena'[p] # None
               PROVE  IF arena'[p].desc = None THEN <<p, 0>> \in Out'
                      ELSE /\ \A k \in Blocks(arena'[p].desc) : <<p, k>> \in Out' \cup FreeOf(p)'
                           /\ arena'[p].cnt = Cardinality(FreeOf(p)')
    BY DEF BlockCounts
  <2>1. CASE p = page
    BY <1>1, <1>3, <1>5, <2>1 DEF Out
  <2>2. CASE p # page
    <3>1. arena'[p] = arena[p] /\ FreeOf(p)' = FreeOf(p) /\ Out \subseteq Out'
      BY <1>1, <1>5, <1>8, <2>2 DEF FreeOf, Out
    <3> QED
      BY <3>1 DEF IInv, Memory, BlockCounts
  <2> QED
    BY <2>1, <2>2
<1>12. Request(t)'
  BY <1>1 DEF Request, NoCall, Getting
<1>13. OnlyTooLargePanics'
  BY <1>1 DEF OnlyTooLargePanics
<1>14. Boots'
  BY <1>1, BootsKept DEF IInv, NoCall
<1> QED
  BY <1>1, <1>5, <1>6, <1>7, <1>10, <1>11, <1>12, <1>13, <1>14, RequestsKept DEF Memory

(* A new small arena: its blocks are all free, and on the list.            *)
LEMMA HeaderSmallSound ==
  ASSUME IInv, NEW t \in Threads, Others(t), header_small(t)
  PROVE  Boots' /\ Requests' /\ Memory' /\ OnlyTooLargePanics'
<1> DEFINE page == call[t].page
           d == call[t].desc
           a == [desc |-> d, cnt |-> PerArena[d]]
           new == {page} \X (0 .. PerArena[d] - 1)
<1>1. /\ Untouched(t) /\ call[t].step = "header" /\ call'[t].step = "pop"
      /\ call[t].op = "small" /\ call'[t].op = "small" /\ call'[t].desc = d
      /\ (booting => t = Main) /\ booting' = booting
      /\ UNCHANGED <<vbits, pbits, pte, live, given>>
  BY DEF IInv, HInv, LockTypes, Fields, header_small, At, Untouched, Goto, pool
<1>2. /\ arena' = [arena EXCEPT ![page] = a]
      /\ free' = [free EXCEPT ![d] = free[d] \o [k \in 1 .. PerArena[d] |-> <<page, k - 1>>]]
      /\ panicked' <=> \E k \in Blocks(d) : <<page, k>> \in ToSet(free[d])
  BY DEF header_small
<1>3. Request(t)
  BY DEF IInv, Requests
<1>4. d \in Descs /\ call[t].n = 1 /\ PerArena[d] \in Nat \ {0} /\ d # None
  BY <1>1, <1>3, HeapAssumption DEF Request, Getting
<1>5. a \in Arenas /\ a.desc = d /\ a.cnt = PerArena[d]
  BY <1>4 DEF Arenas
<1> HIDE DEF a
<1>6. \A u \in Threads : \A q : ~Gets(u, q)'
  BY <1>1 DEF Gets, Getting, Others, Untouched
<1>7. /\ page \in VPages /\ arena[page] = None /\ arena'[page] = a
      /\ \A p \in VPages : p # page => arena'[p] = arena[p]
      /\ arena' \in [VPages -> Arenas \cup {None}] /\ Pages'
  BY <1>1, <1>2, <1>3, <1>4, <1>5, <1>6, NewArena DEF IInv, Memory
<1> HIDE DEF page, d, new
<1>8. FramesExclusive'
  BY <1>1 DEF IInv, Memory, FramesExclusive, Mapped
<1>9. Freed = {} /\ Freed' = {} /\ Out' = Out
  <2>1. Freed = {} /\ Freed' = {}
    BY <1>1, FreedOne, FreedSame
  <2> QED
    BY <1>1, <2>1 DEF Out
<1>10. /\ free \in [Descs -> Seq(VPages \X Nat)] /\ live \subseteq VPages \X Nat
       /\ \A e \in Descs : IsInjective(free[e]) /\ \A b \in ToSet(free[e]) :
            b[1] \in VPages /\ arena[b[1]] # None /\ arena[b[1]].desc = e /\ b[2] \in Blocks(e)
  BY DEF IInv, Memory, BlockTypes, PoolTypes
<1>11. \A e \in Descs : \A b \in ToSet(free[e]) : b[1] # page
  BY <1>7, <1>10
<1>12. /\ free'[d] \in Seq(VPages \X Nat) /\ free'[d] # <<>> /\ IsInjective(free'[d])
       /\ \A b : b \in ToSet(free'[d]) <=> b \in ToSet(free[d]) \/ b \in new
  <2> DEFINE s == free[d]
             n == PerArena[d]
  <2>1. s \in Seq(VPages \X Nat) /\ n \in Nat /\ n > 0 /\ IsInjective(s)
        /\ \A b \in ToSet(s) : b[1] # page
    BY <1>4, <1>10, <1>11
  <2>2. free'[d] = s \o [k \in 1 .. n |-> <<page, k - 1>>]
    BY <1>2, <1>4, <1>10
  <2> HIDE DEF s, n
  <2>3. LET x == s \o [k \in 1 .. n |-> <<page, k - 1>>]
        IN  /\ x \in Seq(VPages \X Nat) /\ (n > 0 => x # <<>>)
            /\ IsInjective(s) => IsInjective(x)
            /\ \A y : y \in ToSet(x) <=> y \in ToSet(s) \/ y \in {page} \X (0 .. n - 1)
    BY <1>7, <2>1, NewBlocks
  <2> QED
    BY <2>1, <2>2, <2>3, Zenon DEF s, n, new
<1>13. \A e \in Descs : e # d => free'[e] = free[e]
  BY <1>2, <1>10
<1>14. PoolTypes'
  <2>1. free' \in [Descs -> Seq(VPages \X Nat)]
    BY <1>2, <1>10, <1>12, <1>13
  <2> QED
    BY <1>1, <1>7, <2>1 DEF IInv, Memory, PoolTypes
<1>15. \A b \in new : b[1] = page /\ b[2] \in Blocks(d)
  BY DEF new, Blocks
<1>16. \A b \in Out : b[1] # page
  BY <1>7 DEF IInv, Memory, BlockTypes
<1>17. a # None
  BY <1>5, HeapAssumption
<1>18. BlockTypes'
  <2>1. \A e \in Descs : IsInjective(free'[e])
    BY <1>10, <1>12, <1>13
  <2>2. \A e \in Descs : \A b \in ToSet(free'[e]) :
          b[1] \in VPages /\ arena'[b[1]] # None /\ arena'[b[1]].desc = e /\ b[2] \in Blocks(e)
    <3> SUFFICES ASSUME NEW e \in Descs, NEW b \in ToSet(free'[e])
                 PROVE  b[1] \in VPages /\ arena'[b[1]] # None /\ arena'[b[1]].desc = e /\ b[2] \in Blocks(e)
      OBVIOUS
    <3>1. CASE b \in ToSet(free[e])
      BY <1>7, <1>10, <1>11, <3>1
    <3>2. CASE e = d /\ b \in new
      BY <1>5, <1>7, <1>15, <1>17, <3>2
    <3> QED
      BY <1>12, <1>13, <3>1, <3>2
  <2>3. \A b \in Out : arena'[b[1]] = arena[b[1]] /\ b \notin new
        /\ (arena[b[1]].desc # None => arena[b[1]].desc \in Descs)
    BY <1>7, <1>15, <1>16 DEF IInv, Memory, BlockTypes, PoolTypes, Arenas
  <2>4. \A b \in Out' :
         /\ b[1] \in VPages /\ arena'[b[1]] # None
         /\ IF arena'[b[1]].desc = None THEN b[2] = 0
            ELSE b[2] \in Blocks(arena'[b[1]].desc) /\ b \notin ToSet(free'[arena'[b[1]].desc])
    BY <1>9, <1>12, <1>13, <2>3 DEF IInv, Memory, BlockTypes
  <2> QED
    BY <1>9, <2>1, <2>2, <2>4 DEF BlockTypes
<1>19. BlockCounts'
  <2> SUFFICES ASSUME NEW p \in VPages, arena'[p] # None
               PROVE  IF arena'[p].desc = None THEN <<p, 0>> \in Out'
                      ELSE /\ \A k \in Blocks(arena'[p].desc) : <<p, k>> \in Out' \cup FreeOf(p)'
                           /\ arena'[p].cnt = Cardinality(FreeOf(p)')
    BY DEF BlockCounts
  <2>1. CASE p = page
    <3>1. FreeOf(p)' = new
      BY <1>5, <1>7, <1>11, <1>12, <1>15, <1>4, <2>1 DEF FreeOf
    <3>2. Cardinality(new) = PerArena[d]
      BY <1>4, ArenaCounted DEF new
    <3>3. \A k \in Blocks(d) : <<page, k>> \in new
      BY DEF Blocks, new
    <3> QED
      BY <1>4, <1>5, <1>7, <2>1, <3>1, <3>2, <3>3
  <2>2. CASE p # page
    <3>1. arena'[p] = arena[p]
      BY <1>7, <2>2
    <3>2. arena[p].desc # None => FreeOf(p)' = FreeOf(p)
      <4> SUFFICES ASSUME arena[p].desc # None PROVE FreeOf(p)' = FreeOf(p)
        OBVIOUS
      <4>1. arena[p].desc \in Descs
        BY <3>1 DEF IInv, Memory, PoolTypes, Arenas
      <4>2. \A b : b \in ToSet(free'[arena[p].desc]) /\ b[1] = p <=> b \in ToSet(free[arena[p].desc]) /\ b[1] = p
        BY <1>12, <1>13, <1>15, <2>2, <4>1
      <4> QED
        BY <3>1, <4>2 DEF FreeOf
    <3> QED
      BY <1>9, <3>1, <3>2 DEF IInv, Memory, BlockCounts
  <2> QED
    BY <2>1, <2>2
<1>20. Request(t)'
  BY <1>1, <1>4, <1>12 DEF Request, Getting
<1>21. OnlyTooLargePanics'
  <2>1. ~panicked'
    <3>1. \A k \in Blocks(d) : <<page, k>> \notin ToSet(free[d])
      BY <1>4, <1>11
    <3> QED
      BY <1>2, <3>1 DEF d, page
  <2> QED
    BY <2>1 DEF OnlyTooLargePanics
<1>22. Boots'
  BY <1>1, BootsKept DEF IInv
<1> QED
  BY <1>1, <1>7, <1>8, <1>14, <1>18, <1>19, <1>20, <1>21, <1>22, RequestsKept DEF Memory

-----------------------------------------------------------------------------

(* A small arena whose count of free blocks changes.                       *)
LEMMA Recounted ==
  ASSUME PoolTypes, Pages, NEW t \in Threads, Others(t), call[t].step \notin Getting,
         UNCHANGED <<vbits, pbits, pte, given>>,
         NEW p \in VPages, NEW n \in Nat, arena[p] # None, arena[p].desc \in Descs,
         arena' = [arena EXCEPT ![p].cnt = n], \A u \in Threads : \A q : ~Gets(u, q)'
  PROVE  /\ arena' \in [VPages -> Arenas \cup {None}] /\ Pages'
         /\ arena'[p].cnt = n
         /\ \A q \in VPages : /\ arena'[q] # None <=> arena[q] # None
                              /\ arena[q] # None => arena'[q].desc = arena[q].desc
                              /\ q # p => arena'[q] = arena[q]
<1>1. arena[p] \in Arenas
  BY DEF PoolTypes
<1>2. /\ arena'[p] \in Arenas /\ arena'[p].desc = arena[p].desc /\ arena'[p].cnt = n
      /\ \A q \in VPages : q # p => arena'[q] = arena[q]
      /\ arena' = [q \in VPages |-> arena'[q]]
  BY <1>1 DEF PoolTypes, Arenas
<1>3. arena' \in [VPages -> Arenas \cup {None}]
  BY <1>2 DEF PoolTypes
<1>4. arena'[p] # None /\ arena[p].desc # None
  BY <1>2, HeapAssumption
<1>5. \A q \in VPages : /\ arena'[q] # None <=> arena[q] # None
                        /\ arena[q] # None => arena'[q].desc = arena[q].desc
                        /\ q # p => arena'[q] = arena[q]
  BY <1>2, <1>4
<1>6. \A r, q : Has(r, q)' <=> Has(r, q)
  <2> SUFFICES ASSUME NEW r \in VPages, arena[r] # None PROVE Extent(r)' = Extent(r)
    BY <1>5 DEF Has
  <2>1. CASE r = p
    BY <1>2, <1>4, <2>1 DEF Extent
  <2>2. CASE r # p
    BY <1>5, <2>2 DEF Extent
  <2> QED
    BY <2>1, <2>2
<1>7. \A u \in Threads : call[u].step \notin Getting
  BY DEF Others, Getting
<1>8. \A u \in Threads : \A q : Gets(u, q)' <=> Gets(u, q)
  BY <1>7 DEF Gets
<1>9. Pages'
  BY <1>5, <1>6, <1>7, <1>8, PagesSame
<1> QED
  BY <1>2, <1>3, <1>5, <1>9

(* The free blocks of an arena are blocks of it.                           *)
LEMMA FreeOfInside ==
  ASSUME PoolTypes, BlockTypes, NEW p \in VPages, arena[p] # None, arena[p].desc \in Descs
  PROVE  /\ FreeOf(p) \subseteq {p} \X (0 .. PerArena[arena[p].desc] - 1)
         /\ PerArena[arena[p].desc] \in Nat \ {0} /\ arena[p].desc # None /\ arena[p].cnt \in Nat
<1>1. free[arena[p].desc] \in Seq(VPages \X Nat)
  BY DEF PoolTypes
<1>2. ToSet(free[arena[p].desc]) \subseteq VPages \X Nat
  BY <1>1, InToSet
<1>3. \A b \in FreeOf(p) : b \in VPages \X Nat /\ b[1] = p /\ b[2] \in 0 .. PerArena[arena[p].desc] - 1
  BY <1>2 DEF FreeOf, BlockTypes, Blocks
<1>4. FreeOf(p) \subseteq {p} \X (0 .. PerArena[arena[p].desc] - 1)
  BY <1>3
<1> QED
  BY <1>4, HeapAssumption DEF PoolTypes, Arenas

(* list_pop, and the block is in use.                                      *)
LEMMA PopSound ==
  ASSUME IInv, NEW t \in Threads, Others(t), pop(t)
  PROVE  Boots' /\ Requests' /\ Memory' /\ OnlyTooLargePanics'
<1>0. PICK d : d = call[t].desc
  OBVIOUS
<1>1. /\ Untouched(t) /\ call[t].step = "pop" /\ call'[t] = NoCall
      /\ (booting => t = Main) /\ booting' = booting /\ ~panicked /\ ~panicked'
      /\ UNCHANGED <<vbits, pbits, pte, given>>
  BY DEF IInv, HInv, LockTypes, pop, At, Untouched, Return, pool
<1>2. Request(t)
  BY DEF IInv, Requests
<1>3. d \in Descs /\ free[d] # <<>>
  BY <1>0, <1>1, <1>2 DEF Request
<1>4. /\ free \in [Descs -> Seq(VPages \X Nat)] /\ live \subseteq VPages \X Nat
      /\ \A e \in Descs : IsInjective(free[e]) /\ \A x \in ToSet(free[e]) :
           x[1] \in VPages /\ arena[x[1]] # None /\ arena[x[1]].desc = e /\ x[2] \in Blocks(e)
  BY DEF IInv, Memory, BlockTypes, PoolTypes
<1>5. PICK b : b = Head(free[d])
  OBVIOUS
<1>6. /\ b \in VPages \X Nat /\ b \in ToSet(free[d]) /\ Tail(free[d]) \in Seq(VPages \X Nat)
      /\ IsInjective(Tail(free[d]))
      /\ \A y : y \in ToSet(Tail(free[d])) <=> y \in ToSet(free[d]) /\ y # b
  BY <1>3, <1>4, <1>5, TailElements
<1>7. /\ free' = [free EXCEPT ![d] = Tail(free[d])] /\ live' = live \cup {b}
      /\ arena' = [arena EXCEPT ![b[1]].cnt = arena[b[1]].cnt - 1]
  BY <1>0, <1>5 DEF pop
<1>8. PICK p \in VPages : p = b[1] /\ b = <<p, b[2]>>
  BY <1>6
<1>9. arena[p] # None /\ arena[p].desc = d /\ b[2] \in Blocks(d) /\ b \in FreeOf(p)
  BY <1>3, <1>4, <1>6, <1>8 DEF FreeOf
<1>10. /\ FreeOf(p) \subseteq {p} \X (0 .. PerArena[d] - 1) /\ PerArena[d] \in Nat \ {0} /\ d # None
       /\ arena[p].cnt \in Nat
  BY <1>3, <1>9, FreeOfInside DEF IInv, Memory
<1>11. /\ arena[p].cnt = Cardinality(FreeOf(p)) /\ \A k \in Blocks(d) : <<p, k>> \in Out \cup FreeOf(p)
  BY <1>9, <1>10 DEF IInv, Memory, BlockCounts
<1>12. arena[p].cnt - 1 \in Nat /\ Cardinality(FreeOf(p) \ {b}) = arena[p].cnt - 1
  <2> DEFINE S == FreeOf(p) \ {b}
  <2>1. /\ S \subseteq {p} \X (0 .. PerArena[d] - 1) /\ b \in {p} \X (0 .. PerArena[d] - 1)
        /\ b \notin S /\ S \cup {b} = FreeOf(p)
    BY <1>9, <1>10
  <2> HIDE DEF S
  <2>2. Cardinality(S) \in Nat /\ Cardinality(S \cup {b}) = Cardinality(S) + 1
    <3>1. PICK n \in Nat \ {0} : n = PerArena[d]
      BY <1>10
    <3>2. PICK all : all = {p} \X (0 .. n - 1)
      OBVIOUS
    <3>3. IsFiniteSet(all) /\ S \subseteq all /\ b \in all
      BY <2>1, <3>1, <3>2, ArenaCounted
    <3> QED
      BY <2>1, <3>3, LastOne
  <2>3. arena[p].cnt = Cardinality(S) + 1
    BY <1>11, <2>1, <2>2
  <2>4. arena[p].cnt - 1 \in Nat /\ Cardinality(S) = arena[p].cnt - 1
    BY <1>10, <2>2, <2>3
  <2> QED
    BY <2>4 DEF S
<1>13. \A u \in Threads : \A q : ~Gets(u, q)'
  BY <1>1 DEF Gets, Getting, Others, Untouched, NoCall
<1>14. /\ arena' \in [VPages -> Arenas \cup {None}] /\ Pages'
       /\ arena'[p].cnt = arena[p].cnt - 1
       /\ \A q \in VPages : /\ arena'[q] # None <=> arena[q] # None
                            /\ arena[q] # None => arena'[q].desc = arena[q].desc
                            /\ q # p => arena'[q] = arena[q]
  BY <1>1, <1>3, <1>7, <1>8, <1>9, <1>12, <1>13, Recounted DEF IInv, Memory, Getting
<1>15. /\ free'[d] = Tail(free[d]) /\ \A e \in Descs : e # d => free'[e] = free[e]
       /\ free' \in [Descs -> Seq(VPages \X Nat)]
  <2>1. PICK s \in Seq(VPages \X Nat) : s = Tail(free[d])
    BY <1>6
  <2>2. PICK T : T = Seq(VPages \X Nat)
    OBVIOUS
  <2>3. free \in [Descs -> T] /\ s \in T /\ free' = [free EXCEPT ![d] = s]
    BY <1>4, <1>7, <2>1, <2>2, Zenon
  <2>4. free'[d] = s /\ (\A e \in Descs : e # d => free'[e] = free[e]) /\ free' \in [Descs -> T]
    BY <1>3, <2>3
  <2> QED
    BY <2>1, <2>2, <2>4, Zenon
<1>16. Freed = {} /\ Freed' = {} /\ Out = live /\ Out' = live \cup {b}
  <2>1. Freed = {} /\ Freed' = {}
    BY <1>1, FreedOne, FreedSame DEF NoCall
  <2> QED
    BY <1>7, <2>1 DEF Out
<1>17. PoolTypes'
  <2>1. live' \subseteq VPages \X Nat
    BY <1>4, <1>6, <1>7
  <2> QED
    BY <1>1, <1>14, <1>15, <2>1 DEF IInv, Memory, PoolTypes
<1>18. FramesExclusive'
  BY <1>1 DEF IInv, Memory, FramesExclusive, Mapped
<1>19. \A e \in Descs : \A y \in ToSet(free'[e]) : y \in ToSet(free[e]) /\ y # b
  <2> SUFFICES ASSUME NEW e \in Descs, NEW y \in ToSet(free'[e])
               PROVE  y \in ToSet(free[e]) /\ y # b
    OBVIOUS
  <2>1. CASE e = d
    BY <1>6, <1>15, <2>1
  <2>2. CASE e # d
    <3>1. y \in ToSet(free[e])
      BY <1>15, <2>2
    <3>2. arena[y[1]].desc = e /\ arena[b[1]].desc = d
      BY <1>4, <1>8, <1>9, <3>1
    <3> QED
      BY <2>2, <3>1, <3>2
  <2> QED
    BY <2>1, <2>2
<1>20. BlockTypes'
  <2>1. \A e \in Descs : IsInjective(free'[e])
    BY <1>4, <1>6, <1>15
  <2>2. \A e \in Descs : \A y \in ToSet(free'[e]) :
          y[1] \in VPages /\ arena'[y[1]] # None /\ arena'[y[1]].desc = e /\ y[2] \in Blocks(e)
    BY <1>4, <1>14, <1>19
  <2>3. \A y \in Out' :
         /\ y[1] \in VPages /\ arena'[y[1]] # None
         /\ IF arena'[y[1]].desc = None THEN y[2] = 0
            ELSE y[2] \in Blocks(arena'[y[1]].desc) /\ y \notin ToSet(free'[arena'[y[1]].desc])
    <3> SUFFICES ASSUME NEW y \in Out'
                 PROVE  /\ y[1] \in VPages /\ arena'[y[1]] # None
                        /\ IF arena'[y[1]].desc = None THEN y[2] = 0
                           ELSE y[2] \in Blocks(arena'[y[1]].desc) /\ y \notin ToSet(free'[arena'[y[1]].desc])
      OBVIOUS
    <3>1. CASE y = b
      BY <1>3, <1>8, <1>9, <1>10, <1>14, <1>19, <3>1
    <3>2. CASE y \in live
      <4>1. /\ y[1] \in VPages /\ arena[y[1]] # None
            /\ IF arena[y[1]].desc = None THEN y[2] = 0
               ELSE y[2] \in Blocks(arena[y[1]].desc) /\ y \notin ToSet(free[arena[y[1]].desc])
        BY <1>16, <3>2 DEF IInv, Memory, BlockTypes
      <4>2. arena[y[1]].desc # None => arena[y[1]].desc \in Descs
        BY <4>1 DEF IInv, Memory, PoolTypes, Arenas
      <4> QED
        BY <1>14, <1>19, <4>1, <4>2
    <3> QED
      BY <1>16, <3>1, <3>2
  <2> QED
    BY <1>16, <2>1, <2>2, <2>3 DEF BlockTypes
<1>21. BlockCounts'
  <2> SUFFICES ASSUME NEW q \in VPages, arena'[q] # None
               PROVE  IF arena'[q].desc = None THEN <<q, 0>> \in Out'
                      ELSE /\ \A k \in Blocks(arena'[q].desc) : <<q, k>> \in Out' \cup FreeOf(q)'
                           /\ arena'[q].cnt = Cardinality(FreeOf(q)')
    BY DEF BlockCounts
  <2>1. CASE q = p
    <3>1. FreeOf(q)' = FreeOf(p) \ {b}
      BY <1>6, <1>9, <1>14, <1>15, <2>1 DEF FreeOf
    <3> QED
      BY <1>9, <1>10, <1>11, <1>12, <1>14, <1>16, <2>1, <3>1
  <2>2. CASE q # p
    <3>1. arena'[q] = arena[q] /\ arena[q] # None
      BY <1>14, <2>2
    <3>2. arena[q].desc # None => FreeOf(q)' = FreeOf(q)
      <4> SUFFICES ASSUME arena[q].desc # None PROVE FreeOf(q)' = FreeOf(q)
        OBVIOUS
      <4>1. arena[q].desc \in Descs
        BY <3>1 DEF IInv, Memory, PoolTypes, Arenas
      <4>2. \A y : y \in ToSet(free'[arena[q].desc]) /\ y[1] = q <=> y \in ToSet(free[arena[q].desc]) /\ y[1] = q
        BY <1>6, <1>8, <1>15, <2>2, <4>1
      <4> QED
        BY <3>1, <4>2 DEF FreeOf
    <3>3. Out \subseteq Out'
      BY <1>16
    <3> QED
      BY <3>1, <3>2, <3>3 DEF IInv, Memory, BlockCounts
  <2> QED
    BY <2>1, <2>2
<1>22. Request(t)'
  BY <1>1 DEF Request, NoCall, Getting
<1>23. OnlyTooLargePanics'
  BY <1>1 DEF OnlyTooLargePanics
<1>24. Boots'
  BY <1>1, BootsKept DEF IInv, NoCall
<1> QED
  BY <1>1, <1>14, <1>17, <1>18, <1>20, <1>21, <1>22, <1>23, <1>24, RequestsKept DEF Memory

-----------------------------------------------------------------------------

(* The blocks, when an arena that has none of them in use goes away.       *)
LEMMA ArenaGone ==
  ASSUME PoolTypes, BlockTypes, BlockCounts, NEW p \in VPages, arena[p] # None,
         arena' = [arena EXCEPT ![p] = None], live' = live, Freed' = {},
         \A y \in Freed : y[1] = p, \A y \in live : y[1] # p,
         \A e \in Descs : IsInjective(free'[e]) /\
           \A y : y \in ToSet(free'[e]) <=> y \in ToSet(free[e]) /\ y[1] # p
  PROVE  BlockTypes' /\ BlockCounts'
<1>1. arena'[p] = None /\ \A q \in VPages : q # p => arena'[q] = arena[q]
  BY DEF PoolTypes
<1>2. Out' = live /\ \A y \in Out : y \in live \/ y[1] = p
  BY DEF Out
<1>3. \A q \in VPages : arena[q] # None /\ arena[q].desc # None => arena[q].desc \in Descs
  BY DEF PoolTypes, Arenas
<1>4. \A y \in live : /\ y[1] \in VPages /\ y[1] # p /\ arena[y[1]] # None
                      /\ IF arena[y[1]].desc = None THEN y[2] = 0
                         ELSE y[2] \in Blocks(arena[y[1]].desc) /\ y \notin ToSet(free[arena[y[1]].desc])
  BY DEF BlockTypes, Out
<1>5. \A y \in Out' : /\ y[1] \in VPages /\ arena'[y[1]] # None
                      /\ IF arena'[y[1]].desc = None THEN y[2] = 0
                         ELSE y[2] \in Blocks(arena'[y[1]].desc) /\ y \notin ToSet(free'[arena'[y[1]].desc])
  BY <1>1, <1>2, <1>3, <1>4
<1>6. \A e \in Descs : \A y \in ToSet(free'[e]) :
        y[1] \in VPages /\ arena'[y[1]] # None /\ arena'[y[1]].desc = e /\ y[2] \in Blocks(e)
  BY <1>1 DEF BlockTypes
<1>7. BlockTypes'
  BY <1>5, <1>6 DEF BlockTypes
<1>8. BlockCounts'
  <2> SUFFICES ASSUME NEW q \in VPages, arena'[q] # None
               PROVE  IF arena'[q].desc = None THEN <<q, 0>> \in Out'
                      ELSE /\ \A k \in Blocks(arena'[q].desc) : <<q, k>> \in Out' \cup FreeOf(q)'
                           /\ arena'[q].cnt = Cardinality(FreeOf(q)')
    BY DEF BlockCounts
  <2>1. q # p /\ arena'[q] = arena[q] /\ arena[q] # None
    BY <1>1
  <2>2. IF arena[q].desc = None THEN <<q, 0>> \in Out
        ELSE /\ \A k \in Blocks(arena[q].desc) : <<q, k>> \in Out \cup FreeOf(q)
             /\ arena[q].cnt = Cardinality(FreeOf(q))
    BY <2>1 DEF BlockCounts
  <2>3. \A k : <<q, k>> \in Out => <<q, k>> \in Out'
    <3> SUFFICES ASSUME NEW k, <<q, k>> \in Out PROVE <<q, k>> \in live
      BY <1>2
    <3>1. <<q, k>>[1] # p
      BY <2>1
    <3> QED
      BY <1>2, <3>1
  <2>4. arena[q].desc # None => FreeOf(q)' = FreeOf(q)
    <3> SUFFICES ASSUME arena[q].desc \in Descs PROVE FreeOf(q)' = FreeOf(q)
      BY <1>3, <2>1
    <3>1. \A y : y \in ToSet(free'[arena[q].desc]) /\ y[1] = q <=> y \in ToSet(free[arena[q].desc]) /\ y[1] = q
      BY <2>1
    <3> QED
      BY <2>1, <3>1 DEF FreeOf
  <2> QED
    BY <2>1, <2>2, <2>3, <2>4
<1> QED
  BY <1>7, <1>8

(* sys_free of a large arena.                                              *)
LEMMA FreeLargeSound ==
  ASSUME IInv, NEW t \in Threads, Others(t), free_large(t)
  PROVE  Boots' /\ Requests' /\ Memory' /\ OnlyTooLargePanics'
<1>0. PICK p : p = call[t].page
  OBVIOUS
<1>1. /\ Untouched(t) /\ call[t].step = "free" /\ call'[t] = NoCall
      /\ (booting => t = Main) /\ booting' = booting /\ ~panicked /\ ~panicked'
      /\ UNCHANGED <<free, live, given>> /\ arena[p].desc = None
      /\ mfree_page(p, arena[p].cnt) /\ arena' = [arena EXCEPT ![p] = None]
  BY <1>0 DEF IInv, HInv, LockTypes, free_large, At, Untouched, Return
<1>2. p \in VPages
  BY <1>0, <1>1 DEF IInv, Requests, Request
<1>3. Freed = {<<p, call[t].idx>>}
  BY <1>0, <1>1, FreedOne
<1>4. PICK x : x = <<p, call[t].idx>> /\ x \in Out /\ x[1] = p
  <2>1. PICK y : y = <<p, call[t].idx>>
    OBVIOUS
  <2>2. y \in Out /\ y[1] = p
    BY <1>3, <2>1 DEF Out
  <2> QED
    BY <2>1, <2>2
<1>5. arena[p] # None /\ x[2] = 0
  BY <1>1, <1>4 DEF IInv, Memory, BlockTypes
<1>6. \A u \in Threads : \A q : ~Gets(u, q) /\ ~Gets(u, q)'
  BY <1>1 DEF Gets, Getting, Others, Untouched, NoCall
<1>7. /\ vbits' \subseteq VPages /\ pbits' \subseteq Frames
      /\ pte' \in [VPages -> Frames \cup {None}] /\ arena' \in [VPages -> Arenas \cup {None}]
      /\ FramesExclusive' /\ Pages'
  <2>1. PICK n : n = arena[p].cnt
    OBVIOUS
  <2>2. Extent(p) = Span(p, n)
    BY <1>1, <2>1 DEF Extent
  <2> QED
    BY <1>1, <1>2, <1>5, <1>6, <2>1, <2>2, FreeArena DEF IInv, Memory
<1>8. \A y \in live : y[1] # p
  <2> SUFFICES ASSUME NEW y \in live, y[1] = p PROVE FALSE
    OBVIOUS
  <2>1. y[2] = 0
    BY <1>1 DEF IInv, Memory, BlockTypes, Out
  <2>2. y \in VPages \X Nat
    BY DEF IInv, Memory, PoolTypes
  <2>3. y = x
    BY <1>4, <1>5, <2>1, <2>2
  <2> QED
    BY <1>3, <1>4, <2>3 DEF IInv, Memory, BlockTypes
<1>9. \A e \in Descs : \A y \in ToSet(free[e]) : y[1] # p
  BY <1>1, HeapAssumption DEF IInv, Memory, BlockTypes
<1>10. Freed' = {}
  BY <1>1 DEF Freed, Others, Untouched, NoCall
<1>11. BlockTypes' /\ BlockCounts'
  <2>1. \A e \in Descs : IsInjective(free'[e]) /\
           \A y : y \in ToSet(free'[e]) <=> y \in ToSet(free[e]) /\ y[1] # p
    BY <1>1, <1>9 DEF IInv, Memory, BlockTypes
  <2>2. \A y \in Freed : y[1] = p
    BY <1>3
  <2> QED
    BY <1>1, <1>2, <1>5, <1>8, <1>10, <2>1, <2>2, ArenaGone DEF IInv, Memory
<1>12. PoolTypes'
  BY <1>1, <1>7 DEF IInv, Memory, PoolTypes
<1>13. Request(t)'
  BY <1>1 DEF Request, NoCall, Getting
<1>14. OnlyTooLargePanics'
  BY <1>1 DEF OnlyTooLargePanics
<1>15. Boots'
  BY <1>1, BootsKept DEF IInv, NoCall
<1> QED
  BY <1>1, <1>7, <1>11, <1>12, <1>13, <1>14, <1>15, RequestsKept DEF Memory

(* sys_free of a block: it is free again; and when it was the last one in  *)
(* use all blocks of its arena are on the list, and the arena goes away.   *)
LEMMA FreeSmallSound ==
  ASSUME IInv, NEW t \in Threads, Others(t), free_small(t)
  PROVE  Boots' /\ Requests' /\ Memory' /\ OnlyTooLargePanics'
<1>0. PICK p, d, x : p = call[t].page /\ d = arena[p].desc /\ x = <<p, call[t].idx>>
  OBVIOUS
<1>1. /\ Untouched(t) /\ call[t].step = "free" /\ call'[t] = NoCall
      /\ (booting => t = Main) /\ booting' = booting /\ ~panicked
      /\ UNCHANGED <<live, given>> /\ d # None
  BY <1>0 DEF IInv, HInv, LockTypes, free_small, At, Untouched, Return
<1>2. p \in VPages /\ x \in VPages \X Nat /\ x[1] = p
  BY <1>0, <1>1 DEF IInv, Requests, Request
<1>3. Freed = {x} /\ Freed' = {} /\ Out = live \cup {x} /\ Out' = live /\ x \notin live
  <2>1. Freed = {x}
    BY <1>0, <1>1, FreedOne
  <2>2. Freed' = {}
    BY <1>1 DEF Freed, Others, Untouched, NoCall
  <2> QED
    BY <1>1, <2>1, <2>2 DEF Out, IInv, Memory, BlockTypes
<1>4. arena[p] # None /\ d \in Descs /\ x[2] \in Blocks(d) /\ x \notin ToSet(free[d])
  <2>1. /\ arena[p] # None /\ x[2] \in Blocks(d) /\ x \notin ToSet(free[d])
    BY <1>0, <1>1, <1>2, <1>3 DEF IInv, Memory, BlockTypes
  <2> QED
    BY <1>0, <1>1, <1>2, <2>1 DEF IInv, Memory, PoolTypes, Arenas
<1>5. PICK n \in Nat \ {0} : n = PerArena[d]
  BY <1>4, HeapAssumption
<1>6. /\ FreeOf(p) \subseteq {p} \X (0 .. n - 1) /\ arena[p].cnt \in Nat
      /\ x \in {p} \X (0 .. n - 1) /\ x \notin FreeOf(p)
  <2>1. x = <<p, x[2]>> /\ x \notin FreeOf(p)
    BY <1>0, <1>2, <1>4 DEF FreeOf
  <2> QED
    BY <1>0, <1>2, <1>4, <1>5, <2>1, FreeOfInside DEF IInv, Memory, Blocks
<1>7. /\ arena[p].cnt = Cardinality(FreeOf(p)) /\ \A k \in Blocks(d) : <<p, k>> \in Out \cup FreeOf(p)
  BY <1>0, <1>1, <1>2, <1>4 DEF IInv, Memory, BlockCounts
<1>8. /\ arena[p].cnt < n /\ Cardinality(FreeOf(p) \cup {x}) = arena[p].cnt + 1
      /\ arena[p].cnt + 1 = n => FreeOf(p) \cup {x} = {p} \X (0 .. n - 1)
  <2>1. PICK S, all : S = FreeOf(p) /\ all = {p} \X (0 .. n - 1)
    OBVIOUS
  <2>2. n \in Nat /\ IsFiniteSet(all) /\ Cardinality(all) = n
    BY <1>5, <2>1, ArenaCounted
  <2>3. S \subseteq all /\ x \in all /\ x \notin S /\ arena[p].cnt = Cardinality(S)
    BY <1>6, <1>7, <2>1
  <2>4. /\ Cardinality(S) < n /\ Cardinality(S \cup {x}) = Cardinality(S) + 1
        /\ Cardinality(S) + 1 = n => S \cup {x} = all
    BY <2>2, <2>3, LastOne
  <2> QED
    BY <2>1, <2>3, <2>4
<1>9. /\ free \in [Descs -> Seq(VPages \X Nat)] /\ live \subseteq VPages \X Nat
      /\ \A e \in Descs : IsInjective(free[e]) /\ \A y \in ToSet(free[e]) :
           y[1] \in VPages /\ arena[y[1]] # None /\ arena[y[1]].desc = e /\ y[2] \in Blocks(e)
  BY DEF IInv, Memory, BlockTypes, PoolTypes
<1>10. PICK list : list = Append(free[d], x)
  OBVIOUS
<1>11. /\ list \in Seq(VPages \X Nat) /\ IsInjective(list)
       /\ \A y : y \in ToSet(list) <=> y \in ToSet(free[d]) \/ y = x
  BY <1>2, <1>4, <1>9, <1>10, AppendElements
<1>12. \A u \in Threads : \A q : ~Gets(u, q) /\ ~Gets(u, q)'
  BY <1>1 DEF Gets, Getting, Others, Untouched, NoCall
<1>13. Request(t)'
  BY <1>1 DEF Request, NoCall, Getting
<1>14. Boots'
  BY <1>1, BootsKept DEF IInv, NoCall
<1>15. ASSUME NEW s \in Seq(VPages \X Nat), free' = [free EXCEPT ![d] = s]
       PROVE  free'[d] = s /\ (\A e \in Descs : e # d => free'[e] = free[e])
              /\ free' \in [Descs -> Seq(VPages \X Nat)]
  <2>1. PICK T : T = Seq(VPages \X Nat)
    OBVIOUS
  <2>2. free \in [Descs -> T] /\ s \in T
    BY <1>9, <2>1, Zenon
  <2>3. free'[d] = s /\ (\A e \in Descs : e # d => free'[e] = free[e]) /\ free' \in [Descs -> T]
    BY <1>4, <1>15, <2>2
  <2> QED
    BY <2>1, <2>3, Zenon
<1>16. CASE arena[p].cnt + 1 # PerArena[d]
  <2>1. /\ free' = [free EXCEPT ![d] = list] /\ arena' = [arena EXCEPT ![p].cnt = arena[p].cnt + 1]
        /\ UNCHANGED <<vbits, pbits, pte>> /\ ~panicked'
    BY <1>0, <1>1, <1>10, <1>16 DEF free_small, pool
  <2>2. /\ free'[d] = list /\ (\A e \in Descs : e # d => free'[e] = free[e])
        /\ free' \in [Descs -> Seq(VPages \X Nat)]
    BY <1>11, <1>15, <2>1
  <2>3. /\ arena' \in [VPages -> Arenas \cup {None}] /\ Pages'
        /\ arena'[p].cnt = arena[p].cnt + 1
        /\ \A q \in VPages : /\ arena'[q] # None <=> arena[q] # None
                             /\ arena[q] # None => arena'[q].desc = arena[q].desc
                             /\ q # p => arena'[q] = arena[q]
    <3>1. PICK m \in Nat : m = arena[p].cnt + 1
      BY <1>6
    <3> QED
      BY <1>0, <1>1, <1>2, <1>4, <1>12, <2>1, <3>1, Recounted DEF IInv, Memory, Getting
  <2>4. PoolTypes'
    BY <1>1, <2>1, <2>2, <2>3 DEF IInv, Memory, PoolTypes
  <2>5. FramesExclusive'
    BY <2>1 DEF IInv, Memory, FramesExclusive, Mapped
  <2>6. BlockTypes'
    <3>1. \A e \in Descs : IsInjective(free'[e])
      BY <1>9, <1>11, <2>2
    <3>2. \A e \in Descs : \A y \in ToSet(free'[e]) :
            y[1] \in VPages /\ arena'[y[1]] # None /\ arena'[y[1]].desc = e /\ y[2] \in Blocks(e)
      <4> SUFFICES ASSUME NEW e \in Descs, NEW y \in ToSet(free'[e])
                   PROVE  y[1] \in VPages /\ arena'[y[1]] # None /\ arena'[y[1]].desc = e /\ y[2] \in Blocks(e)
        OBVIOUS
      <4>1. y[1] \in VPages /\ arena[y[1]] # None /\ arena[y[1]].desc = e /\ y[2] \in Blocks(e)
        <5>1. CASE e = d /\ y = x
          BY <1>0, <1>2, <1>4, <5>1
        <5>2. CASE y \in ToSet(free[e])
          BY <1>9, <5>2
        <5> QED
          BY <1>11, <2>2, <5>1, <5>2
      <4> QED
        BY <2>3, <4>1
    <3>3. \A y \in Out' :
           /\ y[1] \in VPages /\ arena'[y[1]] # None
           /\ IF arena'[y[1]].desc = None THEN y[2] = 0
              ELSE y[2] \in Blocks(arena'[y[1]].desc) /\ y \notin ToSet(free'[arena'[y[1]].desc])
      <4> SUFFICES ASSUME NEW y \in live
                   PROVE  /\ y[1] \in VPages /\ arena'[y[1]] # None
                          /\ IF arena'[y[1]].desc = None THEN y[2] = 0
                             ELSE y[2] \in Blocks(arena'[y[1]].desc) /\ y \notin ToSet(free'[arena'[y[1]].desc])
        BY <1>3
      <4>1. /\ y[1] \in VPages /\ arena[y[1]] # None /\ y # x
            /\ IF arena[y[1]].desc = None THEN y[2] = 0
               ELSE y[2] \in Blocks(arena[y[1]].desc) /\ y \notin ToSet(free[arena[y[1]].desc])
        BY <1>3 DEF IInv, Memory, BlockTypes
      <4>2. arena[y[1]].desc # None => arena[y[1]].desc \in Descs
        BY <4>1 DEF IInv, Memory, PoolTypes, Arenas
      <4> QED
        BY <1>11, <2>2, <2>3, <4>1, <4>2
    <3> QED
      BY <1>3, <3>1, <3>2, <3>3 DEF BlockTypes
  <2>7. BlockCounts'
    <3> SUFFICES ASSUME NEW q \in VPages, arena'[q] # None
                 PROVE  IF arena'[q].desc = None THEN <<q, 0>> \in Out'
                        ELSE /\ \A k \in Blocks(arena'[q].desc) : <<q, k>> \in Out' \cup FreeOf(q)'
                             /\ arena'[q].cnt = Cardinality(FreeOf(q)')
      BY DEF BlockCounts
    <3>1. CASE q = p
      <4>1. arena'[p].desc = d
        BY <1>0, <1>2, <1>4, <2>3
      <4>2. FreeOf(q)' = FreeOf(p) \cup {x}
        BY <1>0, <1>2, <1>11, <2>2, <3>1, <4>1 DEF FreeOf
      <4>3. \A k \in Blocks(d) : <<p, k>> \in live \cup (FreeOf(p) \cup {x})
        BY <1>3, <1>7
      <4> QED
        BY <1>1, <1>3, <1>8, <2>3, <3>1, <4>1, <4>2, <4>3
    <3>2. CASE q # p
      <4>1. arena'[q] = arena[q] /\ arena[q] # None
        BY <2>3, <3>2
      <4>2. arena[q].desc # None => FreeOf(q)' = FreeOf(q)
        <5> SUFFICES ASSUME arena[q].desc # None PROVE FreeOf(q)' = FreeOf(q)
          OBVIOUS
        <5>1. arena[q].desc \in Descs
          BY <4>1 DEF IInv, Memory, PoolTypes, Arenas
        <5>2. \A y : y \in ToSet(free'[arena[q].desc]) /\ y[1] = q <=> y \in ToSet(free[arena[q].desc]) /\ y[1] = q
          BY <1>2, <1>11, <2>2, <3>2, <5>1
        <5> QED
          BY <4>1, <5>2 DEF FreeOf
      <4>3. \A k : <<q, k>> \in Out => <<q, k>> \in Out'
        BY <1>0, <1>3, <3>2
      <4> QED
        BY <4>1, <4>2, <4>3 DEF IInv, Memory, BlockCounts
    <3> QED
      BY <3>1, <3>2
  <2> QED
    BY <1>1, <1>13, <1>14, <2>1, <2>3, <2>4, <2>5, <2>6, <2>7, RequestsKept DEF Memory, OnlyTooLargePanics
<1>17. CASE arena[p].cnt + 1 = PerArena[d]
  <2>1. /\ free' = [free EXCEPT ![d] = Without(list, p)] /\ mfree_page(p, 1)
        /\ arena' = [arena EXCEPT ![p] = None]
        /\ panicked' <=> ~(\A k \in Blocks(d) : <<p, k>> \in ToSet(list))
    BY <1>0, <1>10, <1>17 DEF free_small
  <2>2. FreeOf(p) \cup {x} = {p} \X (0 .. n - 1)
    <3>1. arena[p].cnt + 1 = n
      BY <1>5, <1>6, <1>8, <1>17
    <3> QED
      BY <1>8, <3>1
  <2>3. \A k \in Blocks(d) : <<p, k>> \in ToSet(list)
    <3> SUFFICES ASSUME NEW k \in 0 .. n - 1 PROVE <<p, k>> \in ToSet(list)
      BY <1>5 DEF Blocks
    <3>1. <<p, k>> \in FreeOf(p) \cup {x}
      BY <2>2
    <3> QED
      BY <1>0, <1>11, <3>1 DEF FreeOf
  <2>4. /\ Without(list, p) \in Seq(VPages \X Nat) /\ IsInjective(Without(list, p))
        /\ \A y : y \in ToSet(Without(list, p)) <=> y \in ToSet(list) /\ y[1] # p
    BY <1>11, WithoutElements
  <2>5. /\ free'[d] = Without(list, p) /\ (\A e \in Descs : e # d => free'[e] = free[e])
        /\ free' \in [Descs -> Seq(VPages \X Nat)]
    BY <1>15, <2>1, <2>4
  <2>6. \A y \in live : y[1] # p
    <3> SUFFICES ASSUME NEW y \in live, y[1] = p PROVE FALSE
      OBVIOUS
    <3>1. y[2] \in Blocks(d) /\ y \notin ToSet(free[d])
      BY <1>0, <1>1, <1>3 DEF IInv, Memory, BlockTypes
    <3>2. y = <<p, y[2]>>
      BY <1>9
    <3>3. y \in FreeOf(p) \cup {x}
      BY <1>5, <2>2, <3>1, <3>2 DEF Blocks
    <3>4. y \notin FreeOf(p)
      BY <1>0, <3>1 DEF FreeOf
    <3> QED
      BY <1>3, <3>3, <3>4
  <2>7. \A e \in Descs : IsInjective(free'[e]) /\
          \A y : y \in ToSet(free'[e]) <=> y \in ToSet(free[e]) /\ y[1] # p
    <3> SUFFICES ASSUME NEW e \in Descs
                 PROVE  IsInjective(free'[e]) /\
                        \A y : y \in ToSet(free'[e]) <=> y \in ToSet(free[e]) /\ y[1] # p
      OBVIOUS
    <3>1. CASE e = d
      BY <1>2, <1>11, <2>4, <2>5, <3>1
    <3>2. CASE e # d
      BY <1>0, <1>9, <2>5, <3>2
    <3> QED
      BY <3>1, <3>2
  <2>8. BlockTypes' /\ BlockCounts'
    <3>1. \A y \in Freed : y[1] = p
      BY <1>2, <1>3
    <3> QED
      BY <1>1, <1>2, <1>3, <1>4, <2>1, <2>6, <2>7, <3>1, ArenaGone DEF IInv, Memory
  <2>9. /\ vbits' \subseteq VPages /\ pbits' \subseteq Frames
        /\ pte' \in [VPages -> Frames \cup {None}] /\ arena' \in [VPages -> Arenas \cup {None}]
        /\ FramesExclusive' /\ Pages'
    <3>1. Extent(p) = Span(p, 1)
      <4>1. p \in Int /\ Span(p, 1) = {p}
        BY <1>2, HeapAssumption DEF Span, VPages
      <4> QED
        BY <1>0, <1>1, <4>1 DEF Extent
    <3> QED
      BY <1>1, <1>2, <1>4, <1>12, <2>1, <3>1, FreeArena DEF IInv, Memory
  <2>10. PoolTypes'
    BY <1>1, <2>5, <2>9 DEF IInv, Memory, PoolTypes
  <2> QED
    BY <1>1, <1>13, <1>14, <2>1, <2>3, <2>8, <2>9, <2>10, RequestsKept DEF Memory, OnlyTooLargePanics
<1> QED
  BY <1>16, <1>17

-----------------------------------------------------------------------------

(* sys_free begins: the block is no more in use but on its way back.       *)
LEMMA SysFreeSound ==
  ASSUME IInv, NEW t \in Threads, Others(t), sys_free(t)
  PROVE  Boots' /\ Requests' /\ Memory' /\ OnlyTooLargePanics'
<1>0. PICK b \in live :
        /\ live' = live \ {b}
        /\ call' = [call EXCEPT ![t] = [NoCall EXCEPT !.op = "free", !.step = "free",
                                                     !.page = b[1], !.idx = b[2]]]
  BY DEF sys_free
<1>1. b \in VPages \X Nat
  BY DEF IInv, Memory, PoolTypes
<1>2. /\ Untouched(t) /\ call[t].step = "out"
      /\ call'[t].op = "free" /\ call'[t].step = "free"
      /\ call'[t].page = b[1] /\ call'[t].idx = b[2] /\ call'[t].i = 0
      /\ (booting => t = Main) /\ booting' = booting /\ ~panicked /\ ~panicked'
      /\ UNCHANGED <<pool, arena, free, given>>
  BY <1>0 DEF IInv, HInv, LockTypes, sys_free, At, Untouched, NoCall
<1>3. Freed = {} /\ Freed' = {b} /\ Out' = Out
  <2>1. Freed = {}
    BY <1>2, FreedOne
  <2>2. b = <<b[1], b[2]>>
    BY <1>1
  <2>3. Freed' = {b}
    BY <1>2, <2>2 DEF Freed, Others, Untouched
  <2> QED
    BY <1>0, <2>1, <2>3 DEF Out
<1>4. PoolTypes' /\ FramesExclusive'
  BY <1>0, <1>2 DEF IInv, Memory, PoolTypes, FramesExclusive, Mapped, pool
<1>5. Pages'
  <2>1. \A p, q : Has(p, q)' <=> Has(p, q)
    BY <1>2 DEF Has, Extent
  <2>2. \A u \in Threads : \A q : ~Gets(u, q)' /\ ~Gets(u, q)
    BY <1>2 DEF Gets, Getting, Others, Untouched
  <2>3. \A u \in Threads : call[u].step \notin Getting
    BY <1>2 DEF Getting, Others
  <2> QED
    BY <1>2, <2>1, <2>2, <2>3, PagesSame DEF IInv, Memory, pool
<1>6. BlockTypes' /\ BlockCounts'
  <2>1. \A q : FreeOf(q)' = FreeOf(q)
    BY <1>2 DEF FreeOf
  <2>2. live' \cap Freed' = {}
    BY <1>0, <1>3
  <2> QED
    BY <1>2, <1>3, <2>1, <2>2 DEF IInv, Memory, BlockTypes, BlockCounts
<1>7. Request(t)'
  BY <1>1, <1>2 DEF Request, Getting
<1>8. OnlyTooLargePanics'
  BY <1>2 DEF OnlyTooLargePanics
<1>9. Boots'
  BY <1>2, BootsKept DEF IInv
<1> QED
  BY <1>2, <1>4, <1>5, <1>6, <1>7, <1>8, <1>9, RequestsKept DEF Memory

(* A call for memory begins.                                               *)
LEMMA BeginSound ==
  ASSUME IInv, NEW t \in Threads, Others(t), At(t, "out"), Untouched(t),
         UNCHANGED <<pool, heap, given, booting, panicked>>,
         call'[t].op \in {"pages", "large", "small"}, call'[t].i = 0,
         call'[t].step \in {"vaddr_get", "pop"}, call'[t].n \in Nat \ {0},
         call'[t].op = "pages" => booting,
         call'[t].op = "small" => call'[t].n = 1 /\ call'[t].desc \in Descs,
         call'[t].step = "pop" => call'[t].op = "small" /\ free[call'[t].desc] # <<>>
  PROVE  Boots' /\ Requests' /\ Memory' /\ OnlyTooLargePanics'
<1>1. /\ call[t].step = "out" /\ (booting => t = Main) /\ ~panicked /\ ~panicked'
      /\ free' = free
  BY DEF At, heap
<1>2. Request(t)'
  BY <1>1 DEF Request, Getting
<1>3. Memory'
  BY <1>1, MemoryQuiet DEF IInv, Getting
<1>4. OnlyTooLargePanics'
  BY <1>1 DEF OnlyTooLargePanics
<1>5. Boots'
  BY <1>1, BootsKept DEF IInv
<1> QED
  BY <1>2, <1>3, <1>4, <1>5, RequestsKept

(* The calls for memory, one by one.                                       *)
LEMMA StartSound ==
  ASSUME PageCallers = {}, IInv, NEW t \in Threads, Others(t),
         get_kernel_pages(t) \/ sys_malloc_large(t) \/ sys_malloc_small(t)
  PROVE  Boots' /\ Requests' /\ Memory' /\ OnlyTooLargePanics'
<1> USE DEF IInv, HInv, LockTypes, Untouched, Begin, NoCall
<1>1. CASE get_kernel_pages(t)
  <2>1. PICK n \in 1 .. MaxPages : Begin(t, "pages", None, n, "vaddr_get")
    BY <1>1 DEF get_kernel_pages
  <2>2. n \in Nat \ {0}
    BY HeapAssumption
  <2>3. booting /\ UNCHANGED <<pool, heap, given, booting, panicked>>
    BY <1>1 DEF get_kernel_pages
  <2>4. /\ At(t, "out") /\ Untouched(t) /\ call'[t].op = "pages" /\ call'[t].i = 0
        /\ call'[t].step = "vaddr_get" /\ call'[t].n = n
    BY <2>1
  <2> QED
    BY <2>2, <2>3, <2>4, BeginSound
<1>2. CASE sys_malloc_large(t)
  <2>1. PICK n \in 1 .. MaxPages : Begin(t, "large", None, n, "vaddr_get")
    BY <1>2 DEF sys_malloc_large
  <2>2. n \in Nat \ {0}
    BY HeapAssumption
  <2>3. UNCHANGED <<pool, heap, given, booting, panicked>>
    BY <1>2 DEF sys_malloc_large
  <2>4. /\ At(t, "out") /\ Untouched(t) /\ call'[t].op = "large" /\ call'[t].i = 0
        /\ call'[t].step = "vaddr_get" /\ call'[t].n = n
    BY <2>1
  <2> QED
    BY <2>2, <2>3, <2>4, BeginSound
<1>3. CASE sys_malloc_small(t)
  <2>1. PICK d \in Descs :
          Begin(t, "small", d, 1, IF free[d] = <<>> THEN "vaddr_get" ELSE "pop")
    BY <1>3 DEF sys_malloc_small
  <2>3. UNCHANGED <<pool, heap, given, booting, panicked>>
    BY <1>3 DEF sys_malloc_small
  <2>4. /\ At(t, "out") /\ Untouched(t) /\ call'[t].op = "small" /\ call'[t].i = 0
        /\ call'[t].step = (IF free[d] = <<>> THEN "vaddr_get" ELSE "pop")
        /\ call'[t].n = 1 /\ call'[t].desc = d
    BY <2>1
  <2> QED
    BY <2>3, <2>4, BeginSound
<1> QED
  BY <1>1, <1>2, <1>3

(* Main's intr_enable comes when it is in no call.                         *)
LEMMA EnableSound ==
  ASSUME IInv, intr_enable \/ UNCHANGED vars
  PROVE  Boots' /\ Requests' /\ Memory' /\ OnlyTooLargePanics'
<1>1. UNCHANGED <<pool, heap, given, call, panicked>>
  BY DEF intr_enable, vars
<1>2. /\ UNCHANGED <<vbits, pbits, pte, arena, free, live, given, call, panicked>>
  BY <1>1 DEF pool, heap
<1>3. Requests'
  BY <1>2 DEF IInv, Requests, Request
<1>4. PoolTypes' /\ FramesExclusive'
  BY <1>2 DEF IInv, Memory, PoolTypes, FramesExclusive, Mapped
<1>5. Pages'
  BY <1>2 DEF IInv, Memory, Pages, Has, Gets, Extent, Mapped
<1>6. BlockTypes' /\ BlockCounts'
  <2>1. Freed' = Freed
    BY <1>2 DEF Freed
  <2> QED
    BY <1>2, <2>1, BlocksSame DEF IInv, Memory
<1>7. OnlyTooLargePanics'
  BY <1>2 DEF IInv, OnlyTooLargePanics
<1>8. Boots'
  <2>1. CASE intr_enable
    <3>1. \A t \in Threads : call[t].op # "pages"
      <4> SUFFICES ASSUME NEW t \in Threads, call[t].op = "pages" PROVE FALSE
        OBVIOUS
      <4>1. call[t].step # "out"
        BY DEF IInv, HInv, StepInv
      <4> QED
        BY <2>1, <4>1 DEF intr_enable, At, IInv, Boots
    <3> QED
      BY <1>2, <2>1, <3>1 DEF intr_enable, Boots
  <2>2. CASE UNCHANGED vars
    BY <2>2 DEF vars, IInv, Boots
  <2> QED
    BY <2>1, <2>2
<1> QED
  BY <1>3, <1>4, <1>5, <1>6, <1>7, <1>8 DEF Memory

(* A step of t finds everybody else in no call.                            *)
LEMMA WorkKeeps ==
  ASSUME IInv, NEW t \in Threads, Others(t), Work(t)
  PROVE  Boots' /\ Requests' /\ Memory' /\ OnlyTooLargePanics'
BY TooManySound, VaddrGetSound, VaddrSetSound, PallocSound, MapSound, HeaderLargeSound, HeaderSmallSound,
   PopSound, FreeLargeSound, FreeSmallSound DEF Work

(* The invariant is inductive when main alone calls get_kernel_pages.      *)
LEMMA InvKept == ASSUME PageCallers = {}, IInv, [Next]_vars PROVE IInv'
<1>1. HInv'
  BY NextSound DEF IInv
<1>2. HInv /\ Boots /\ Requests
  BY DEF IInv
<1>3. Boots' /\ Requests' /\ Memory' /\ OnlyTooLargePanics'
  <2>1. CASE intr_enable \/ UNCHANGED vars
    BY <2>1, EnableSound
  <2>2. ASSUME NEW t \in Threads, get_kernel_pages(t) PROVE Boots' /\ Requests' /\ Memory' /\ OnlyTooLargePanics'
    <3>1. booting /\ t = Main
      BY <2>2 DEF get_kernel_pages, Begin, At
    <3> QED
      BY <1>2, <2>2, <3>1, AloneInCall, StartSound
  <2>3. ASSUME NEW t \in Threads, sys_malloc_large(t) \/ sys_malloc_small(t)
        PROVE  Boots' /\ Requests' /\ Memory' /\ OnlyTooLargePanics'
    <3>1. (booting => t = Main) /\ owner \in {t, None}
      BY <2>3 DEF sys_malloc_large, sys_malloc_small, Begin, At, Acquire
    <3> QED
      BY <1>2, <2>3, <3>1, AloneInCall, StartSound
  <2>4. ASSUME NEW t \in Threads, sys_free(t) PROVE Boots' /\ Requests' /\ Memory' /\ OnlyTooLargePanics'
    <3>1. (booting => t = Main) /\ owner \in {t, None}
      BY <2>4 DEF sys_free, At, Acquire
    <3> QED
      BY <1>2, <2>4, <3>1, AloneInCall, SysFreeSound
  <2>5. ASSUME NEW t \in Threads, Work(t) PROVE Boots' /\ Requests' /\ Memory' /\ OnlyTooLargePanics'
    <3>1. (booting => t = Main) /\ call[t].step # "out"
      BY <2>5 DEF Work, malloc_page_TooMany, vaddr_get, vaddr_set, palloc, map, header_large, header_small, pop,
                  free_large, free_small, At
    <3> QED
      BY <1>2, <2>5, <3>1, AloneInCall, WorkKeeps
  <2> QED
    BY <2>1, <2>2, <2>3, <2>4, <2>5 DEF Next
<1> QED
  BY <1>1, <1>3 DEF IInv

(* mem_init establishes it: all is free and nobody is in a call.           *)
LEMMA InvStarts == ASSUME Init PROVE IInv
<1>1. HInv
  BY InitSound
<1>2. /\ vbits = {} /\ pbits = {} /\ live = {} /\ given = {} /\ booting /\ ~panicked
      /\ pte = [p \in VPages |-> None] /\ arena = [p \in VPages |-> None]
      /\ free = [d \in Descs |-> <<>>]
      /\ \A t \in Threads : call[t] = NoCall
  BY DEF Init
<1>3. Boots /\ Requests
  BY <1>2 DEF Boots, Requests, Request, NoCall, Getting
<1>4. Freed = {} /\ Out = {} /\ Mapped = {}
  BY <1>2 DEF Freed, Out, Mapped, NoCall
<1>5. PoolTypes
  BY <1>2 DEF PoolTypes
<1>6. FramesExclusive
  BY <1>2, <1>4 DEF FramesExclusive
<1>7. Pages
  <2>1. (\A p, q : ~Has(p, q)) /\ (\A t \in Threads : \A q : ~Gets(t, q))
    BY <1>2 DEF Has, Gets, NoCall, Getting
  <2> QED
    BY <1>2, <1>4, <2>1 DEF Pages
<1>8. BlockTypes /\ BlockCounts
  <2>1. \A d \in Descs : ToSet(free[d]) = {} /\ IsInjective(free[d])
    BY <1>2 DEF ToSet, IsInjective
  <2> QED
    BY <1>2, <1>4, <2>1 DEF BlockTypes, BlockCounts
<1>9. OnlyTooLargePanics
  BY <1>2 DEF OnlyTooLargePanics
<1> QED
  BY <1>1, <1>3, <1>5, <1>6, <1>7, <1>8, <1>9 DEF IInv, Memory

-----------------------------------------------------------------------------

(* The invariant, read as the properties.                                  *)
LEMMA PagesAreOwned == ASSUME IInv PROVE NoPageLost
<1>1. \A x : x \in Owned <=> \/ \E q \in given : x = <<-1, q>>
                             \/ \E p, q : Has(p, q) /\ x = <<p, q>>
  BY DEF Owned, Has
<1>2. \A q : q \in Asked <=> \E t \in Threads : Gets(t, q)
  BY DEF Asked, Gets, Getting
<1>3. Pages
  BY DEF IInv, Memory
<1>4. \A q : q \in {x[2] : x \in Owned} <=> q \in given \/ \E p : Has(p, q)
  <2> SUFFICES ASSUME NEW q
               PROVE  (\E x \in Owned : x[2] = q) <=> q \in given \/ \E p : Has(p, q)
    OBVIOUS
  <2>1. ASSUME NEW x \in Owned, x[2] = q PROVE q \in given \/ \E p : Has(p, q)
    <3>1. CASE \E r \in given : x = <<-1, r>>
      BY <2>1, <3>1
    <3>2. CASE \E p, r : Has(p, r) /\ x = <<p, r>>
      BY <2>1, <3>2
    <3> QED
      BY <1>1, <3>1, <3>2
  <2>2. ASSUME q \in given PROVE \E x \in Owned : x[2] = q
    <3>1. PICK x : x = <<-1, q>>
      OBVIOUS
    <3> QED
      BY <1>1, <2>2, <3>1
  <2>3. ASSUME NEW p, Has(p, q) PROVE \E x \in Owned : x[2] = q
    <3>1. PICK x : x = <<p, q>>
      OBVIOUS
    <3> QED
      BY <1>1, <2>3, <3>1
  <2> QED
    BY <2>1, <2>2, <2>3
<1>5. \A x, y \in Owned : x[2] = y[2] => x = y
  BY <1>1, <1>3 DEF Pages
<1>6. {x[2] : x \in Owned} \subseteq Mapped
  BY <1>3, <1>4 DEF Pages
<1>7. vbits = {x[2] : x \in Owned} \cup Asked
  <2>1. \A q : q \in vbits <=> q \in given \/ (\E p : Has(p, q)) \/ (\E t \in Threads : Gets(t, q))
    BY <1>3 DEF Pages
  <2> QED
    BY <1>2, <1>4, <2>1
<1> QED
  BY <1>5, <1>6, <1>7 DEF NoPageLost

(* The lists, the blocks in use and cnt, as BlocksAccounted has them.      *)
LEMMA BlocksAreCounted == ASSUME IInv PROVE BlocksAccounted
<1>1. PoolTypes /\ BlockTypes /\ BlockCounts
  BY DEF IInv, Memory
<1>2. PICK lists : lists = UNION {ToSet(free[d]) : d \in Descs}
  OBVIOUS
<1>3. \A b : b \in lists <=> \E d \in Descs : b \in ToSet(free[d])
  BY <1>2
<1>4. \A b \in Out : b = <<b[1], b[2]>>
  BY <1>1 DEF Out, Freed, PoolTypes
<1>5. \A d \in Descs : \A b \in ToSet(free[d]) : b = <<b[1], b[2]>>
  <2> SUFFICES ASSUME NEW d \in Descs, NEW b \in ToSet(free[d]) PROVE b = <<b[1], b[2]>>
    OBVIOUS
  <2>1. PICK s : s = free[d] /\ s \in Seq(VPages \X Nat)
    BY <1>1 DEF PoolTypes
  <2>2. b \in VPages \X Nat
    BY <2>1, InToSet
  <2> QED
    BY <2>2
<1>6. lists \cap Out = {}
  BY <1>1, <1>3, HeapAssumption DEF BlockTypes
<1>7. \A b \in Out \cup lists : arena[b[1]] # None
  BY <1>1, <1>3 DEF BlockTypes
<1>8. ASSUME NEW p \in VPages, arena[p] # None, arena[p].desc = None
      PROVE  {b \in Out : b[1] = p} = {<<p, 0>>}
  BY <1>1, <1>4, <1>8 DEF BlockTypes, BlockCounts
<1>9. ASSUME NEW p \in VPages, arena[p] # None, NEW d \in Descs, arena[p].desc = d, d # None
      PROVE  /\ {b \in Out \cup ToSet(free[d]) : b[1] = p} = {p} \X Blocks(d)
             /\ arena[p].cnt = Cardinality({b \in ToSet(free[d]) : b[1] = p})
  <2>1. /\ FreeOf(p) = {b \in ToSet(free[d]) : b[1] = p} /\ arena[p].cnt = Cardinality(FreeOf(p))
        /\ \A k \in Blocks(d) : <<p, k>> \in Out \cup FreeOf(p)
    BY <1>1, <1>9 DEF BlockCounts, FreeOf
  <2>2. \A b \in Out \cup ToSet(free[d]) : b[1] = p => b[2] \in Blocks(d)
    BY <1>1, <1>9 DEF BlockTypes
  <2>3. \A b \in Out \cup ToSet(free[d]) : b[1] = p => b \in {p} \X Blocks(d)
    BY <1>4, <1>5, <2>2
  <2>4. \A b \in {p} \X Blocks(d) : b[1] = p /\ b \in Out \cup ToSet(free[d])
    BY <2>1
  <2> QED
    BY <2>1, <2>3, <2>4
<1>10. \A p \in VPages : arena[p] # None /\ arena[p].desc # None => arena[p].desc \in Descs
  BY <1>1 DEF PoolTypes, Arenas
<1>11. live \cup Freed = Out /\ live \cap Freed = {} /\ \A d \in Descs : IsInjective(free[d])
  BY <1>1 DEF Out, BlockTypes
<1>12. ASSUME NEW p \in VPages
       PROVE  IF arena[p] = None THEN \A b \in Out \cup lists : b[1] # p
              ELSE LET d == arena[p].desc IN
                   IF d = None THEN {b \in Out : b[1] = p} = {<<p, 0>>}
                   ELSE /\ {b \in Out \cup ToSet(free[d]) : b[1] = p} = {p} \X Blocks(d)
                        /\ arena[p].cnt = Cardinality({b \in ToSet(free[d]) : b[1] = p})
  <2>1. CASE arena[p] = None
    BY <1>7, <2>1
  <2>2. CASE arena[p] # None /\ arena[p].desc = None
    BY <1>8, <2>2
  <2>3. CASE arena[p] # None /\ arena[p].desc # None
    BY <1>9, <1>10, <2>3
  <2> QED
    BY <2>1, <2>2, <2>3
<1> QED
  <2>1. live \cup Freed \cup UNION {ToSet(free[d]) : d \in Descs} = Out \cup lists
    BY <1>2, <1>11
  <2>2. (UNION {ToSet(free[d]) : d \in Descs}) \cap (live \cup Freed) = {}
    BY <1>2, <1>6, <1>11
  <2> QED
    BY <1>11, <1>12, <2>1, <2>2 DEF BlocksAccounted

-----------------------------------------------------------------------------

(* While get_kernel_pages is called by main alone, during init_all, no two *)
(* pages of the kernel are the same frame, and a frame is taken when a     *)
(* page is mapped to it (malloc_page, mfree_page).                         *)
THEOREM PagesHaveFramesOfTheirOwn == ASSUME PageCallers = {} PROVE Spec => []FramesExclusive
<1>1. Init => IInv
  BY InvStarts
<1>2. IInv /\ [Next]_vars => IInv'
  BY InvKept
<1>3. IInv => FramesExclusive
  BY DEF IInv, Memory
<1> QED
  BY <1>1, <1>2, <1>3, PTL DEF Spec

(* Under that hypothesis arenas never overlap, they lie on mapped pages,   *)
(* and a page that is taken is an arena's, a caller's or on its way to     *)
(* one (sys_malloc, sys_free).                                             *)
THEOREM NoPageIsLost == ASSUME PageCallers = {} PROVE Spec => []NoPageLost
<1>1. Init => IInv
  BY InvStarts
<1>2. IInv /\ [Next]_vars => IInv'
  BY InvKept
<1>3. IInv => NoPageLost
  BY PagesAreOwned
<1> QED
  BY <1>1, <1>2, <1>3, PTL DEF Spec

(* Under that hypothesis every block of a small arena is free, in use or   *)
(* on its way back, one of the three, the free lists hold nothing else,    *)
(* and arena->cnt is the number of the free ones, whatever the descs.      *)
THEOREM EveryBlockIsAccounted == ASSUME PageCallers = {} PROVE Spec => []BlocksAccounted
<1>1. Init => IInv
  BY InvStarts
<1>2. IInv /\ [Next]_vars => IInv'
  BY InvKept
<1>3. IInv => BlocksAccounted
  BY BlocksAreCounted
<1> QED
  BY <1>1, <1>2, <1>3, PTL DEF Spec

(* Under that hypothesis the ASSERTs of malloc_page, page_table_add,       *)
(* sys_malloc and sys_free fail on a request only that is too large: of    *)
(* PageLimit pages or more, or of more than there is a hole for.           *)
THEOREM OnlyTooLargeRequestsPanic == ASSUME PageCallers = {} PROVE Spec => []OnlyTooLargePanics
<1>1. Init => IInv
  BY InvStarts
<1>2. IInv /\ [Next]_vars => IInv'
  BY InvKept
<1>3. IInv => OnlyTooLargePanics
  BY DEF IInv
<1> QED
  BY <1>1, <1>2, <1>3, PTL DEF Spec
=============================================================================
