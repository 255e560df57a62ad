-------------------------- MODULE FileLayoutProofs --------------------------
(***************************************************************************)
(* The first half of the proof that FileBody keeps its files: arithmetic   *)
(* on sectors, what an item reads, the inductive invariant IInv, and the   *)
(* steps that begin a call, free extents, allocate them and rewrite the    *)
(* inode.  FileBodyProofs has the other steps and the theorems.            *)
(***************************************************************************)
EXTENDS FileBody, TLAPS

----------------------------------------------------------------------------
(* Sectors. *)

\* A border between sectors, and a set of units that is made of sectors.
Aligned(a) == \E k \in 1 .. Sectors + 1 : a = SectorSize * k
Whole(X) == \A u \in X : \A v \in Units : v \div SectorSize = u \div SectorSize => v \in X

\* A sequence is a function on the numbers up to its length.
LEMMA SeqShape ==
  ASSUME NEW A, NEW s \in Seq(A)
  PROVE  /\ Len(s) \in Nat /\ s \in [1 .. Len(s) -> A] /\ DOMAIN s = 1 .. Len(s)
         /\ \A k \in 1 .. Len(s) : s[k] \in A
  OBVIOUS

\* The beginning of a sequence.
LEMMA SeqPrefix ==
  ASSUME NEW A, NEW s \in Seq(A), NEW l \in 0 .. Len(s)
  PROVE  /\ SubSeq(s, 1, l) \in Seq(A) /\ Len(SubSeq(s, 1, l)) = l
         /\ \A j \in 1 .. l : SubSeq(s, 1, l)[j] = s[j]
  OBVIOUS

\* One product is larger than the next by a sector at least.
LEMMA StepOfProduct ==
  ASSUME NEW L \in Nat \ {0}, NEW p \in Nat, NEW q \in Nat, p < q
  PROVE  L * p + L <= L * q
<1>1. PICK d \in Nat : q = p + 1 + d
  <2>1. q - (p + 1) \in Nat /\ q = p + 1 + (q - (p + 1))
    OBVIOUS
  <2> QED
    BY <2>1
<1>2. L * q = L * p + L + L * d /\ L * d \in Nat
  BY <1>1
<1> QED
  BY <1>2

\* The sector of a unit lies between the borders around the unit.
LEMMA SectorBetween ==
  ASSUME NEW L \in Nat \ {0}, NEW k \in Nat, NEW m \in Nat, NEW u \in Nat
  PROVE  /\ L * k <= u <=> k <= u \div L
         /\ u < L * m <=> u \div L < m
<1> DEFINE q == u \div L
           r == u % L
<1>1. q \in Nat /\ r \in 0 .. L - 1 /\ u = L * q + r
  OBVIOUS
<1> HIDE DEF q, r
<1>2. L * q \in Nat /\ L * k \in Nat /\ L * m \in Nat
  BY <1>1
<1>3. ASSUME NEW j \in Nat PROVE L * j <= u <=> j <= q
  <2>1. L * j \in Nat
    OBVIOUS
  <2>2. CASE j <= q
    <3>1. CASE j = q
      BY <1>1, <1>2, <3>1
    <3>2. CASE j < q
      <4>1. L * j + L <= L * q
        BY <1>1, <3>2, StepOfProduct
      <4> QED
        BY <1>1, <1>2, <2>1, <2>2, <4>1
    <3> QED
      BY <1>1, <2>2, <3>1, <3>2
  <2>3. CASE q < j
    <3>1. L * q + L <= L * j
      BY <1>1, <2>3, StepOfProduct
    <3>2. ~(L * j <= u) /\ ~(j <= q)
      BY <1>1, <1>2, <2>1, <2>3, <3>1
    <3> QED
      BY <3>2
  <2> QED
    BY <1>1, <2>2, <2>3
<1>4. L * k <= u <=> k <= q
  BY <1>3
<1>5. L * m <= u <=> m <= q
  BY <1>3
<1>6. u < L * m <=> q < m
  BY <1>1, <1>2, <1>5
<1> QED
  BY <1>4, <1>6 DEF q

\* The units, and their sectors.
LEMMA UnitFacts ==
  /\ SectorSize \in Nat \ {0} /\ Sectors \in Nat
  /\ \A k \in Nat : SectorSize * k \in Nat
  /\ SectorSize * (Sectors + 1) \in Nat
  /\ \A u : u \in Units <=> u \in Nat /\ SectorSize <= u /\ u < SectorSize * (Sectors + 1)
<1>1. SectorSize \in Nat \ {0} /\ Sectors \in Nat
  BY FileBodyAssumption
<1>2. \A k \in Nat : SectorSize * k \in Nat
  BY <1>1
<1>3. SectorSize * (Sectors + 1) \in Nat
  BY <1>1, <1>2
<1> DEFINE N == SectorSize * (Sectors + 1)
<1>4. Units = SectorSize .. N - 1
  BY DEF Units
<1> HIDE DEF N
<1>5. N \in Nat
  BY <1>3 DEF N
<1>6. \A u : u \in Units <=> u \in Nat /\ SectorSize <= u /\ u < N
  BY <1>1, <1>4, <1>5
<1> QED
  BY <1>1, <1>2, <1>3, <1>6 DEF N

\* A range between borders is made of sectors.
LEMMA RangeWhole ==
  ASSUME NEW s, NEW t, Aligned(s), Aligned(t)
  PROVE  s \in Nat /\ t \in Nat /\ s .. t - 1 \subseteq Units /\ Whole(s .. t - 1)
<1> DEFINE L == SectorSize
           N == SectorSize * (Sectors + 1)
<1>1. PICK k \in 1 .. Sectors + 1 : s = L * k
  BY DEF Aligned
<1>2. PICK m \in 1 .. Sectors + 1 : t = L * m
  BY DEF Aligned
<1>3. L \in Nat \ {0} /\ Sectors \in Nat /\ k \in Nat /\ m \in Nat /\ k >= 1 /\ m <= Sectors + 1
  BY UnitFacts
<1>4. s \in Nat /\ t \in Nat /\ N \in Nat
  BY <1>1, <1>2, <1>3, UnitFacts
<1>5. L <= s /\ t <= N
  <2>1. k = 1 \/ 1 < k
    BY <1>3
  <2>2. 1 < k => L * 1 + L <= L * k
    BY <1>3, StepOfProduct
  <2>3. L * 1 = L
    BY <1>3
  <2>4. L <= s
    <3> HIDE DEF L
    <3> QED
      BY <1>1, <1>3, <1>4, <2>1, <2>2, <2>3
  <2>5. m = Sectors + 1 \/ m < Sectors + 1
    BY <1>3
  <2>6. m < Sectors + 1 => L * m + L <= L * (Sectors + 1)
    BY <1>3, StepOfProduct
  <2>7. t <= N
    BY <1>2, <1>3, <1>4, <2>5, <2>6
  <2> QED
    BY <2>4, <2>7
<1>6. \A u : u \in Units <=> u \in Nat /\ L <= u /\ u < N
  BY UnitFacts
<1>7. s .. t - 1 \subseteq Units
  <2> HIDE DEF L, N
  <2> QED
    BY <1>3, <1>4, <1>5, <1>6
<1>8. ASSUME NEW u \in s .. t - 1, NEW v \in Units, v \div L = u \div L PROVE v \in s .. t - 1
  <2>1. u \in Nat /\ v \in Nat /\ s <= u /\ u < t
    BY <1>4, <1>6
  <2>2. k <= u \div L /\ u \div L < m
    BY <1>1, <1>2, <1>3, <2>1, SectorBetween, Zenon
  <2>3. k <= v \div L /\ v \div L < m
    BY <1>8, <2>2
  <2>4. s <= v /\ v < t
    BY <1>1, <1>2, <1>3, <2>1, <2>3, SectorBetween
  <2> QED
    BY <1>4, <2>1, <2>4
<1> QED
  BY <1>4, <1>7, <1>8 DEF Whole

\* Rounding.
LEMMA Rounding ==
  ASSUME NEW n \in Nat
  PROVE  /\ \E m \in Nat : RoundUp(n) = SectorSize * m
         /\ RoundUp(n) \in Nat /\ n <= RoundUp(n) /\ RoundUp(n) < n + SectorSize
         /\ \E m \in Nat : RoundDown(n) = SectorSize * m
         /\ RoundDown(n) \in Nat /\ RoundDown(n) <= n
         /\ SectorSize <= n => SectorSize <= RoundDown(n)
<1> DEFINE L == SectorSize
           x == n + L - 1
           q == x \div L
           r == x % L
           p == n \div L
           o == n % L
<1>1. L \in Nat \ {0}
  BY UnitFacts
<1>2. x \in Nat
  BY <1>1
<1>3. q \in Nat /\ r \in 0 .. L - 1 /\ x = L * q + r
  <2> HIDE DEF x, L
  <2> QED
    BY <1>1, <1>2
<1>4. p \in Nat /\ o \in 0 .. L - 1 /\ n = L * p + o
  <2> HIDE DEF L
  <2> QED
    BY <1>1
<1>5. RoundUp(n) = q * L /\ RoundDown(n) = p * L
  BY DEF RoundUp, RoundDown
<1>6. x = n + L - 1
  OBVIOUS
<1>7. L * 1 <= n => 1 <= p
  BY <1>1, SectorBetween
<1>8. L * 1 = L
  BY <1>1
<1> HIDE DEF L, x, q, r, p, o
<1>9. q * L = L * q /\ p * L = L * p /\ L * q \in Nat /\ L * p \in Nat
  BY <1>1, <1>3, <1>4
<1>10. n <= L * q /\ L * q < n + L
  BY <1>1, <1>3, <1>6, <1>9
<1>11. L * p <= n
  BY <1>4, <1>9
<1>12. L <= n => L <= L * p
  <2> SUFFICES ASSUME L <= n PROVE L <= L * p
    OBVIOUS
  <2>1. p = 1 \/ 1 < p
    BY <1>4, <1>7, <1>8
  <2>2. 1 < p => L * 1 + L <= L * p
    BY <1>1, <1>4, StepOfProduct
  <2> QED
    BY <1>1, <1>8, <1>9, <2>1, <2>2
<1> QED
  BY <1>3, <1>4, <1>5, <1>9, <1>10, <1>11, <1>12 DEF L

\* A run of whole sectors starts and ends at borders.
LEMMA BorderAligned ==
  ASSUME NEW X \in SUBSET Units, Whole(X), NEW a \in Nat \ {0}, (a \in X) # (a - 1 \in X)
  PROVE  Aligned(a)
<1> DEFINE L == SectorSize
           q == a \div L
           p == (a - 1) \div L
<1>1. L \in Nat \ {0} /\ Sectors \in Nat /\ Sectors + 1 \in Nat /\ a - 1 \in Nat
  BY UnitFacts
<1>2. ASSUME NEW u \in Nat PROVE u \in Units <=> 1 <= u \div L /\ u \div L < Sectors + 1
  <2>1. L * 1 = L
    BY <1>1
  <2>2. u \in Units <=> L * 1 <= u /\ u < L * (Sectors + 1)
    BY <2>1, UnitFacts
  <2>3. L * 1 <= u <=> 1 <= u \div L
    BY <1>1, SectorBetween
  <2>4. u < L * (Sectors + 1) <=> u \div L < Sectors + 1
    BY <1>1, SectorBetween, Zenon
  <2> QED
    BY <2>2, <2>3, <2>4
<1>3. q \in Nat /\ p \in Nat /\ q + 1 \in Nat /\ p + 1 \in Nat
  BY <1>1
<1>4. a \in Units <=> 1 <= q /\ q < Sectors + 1
  BY <1>2
<1>5. a - 1 \in Units <=> 1 <= p /\ p < Sectors + 1
  BY <1>1, <1>2
<1>6. a \in X <=> a - 1 \notin X
  OBVIOUS
<1>7. p = q /\ a \in Units /\ a - 1 \in Units => (a \in X <=> a - 1 \in X)
  BY DEF Whole
<1>8. L * q <= a /\ L * q \in Nat /\ L * (p + 1) \in Nat
  <2>1. L * q \in Nat /\ L * (p + 1) \in Nat
    BY <1>3, UnitFacts
  <2>2. L * q <= a <=> q <= a \div L
    BY <1>1, <1>3, SectorBetween
  <2>3. q <= q
    BY <1>3
  <2> QED
    BY <2>1, <2>2, <2>3
<1>9. ASSUME NEW j \in Nat PROVE L * j <= a - 1 <=> j <= p
  BY <1>1, SectorBetween
<1>10. a - 1 < L * (p + 1)
  <2>1. a - 1 < L * (p + 1) <=> (a - 1) \div L < p + 1
    BY <1>1, <1>3, SectorBetween
  <2>2. p < p + 1
    BY <1>3
  <2> QED
    BY <2>1, <2>2
<1>11. p <= q
  <2>1. L * p <= a <=> p <= a \div L
    BY <1>1, <1>3, SectorBetween
  <2>2. L * p <= a - 1 /\ L * p \in Nat
    BY <1>3, <1>9, UnitFacts
  <2>3. L * p <= a
    <3> HIDE DEF L, p
    <3> QED
      BY <2>2
  <2> QED
    BY <2>1, <2>3
<1>12. q <= p + 1
  <2> SUFFICES ASSUME p + 1 < q PROVE FALSE
    BY <1>3
  <2>1. L * (p + 1) + L <= L * q
    <3> HIDE DEF L, p, q
    <3> QED
      BY <1>1, <1>3, StepOfProduct
  <2> HIDE DEF L, p, q
  <2> QED
    BY <1>1, <1>8, <1>10, <2>1
<1>13. ~(q <= p) => a = L * q
  <2>1. ~(q <= p) => ~(L * q <= a - 1)
    BY <1>3, <1>9
  <2> HIDE DEF L, p, q
  <2> QED
    BY <1>8, <2>1
<1> HIDE DEF p, q
<1>14. q \in 1 .. Sectors + 1 /\ a = L * q
  BY <1>1, <1>3, <1>4, <1>5, <1>6, <1>7, <1>11, <1>12, <1>13
<1> QED
  BY <1>14 DEF Aligned

\* What is taken at an entry: n units from a border, to a border, all of them free.
Takes(s, n) ==
  /\ n \in Nat \ {0} /\ Aligned(s) /\ Aligned(s + n)
  /\ s .. s + n - 1 \subseteq free

\* An entry of the free list, or its first sectors.
LEMMA EntryTakes ==
  ASSUME free \subseteq Units, Whole(free), NEW f \in freeExts,
         NEW n \in Nat \ {0}, NEW m \in Nat, n <= f.size, n = SectorSize * m \/ n = f.size
  PROVE  Takes(f.physStart, n)
<1> DEFINE L == SectorSize
           s == f.physStart
           R == f.size
<1>1. /\ s \in Units /\ R \in 1 .. L * Sectors /\ s .. s + R - 1 \subseteq free
      /\ s - 1 \notin free /\ s + R \notin free
  BY DEF freeExts
<1>2. L \in Nat \ {0} /\ Sectors \in Nat /\ L * Sectors \in Nat /\ s \in Nat \ {0}
  BY <1>1, UnitFacts
<1> HIDE DEF s, R
<1>3. R \in Nat \ {0} /\ n <= R /\ (n = L * m \/ n = R)
  BY <1>1, <1>2 DEF R
<1>4. s \in s .. s + R - 1 /\ s + R - 1 \in s .. s + R - 1 /\ s + R \in Nat \ {0}
  BY <1>2, <1>3
<1>5. Aligned(s) /\ Aligned(s + R)
  <2>1. s \in free /\ s + R - 1 \in free
    BY <1>1, <1>4
  <2> QED
    BY <1>1, <1>2, <1>4, <2>1, BorderAligned
<1>6. PICK k \in 1 .. Sectors + 1 : s = L * k
  BY <1>5 DEF Aligned
<1>7. PICK j \in 1 .. Sectors + 1 : s + R = L * j
  BY <1>5 DEF Aligned
<1>8. k \in Nat /\ j \in Nat /\ k >= 1 /\ j <= Sectors + 1 /\ L * j \in Nat
  BY <1>2, UnitFacts
<1>9. ASSUME n = L * m PROVE Aligned(s + n)
  <2> HIDE DEF L
  <2>1. s + n = L * (k + m) /\ k + m \in Nat
    BY <1>2, <1>6, <1>8, <1>9
  <2>2. k + m <= j
    <3> SUFFICES ASSUME j < k + m PROVE FALSE
      BY <1>8, <2>1
    <3>1. L * j + L <= L * (k + m)
      BY <1>2, <1>8, <2>1, StepOfProduct
    <3> QED
      BY <1>2, <1>3, <1>7, <1>8, <2>1, <3>1
  <2>3. k + m \in 1 .. Sectors + 1
    BY <1>2, <1>8, <2>1, <2>2
  <2> QED
    BY <2>1, <2>3 DEF Aligned, L
<1>10. s .. s + n - 1 \subseteq s .. s + R - 1
  BY <1>2, <1>3
<1> QED
  BY <1>1, <1>3, <1>5, <1>9, <1>10 DEF Takes, s

\* allocDataBytes takes a part of the first entry that is large enough.
LEMMA FirstFitTakes ==
  ASSUME free \subseteq Units, Whole(free), NEW d \in Nat \ {0}, NEW f \in FirstFit(RoundUp(d))
  PROVE  Takes(f.physStart, RoundUp(d)) /\ d <= RoundUp(d)
<1>1. RoundUp(d) \in Nat /\ d <= RoundUp(d) /\ \E m \in Nat : RoundUp(d) = SectorSize * m
  BY Rounding
<1>2. f \in freeExts /\ RoundUp(d) <= f.size
  BY <1>1 DEF FirstFit, Fits, freeExts
<1>3. RoundUp(d) \in Nat \ {0}
  BY <1>1
<1> QED
  BY <1>1, <1>2, <1>3, EntryTakes

\* allocDataBytesUpTo takes a part of a largest entry.
LEMMA LargestTakes ==
  ASSUME free \subseteq Units, Whole(free), NEW rem \in Nat \ {0}, NEW f \in Largest
  PROVE  Takes(f.physStart, UpToSize(f.size, rem))
<1> DEFINE L == SectorSize
           R == f.size
           max == IF rem < L THEN L ELSE rem
           n == UpToSize(R, rem)
<1>1. f \in freeExts /\ L <= R
  BY UnitFacts DEF Largest, Fits, freeExts
<1>2. L \in Nat \ {0} /\ R \in Nat \ {0}
  BY <1>1, UnitFacts DEF freeExts
<1>3. max \in Nat /\ L <= max
  BY <1>2
<1>4. n = IF R > max THEN RoundDown(max) ELSE R
  BY DEF UpToSize
<1> HIDE DEF n, max, R
<1>5. /\ RoundDown(max) \in Nat /\ RoundDown(max) <= max /\ L <= RoundDown(max)
      /\ \E m \in Nat : RoundDown(max) = L * m
  BY <1>3, Rounding
<1>6. PICK m \in Nat : RoundDown(max) = L * m
  BY <1>5
<1> HIDE DEF L
<1>7. n \in Nat \ {0} /\ n <= R /\ (n = L * m \/ n = R)
  BY <1>2, <1>3, <1>4, <1>5, <1>6
<1>8. Takes(f.physStart, n)
  BY <1>1, <1>7, EntryTakes DEF L, R
<1> QED
  BY <1>8 DEF n, R

----------------------------------------------------------------------------
(* Items, and what they read. *)

\* An item as the file code makes it.
ItemOK(e) ==
  /\ e \in Items
  /\ e.type = "inline" => e.start = 0 /\ e.off = 0 /\ Len(e.data) = e.num
  /\ e.start # 0 => /\ Aligned(e.start) /\ Aligned(e.start + e.dlen) /\ e.dlen # 0
                    /\ e.num <= e.dlen

\* No position is covered twice.
Sorted(S) == \A e, f \in S : e = f \/ e.off + e.num <= f.off \/ f.off + f.num <= e.off
Laid(S) == (\A e \in S : ItemOK(e)) /\ Sorted(S)

\* What the items read as the body of a file of n units.
Content(S, n, d) == [k \in 1 .. n |-> UnitAt(S, k - 1, d)]

\* The numbers of an item, and its extent.
LEMMA ItemFacts ==
  ASSUME NEW e, ItemOK(e)
  PROVE  /\ e.off \in Nat /\ e.num \in Nat /\ e.start \in Nat /\ e.dlen \in Nat
         /\ e.start # 0 =>
              /\ Extent(e) # {} /\ Extent(e) \subseteq Units /\ Whole(Extent(e))
              /\ e.start .. e.start + e.num - 1 \subseteq Extent(e)
              /\ \E s, t \in {SectorSize * k : k \in 1 .. Sectors + 1} : Extent(e) = s .. t - 1
<1>1. e.off \in Nat /\ e.num \in Nat /\ e.start \in Nat /\ e.dlen \in Nat
  BY DEF ItemOK, Items
<1>2. ASSUME e.start # 0
      PROVE  /\ Extent(e) # {} /\ Extent(e) \subseteq Units /\ Whole(Extent(e))
             /\ e.start .. e.start + e.num - 1 \subseteq Extent(e)
             /\ \E s, t \in {SectorSize * k : k \in 1 .. Sectors + 1} : Extent(e) = s .. t - 1
  <2> DEFINE s == e.start
             n == e.dlen
             m == e.num
  <2>1. Aligned(s) /\ Aligned(s + n) /\ n # 0 /\ m <= n
    BY <1>2 DEF ItemOK
  <2>2. Extent(e) = s .. s + n - 1
    BY DEF Extent
  <2>3. s \in Nat /\ n \in Nat /\ m \in Nat
    BY <1>1
  <2> HIDE DEF s, n, m
  <2>4. Extent(e) = s .. (s + n) - 1
    BY <2>2, <2>3
  <2>5. Extent(e) \subseteq Units /\ Whole(Extent(e))
    BY <2>1, <2>4, RangeWhole
  <2>6. s \in Extent(e) /\ s .. s + m - 1 \subseteq Extent(e)
    BY <2>1, <2>2, <2>3
  <2>7. \E a, t \in {SectorSize * k : k \in 1 .. Sectors + 1} : Extent(e) = a .. t - 1
    BY <2>1, <2>4 DEF Aligned
  <2> QED
    BY <2>5, <2>6, <2>7 DEF s, m
<1> QED
  BY <1>1, <1>2

\* A position is read from the item that covers it.
ItemAt(e, p, d) ==
  IF e.type = "inline" THEN e.data[p - e.off + 1]
  ELSE IF e.start = 0 THEN Zero ELSE d[e.start + (p - e.off)]

\* A position that an item covers is read from that item alone.
LEMMA UnitCovered ==
  ASSUME NEW S, Laid(S), NEW e \in S, NEW p \in Nat, Covers(e, p), NEW d
  PROVE  UnitAt(S, p, d) = ItemAt(e, p, d)
<1>1. \A x \in S : Covers(x, p) => x = e
  <2> SUFFICES ASSUME NEW x \in S, Covers(x, p) PROVE x = e
    OBVIOUS
  <2>1. x.off \in Nat /\ x.num \in Nat /\ e.off \in Nat /\ e.num \in Nat
    BY ItemFacts DEF Laid
  <2>2. x.off <= p /\ p < x.off + x.num /\ e.off <= p /\ p < e.off + e.num
    BY DEF Covers
  <2>3. x = e \/ x.off + x.num <= e.off \/ e.off + e.num <= x.off
    BY DEF Laid, Sorted
  <2> QED
    BY <2>1, <2>2, <2>3
<1>2. (CHOOSE x \in S : Covers(x, p)) = e
  BY <1>1
<1>3. UnitAt(S, p, d) = ItemAt(CHOOSE x \in S : Covers(x, p), p, d)
  BY Zenon DEF UnitAt, ItemAt
<1> QED
  BY <1>2, <1>3, Zenon

\* A position that no item covers reads as zero (a hole).
LEMMA UnitUncovered ==
  ASSUME NEW S, NEW p, ~\E e \in S : Covers(e, p), NEW d
  PROVE  UnitAt(S, p, d) = Zero
  BY Zenon DEF UnitAt

\* Where a position is read on the disk.
LEMMA PositionInExtent ==
  ASSUME NEW e, ItemOK(e), NEW p \in Nat, Covers(e, p), e.start # 0
  PROVE  /\ e.start + (p - e.off) \in e.start .. e.start + e.num - 1
         /\ e.start + (p - e.off) \in Extent(e)
<1>1. /\ e.off \in Nat /\ e.num \in Nat /\ e.start \in Nat
      /\ e.start .. e.start + e.num - 1 \subseteq Extent(e)
  BY ItemFacts
<1>2. e.off <= p /\ p < e.off + e.num
  BY DEF Covers
<1>3. e.start + (p - e.off) \in e.start .. e.start + e.num - 1
  BY <1>1, <1>2
<1> QED
  BY <1>1, <1>3

\* What is read depends on the extents only.
LEMMA UnitStays ==
  ASSUME NEW S, Laid(S), NEW c, NEW d,
         \A e \in OnDisk(S) : \A u \in Extent(e) : c[u] = d[u]
  PROVE  \A p \in Nat : UnitAt(S, p, c) = UnitAt(S, p, d)
<1> SUFFICES ASSUME NEW p \in Nat PROVE UnitAt(S, p, c) = UnitAt(S, p, d)
  OBVIOUS
<1>1. CASE \E e \in S : Covers(e, p)
  <2>1. PICK e \in S : Covers(e, p)
    BY <1>1
  <2>2. UnitAt(S, p, c) = ItemAt(e, p, c) /\ UnitAt(S, p, d) = ItemAt(e, p, d)
    BY <2>1, UnitCovered
  <2>3. ItemAt(e, p, c) = ItemAt(e, p, d)
    <3>1. CASE e.type = "inline" \/ e.start = 0
      BY <3>1, Zenon DEF ItemAt
    <3>2. CASE e.type # "inline" /\ e.start # 0
      <4>1. e \in OnDisk(S)
        BY <3>2 DEF OnDisk
      <4>2. e.start + (p - e.off) \in Extent(e)
        BY <2>1, <3>2, PositionInExtent DEF Laid
      <4>3. c[e.start + (p - e.off)] = d[e.start + (p - e.off)]
        BY <4>1, <4>2
      <4> QED
        BY <3>2, <4>3, Zenon DEF ItemAt
    <3> QED
      BY <3>1, <3>2
  <2> QED
    BY <2>2, <2>3
<1>2. CASE ~\E e \in S : Covers(e, p)
  BY <1>2, UnitUncovered
<1> QED
  BY <1>1, <1>2

\* What items read depends only on the units of their own extents.
LEMMA ContentStays ==
  ASSUME NEW S, Laid(S), NEW c, NEW d, NEW n \in Nat,
         \A e \in OnDisk(S) : \A u \in Extent(e) : c[u] = d[u]
  PROVE  Content(S, n, c) = Content(S, n, d)
<1>1. \A k \in 1 .. n : UnitAt(S, k - 1, c) = UnitAt(S, k - 1, d)
  <2>1. \A k \in 1 .. n : k - 1 \in Nat
    OBVIOUS
  <2> QED
    BY <2>1, UnitStays
<1> QED
  BY <1>1, Zenon DEF Content

\* All items end by n.
EndBy(S, n) == \A e \in S : e.off + e.num <= n

\* An item behind the others changes nothing before it.
LEMMA ItemAdded ==
  ASSUME NEW S, Laid(S), NEW g, ItemOK(g), EndBy(S, g.off)
  PROVE  /\ Laid(S \cup {g}) /\ EndBy(S \cup {g}, g.off + g.num)
         /\ \A d : \A p \in Nat : p < g.off => UnitAt(S \cup {g}, p, d) = UnitAt(S, p, d)
         /\ \A d : \A p \in Nat : Covers(g, p) => UnitAt(S \cup {g}, p, d) = ItemAt(g, p, d)
<1> DEFINE T == S \cup {g}
<1>1. g.off \in Nat /\ g.num \in Nat
  BY ItemFacts
<1>2. \A e \in S : e.off \in Nat /\ e.num \in Nat /\ e.off + e.num <= g.off
  BY ItemFacts DEF Laid, EndBy
<1>3. Laid(T)
  <2>1. \A e \in T : ItemOK(e)
    BY DEF Laid
  <2>2. Sorted(T)
    BY <1>2 DEF Laid, Sorted
  <2> QED
    BY <2>1, <2>2 DEF Laid
<1>4. EndBy(T, g.off + g.num)
  BY <1>1, <1>2 DEF EndBy
<1>5. ASSUME NEW d, NEW p \in Nat, p < g.off PROVE UnitAt(T, p, d) = UnitAt(S, p, d)
  <2>1. ~Covers(g, p)
    BY <1>1, <1>5 DEF Covers
  <2>2. CASE \E e \in S : Covers(e, p)
    <3>1. PICK e \in S : Covers(e, p)
      BY <2>2
    <3>2. UnitAt(S, p, d) = ItemAt(e, p, d)
      BY <3>1, UnitCovered
    <3>3. UnitAt(T, p, d) = ItemAt(e, p, d)
      BY <1>3, <3>1, UnitCovered
    <3> QED
      BY <3>2, <3>3
  <2>3. CASE ~\E e \in S : Covers(e, p)
    <3>1. ~\E e \in T : Covers(e, p)
      BY <2>1, <2>3
    <3> QED
      BY <2>3, <3>1, UnitUncovered
  <2> QED
    BY <2>2, <2>3
<1>6. ASSUME NEW d, NEW p \in Nat, Covers(g, p) PROVE UnitAt(T, p, d) = ItemAt(g, p, d)
  BY <1>3, <1>6, UnitCovered
<1> QED
  BY <1>3, <1>4, <1>5, <1>6

\* An item that is cut at n, or that begins behind it.
Cut(e, n) == [e EXCEPT !.num = n - e.off,
                       !.data = SubSeq(@, 1, IF e.type = "inline" THEN n - e.off ELSE 0)]

\* Before an item that is added a file reads as it did.
LEMMA AddedBefore ==
  ASSUME NEW S, Laid(S), NEW g, ItemOK(g), EndBy(S, g.off), NEW d, NEW p \in Nat, p < g.off
  PROVE  UnitAt(S \cup {g}, p, d) = UnitAt(S, p, d)
  BY ItemAdded

\* Where an item that is added covers the file, the file reads what the item stands for.
LEMMA AddedIn ==
  ASSUME NEW S, Laid(S), NEW g, ItemOK(g), EndBy(S, g.off), NEW d, NEW p \in Nat, Covers(g, p)
  PROVE  UnitAt(S \cup {g}, p, d) = ItemAt(g, p, d)
  BY ItemAdded

\* An item cut at n still has its extent, and reads the same before n.
LEMMA CutItem ==
  ASSUME NEW e, ItemOK(e), NEW n \in Nat, e.off < n, n < e.off + e.num
  PROVE  /\ ItemOK(Cut(e, n)) /\ Cut(e, n).off = e.off /\ Cut(e, n).num = n - e.off
         /\ Cut(e, n).start = e.start /\ Cut(e, n).dlen = e.dlen
         /\ Extent(Cut(e, n)) = Extent(e)
         /\ \A d : \A p \in Nat : Covers(e, p) /\ p < n => ItemAt(Cut(e, n), p, d) = ItemAt(e, p, d)
<1> DEFINE m == n - e.off
           l == IF e.type = "inline" THEN m ELSE 0
           q == SubSeq(e.data, 1, l)
           f == Cut(e, n)
<1>1. e \in Items /\ e.off \in Nat /\ e.num \in Nat /\ e.start \in Nat /\ e.dlen \in Nat
  BY ItemFacts DEF ItemOK
<1>2. e.data \in Seq(Nat \X Nat \X Nat) /\ e.type \in {"inline", "regular"}
  BY <1>1 DEF Items
<1>3. m \in Nat /\ m <= e.num
  BY <1>1
<1>4. l \in 0 .. Len(e.data)
  <2>1. Len(e.data) \in Nat
    BY <1>2, SeqShape
  <2>2. e.type = "inline" => Len(e.data) = e.num
    BY DEF ItemOK
  <2> HIDE DEF m
  <2> QED
    BY <1>3, <2>1, <2>2
<1>5. /\ q \in Seq(Nat \X Nat \X Nat) /\ Len(q) = l
      /\ \A j \in 1 .. l : q[j] = e.data[j]
  <2> HIDE DEF l
  <2> QED
    BY <1>2, <1>4, SeqPrefix
<1>6. f = [e EXCEPT !.num = m, !.data = q]
  BY DEF Cut
<1> HIDE DEF f, q
<1>7. /\ f \in Items /\ f.off = e.off /\ f.type = e.type /\ f.num = m /\ f.start = e.start
      /\ f.dlen = e.dlen /\ f.data = q
  BY <1>1, <1>3, <1>5, <1>6, Zenon DEF Items
<1> HIDE DEF m
<1>8. ItemOK(f)
  <2>1. f.type = "inline" => f.start = 0 /\ f.off = 0 /\ Len(f.data) = f.num
    BY <1>5, <1>7 DEF ItemOK
  <2>2. f.start # 0 => /\ Aligned(f.start) /\ Aligned(f.start + f.dlen) /\ f.dlen # 0
                       /\ f.num <= f.dlen
    <3> SUFFICES ASSUME f.start # 0
                 PROVE  /\ Aligned(f.start) /\ Aligned(f.start + f.dlen) /\ f.dlen # 0
                        /\ f.num <= f.dlen
      OBVIOUS
    <3>1. Aligned(e.start) /\ Aligned(e.start + e.dlen) /\ e.dlen # 0 /\ e.num <= e.dlen
      BY <1>7 DEF ItemOK
    <3>2. m <= e.dlen
      BY <1>1, <1>3, <3>1
    <3> QED
      BY <1>7, <3>1, <3>2
  <2> QED
    BY <1>7, <2>1, <2>2 DEF ItemOK
<1>9. Extent(f) = Extent(e)
  BY <1>7 DEF Extent
<1>10. ASSUME NEW d, NEW p \in Nat, Covers(e, p), p < n PROVE ItemAt(f, p, d) = ItemAt(e, p, d)
  <2>1. CASE e.type = "inline"
    <3>1. p - e.off + 1 \in 1 .. l
      BY <1>1, <1>10, <2>1 DEF Covers, m
    <3>2. q[p - e.off + 1] = e.data[p - e.off + 1]
      BY <1>5, <3>1, Zenon
    <3> QED
      BY <1>7, <2>1, <3>2 DEF ItemAt
  <2>2. CASE e.type # "inline"
    BY <1>7, <2>2 DEF ItemAt
  <2> QED
    BY <2>1, <2>2
<1> QED
  BY <1>7, <1>8, <1>9, <1>10 DEF f, m

\* The items after one of them is dropped or cut.
CutAt(S, e, n) == (S \ {e}) \cup (IF e.off < n THEN {Cut(e, n)} ELSE {})

\* Cutting or dropping one item at n changes no position before n.
LEMMA ItemsCut ==
  ASSUME NEW S, Laid(S), NEW e \in S, NEW n \in Nat, n < e.off + e.num
  PROVE  /\ Laid(CutAt(S, e, n))
         /\ \A x \in CutAt(S, e, n) : x \in S \ {e} \/ x.off + x.num <= n
         /\ \A d : \A p \in Nat : p < n => UnitAt(CutAt(S, e, n), p, d) = UnitAt(S, p, d)
<1> DEFINE T == CutAt(S, e, n)
           f == Cut(e, n)
<1>1. \A x \in S : ItemOK(x) /\ x.off \in Nat /\ x.num \in Nat
  BY ItemFacts DEF Laid
<1>2. ASSUME e.off < n
      PROVE  /\ ItemOK(f) /\ f.off = e.off /\ f.num = n - e.off
             /\ \A d : \A p \in Nat : Covers(e, p) /\ p < n => ItemAt(f, p, d) = ItemAt(e, p, d)
  BY <1>1, <1>2, CutItem
<1>3. T = (S \ {e}) \cup (IF e.off < n THEN {f} ELSE {})
  BY DEF CutAt
<1> HIDE DEF f, T
<1>4. \A x \in T : x \in S \ {e} \/ (e.off < n /\ x = f)
  BY <1>3
<1>5. Laid(T)
  <2>1. \A x \in T : ItemOK(x)
    BY <1>1, <1>2, <1>4
  <2>2. ASSUME NEW x \in T, NEW y \in T, x # y
        PROVE  x.off + x.num <= y.off \/ y.off + y.num <= x.off
    <3>1. \A z \in S \ {e} : z.off + z.num <= e.off \/ e.off + e.num <= z.off
      BY DEF Laid, Sorted
    <3>2. CASE x \in S \ {e} /\ y \in S \ {e}
      BY <2>2, <3>2 DEF Laid, Sorted
    <3>3. ASSUME NEW z \in S \ {e}, e.off < n
          PROVE  z.off + z.num <= f.off \/ f.off + f.num <= z.off
      <4>1. f.off = e.off /\ f.off + f.num = n
        BY <1>1, <1>2, <3>3
      <4> QED
        BY <1>1, <3>1, <3>3, <4>1
    <3> QED
      BY <1>4, <2>2, <3>2, <3>3
  <2> QED
    BY <2>1, <2>2 DEF Laid, Sorted
<1>6. \A x \in T : x \in S \ {e} \/ x.off + x.num <= n
  BY <1>1, <1>2, <1>4
<1>7. ASSUME NEW d, NEW p \in Nat, p < n PROVE UnitAt(T, p, d) = UnitAt(S, p, d)
  <2>1. CASE Covers(e, p)
    <3>1. e.off < n
      BY <1>1, <1>7, <2>1 DEF Covers
    <3>2. f \in T /\ Covers(f, p)
      BY <1>1, <1>2, <1>3, <1>7, <2>1, <3>1 DEF Covers
    <3>3. UnitAt(T, p, d) = ItemAt(f, p, d) /\ UnitAt(S, p, d) = ItemAt(e, p, d)
      BY <1>5, <2>1, <3>2, UnitCovered
    <3> QED
      BY <1>2, <1>7, <2>1, <3>1, <3>3
  <2>2. CASE ~Covers(e, p)
    <3>1. e.off < n => ~Covers(f, p)
      BY <1>1, <1>2, <1>7, <2>2 DEF Covers
    <3>2. CASE \E x \in S : Covers(x, p)
      <4>1. PICK x \in S : Covers(x, p)
        BY <3>2
      <4>2. x \in T
        BY <1>3, <2>2, <4>1
      <4> QED
        BY <1>5, <4>1, <4>2, UnitCovered
    <3>3. CASE ~\E x \in S : Covers(x, p)
      <4>1. ~\E x \in T : Covers(x, p)
        BY <1>4, <3>1, <3>3
      <4> QED
        BY <3>3, <4>1, UnitUncovered
    <3> QED
      BY <3>2, <3>3
  <2> QED
    BY <2>1, <2>2
<1> QED
  BY <1>5, <1>6, <1>7 DEF T

----------------------------------------------------------------------------
(* The invariant. *)

Cells == Nat \X Nat \X Nat
Kinds == {"none", "create", "overwrite", "remove", "truncate"}
Stages == {"none", "begin", "extent", "store", "inode", "link", "unlink", "commit"}
FileType(N) == [there : BOOLEAN, named : BOOLEAN, size : Nat, nbytes : N, items : SUBSET Items]
OpType(W) == [kind : Kinds, ino : Nat, stage : Stages, data : Seq(Cells), size : Nat,
              want : W, at : Nat, todo : SUBSET Items, got : SUBSET Items]

TreesTyped == \E N : tree \in [Inodes -> FileType(N)] /\ image \in [Inodes -> FileType(N)]
OpTyped == \E W : op \in OpType(W)
SpaceTyped == free \subseteq Units /\ Whole(free)
DiskTyped == disk \in [Units -> Cells] /\ faults \in 0 .. MaxFaults
PromisesTyped == \E V : body \in [Inodes -> V] /\ saved \in [Inodes -> V]
Typed == TreesTyped /\ OpTyped /\ SpaceTyped /\ DiskTyped /\ PromisesTyped

\* The items of a tree: an inode that is not there has none, and no two extents
\* have a unit in common.
Arranged(t) ==
  /\ \A i \in Inodes : /\ Laid(t[i].items) /\ (t[i].named => t[i].there)
                       /\ (~t[i].there => t[i].items = {})
  /\ \A i, j \in Inodes : \A e \in OnDisk(t[i].items) : \A f \in OnDisk(t[j].items) :
       (i = j /\ e = f) \/ Extent(e) \cap Extent(f) = {}

\* The call has begun to free the extents of the inode: those in todo it still has.
Freeing(i) == op.stage = "begin" /\ op.kind \in {"overwrite", "remove"} /\ op.ino = i
HeldBy(i) == IF Freeing(i) THEN op.todo ELSE OnDisk(tree[i].items)

\* What is held or lost is not free, and what is lost or just taken is not held.
Spaced ==
  /\ \A i \in Inodes : \A e \in HeldBy(i) : Extent(e) \cap free = {}
  /\ \A x \in leaked : /\ x \in FS!Ranges /\ x \cap free = {}
                       /\ \A i \in Inodes : \A e \in OnDisk(tree[i].items) : Extent(e) \cap x = {}
  /\ \A g \in OnDisk(op.got) :
       /\ Extent(g) \cap free = {}
       /\ \A x \in leaked : Extent(g) \cap x = {}
       /\ \A i \in Inodes : \A e \in OnDisk(tree[i].items) : Extent(e) \cap Extent(g) = {}

\* The extents are still those of the inode, or lost.
Kept(S, i) ==
  \A e \in OnDisk(S) : Extent(e) \in leaked \/ \E f \in OnDisk(tree[i].items) : Extent(f) = Extent(e)

\* The bodies that were promised are what the items read.
Promised(B, t, i) ==
  B # {} => /\ \A b \in B : b = Content(t[i].items, t[i].size, disk)
            /\ EndBy(t[i].items, t[i].size)
BodyInv == \A i \in Inodes : Promised(body[i], tree, i)
SavedInv == \A i \in Inodes : Promised(saved[i], image, i) /\ (saved[i] # {} => Kept(image[i].items, i))
HandleInv ==
  handle.open =>
    /\ handle.ino \in Inodes /\ handle.size \in Nat /\ Laid(handle.items)
    /\ handle.body = Content(handle.items, handle.size, disk)
    /\ Kept(handle.items, handle.ino)

\* What a call may be doing, and what is not promised meanwhile.
OpInv ==
  \/ op = Idle
  \/ /\ op.ino \in Inodes /\ body[op.ino] = {}
     /\ op.kind # "truncate" => saved[op.ino] = {} /\ ~(handle.open /\ handle.ino = op.ino)
     /\ \/ op.kind = "create" /\ op.stage \in {"begin", "store", "link", "commit"}
        \/ op.kind = "overwrite" /\ op.stage \in {"begin", "extent", "store", "inode", "commit"}
        \/ op.kind = "remove" /\ op.stage \in {"begin", "unlink", "commit"}
        \/ op.kind = "truncate" /\ op.stage \in {"begin", "commit"}
     /\ op.kind # "remove" => tree[op.ino].there
     /\ op.kind \in {"create", "overwrite"} => op.want = {op.data}
     /\ op.kind = "create" => tree[op.ino].size = Len(op.data)
     /\ op.kind = "remove" => op.want = {}
     /\ op.stage # "store" => op.got = {}
     /\ op.stage = "unlink" => tree[op.ino].items = {}
     /\ Freeing(op.ino) => op.at = 0 /\ op.todo \subseteq OnDisk(tree[op.ino].items)

\* What writeExtents has stored so far is what it was given.
WrittenSoFar ==
  /\ op.at <= Len(op.data) /\ EndBy(tree[op.ino].items, op.at)
  /\ \A p \in Nat : p < op.at => UnitAt(tree[op.ino].items, p, disk) = op.data[p + 1]

\* The item that is stored next.
NextItem(g) ==
  /\ ItemOK(g) /\ g.off = op.at /\ g.off + g.num <= Len(op.data)
  /\ g.type = "inline" => g.data = op.data
  /\ g.type = "regular" /\ g.start = 0 => isAllZero(op.data)
  /\ ~Stored => g.num = Len(op.data)

WriteInv ==
  /\ Writing \/ (op.stage \in {"store", "link", "inode"}) => WrittenSoFar
  /\ Writing => op.at = 0 \/ (Stored /\ op.at < Len(op.data))
  /\ op.stage = "store" => \E g : op.got = {g} /\ NextItem(g)
  /\ op.stage \in {"link", "inode"} => op.at = Len(op.data)

\* A truncation has cut what is not in todo, and has not changed what stays.
CutInv ==
  At({"truncate"}, "begin") =>
    /\ op.todo \subseteq tree[op.ino].items
    /\ \A e \in op.todo : op.size < e.off + e.num
    /\ op.want # {} =>
         /\ \A w \in op.want : w = Content(tree[op.ino].items, op.size, disk)
         /\ EndBy(tree[op.ino].items \ op.todo, op.size)

\* At the commit the file is what was promised.
CommitInv == op.stage = "commit" => Promised(op.want, tree, op.ino)

Inv ==
  /\ Arranged(tree) /\ Arranged(image) /\ Spaced
  /\ BodyInv /\ SavedInv /\ HandleInv
  /\ OpInv /\ WriteInv /\ CutInv /\ CommitInv
IInv == Typed /\ Inv

\* The fields of the inodes and of the call.
LEMMA TreeFields ==
  ASSUME TreesTyped
  PROVE  \A i \in Inodes :
           /\ tree[i].items \in SUBSET Items /\ tree[i].size \in Nat
           /\ tree[i].there \in BOOLEAN /\ tree[i].named \in BOOLEAN
           /\ image[i].items \in SUBSET Items /\ image[i].size \in Nat
           /\ image[i].there \in BOOLEAN /\ image[i].named \in BOOLEAN
  BY DEF TreesTyped, FileType

\* The types of the fields of the call.
LEMMA OpFields ==
  ASSUME OpTyped
  PROVE  /\ op.kind \in Kinds /\ op.stage \in Stages /\ op.ino \in Nat /\ op.size \in Nat /\ op.at \in Nat
         /\ op.data \in Seq(Cells) /\ Len(op.data) \in Nat
         /\ op.todo \in SUBSET Items /\ op.got \in SUBSET Items
<1>1. op.data \in Seq(Cells)
  BY DEF OpTyped, OpType
<1>2. Len(op.data) \in Nat
  BY <1>1, SeqShape
<1> QED
  BY <1>1, <1>2 DEF OpTyped, OpType

\* An inode whose items, or whose other fields, are replaced.
LEMMA InodeReplaced ==
  ASSUME TreesTyped, NEW k \in Inodes, NEW r, NEW M, r \in FileType(M),
         tree' = [tree EXCEPT ![k] = r], image' = image
  PROVE  TreesTyped' /\ \A j \in Inodes : tree'[j] = IF j = k THEN r ELSE tree[j]
<1>1. PICK N : tree \in [Inodes -> FileType(N)] /\ image \in [Inodes -> FileType(N)]
  BY DEF TreesTyped
<1>2. FileType(N) \subseteq FileType(N \cup M) /\ r \in FileType(N \cup M)
  BY DEF FileType
<1>3. tree' \in [Inodes -> FileType(N \cup M)] /\ image' \in [Inodes -> FileType(N \cup M)]
  BY <1>1, <1>2, SMTT(30)
<1> QED
  BY <1>1, <1>3, Zenon DEF TreesTyped

\* A step that gives one inode other items changes nothing else of the tree.
LEMMA ItemsReplaced ==
  ASSUME TreesTyped, NEW k \in Inodes, NEW X \in SUBSET Items,
         tree' = [tree EXCEPT ![k].items = X], image' = image
  PROVE  /\ TreesTyped'
         /\ \A j \in Inodes : /\ tree'[j].there = tree[j].there /\ tree'[j].named = tree[j].named
                              /\ tree'[j].size = tree[j].size
                              /\ tree'[j].items = IF j = k THEN X ELSE tree[j].items
<1>1. PICK N : tree \in [Inodes -> FileType(N)] /\ image \in [Inodes -> FileType(N)]
  BY DEF TreesTyped
<1> DEFINE r == [tree[k] EXCEPT !.items = X]
<1>2. /\ r \in FileType(N) /\ r.there = tree[k].there /\ r.named = tree[k].named
      /\ r.size = tree[k].size /\ r.items = X
  BY <1>1 DEF FileType
<1>3. tree' = [tree EXCEPT ![k] = r]
  OBVIOUS
<1> HIDE DEF r
<1>4. TreesTyped' /\ \A j \in Inodes : tree'[j] = IF j = k THEN r ELSE tree[j]
  BY <1>2, <1>3, InodeReplaced, Zenon
<1> QED
  BY <1>2, <1>4

\* The call moves to another stage.
LEMMA StageReplaced ==
  ASSUME OpTyped, NEW s \in Stages, op' = [op EXCEPT !.stage = s]
  PROVE  /\ OpTyped' /\ op'.stage = s /\ op'.kind = op.kind /\ op'.ino = op.ino /\ op'.data = op.data
         /\ op'.size = op.size /\ op'.want = op.want /\ op'.at = op.at /\ op'.todo = op.todo
         /\ op'.got = op.got
  BY SMTT(30) DEF OpTyped, OpType

\* An item of the call's list is done.
LEMMA TodoReplaced ==
  ASSUME OpTyped, NEW e, op' = [op EXCEPT !.todo = @ \ {e}]
  PROVE  /\ OpTyped' /\ op'.stage = op.stage /\ op'.kind = op.kind /\ op'.ino = op.ino /\ op'.data = op.data
         /\ op'.size = op.size /\ op'.want = op.want /\ op'.at = op.at /\ op'.todo = op.todo \ {e}
         /\ op'.got = op.got
<1>1. PICK W : op \in OpType(W)
  BY DEF OpTyped
<1>2. op.todo \ {e} \in SUBSET Items
  BY <1>1 DEF OpType
<1> DEFINE T == op.todo \ {e}
<1>3. op' = [op EXCEPT !.todo = T]
  OBVIOUS
<1> HIDE DEF T
<1>4. T \in SUBSET Items
  BY <1>2 DEF T
<1>5. /\ op' \in OpType(W) /\ op'.stage = op.stage /\ op'.kind = op.kind /\ op'.ino = op.ino /\ op'.data = op.data
      /\ op'.size = op.size /\ op'.want = op.want /\ op'.at = op.at /\ op'.todo = T
      /\ op'.got = op.got
  BY <1>1, <1>3, <1>4 DEF OpType
<1> QED
  BY <1>5 DEF T, OpTyped

\* Between calls.
LEMMA IdleFacts ==
  /\ Idle.kind = "none" /\ Idle.stage = "none" /\ Idle.got = {} /\ Idle.todo = {} /\ Idle.ino = 0
  /\ Idle \in OpType({{}}) /\ ~Closed.open
<1>1. <<>> \in Seq(Cells)
  OBVIOUS
<1> QED
  BY <1>1 DEF Idle, OpType, Kinds, Stages, Closed

\* Between two calls the invariant asks nothing of the call.
LEMMA IdleInv ==
  ASSUME op' = Idle
  PROVE  OpTyped' /\ OpInv' /\ WriteInv' /\ CutInv' /\ CommitInv'
<1>1. OpTyped'
  BY IdleFacts DEF OpTyped
<1>2. op'.kind = "none" /\ op'.stage = "none"
  BY IdleFacts
<1>3. OpInv'
  BY DEF OpInv
<1>4. WriteInv'
  BY <1>2 DEF WriteInv, Writing, At
<1>5. CutInv' /\ CommitInv'
  BY <1>2 DEF CutInv, CommitInv, At
<1> QED
  BY <1>1, <1>3, <1>4, <1>5

\* A step keeps the extents of a file: it leaves them with the file or loses them.
Follows(i) ==
  /\ \A x \in leaked : x \in leaked'
  /\ \A e \in OnDisk(tree[i].items) :
       Extent(e) \in leaked' \/ \E f \in OnDisk(tree'[i].items) : Extent(f) = Extent(e)

\* A step writes neither to an extent of a file nor to a lost one.
DiskKept ==
  /\ \A x \in leaked : \A u \in x : disk'[u] = disk[u]
  /\ \A i \in Inodes : \A e \in OnDisk(tree[i].items) : \A u \in Extent(e) : disk'[u] = disk[u]

\* An extent that an older item list refers to stays in use or lost.
LEMMA KeptStays ==
  ASSUME NEW S, NEW i \in Inodes, Kept(S, i), Follows(i)
  PROVE  \A e \in OnDisk(S) : Extent(e) \in leaked'
           \/ \E f \in OnDisk(tree'[i].items) : Extent(f) = Extent(e)
  BY DEF Kept, Follows

\* What extents that are kept read.
LEMMA KeptContent ==
  ASSUME NEW S, Laid(S), NEW i \in Inodes, Kept(S, i), DiskKept, NEW n \in Nat
  PROVE  Content(S, n, disk') = Content(S, n, disk)
<1>1. \A e \in OnDisk(S) : \A u \in Extent(e) : disk'[u] = disk[u]
  <2> SUFFICES ASSUME NEW e \in OnDisk(S), NEW u \in Extent(e) PROVE disk'[u] = disk[u]
    OBVIOUS
  <2>1. CASE Extent(e) \in leaked
    BY <2>1 DEF DiskKept
  <2>2. CASE \E f \in OnDisk(tree[i].items) : Extent(f) = Extent(e)
    BY <2>2, SMTT(30) DEF DiskKept
  <2> QED
    BY <2>1, <2>2 DEF Kept
<1> QED
  BY <1>1, ContentStays

\* What the image and an open file promise survives a step that keeps their extents.
LEMMA SavedStay ==
  ASSUME TreesTyped, Arranged(image), SavedInv, image' = image, DiskKept,
         \A i \in Inodes : saved'[i] = {} \/ (saved'[i] = saved[i] /\ Follows(i))
  PROVE  SavedInv'
<1> SUFFICES ASSUME NEW i \in Inodes, saved'[i] # {}
             PROVE  /\ \A b \in saved'[i] : b = Content(image'[i].items, image'[i].size, disk')
                    /\ EndBy(image'[i].items, image'[i].size)
                    /\ Kept(image[i].items, i)'
  BY DEF SavedInv, Promised
<1>1. saved'[i] = saved[i] /\ Follows(i) /\ saved[i] # {}
  OBVIOUS
<1>2. /\ \A b \in saved[i] : b = Content(image[i].items, image[i].size, disk)
      /\ EndBy(image[i].items, image[i].size) /\ Kept(image[i].items, i)
  BY <1>1 DEF SavedInv, Promised
<1>3. Laid(image[i].items) /\ image[i].size \in Nat
  BY TreeFields, SMTT(30) DEF Arranged
<1>4. Content(image[i].items, image[i].size, disk') = Content(image[i].items, image[i].size, disk)
  BY <1>2, <1>3, KeptContent
<1>5. Kept(image[i].items, i)'
  <2>1. \A e \in OnDisk(image[i].items) : Extent(e) \in leaked'
          \/ \E f \in OnDisk(tree'[i].items) : Extent(f) = Extent(e)
    BY <1>1, <1>2, KeptStays
  <2> QED
    BY <2>1 DEF Kept, OnDisk, Extent
<1> QED
  BY <1>1, <1>2, <1>4, <1>5, SMTT(30)

\* An open file reads what it read, when its extents are kept.
LEMMA HandleStays ==
  ASSUME HandleInv, DiskKept, handle' = handle, handle.open => Follows(handle.ino)
  PROVE  HandleInv'
<1> SUFFICES ASSUME handle.open
             PROVE  /\ handle.ino \in Inodes /\ handle.size \in Nat /\ Laid(handle.items)
                    /\ handle.body = Content(handle.items, handle.size, disk')
                    /\ Kept(handle.items, handle.ino)'
  BY DEF HandleInv, Laid, Sorted, ItemOK
<1>1. /\ handle.ino \in Inodes /\ handle.size \in Nat /\ Laid(handle.items)
      /\ handle.body = Content(handle.items, handle.size, disk)
      /\ Kept(handle.items, handle.ino)
  BY DEF HandleInv
<1>2. Content(handle.items, handle.size, disk') = Content(handle.items, handle.size, disk)
  BY <1>1, KeptContent
<1>3. \A e \in OnDisk(handle.items) : Extent(e) \in leaked'
          \/ \E f \in OnDisk(tree'[handle.ino].items) : Extent(f) = Extent(e)
  BY <1>1, KeptStays
<1>4. Kept(handle.items, handle.ino)'
  BY <1>3 DEF Kept, OnDisk, Extent
<1> QED
  BY <1>1, <1>2, <1>4, SMTT(30)

\* What the tree promises survives a step on another file.
LEMMA BodiesStay ==
  ASSUME TreesTyped, Arranged(tree), BodyInv, DiskKept,
         \A i \in Inodes : body'[i] = {} \/ /\ body'[i] = body[i] /\ tree'[i].size = tree[i].size
                                            /\ tree'[i].items = tree[i].items
  PROVE  BodyInv'
<1> SUFFICES ASSUME NEW i \in Inodes, body'[i] # {}
             PROVE  /\ \A b \in body'[i] : b = Content(tree'[i].items, tree'[i].size, disk')
                    /\ EndBy(tree'[i].items, tree'[i].size)
  BY DEF BodyInv, Promised
<1>1. /\ body'[i] = body[i] /\ tree'[i].size = tree[i].size /\ tree'[i].items = tree[i].items
  OBVIOUS
<1>2. /\ \A b \in body[i] : b = Content(tree[i].items, tree[i].size, disk)
      /\ EndBy(tree[i].items, tree[i].size)
  BY <1>1 DEF BodyInv, Promised
<1>3. Laid(tree[i].items) /\ tree[i].size \in Nat
  BY TreeFields, SMTT(30) DEF Arranged
<1>4. Content(tree[i].items, tree[i].size, disk') = Content(tree[i].items, tree[i].size, disk)
  BY <1>3, ContentStays DEF DiskKept
<1> QED
  BY <1>1, <1>2, <1>4

\* A file that keeps its items keeps its extents.
LEMMA SameItemsFollow ==
  ASSUME NEW i, leaked' = leaked \/ \E X : leaked' = leaked \cup X, tree'[i].items = tree[i].items
  PROVE  Follows(i)
  BY DEF Follows, OnDisk, Extent

\* A step that writes nothing keeps every extent.
LEMMA SameDisk ==
  ASSUME disk' = disk
  PROVE  DiskKept
  BY SMTT(30) DEF DiskKept

\* A tree in which one inode has other items stays arranged.
LEMMA OneInodeArranged ==
  ASSUME Arranged(tree), NEW k \in Inodes,
         \A j \in Inodes \ {k} : tree'[j] = tree[j],
         Laid(tree'[k].items), tree'[k].named => tree'[k].there,
         ~tree'[k].there => tree'[k].items = {},
         \A e, f \in OnDisk(tree'[k].items) : e = f \/ Extent(e) \cap Extent(f) = {},
         \A e \in OnDisk(tree'[k].items) : \A j \in Inodes \ {k} : \A f \in OnDisk(tree[j].items) :
           Extent(e) \cap Extent(f) = {}
  PROVE  Arranged(tree)'
<1>1. \A j \in Inodes : /\ Laid(tree'[j].items) /\ (tree'[j].named => tree'[j].there)
                        /\ (~tree'[j].there => tree'[j].items = {})
  BY DEF Arranged
<1>2. ASSUME NEW i \in Inodes, NEW j \in Inodes, NEW e \in OnDisk(tree'[i].items),
             NEW f \in OnDisk(tree'[j].items)
      PROVE  (i = j /\ e = f) \/ Extent(e) \cap Extent(f) = {}
  <2>1. CASE i = k /\ j = k
    BY <2>1
  <2>2. CASE i = k /\ j # k
    BY <2>2
  <2>3. CASE i # k /\ j = k
    BY <2>3
  <2>4. CASE i # k /\ j # k
    BY <2>4 DEF Arranged
  <2> QED
    BY <2>1, <2>2, <2>3, <2>4, SMTT(30)
<1> QED
  BY <1>1, <1>2, SMTT(30) DEF Arranged, Laid, Sorted, OnDisk, Extent, ItemOK

\* The invariant holds of an empty image.
LEMMA InitIInv == Init => IInv
<1> SUFFICES ASSUME Init PROVE IInv
  OBVIOUS
<1>1. op = Idle /\ handle = Closed /\ free = Units /\ leaked = {} /\ image = tree
  BY DEF Init
<1>2. \A i \in Inodes : tree[i] = Absent /\ body[i] = {} /\ saved[i] = {}
  BY DEF Init
<1>3. TreesTyped
  <2>1. Absent \in FileType({0})
    BY DEF Absent, FileType
  <2>2. tree \in [Inodes -> FileType({0})]
    BY <2>1 DEF Init
  <2> QED
    BY <1>1, <2>2 DEF TreesTyped
<1>4. OpTyped /\ SpaceTyped
  BY <1>1, IdleFacts DEF OpTyped, SpaceTyped, Whole
<1>5. DiskTyped
  BY FileBodyAssumption DEF DiskTyped, Init, Zero, Cells
<1>6. PromisesTyped
  <2>1. body \in [Inodes -> {{}}] /\ saved = body
    BY DEF Init
  <2> QED
    BY <2>1, Zenon DEF PromisesTyped
<1>7. \A i \in Inodes : tree[i].items = {} /\ ~tree[i].there /\ ~tree[i].named
  BY <1>2 DEF Absent
<1>8. Arranged(tree) /\ Arranged(image)
  BY <1>1, <1>7 DEF Arranged, Laid, Sorted, OnDisk
<1>9. \A i \in Inodes : HeldBy(i) = {}
  BY <1>1, <1>7, IdleFacts DEF HeldBy, Freeing, OnDisk
<1>10. Spaced
  BY <1>1, <1>9, IdleFacts DEF Spaced, OnDisk
<1>11. BodyInv /\ SavedInv
  BY <1>2 DEF BodyInv, SavedInv, Promised
<1>12. HandleInv
  BY <1>1, IdleFacts DEF HandleInv
<1>13. OpInv
  BY <1>1 DEF OpInv
<1>14. WriteInv /\ CutInv /\ CommitInv
  BY <1>1, IdleFacts DEF WriteInv, CutInv, CommitInv, Writing, At
<1> QED
  BY <1>3, <1>4, <1>5, <1>6, <1>8, <1>10, <1>11, <1>12, <1>13, <1>14 DEF IInv, Inv, Typed

\* The files and what is promised of them do not change.
LEMMA FilesStay ==
  ASSUME IInv, UNCHANGED <<tree, image, leaked, disk, body, saved, handle>>
  PROVE  /\ TreesTyped' /\ PromisesTyped' /\ Arranged(tree)' /\ Arranged(image)'
         /\ BodyInv' /\ SavedInv' /\ HandleInv'
<1>1. TreesTyped' /\ PromisesTyped'
  BY DEF IInv, Typed, TreesTyped, PromisesTyped
<1>2. Arranged(tree)' /\ Arranged(image)'
  BY DEF IInv, Inv
<1>3. DiskKept
  BY SameDisk
<1>4. \A i : Follows(i)
  BY SameItemsFollow
<1>5. BodyInv'
  BY <1>3, BodiesStay DEF IInv, Inv, Typed
<1>6. SavedInv'
  BY <1>3, <1>4, SavedStay, SMTT(30) DEF IInv, Inv, Typed
<1>7. HandleInv'
  BY <1>3, <1>4, HandleStays, SMTT(30) DEF IInv, Inv
<1> QED
  BY <1>1, <1>2, <1>5, <1>6, <1>7

\* A call ends that is not freeing extents.
LEMMA EndsSpaced ==
  ASSUME IInv, op' = Idle, ~Freeing(op.ino), UNCHANGED <<tree, free, leaked>>
  PROVE  Spaced' /\ SpaceTyped'
<1>1. \A i \in Inodes : HeldBy(i) = OnDisk(tree[i].items)
  BY DEF HeldBy, Freeing
<1>2. \A i \in Inodes : HeldBy(i)' = OnDisk(tree[i].items)
  BY IdleFacts DEF HeldBy, Freeing
<1>3. op'.got = {}
  BY IdleFacts
<1>4. Spaced
  BY DEF IInv, Inv
<1>5. SpaceTyped'
  BY DEF IInv, Typed, SpaceTyped, Whole
<1>6. \A i \in Inodes : \A e \in HeldBy(i)' : Extent(e) \cap free' = {}
  BY <1>1, <1>2, <1>4, SMTT(30) DEF Spaced
<1>7. \A x \in leaked' : /\ x \in FS!Ranges /\ x \cap free' = {}
                       /\ \A i \in Inodes : \A e \in OnDisk(tree'[i].items) : Extent(e) \cap x = {}
  BY <1>4 DEF Spaced
<1>8. OnDisk(op'.got) = {}
  BY <1>3 DEF OnDisk
<1> QED
  BY <1>5, <1>6, <1>7, <1>8 DEF Spaced

\* A call that ends without touching the tree keeps the invariant.
LEMMA CallEnds ==
  ASSUME IInv, op' = Idle, ~Freeing(op.ino), faults' \in 0 .. MaxFaults,
         UNCHANGED <<tree, free, leaked, image, disk, body, saved, handle>>
  PROVE  IInv'
<1>1. DiskTyped'
  BY DEF IInv, Typed, DiskTyped
<1>2. SpaceTyped' /\ Spaced'
  BY EndsSpaced
<1>3. /\ TreesTyped' /\ PromisesTyped' /\ Arranged(tree)' /\ Arranged(image)'
      /\ BodyInv' /\ SavedInv' /\ HandleInv'
  BY FilesStay
<1>4. OpTyped' /\ OpInv' /\ WriteInv' /\ CutInv' /\ CommitInv'
  BY IdleInv
<1> QED
  BY <1>1, <1>2, <1>3, <1>4 DEF IInv, Inv, Typed

\* The calls that end with an error without a trace in the state, and a full disk.
LEMMA FailedStep ==
  ASSUME IInv, noSpace \/ entriesFail \/ truncateFails \/ updateFsTreeRootFails
  PROVE  IInv'
<1>1. op' = Idle /\ UNCHANGED <<tree, free, leaked, image, disk, body, saved, handle>>
  BY DEF noSpace, entriesFail, truncateFails, updateFsTreeRootFails, Abort, Ghosts
<1>2. faults' \in 0 .. MaxFaults
  <2>1. faults \in 0 .. MaxFaults /\ MaxFaults \in Nat
    BY FileBodyAssumption DEF IInv, Typed, DiskTyped
  <2>2. faults' = faults \/ (faults < MaxFaults /\ faults' = faults + 1)
    BY DEF noSpace, entriesFail, truncateFails, updateFsTreeRootFails, Abort
  <2> QED
    BY <2>1, <2>2
<1>3. ~Freeing(op.ino)
  BY DEF noSpace, entriesFail, truncateFails, updateFsTreeRootFails, InLoop, Writing, At, Freeing
<1> QED
  BY <1>1, <1>2, <1>3, CallEnds

\* The invariant holds after a step that changes nothing.
LEMMA Stutter ==
  ASSUME IInv, UNCHANGED vars
  PROVE  IInv'
<1>1. UNCHANGED <<tree, image, free, leaked, disk, op, body, saved, handle, calls, faults>>
  BY DEF vars
<1>2. Typed'
  BY <1>1 DEF IInv, Typed, TreesTyped, OpTyped, SpaceTyped, DiskTyped, PromisesTyped, Whole
<1>3. /\ Arranged(tree)' /\ Arranged(image)' /\ BodyInv' /\ SavedInv' /\ HandleInv'
  BY <1>1, FilesStay, SMTT(30)
<1>4. Spaced'
  BY <1>1, SMTT(30) DEF IInv, Inv, Spaced, HeldBy, Freeing
<1>5. OpInv'
  BY <1>1 DEF IInv, Inv, OpInv, Freeing
<1>6. WriteInv'
  BY <1>1, ZenonT(40) DEF IInv, Inv, WriteInv, Writing, At, WrittenSoFar, NextItem, Stored
<1>7. CutInv' /\ CommitInv'
  BY <1>1, Zenon DEF IInv, Inv, CutInv, CommitInv, At, Promised
<1> QED
  BY <1>2, <1>3, <1>4, <1>5, <1>6, <1>7 DEF IInv, Inv

\* What a call begins with.
Begun(kind, i, data, size, want, todo) ==
  /\ op = Idle /\ UNCHANGED <<image, free, leaked, disk>>
  /\ OpTyped' /\ SpaceTyped' /\ DiskTyped' /\ PromisesTyped'
  /\ op'.kind = kind /\ op'.ino = i /\ op'.stage = "begin" /\ op'.data = data
  /\ op'.size = size /\ op'.want = want /\ op'.at = 0 /\ op'.todo = todo /\ op'.got = {} /\ op'.at = 0
  /\ \A j \in Inodes : body'[j] = IF j = i THEN {} ELSE body[j]
  /\ \A j \in Inodes : saved'[j] = IF j = i /\ kind # "truncate" THEN {} ELSE saved[j]
  /\ kind # "truncate" => ~(handle'.open /\ handle'.ino = i)
  /\ handle' = handle \/ handle' = Closed

\* What the start of a call sets.
LEMMA BeginFacts ==
  ASSUME IInv, NEW kind \in Kinds \ {"none"}, NEW i \in Inodes, NEW data \in Seq(Cells), NEW size \in Nat,
         NEW want, NEW todo \in SUBSET Items, Begin(kind, i, data, size, want, todo)
  PROVE  Begun(kind, i, data, size, want, todo)
<1>1. op = Idle /\ UNCHANGED <<image, free, leaked, disk, faults>>
  BY SMTT(30) DEF Begin
<1>2. op' = [kind |-> kind, ino |-> i, stage |-> "begin", data |-> data,
             size |-> size, want |-> want, at |-> 0, todo |-> todo, got |-> {}]
  BY SMTT(30) DEF Begin
<1>3. op' \in OpType({want})
  <2>1. kind \in Kinds /\ i \in Nat /\ "begin" \in Stages /\ {} \in SUBSET Items
    BY DEF Stages, Inodes
  <2> QED
    BY <1>2, <2>1 DEF OpType
<1>4. PICK V : body \in [Inodes -> V] /\ saved \in [Inodes -> V]
  BY DEF IInv, Typed, PromisesTyped
<1>5. /\ body' = [body EXCEPT ![i] = {}]
      /\ saved' = IF kind = "truncate" THEN saved ELSE [saved EXCEPT ![i] = {}]
  BY DEF Begin
<1>6. body' \in [Inodes -> V \cup {{}}] /\ saved' \in [Inodes -> V \cup {{}}]
  BY <1>4, <1>5
<1>7. /\ \A j \in Inodes : body'[j] = IF j = i THEN {} ELSE body[j]
      /\ \A j \in Inodes : saved'[j] = IF j = i /\ kind # "truncate" THEN {} ELSE saved[j]
  BY <1>4, <1>5, SMTT(30)
<1>8. /\ kind # "truncate" => ~(handle'.open /\ handle'.ino = i)
      /\ handle' = handle \/ handle' = Closed
  BY IdleFacts DEF Begin
<1>9. SpaceTyped' /\ DiskTyped'
  BY <1>1 DEF IInv, Typed, SpaceTyped, DiskTyped, Whole
<1>10. OpTyped'
  BY <1>3 DEF OpTyped
<1>11. PromisesTyped'
  BY <1>6, Zenon DEF PromisesTyped
<1> QED
  BY <1>1, <1>2, <1>7, <1>8, <1>9, <1>10, <1>11, SMTT(30) DEF Begun

\* A call begins and leaves the tree alone.
LEMMA BeginFiles ==
  ASSUME IInv, NEW kind \in Kinds \ {"none"}, NEW i \in Inodes, NEW data \in Seq(Cells), NEW size \in Nat,
         NEW want, NEW todo \in SUBSET Items, Begin(kind, i, data, size, want, todo), tree' = tree,
         kind \in {"overwrite", "remove"} => todo = OnDisk(tree[i].items)
  PROVE  /\ Typed' /\ Arranged(tree)' /\ Arranged(image)' /\ Spaced'
         /\ BodyInv' /\ SavedInv' /\ HandleInv'
<1>1. /\ op = Idle /\ UNCHANGED <<image, free, leaked, disk>>
      /\ OpTyped' /\ SpaceTyped' /\ DiskTyped' /\ PromisesTyped'
      /\ op'.kind = kind /\ op'.ino = i /\ op'.todo = todo /\ op'.got = {} /\ op'.at = 0
      /\ \A j \in Inodes : body'[j] = IF j = i THEN {} ELSE body[j]
      /\ \A j \in Inodes : saved'[j] = IF j = i /\ kind # "truncate" THEN {} ELSE saved[j]
      /\ handle' = handle \/ handle' = Closed
  <2>1. Begun(kind, i, data, size, want, todo)
    BY BeginFacts
  <2> QED
    BY <2>1, Zenon DEF Begun
<1>2. Typed'
  BY <1>1, ZenonT(40) DEF IInv, Typed, TreesTyped
<1>3. Arranged(tree)' /\ Arranged(image)'
  BY <1>1, Zenon DEF IInv, Inv
<1>4. DiskKept
  BY <1>1, SameDisk, SMTT(30)
<1>5. \A j : Follows(j)
  BY <1>1, SameItemsFollow, SMTT(30)
<1>6. BodyInv'
  BY <1>1, <1>4, BodiesStay, SMTT(30) DEF IInv, Inv, Typed
<1>7. SavedInv'
  BY <1>1, <1>4, <1>5, SavedStay, SMTT(30) DEF IInv, Inv, Typed
<1>8. HandleInv'
  <2>1. CASE handle' = handle
    BY <2>1, <1>4, <1>5, HandleStays DEF IInv, Inv
  <2>2. CASE handle' = Closed
    BY <2>2, IdleFacts, Zenon DEF HandleInv
  <2> QED
    BY <1>1, <2>1, <2>2
<1>9. Spaced'
  <2>1. \A j \in Inodes : HeldBy(j) = OnDisk(tree[j].items)
    BY <1>1, IdleFacts, SMTT(30) DEF HeldBy, Freeing
  <2>2. \A j \in Inodes : HeldBy(j)' = OnDisk(tree[j].items)
    BY <1>1 DEF HeldBy, Freeing
  <2>3. Spaced
    BY SMTT(30) DEF IInv, Inv
  <2>4. ASSUME NEW j \in Inodes, NEW e \in HeldBy(j)' PROVE Extent(e) \cap free' = {}
    <3>1. e \in HeldBy(j)
      BY <2>1, <2>2, <2>4, Zenon
    <3> QED
      BY <1>1, <2>3, <3>1 DEF Spaced
  <2>5. \A x \in leaked' : /\ x \in FS!Ranges /\ x \cap free' = {}
                         /\ \A j \in Inodes : \A e \in OnDisk(tree'[j].items) : Extent(e) \cap x = {}
    BY <1>1, <2>3, Zenon DEF Spaced
  <2>6. OnDisk(op'.got) = {}
    BY <1>1, Zenon DEF OnDisk
  <2> QED
    BY <2>4, <2>5, <2>6, SMTT(30) DEF Spaced
<1> QED
  BY <1>2, <1>3, <1>6, <1>7, <1>8, <1>9

\* What a caller writes.
LEMMA DataFacts ==
  ASSUME NEW i \in Nat, NEW v \in Nat, NEW n \in Nat
  PROVE  Data(i, v, n) \in Seq(Cells) /\ Len(Data(i, v, n)) = n
<1>1. \A k \in 1 .. n : (IF v = 0 THEN Zero ELSE <<i, v, k>>) \in Cells
  BY DEF Zero, Cells
<1>2. Data(i, v, n) \in [1 .. n -> Cells]
  BY <1>1 DEF Data
<1> QED
  BY <1>2, SeqShape DEF Data

\* The step that begins overwriteFile.
LEMMA OverwriteStep ==
  ASSUME IInv, NEW i \in Inodes, NEW v \in Nat, NEW n \in Nat, overwriteFile(i, v, n)
  PROVE  IInv'
<1> DEFINE data == Data(i, v, n)
           todo == OnDisk(tree[i].items)
<1>1. /\ tree[i].named /\ tree' = tree /\ Begin("overwrite", i, data, n, {data}, todo)
  BY DEF overwriteFile
<1>2. data \in Seq(Cells)
  BY DataFacts DEF Inodes
<1>3. todo \in SUBSET Items
  BY TreeFields DEF IInv, Typed, OnDisk
<1> HIDE DEF data, todo
<1>4. "overwrite" \in Kinds \ {"none"}
  BY DEF Kinds
<1>5. /\ op'.kind = "overwrite" /\ op'.ino = i /\ op'.stage = "begin" /\ op'.data = data
      /\ op'.want = {data} /\ op'.todo = todo /\ op'.got = {} /\ op'.at = 0
      /\ body'[i] = {} /\ saved'[i] = {} /\ ~(handle'.open /\ handle'.ino = i)
  <2>1. Begun("overwrite", i, data, n, {data}, todo)
    BY <1>1, <1>2, <1>3, <1>4, BeginFacts, SMTT(30)
  <2> QED
    BY <2>1, Zenon DEF Begun
<1>6. /\ Typed' /\ Arranged(tree)' /\ Arranged(image)' /\ Spaced'
      /\ BodyInv' /\ SavedInv' /\ HandleInv'
  BY <1>1, <1>2, <1>3, <1>4, BeginFiles, SMTT(30) DEF todo
<1>7. OpInv'
  <2>1. tree'[i].there
    BY <1>1, Zenon DEF IInv, Inv, Arranged
  <2> QED
    BY <1>1, <1>5, <2>1 DEF OpInv, Freeing, todo
<1>8. WriteInv' /\ CutInv' /\ CommitInv'
  BY <1>5, Zenon DEF WriteInv, CutInv, CommitInv, Writing, At
<1> QED
  BY <1>6, <1>7, <1>8, SMTT(30) DEF IInv, Inv

\* The step that begins removeInode.
LEMMA RemoveStep ==
  ASSUME IInv, NEW i \in Inodes, removeInode(i)
  PROVE  IInv'
<1> DEFINE todo == OnDisk(tree[i].items)
<1>1. /\ tree' = tree /\ Begin("remove", i, <<>>, 0, {}, todo)
  BY DEF removeInode
<1>2. <<>> \in Seq(Cells)
  OBVIOUS
<1>3. todo \in SUBSET Items
  BY TreeFields DEF IInv, Typed, OnDisk
<1> HIDE DEF todo
<1>4. "remove" \in Kinds \ {"none"}
  BY DEF Kinds
<1>5. /\ op'.kind = "remove" /\ op'.ino = i /\ op'.stage = "begin"
      /\ op'.want = {} /\ op'.todo = todo /\ op'.got = {} /\ op'.at = 0
      /\ body'[i] = {} /\ saved'[i] = {} /\ ~(handle'.open /\ handle'.ino = i)
  <2>1. Begun("remove", i, <<>>, 0, {}, todo)
    BY <1>1, <1>2, <1>3, <1>4, BeginFacts, Zenon
  <2> QED
    BY <2>1 DEF Begun
<1>6. /\ Typed' /\ Arranged(tree)' /\ Arranged(image)' /\ Spaced'
      /\ BodyInv' /\ SavedInv' /\ HandleInv'
  BY <1>1, <1>2, <1>3, <1>4, BeginFiles, ZenonT(40) DEF todo
<1>7. OpInv'
  BY <1>1, <1>5 DEF OpInv, Freeing, todo
<1>8. WriteInv' /\ CutInv' /\ CommitInv'
  BY <1>5, Zenon DEF WriteInv, CutInv, CommitInv, Writing, At
<1> QED
  BY <1>6, <1>7, <1>8 DEF IInv, Inv

\* createInodeWithDirEntry adds an inode under an unused number.
LEMMA CreateStep ==
  ASSUME IInv, NEW v \in Nat, NEW n \in Nat, createInodeWithDirEntry(v, n)
  PROVE  IInv'
<1>0. PICK i \in nextInodeNum :
        /\ Begin("create", i, Data(i, v, n), n, {Data(i, v, n)}, {})
        /\ tree' = [tree EXCEPT ![i] = [there |-> TRUE, named |-> FALSE, size |-> n,
                                        nbytes |-> classifyExtent(Data(i, v, n)), items |-> {}]]
  BY Zenon DEF createInodeWithDirEntry
<1> DEFINE data == Data(i, v, n)
           r == [there |-> TRUE, named |-> FALSE, size |-> n, nbytes |-> classifyExtent(data), items |-> {}]
<1>1. Begin("create", i, data, n, {data}, {}) /\ tree' = [tree EXCEPT ![i] = r]
  BY <1>0, Zenon
<1>2. i \in Inodes
  BY DEF nextInodeNum
<1>3. data \in Seq(Cells) /\ Len(data) = n
  BY <1>2, DataFacts, SMTT(30) DEF Inodes
<1> HIDE DEF data
<1>4. r \in FileType({classifyExtent(data)}) /\ r.items = {} /\ r.there /\ ~r.named /\ r.size = n
  BY SMTT(30) DEF FileType
<1>18. PICK M : r \in FileType(M)
  BY <1>4, SMTT(30)
<1> HIDE DEF r
<1>5. /\ op = Idle /\ UNCHANGED <<image, free, leaked, disk>>
      /\ OpTyped' /\ SpaceTyped' /\ DiskTyped' /\ PromisesTyped'
      /\ op'.kind = "create" /\ op'.ino = i /\ op'.stage = "begin" /\ op'.data = data
      /\ op'.want = {data} /\ op'.at = 0 /\ op'.got = {}
      /\ \A j \in Inodes : body'[j] = IF j = i THEN {} ELSE body[j]
      /\ \A j \in Inodes : saved'[j] = IF j = i THEN {} ELSE saved[j]
      /\ ~(handle'.open /\ handle'.ino = i)
      /\ handle' = handle \/ handle' = Closed
  <2>1. "create" \in Kinds \ {"none"} /\ {} \in SUBSET Items
    BY DEF Kinds
  <2>2. Begun("create", i, data, n, {data}, {})
    BY <1>1, <1>2, <1>3, <2>1, BeginFacts
  <2> QED
    BY <2>2 DEF Begun
<1>6. TreesTyped' /\ \A j \in Inodes : tree'[j] = IF j = i THEN r ELSE tree[j]
  <2>1. image' = image
    BY <1>5
  <2>2. TreesTyped /\ tree' = [tree EXCEPT ![i] = r]
    BY <1>1 DEF IInv, Typed
  <2> QED
    BY <1>2, <1>18, <2>1, <2>2, InodeReplaced, Zenon
<1>7. Arranged(tree)'
  <2>1. Laid({}) /\ OnDisk({}) = {}
    BY DEF Laid, Sorted, OnDisk
  <2> QED
    BY <1>2, <1>4, <1>6, <2>1, OneInodeArranged, Zenon DEF IInv, Inv
<1>8. Arranged(image)'
  BY <1>5 DEF IInv, Inv
<1>9. DiskKept
  BY <1>5, SameDisk, SMTT(30)
<1>10. \A j \in Inodes \ {i} : Follows(j)
  BY <1>5, <1>6, SameItemsFollow, SMTT(30)
<1>11. BodyInv'
  BY <1>5, <1>6, <1>9, BodiesStay, SMTT(30) DEF IInv, Inv, Typed
<1>12. SavedInv'
  BY <1>5, <1>9, <1>10, SavedStay, SMTT(30) DEF IInv, Inv, Typed
<1>13. HandleInv'
  <2>1. CASE handle' = handle /\ handle.open
    <3>1. handle.ino \in Inodes \ {i}
      BY <1>5, <2>1 DEF IInv, Inv, HandleInv
    <3> QED
      BY <2>1, <3>1, <1>9, <1>10, HandleStays, SMTT(30) DEF IInv, Inv
  <2>2. CASE ~handle'.open
    BY <2>2, SMTT(30) DEF HandleInv
  <2> QED
    BY <1>5, <2>1, <2>2, IdleFacts
<1>14. Spaced'
  <2>1. \A j \in Inodes : HeldBy(j) = OnDisk(tree[j].items)
    BY <1>5, IdleFacts, SMTT(30) DEF HeldBy, Freeing
  <2>2. \A j \in Inodes : HeldBy(j)' = OnDisk(tree'[j].items)
    BY <1>5 DEF HeldBy, Freeing
  <2>3. \A j \in Inodes : OnDisk(tree'[j].items) \subseteq OnDisk(tree[j].items)
    BY <1>4, <1>6 DEF OnDisk
  <2>4. Spaced
    BY SMTT(30) DEF IInv, Inv
  <2>5. ASSUME NEW j \in Inodes, NEW e \in HeldBy(j)' PROVE Extent(e) \cap free' = {}
    <3>1. e \in HeldBy(j)
      BY <2>1, <2>2, <2>3, <2>5, Zenon
    <3> QED
      BY <1>5, <2>4, <3>1, Zenon DEF Spaced
  <2>6. \A x \in leaked' : /\ x \in FS!Ranges /\ x \cap free' = {}
                           /\ \A j \in Inodes : \A e \in OnDisk(tree'[j].items) : Extent(e) \cap x = {}
    BY <1>5, <2>3, <2>4, Zenon DEF Spaced
  <2>7. OnDisk(op'.got) = {}
    BY <1>5, Zenon DEF OnDisk
  <2> QED
    BY <2>5, <2>6, <2>7, SMTT(30) DEF Spaced
<1>15. OpInv'
  <2>1. tree'[i].there /\ tree'[i].size = Len(data)
    BY <1>2, <1>3, <1>4, <1>6, SMTT(30)
  <2> QED
    BY <1>2, <1>5, <2>1, ZenonT(40) DEF OpInv, Freeing
<1>16. WriteInv'
  <2>1. tree'[i].items = {}
    BY <1>2, <1>4, <1>6, SMTT(30)
  <2>2. WrittenSoFar'
    BY <1>3, <1>5, <2>1, SMTT(30) DEF WrittenSoFar, EndBy
  <2> QED
    BY <1>5, <2>2 DEF WriteInv
<1>17. CutInv' /\ CommitInv'
  BY <1>5 DEF CutInv, CommitInv, At
<1> QED
  BY <1>5, <1>6, <1>7, <1>8, <1>11, <1>12, <1>13, <1>14, <1>15, <1>16, <1>17, Zenon DEF IInv, Inv, Typed

\* A body that is cut or filled up is what the items read to the new size.
LEMMA ResizedContent ==
  ASSUME NEW S, Laid(S), NEW m \in Nat, EndBy(S, m), NEW n \in Nat, NEW d
  PROVE  Resized(Content(S, m, d), n) = Content(S, n, d)
<1> DEFINE b == Content(S, m, d)
<1>1. DOMAIN b = 1 .. m /\ Len(b) = m
  <2>1. b \in [1 .. m -> {b[k] : k \in 1 .. m}] /\ DOMAIN b = 1 .. m
    BY DEF Content
  <2>2. b \in Seq({b[k] : k \in 1 .. m})
    BY <2>1
  <2>3. Len(b) \in Nat /\ DOMAIN b = 1 .. Len(b)
    BY <2>2, SeqShape
  <2> QED
    BY <2>1, <2>3
<1>2. \A k \in 1 .. n : (IF k <= Len(b) THEN b[k] ELSE Zero) = UnitAt(S, k - 1, d)
  <2> SUFFICES ASSUME NEW k \in 1 .. n PROVE (IF k <= Len(b) THEN b[k] ELSE Zero) = UnitAt(S, k - 1, d)
    OBVIOUS
  <2>1. CASE k <= m
    <3>1. b[k] = UnitAt(S, k - 1, d)
      BY <2>1 DEF Content
    <3> QED
      BY <1>1, <2>1, <3>1
  <2>2. CASE ~(k <= m)
    <3>1. \A e \in S : e.off \in Nat /\ e.num \in Nat /\ e.off + e.num <= m
      BY ItemFacts DEF Laid, EndBy
    <3>2. ~\E e \in S : Covers(e, k - 1)
      BY <2>2, <3>1 DEF Covers
    <3>3. UnitAt(S, k - 1, d) = Zero
      BY <3>2, UnitUncovered
    <3> QED
      BY <1>1, <2>2, <3>3, SMTT(30)
  <2> QED
    BY <2>1, <2>2
<1> HIDE DEF b
<1> QED
  BY <1>2 DEF Resized, Content, b

\* The step that begins truncateInode.
LEMMA TruncateStep ==
  ASSUME IInv, NEW i \in Inodes, NEW n \in Nat, truncateInode(i, n)
  PROVE  IInv'
<1> DEFINE want == {Resized(b, n) : b \in body[i]}
           S == tree[i].items
           todo == IF n < tree[i].size THEN {e \in S : e.off + e.num > n} ELSE {}
<1>1. tree[i].named /\ tree' = tree /\ Begin("truncate", i, <<>>, n, want, todo)
  BY DEF truncateInode
<1>2. <<>> \in Seq(Cells)
  OBVIOUS
<1>3. S \in SUBSET Items /\ tree[i].size \in Nat /\ Laid(S) /\ tree[i].there
  BY <1>1, TreeFields, Zenon DEF IInv, Inv, Typed, Arranged
<1>4. todo \subseteq S /\ todo \in SUBSET Items
  BY <1>3
<1>5. \A e \in S : e.off \in Nat /\ e.num \in Nat
  BY <1>3, ItemFacts, Zenon DEF Laid
<1>6. \A e \in todo : n < e.off + e.num
  BY <1>5
<1>7. ASSUME want # {}
      PROVE  (\A w \in want : w = Content(S, n, disk)) /\ EndBy(S \ todo, n)
  <2>1. body[i] # {}
    BY <1>7, SMTT(30)
  <2>2. /\ \A b \in body[i] : b = Content(S, tree[i].size, disk)
        /\ EndBy(S, tree[i].size)
    BY <2>1 DEF IInv, Inv, BodyInv, Promised
  <2>3. Resized(Content(S, tree[i].size, disk), n) = Content(S, n, disk)
    BY <1>3, <2>2, ResizedContent, ZenonT(40)
  <2>4. \A w \in want : w = Content(S, n, disk)
    BY <2>2, <2>3
  <2>5. EndBy(S \ todo, n)
    BY <1>3, <1>5, <2>2 DEF EndBy
  <2> QED
    BY <2>4, <2>5, Zenon
<1> HIDE DEF want, todo
<1>8. "truncate" \in Kinds \ {"none"}
  BY DEF Kinds
<1>9. /\ op'.kind = "truncate" /\ op'.ino = i /\ op'.stage = "begin" /\ op'.size = n
      /\ op'.want = want /\ op'.todo = todo /\ op'.got = {} /\ body'[i] = {} /\ disk' = disk
  <2>1. Begun("truncate", i, <<>>, n, want, todo)
    BY <1>1, <1>2, <1>4, <1>8, BeginFacts, Zenon
  <2> QED
    BY <2>1 DEF Begun
<1>10. /\ Typed' /\ Arranged(tree)' /\ Arranged(image)' /\ Spaced'
      /\ BodyInv' /\ SavedInv' /\ HandleInv'
  BY <1>1, <1>2, <1>4, <1>8, BeginFiles, Zenon
<1>11. OpInv'
  BY <1>1, <1>3, <1>9, Zenon DEF OpInv, Freeing
<1>12. WriteInv' /\ CommitInv'
  BY <1>9 DEF WriteInv, CommitInv, Writing, At
<1>13. CutInv'
  <2>1. tree'[i].items = S
    BY <1>1
  <2>2. op'.todo \subseteq tree'[op'.ino].items
    BY <1>4, <1>9, <2>1
  <2>3. \A e \in op'.todo : op'.size < e.off + e.num
    BY <1>6, <1>9
  <2>4. op'.want # {} =>
         /\ \A w \in op'.want : w = Content(tree'[op'.ino].items, op'.size, disk')
         /\ EndBy(tree'[op'.ino].items \ op'.todo, op'.size)
    BY <1>7, <1>9, <2>1
  <2> QED
    BY <2>2, <2>3, <2>4, Zenon DEF CutInv
<1> QED
  BY <1>10, <1>11, <1>12, <1>13, SMTT(30) DEF IInv, Inv

\* A file of size 0 reads as nothing.
LEMMA EmptyContent ==
  ASSUME NEW S, NEW d
  PROVE  Content(S, 0, d) = <<>>
<1>1. Content(S, 0, d) \in [1 .. 0 -> {}]
  BY DEF Content
<1>2. Content(S, 0, d) \in Seq({})
  BY <1>1
<1>3. Len(Content(S, 0, d)) = 0
  BY <1>1, <1>2, SeqShape DEF Content
<1> QED
  BY <1>2, <1>3

\* What is read is what the items hold.
LEMMA ReadContent ==
  ASSUME NEW f, f.size \in Nat, NEW d
  PROVE  \A b \in readFileData(f, d) : b = Content(f.items, f.size, d)
<1>1. CASE f.size = 0
  BY <1>1, EmptyContent DEF readFileData
<1>2. CASE f.size # 0
  BY <1>2 DEF readFileData, Content
<1> QED
  BY <1>1, <1>2

\* Opening a file copies its items and its size.
LEMMA OpenStep ==
  ASSUME IInv, NEW i \in Inodes, openBtrfsFile(i)
  PROVE  IInv'
<1>1. UNCHANGED <<tree, image, free, leaked, disk, op, body, saved, faults>>
  BY DEF openBtrfsFile
<1>2. PICK b \in readFileData(tree[i], disk) :
       handle' = [open |-> TRUE, ino |-> i, size |-> tree[i].size,
                  items |-> tree[i].items, body |-> b]
  BY Zenon DEF openBtrfsFile
<1>3. op = Idle
  BY DEF openBtrfsFile
<1>4. tree[i].size \in Nat /\ Laid(tree[i].items)
  BY TreeFields, Zenon DEF IInv, Inv, Typed, Arranged
<1>5. HandleInv'
  <2>1. b = Content(tree[i].items, tree[i].size, disk)
    BY <1>4, ReadContent
  <2>2. Kept(tree[i].items, i)'
    BY <1>1 DEF Kept
  <2>3. /\ handle'.open /\ handle'.ino = i /\ handle'.size = tree[i].size
        /\ handle'.items = tree[i].items /\ handle'.body = b
    BY <1>2
  <2> QED
    BY <1>1, <1>4, <2>1, <2>2, <2>3, Zenon DEF HandleInv, Kept
<1>6. Typed'
  BY <1>1 DEF IInv, Typed, TreesTyped, OpTyped, SpaceTyped, DiskTyped, PromisesTyped, Whole
<1>7. Arranged(tree)' /\ Arranged(image)'
  BY <1>1 DEF IInv, Inv
<1>8. DiskKept /\ \A j : Follows(j)
  BY <1>1, SameDisk, SameItemsFollow
<1>9. BodyInv'
  BY <1>1, <1>8, BodiesStay, Zenon DEF IInv, Inv, Typed
<1>10. SavedInv'
  BY <1>1, <1>8, SavedStay, Zenon DEF IInv, Inv, Typed
<1>11. Spaced'
  BY <1>1, Zenon DEF IInv, Inv, Spaced, HeldBy, Freeing
<1>12. OpInv' /\ WriteInv' /\ CutInv' /\ CommitInv'
  BY <1>1, <1>3, IdleInv
<1> QED
  BY <1>5, <1>6, <1>7, <1>9, <1>10, <1>11, <1>12, SMTT(30) DEF IInv, Inv

\* A mount reads the committed image and frees what it does not refer to.
LEMMA RemountStep ==
  ASSUME IInv, Remount
  PROVE  IInv'
<1>1. /\ tree' = image /\ free' = Units \ UNION Referenced(image) /\ leaked' = {}
      /\ op' = Idle /\ handle' = Closed /\ body' = saved
      /\ UNCHANGED <<image, disk, saved, faults>>
  BY DEF Remount
<1>2. TreesTyped'
  BY <1>1 DEF IInv, Typed, TreesTyped
<1>3. DiskTyped' /\ PromisesTyped'
  BY <1>1, SMTT(30) DEF IInv, Typed, DiskTyped, PromisesTyped
<1>4. OpTyped' /\ OpInv' /\ WriteInv' /\ CutInv' /\ CommitInv'
  BY <1>1, IdleInv
<1>5. Arranged(tree)' /\ Arranged(image)'
  BY <1>1 DEF IInv, Inv
<1>6. \A i \in Inodes : \A e \in OnDisk(image[i].items) :
        Extent(e) \in Referenced(image) /\ Whole(Extent(e))
  <2> SUFFICES ASSUME NEW i \in Inodes, NEW e \in OnDisk(image[i].items)
               PROVE  Extent(e) \in Referenced(image) /\ Whole(Extent(e))
    OBVIOUS
  <2>1. Extent(e) \in Referenced(image)
    BY SMTT(30) DEF Referenced
  <2>2. ItemOK(e) /\ e.start # 0
    BY DEF IInv, Inv, Arranged, Laid, OnDisk
  <2> QED
    BY <2>1, <2>2, ItemFacts
<1>7. SpaceTyped'
  <2>1. ASSUME NEW u \in free', NEW v \in Units, v \div SectorSize = u \div SectorSize, v \notin free'
        PROVE  FALSE
    <3>1. PICK x \in Referenced(image) : v \in x
      BY <1>1, <2>1
    <3>2. Whole(x)
      BY <1>6 DEF Referenced
    <3>3. u \in x
      BY <1>1, <2>1, <3>1, <3>2 DEF Whole
    <3> QED
      BY <1>1, <3>3
  <2> QED
    BY <1>1, <2>1 DEF SpaceTyped, Whole
<1>8. BodyInv'
  BY <1>1, Zenon DEF IInv, Inv, BodyInv, SavedInv, Promised
<1>9. SavedInv'
  BY <1>1, ZenonT(40) DEF IInv, Inv, SavedInv, Promised, Kept
<1>10. HandleInv'
  BY <1>1, IdleFacts, SMTT(30) DEF HandleInv
<1>11. Spaced'
  <2>1. \A j \in Inodes : HeldBy(j)' = OnDisk(image[j].items)
    BY <1>1, IdleFacts DEF HeldBy, Freeing
  <2>2. \A j \in Inodes : \A e \in HeldBy(j)' : Extent(e) \cap free' = {}
    BY <1>1, <1>6, <2>1
  <2>3. OnDisk(op'.got) = {}
    BY <1>1, IdleFacts, SMTT(30) DEF OnDisk
  <2> QED
    BY <1>1, <2>2, <2>3, SMTT(30) DEF Spaced
<1> QED
  BY <1>2, <1>3, <1>4, <1>5, <1>7, <1>8, <1>9, <1>10, <1>11, SMTT(30) DEF IInv, Inv, Typed

\* A call at some stage is not idle.
LEMMA OpGoes ==
  ASSUME IInv, op.stage # "none"
  PROVE  op # Idle /\ op.ino \in Inodes /\ body[op.ino] = {}
<1>1. op # Idle
  BY IdleFacts
<1> QED
  BY <1>1 DEF IInv, Inv, OpInv

\* The commit makes the tree the image.
LEMMA CommitStep ==
  ASSUME IInv, updateFsTreeRoot
  PROVE  IInv'
<1>1. /\ op.stage = "commit" /\ image' = tree /\ body' = [body EXCEPT ![op.ino] = op.want]
      /\ saved' = body' /\ op' = Idle /\ UNCHANGED <<tree, free, leaked, disk, handle, faults>>
  BY DEF updateFsTreeRoot
<1>2. op.ino \in Inodes /\ ~Freeing(op.ino)
  BY <1>1, OpGoes, SMTT(30) DEF Freeing
<1>3. TreesTyped'
  BY <1>1 DEF IInv, Typed, TreesTyped
<1>4. DiskTyped'
  BY <1>1 DEF IInv, Typed, DiskTyped
<1>5. PICK V : body \in [Inodes -> V]
  BY DEF IInv, Typed, PromisesTyped
<1>6. body' \in [Inodes -> V \cup {op.want}] /\ saved' \in [Inodes -> V \cup {op.want}]
  BY <1>1, <1>5, Zenon
<1>7. PromisesTyped'
  BY <1>6, Zenon DEF PromisesTyped
<1>8. \A j \in Inodes : body'[j] = IF j = op.ino THEN op.want ELSE body[j]
  BY <1>1, <1>2, <1>5
<1>9. OpTyped' /\ OpInv' /\ WriteInv' /\ CutInv' /\ CommitInv'
  BY <1>1, IdleInv
<1>10. Spaced' /\ SpaceTyped'
  BY <1>1, <1>2, EndsSpaced
<1>11. Arranged(tree)' /\ Arranged(image)'
  BY <1>1, SMTT(30) DEF IInv, Inv
<1>12. \A j \in Inodes : Promised(body'[j], tree, j)
  <2>1. Promised(op.want, tree, op.ino)
    BY <1>1 DEF IInv, Inv, CommitInv
  <2>2. \A j \in Inodes : Promised(body[j], tree, j)
    BY SMTT(30) DEF IInv, Inv, BodyInv
  <2> QED
    BY <1>8, <2>1, <2>2
<1>13. BodyInv'
  BY <1>1, <1>12 DEF BodyInv, Promised
<1>14. SavedInv'
  BY <1>1, <1>12, Zenon DEF SavedInv, Promised, Kept
<1>15. HandleInv'
  BY <1>1, HandleStays, SameDisk, SameItemsFollow, SMTT(30) DEF IInv, Inv
<1> QED
  BY <1>3, <1>4, <1>7, <1>9, <1>10, <1>11, <1>13, <1>14, <1>15, SMTT(30) DEF IInv, Inv, Typed

\* freeInodeExtents gives back an extent that the file still holds.
LEMMA FreeStep ==
  ASSUME IInv, freeInodeExtents
  PROVE  IInv'
<1> DEFINE k == op.ino
<1>2. PICK e \in op.todo : free' = free \cup Extent(e) /\ op' = [op EXCEPT !.todo = @ \ {e}]
  BY Zenon DEF freeInodeExtents, Lowest
<1>1. /\ op.kind \in {"overwrite", "remove"} /\ op.stage = "begin"
      /\ free' = free \cup Extent(e) /\ op' = [op EXCEPT !.todo = @ \ {e}]
      /\ UNCHANGED <<tree, image, leaked, disk, body, saved, handle, faults>>
  BY <1>2 DEF freeInodeExtents, At, Ghosts
<1>3. /\ OpTyped' /\ op'.stage = op.stage /\ op'.kind = op.kind /\ op'.ino = op.ino /\ op'.data = op.data
      /\ op'.size = op.size /\ op'.want = op.want /\ op'.at = op.at /\ op'.todo = op.todo \ {e}
      /\ op'.got = op.got
  BY <1>1, TodoReplaced DEF IInv, Typed
<1>4. k \in Inodes /\ op # Idle /\ Freeing(k)
  BY <1>1, OpGoes DEF Freeing
<1>5. op.todo \subseteq OnDisk(tree[k].items) /\ op.got = {}
  BY <1>1, <1>4 DEF IInv, Inv, OpInv
<1>6. ItemOK(e) /\ e.start # 0 /\ e \in OnDisk(tree[k].items)
  BY <1>2, <1>4, <1>5 DEF IInv, Inv, Arranged, Laid, OnDisk
<1>7. SpaceTyped'
  <2>1. Extent(e) \subseteq Units /\ Whole(Extent(e))
    BY <1>6, ItemFacts
  <2> QED
    BY <1>1, <2>1, SMTT(30) DEF IInv, Typed, SpaceTyped, Whole
<1>8. /\ TreesTyped' /\ PromisesTyped' /\ Arranged(tree)' /\ Arranged(image)'
      /\ BodyInv' /\ SavedInv' /\ HandleInv'
  BY <1>1, FilesStay
<1>9. DiskTyped'
  BY <1>1, SMTT(30) DEF IInv, Typed, DiskTyped
<1>10. Spaced'
  <2>1. Spaced
    BY SMTT(30) DEF IInv, Inv
  <2>2. ASSUME NEW j \in Inodes, NEW f \in HeldBy(j)'
        PROVE  f \in HeldBy(j) /\ Extent(f) \cap Extent(e) = {}
    <3>1. CASE j = k
      <4>1. f \in op.todo \ {e} /\ HeldBy(j) = op.todo
        BY <1>1, <1>3, <2>2, <3>1, SMTT(30) DEF HeldBy, Freeing
      <4> QED
        BY <1>4, <1>5, <1>6, <3>1, <4>1, Zenon DEF IInv, Inv, Arranged
    <3>2. CASE j # k
      <4>1. f \in OnDisk(tree[j].items) /\ HeldBy(j) = OnDisk(tree[j].items)
        BY <1>1, <1>3, <2>2, <3>2 DEF HeldBy, Freeing
      <4>2. Arranged(tree)
        BY SMTT(30) DEF IInv, Inv
      <4>3. Extent(f) \cap Extent(e) = {}
        BY <1>4, <1>6, <3>2, <4>1, <4>2, Zenon DEF Arranged
      <4> QED
        BY <4>1, <4>3
    <3> QED
      BY <3>1, <3>2
  <2>3. \A j \in Inodes : \A f \in HeldBy(j)' : Extent(f) \cap free' = {}
    BY <1>1, <2>1, <2>2 DEF Spaced
  <2>4. \A x \in leaked' : x \cap free' = {}
    BY <1>1, <1>4, <1>6, <2>1 DEF Spaced
  <2>5. \A x \in leaked' : /\ x \in FS!Ranges
                         /\ \A j \in Inodes : \A f \in OnDisk(tree'[j].items) : Extent(f) \cap x = {}
    BY <1>1, <2>1, SMTT(30) DEF Spaced
  <2>6. OnDisk(op'.got) = {}
    BY <1>3, <1>5 DEF OnDisk
  <2> QED
    BY <2>3, <2>4, <2>5, <2>6, Zenon DEF Spaced
<1>11. OpInv'
  <2>1. OpInv
    BY DEF IInv, Inv
  <2>2. op'.todo \subseteq OnDisk(tree'[op'.ino].items)
    BY <1>1, <1>3, <1>5
  <2> QED
    BY <1>1, <1>3, <1>4, <2>1, <2>2, SMTT(30) DEF OpInv
<1>12. WriteInv' /\ CutInv' /\ CommitInv'
  BY <1>1, <1>3 DEF WriteInv, CutInv, CommitInv, Writing, At
<1> QED
  BY <1>3, <1>7, <1>8, <1>9, <1>10, <1>11, <1>12, SMTT(30) DEF IInv, Inv, Typed

\* A step of a call on its own file leaves what is promised of the files alone.
LEMMA OwnStep ==
  ASSUME IInv, op # Idle, NEW X,
         \A j \in Inodes \ {op.ino} : tree'[j] = tree[j],
         op.kind = "truncate" => Follows(op.ino),
         leaked' = leaked \cup X, DiskKept, UNCHANGED <<image, body, saved, handle>>
  PROVE  BodyInv' /\ SavedInv' /\ HandleInv' /\ Arranged(image)' /\ PromisesTyped'
<1> DEFINE k == op.ino
<1>1. k \in Inodes /\ body[k] = {} /\ (op.kind # "truncate" => saved[k] = {} /\ ~(handle.open /\ handle.ino = k))
  BY Zenon DEF IInv, Inv, OpInv
<1>2. \A j \in Inodes \ {k} : Follows(j)
  BY SameItemsFollow
<1>3. BodyInv'
  BY <1>1, BodiesStay, ZenonT(40) DEF IInv, Inv, Typed
<1>4. SavedInv'
  <2>1. \A i \in Inodes : saved'[i] = {} \/ (saved'[i] = saved[i] /\ Follows(i))
    BY <1>1, <1>2, SMTT(30)
  <2> QED
    BY <2>1, SavedStay, SMTT(30) DEF IInv, Inv, Typed
<1>5. HandleInv'
  <2>1. handle.open => handle.ino \in Inodes
    BY SMTT(30) DEF IInv, Inv, HandleInv
  <2>2. handle.open => Follows(handle.ino)
    BY <1>1, <1>2, <2>1, SMTT(30)
  <2> QED
    BY <2>2, HandleStays, SMTT(30) DEF IInv, Inv
<1>6. Arranged(image)' /\ PromisesTyped'
  BY DEF IInv, Inv, Typed, PromisesTyped
<1> QED
  BY <1>3, <1>4, <1>5, <1>6, Zenon

\* The items of a file, or of none but the one whose call runs, go away, and no
\* space moves.
LEMMA FewerSpaced ==
  ASSUME IInv, \A j \in Inodes : OnDisk(tree'[j].items) \subseteq OnDisk(tree[j].items),
         \A j \in Inodes : OnDisk(tree'[j].items) \subseteq HeldBy(j),
         ~Freeing(op.ino)', op'.got = op.got, UNCHANGED <<free, leaked>>
  PROVE  Spaced' /\ SpaceTyped'
<1>1. \A j \in Inodes : HeldBy(j)' = OnDisk(tree'[j].items)
  BY SMTT(30) DEF HeldBy, Freeing
<1>2. Spaced
  BY SMTT(30) DEF IInv, Inv
<1>3. \A j \in Inodes : \A f \in HeldBy(j)' : Extent(f) \cap free' = {}
  BY <1>1, <1>2 DEF Spaced
<1>4. \A x \in leaked' : /\ x \in FS!Ranges /\ x \cap free' = {}
                         /\ \A j \in Inodes : \A f \in OnDisk(tree'[j].items) : Extent(f) \cap x = {}
  BY <1>2, Zenon DEF Spaced
<1>5. \A g \in OnDisk(op'.got) :
       /\ Extent(g) \cap free' = {}
       /\ \A x \in leaked' : Extent(g) \cap x = {}
       /\ \A i \in Inodes : \A e \in OnDisk(tree'[i].items) : Extent(e) \cap Extent(g) = {}
  BY <1>2, Zenon DEF Spaced
<1>6. Spaced'
  BY <1>3, <1>4, <1>5, Zenon DEF Spaced
<1>7. SpaceTyped'
  BY SMTT(30) DEF IInv, Typed, SpaceTyped, Whole
<1> QED
  BY <1>6, <1>7, SMTT(30)

\* The items of a file go once all their extents are given back.
LEMMA DropStep ==
  ASSUME IInv, dropExtents
  PROVE  IInv'
<1> DEFINE k == op.ino
           s == IF op.kind = "remove" THEN "unlink" ELSE "extent"
<1>1. /\ op.kind \in {"overwrite", "remove"} /\ op.stage = "begin" /\ op.todo = {}
      /\ tree' = [tree EXCEPT ![k].items = {}] /\ op' = [op EXCEPT !.stage = s]
      /\ UNCHANGED <<image, free, leaked, disk, body, saved, handle, faults>>
  BY DEF dropExtents, At, Ghosts, Goto
<1>2. k \in Inodes /\ op # Idle
  BY <1>1, OpGoes
<1>3. s \in Stages
  BY DEF Stages
<1> HIDE DEF s
<1>4. /\ OpTyped' /\ op'.stage = s /\ op'.kind = op.kind /\ op'.ino = k /\ op'.data = op.data
      /\ op'.size = op.size /\ op'.want = op.want /\ op'.at = op.at /\ op'.todo = op.todo
      /\ op'.got = op.got
  BY <1>1, <1>3, StageReplaced DEF IInv, Typed
<1>5. /\ TreesTyped'
      /\ \A j \in Inodes : /\ tree'[j].there = tree[j].there /\ tree'[j].named = tree[j].named
                           /\ tree'[j].size = tree[j].size
                           /\ tree'[j].items = IF j = k THEN {} ELSE tree[j].items
  <2>1. {} \in SUBSET Items /\ TreesTyped /\ image' = image /\ tree' = [tree EXCEPT ![k].items = {}]
    BY <1>1 DEF IInv, Typed
  <2> QED
    BY <1>2, <2>1, ItemsReplaced, Zenon
<1>6. \A j \in Inodes \ {k} : tree'[j] = tree[j]
  BY <1>1, <1>2 DEF IInv, Typed, TreesTyped
<1>7. Arranged(tree)'
  <2>1. Laid({}) /\ OnDisk({}) = {}
    BY DEF Laid, Sorted, OnDisk
  <2>2. tree[k].named => tree[k].there
    BY <1>2, Zenon DEF IInv, Inv, Arranged
  <2> QED
    BY <1>2, <1>5, <1>6, <2>1, <2>2, OneInodeArranged, ZenonT(40) DEF IInv, Inv
<1>8. BodyInv' /\ SavedInv' /\ HandleInv' /\ Arranged(image)' /\ PromisesTyped'
  <2>1. leaked' = leaked \cup {} /\ DiskKept /\ op.kind # "truncate"
    BY <1>1, SameDisk
  <2> QED
    BY <1>1, <1>2, <1>6, <2>1, OwnStep
<1>9. Spaced' /\ SpaceTyped'
  <2>1. ~Freeing(op.ino)'
    BY <1>4 DEF Freeing, s
  <2>2. \A j \in Inodes : OnDisk(tree'[j].items) \subseteq OnDisk(tree[j].items)
    BY <1>5, SMTT(30) DEF OnDisk
  <2>3. \A j \in Inodes : OnDisk(tree'[j].items) \subseteq HeldBy(j)
    BY <1>2, <1>5 DEF OnDisk, HeldBy, Freeing
  <2> QED
    BY <1>1, <1>4, <2>1, <2>2, <2>3, FewerSpaced, SMTT(30)
<1>10. DiskTyped'
  BY <1>1 DEF IInv, Typed, DiskTyped
<1>11. OpInv'
  <2>1. OpInv /\ op'.kind = op.kind /\ tree'[k].there = tree[k].there /\ tree'[k].items = {}
    BY <1>2, <1>4, <1>5 DEF IInv, Inv
  <2>2. op'.stage \in {"unlink", "extent"} /\ (op'.stage = "unlink" <=> op.kind = "remove")
    BY <1>4 DEF s
  <2> QED
    BY <1>1, <1>2, <1>4, <2>1, <2>2, SMTT(30) DEF OpInv, Freeing
<1>12. WriteInv'
  <2>1. CASE op.kind = "remove"
    BY <1>1, <1>4, <2>1, SMTT(30) DEF WriteInv, Writing, At, s
  <2>2. CASE op.kind = "overwrite"
    <3>1. tree'[k].items = {} /\ op'.stage = "extent" /\ op'.kind = "overwrite"
      BY <1>2, <1>4, <1>5, <2>2, SMTT(30) DEF s
    <3>2. op'.at = 0
      BY <1>1, <1>2, <1>4, <2>2, SMTT(30) DEF IInv, Inv, OpInv, Freeing
    <3>3. Len(op.data) \in Nat /\ op'.data = op.data /\ op'.ino = k
      BY <1>4, OpFields, SMTT(30) DEF IInv, Typed
    <3>4. WrittenSoFar'
      BY <3>1, <3>2, <3>3 DEF WrittenSoFar, EndBy
    <3> QED
      BY <3>1, <3>2, <3>4, SMTT(30) DEF WriteInv
  <2> QED
    BY <1>1, <2>1, <2>2
<1>13. CutInv' /\ CommitInv'
  BY <1>1, <1>4 DEF CutInv, CommitInv, At, s
<1> QED
  BY <1>4, <1>5, <1>7, <1>8, <1>9, <1>10, <1>11, <1>12, <1>13, SMTT(30) DEF IInv, Inv, Typed

\* The size and the bytes of an inode are replaced.
LEMMA SizeReplaced ==
  ASSUME TreesTyped, NEW k \in Inodes, NEW s \in Nat, NEW b,
         tree' = [tree EXCEPT ![k] = [tree[k] EXCEPT !.size = s, !.nbytes = b]], image' = image
  PROVE  /\ TreesTyped'
         /\ \A j \in Inodes \ {k} : tree'[j] = tree[j]
         /\ tree'[k].there = tree[k].there /\ tree'[k].named = tree[k].named
         /\ tree'[k].items = tree[k].items /\ tree'[k].size = s
<1>1. PICK N : tree \in [Inodes -> FileType(N)]
  BY DEF TreesTyped
<1> DEFINE r == [tree[k] EXCEPT !.size = s, !.nbytes = b]
<1>2. /\ r \in FileType(N \cup {b}) /\ r.there = tree[k].there /\ r.named = tree[k].named
      /\ r.size = s /\ r.items = tree[k].items
  BY <1>1, Zenon DEF FileType
<1>3. PICK M : r \in FileType(M)
  BY <1>2
<1>4. tree' = [tree EXCEPT ![k] = r]
  OBVIOUS
<1> HIDE DEF r
<1>5. TreesTyped' /\ \A j \in Inodes : tree'[j] = IF j = k THEN r ELSE tree[j]
  BY <1>3, <1>4, InodeReplaced, Zenon
<1> QED
  BY <1>2, <1>5

\* The last step on the inode: the items stay, and the file is what was promised.
LEMMA LastStep ==
  ASSUME IInv, op # Idle, op.got = {}, ~Freeing(op.ino), op' = [op EXCEPT !.stage = "commit"],
         UNCHANGED <<image, free, leaked, disk, body, saved, handle, faults>>, TreesTyped',
         \A j \in Inodes \ {op.ino} : tree'[j] = tree[j],
         tree'[op.ino].items = tree[op.ino].items,
         tree'[op.ino].named => tree'[op.ino].there,
         ~tree'[op.ino].there => tree'[op.ino].items = {},
         op.kind # "remove" => tree'[op.ino].there,
         op.kind = "create" => tree'[op.ino].size = Len(op.data),
         op.want # {} => /\ \A w \in op.want : w = Content(tree'[op.ino].items, tree'[op.ino].size, disk)
                         /\ EndBy(tree'[op.ino].items, tree'[op.ino].size)
  PROVE  IInv'
<1> DEFINE k == op.ino
<1>1. k \in Inodes /\ OpInv
  BY DEF IInv, Inv, OpInv
<1>2. "commit" \in Stages
  BY DEF Stages
<1>3. /\ OpTyped' /\ op'.stage = "commit" /\ op'.kind = op.kind /\ op'.ino = k /\ op'.data = op.data
      /\ op'.size = op.size /\ op'.want = op.want /\ op'.got = op.got
  BY <1>2, StageReplaced DEF IInv, Typed
<1>4. \A j \in Inodes : tree'[j].items = tree[j].items
  BY <1>1
<1>5. Arranged(tree)'
  <2>1. Laid(tree[k].items)
    BY <1>1 DEF IInv, Inv, Arranged
  <2>2. \A e, f \in OnDisk(tree[k].items) : e = f \/ Extent(e) \cap Extent(f) = {}
    BY <1>1 DEF IInv, Inv, Arranged
  <2>3. \A e \in OnDisk(tree[k].items) : \A j \in Inodes \ {k} : \A f \in OnDisk(tree[j].items) :
           Extent(e) \cap Extent(f) = {}
    BY <1>1 DEF IInv, Inv, Arranged
  <2> QED
    BY <1>1, <2>1, <2>2, <2>3, OneInodeArranged, SMTT(30) DEF IInv, Inv
<1>6. BodyInv' /\ SavedInv' /\ HandleInv' /\ Arranged(image)' /\ PromisesTyped'
  <2>1. leaked' = leaked \cup {} /\ DiskKept
    BY SameDisk
  <2>2. Follows(k)
    BY SameItemsFollow, SMTT(30)
  <2> QED
    BY <2>1, <2>2, OwnStep, Zenon
<1>7. Spaced' /\ SpaceTyped'
  <2>1. ~Freeing(op.ino)'
    BY <1>3 DEF Freeing
  <2>2. \A j \in Inodes : OnDisk(tree'[j].items) \subseteq OnDisk(tree[j].items)
    BY <1>4
  <2>3. \A j \in Inodes : OnDisk(tree'[j].items) \subseteq HeldBy(j)
    BY <1>4 DEF HeldBy, Freeing
  <2> QED
    BY <1>3, <2>1, <2>2, <2>3, FewerSpaced, SMTT(30)
<1>8. DiskTyped'
  BY DEF IInv, Typed, DiskTyped
<1>9. OpInv'
  BY <1>1, <1>3 DEF OpInv, Freeing
<1>10. WriteInv' /\ CutInv'
  BY <1>3 DEF WriteInv, CutInv, Writing, At
<1>11. CommitInv'
  BY <1>3, SMTT(30) DEF CommitInv, Promised
<1> QED
  BY <1>3, <1>5, <1>6, <1>7, <1>8, <1>9, <1>10, <1>11, SMTT(30) DEF IInv, Inv, Typed

\* What writeExtents has stored in the end.
LEMMA AllWritten ==
  ASSUME IInv, op.stage \in {"link", "inode"}
  PROVE  /\ op.data = Content(tree[op.ino].items, Len(op.data), disk)
         /\ EndBy(tree[op.ino].items, Len(op.data))
<1>1. WrittenSoFar /\ op.at = Len(op.data)
  BY SMTT(30) DEF IInv, Inv, WriteInv
<1>2. op.data \in Seq(Cells) /\ Len(op.data) \in Nat
  BY OpFields, SMTT(30) DEF IInv, Typed
<1> DEFINE D == op.data
           n == Len(op.data)
           S == tree[op.ino].items
<1>3. D = [p \in 1 .. n |-> D[p]]
  BY <1>2, SeqShape, SMTT(30)
<1>4. \A p \in Nat : p < n => UnitAt(S, p, disk) = D[p + 1]
  BY <1>1 DEF WrittenSoFar
<1> HIDE DEF D, n, S
<1>5. \A p \in 1 .. n : UnitAt(S, p - 1, disk) = D[p]
  <2> SUFFICES ASSUME NEW p \in 1 .. n PROVE UnitAt(S, p - 1, disk) = D[p]
    OBVIOUS
  <2>1. n \in Nat
    BY <1>2 DEF n
  <2>2. p - 1 \in Nat /\ p - 1 < n /\ (p - 1) + 1 = p
    BY <2>1
  <2> QED
    BY <1>4, <2>2
<1>6. D = Content(S, n, disk)
  BY <1>3, <1>5 DEF Content
<1> QED
  BY <1>1, <1>6, SMTT(30) DEF D, n, S, WrittenSoFar

\* updateInode writes the size of the new body.
LEMMA UpdateStep ==
  ASSUME IInv, updateInode
  PROVE  IInv'
<1> DEFINE k == op.ino
           n == Len(op.data)
           b == classifyExtent(op.data)
<1>1. /\ op.kind = "overwrite" /\ op.stage = "inode"
      /\ tree' = [tree EXCEPT ![k].size = n, ![k].nbytes = b] /\ op' = [op EXCEPT !.stage = "commit"]
      /\ UNCHANGED <<image, free, leaked, disk, body, saved, handle, faults>>
  BY DEF updateInode, At, Ghosts, Goto
<1>2. k \in Inodes /\ op # Idle /\ n \in Nat
  BY <1>1, OpGoes, OpFields DEF IInv, Typed
<1> HIDE DEF b, n
<1>3. tree' = [tree EXCEPT ![k] = [tree[k] EXCEPT !.size = n, !.nbytes = b]]
  BY <1>1, <1>2, Zenon DEF IInv, Typed, TreesTyped
<1>4. TreesTyped /\ image' = image
  BY <1>1 DEF IInv, Typed
<1>5. /\ TreesTyped'
      /\ \A j \in Inodes \ {k} : tree'[j] = tree[j]
      /\ tree'[k].there = tree[k].there /\ tree'[k].named = tree[k].named
      /\ tree'[k].items = tree[k].items /\ tree'[k].size = n
  BY <1>2, <1>3, <1>4, SizeReplaced, Zenon
<1>6. op.data = Content(tree[k].items, n, disk) /\ EndBy(tree[k].items, n)
  BY <1>1, AllWritten DEF n
<1>7. op.want = {op.data} /\ op.got = {} /\ tree[k].there /\ ~Freeing(k)
  BY <1>1, <1>2, SMTT(30) DEF IInv, Inv, OpInv, Freeing
<1> QED
  BY <1>1, <1>2, <1>5, <1>6, <1>7, LastStep, Zenon

\* insertDirEntries names the new file.
LEMMA LinkStep ==
  ASSUME IInv, insertDirEntries
  PROVE  IInv'
<1> DEFINE k == op.ino
           r == [tree[k] EXCEPT !.named = TRUE]
<1>1. /\ op.kind = "create" /\ op.stage = "link"
      /\ tree' = [tree EXCEPT ![k].named = TRUE] /\ op' = [op EXCEPT !.stage = "commit"]
      /\ UNCHANGED <<image, free, leaked, disk, body, saved, handle, faults>>
  BY DEF insertDirEntries, At, Ghosts, Goto
<1>2. k \in Inodes /\ op # Idle
  BY <1>1, OpGoes
<1>3. tree' = [tree EXCEPT ![k] = r]
  BY <1>1
<1>4. PICK N : tree \in [Inodes -> FileType(N)]
  BY DEF IInv, Typed, TreesTyped
<1>5. r \in FileType(N) /\ r.there = tree[k].there /\ r.size = tree[k].size /\ r.items = tree[k].items
  BY <1>2, <1>4, Zenon DEF FileType
<1> HIDE DEF r
<1>6. TreesTyped /\ image' = image
  BY <1>1 DEF IInv, Typed
<1>7. TreesTyped' /\ \A j \in Inodes : tree'[j] = IF j = k THEN r ELSE tree[j]
  BY <1>2, <1>3, <1>5, <1>6, InodeReplaced, Zenon
<1>8. op.want = {op.data} /\ op.got = {} /\ tree[k].there /\ ~Freeing(k) /\ tree[k].size = Len(op.data)
  BY <1>1, <1>2 DEF IInv, Inv, OpInv, Freeing
<1>9. op.data = Content(tree[k].items, Len(op.data), disk) /\ EndBy(tree[k].items, Len(op.data))
  BY <1>1, AllWritten
<1>10. /\ tree'[k].items = tree[k].items /\ tree'[k].there /\ tree'[k].size = Len(op.data)
       /\ \A j \in Inodes \ {k} : tree'[j] = tree[j]
  BY <1>2, <1>5, <1>7, <1>8, Zenon
<1> QED
  BY <1>1, <1>2, <1>7, <1>8, <1>9, <1>10, LastStep, SMTT(30)

\* removeEntries drops the inode.
LEMMA UnlinkStep ==
  ASSUME IInv, removeEntries
  PROVE  IInv'
<1> DEFINE k == op.ino
<1>1. /\ op.kind = "remove" /\ op.stage = "unlink"
      /\ tree' = [tree EXCEPT ![k] = Absent] /\ op' = [op EXCEPT !.stage = "commit"]
      /\ UNCHANGED <<image, free, leaked, disk, body, saved, handle, faults>>
  BY DEF removeEntries, At, Ghosts, Goto
<1>2. k \in Inodes /\ op # Idle
  BY <1>1, OpGoes, SMTT(30)
<1>3. Absent \in FileType({0}) /\ Absent.items = {} /\ ~Absent.named
  BY DEF Absent, FileType
<1>4. TreesTyped /\ image' = image
  BY <1>1 DEF IInv, Typed
<1>5. TreesTyped' /\ \A j \in Inodes : tree'[j] = IF j = k THEN Absent ELSE tree[j]
  BY <1>1, <1>2, <1>3, <1>4, InodeReplaced, Zenon
<1>6. op.want = {} /\ op.got = {} /\ ~Freeing(k) /\ tree[k].items = {}
  BY <1>1, <1>2, SMTT(30) DEF IInv, Inv, OpInv, Freeing
<1>7. /\ tree'[k].items = tree[k].items /\ tree'[k].items = {} /\ ~tree'[k].named
      /\ \A j \in Inodes \ {k} : tree'[j] = tree[j]
  BY <1>2, <1>3, <1>5, <1>6
<1> QED
  BY <1>1, <1>2, <1>5, <1>6, <1>7, LastStep

\* truncateInodeItem writes the new size after the items are cut.
LEMMA TruncatedStep ==
  ASSUME IInv, truncateInodeItem
  PROVE  IInv'
<1> DEFINE k == op.ino
           n == op.size
           b == IF op.size >= tree[k].size THEN tree[k].nbytes
                ELSE MapThenSumSet(LAMBDA e : e.dlen, OnDisk(tree[k].items))
<1>1. /\ op.kind = "truncate" /\ op.stage = "begin" /\ op.todo = {}
      /\ op' = [op EXCEPT !.stage = "commit"]
      /\ UNCHANGED <<image, free, leaked, disk, body, saved, handle, faults>>
  BY DEF truncateInodeItem, At, Ghosts, Goto
<1>2. k \in Inodes /\ op # Idle /\ n \in Nat
  BY <1>1, OpGoes, OpFields DEF IInv, Typed
<1>3. tree' = [tree EXCEPT ![k] = [tree[k] EXCEPT !.size = n, !.nbytes = b]]
  BY <1>2, Zenon DEF truncateInodeItem, IInv, Typed, TreesTyped, FileType
<1> HIDE DEF b, n
<1>4. TreesTyped /\ image' = image
  BY <1>1 DEF IInv, Typed
<1>5. /\ TreesTyped'
      /\ \A j \in Inodes \ {k} : tree'[j] = tree[j]
      /\ tree'[k].there = tree[k].there /\ tree'[k].named = tree[k].named
      /\ tree'[k].items = tree[k].items /\ tree'[k].size = n
  BY <1>2, <1>3, <1>4, SizeReplaced, Zenon
<1>6. op.want # {} => /\ \A w \in op.want : w = Content(tree[k].items, n, disk)
                      /\ EndBy(tree[k].items, n)
  BY <1>1 DEF IInv, Inv, CutInv, At, n
<1>7. op.got = {} /\ tree[k].there /\ ~Freeing(k)
  BY <1>1, <1>2, SMTT(30) DEF IInv, Inv, OpInv, Freeing
<1> QED
  BY <1>1, <1>2, <1>5, <1>6, <1>7, LastStep

(* writeExtents. *)

\* The call has chosen an item, and taken its extent from the free list.
LEMMA GotStep ==
  ASSUME IInv, Writing, NEW g, Got(g), NextItem(g),
         \/ g.start = 0 /\ free' = free
         \/ g.start # 0 /\ Extent(g) \subseteq free /\ free' = free \ Extent(g)
  PROVE  IInv'
<1> DEFINE k == op.ino
<1>1. /\ op' = [op EXCEPT !.stage = "store", !.got = {g}]
      /\ UNCHANGED <<tree, image, leaked, disk, body, saved, handle, faults>>
  BY SMTT(30) DEF Got, Ghosts
<1>2. k \in Inodes /\ op # Idle /\ OpInv /\ op.kind \in {"create", "overwrite"} /\ ~Freeing(k)
  BY OpGoes, SMTT(30) DEF IInv, Inv, Writing, At, Freeing
<1>3. ItemOK(g) /\ g \in Items
  BY DEF NextItem, ItemOK
<1>4. /\ OpTyped' /\ op'.stage = "store" /\ op'.kind = op.kind /\ op'.ino = k /\ op'.data = op.data
      /\ op'.size = op.size /\ op'.want = op.want /\ op'.at = op.at /\ op'.todo = op.todo
      /\ op'.got = {g}
  BY <1>1, <1>3, Zenon DEF IInv, Typed, OpTyped, OpType, Stages
<1>5. /\ TreesTyped' /\ PromisesTyped' /\ Arranged(tree)' /\ Arranged(image)'
      /\ BodyInv' /\ SavedInv' /\ HandleInv'
  BY <1>1, FilesStay
<1>6. DiskTyped'
  BY <1>1, SMTT(30) DEF IInv, Typed, DiskTyped
<1>7. SpaceTyped' /\ free' \subseteq free
  <2>1. g.start # 0 => Whole(Extent(g)) /\ Extent(g) \subseteq Units
    BY <1>3, ItemFacts
  <2>2. free \subseteq Units /\ Whole(free)
    BY DEF IInv, Typed, SpaceTyped
  <2> QED
    BY <2>1, <2>2, SMTT(30) DEF SpaceTyped, Whole
<1>8. Spaced'
  <2>1. Spaced
    BY DEF IInv, Inv
  <2>2. \A j \in Inodes : HeldBy(j) = OnDisk(tree[j].items) /\ HeldBy(j)' = OnDisk(tree[j].items)
    BY <1>1, <1>2, <1>4 DEF HeldBy, Freeing
  <2>3. ASSUME NEW j \in Inodes, NEW f \in OnDisk(tree[j].items) PROVE Extent(f) \cap free = {}
    <3>1. f \in HeldBy(j)
      BY <2>2, <2>3, Zenon
    <3> QED
      BY <2>1, <3>1, Zenon DEF Spaced
  <2>4. ASSUME NEW j \in Inodes, NEW f \in HeldBy(j)' PROVE Extent(f) \cap free' = {}
    <3>1. f \in OnDisk(tree[j].items)
      BY <2>2, <2>4, Zenon
    <3> QED
      BY <1>7, <2>3, <3>1
  <2>5. \A x \in leaked' : /\ x \in FS!Ranges /\ x \cap free' = {}
                           /\ \A j \in Inodes : \A f \in OnDisk(tree'[j].items) : Extent(f) \cap x = {}
    BY <1>1, <1>7, <2>1 DEF Spaced
  <2>6. ASSUME NEW h \in OnDisk(op'.got)
        PROVE  /\ Extent(h) \cap free' = {}
               /\ \A x \in leaked' : Extent(h) \cap x = {}
               /\ \A i \in Inodes : \A e \in OnDisk(tree'[i].items) : Extent(e) \cap Extent(h) = {}
    <3>1. h = g /\ g.start # 0
      BY <1>4 DEF OnDisk
    <3>2. Extent(g) \subseteq free /\ free' = free \ Extent(g)
      BY <3>1
    <3>3. \A x \in leaked : x \cap free = {}
      BY <2>1, Zenon DEF Spaced
    <3> QED
      BY <1>1, <2>3, <3>1, <3>2, <3>3, SMTT(30)
  <2> QED
    BY <2>4, <2>5, <2>6, Zenon DEF Spaced
<1>9. OpInv'
  BY <1>1, <1>2, <1>4 DEF OpInv, Freeing
<1>10. WriteInv'
  <2>1. WrittenSoFar
    BY Zenon DEF IInv, Inv, WriteInv
  <2>2. WrittenSoFar'
    BY <1>1, <1>4, <2>1, SMTT(30) DEF WrittenSoFar
  <2>3. NextItem(g)'
    BY <1>4, Zenon DEF NextItem, Stored
  <2> QED
    BY <1>4, <2>2, <2>3, ZenonT(40) DEF WriteInv, Writing, At
<1>11. CutInv' /\ CommitInv'
  BY <1>4, Zenon DEF CutInv, CommitInv, At
<1> QED
  BY <1>4, <1>5, <1>6, <1>7, <1>8, <1>9, <1>10, <1>11, SMTT(30) DEF IInv, Inv, Typed

\* A call that goes on writing has something to write.
LEMMA WritingFacts ==
  ASSUME IInv, Writing
  PROVE  /\ Len(op.data) \in Nat /\ op.at \in Nat /\ op.data \in Seq(Cells) /\ MaxInline \in Nat
         /\ ~Stored => op.at = 0
         /\ Stored => op.at < Len(op.data)
<1>1. /\ Len(op.data) \in Nat /\ op.at \in Nat /\ op.data \in Seq(Cells) /\ MaxInline \in Nat
  BY OpFields, FileBodyAssumption, SMTT(30) DEF IInv, Typed
<1>2. op.at = 0 \/ (Stored /\ op.at < Len(op.data))
  BY DEF IInv, Inv, WriteInv
<1>3. Stored => Len(op.data) > 0
  BY <1>1, SMTT(30) DEF Stored
<1> QED
  BY <1>1, <1>2, <1>3, SMTT(30)

\* A body that needs no extent becomes an item without one.
LEMMA InlineStep ==
  ASSUME IInv, writeWithoutExtent
  PROVE  IInv'
<1> DEFINE n == Len(op.data)
           g == IF n <= MaxInline THEN encodeExtentDataInline(op.data)
                ELSE encodeExtentData(0, 0, 0, n)
<1>1. Writing /\ ~Stored /\ Got(g) /\ free' = free
  BY DEF writeWithoutExtent
<1>2. n \in Nat /\ MaxInline \in Nat /\ op.at = 0 /\ op.data \in Seq(Nat \X Nat \X Nat)
  BY <1>1, WritingFacts DEF Cells
<1>3. /\ g \in Items /\ g.off = 0 /\ g.num = n /\ g.start = 0
      /\ g.type = "inline" => g.data = op.data
      /\ g.type # "inline" => ~(n <= MaxInline)
  <2>1. <<>> \in Seq(Nat \X Nat \X Nat)
    OBVIOUS
  <2> QED
    BY <1>2, <2>1, Zenon DEF encodeExtentDataInline, encodeExtentData, Items
<1> HIDE DEF g
<1>4. ItemOK(g)
  BY <1>3 DEF ItemOK
<1>5. g.off = op.at /\ g.off + g.num <= Len(op.data)
  BY <1>2, <1>3, SMTT(30)
<1>6. NextItem(g)
  BY <1>1, <1>2, <1>3, <1>4, <1>5, SMTT(30) DEF NextItem, Stored
<1> QED
  BY <1>1, <1>3, <1>6, GotStep

\* The next item is one with an extent that was free until now.
TookExtent == \E g : /\ Got(g) /\ ItemOK(g) /\ g.start # 0
                     /\ Extent(g) \subseteq free /\ free' = free \ Extent(g)

\* An extent that was taken makes the next item.
LEMMA TakenItem ==
  ASSUME IInv, Writing, Stored, NEW s, NEW n, Takes(s, n), NEW m \in Nat, m <= n,
         op.at + m <= Len(op.data), free' = free \ (s .. s + n - 1),
         Got(encodeExtentData(op.at, s, n, m))
  PROVE  IInv' /\ TookExtent
<1> DEFINE g == encodeExtentData(op.at, s, n, m)
<1>1. s \in Nat /\ s # 0 /\ n \in Nat \ {0}
  <2>1. PICK k \in 1 .. Sectors + 1 : s = SectorSize * k
    BY DEF Takes, Aligned
  <2>2. SectorSize \in Nat \ {0} /\ k \in Nat \ {0}
    BY UnitFacts
  <2>3. s \in Nat /\ s # 0
    BY <2>1, <2>2, SMTT(30)
  <2> QED
    BY <2>3, SMTT(30) DEF Takes
<1>2. /\ g \in Items /\ g.off = op.at /\ g.num = m /\ g.start = s /\ g.dlen = n /\ g.type = "regular"
  <2>1. <<>> \in Seq(Nat \X Nat \X Nat) /\ op.at \in Nat
    BY WritingFacts
  <2> QED
    BY <1>1, <2>1 DEF encodeExtentData, Items
<1> HIDE DEF g
<1>3. ItemOK(g)
  BY <1>1, <1>2, SMTT(30) DEF ItemOK, Takes
<1>4. NextItem(g)
  BY <1>1, <1>2, <1>3 DEF NextItem
<1>5. Extent(g) = s .. s + n - 1
  BY <1>2, SMTT(30) DEF Extent
<1>6. Extent(g) \subseteq free /\ free' = free \ Extent(g) /\ g.start # 0
  BY <1>1, <1>2, <1>5 DEF Takes
<1>7. Got(g)
  BY DEF g
<1>8. IInv'
  BY <1>4, <1>6, <1>7, GotStep, Zenon
<1> QED
  BY <1>3, <1>6, <1>7, <1>8, SMTT(30) DEF TookExtent

\* allocDataBytes takes the first entry that is long enough.
LEMMA AllocStep ==
  ASSUME IInv, allocDataBytes
  PROVE  IInv' /\ TookExtent
<1> DEFINE l == Len(op.data)
           n == RoundUp(l)
<1>0. PICK f \in FirstFit(n) :
        /\ free' = free \ (f.physStart .. f.physStart + n - 1)
        /\ Got(encodeExtentData(0, f.physStart, n, l))
  BY SMTT(30) DEF allocDataBytes
<1> DEFINE s == f.physStart
<1>1. /\ Writing /\ op.at = 0 /\ Stored
      /\ free' = free \ (s .. s + n - 1) /\ Got(encodeExtentData(0, s, n, l))
  BY <1>0, Zenon DEF allocDataBytes
<1>2. l \in Nat \ {0}
  BY <1>1, WritingFacts, SMTT(30)
<1>3. Takes(s, n) /\ l <= n
  BY <1>1, <1>2, FirstFitTakes DEF IInv, Typed, SpaceTyped
<1> HIDE DEF s, n
<1>4. op.at + l <= Len(op.data) /\ Got(encodeExtentData(op.at, s, n, l))
  BY <1>1, <1>2, SMTT(30)
<1> QED
  BY <1>1, <1>2, <1>3, <1>4, TakenItem, SMTT(30)

\* allocDataBytesUpTo takes what it can of the largest entry.
LEMMA AllocUpToStep ==
  ASSUME IInv, allocDataBytesUpTo
  PROVE  IInv' /\ TookExtent
<1> DEFINE rem == Len(op.data) - op.at
<1>0. PICK f \in Largest :
        LET t == UpToSize(f.size, rem)
        IN  /\ free' = free \ (f.physStart .. f.physStart + t - 1)
            /\ Got(encodeExtentData(op.at, f.physStart, t, IF t > rem THEN rem ELSE t))
  BY DEF allocDataBytesUpTo
<1> DEFINE s == f.physStart
           n == UpToSize(f.size, rem)
           m == IF n > rem THEN rem ELSE n
<1>1. /\ Writing /\ Stored
      /\ free' = free \ (s .. s + n - 1) /\ Got(encodeExtentData(op.at, s, n, m))
  BY <1>0, Zenon DEF allocDataBytesUpTo, InLoop
<1>2. Len(op.data) \in Nat /\ op.at \in Nat /\ op.at < Len(op.data)
  BY <1>1, WritingFacts, SMTT(30)
<1>3. rem \in Nat \ {0} /\ op.at + rem = Len(op.data)
  BY <1>2, SMTT(30)
<1> HIDE DEF rem
<1>4. Takes(s, n)
  BY <1>1, <1>3, LargestTakes DEF IInv, Typed, SpaceTyped
<1> HIDE DEF s, n
<1>5. n \in Nat
  BY <1>4 DEF Takes
<1>6. m \in Nat /\ m <= n /\ op.at + m <= Len(op.data)
  BY <1>2, <1>3, <1>5
<1> HIDE DEF m
<1> QED
  BY <1>1, <1>4, <1>6, TakenItem, SMTT(30)
=============================================================================
