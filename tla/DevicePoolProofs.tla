-------------------------- MODULE DevicePoolProofs --------------------------
(***************************************************************************)
(* Reads of a pool return what the layout of the profiles and the writes   *)
(* put there, for any number of devices and stripes, any stripe length and *)
(* any devices that are missing or fail: what a route leads to is the unit *)
(* that was asked for, and every copy of a unit is on its route.           *)
(***************************************************************************)
EXTENDS PoolStateProofs

----------------------------------------------------------------------------
(* The groups of a row of RAID10. *)

InGroups(c) ==
  /\ c \in Chunks /\ c.profile = "raid10"
  /\ Len(c.stripes) > 0 /\ Len(c.stripes) = Groups(c) * subStripes(c)

\* The numbers of a chunk in groups.
LEMMA GroupNumbers ==
  ASSUME NEW c, InGroups(c)
  PROVE  /\ Len(c.stripes) \in Nat \ {0} /\ Groups(c) \in Nat \ {0} /\ subStripes(c) \in Nat \ {0}
         /\ Len(c.stripes) = subStripes(c) * Groups(c)
         /\ c.stripeLen \in Nat \ {0} /\ c.log \in Nat /\ c.size \in Nat \ {0}
         /\ DOMAIN c.stripes = 1 .. Len(c.stripes)
         /\ ~Mirrored(c) /\ \A row : ParityColumns(c, row) = {}
<1>1. c.stripes \in Seq(Stripes) /\ subStripes(c) \in Nat \ {0}
  BY DEF InGroups, Chunks, subStripes
<1>2. Len(c.stripes) \in Nat \ {0} /\ DOMAIN c.stripes = 1 .. Len(c.stripes)
  BY <1>1, SeqShape DEF InGroups
<1>3. Groups(c) \in Nat
  BY <1>1, <1>2, Euclid, Zenon DEF Groups
<1>4. c.stripeLen \in Nat \ {0} /\ c.log \in Nat /\ c.size \in Nat \ {0}
  BY DEF InGroups, Chunks
<1>5. ~Mirrored(c) /\ nparity(c) = 0
  BY DEF InGroups, Mirrored, nparity
<1>6. 0 .. 0 - 1 = {}
  OBVIOUS
<1>7. \A row : ParityColumns(c, row) = {}
  BY <1>5, <1>6 DEF ParityColumns
<1>8. Len(c.stripes) = Groups(c) * subStripes(c)
  BY DEF InGroups
<1> DEFINE g == Groups(c)
           s == subStripes(c)
           n == Len(c.stripes)
<1> HIDE DEF g, s, n
<1>9. g \in Nat /\ s \in Nat \ {0} /\ n \in Nat \ {0} /\ n = g * s
  BY <1>1, <1>2, <1>3, <1>8 DEF g, s, n
<1>10. g # 0 /\ n = s * g
  BY <1>9
<1> QED
  BY <1>1, <1>2, <1>4, <1>5, <1>7, <1>9, <1>10 DEF g, s, n

\* A stripe of a chunk in groups is a number of rows.
LEMMA GroupRows ==
  ASSUME NEW c, InGroups(c), NEW u, LaidOut(c, u)
  PROVE  \E R \in Nat : StripeSize(c) = c.stripeLen * R /\ c.size = c.stripeLen * R * Groups(c)
<1>1. /\ Groups(c) \in Nat \ {0} /\ c.stripeLen \in Nat \ {0} /\ c.size \in Nat
      /\ ~Mirrored(c) /\ c.profile = "raid10"
  BY GroupNumbers DEF InGroups
<1>2. StripeSize(c) = c.size \div Groups(c)
  BY <1>1, Zenon DEF StripeSize
<1>3. StripeSize(c) \in Nat
  BY <1>1, <1>2, Euclid
<1>4. StripeSize(c) % c.stripeLen = 0 /\ c.size = StripeSize(c) * Groups(c)
  BY <1>1 DEF LaidOut
<1> DEFINE S == StripeSize(c)
           R == S \div c.stripeLen
<1> HIDE DEF S
<1>5. R \in Nat /\ S = c.stripeLen * R + (S % c.stripeLen)
  BY <1>1, <1>3, Euclid, Zenon DEF S
<1>6. S % c.stripeLen = 0 /\ c.size = S * Groups(c)
  BY <1>4 DEF S
<1> HIDE DEF R
<1>7. S = c.stripeLen * R
  BY <1>1, <1>5, <1>6, SMTT(30)
<1> QED
  BY <1>5, <1>6, <1>7 DEF S

\* What a stripe of a group holds at a place of a row.
LEMMA LayoutOfGroup ==
  ASSUME NEW c, InGroups(c), NEW row \in Nat, NEW in \in 0 .. c.stripeLen - 1, NEW i
  PROVE  Layout(c, i, c.stripeLen * row + in) =
           DataAt(c.log + (row * Groups(c) + i \div subStripes(c)) * c.stripeLen + in, 0)
<1> DEFINE o == c.stripeLen * row + in
<1>1. o \div c.stripeLen = row /\ o % c.stripeLen = in
  BY GroupNumbers, DivisionUnique, Zenon
<1>2. ~Mirrored(c) /\ c.profile = "raid10" /\ i \notin ParityColumns(c, row)
  BY GroupNumbers DEF InGroups
<1> HIDE DEF o
<1>3. Layout(c, i, o) = DataAt(c.log + (row * Groups(c) + i \div subStripes(c)) * c.stripeLen + in, 0)
  BY <1>1, <1>2, Zenon DEF Layout
<1> QED
  BY <1>3 DEF o

\* Where an address lies in its row.
LEMMA GroupOfAddress ==
  ASSUME NEW c, InGroups(c), NEW a \in Nat, c.log <= a
  PROVE  IsPlace(c.log, c.stripeLen, Groups(c), stripeNr(c, a) \div Groups(c),
                 stripeNr(c, a) % Groups(c), stripeOff(c, a), a)
<1> DEFINE L == c.stripeLen
           D == Groups(c)
           x == a - c.log
           nr == x \div L
           off == x % L
           row == nr \div D
           col == nr % D
<1>1. L \in Nat \ {0} /\ D \in Nat \ {0} /\ c.log \in Nat /\ x \in Nat /\ a = c.log + x
  BY GroupNumbers
<1>2. nr \in Nat /\ off \in 0 .. L - 1 /\ x = L * nr + off
  <2> HIDE DEF L, x
  <2> QED
    BY <1>1, Euclid, Zenon
<1>3. row \in Nat /\ col \in 0 .. D - 1 /\ nr = D * row + col
  <2> HIDE DEF nr, D
  <2> QED
    BY <1>1, <1>2, Euclid, Zenon
<1>4. stripeNr(c, a) = nr /\ stripeOff(c, a) = off
  BY DEF stripeNr, stripeOff
<1> HIDE DEF L, D, x, nr, off, row, col
<1>5. nr = row * D + col
  BY <1>1, <1>3
<1>6. x = (row * D + col) * L + off
  BY <1>1, <1>2, <1>5
<1>7. (row * D + col) * L \in Nat
  BY <1>1, <1>3
<1>8. a = Place(c.log, L, D, row, col, off)
  BY <1>1, <1>2, <1>6, <1>7 DEF Place
<1>9. IsPlace(c.log, L, D, row, col, off, a)
  BY <1>1, <1>2, <1>3, <1>8 DEF IsPlace
<1> QED
  BY <1>4, <1>9 DEF L, D, row, col

\* The legs of readRAID10 lead to the address.
LEMMA LegsSound ==
  ASSUME NEW c, InGroups(c), NEW u, LaidOut(c, u), NEW a, InChunk(c, a), NEW leg \in 1 .. subStripes(c)
  PROVE  Holds(c, (stripeNr(c, a) % Groups(c)) * subStripes(c) + leg,
               (stripeNr(c, a) \div Groups(c)) * c.stripeLen + stripeOff(c, a), a)
<1> DEFINE L == c.stripeLen
           D == Groups(c)
           s == subStripes(c)
           n == Len(c.stripes)
           row == stripeNr(c, a) \div D
           col == stripeNr(c, a) % D
           off == stripeOff(c, a)
           i == s * col + (leg - 1)
<1>1. /\ L \in Nat \ {0} /\ D \in Nat \ {0} /\ s \in Nat \ {0} /\ n = s * D
      /\ c.log \in Nat /\ c.size \in Nat /\ DOMAIN c.stripes = 1 .. n /\ leg \in 1 .. s
  BY GroupNumbers
<1>2. a \in Nat /\ c.log <= a /\ a < c.log + c.size
  BY <1>1, SMTT(30) DEF InChunk
<1>3. IsPlace(c.log, L, D, row, col, off, a)
  BY <1>2, GroupOfAddress
<1>4. PICK R \in Nat : StripeSize(c) = L * R /\ c.size = L * R * D
  BY GroupRows
<1>5. Layout(c, i, L * row + off) = DataAt(c.log + (row * D + i \div s) * L + off, 0)
  <2>1. row \in Nat /\ off \in 0 .. L - 1
    BY <1>3 DEF IsPlace
  <2> HIDE DEF row, off, i
  <2> QED
    BY <2>1, LayoutOfGroup
<1> HIDE DEF L, D, s, n, row, col, off
<1>6. row \in Nat /\ col \in 0 .. D - 1 /\ off \in 0 .. L - 1 /\ a = c.log + (row * D + col) * L + off
  BY <1>3 DEF IsPlace, Place
<1>7. row < R
  <2>1. (row * D + col) * L \in Nat
    <3>1. L \in Nat /\ row \in Nat /\ D \in Nat /\ col \in Nat
      BY <1>1, <1>6, SMTT(30)
    <3>2. row * D \in Nat
      BY <3>1, ProductIsNat, Zenon
    <3>3. row * D + col \in Nat
      BY <3>1, <3>2, SMTT(30)
    <3> QED
      BY <3>1, <3>3, ProductIsNat, Zenon
  <2>2. (row * D + col) * L + off < L * R * D
    BY <1>1, <1>2, <1>4, <1>6, <2>1
  <2> QED
    BY <1>1, <1>6, <2>2, RowBound, Zenon
<1>8. L * row + off \in 0 .. StripeSize(c) - 1
  <2>1. L * row + off < L * R
    <3>1. L * row + off < L * R <=> row < R
      BY <1>1, <1>6, RowBound, Zenon
    <3> QED
      BY <1>7, <3>1, Zenon
  <2>2. L * row + off \in Nat /\ L * R \in Nat
    <3>1. L \in Nat /\ row \in Nat /\ R \in Nat /\ off \in Nat
      BY <1>1, <1>6, SMTT(30)
    <3>2. L * row \in Nat /\ L * R \in Nat
      BY <3>1, ProductIsNat, Zenon
    <3> QED
      BY <3>1, <3>2, SMTT(30)
  <2> QED
    BY <1>4, <2>1, <2>2
<1>9. i \div s = col
  <2> DEFINE r == leg - 1
  <2> HIDE DEF s, col
  <2>1. r \in 0 .. s - 1 /\ col \in Nat
    BY <1>1, <1>6, SMTT(30)
  <2> HIDE DEF r
  <2>2. (s * col + r) \div s = col
    BY <1>1, <2>1, DivisionUnique, Zenon
  <2> QED
    BY <2>2 DEF r
<1>10. i + 1 \in 1 .. n /\ (i + 1) - 1 = i /\ i + 1 = col * s + leg
  <2>a. s \in Nat \ {0} /\ col \in Nat /\ D \in Nat /\ col < D
    BY <1>1, <1>6
  <2>1. s * col + s <= s * D
    BY <2>a, StepOfProduct, Zenon
  <2>2. s * col \in Nat /\ s * D \in Nat /\ col * s = s * col
    BY <2>a
  <2> QED
    BY <1>1, <2>1, <2>2
<1> HIDE DEF i
<1>11. Layout(c, i, L * row + off) = DataAt(a, 0)
  BY <1>5, <1>6, <1>9
<1>12. Holds(c, i + 1, L * row + off, a)
  BY <1>1, <1>8, <1>10, <1>11 DEF Holds
<1>13. L * row = row * L
  BY <1>1, <1>6
<1> QED
  BY <1>10, <1>12, <1>13 DEF L, D, s, row, col, off

\* Only the legs of readRAID10 lead to the address.
LEMMA LegsComplete ==
  ASSUME NEW c, InGroups(c), NEW u, LaidOut(c, u), NEW a, NEW i, NEW o, Holds(c, i, o, a)
  PROVE  /\ a \in Nat /\ InChunk(c, a)
         /\ \E leg \in 1 .. subStripes(c) : i = (stripeNr(c, a) % Groups(c)) * subStripes(c) + leg
         /\ o = (stripeNr(c, a) \div Groups(c)) * c.stripeLen + stripeOff(c, a)
<1> DEFINE L == c.stripeLen
           D == Groups(c)
           s == subStripes(c)
           n == Len(c.stripes)
           row == o \div L
           in == o % L
           col == (i - 1) \div s
           r == (i - 1) % s
<1>1. /\ L \in Nat \ {0} /\ D \in Nat \ {0} /\ s \in Nat \ {0} /\ n = s * D
      /\ c.log \in Nat /\ c.size \in Nat /\ DOMAIN c.stripes = 1 .. n
  BY GroupNumbers
<1>2. PICK R \in Nat : StripeSize(c) = L * R /\ c.size = L * R * D
  BY GroupRows
<1>3. Layout(c, i - 1, o) = DataAt(a, 0) /\ i \in DOMAIN c.stripes /\ o \in 0 .. StripeSize(c) - 1
  BY DEF Holds
<1> HIDE DEF L, D, s, n
<1>4. i \in 1 .. s * D /\ i - 1 \in Nat /\ i - 1 < s * D /\ o \in Nat /\ o < L * R
  <2>1. L * R \in Nat /\ s * D \in Nat
    BY <1>1
  <2> QED
    BY <1>1, <1>2, <1>3, <2>1
<1>5. row \in Nat /\ in \in 0 .. L - 1 /\ o = L * row + in
  BY <1>1, <1>4, Euclid, Zenon
<1>6. col \in Nat /\ r \in 0 .. s - 1 /\ i - 1 = s * col + r
  <2> DEFINE j == i - 1
  <2>1. j \in Nat
    BY <1>4
  <2> HIDE DEF j
  <2>2. j \div s \in Nat /\ j % s \in 0 .. s - 1 /\ j = s * (j \div s) + (j % s)
    BY <1>1, <2>1, Euclid, Zenon
  <2> QED
    BY <2>2 DEF j
<1> HIDE DEF row, in, col, r
<1>7. col < D
  <2>1. s * col + r < s * D
    BY <1>4, <1>6
  <2>2. 0 \in 0 .. 1 - 1 /\ 1 \in Nat \ {0}
    OBVIOUS
  <2> QED
    BY <1>1, <1>6, <2>1, <2>2, RowBound
<1>8. row < R
  <2>1. 0 \in 0 .. 1 - 1 /\ 1 \in Nat \ {0}
    OBVIOUS
  <2> QED
    BY <1>1, <1>4, <1>5, <2>1, RowBound
<1>9. Layout(c, i - 1, L * row + in) = DataAt(c.log + (row * D + col) * L + in, 0)
  <2>1. in \in 0 .. c.stripeLen - 1
    BY <1>5 DEF L
  <2>2. Layout(c, i - 1, c.stripeLen * row + in) =
          DataAt(c.log + (row * Groups(c) + (i - 1) \div subStripes(c)) * c.stripeLen + in, 0)
    BY <1>5, <2>1, LayoutOfGroup
  <2> QED
    BY <2>2 DEF L, D, s, col
<1>10. a = c.log + (row * D + col) * L + in
  <2>1. \A x : DataAt(x, 0).at = x
    BY DEF DataAt
  <2>2. DataAt(a, 0) = DataAt(c.log + (row * D + col) * L + in, 0)
    BY <1>3, <1>5, <1>9
  <2> DEFINE z == c.log + (row * D + col) * L + in
  <2> HIDE DEF z
  <2>3. DataAt(a, 0) = DataAt(z, 0)
    BY <2>2 DEF z
  <2>4. a = z
    BY <2>1, <2>3
  <2> QED
    BY <2>4 DEF z
<1>11. col \in 0 .. D - 1
  BY <1>1, <1>6, <1>7
<1>12. IsPlace(c.log, L, D, row, col, in, a)
  BY <1>1, <1>5, <1>10, <1>11 DEF IsPlace, Place
<1>13. FoundAgain(c.log, L, D, row, col, in, a)
  BY <1>12, PlaceOf
<1>14. stripeNr(c, a) \div D = row /\ stripeNr(c, a) % D = col /\ stripeOff(c, a) = in
  BY <1>13 DEF FoundAgain, stripeNr, stripeOff, L
<1>15. a \in Nat /\ InChunk(c, a)
  BY <1>2, <1>8, <1>13, Zenon DEF FoundAgain, InChunk
<1>16. r + 1 \in 1 .. s /\ i = col * s + (r + 1)
  <2>1. s * col = col * s /\ s * col \in Nat
    BY <1>1, <1>6
  <2> QED
    BY <1>1, <1>4, <1>6, <2>1
<1>17. o = row * L + in
  BY <1>1, <1>5
<1> QED
  BY <1>14, <1>15, <1>16, <1>17 DEF L, D, s

----------------------------------------------------------------------------
(* Copies. *)

\* The local stripe is one of the chunk, or there is none.
LEMMA LocalStripe ==
  ASSUME NEW c \in Chunks, Len(c.stripes) > 0
  PROVE  localStripe(c) \in 0 .. Len(c.stripes)
<1> DEFINE mine == {i \in DOMAIN c.stripes : c.stripes[i].dev = devID}
<1>1. Len(c.stripes) \in Nat /\ DOMAIN c.stripes = 1 .. Len(c.stripes)
  <2>1. c.stripes \in Seq(Stripes)
    BY DEF Chunks
  <2> QED
    BY <2>1, SeqShape
<1>2. mine \in SUBSET Nat /\ (\A i \in mine : i \in 1 .. Len(c.stripes))
  BY <1>1
<1>3. mine # {} => Min(mine) \in mine
  BY <1>2, MinIsLeast, Zenon
<1>4. localStripe(c) = IF devID = 0 THEN 1 ELSE IF mine = {} THEN 0 ELSE Min(mine)
  BY Zenon DEF localStripe
<1> HIDE DEF mine
<1>5. devID = 0 => localStripe(c) = 1
  BY <1>4
<1>6. devID # 0 => localStripe(c) = 0 \/ localStripe(c) \in mine
  BY <1>3, <1>4
<1> DEFINE n == Len(c.stripes)
           l == localStripe(c)
<1> HIDE DEF n, l
<1>7. n \in Nat \ {0} /\ \A i \in mine : i \in 1 .. n
  BY <1>1, <1>2 DEF n
<1>8. l = 1 \/ l = 0 \/ l \in mine
  BY <1>5, <1>6 DEF l
<1>9. l \in 0 .. n
  BY <1>7, <1>8
<1> QED
  BY <1>9 DEF n, l

\* A chunk of copies is read from each of its stripes, at the same offset.
LEMMA MirrorsRead ==
  ASSUME NEW c \in Chunks, Len(c.stripes) > 0, NEW a
  PROVE  /\ DOMAIN Mirrors(c, a) = 1 .. Len(c.stripes)
         /\ \A k \in 1 .. Len(c.stripes) : \E i \in DOMAIN c.stripes :
              Mirrors(c, a)[k] = Try(c.stripes[i], a - c.log)
         /\ \A i \in DOMAIN c.stripes : \E k \in 1 .. Len(c.stripes) :
              Mirrors(c, a)[k] = Try(c.stripes[i], a - c.log)
<1> DEFINE n == Len(c.stripes)
           l == localStripe(c)
           order(k) == IF l = 0 \/ k > l THEN k ELSE IF k = 1 THEN l ELSE k - 1
<1>1. n \in Nat \ {0} /\ DOMAIN c.stripes = 1 .. n
  <2>1. c.stripes \in Seq(Stripes)
    BY DEF Chunks
  <2> QED
    BY <2>1, SeqShape
<1>2. l \in 0 .. n
  BY LocalStripe
<1>3. Mirrors(c, a) = [k \in 1 .. n |-> Try(c.stripes[order(k)], a - c.log)]
  BY <1>1, Zenon DEF Mirrors
<1> HIDE DEF n, l
<1>4. \A k \in 1 .. n : order(k) \in 1 .. n
  BY <1>1, <1>2
<1>5. ASSUME NEW i \in 1 .. n PROVE \E k \in 1 .. n : order(k) = i
  <2>1. CASE l = 0 \/ i > l
    BY <1>2, <2>1
  <2>2. CASE i = l
    <3>1. 1 \in 1 .. n /\ order(1) = i
      BY <1>1, <1>2, <2>2
    <3> QED
      BY <3>1
  <2>3. CASE i < l
    <3>1. i + 1 \in 1 .. n /\ order(i + 1) = i
      BY <1>1, <1>2, <2>3
    <3> QED
      BY <3>1
  <2> QED
    BY <1>1, <1>2, <2>1, <2>2, <2>3
<1> HIDE DEF order
<1>6. /\ DOMAIN Mirrors(c, a) = 1 .. n
      /\ \A k \in 1 .. n : Mirrors(c, a)[k] = Try(c.stripes[order(k)], a - c.log)
  BY <1>3
<1> QED
  BY <1>1, <1>4, <1>5, <1>6, Zenon DEF n

----------------------------------------------------------------------------
(* Every route. *)

\* Which chunks are read in which way.
LEMMA Profile ==
  ASSUME NEW c \in Chunks, NEW u, LaidOut(c, u)
  PROVE  /\ Mirrored(c) \/ InColumns(c) \/ InGroups(c)
         /\ Mirrored(c) => Len(c.stripes) > 0 /\ StripeSize(c) = c.size
                           /\ \A a : readFromChunk(c, a) = Mirrors(c, a)
         /\ InColumns(c) => \A a : readFromChunk(c, a) = IF Refused(c) THEN <<>> ELSE Striped(c, a)
         /\ InGroups(c) => \A a : readFromChunk(c, a) = IF Refused(c) THEN <<>> ELSE RAID10Legs(c, a)
<1>1. c.profile \in Profiles /\ Len(c.stripes) > nparity(c)
  BY DEF Chunks, LaidOut
<1>2. CASE Mirrored(c)
  <2>1. nparity(c) = 0
    BY <1>2 DEF Mirrored, nparity
  <2>2. ~InColumns(c) /\ ~InGroups(c)
    BY <1>2 DEF Mirrored, InColumns, InGroups
  <2>3. \A a : readFromChunk(c, a) = Mirrors(c, a)
    BY <1>2, Zenon DEF readFromChunk
  <2>4. c.profile # "raid10"
    BY <1>2 DEF Mirrored
  <2>5. StripeSize(c) = c.size
    BY <1>2, <2>4 DEF StripeSize
  <2> QED
    BY <1>1, <1>2, <2>1, <2>2, <2>3, <2>5
<1>3. CASE c.profile \in {"raid0", "raid5", "raid6", "other"}
  <2>1. ~Mirrored(c) /\ c.profile # "raid10" /\ ~InGroups(c) /\ InColumns(c)
    BY <1>1, <1>3 DEF Mirrored, InGroups, InColumns
  <2>2. \A a : readFromChunk(c, a) = IF Refused(c) THEN <<>> ELSE Striped(c, a)
    BY <2>1, Zenon DEF readFromChunk
  <2> QED
    BY <2>1, <2>2
<1>4. CASE c.profile = "raid10"
  <2>1. ~Mirrored(c) /\ ~InColumns(c)
    BY <1>4 DEF Mirrored, InColumns
  <2>2. nparity(c) = 0 /\ Len(c.stripes) = Groups(c) * subStripes(c)
    BY <1>4 DEF nparity, LaidOut
  <2>3. InGroups(c)
    BY <1>1, <1>4, <2>2 DEF InGroups
  <2>4. \A a : readFromChunk(c, a) = IF Refused(c) THEN <<>> ELSE RAID10Legs(c, a)
    BY <1>4, <2>1, Zenon DEF readFromChunk
  <2> QED
    BY <2>1, <2>3, <2>4
<1> QED
  BY <1>1, <1>2, <1>3, <1>4 DEF Profiles, Mirrored

\* A device read returns the units of its address and of those that follow.
Leads(c, a, t, n) ==
  \E i \in DOMAIN c.stripes, o \in Nat :
    /\ t = Try(c.stripes[i], o)
    /\ \A h \in 0 .. n - 1 : InChunk(c, a + h) => Holds(c, i, o + h, a + h)

\* A chunk of copies is read where it lies.
LEMMA CopiesSound ==
  ASSUME NEW c \in Chunks, NEW u, LaidOut(c, u), Mirrored(c), NEW a, InChunk(c, a),
         NEW k \in DOMAIN readFromChunk(c, a), NEW n \in Nat \ {0}
  PROVE  Leads(c, a, readFromChunk(c, a)[k], n)
<1>1. Len(c.stripes) > 0 /\ StripeSize(c) = c.size /\ readFromChunk(c, a) = Mirrors(c, a)
  BY Profile
<1>2. PICK i \in DOMAIN c.stripes : readFromChunk(c, a)[k] = Try(c.stripes[i], a - c.log)
  <2>1. /\ DOMAIN Mirrors(c, a) = 1 .. Len(c.stripes)
        /\ \A j \in 1 .. Len(c.stripes) : \E i \in DOMAIN c.stripes :
             Mirrors(c, a)[j] = Try(c.stripes[i], a - c.log)
    BY <1>1, MirrorsRead
  <2>2. k \in DOMAIN Mirrors(c, a)
    BY <1>1
  <2> QED
    BY <1>1, <2>1, <2>2, Zenon
<1>3. c.log \in Nat /\ c.size \in Nat /\ a \in Nat /\ c.log <= a /\ a - c.log \in Nat
  BY SMTT(30) DEF Chunks, InChunk
<1>4. \A o : Layout(c, i - 1, o) = DataAt(c.log + o, 0)
  BY Zenon DEF Layout
<1>5. ASSUME NEW h \in 0 .. n - 1, InChunk(c, a + h)
      PROVE  Holds(c, i, (a - c.log) + h, a + h)
  <2>1. /\ (a - c.log) + h \in 0 .. c.size - 1 /\ c.log + ((a - c.log) + h) = a + h
    BY <1>3, <1>5 DEF InChunk
  <2> DEFINE o == (a - c.log) + h
  <2> HIDE DEF o
  <2>2. Layout(c, i - 1, o) = DataAt(a + h, 0)
    BY <1>4, <2>1 DEF o
  <2>3. o \in 0 .. StripeSize(c) - 1
    BY <1>1, <2>1 DEF o
  <2> QED
    BY <2>2, <2>3 DEF Holds, o
<1> QED
  BY <1>2, <1>3, <1>5, Zenon DEF Leads

\* A chunk in columns is read where it lies, to the end of the stripe.
LEMMA ColumnsSound ==
  ASSUME NEW c, InColumns(c), NEW u, LaidOut(c, u), NEW a, InChunk(c, a),
         NEW n \in Nat, n <= c.stripeLen - stripeOff(c, a)
  PROVE  Leads(c, a, Striped(c, a)[1], n)
<1> DEFINE i == stripeIdx(c, a) + 1
           L == c.stripeLen
           D == Columns(c)
           row == stripeNr(c, a) \div D
           o == row * L + stripeOff(c, a)
<1>1. c \in Chunks /\ a \in Nat /\ c.log \in Nat /\ c.log <= a /\ L \in Nat
  BY DEF InColumns, InChunk, Chunks
<1>2. row \in Nat /\ stripeOff(c, a) \in Nat /\ L - stripeOff(c, a) \in Nat
  <2>1. row \in Nat /\ stripeOff(c, a) \in 0 .. c.stripeLen - 1
    BY <1>1, IndexOfStripe, SMTT(30)
  <2> QED
    BY <1>1, <2>1
<1>3. Striped(c, a)[1] = Try(c.stripes[i], o)
  BY DEF Striped
<1>4. Holds(c, i, o, a)
  BY StripedSound
<1>5. ASSUME NEW h \in 0 .. n - 1, InChunk(c, a + h) PROVE Holds(c, i, o + h, a + h)
  <2>1. h \in Nat /\ h < c.stripeLen - stripeOff(c, a)
    BY <1>2
  <2>2. stripeNr(c, a + h) = stripeNr(c, a) /\ stripeOff(c, a + h) = stripeOff(c, a) + h
    BY <1>1, <2>1, WithinStripe
  <2>3. stripeIdx(c, a + h) = stripeIdx(c, a)
    BY <2>2, Zenon DEF stripeIdx
  <2>4. Holds(c, stripeIdx(c, a + h) + 1,
              (stripeNr(c, a + h) \div Columns(c)) * c.stripeLen + stripeOff(c, a + h), a + h)
    BY <1>5, StripedSound
  <2>5. Holds(c, i, row * L + (stripeOff(c, a) + h), a + h)
    BY <2>2, <2>3, <2>4, Zenon
  <2>6. row * L + (stripeOff(c, a) + h) = o + h
    <3> HIDE DEF row, L
    <3>1. row * L \in Nat
      BY <1>1, <1>2
    <3> QED
      BY <1>2, <2>1, <3>1
  <2> QED
    BY <2>5, <2>6, Zenon
<1>6. o \in Nat /\ i \in DOMAIN c.stripes
  <2> HIDE DEF row, L
  <2>1. row * L \in Nat
    BY <1>1, <1>2
  <2> QED
    BY <1>2, <1>4, <2>1 DEF Holds
<1> HIDE DEF i, o
<1> QED
  BY <1>3, <1>5, <1>6 DEF Leads

\* A chunk in groups is read where it lies, to the end of the stripe.
LEMMA GroupsSound ==
  ASSUME NEW c, InGroups(c), NEW u, LaidOut(c, u), NEW a, InChunk(c, a),
         NEW leg \in 1 .. subStripes(c), NEW n \in Nat, n <= c.stripeLen - stripeOff(c, a)
  PROVE  Leads(c, a, RAID10Legs(c, a)[leg], n)
<1> DEFINE i == (stripeNr(c, a) % Groups(c)) * subStripes(c) + leg
           L == c.stripeLen
           row == stripeNr(c, a) \div Groups(c)
           o == row * L + stripeOff(c, a)
<1>1. c \in Chunks /\ a \in Nat /\ c.log \in Nat /\ c.log <= a /\ L \in Nat
  BY DEF InGroups, InChunk, Chunks
<1>2. row \in Nat /\ stripeOff(c, a) \in Nat /\ L - stripeOff(c, a) \in Nat
  <2>1. row \in Nat /\ stripeOff(c, a) \in 0 .. c.stripeLen - 1
    BY <1>1, GroupOfAddress DEF IsPlace
  <2> QED
    BY <1>1, <2>1
<1>3. RAID10Legs(c, a)[leg] = Try(c.stripes[i], o)
  BY DEF RAID10Legs
<1>4. Holds(c, i, o, a)
  BY LegsSound
<1>5. ASSUME NEW h \in 0 .. n - 1, InChunk(c, a + h) PROVE Holds(c, i, o + h, a + h)
  <2>1. h \in Nat /\ h < c.stripeLen - stripeOff(c, a)
    BY <1>2
  <2>2. stripeNr(c, a + h) = stripeNr(c, a) /\ stripeOff(c, a + h) = stripeOff(c, a) + h
    BY <1>1, <2>1, WithinStripe
  <2>4. Holds(c, (stripeNr(c, a + h) % Groups(c)) * subStripes(c) + leg,
              (stripeNr(c, a + h) \div Groups(c)) * c.stripeLen + stripeOff(c, a + h), a + h)
    BY <1>5, LegsSound
  <2>5. Holds(c, i, row * L + (stripeOff(c, a) + h), a + h)
    BY <2>2, <2>4, Zenon
  <2>6. row * L + (stripeOff(c, a) + h) = o + h
    <3> HIDE DEF row, L
    <3>1. row * L \in Nat
      BY <1>1, <1>2
    <3> QED
      BY <1>2, <2>1, <3>1
  <2> QED
    BY <2>5, <2>6, Zenon
<1>6. o \in Nat /\ i \in DOMAIN c.stripes
  <2> HIDE DEF row, L
  <2>1. row * L \in Nat
    BY <1>1, <1>2
  <2> QED
    BY <1>2, <1>4, <2>1 DEF Holds
<1> HIDE DEF i, o
<1> QED
  BY <1>3, <1>5, <1>6 DEF Leads

\* The route of a read leads to its addresses, whatever is on the way.
LEMMA RouteSound ==
  ASSUME NEW c \in Chunks, NEW u, LaidOut(c, u), NEW a, InChunk(c, a),
         NEW k \in DOMAIN readFromChunk(c, a), NEW n \in Nat \ {0}
  PROVE  Leads(c, a, readFromChunk(c, a)[k], Piece(c, a, n))
<1>1. Piece(c, a, n) \in 1 .. n /\ (~Mirrored(c) => Piece(c, a, n) <= c.stripeLen - stripeOff(c, a))
  BY PieceBound
<1> DEFINE p == Piece(c, a, n)
<1>2. p \in Nat /\ p \in Nat \ {0}
  BY <1>1
<1> HIDE DEF p
<1>3. CASE Mirrored(c)
  BY <1>2, <1>3, CopiesSound DEF p
<1>4. CASE InColumns(c)
  <2>1. ~Mirrored(c) /\ p <= c.stripeLen - stripeOff(c, a)
    BY <1>1, <1>4, ColumnNumbers DEF p
  <2>2. readFromChunk(c, a) = IF Refused(c) THEN <<>> ELSE Striped(c, a)
    BY <1>4, Profile
  <2>3. ~Refused(c)
    <3> SUFFICES ASSUME Refused(c) PROVE k \in {}
      OBVIOUS
    <3>1. readFromChunk(c, a) = <<>>
      BY <2>2
    <3> QED
      BY <3>1
  <2>4. k = 1
    BY <2>2, <2>3 DEF Striped
  <2>5. Leads(c, a, Striped(c, a)[1], p)
    BY <1>2, <1>4, <2>1, ColumnsSound
  <2> QED
    BY <2>2, <2>3, <2>4, <2>5, Zenon DEF p
<1>5. CASE InGroups(c)
  <2>1. ~Mirrored(c) /\ p <= c.stripeLen - stripeOff(c, a)
    BY <1>1, <1>5, GroupNumbers, SMTT(30) DEF p
  <2>2. readFromChunk(c, a) = IF Refused(c) THEN <<>> ELSE RAID10Legs(c, a)
    BY <1>5, Profile
  <2>3. ~Refused(c)
    <3> SUFFICES ASSUME Refused(c) PROVE k \in {}
      OBVIOUS
    <3>1. readFromChunk(c, a) = <<>>
      BY <2>2
    <3> QED
      BY <3>1
  <2>4. k \in 1 .. subStripes(c)
    BY <2>2, <2>3 DEF RAID10Legs
  <2>5. Leads(c, a, RAID10Legs(c, a)[k], p)
    BY <1>2, <1>5, <2>1, <2>4, GroupsSound, SMTT(30)
  <2> QED
    BY <2>2, <2>3, <2>5, Zenon DEF p
<1> QED
  BY <1>3, <1>4, <1>5, Profile, SMTT(30)

\* Whoever holds the address is on the route.
LEMMA RouteComplete ==
  ASSUME NEW c \in Chunks, NEW u, LaidOut(c, u), NEW a, NEW i, NEW o, Holds(c, i, o, a)
  PROVE  /\ a \in Nat /\ InChunk(c, a)
         /\ ~Refused(c) => \E k \in DOMAIN readFromChunk(c, a) :
                             readFromChunk(c, a)[k] = Try(c.stripes[i], o)
<1>1. CASE Mirrored(c)
  <2>1. Len(c.stripes) > 0 /\ StripeSize(c) = c.size /\ readFromChunk(c, a) = Mirrors(c, a)
    BY <1>1, Profile
  <2>2. i \in DOMAIN c.stripes /\ o \in 0 .. c.size - 1 /\ Layout(c, i - 1, o) = DataAt(a, 0)
    BY <2>1 DEF Holds
  <2>3. DataAt(c.log + o, 0) = DataAt(a, 0)
    BY <1>1, <2>2 DEF Layout
  <2>4. c.log \in Nat /\ c.size \in Nat
    BY DEF Chunks
  <2>5. a = c.log + o
    BY <2>3 DEF DataAt
  <2>6. a \in Nat /\ InChunk(c, a) /\ a - c.log = o
    BY <2>2, <2>4, <2>5, SMTT(30) DEF InChunk
  <2>7. \E k \in DOMAIN Mirrors(c, a) : Mirrors(c, a)[k] = Try(c.stripes[i], a - c.log)
    BY <2>1, <2>2, MirrorsRead, SMTT(30)
  <2> QED
    BY <2>1, <2>6, <2>7
<1>2. CASE InColumns(c)
  <2>1. /\ a \in Nat /\ InChunk(c, a) /\ i = stripeIdx(c, a) + 1
        /\ o = (stripeNr(c, a) \div Columns(c)) * c.stripeLen + stripeOff(c, a)
    BY <1>2, StripedComplete, SMTT(30)
  <2>2. ~Refused(c) => readFromChunk(c, a) = Striped(c, a)
    BY <1>2, Profile, SMTT(30)
  <2>3. 1 \in DOMAIN Striped(c, a) /\ Striped(c, a)[1] = Try(c.stripes[i], o)
    BY <2>1 DEF Striped
  <2> QED
    BY <2>1, <2>2, <2>3, Zenon
<1>3. CASE InGroups(c)
  <2>1. /\ a \in Nat /\ InChunk(c, a)
        /\ \E leg \in 1 .. subStripes(c) : i = (stripeNr(c, a) % Groups(c)) * subStripes(c) + leg
        /\ o = (stripeNr(c, a) \div Groups(c)) * c.stripeLen + stripeOff(c, a)
    BY <1>3, LegsComplete
  <2>2. ~Refused(c) => readFromChunk(c, a) = RAID10Legs(c, a)
    BY <1>3, Profile
  <2>3. PICK leg \in 1 .. subStripes(c) : i = (stripeNr(c, a) % Groups(c)) * subStripes(c) + leg
    BY <2>1
  <2>4. leg \in DOMAIN RAID10Legs(c, a) /\ RAID10Legs(c, a)[leg] = Try(c.stripes[i], o)
    BY <2>1, <2>3 DEF RAID10Legs
  <2> QED
    BY <2>1, <2>2, <2>4, Zenon
<1> QED
  BY <1>1, <1>2, <1>3, Profile, SMTT(30)

\* One of the tries for an address is that stripe at that offset.
OnRoute(c, a, s, o) == \E k \in DOMAIN readFromChunk(c, a) : readFromChunk(c, a)[k] = Try(s, o)

\* So every copy of a unit is on its route.
LEMMA CopyOnRoute ==
  ASSUME NEW c \in Chunks, NEW u, LaidOut(c, u), NEW a, NEW i, NEW o, Holds(c, i, o, a)
  PROVE  InChunk(c, a) /\ (~Refused(c) => OnRoute(c, a, c.stripes[i], o))
<1>1. /\ InChunk(c, a)
      /\ ~Refused(c) => \E k \in DOMAIN readFromChunk(c, a) :
                          readFromChunk(c, a)[k] = Try(c.stripes[i], o)
  BY RouteComplete
<1> QED
  BY <1>1, Zenon DEF OnRoute

----------------------------------------------------------------------------
(* What the devices hold at first. *)

\* The size of a stripe is a number.
LEMMA StripeSizeIsInt ==
  ASSUME NEW c \in Chunks, NEW u, LaidOut(c, u)
  PROVE  StripeSize(c) \in Int
<1>1. CASE Mirrored(c)
  <2>1. StripeSize(c) = c.size
    BY <1>1, Profile
  <2> QED
    BY <2>1 DEF Chunks
<1>2. CASE InColumns(c)
  <2>1. PICK R \in Nat : StripeSize(c) = c.stripeLen * R
    BY <1>2, ColumnRows
  <2>2. c.stripeLen \in Nat
    BY DEF Chunks
  <2> DEFINE L == c.stripeLen
  <2> HIDE DEF L
  <2>3. L * R \in Int
    BY <2>2 DEF L
  <2> QED
    BY <2>1, <2>3 DEF L
<1>3. CASE InGroups(c)
  <2>1. PICK R \in Nat : StripeSize(c) = c.stripeLen * R
    BY <1>3, GroupRows
  <2>2. c.stripeLen \in Nat
    BY DEF Chunks
  <2> DEFINE L == c.stripeLen
  <2> HIDE DEF L
  <2>3. L * R \in Int
    BY <2>2 DEF L
  <2> QED
    BY <2>1, <2>3 DEF L
<1> QED
  BY <1>1, <1>2, <1>3, Profile

\* A stripe is on its device.
LEMMA StripesStored ==
  ASSUME NEW m, WellFormed(m), NEW l \in m.lists, NEW d \in DOMAIN l,
         NEW k \in DOMAIN m.chunks, NEW i \in DOMAIN m.chunks[k].stripes,
         m.chunks[k].stripes[i].dev = l[d].dev,
         NEW o \in 0 .. StripeSize(m.chunks[k]) - 1
  PROVE  /\ m.chunks[k].stripes[i].off + o \in DOMAIN StoreOf(m, l[d])
         /\ StoreOf(m, l[d])[m.chunks[k].stripes[i].off + o] = Layout(m.chunks[k], i - 1, o)
<1> DEFINE c == m.chunks[k]
           s == c.stripes[i]
           p == s.off + o
           w == [chunk |-> c, column |-> i]
<1>1. c \in Chunks /\ LaidOut(c, m.units) /\ m.units \in Nat
  <2>1. /\ m.chunks \in Seq(Chunks) /\ m.units \in Nat
        /\ \A j \in DOMAIN m.chunks : LaidOut(m.chunks[j], m.units)
    BY DEF WellFormed
  <2> QED
    BY <2>1, SMTT(30)
<1>2. s \in Stripes
  BY <1>1 DEF Chunks
<1>3. s.off \in Nat \ {0} /\ s.off + StripeSize(c) <= m.units
  BY <1>1, <1>2, Zenon DEF Stripes, LaidOut
<1>4. StripeSize(c) \in Int
  BY <1>1, StripeSizeIsInt, SMTT(30)
<1>5. p \in 0 .. m.units - 1 /\ p # 0 /\ p >= s.off /\ p < s.off + StripeSize(c) /\ p - s.off = o
  <2> DEFINE q == s.off
             z == StripeSize(c)
  <2>1. /\ q \in Nat \ {0} /\ z \in Int /\ q + z <= m.units /\ m.units \in Nat
        /\ o \in 0 .. z - 1 /\ p = q + o
    BY <1>1, <1>3, <1>4, SMTT(30)
  <2> HIDE DEF q, z, p
  <2>2. p \in 0 .. m.units - 1 /\ p # 0 /\ p >= q /\ p < q + z /\ p - q = o
    BY <2>1
  <2> QED
    BY <2>2, SMTT(30) DEF q, z
<1>6. w \in Covering(m, l[d].dev, p)
  <2>1. Covers(s, c, l[d].dev, p)
    BY <1>5, Zenon DEF Covers
  <2>2. c \in {m.chunks[j] : j \in DOMAIN m.chunks} /\ i \in DOMAIN c.stripes
    OBVIOUS
  <2> HIDE DEF c, p
  <2>3. w \in {[chunk |-> c, column |-> j] :
                j \in {h \in DOMAIN c.stripes : Covers(c.stripes[h], c, l[d].dev, p)}}
    BY <2>1, <2>2, Zenon
  <2> QED
    BY <2>2, <2>3, ZenonT(40) DEF Covering
<1>7. \A x, y \in Covering(m, l[d].dev, p) : x = y
  BY <1>5, Zenon DEF WellFormed, Apart
<1> HIDE DEF p
<1>8. DOMAIN StoreOf(m, l[d]) = 0 .. m.units - 1
  BY DEF StoreOf
<1>9. StoreOf(m, l[d])[p] =
        LET x == CHOOSE x \in Covering(m, l[d].dev, p) : TRUE
        IN  Layout(x.chunk, x.column - 1, p - x.chunk.stripes[x.column].off)
  BY <1>5, <1>6, Zenon DEF StoreOf
<1>10. (CHOOSE x \in Covering(m, l[d].dev, p) : TRUE) = w
  BY <1>6, <1>7
<1>11. StoreOf(m, l[d])[p] = Layout(c, i - 1, o)
  <2>1. w.chunk = c /\ w.column = i
    OBVIOUS
  <2> HIDE DEF w, c
  <2>2. StoreOf(m, l[d])[p] = Layout(w.chunk, w.column - 1, p - w.chunk.stripes[w.column].off)
    BY <1>9, <1>10, Zenon
  <2> QED
    BY <1>5, <2>1, <2>2, Zenon
<1> QED
  BY <1>5, <1>8, <1>11, Zenon DEF p

\* A unit of the layout is parity or data.
LEMMA LayoutIsData ==
  ASSUME NEW c, NEW i, NEW o, Layout(c, i, o).kind = "data"
  PROVE  Layout(c, i, o) = DataAt(Layout(c, i, o).at, 0)
<1>1. \E a : Layout(c, i, o) = Parity \/ Layout(c, i, o) = DataAt(a, 0)
  BY Zenon DEF Layout
<1>2. Parity.kind # "data"
  BY DEF Parity, Nothing
<1>3. \A a : DataAt(a, 0).at = a
  BY DEF DataAt
<1>4. PICK a : Layout(c, i, o) = DataAt(a, 0)
  BY <1>1, <1>2
<1> QED
  BY <1>3, <1>4, Zenon

\* Only stripes hold data.
LEMMA OnlyStripesStored ==
  ASSUME NEW m, WellFormed(m), NEW l \in m.lists, NEW d \in DOMAIN l,
         NEW p \in DOMAIN StoreOf(m, l[d]), StoreOf(m, l[d])[p].kind = "data"
  PROVE  \E k \in DOMAIN m.chunks : \E i, o :
           /\ Holds(m.chunks[k], i, o, StoreOf(m, l[d])[p].at)
           /\ m.chunks[k].stripes[i].dev = l[d].dev
           /\ p = m.chunks[k].stripes[i].off + o
<1> DEFINE S == Covering(m, l[d].dev, p)
           x == CHOOSE x \in S : TRUE
           u == StoreOf(m, l[d])[p]
<1>1. m.units \in Nat /\ p \in 0 .. m.units - 1
  BY Zenon DEF WellFormed, StoreOf
<1>2. u = IF p = 0 THEN Super ELSE IF S = {} THEN Nothing
          ELSE Layout(x.chunk, x.column - 1, p - x.chunk.stripes[x.column].off)
  BY <1>1, Zenon DEF StoreOf
<1>3. Super.kind # "data" /\ Nothing.kind # "data"
  BY DEF Super, Nothing
<1> HIDE DEF u
<1>4. S # {} /\ u = Layout(x.chunk, x.column - 1, p - x.chunk.stripes[x.column].off)
  BY <1>2, <1>3, ZenonT(40) DEF u
<1>5. x \in S
  BY <1>4
<1> HIDE DEF x
<1>6. PICK k \in DOMAIN m.chunks : \E i \in DOMAIN m.chunks[k].stripes :
        /\ x = [chunk |-> m.chunks[k], column |-> i]
        /\ Covers(m.chunks[k].stripes[i], m.chunks[k], l[d].dev, p)
  BY <1>5, SMTT(30) DEF Covering
<1>7. PICK i \in DOMAIN m.chunks[k].stripes :
        /\ x = [chunk |-> m.chunks[k], column |-> i]
        /\ Covers(m.chunks[k].stripes[i], m.chunks[k], l[d].dev, p)
  BY <1>6, SMTT(30)
<1> DEFINE c == m.chunks[k]
           o == p - c.stripes[i].off
<1>8. c \in Chunks /\ LaidOut(c, m.units)
  BY DEF WellFormed
<1>9. c.stripes[i].off \in Nat
  <2>1. c.stripes[i] \in Stripes
    BY <1>8, SMTT(30) DEF Chunks
  <2> QED
    BY <2>1 DEF Stripes
<1>10. /\ c.stripes[i].dev = l[d].dev /\ p >= c.stripes[i].off
       /\ p < c.stripes[i].off + StripeSize(c)
  BY <1>7 DEF Covers
<1>11. u = Layout(c, i - 1, o)
  <2>1. x.chunk = c /\ x.column = i
    BY <1>7
  <2> QED
    BY <1>4, <2>1, ZenonT(40)
<1> HIDE DEF c
<1>12. StripeSize(c) \in Int
  BY <1>8, StripeSizeIsInt, SMTT(30)
<1>13. o \in 0 .. StripeSize(c) - 1 /\ p = c.stripes[i].off + o
  BY <1>1, <1>9, <1>10, <1>12, SMTT(30)
<1> HIDE DEF o
<1>14. u = DataAt(u.at, 0)
  BY <1>11, LayoutIsData, SMTT(30) DEF u
<1>15. Holds(c, i, o, u.at)
  BY <1>11, <1>13, <1>14, SMTT(30) DEF Holds, c
<1> QED
  BY <1>10, <1>13, <1>15, Zenon DEF u, c

\* The devices hold the file system when it is opened.
LEMMA InitStored ==
  Init => Stored
<1> SUFFICES ASSUME Init PROVE Stored
  OBVIOUS
<1>1. PICK m \in Images : \E l \in m.lists :
        /\ image = [chunks |-> m.chunks, boot |-> m.boot, root |-> m.root, list |-> l]
        /\ store = [d \in DOMAIN l |-> StoreOf(m, l[d])]
  BY DEF Init
<1>2. PICK l \in m.lists :
        /\ image = [chunks |-> m.chunks, boot |-> m.boot, root |-> m.root, list |-> l]
        /\ store = [d \in DOMAIN l |-> StoreOf(m, l[d])]
  BY <1>1
<1>3. image.chunks = m.chunks /\ image.list = l /\ Devices = DOMAIN l
  BY <1>2 DEF Devices
<1>4. \A a : Version(a) = 0
  BY DEF Init, Version
<1>5. WellFormed(m)
  BY PoolAssumption
<1>6. DOMAIN store = Devices /\ \A d \in Devices : store[d] = StoreOf(m, l[d])
  BY <1>2, <1>3
<1>7. ASSUME NEW d \in Devices
      PROVE  DOMAIN store[d] \subseteq Nat /\ 0 \in DOMAIN store[d] /\ store[d][0] = Super
  <2>1. 0 \in 0 .. m.units - 1 /\ 0 .. m.units - 1 \subseteq Nat
    BY <1>5, SMTT(30) DEF WellFormed
  <2> QED
    BY <1>6, <2>1, Zenon DEF StoreOf
<1>8. ASSUME NEW d \in Devices, NEW c \in KnownChunks, NEW i, NEW o, NEW a, StripeHolds(d, c, i, o, a)
      PROVE  /\ c.stripes[i].off + o \in DOMAIN store[d]
             /\ store[d][c.stripes[i].off + o] = DataAt(a, Version(a))
  <2>1. PICK k \in DOMAIN m.chunks : c = m.chunks[k]
    BY <1>3 DEF KnownChunks
  <2>2. /\ i \in DOMAIN m.chunks[k].stripes /\ o \in 0 .. StripeSize(m.chunks[k]) - 1
        /\ Layout(m.chunks[k], i - 1, o) = DataAt(a, 0)
        /\ m.chunks[k].stripes[i].dev = l[d].dev
    BY <1>3, <1>8, <2>1 DEF StripeHolds, Holds
  <2>3. /\ m.chunks[k].stripes[i].off + o \in DOMAIN StoreOf(m, l[d])
        /\ StoreOf(m, l[d])[m.chunks[k].stripes[i].off + o] = Layout(m.chunks[k], i - 1, o)
    BY <1>3, <1>5, <2>2, StripesStored, Zenon
  <2> QED
    BY <1>4, <1>6, <2>1, <2>2, <2>3, SMTT(30)
<1>9. ASSUME NEW d \in Devices, NEW p \in DOMAIN store[d], store[d][p].kind = "data"
      PROVE  \E c \in KnownChunks : \E i, o :
               StripeHolds(d, c, i, o, store[d][p].at) /\ p = c.stripes[i].off + o
  <2>1. d \in DOMAIN l /\ p \in DOMAIN StoreOf(m, l[d]) /\ StoreOf(m, l[d])[p].kind = "data"
    BY <1>3, <1>6, <1>9, SMTT(30)
  <2>2. PICK k \in DOMAIN m.chunks : \E i, o :
           /\ Holds(m.chunks[k], i, o, StoreOf(m, l[d])[p].at)
           /\ m.chunks[k].stripes[i].dev = l[d].dev
           /\ p = m.chunks[k].stripes[i].off + o
    BY <1>5, <2>1, OnlyStripesStored, SMTT(60)
  <2>3. m.chunks[k] \in KnownChunks
    BY <1>3 DEF KnownChunks
  <2> QED
    BY <1>3, <1>6, <2>2, <2>3, Zenon DEF StripeHolds
<1> QED
  BY <1>6, <1>7, <1>8, <1>9 DEF Stored

----------------------------------------------------------------------------
(* What a read returns. *)

\* Routes do not change while the chunk map does not.
LEMMA RouteStays ==
  ASSUME UNCHANGED <<image, chunks>>
  PROVE  \A a : Mapped(a)' = Mapped(a) /\ chunkAt(a)' = chunkAt(a) /\ Route(a)' = Route(a)
<1>1. \A c : localStripe(c)' = localStripe(c)
  BY DEF localStripe, devID
<1>2. \A c, a : Mirrors(c, a)' = Mirrors(c, a)
  BY <1>1 DEF Mirrors
<1>3. \A c, a : readFromChunk(c, a)' = readFromChunk(c, a)
  BY <1>2 DEF readFromChunk
<1>4. \A a : Mapped(a)' = Mapped(a) /\ chunkAt(a)' = chunkAt(a)
  BY DEF Mapped, chunkAt, lookupChunk
<1> QED
  BY <1>3, <1>4 DEF Route, devID

\* Nor does the route of a call that stays where it is.
LEMMA CallRouteStays ==
  ASSUME UNCHANGED <<image, chunks>>, call'.at = call.at
  PROVE  /\ Mapped(call.at)' = Mapped(call.at) /\ chunkAt(call.at)' = chunkAt(call.at)
         /\ Route(call.at)' = Route(call.at)
  BY RouteStays

\* A route is a sequence.
LEMMA RouteIsSequence ==
  ASSUME NEW c \in Chunks, NEW u, LaidOut(c, u), NEW a
  PROVE  /\ Len(readFromChunk(c, a)) \in Nat
         /\ DOMAIN readFromChunk(c, a) = 1 .. Len(readFromChunk(c, a))
<1> DEFINE r == readFromChunk(c, a)
<1>1. \E n \in Nat : DOMAIN r = 1 .. n /\ r = [k \in 1 .. n |-> r[k]]
  <2>1. CASE Mirrored(c)
    <3>1. r = Mirrors(c, a) /\ Len(c.stripes) > 0
      BY <2>1, Profile
    <3>2. DOMAIN r = 1 .. Len(c.stripes)
      BY <3>1, MirrorsRead
    <3>3. c.stripes \in Seq(Stripes)
      BY DEF Chunks
    <3>4. Len(c.stripes) \in Nat
      BY <3>3, SeqShape
    <3>5. r = [k \in DOMAIN r |-> r[k]]
      BY <3>1 DEF Mirrors
    <3> HIDE DEF r
    <3> QED
      BY <3>2, <3>4, <3>5, SMTT(30)
  <2>2. CASE Refused(c) /\ ~Mirrored(c)
    <3>1. r = <<>>
      BY <2>2, Zenon DEF readFromChunk
    <3>2. DOMAIN <<>> = 1 .. 0 /\ <<>> = [k \in 1 .. 0 |-> <<>>[k]]
      OBVIOUS
    <3> QED
      BY <3>1, <3>2
  <2>3. CASE ~Refused(c) /\ InColumns(c)
    <3>1. r = Striped(c, a)
      BY <2>3, Profile
    <3>2. DOMAIN Striped(c, a) = 1 .. 1 /\ Striped(c, a) = [k \in 1 .. 1 |-> Striped(c, a)[k]]
      BY DEF Striped
    <3> QED
      BY <3>1, <3>2
  <2>4. CASE ~Refused(c) /\ InGroups(c)
    <3>1. r = RAID10Legs(c, a)
      BY <2>4, Profile, SMTT(30)
    <3>2. /\ DOMAIN RAID10Legs(c, a) = 1 .. subStripes(c)
          /\ RAID10Legs(c, a) = [k \in 1 .. subStripes(c) |-> RAID10Legs(c, a)[k]]
      BY DEF RAID10Legs
    <3>3. subStripes(c) \in Nat
      BY DEF Chunks, subStripes
    <3> QED
      BY <3>1, <3>2, <3>3
  <2> QED
    BY <2>1, <2>2, <2>3, <2>4, Profile, SMTT(30)
<1> HIDE DEF r
<1>2. PICK n \in Nat : DOMAIN r = 1 .. n /\ r = [k \in 1 .. n |-> r[k]]
  BY <1>1
<1> DEFINE X == {r[k] : k \in 1 .. n}
<1>3. r \in [1 .. n -> X]
  BY <1>2
<1> HIDE DEF X
<1>4. r \in Seq(X)
  BY <1>3
<1>5. Len(r) \in Nat /\ DOMAIN r = 1 .. Len(r)
  BY <1>4, SeqShape, SMTT(30)
<1> QED
  BY <1>5 DEF r

\* What a read has got is right, and what was tried before the next device failed.
ReadInv ==
  /\ \A k \in 1 .. Len(call.got) : call.got[k] = Expected(call.from + k - 1)
  /\ call.state \in {"reading", "error"} =>
       \A k \in 1 .. call.tried :
         Route(call.at)[k].dev \in DOMAIN pool =>
           <<pool[Route(call.at)[k].dev], Route(call.at)[k].off>> \in call.failed
  /\ call.state = "error" => call.tried = Len(Route(call.at))

\* So is what was written over the end of a chunk.
LEMMA SpanIsRight ==
  ASSUME Opened, Stored, AllFormatted, Asked, Spans(call.at, call.left),
         NEW k \in 1 .. Covered(call.at, call.left)
  PROVE  store[pool[Turn.dev]][Turn.off + k - 1] = Expected(call.at + k - 1)
<1> DEFINE a == call.at
           n == call.left
           c == chunkAt(a)
           x == a + k - 1
<1>1. PICK S, F : call \in CallType(S, F)
  BY DEF Opened, CallInv
<1>2. a \in Nat /\ n \in Nat /\ call.tried \in Nat
  BY <1>1 DEF CallType
<1>3. Given /\ chunks \in Seq(KnownChunks) /\ OneCopy /\ Mapped(a) /\ Allocatable(physFromLog(a), n)
  BY DEF Opened, ChunkInv, Spans
<1>4. Devices = {1} /\ \A e \in KnownChunks : InPlaceChunk(e) /\ physStart(e) = e.log
  BY <1>3, OneCopyFormat
<1>5. \A e \in KnownChunks : /\ e \in Chunks /\ e.log \in Nat \ {0} /\ e.size \in Nat
                             /\ \E u \in Nat : LaidOut(e, u)
  BY <1>3, GivenFacts, Zenon DEF Chunks
<1>6. c \in KnownChunks /\ InChunk(c, a)
  BY <1>3, ChunkFound
<1> HIDE DEF c
<1>7. InPlaceChunk(c) /\ physStart(c) = c.log /\ c.log \in Nat \ {0} /\ c \in Chunks
  BY <1>4, <1>5, <1>6
<1>8. c.log + (a - c.log) = a
  BY <1>2, <1>7
<1>9. physFromLog(a) = a
  BY <1>3, <1>7, <1>8 DEF physFromLog, Mapped, c
<1>10. k \in 1 .. n
  BY <1>3, SpanIsOneRead
<1>11. x \in a .. a + n - 1 /\ x \in Nat
  BY <1>2, <1>10
<1> HIDE DEF x
<1>12. PICK j \in DOMAIN chunks :
         x \in physStart(chunks[j]) .. physStart(chunks[j]) + chunks[j].size - 1
  BY <1>3, <1>9, <1>11 DEF Allocatable
<1> DEFINE e == chunks[j]
<1>13. e \in KnownChunks
  BY <1>3
<1> HIDE DEF e
<1>14. /\ InPlaceChunk(e) /\ e.log \in Nat \ {0} /\ e.size \in Nat
       /\ x \in e.log .. e.log + e.size - 1
  BY <1>4, <1>5, <1>12, <1>13 DEF e
<1>15. Turn.dev = image.list[1].dev /\ Turn.off = a
  <2>1. Mirrored(c) /\ DOMAIN c.stripes = {1} /\ Len(c.stripes) = 1
    BY <1>7 DEF InPlaceChunk
  <2>2. Route(a) = Mirrors(c, a)
    BY <1>3, <2>1, Zenon DEF Route, readFromChunk, c
  <2>3. call.tried < Len(Route(a))
    BY DEF Asked
  <2>4. DOMAIN Mirrors(c, a) = 1 .. 1
        /\ \A q \in 1 .. 1 : Mirrors(c, a)[q] = Try(c.stripes[1], a - c.log)
    <3>1. Len(c.stripes) > 0
      BY <2>1
    <3>2. /\ DOMAIN Mirrors(c, a) = 1 .. 1
          /\ \A q \in 1 .. 1 : \E i \in {1} : Mirrors(c, a)[q] = Try(c.stripes[i], a - c.log)
      BY <1>7, <2>1, <3>1, MirrorsRead, ZenonT(40)
    <3> QED
      BY <3>2
  <2>5. call.tried + 1 \in 1 .. 1
    <3>1. PICK u \in Nat : LaidOut(c, u)
      BY <1>5, <1>6
    <3>2. readFromChunk(c, a) = Route(a)
      BY <2>1, <2>2, Zenon DEF readFromChunk
    <3>3. Len(Route(a)) \in Nat /\ DOMAIN Route(a) = 1 .. Len(Route(a))
      BY <1>7, <3>1, <3>2, RouteIsSequence
    <3>4. 1 .. Len(Route(a)) = 1 .. 1
      BY <2>2, <2>4, <3>3, Zenon
    <3>5. Len(Route(a)) = 1
      <4> DEFINE z == Len(Route(a))
      <4>1. z \in Nat /\ 1 .. z = 1 .. 1
        BY <3>3, <3>4
      <4> HIDE DEF z
      <4>2. 1 \in 1 .. z
        BY <4>1
      <4>3. z \in 1 .. z
        BY <4>1, <4>2
      <4>4. z \in 1 .. 1
        BY <4>1, <4>3
      <4> QED
        BY <4>4 DEF z
    <3> QED
      BY <1>2, <2>3, <3>5
  <2>6. Turn = Try(c.stripes[1], a - c.log)
    BY <2>2, <2>4, <2>5 DEF Turn
  <2>7. c.stripes[1].dev = image.list[1].dev /\ c.stripes[1].off = c.log
    BY <1>7, InPlaceStripe
  <2> QED
    BY <1>8, <2>6, <2>7 DEF Try
<1>16. pool[Turn.dev] = 1
  <2>1. Turn.dev \in DOMAIN pool /\ PoolInv
    BY Zenon DEF Opened, Asked
  <2>2. pool[Turn.dev] \in 1 .. probed /\ probed \in 0 .. Len(image.list) /\ Len(image.list) = 1
    BY <1>3, <2>1, Zenon DEF PoolInv, OneCopy
  <2> QED
    BY <2>2
<1>17. store[1][x] = DataAt(x, Version(x))
  <2>1. x - e.log \in 0 .. e.size - 1 /\ e.log + (x - e.log) = x
    BY <1>11, <1>14
  <2>2. Holds(e, 1, x - e.log, x)
    BY <1>14, <2>1, InPlaceHolds, SMTT(30)
  <2>3. e.stripes[1].dev = image.list[1].dev /\ e.stripes[1].off = e.log
    BY <1>14, InPlaceStripe, SMTT(30)
  <2>4. StripeHolds(1, e, 1, x - e.log, x)
    BY <2>2, <2>3, SMTT(30) DEF StripeHolds
  <2>5. store[1][e.stripes[1].off + (x - e.log)] = DataAt(x, Version(x))
    BY <1>4, <1>13, <2>4, SMTT(30) DEF Stored
  <2> QED
    BY <2>1, <2>3, <2>5
<1>18. x # 0 /\ Expected(x) = DataAt(x, Version(x))
  BY <1>11, <1>14 DEF Expected
<1> QED
  BY <1>2, <1>15, <1>16, <1>17, <1>18, SMTT(30) DEF x

\* The device whose turn it is has what is asked for, and what follows.
LEMMA TurnIsRight ==
  ASSUME Opened, Stored, AllFormatted, Asked, NEW k \in 1 .. Covered(call.at, call.left)
  PROVE  store[pool[Turn.dev]][Turn.off + k - 1] = Expected(call.at + k - 1)
<1> DEFINE a == call.at
           n == call.left
           d == pool[Turn.dev]
<1>1. PICK S, F : call \in CallType(S, F)
  BY DEF Opened, CallInv
<1> SUFFICES ASSUME ~Spans(a, n) PROVE store[d][Turn.off + k - 1] = Expected(a + k - 1)
  BY SpanIsRight
<1>2. a \in Nat /\ n \in Nat \ {0} /\ call.tried \in Nat /\ InOneChunk(a, n)
  BY <1>1 DEF Opened, CallInv, CallType, Asked, Readable
<1>3. Given /\ chunks \in Seq(KnownChunks)
  BY DEF Opened, ChunkInv
<1>4. d \in Devices /\ (Turn.dev = 0 \/ image.list[d].dev = Turn.dev)
  <2>1. Devices = 1 .. Len(image.list) /\ Len(image.list) \in Nat
    BY <1>3, GivenFacts, Zenon
  <2>2. Turn.dev \in DOMAIN pool /\ PoolInv
    BY Zenon DEF Opened, Asked
  <2>3. probed \in 0 .. Len(image.list) /\ d \in 1 .. probed
        /\ (Turn.dev = 0 \/ image.list[d].dev = Turn.dev)
    BY <2>2, Zenon DEF PoolInv
  <2> HIDE DEF d
  <2> QED
    BY <2>1, <2>3, SMTT(30)
<1>5. CASE Mapped(a)
  <2> DEFINE c == chunkAt(a)
  <2>1. c \in KnownChunks /\ InChunk(c, a) /\ a + n <= c.log + c.size
    <3>1. c \in KnownChunks /\ InChunk(c, a)
      BY <1>3, <1>5, ChunkFound
    <3>2. a # 0
      BY <1>3, <1>5, SuperblockUnmapped, SMTT(30)
    <3> QED
      BY <1>2, <3>1, <3>2 DEF InOneChunk
  <2>2. c \in Chunks /\ \E u \in Nat : LaidOut(c, u)
    BY <1>3, <2>1, GivenFacts, SMTT(30)
  <2>3. PICK u \in Nat : LaidOut(c, u)
    BY <2>2
  <2>4. Route(a) = readFromChunk(c, a) /\ Covered(a, n) = Piece(c, a, n)
    BY <1>5, Zenon DEF Route, Covered
  <2>5. call.tried + 1 \in DOMAIN readFromChunk(c, a)
    <3> DEFINE r == readFromChunk(c, a)
    <3>1. Len(r) \in Nat /\ DOMAIN r = 1 .. Len(r)
      BY <2>2, <2>3, RouteIsSequence, SMTT(30)
    <3>2. call.tried < Len(r)
      BY <2>4 DEF Asked
    <3> HIDE DEF r
    <3>3. call.tried + 1 \in DOMAIN r
      BY <1>2, <3>1, <3>2, SMTT(30)
    <3> QED
      BY <3>3 DEF r
  <2> HIDE DEF c
  <2>6. Leads(c, a, readFromChunk(c, a)[call.tried + 1], Piece(c, a, n))
    BY <1>2, <2>1, <2>2, <2>3, <2>5, RouteSound, SMTT(30)
  <2>7. Leads(c, a, Turn, Piece(c, a, n))
    BY <2>4, <2>6 DEF Turn
  <2>8. PICK i \in DOMAIN c.stripes, o \in Nat :
          /\ Turn = Try(c.stripes[i], o)
          /\ \A h \in 0 .. Piece(c, a, n) - 1 : InChunk(c, a + h) => Holds(c, i, o + h, a + h)
    BY <2>7 DEF Leads
  <2>9. c.stripes[i] \in Stripes
    BY <2>2, SMTT(30) DEF Chunks
  <2>10. /\ c.stripes[i].dev \in Nat \ {0} /\ c.stripes[i].off \in Nat
         /\ Turn.dev = c.stripes[i].dev /\ Turn.off = c.stripes[i].off + o
    BY <2>8, <2>9, SMTT(30) DEF Stripes, Try
  <2> DEFINE p == Piece(c, a, n)
             h == k - 1
  <2>11. p \in 1 .. n
    BY <1>2, <2>1, <2>2, PieceBound, SMTT(30)
  <2>12. k \in 1 .. p
    BY <2>4
  <2> HIDE DEF p
  <2>13. h \in 0 .. p - 1 /\ h \in Nat /\ h < n
    BY <1>2, <2>11, <2>12, SMTT(30)
  <2>14. c.log \in Nat \ {0} /\ c.size \in Nat
    BY <2>2, SMTT(30) DEF Chunks
  <2> HIDE DEF a, n
  <2>15. InChunk(c, a + h) /\ a + h # 0 /\ a + h \in Nat
    BY <1>2, <2>1, <2>13, <2>14, SMTT(30) DEF InChunk
  <2> HIDE DEF h
  <2>16. Holds(c, i, o + h, a + h)
    BY <2>8, <2>13, <2>15 DEF p
  <2>17. image.list[d].dev = c.stripes[i].dev
    BY <1>4, <2>10, Zenon
  <2>18. StripeHolds(d, c, i, o + h, a + h)
    BY <2>16, <2>17, SMTT(30) DEF StripeHolds
  <2>19. store[d][c.stripes[i].off + (o + h)] = DataAt(a + h, Version(a + h))
    BY <1>4, <2>1, <2>18, SMTT(30) DEF Stored
  <2>20. c.stripes[i].off + (o + h) = Turn.off + k - 1
    BY <2>10, <2>13 DEF h
  <2>21. Expected(a + h) = DataAt(a + h, Version(a + h))
    BY <2>15 DEF Expected
  <2>22. a + h = a + k - 1
    BY <1>2, <2>11, <2>12 DEF h
  <2> QED
    BY <2>19, <2>20, <2>21, <2>22, SMTT(30)
<1>6. CASE ~Mapped(a)
  <2>1. a = 0 /\ n = 1
    BY <1>2, <1>6 DEF InOneChunk
  <2>2. Route(a) = <<[dev |-> devID, off |-> a]>> /\ Covered(a, n) = n
    BY <1>6 DEF Route, Covered
  <2>3. k = 1 /\ call.tried = 0
    <3>1. Len(<<[dev |-> devID, off |-> a]>>) = 1
      OBVIOUS
    <3>2. Len(Route(call.at)) = 1 /\ Covered(call.at, call.left) = 1
      BY <2>1, <2>2, <3>1
    <3>3. call.tried < Len(Route(call.at))
      BY DEF Asked
    <3> QED
      BY <1>2, <3>2, <3>3, SMTT(30)
  <2>4. Turn.off = 0
    BY <2>1, <2>2, <2>3, SMTT(30) DEF Turn
  <2>5. store[d][0] = Super
    BY <1>4 DEF Stored
  <2>6. Turn.off + k - 1 = 0 /\ call.at + k - 1 = 0
    BY <2>1, <2>3, <2>4
  <2>7. Expected(0) = Super
    BY DEF Expected
  <2> QED
    BY <2>5, <2>6, <2>7
<1> QED
  BY <1>5, <1>6

\* A read that begins has nothing to be wrong.
LEMMA NewCallRight ==
  ASSUME call' = NoCall \/ \E a, n \in Nat : call' = readAt(a, n)
  PROVE  ReadInv'
<1>1. call'.got = <<>> /\ call'.tried = 0 /\ call'.state \in {"none", "reading"}
  BY NewCalls
<1>2. Len(<<>>) = 0 /\ 1 .. 0 = {}
  OBVIOUS
<1> QED
  BY <1>1, <1>2 DEF ReadInv

\* Expected depends on what was written.
LEMMA ExpectedStays ==
  ASSUME UNCHANGED written
  PROVE  \A a : Expected(a)' = Expected(a)
  BY SMTT(30) DEF Expected, Version

\* A call that is over stays right.
LEMMA SameCallRight ==
  ASSUME ReadInv, UNCHANGED <<image, chunks, pool, call, written>>
  PROVE  ReadInv'
<1>1. \A a : Expected(a)' = Expected(a)
  BY ExpectedStays
<1>2. Route(call.at)' = Route(call.at)
  BY CallRouteStays
<1> QED
  BY <1>1, <1>2 DEF ReadInv

GotRight == \A k \in 1 .. Len(call.got) : call.got[k] = Expected(call.from + k - 1)

\* A read that goes on.
LEMMA ReadingRight ==
  ASSUME Opened, Stored, AllFormatted, ReadInv, Reading
  PROVE  ReadInv'
<1>1. UNCHANGED <<image, store, pool, chunks, written>>
  BY ReadingSteps
<1>2. \A a : Expected(a)' = Expected(a)
  BY <1>1, ExpectedStays, SMTT(30)
<1>3. CASE deviceRead
  <2> DEFINE n == Covered(call.at, call.left)
             g == call.got
             f == Cells(n)
             b == call.from
  <2>1. /\ n \in 1 .. call.left /\ call.at \in Nat /\ call.left \in Nat /\ b \in Nat
        /\ call'.got = g \o f /\ call'.from = b /\ call'.tried = 0
        /\ call'.state = IF call.left = n THEN "ok" ELSE "reading"
        /\ Len(g \o f) = Len(g) + n
        /\ \A k \in 1 .. Len(g) : (g \o f)[k] = g[k]
        /\ \A k \in 1 .. n : (g \o f)[Len(g) + k] = f[k]
    BY <1>3, CallMovesOn, Zenon
  <2>2. Len(g) = call.at - b /\ Len(g) \in Nat
    <3>1. PICK S, F : call \in CallType(S, F)
      BY DEF Opened, CallInv
    <3>2. g \in Seq(S)
      BY <3>1 DEF CallType
    <3> QED
      BY <3>2 DEF Opened, CallInv
  <2>3. \A k \in 1 .. n : f[k] = Expected(call.at + k - 1)
    <3> SUFFICES ASSUME NEW k \in 1 .. n PROVE f[k] = Expected(call.at + k - 1)
      OBVIOUS
    <3>1. f[k] = store[pool[Turn.dev]][Turn.off + k - 1]
      BY DEF Cells
    <3> QED
      BY <1>3, <3>1, TurnIsRight, SMTT(30) DEF deviceRead
  <2>4. \A k \in 1 .. Len(g) : g[k] = Expected(b + k - 1)
    BY DEF ReadInv
  <2> HIDE DEF n, g, f, b
  <2>5. ASSUME NEW k \in 1 .. Len(g) + n PROVE (g \o f)[k] = Expected(b + k - 1)
    <3>1. CASE k \in 1 .. Len(g)
      BY <2>1, <2>4, <3>1
    <3>2. CASE k \notin 1 .. Len(g)
      <4> DEFINE j == k - Len(g)
      <4>1. j \in 1 .. n /\ k = Len(g) + j /\ b + k - 1 = call.at + j - 1
        <5>1. n \in Nat /\ Len(g) \in Nat /\ k \in Nat /\ k >= 1 /\ k <= Len(g) + n /\ k > Len(g)
          BY <2>1, <2>2, <3>2, SMTT(30)
        <5>2. b \in Nat /\ call.at \in Nat /\ Len(g) = call.at - b
          BY <2>1, <2>2
        <5> HIDE DEF j
        <5>3. j = k - Len(g)
          BY DEF j
        <5>4. j \in 1 .. n /\ k = Len(g) + j
          BY <5>1, <5>3
        <5>5. j \in Nat
          BY <5>1, <5>4
        <5> DEFINE L == Len(g)
                   p == call.at
        <5>6. L \in Nat /\ p \in Nat /\ b \in Nat /\ L = p - b /\ k = L + j
          BY <5>1, <5>2, <5>4
        <5> HIDE DEF L, p
        <5>7. b + k - 1 = p + j - 1
          BY <5>5, <5>6
        <5> QED
          BY <5>4, <5>7 DEF p
      <4> HIDE DEF j
      <4>2. (g \o f)[k] = f[j] /\ f[j] = Expected(call.at + j - 1)
        BY <2>1, <2>3, <4>1, Zenon
      <4> QED
        BY <4>1, <4>2
    <3> QED
      BY <3>1, <3>2, ZenonT(40)
  <2>6. GotRight'
    <3>1. UNCHANGED written
      BY <1>1
    <3> QED
      BY <2>1, <2>5, <3>1 DEF GotRight, Expected, Version
  <2>7. call'.tried = 0 /\ call'.state # "error" /\ 1 .. 0 = {}
    BY <2>1
  <2> QED
    BY <2>6, <2>7 DEF ReadInv, GotRight
<1>4. CASE deviceMissing \/ deviceFails \/ noDeviceLeft
  <2>1. /\ call'.got = call.got /\ call'.at = call.at /\ call'.from = call.from
        /\ call.tried \in Nat /\ call.state = "reading"
        /\ deviceMissing => call'.tried = call.tried + 1 /\ call'.failed = call.failed /\ call'.state = "reading"
        /\ deviceFails => /\ call'.tried = call.tried + 1 /\ call'.state = "reading"
                          /\ call'.failed = call.failed \cup {<<pool[Turn.dev], Turn.off>>}
        /\ noDeviceLeft => call'.tried = call.tried /\ call'.failed = call.failed /\ call'.state = "error"
    BY <1>4, CallTriesNext, SMTT(30)
  <2>2. Route(call.at)' = Route(call.at)
    BY <1>1, <2>1, CallRouteStays, SMTT(30)
  <2>3. GotRight'
    <3>1. UNCHANGED written /\ GotRight
      BY <1>1, SMTT(30) DEF ReadInv, GotRight
    <3> QED
      BY <2>1, <3>1, SMTT(30) DEF GotRight, Expected, Version
  <2> DEFINE r == Route(call.at)
  <2>4. \A k \in 1 .. call.tried : r[k].dev \in DOMAIN pool => <<pool[r[k].dev], r[k].off>> \in call.failed
    BY <2>1 DEF ReadInv
  <2>5. Turn = r[call.tried + 1]
    BY DEF Turn
  <2> HIDE DEF r
  <2>6. \A k \in 1 .. call'.tried : r[k].dev \in DOMAIN pool => <<pool[r[k].dev], r[k].off>> \in call'.failed
    <3>1. CASE deviceMissing
      <4>1. r[call.tried + 1].dev \notin DOMAIN pool
        BY <2>5, <3>1, SMTT(30) DEF deviceMissing
      <4>2. \A k \in 1 .. call'.tried : k \in 1 .. call.tried \/ k = call.tried + 1
        BY <2>1, <3>1
      <4> QED
        BY <2>1, <2>4, <3>1, <4>1, <4>2, SMTT(30)
    <3>2. CASE deviceFails
      <4>1. \A k \in 1 .. call'.tried : k \in 1 .. call.tried \/ k = call.tried + 1
        BY <2>1, <3>2
      <4>2. call'.failed = call.failed \cup {<<pool[r[call.tried + 1].dev], r[call.tried + 1].off>>}
        BY <2>1, <2>5, <3>2, SMTT(30)
      <4> QED
        BY <2>4, <4>1, <4>2, Zenon
    <3>3. CASE noDeviceLeft
      BY <2>1, <2>4, <3>3
    <3> QED
      BY <1>4, <3>1, <3>2, <3>3, SMTT(30)
  <2>7. call'.state = "error" => call'.tried = Len(r)
    <3> SUFFICES ASSUME call'.state = "error" PROVE call'.tried = Len(r)
      OBVIOUS
    <3>1. noDeviceLeft
      BY <1>4, <2>1
    <3> QED
      BY <2>1, <3>1 DEF noDeviceLeft, r
  <2>8. r = Route(call.at)'
    BY <2>2 DEF r
  <2> QED
    BY <1>1, <2>3, <2>6, <2>7, <2>8, SMTT(30) DEF ReadInv, GotRight
<1> QED
  BY <1>3, <1>4 DEF Reading

----------------------------------------------------------------------------
(* The invariant of the calls. *)

\* The inductive invariant: the stores hold the last versions, and a read has
\* returned them.
IInv == Opened /\ Stored /\ ReadInv

LEMMA InitIInv == Init => IInv
<1> SUFFICES ASSUME Init PROVE IInv
  OBVIOUS
<1>1. Opened /\ Stored
  BY InitOpened, InitStored
<1>2. call = NoCall
  BY Zenon DEF Init
<1>3. NoCall.got = <<>> /\ NoCall.tried = 0 /\ NoCall.state = "none"
  BY NewCalls
<1>4. Len(<<>>) = 0 /\ 1 .. 0 = {}
  OBVIOUS
<1>5. ReadInv
  BY <1>2, <1>3, <1>4 DEF ReadInv
<1> QED
  BY <1>1, <1>5 DEF IInv

\* Opening starts reads, and ends.
LEMMA OpeningRight ==
  ASSUME IInv, Opening
  PROVE  Stored' /\ ReadInv'
<1> USE DEF IInv
<1>1. UNCHANGED <<image, store, written>>
  BY Zenon DEF Opening, readSuperblock, addDevice, readChunkTree, appendChunk, loadChunkTree,
               resolveRootTree, buildSpaceManager, openFails
<1>2. Stored'
  BY <1>1, StoredStays
<1>3. CASE readSuperblock \/ addDevice
  <2>1. call = NoCall
    BY <1>3, Zenon DEF Opened, PoolInv, readSuperblock, addDevice
  <2>2. call' = NoCall
    BY <1>3, <2>1 DEF readSuperblock, addDevice
  <2> QED
    BY <1>2, <2>2, NewCallRight
<1>4. CASE readChunkTree
  <2>1. image.chunks[1].log \in Nat
    <3>1. image.chunks \in Seq(Chunks) /\ image.boot \in 1 .. Len(image.chunks)
      BY GivenFacts DEF Opened
    <3>2. 1 \in DOMAIN image.chunks
      BY <3>1
    <3>3. image.chunks[1] \in Chunks
      BY <3>1, <3>2, SMTT(30)
    <3> QED
      BY <3>3 DEF Chunks
  <2>2. \E a, n \in Nat : call' = readAt(a, n)
    BY <1>4, <2>1 DEF readChunkTree
  <2> QED
    BY <1>2, <2>2, NewCallRight, SMTT(30)
<1>5. CASE loadChunkTree \/ resolveRootTree
  <2>1. PICK c \in KnownChunks : InChunk(c, image.root)
    BY GivenFacts DEF Opened
  <2>2. c \in Chunks
    BY GivenFacts DEF Opened
  <2>3. image.root \in Nat
    BY <2>1, <2>2 DEF InChunk, Chunks
  <2>4. \E a, n \in Nat : call' = readAt(a, n)
    BY <1>5, <2>3 DEF loadChunkTree, resolveRootTree
  <2> QED
    BY <1>2, <2>4, NewCallRight
<1>6. CASE buildSpaceManager
  <2>1. call' = NoCall
    BY <1>6 DEF buildSpaceManager
  <2> QED
    BY <1>2, <2>1, NewCallRight
<1>7. CASE openFails
  <2>1. UNCHANGED <<image, chunks, pool, call, written>>
    BY <1>7, SMTT(30) DEF openFails
  <2> QED
    BY <1>2, <2>1, SameCallRight, SMTT(30)
<1>8. CASE appendChunk
  <2>1. call.state = "ok" /\ call' = call
    BY <1>8 DEF appendChunk
  <2>2. \A a : Expected(a)' = Expected(a)
    BY <1>1, ExpectedStays
  <2> QED
    BY <1>2, <2>1, <2>2, SMTT(30) DEF ReadInv
<1> QED
  BY <1>3, <1>4, <1>5, <1>6, <1>7, <1>8, SMTT(30) DEF Opening

\* Every step keeps the invariant.
LEMMA StepIInv ==
  ASSUME AllFormatted
  PROVE  IInv /\ [Next]_vars => IInv'
<1> SUFFICES ASSUME IInv, [Next]_vars PROVE Stored' /\ ReadInv'
  BY StepOpened DEF IInv
<1>1. CASE Opening
  BY <1>1, OpeningRight
<1>2. CASE Reading
  <2>1. UNCHANGED <<image, store, written>>
    BY <1>2, ReadingSteps DEF IInv
  <2> QED
    BY <1>2, <2>1, StoredStays, ReadingRight, SMTT(30) DEF IInv
<1>3. CASE Close \/ UNCHANGED vars
  <2>1. UNCHANGED <<image, store, chunks, pool, call, written>>
    BY <1>3 DEF Close, vars
  <2> QED
    BY <2>1, StoredStays, SameCallRight DEF IInv
<1>4. CASE \E a \in {0} \cup Addresses, n \in Lengths : ReadAt(a, n)
  <2>1. PICK a \in {0} \cup Addresses, n \in Lengths : ReadAt(a, n)
    BY <1>4
  <2>2. call' = readAt(a, n) /\ UNCHANGED <<image, store, written>>
    BY <2>1 DEF ReadAt
  <2>3. n \in Nat
    BY PoolAssumption
  <2>4. a \in Nat
    <3>1. CASE a \in Addresses
      <4>1. PICK i \in DOMAIN image.chunks :
              a \in image.chunks[i].log .. image.chunks[i].log + image.chunks[i].size - 1
        BY <3>1 DEF Addresses
      <4>2. image.chunks[i] \in Chunks
        BY GivenFacts DEF IInv, Opened
      <4> QED
        BY <4>1, <4>2 DEF Chunks
    <3> QED
      BY <3>1
  <2>5. ReadInv'
    BY <2>2, <2>3, <2>4, NewCallRight, SMTT(30)
  <2> QED
    BY <2>2, <2>5, StoredStays DEF IInv
<1>5. CASE Writing
  <2>1. call' = NoCall
    BY <1>5, WritesLeave DEF IInv
  <2> QED
    BY <1>5, <2>1, StoredWrite, NewCallRight, SMTT(30) DEF IInv
<1> QED
  BY <1>1, <1>2, <1>3, <1>4, <1>5, SMTT(30) DEF Next, Writing

LEMMA AlwaysIInv ==
  ASSUME AllFormatted
  PROVE  Spec => []IInv
<1>1. Init => IInv
  BY InitIInv
<1>2. IInv /\ [Next]_vars => IInv'
  BY StepIInv
<1> QED
  BY <1>1, <1>2, PTL DEF Spec

\* A read that succeeds returns what was last stored at its addresses, for every
\* file system, profile, stripe length and number of devices, every order in which
\* devices fail, and after every write to a file system as Format lays it out.
THEOREM ReadsStayRight ==
  ASSUME AllFormatted
  PROVE  Spec => []ReadsAreRight
<1>1. IInv => ReadsAreRight
  <2> SUFFICES ASSUME IInv, call.state = "ok"
               PROVE  call.got = [k \in 1 .. call.at - call.from |-> Expected(call.from + k - 1)]
    BY DEF ReadsAreRight
  <2>1. PICK S, F : call \in CallType(S, F)
    BY DEF IInv, Opened, CallInv
  <2> DEFINE g == call.got
             m == call.at - call.from
  <2>2. g \in Seq(S) /\ Len(g) = m
    BY <2>1, SMTT(30) DEF CallType, IInv, Opened, CallInv
  <2>3. \A k \in 1 .. Len(g) : g[k] = Expected(call.from + k - 1)
    BY DEF IInv, ReadInv
  <2> HIDE DEF g, m
  <2>4. g = [k \in 1 .. m |-> g[k]]
    BY <2>2
  <2>5. [k \in 1 .. m |-> g[k]] = [k \in 1 .. m |-> Expected(call.from + k - 1)]
    BY <2>2, <2>3, Zenon
  <2> QED
    BY <2>4, <2>5, Zenon DEF g, m
<1> QED
  BY <1>1, AlwaysIInv, PTL

\* A read that fails has tried every copy of the unit that a device of the pool
\* holds: no route leaves one out, in any profile but those that are refused.
THEOREM ErrorsMeanNoCopy ==
  ASSUME AllFormatted
  PROVE  Spec => []ErrorMeansNoCopy
<1>1. IInv => ErrorMeansNoCopy
  <2> SUFFICES ASSUME IInv, call.state = "error", Mapped(call.at), ~Refused(chunkAt(call.at)),
                      NEW i \in DOMAIN pool, NEW p \in DOMAIN store[pool[i]],
                      store[pool[i]][p].kind = "data", store[pool[i]][p].at = call.at
               PROVE  <<pool[i], p>> \in call.failed
    BY Zenon DEF ErrorMeansNoCopy
  <2> DEFINE d == pool[i]
             a == call.at
             r == Route(a)
  <2>1. Given /\ chunks \in Seq(KnownChunks) /\ PoolInv
    BY SMTT(30) DEF IInv, Opened, ChunkInv
  <2>2. d \in Devices /\ (i = 0 \/ image.list[d].dev = i)
    <3>1. Devices = 1 .. Len(image.list) /\ Len(image.list) \in Nat
      BY <2>1, GivenFacts, Zenon
    <3>2. probed \in 0 .. Len(image.list) /\ d \in 1 .. probed /\ (i = 0 \/ image.list[d].dev = i)
      BY <2>1, Zenon DEF PoolInv
    <3> HIDE DEF d
    <3> QED
      BY <3>1, <3>2, SMTT(30)
  <2>3. PICK c \in KnownChunks : \E j, o : StripeHolds(d, c, j, o, a) /\ p = c.stripes[j].off + o
    <3>1. \A e \in Devices : \A q \in DOMAIN store[e] :
            store[e][q].kind = "data" =>
              \E c \in KnownChunks : \E j, o :
                StripeHolds(e, c, j, o, store[e][q].at) /\ q = c.stripes[j].off + o
      BY ZenonT(40) DEF IInv, Stored
    <3>2. p \in DOMAIN store[d] /\ store[d][p].kind = "data" /\ store[d][p].at = a
      OBVIOUS
    <3> HIDE DEF d, a
    <3>3. \E c \in KnownChunks : \E j, o :
            StripeHolds(d, c, j, o, store[d][p].at) /\ p = c.stripes[j].off + o
      BY <2>2, <3>1, <3>2, Zenon
    <3> QED
      BY <3>2, <3>3, Zenon
  <2>4. PICK j, o : StripeHolds(d, c, j, o, a) /\ p = c.stripes[j].off + o
    BY <2>3, Zenon
  <2>5. Holds(c, j, o, a) /\ c.stripes[j].dev = image.list[d].dev
    BY <2>4, Zenon DEF StripeHolds
  <2>6. c \in Chunks /\ \E u \in Nat : LaidOut(c, u)
    BY <2>1, GivenFacts, Zenon
  <2>7. PICK u \in Nat : LaidOut(c, u)
    BY <2>6, Zenon
  <2>8. InChunk(c, a) /\ (~Refused(c) => OnRoute(c, a, c.stripes[j], o))
    BY <2>5, <2>6, <2>7, CopyOnRoute, Zenon
  <2>9. chunkAt(a) = c
    <3>1. chunkAt(a) \in KnownChunks /\ InChunk(chunkAt(a), a)
      BY <2>1, ChunkFound, Zenon
    <3> QED
      BY <2>1, <2>8, <3>1, GivenFacts, Zenon
  <2>10. r = readFromChunk(c, a)
    BY <2>9, Zenon DEF Route
  <2>11. PICK k \in DOMAIN readFromChunk(c, a) : readFromChunk(c, a)[k] = Try(c.stripes[j], o)
    <3>1. ~Refused(c)
      BY <2>9, Zenon
    <3> QED
      BY <2>8, <3>1, Zenon DEF OnRoute
  <2>12. k \in 1 .. call.tried
    <3>1. DOMAIN readFromChunk(c, a) = 1 .. Len(readFromChunk(c, a))
      BY <2>6, <2>7, RouteIsSequence, Zenon
    <3>2. call.tried = Len(r)
      BY Zenon DEF IInv, ReadInv
    <3> QED
      BY <2>10, <2>11, <3>1, <3>2, Zenon
  <2>13. r[k].dev = image.list[d].dev /\ r[k].off = p
    <3>1. r[k] = Try(c.stripes[j], o)
      BY <2>10, <2>11, Zenon
    <3>2. Try(c.stripes[j], o).dev = c.stripes[j].dev /\ Try(c.stripes[j], o).off = c.stripes[j].off + o
      BY Zenon DEF Try
    <3> HIDE DEF r
    <3> QED
      BY <2>4, <2>5, <3>1, <3>2, Zenon
  <2>14. r[k].dev \in DOMAIN pool /\ pool[r[k].dev] = d
    <3>1. CASE i = 0
      <4>1. image.list[1].good /\ devID = 0 /\ 1 \in DOMAIN pool /\ pool[0] = 1 /\ pool[1] = 1
        BY <2>1, <3>1, Zenon DEF PoolInv
      <4>2. image.list[1].dev = 1
        BY <2>1, <4>1, GivenFacts, Zenon DEF Identified, devID
      <4> QED
        BY <2>13, <3>1, <4>1, <4>2, Zenon
    <3>2. CASE i # 0
      BY <2>2, <2>13, <3>2, Zenon
    <3> QED
      BY <3>1, <3>2, Zenon
  <2>15. r[k].dev \in DOMAIN pool => <<pool[r[k].dev], r[k].off>> \in call.failed
    BY <2>12, Zenon DEF IInv, ReadInv
  <2> QED
    BY <2>13, <2>14, <2>15, Zenon
<1> QED
  BY <1>1, AlwaysIInv, PTL
=============================================================================
