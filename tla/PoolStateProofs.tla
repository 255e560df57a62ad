-------------------------- MODULE PoolStateProofs ---------------------------
(***************************************************************************)
(* What the calls keep of a pool's own state, for any devices and chunks:  *)
(* the devices of a pool that opens are the ones it closes, once; the map  *)
(* of chunks ends with every chunk of the file system; a read asks within  *)
(* one chunk; and a write leaves each copy of a unit with its last         *)
(* version.  And the arithmetic of the chunks in columns: the route of a   *)
(* striped read and the layout of the stripes are inverse to each other.   *)
(***************************************************************************)
EXTENDS DevicePool, WellFoundedInduction, TLAPS

----------------------------------------------------------------------------
(* Numbers. *)

\* The order of the natural numbers as a set of pairs.
Less == {ss \in Nat \X Nat : ss[1] < ss[2]}

\* There is no infinite descent in the natural numbers.
LEMMA LessWellFounded == IsWellFoundedOn(Less, Nat)
  BY NatLessThanWellFounded, Zenon DEF OpToRel, Less

\* A set of numbers that is not empty has a least one.
LEMMA MinIsLeast ==
  ASSUME NEW S \in SUBSET Nat, S # {}
  PROVE  Min(S) \in S /\ \A y \in S : Min(S) <= y
<1>1. PICK x \in S : \A y \in S : <<y, x>> \notin Less
  BY WFMin, LessWellFounded, Zenon
<1>2. ASSUME NEW y \in S PROVE x <= y
  <2>1. y < x => <<y, x>> \in Less
    BY DEF Less
  <2> QED
    BY <1>1, <2>1
<1> QED
  BY <1>2, Zenon DEF Min

\* A number is quotient times divisor plus rest.
LEMMA Euclid ==
  ASSUME NEW x \in Nat, NEW L \in Nat \ {0}
  PROVE  x \div L \in Nat /\ x % L \in 0 .. L - 1 /\ x = L * (x \div L) + (x % L)
OBVIOUS

\* A sequence is a function on the numbers up to its length.
LEMMA SeqShape ==
  ASSUME NEW A, NEW s \in Seq(A)
  PROVE  Len(s) \in Nat /\ DOMAIN s = 1 .. Len(s) /\ \A k \in 1 .. Len(s) : s[k] \in A
  OBVIOUS

----------------------------------------------------------------------------
(* Chunks and what the devices hold of them. *)

InChunk(c, a) == a \in c.log .. c.log + c.size - 1

\* A device read covers one unit at least, and no more than is asked for.
LEMMA PieceBound ==
  ASSUME NEW c \in Chunks, NEW a, InChunk(c, a), NEW n \in Nat \ {0}
  PROVE  /\ Piece(c, a, n) \in 1 .. n
         /\ ~Mirrored(c) => Piece(c, a, n) <= c.stripeLen - stripeOff(c, a)
<1>1. CASE Mirrored(c)
  <2>1. Piece(c, a, n) = n
    BY <1>1, Zenon DEF Piece
  <2> QED
    BY <1>1, <2>1
<1>2. CASE ~Mirrored(c)
  <2> DEFINE L == c.stripeLen
             x == a - c.log
             m == L - stripeOff(c, a)
             S == {n, m}
  <2>1. L \in Nat \ {0} /\ x \in Nat
    BY DEF Chunks, InChunk
  <2>2. x % L \in 0 .. L - 1
    <3> HIDE DEF L, x
    <3> QED
      BY <2>1, Euclid
  <2>3. stripeOff(c, a) \in 0 .. L - 1
    BY <2>2 DEF stripeOff
  <2>4. Piece(c, a, n) = Min(S)
    BY <1>2, Zenon DEF Piece
  <2> HIDE DEF L
  <2>5. m \in Nat \ {0}
    BY <2>1, <2>3
  <2> HIDE DEF m
  <2>6. S \in SUBSET Nat /\ S # {} /\ n \in S /\ m \in S
    BY <2>5
  <2>7. Min(S) \in S /\ \A y \in S : Min(S) <= y
    BY <2>6, MinIsLeast
  <2> HIDE DEF S
  <2>8. Min(S) <= n /\ Min(S) <= m /\ (Min(S) = n \/ Min(S) = m)
    BY <2>6, <2>7 DEF S
  <2>9. Piece(c, a, n) \in 1 .. n /\ Piece(c, a, n) <= m
    BY <2>4, <2>5, <2>8
  <2> QED
    BY <2>9 DEF m, L
<1> QED
  BY <1>1, <1>2

\* The stripe i has the address a at the offset o.
Holds(c, i, o, a) ==
  i \in DOMAIN c.stripes /\ o \in 0 .. StripeSize(c) - 1 /\ Layout(c, i - 1, o) = DataAt(a, 0)

KnownChunks == {image.chunks[k] : k \in DOMAIN image.chunks}

StripeHolds(d, c, i, o, a) == Holds(c, i, o, a) /\ c.stripes[i].dev = image.list[d].dev

\* Each copy of an address is its last version, and there is no other data.
Stored ==
  /\ DOMAIN store = Devices
  /\ \A d \in Devices : DOMAIN store[d] \subseteq Nat /\ 0 \in DOMAIN store[d] /\ store[d][0] = Super
  /\ \A d \in Devices : \A c \in KnownChunks : \A i, o, a :
       StripeHolds(d, c, i, o, a) =>
         /\ c.stripes[i].off + o \in DOMAIN store[d]
         /\ store[d][c.stripes[i].off + o] = DataAt(a, Version(a))
  /\ \A d \in Devices : \A p \in DOMAIN store[d] :
       store[d][p].kind = "data" =>
         \E c \in KnownChunks : \E i, o :
           StripeHolds(d, c, i, o, store[d][p].at) /\ p = c.stripes[i].off + o

----------------------------------------------------------------------------
(* The invariant of the calls. *)

\* The file system is one of the given ones.
Given ==
  \E m \in Images : \E l \in m.lists :
    image = [chunks |-> m.chunks, boot |-> m.boot, root |-> m.root, list |-> l]

\* A given file system is well-formed.
LEMMA GivenFacts ==
  ASSUME Given
  PROVE  /\ image.chunks \in Seq(Chunks) /\ image.boot \in 1 .. Len(image.chunks)
         /\ image.list \in Seq(Legs) /\ Len(image.list) \in Nat \ {0}
         /\ Devices = 1 .. Len(image.list)
         /\ Identified(image.list)
         /\ \A c \in KnownChunks : c \in Chunks /\ \E u \in Nat : LaidOut(c, u)
         /\ \A c, e \in KnownChunks : \A a : InChunk(c, a) /\ InChunk(e, a) => c = e
         /\ \E c \in KnownChunks : InChunk(c, image.root)
<1>1. PICK m \in Images : \E l \in m.lists :
        image = [chunks |-> m.chunks, boot |-> m.boot, root |-> m.root, list |-> l]
  BY DEF Given
<1>2. PICK l \in m.lists :
        image = [chunks |-> m.chunks, boot |-> m.boot, root |-> m.root, list |-> l]
  BY <1>1
<1>3. WellFormed(m)
  BY PoolAssumption
<1>4. image.chunks = m.chunks /\ image.boot = m.boot /\ image.root = m.root /\ image.list = l
  BY <1>2
<1>5. image.chunks \in Seq(Chunks) /\ image.boot \in 1 .. Len(image.chunks)
  BY <1>3, <1>4 DEF WellFormed
<1>6. image.list \in Seq(Legs) /\ Identified(image.list)
  BY <1>3, <1>4 DEF WellFormed
<1>7. Len(image.list) \in Nat \ {0} /\ Devices = 1 .. Len(image.list)
  <2>1. Len(image.list) \in Nat /\ DOMAIN image.list = 1 .. Len(image.list)
    BY <1>6, SeqShape
  <2>2. Len(image.list) > 0
    BY <1>6 DEF Identified
  <2> QED
    BY <2>1, <2>2 DEF Devices
<1>8. ASSUME NEW c \in KnownChunks PROVE c \in Chunks /\ \E u \in Nat : LaidOut(c, u)
  <2>1. PICK k \in DOMAIN m.chunks : c = m.chunks[k]
    BY <1>4 DEF KnownChunks
  <2>2. c \in Chunks
    BY <1>4, <1>5, <2>1
  <2>3. LaidOut(c, m.units) /\ m.units \in Nat
    BY <1>3, <2>1 DEF WellFormed
  <2> QED
    BY <2>2, <2>3
<1>9. ASSUME NEW c \in KnownChunks, NEW e \in KnownChunks, NEW a, InChunk(c, a), InChunk(e, a)
      PROVE  c = e
  <2>1. PICK k \in DOMAIN m.chunks : c = m.chunks[k]
    BY <1>4 DEF KnownChunks
  <2>2. PICK j \in DOMAIN m.chunks : e = m.chunks[j]
    BY <1>4 DEF KnownChunks
  <2>3. \/ k = j \/ c.log + c.size <= e.log \/ e.log + e.size <= c.log
    BY <1>3, <2>1, <2>2, Zenon DEF WellFormed, Apart
  <2>4. c.log \in Nat /\ c.size \in Nat /\ e.log \in Nat /\ e.size \in Nat
    BY <1>8, SMTT(30) DEF Chunks
  <2>5. a \in Int /\ c.log <= a /\ a < c.log + c.size /\ e.log <= a /\ a < e.log + e.size
    BY <1>9, <2>4 DEF InChunk
  <2>6. k = j
    BY <2>3, <2>4, <2>5
  <2> QED
    BY <2>1, <2>2, <2>6
<1>10. \E c \in KnownChunks : InChunk(c, image.root)
  <2>1. PICK i \in DOMAIN m.chunks :
          m.root \in m.chunks[i].log .. m.chunks[i].log + m.chunks[i].size - 1
    BY <1>3 DEF WellFormed
  <2>2. InChunk(m.chunks[i], image.root) /\ m.chunks[i] \in KnownChunks
    BY <1>4, <2>1 DEF InChunk, KnownChunks
  <2> QED
    BY <2>2
<1> QED
  BY <1>5, <1>6, <1>7, <1>8, <1>9, <1>10

Phases == {"new", "probing", "loading", "resolving", "reserving", "open", "failed", "closed"}

\* The pool has devices under their devids; the primary without one is device 1 too.
PoolInv ==
  /\ phase \in Phases /\ probed \in 0 .. Len(image.list)
  /\ phase = "new" => pool = <<>> /\ chunks = <<>>
  /\ phase \in {"new", "probing"} => call = NoCall
  /\ phase \in {"probing", "loading", "resolving", "reserving", "open"} => image.list[1].good
  /\ \A i \in DOMAIN pool : pool[i] \in 1 .. probed /\ (i = 0 \/ image.list[pool[i]].dev = i)
  /\ 0 \in DOMAIN pool =>
       image.list[1].good /\ devID = 0 /\ 1 \in DOMAIN pool /\ pool[0] = 1 /\ pool[1] = 1

\* The chunk map has chunks of the file system, and in the end all of them.
ChunkInv ==
  /\ chunks \in Seq(KnownChunks)
  /\ phase \in {"probing", "loading"} => \E k \in DOMAIN chunks : chunks[k] = image.chunks[1]
  /\ phase \in {"resolving", "reserving", "open"} =>
       \A c \in KnownChunks : \E k \in DOMAIN chunks : chunks[k] = c

\* No device is closed before the pool is, and then each of the pool is closed once.
ClosesInv ==
  /\ closes \in [Devices -> {0, 1}]
  /\ phase \notin {"failed", "closed"} => \A d \in Devices : closes[d] = 0
  /\ phase \in {"failed", "closed"} => \A i \in DOMAIN pool : closes[pool[i]] = 1

\* What is left of a read lies in one chunk, or is the superblock.
InOneChunk(a, n) ==
  \/ a = 0 /\ n = 1
  \/ Mapped(a) /\ a + n <= chunkAt(a).log + chunkAt(a).size

\* What writeExtent makes of one device with one copy may go over the end of a chunk.
OneCopy ==
  /\ Len(image.list) = 1 /\ image.list[1].good
  /\ \A i \in DOMAIN image.chunks : image.chunks[i].profile = "single"
Spans(a, n) == OneCopy /\ Mapped(a) /\ Allocatable(physFromLog(a), n)
Readable(a, n) == InOneChunk(a, n) \/ Spans(a, n)

CallType(S, F) ==
  [state : {"none", "reading", "ok", "error"}, from : Nat, at : Nat, left : Nat,
   tried : Nat, got : Seq(S), failed : SUBSET F]

CallInv ==
  /\ \E S, F : call \in CallType(S, F)
  /\ Len(call.got) = call.at - call.from
  /\ call.state = "reading" => call.left # 0 /\ Readable(call.at, call.left)

Opened == Given /\ PoolInv /\ ChunkInv /\ ClosesInv /\ CallInv

\* The chunk map finds the chunk of an address.
LEMMA ChunkFound ==
  ASSUME Given, chunks \in Seq(KnownChunks), NEW a
  PROVE  /\ Mapped(a) <=> \E k \in DOMAIN chunks : InChunk(chunks[k], a)
         /\ Mapped(a) => chunkAt(a) \in KnownChunks /\ InChunk(chunkAt(a), a)
         /\ \A k \in DOMAIN chunks : InChunk(chunks[k], a) => Mapped(a) /\ chunkAt(a) = chunks[k]
<1> DEFINE S == lookupChunk(a)
<1>1. S = {i \in DOMAIN chunks : InChunk(chunks[i], a)}
  BY DEF lookupChunk, InChunk
<1>2. S \in SUBSET Nat /\ \A i \in DOMAIN chunks : chunks[i] \in KnownChunks
  BY <1>1
<1>3. S # {} => Min(S) \in S
  <2> HIDE DEF S
  <2> QED
    BY <1>2, MinIsLeast
<1>4. Mapped(a) <=> S # {}
  BY DEF Mapped
<1>5. chunkAt(a) = chunks[Min(S)]
  BY DEF chunkAt
<1> HIDE DEF S
<1>6. Mapped(a) => chunkAt(a) \in KnownChunks /\ InChunk(chunkAt(a), a)
  BY <1>1, <1>2, <1>3, <1>4, <1>5
<1>7. ASSUME NEW k \in DOMAIN chunks, InChunk(chunks[k], a) PROVE Mapped(a) /\ chunkAt(a) = chunks[k]
  <2>1. Mapped(a)
    BY <1>1, <1>4, <1>7
  <2> QED
    BY <1>2, <1>6, <1>7, <2>1, GivenFacts
<1> QED
  BY <1>1, <1>4, <1>6, <1>7, Zenon

\* A new call has its address and its length, and nothing yet.
LEMMA NewCalls ==
  /\ NoCall \in CallType({}, {}) /\ NoCall.state = "none" /\ NoCall.got = <<>>
  /\ NoCall.at = 0 /\ NoCall.from = 0 /\ NoCall.left = 0 /\ NoCall.tried = 0
  /\ \A a, n \in Nat :
       /\ readAt(a, n) \in CallType({}, {}) /\ readAt(a, n).state = "reading"
       /\ readAt(a, n).got = <<>> /\ readAt(a, n).at = a /\ readAt(a, n).from = a
       /\ readAt(a, n).left = n /\ readAt(a, n).tried = 0
<1>1. <<>> \in Seq({}) /\ {} \in SUBSET {}
  OBVIOUS
<1> QED
  BY <1>1, ZenonT(40) DEF NoCall, readAt, CallType

\* A file system that is not opened yet.
LEMMA InitOpened ==
  Init => Opened
<1> SUFFICES ASSUME Init PROVE Opened
  OBVIOUS
<1>1. Given
  BY DEF Init, Given
<1>2. Len(image.list) \in Nat \ {0} /\ Devices = 1 .. Len(image.list)
  BY <1>1, GivenFacts
<1>3. DOMAIN pool = {} /\ phase = "new" /\ probed = 0 /\ pool = <<>> /\ chunks = <<>> /\ call = NoCall
  BY DEF Init
<1>4. PoolInv
  BY <1>2, <1>3 DEF PoolInv, Phases
<1>5. ChunkInv
  BY <1>3 DEF ChunkInv
<1>6. ClosesInv
  BY <1>3 DEF ClosesInv, Init
<1>7. CallInv
  <2>1. Len(<<>>) = 0 /\ 0 - 0 = 0
    OBVIOUS
  <2>2. /\ call \in CallType({}, {}) /\ call.state = "none"
        /\ call.got = <<>> /\ call.at = 0 /\ call.from = 0
    BY <1>3, NewCalls
  <2> QED
    BY <2>1, <2>2 DEF CallInv
<1> QED
  BY <1>1, <1>4, <1>5, <1>6, <1>7 DEF Opened

\* The calls that read leave the file system, the pool and the map alone.
LEMMA ReadingSteps ==
  ASSUME Opened, Reading
  PROVE  UNCHANGED <<image, store, phase, probed, pool, chunks, closes, written>>
  BY DEF Reading, deviceMissing, deviceRead, deviceFails, noDeviceLeft

\* The device reads cover a part of what is left.
LEMMA CoveredBound ==
  ASSUME Given, chunks \in Seq(KnownChunks), NEW a \in Nat, NEW n \in Nat \ {0}
  PROVE  Covered(a, n) \in 1 .. n
<1>1. CASE Mapped(a)
  <2>1. chunkAt(a) \in KnownChunks /\ InChunk(chunkAt(a), a)
    BY <1>1, ChunkFound
  <2>2. chunkAt(a) \in Chunks
    BY <2>1, GivenFacts
  <2>3. Piece(chunkAt(a), a, n) \in 1 .. n
    BY <2>1, <2>2, PieceBound
  <2> QED
    BY <1>1, <2>3 DEF Covered
<1>2. CASE ~Mapped(a)
  BY <1>2 DEF Covered
<1> QED
  BY <1>1, <1>2

\* The superblock has no chunk.
LEMMA SuperblockUnmapped ==
  ASSUME Given, chunks \in Seq(KnownChunks)
  PROVE  ~Mapped(0)
<1> SUFFICES ASSUME Mapped(0) PROVE FALSE
  OBVIOUS
<1>1. chunkAt(0) \in KnownChunks /\ InChunk(chunkAt(0), 0)
  BY ChunkFound
<1>2. chunkAt(0) \in Chunks
  BY <1>1, GivenFacts
<1>3. chunkAt(0).log \in Nat \ {0}
  BY <1>2 DEF Chunks
<1> QED
  BY <1>1, <1>3 DEF InChunk

\* A part of a read in one chunk leaves a read in this chunk.
LEMMA RestInChunk ==
  ASSUME Given, chunks \in Seq(KnownChunks), NEW a \in Nat, NEW n \in Nat, InOneChunk(a, n),
         NEW k \in 1 .. n, k # n
  PROVE  InOneChunk(a + k, n - k) /\ Mapped(a + k) /\ chunkAt(a + k) = chunkAt(a)
<1>1. Mapped(a) /\ a + n <= chunkAt(a).log + chunkAt(a).size
  BY DEF InOneChunk
<1>2. chunkAt(a) \in KnownChunks /\ InChunk(chunkAt(a), a)
  BY <1>1, ChunkFound
<1>3. PICK j \in DOMAIN chunks : InChunk(chunks[j], a)
  BY <1>1, ChunkFound
<1>4. chunkAt(a) = chunks[j]
  BY <1>3, ChunkFound
<1>5. chunks[j] \in Chunks
  BY <1>2, <1>4, GivenFacts
<1>6. chunks[j].log \in Nat /\ chunks[j].size \in Nat
  BY <1>5 DEF Chunks
<1>7. InChunk(chunks[j], a + k) /\ (a + k) + (n - k) <= chunks[j].log + chunks[j].size
  BY <1>1, <1>3, <1>4, <1>6, SMTT(30) DEF InChunk
<1>8. Mapped(a + k) /\ chunkAt(a + k) = chunks[j]
  BY <1>7, ChunkFound
<1> QED
  BY <1>4, <1>7, <1>8 DEF InOneChunk

\* A read over the end of a chunk is one device read.
LEMMA SpanIsOneRead ==
  ASSUME Given, chunks \in Seq(KnownChunks), NEW a, NEW n, Spans(a, n)
  PROVE  Covered(a, n) = n
<1>1. Mapped(a) /\ OneCopy
  BY DEF Spans
<1>2. chunkAt(a) \in KnownChunks
  BY <1>1, ChunkFound
<1>3. chunkAt(a).profile = "single"
  BY <1>1, <1>2 DEF OneCopy, KnownChunks
<1> QED
  BY <1>1, <1>3 DEF Covered, Piece, Mirrored

\* No action changes what is given.
LEMMA ImageStays ==
  ASSUME Given, UNCHANGED image
  PROVE  Given' /\ KnownChunks' = KnownChunks /\ Devices' = Devices /\ devID' = devID
  BY DEF Given, KnownChunks, Devices, devID

\* Closing the pool.
LEMMA PoolCloses ==
  ASSUME Opened, phase \notin {"failed", "closed"}, poolClose, UNCHANGED <<image, pool>>,
         phase' \in {"failed", "closed"}
  PROVE  ClosesInv'
<1>1. Devices' = Devices /\ pool' = pool
  BY ImageStays DEF Opened
<1>2. \A d \in Devices : closes[d] = 0
  BY DEF Opened, ClosesInv
<1>3. closes' = [d \in Devices |-> IF \E i \in DOMAIN pool : pool[i] = d THEN closes[d] + 1 ELSE closes[d]]
  BY DEF poolClose
<1>4. \A d \in Devices : closes'[d] = IF \E i \in DOMAIN pool : pool[i] = d THEN 1 ELSE 0
  BY <1>2, <1>3
<1>5. closes' \in [Devices -> {0, 1}]
  BY <1>3, <1>4
<1>6. \A i \in DOMAIN pool : pool[i] \in Devices
  BY GivenFacts DEF Opened, PoolInv
<1>7. \A i \in DOMAIN pool : closes'[pool[i]] = 1
  BY <1>4, <1>6
<1> QED
  BY <1>1, <1>5, <1>7 DEF ClosesInv

\* The chunks of the sys_chunk_array.
LEMMA BootChunks ==
  ASSUME Given
  PROVE  /\ SubSeq(image.chunks, 1, image.boot) \in Seq(KnownChunks)
         /\ \E k \in DOMAIN SubSeq(image.chunks, 1, image.boot) :
              SubSeq(image.chunks, 1, image.boot)[k] = image.chunks[1]
<1> DEFINE b == image.boot
           s == image.chunks
           q == SubSeq(s, 1, b)
<1>1. s \in Seq(Chunks) /\ b \in 1 .. Len(s) /\ Len(s) \in Nat /\ DOMAIN s = 1 .. Len(s)
  BY GivenFacts, SeqShape
<1>2. \A i \in 1 .. b : s[i] \in KnownChunks
  BY <1>1 DEF KnownChunks
<1> HIDE DEF b, s
<1>3. q \in Seq(KnownChunks) /\ Len(q) = b /\ \A i \in 1 .. b : q[i] = s[i]
  <2>1. 1 <= b /\ b - 1 + 1 = b /\ b \in Int /\ \A i \in 1 .. b : 1 + i - 1 = i
    BY <1>1
  <2>2. /\ q \in Seq(KnownChunks) /\ Len(q) = (IF 1 <= b THEN b - 1 + 1 ELSE 0)
        /\ \A i \in 1 .. b - 1 + 1 : q[i] = s[1 + i - 1]
    BY <1>1, <1>2, <2>1
  <2> QED
    BY <2>1, <2>2
<1>4. 1 \in DOMAIN q /\ q[1] = s[1]
  BY <1>1, <1>3
<1> QED
  BY <1>3, <1>4 DEF b, s

\* The primary joins the pool.
LEMMA SuperblockOpens ==
  ASSUME Opened, readSuperblock
  PROVE  Opened'
<1>1. Given' /\ KnownChunks' = KnownChunks /\ Devices' = Devices /\ devID' = devID /\ Given
  BY ImageStays DEF Opened, readSuperblock
<1>2. /\ Len(image.list) \in Nat \ {0} /\ Devices = 1 .. Len(image.list) /\ Identified(image.list)
      /\ image' = image /\ probed' = 1 /\ 1 \in 0 .. Len(image.list)
      /\ call' = call /\ call = NoCall /\ phase = "new"
  BY GivenFacts DEF Opened, readSuperblock, PoolInv
<1>3. CallInv'
  <2>1. Len(<<>>) = 0 /\ 0 - 0 = 0
    OBVIOUS
  <2>2. /\ call' \in CallType({}, {}) /\ call'.state = "none"
        /\ call'.got = <<>> /\ call'.at = 0 /\ call'.from = 0
    BY <1>2, NewCalls
  <2> QED
    BY <2>1, <2>2 DEF CallInv
<1>4. CASE image.list[1].good
  <2>1. /\ pool' = [i \in {devID} \cup (IF devID = 0 THEN {1} ELSE {}) |-> 1]
        /\ chunks' = SubSeq(image.chunks, 1, image.boot) /\ phase' = "probing" /\ closes' = closes
    BY <1>4 DEF readSuperblock
  <2>2. /\ devID \in {0, image.list[1].dev} /\ (devID = 0 => image.list[1].dev = 1)
    BY <1>2, <1>4 DEF Identified, devID
  <2>3. \A i \in DOMAIN pool' : pool'[i] = 1 /\ (i = 0 \/ image.list[1].dev = i)
    BY <2>1, <2>2
  <2>4. 0 \in DOMAIN pool' => devID = 0 /\ 1 \in DOMAIN pool'
    BY <2>1
  <2>5. PoolInv'
    <3>1. \A i \in DOMAIN pool' : pool'[i] \in 1 .. probed' /\ (i = 0 \/ image'.list[pool'[i]].dev = i)
      BY <1>2, <2>3
    <3>2. 0 \in DOMAIN pool' =>
            image'.list[1].good /\ devID' = 0 /\ 1 \in DOMAIN pool' /\ pool'[0] = 1 /\ pool'[1] = 1
      BY <1>1, <1>2, <1>4, <2>3, <2>4, Zenon
    <3>3. phase' \in Phases /\ probed' \in 0 .. Len(image'.list) /\ phase' # "new" /\ call' = NoCall
      BY <1>2, <2>1 DEF Phases
    <3> QED
      BY <1>2, <1>4, <3>1, <3>2, <3>3, Zenon DEF PoolInv
  <2>6. ChunkInv'
    <3>1. /\ chunks' \in Seq(KnownChunks) /\ \E k \in DOMAIN chunks' : chunks'[k] = image.chunks[1]
      BY <1>1, <2>1, BootChunks
    <3> QED
      BY <1>1, <1>2, <2>1, <3>1 DEF ChunkInv
  <2>7. ClosesInv'
    BY <1>1, <1>2, <2>1 DEF Opened, ClosesInv
  <2> QED
    BY <1>1, <1>3, <2>5, <2>6, <2>7 DEF Opened
<1>5. CASE ~image.list[1].good
  <2>1. /\ phase' = "failed" /\ closes' = [d \in Devices |-> 1] /\ pool' = pool /\ chunks' = chunks
    BY <1>5 DEF readSuperblock
  <2>2. DOMAIN pool = {} /\ chunks = <<>>
    BY <1>2 DEF Opened, PoolInv
  <2>3. PoolInv'
    BY <1>2, <2>1, <2>2 DEF PoolInv, Phases
  <2>4. ChunkInv'
    BY <1>1, <2>1, <2>2 DEF ChunkInv
  <2>5. ClosesInv'
    BY <1>1, <2>1, <2>2 DEF ClosesInv
  <2> QED
    BY <1>1, <1>3, <2>3, <2>4, <2>5 DEF Opened
<1> QED
  BY <1>4, <1>5

\* The pool, the map and the closes do not change, nor does the phase.
LEMMA Unmoved ==
  ASSUME Opened, UNCHANGED <<image, phase, probed, pool, chunks, closes>>,
         phase \notin {"new", "probing"} \/ call' = call, CallInv'
  PROVE  Opened'
<1>1. Given' /\ KnownChunks' = KnownChunks /\ Devices' = Devices /\ devID' = devID
  BY ImageStays DEF Opened
<1>2. PoolInv'
  BY <1>1 DEF Opened, PoolInv
<1>3. ChunkInv'
  BY <1>1 DEF Opened, ChunkInv
<1>4. ClosesInv'
  BY <1>1 DEF Opened, ClosesInv
<1> QED
  BY <1>1, <1>2, <1>3, <1>4 DEF Opened

\* What can be read depends on the image and on the chunk map.
LEMMA ReadableStays ==
  ASSUME UNCHANGED <<image, chunks>>
  PROVE  \A a, n : Readable(a, n) => Readable(a, n)'
<1>1. \A a : /\ lookupChunk(a)' = lookupChunk(a) /\ chunkAt(a)' = chunkAt(a)
             /\ Mapped(a)' = Mapped(a)
  BY DEF lookupChunk, chunkAt, Mapped
<1>2. \A a, n : InOneChunk(a, n)' <=> InOneChunk(a, n)
  BY <1>1 DEF InOneChunk
<1>3. \A c : physStart(c)' = physStart(c)
  BY DEF physStart, localStripe, devID
<1>4. \A a : physFromLog(a)' = physFromLog(a)
  BY <1>1, <1>3, Zenon DEF physFromLog
<1>5. \A x, n : Allocatable(x, n)' <=> Allocatable(x, n)
  BY <1>3 DEF Allocatable
<1>6. OneCopy' <=> OneCopy
  BY DEF OneCopy
<1> QED
  BY <1>1, <1>2, <1>4, <1>5, <1>6, Zenon DEF Readable, Spans

\* A call that is over stays what it is.
LEMMA CallStays ==
  ASSUME Opened, call' = call, UNCHANGED <<image, chunks>>
  PROVE  CallInv'
  BY ReadableStays DEF Opened, CallInv

\* A call that starts.
LEMMA CallStarts ==
  ASSUME NEW a \in Nat, NEW n \in Nat \ {0}, call' = readAt(a, n), Readable(a, n)'
  PROVE  CallInv'
<1>1. Len(<<>>) = 0 /\ a - a = 0
  OBVIOUS
<1>2. /\ call' \in CallType({}, {}) /\ call'.got = <<>> /\ call'.at = a /\ call'.from = a
      /\ call'.left = n
  BY NewCalls
<1>3. Len(call'.got) = call'.at - call'.from
  BY <1>1, <1>2
<1>4. call'.left # 0 /\ Readable(call.at, call.left)'
  BY <1>2
<1> QED
  BY <1>2, <1>3, <1>4 DEF CallInv

\* No call.
LEMMA CallEnds ==
  ASSUME call' = NoCall
  PROVE  CallInv'
<1>1. Len(<<>>) = 0 /\ 0 - 0 = 0
  OBVIOUS
<1>2. /\ call' \in CallType({}, {}) /\ call'.state = "none"
      /\ call'.got = <<>> /\ call'.at = 0 /\ call'.from = 0
  BY NewCalls
<1> QED
  BY <1>1, <1>2 DEF CallInv

\* A further device joins the pool, or the pool is closed.
LEMMA DeviceJoins ==
  ASSUME Opened, addDevice
  PROVE  Opened'
<1>1. Given' /\ KnownChunks' = KnownChunks /\ Devices' = Devices /\ devID' = devID /\ Given
  BY ImageStays DEF Opened, addDevice
<1>2. /\ Len(image.list) \in Nat \ {0} /\ Devices = 1 .. Len(image.list) /\ Identified(image.list)
      /\ DOMAIN image.list = Devices
  BY <1>1, GivenFacts DEF Devices
<1>3. /\ probed \in 0 .. Len(image.list) /\ probed < Len(image.list) /\ probed' = probed + 1
      /\ image' = image /\ chunks' = chunks /\ call' = call /\ phase = "probing" /\ call = NoCall
  BY DEF Opened, addDevice, PoolInv
<1>4. CallInv'
  BY <1>3, CallEnds
<1>5. probed' \in 1 .. Len(image.list) /\ probed' \in Devices
  BY <1>2, <1>3
<1> DEFINE leg == image.list[probed']
<1>6. /\ \A i \in DOMAIN pool : pool[i] \in 1 .. probed /\ (i = 0 \/ image.list[pool[i]].dev = i)
      /\ 0 \in DOMAIN pool =>
           image.list[1].good /\ devID = 0 /\ 1 \in DOMAIN pool /\ pool[0] = 1 /\ pool[1] = 1
      /\ image.list[1].good
  BY <1>3 DEF Opened, PoolInv
<1>7. CASE leg.good /\ leg.devid \notin {0, devID}
  <2>1. /\ pool' = [i \in DOMAIN pool \cup {leg.devid} |-> IF i = leg.devid THEN probed' ELSE pool[i]]
        /\ phase' = phase /\ closes' = closes
    BY <1>7 DEF addDevice
  <2>2. leg.devid = leg.dev
    BY <1>2, <1>5, <1>7 DEF Identified
  <2>3. \A i \in DOMAIN pool' : pool'[i] \in 1 .. probed' /\ (i = 0 \/ image.list[pool'[i]].dev = i)
    <3> SUFFICES ASSUME NEW i \in DOMAIN pool'
                 PROVE  pool'[i] \in 1 .. probed' /\ (i = 0 \/ image.list[pool'[i]].dev = i)
      OBVIOUS
    <3>1. CASE i = leg.devid
      <4>1. pool'[i] = probed'
        BY <2>1, <3>1
      <4> QED
        BY <1>5, <2>2, <3>1, <4>1
    <3>2. CASE i # leg.devid
      <4>1. i \in DOMAIN pool /\ pool'[i] = pool[i]
        BY <2>1, <3>2
      <4> QED
        BY <1>3, <1>6, <4>1
    <3> QED
      BY <3>1, <3>2
  <2>4. 0 \in DOMAIN pool' =>
          image.list[1].good /\ devID = 0 /\ 1 \in DOMAIN pool' /\ pool'[0] = 1 /\ pool'[1] = 1
    <3> SUFFICES ASSUME 0 \in DOMAIN pool'
                 PROVE  image.list[1].good /\ devID = 0 /\ 1 \in DOMAIN pool' /\ pool'[0] = 1 /\ pool'[1] = 1
      OBVIOUS
    <3>1. 0 \in DOMAIN pool /\ leg.devid # 0
      BY <1>7, <2>1
    <3>2. image.list[1].good /\ image.list[1].devid = 0 /\ 1 \in DOMAIN pool /\ pool[0] = 1 /\ pool[1] = 1
      BY <1>6, <3>1 DEF devID
    <3>3. leg.devid # 1
      BY <1>2, <1>5, <3>2 DEF Identified
    <3>4. pool'[0] = pool[0] /\ pool'[1] = pool[1] /\ 1 \in DOMAIN pool'
      BY <2>1, <3>1, <3>2, <3>3
    <3> QED
      BY <1>6, <3>1, <3>2, <3>4
  <2>5. PoolInv'
    <3>1. phase' \in Phases /\ probed' \in 0 .. Len(image'.list) /\ phase' # "new" /\ call' = NoCall
      BY <1>2, <1>3, <1>5, <2>1 DEF Phases
    <3> QED
      BY <1>1, <1>3, <1>6, <2>3, <2>4, <3>1, Zenon DEF PoolInv
  <2>6. ChunkInv'
    BY <1>1, <1>3, <2>1 DEF Opened, ChunkInv
  <2>7. ClosesInv'
    BY <1>1, <1>3, <2>1 DEF Opened, ClosesInv
  <2> QED
    BY <1>1, <1>4, <2>5, <2>6, <2>7 DEF Opened
<1>8. CASE ~(leg.good /\ leg.devid \notin {0, devID})
  <2>1. phase' = "failed" /\ poolClose /\ pool' = pool
    BY <1>8 DEF addDevice
  <2>2. ClosesInv'
    BY <1>3, <2>1, PoolCloses
  <2>3. PoolInv'
    <3>1. /\ phase' \in Phases /\ probed' \in 0 .. Len(image'.list) /\ phase' # "new" /\ call' = NoCall
          /\ phase' \notin {"probing", "loading", "resolving", "reserving", "open"}
      BY <1>2, <1>3, <1>5, <2>1 DEF Phases
    <3>2. \A i \in DOMAIN pool : pool[i] \in 1 .. probed'
      BY <1>3, <1>6
    <3> QED
      BY <1>1, <1>3, <1>6, <2>1, <3>1, <3>2, Zenon DEF PoolInv
  <2>4. ChunkInv'
    BY <1>1, <1>3, <2>1 DEF Opened, ChunkInv
  <2> QED
    BY <1>1, <1>4, <2>2, <2>3, <2>4 DEF Opened
<1> QED
  BY <1>7, <1>8

\* Reading the chunk tree begins, in a chunk of the sys_chunk_array.
LEMMA ChunkTreeRead ==
  ASSUME Opened, readChunkTree
  PROVE  Opened'
<1>1. Given' /\ KnownChunks' = KnownChunks /\ Devices' = Devices /\ devID' = devID /\ Given
  BY ImageStays DEF Opened, readChunkTree
<1>2. /\ phase = "probing" /\ phase' = "loading" /\ call' = readAt(image.chunks[1].log, 1)
      /\ UNCHANGED <<image, probed, pool, chunks, closes>>
  BY DEF readChunkTree
<1>3. chunks \in Seq(KnownChunks) /\ \E k \in DOMAIN chunks : chunks[k] = image.chunks[1]
  BY <1>2 DEF Opened, ChunkInv
<1>4. PICK k \in DOMAIN chunks : chunks[k] = image.chunks[1]
  BY <1>3
<1>5. chunks[k] \in Chunks
  BY <1>1, <1>3, GivenFacts
<1> DEFINE a == chunks[k].log
<1>6. a \in Nat /\ chunks[k].size \in Nat \ {0}
  BY <1>5 DEF Chunks
<1>7. InChunk(chunks[k], a)
  BY <1>6 DEF InChunk
<1>8. InOneChunk(a, 1)
  <2>1. Mapped(a) /\ chunkAt(a) = chunks[k]
    BY <1>1, <1>3, <1>7, ChunkFound
  <2> QED
    BY <1>6, <2>1 DEF InOneChunk
<1>9. CallInv'
  <2>1. Readable(a, 1)'
    BY <1>2, <1>8, Zenon DEF Readable, InOneChunk, Mapped, chunkAt, lookupChunk
  <2> HIDE DEF a
  <2>2. call' = readAt(a, 1) /\ 1 \in Nat \ {0}
    BY <1>2, <1>4 DEF a
  <2> QED
    BY <1>2, <1>6, <2>1, <2>2, CallStarts DEF a
<1>10. PoolInv' /\ ChunkInv' /\ ClosesInv'
  BY <1>1, <1>2 DEF Opened, PoolInv, Phases, ChunkInv, ClosesInv
<1> QED
  BY <1>1, <1>9, <1>10 DEF Opened

\* A chunk that is not mapped yet is appended.
LEMMA ChunkAppended ==
  ASSUME Opened, appendChunk
  PROVE  Opened'
<1>1. Given' /\ KnownChunks' = KnownChunks /\ Devices' = Devices /\ devID' = devID /\ Given
  BY ImageStays DEF Opened, appendChunk
<1>2. /\ phase = "loading" /\ call.state = "ok" /\ UNCHANGED <<image, phase, probed, pool, closes, call>>
  BY DEF appendChunk
<1>3. PICK c \in KnownChunks : chunks' = Append(chunks, c)
  <2>1. PICK i \in unmapped : chunks' = Append(chunks, image.chunks[i])
    BY DEF appendChunk
  <2>2. image.chunks[i] \in KnownChunks
    BY DEF unmapped, KnownChunks
  <2> QED
    BY <2>1, <2>2
<1>4. chunks \in Seq(KnownChunks) /\ \E k \in DOMAIN chunks : chunks[k] = image.chunks[1]
  BY <1>2 DEF Opened, ChunkInv
<1>5. PICK k \in DOMAIN chunks : chunks[k] = image.chunks[1]
  BY <1>4
<1>6. chunks' \in Seq(KnownChunks) /\ k \in DOMAIN chunks' /\ chunks'[k] = chunks[k]
  BY <1>3, <1>4
<1>7. ChunkInv'
  BY <1>1, <1>2, <1>5, <1>6, Zenon DEF ChunkInv
<1>8. CallInv'
  BY <1>2 DEF Opened, CallInv
<1>9. PoolInv' /\ ClosesInv'
  BY <1>1, <1>2 DEF Opened, PoolInv, ClosesInv
<1> QED
  BY <1>1, <1>7, <1>8, <1>9 DEF Opened

\* When none is left all chunks are in the map.
LEMMA AllChunksMapped ==
  ASSUME Given, chunks \in Seq(KnownChunks), unmapped = {}, NEW c \in KnownChunks
  PROVE  \E k \in DOMAIN chunks : chunks[k] = c
<1>1. hasChunkMapping(c)
  BY DEF KnownChunks, unmapped
<1>2. PICK i \in DOMAIN chunks : chunks[i].log = c.log /\ chunks[i].size = c.size
  BY <1>1, Zenon DEF hasChunkMapping
<1>3. chunks[i] \in KnownChunks
  OBVIOUS
<1>4. c.log \in Nat /\ c.size \in Nat \ {0}
  BY GivenFacts, Zenon DEF Chunks
<1>5. InChunk(c, c.log) /\ InChunk(chunks[i], c.log)
  BY <1>2, <1>4 DEF InChunk
<1>6. chunks[i] = c
  BY <1>3, <1>5, GivenFacts
<1> QED
  BY <1>6

\* The chunk tree is loaded; the other trees are read in one of its chunks.
LEMMA ChunkTreeLoaded ==
  ASSUME Opened, loadChunkTree \/ resolveRootTree
  PROVE  Opened'
<1>1. Given' /\ KnownChunks' = KnownChunks /\ Devices' = Devices /\ devID' = devID /\ Given
  BY ImageStays DEF Opened, loadChunkTree, resolveRootTree
<1>2. /\ \/ phase = "loading" /\ phase' = "resolving" /\ unmapped = {}
         \/ phase = "resolving" /\ phase' = "reserving"
      /\ call' = readAt(image.root, 1) /\ UNCHANGED <<image, probed, pool, chunks, closes>>
  BY DEF loadChunkTree, resolveRootTree
<1>3. chunks \in Seq(KnownChunks)
  BY DEF Opened, ChunkInv
<1>4. chunks' \in Seq(KnownChunks) /\ \A c \in KnownChunks : \E k \in DOMAIN chunks' : chunks'[k] = c
  BY <1>1, <1>2, <1>3, AllChunksMapped DEF Opened, ChunkInv
<1>5. PICK c \in KnownChunks : InChunk(c, image.root)
  BY <1>1, GivenFacts
<1>6. c \in Chunks
  BY <1>1, GivenFacts
<1> DEFINE a == image.root
<1>7. a \in Nat /\ a + 1 <= c.log + c.size
  BY <1>5, <1>6 DEF Chunks, InChunk
<1>8. Mapped(a)' /\ chunkAt(a)' = c
  <2> DEFINE S == {i \in DOMAIN chunks' : InChunk(chunks'[i], a)}
  <2>1. lookupChunk(a)' = S
    BY <1>2 DEF lookupChunk, InChunk
  <2>2. S # {} /\ S \in SUBSET Nat
    BY <1>4, <1>5
  <2> HIDE DEF S
  <2>3. Min(S) \in S
    BY <2>2, MinIsLeast
  <2>4. chunks'[Min(S)] \in KnownChunks /\ InChunk(chunks'[Min(S)], a)
    BY <1>4, <2>3 DEF S
  <2>5. chunks'[Min(S)] = c
    BY <1>1, <1>5, <2>4, GivenFacts
  <2> QED
    BY <2>1, <2>2, <2>5 DEF Mapped, chunkAt
<1>9. Readable(a, 1)'
  BY <1>2, <1>7, <1>8 DEF Readable, InOneChunk
<1>10. CallInv'
  <2>1. a \in Nat /\ 1 \in Nat \ {0} /\ call' = readAt(a, 1) /\ image' = image
    BY <1>2, <1>7
  <2>2. Readable(image.root, 1)'
    BY <1>9
  <2> HIDE DEF a
  <2>3. /\ call' \in CallType({}, {}) /\ call'.got = <<>> /\ call'.at = a /\ call'.from = a
        /\ call'.left = 1
    BY <2>1, NewCalls
  <2>4. Len(<<>>) = 0 /\ a - a = 0
    BY <2>1
  <2>5. Len(call'.got) = call'.at - call'.from
    BY <2>3, <2>4
  <2>6. Readable(call.at, call.left)'
    BY <2>1, <2>2, <2>3 DEF a
  <2>7. call'.left # 0
    BY <2>3
  <2> QED
    BY <2>3, <2>5, <2>6, <2>7 DEF CallInv
<1>11. ChunkInv'
  BY <1>1, <1>2, <1>4, Zenon DEF ChunkInv
<1>12. PoolInv' /\ ClosesInv'
  BY <1>1, <1>2 DEF Opened, PoolInv, Phases, ClosesInv
<1> QED
  BY <1>1, <1>10, <1>11, <1>12 DEF Opened

\* The last tree is read, opening fails, or the file system is closed.
LEMMA OpenEnds ==
  ASSUME Opened, buildSpaceManager \/ openFails \/ Close
  PROVE  Opened'
<1>1. CASE buildSpaceManager
  <2>1. /\ phase = "reserving" /\ phase' = "open" /\ call' = NoCall
        /\ UNCHANGED <<image, probed, pool, chunks, closes>>
    BY <1>1 DEF buildSpaceManager
  <2>2. Given' /\ KnownChunks' = KnownChunks /\ Devices' = Devices /\ devID' = devID
    BY <2>1, ImageStays DEF Opened
  <2>3. CallInv'
    BY <2>1, CallEnds
  <2>4. PoolInv' /\ ChunkInv' /\ ClosesInv'
    BY <2>1, <2>2 DEF Opened, PoolInv, Phases, ChunkInv, ClosesInv
  <2> QED
    BY <2>2, <2>3, <2>4 DEF Opened
<1>2. CASE openFails \/ Close
  <2>1. /\ phase \in {"loading", "resolving", "reserving", "open"} /\ phase' \in {"failed", "closed"} /\ poolClose
        /\ UNCHANGED <<image, probed, pool, chunks, call>>
    BY <1>2 DEF openFails, Close, Ready
  <2>2. Given' /\ KnownChunks' = KnownChunks /\ Devices' = Devices /\ devID' = devID
    BY <2>1, ImageStays DEF Opened
  <2>3. CallInv'
    BY <2>1, CallStays
  <2>4. ClosesInv'
    BY <2>1, PoolCloses
  <2>5. PoolInv' /\ ChunkInv'
    BY <2>1, <2>2 DEF Opened, PoolInv, Phases, ChunkInv
  <2> QED
    BY <2>2, <2>3, <2>4, <2>5 DEF Opened
<1> QED
  BY <1>1, <1>2

\* What a concatenation is made of.
LEMMA Appended ==
  ASSUME NEW S, NEW s \in Seq(S), NEW f \in Seq(S)
  PROVE  /\ s \o f \in Seq(S) /\ Len(s \o f) = Len(s) + Len(f)
         /\ \A k \in DOMAIN s : k \in DOMAIN (s \o f) /\ (s \o f)[k] = s[k]
         /\ \A k \in 1 .. Len(f) : /\ Len(s) + k \in DOMAIN (s \o f)
                                  /\ (s \o f)[Len(s) + k] = f[k]
<1> DEFINE q == s \o f
<1>1. /\ q \in Seq(S) /\ Len(q) = Len(s) + Len(f)
      /\ \A i \in 1 .. Len(s) + Len(f) : q[i] = IF i <= Len(s) THEN s[i] ELSE f[i - Len(s)]
  OBVIOUS
<1>2. Len(s) \in Nat /\ Len(f) \in Nat /\ DOMAIN s = 1 .. Len(s)
  BY SeqShape
<1> HIDE DEF q
<1>3. DOMAIN q = 1 .. Len(s) + Len(f)
  BY <1>1
<1>4. \A k \in DOMAIN s : k \in DOMAIN q /\ q[k] = s[k]
  BY <1>1, <1>2, <1>3
<1>5. \A k \in 1 .. Len(f) : Len(s) + k \in DOMAIN q /\ q[Len(s) + k] = f[k]
  <2> SUFFICES ASSUME NEW k \in 1 .. Len(f) PROVE Len(s) + k \in DOMAIN q /\ q[Len(s) + k] = f[k]
    OBVIOUS
  <2> DEFINE i == Len(s) + k
  <2>1. i \in 1 .. Len(s) + Len(f) /\ ~(i <= Len(s)) /\ i - Len(s) = k
    BY <1>2
  <2> HIDE DEF i
  <2>2. q[i] = f[k]
    BY <1>1, <2>1
  <2> QED
    BY <1>3, <2>1, <2>2 DEF i
<1> QED
  BY <1>1, <1>4, <1>5 DEF q

\* What a device read has returned is appended.
LEMMA GotGrows ==
  ASSUME NEW S, NEW g \in Seq(S), NEW n \in Nat, NEW X, NEW f \in [1 .. n -> X]
  PROVE  /\ g \o f \in Seq(S \cup X)
         /\ Len(g \o f) = Len(g) + n
         /\ \A k \in 1 .. Len(g) : (g \o f)[k] = g[k]
         /\ \A k \in 1 .. n : (g \o f)[Len(g) + k] = f[k]
<1> DEFINE T == S \cup X
<1>1. g \in Seq(T) /\ DOMAIN g = 1 .. Len(g)
  OBVIOUS
<1>2. f \in [1 .. n -> T]
  OBVIOUS
<1>3. f \in Seq(T) /\ Len(f) = n
  <2> HIDE DEF T
  <2> QED
    BY <1>2
<1> HIDE DEF T
<1>4. g \o f \in Seq(T) /\ Len(g \o f) = Len(g) + Len(f)
  BY <1>1, <1>3, Appended, Zenon
<1>5. \A k \in DOMAIN g : (g \o f)[k] = g[k]
  BY <1>1, <1>3, Appended
<1>6. \A k \in 1 .. Len(f) : (g \o f)[Len(g) + k] = f[k]
  BY <1>1, <1>3, Appended
<1> QED
  BY <1>1, <1>3, <1>4, <1>5, <1>6 DEF T

\* The units of a device read.
Cells(n) == [k \in 1 .. n |-> store[pool[Turn.dev]][Turn.off + k - 1]]

\* A device read moves the call on.
LEMMA CallMovesOn ==
  ASSUME Opened, deviceRead
  PROVE  LET n == Covered(call.at, call.left)
         IN  /\ n \in 1 .. call.left /\ call.at \in Nat /\ call.left \in Nat /\ call.from \in Nat
             /\ call'.got = call.got \o Cells(n)
             /\ call'.at = call.at + n /\ call'.left = call.left - n /\ call'.from = call.from
             /\ call'.tried = 0 /\ call'.failed = call.failed
             /\ call'.state = IF call.left = n THEN "ok" ELSE "reading"
             /\ \E T, F : call' \in CallType(T, F)
             /\ Len(call.got \o Cells(n)) = Len(call.got) + n
             /\ \A k \in 1 .. Len(call.got) : (call.got \o Cells(n))[k] = call.got[k]
             /\ \A k \in 1 .. n : (call.got \o Cells(n))[Len(call.got) + k] = Cells(n)[k]
<1> DEFINE n == Covered(call.at, call.left)
           f == Cells(n)
<1>1. PICK S, F : call \in CallType(S, F)
  BY DEF Opened, CallInv
<1>2. /\ call.at \in Nat /\ call.left \in Nat /\ call.from \in Nat /\ call.got \in Seq(S)
      /\ call.failed \in SUBSET F
  BY <1>1 DEF CallType
<1>3. call.state = "reading" /\ call.left \in Nat \ {0}
  BY <1>2 DEF Opened, CallInv, deviceRead, Asked
<1>4. n \in 1 .. call.left /\ n \in Nat
  <2>1. n \in 1 .. call.left
    BY <1>2, <1>3, CoveredBound, Zenon DEF Opened, ChunkInv
  <2> HIDE DEF n
  <2> QED
    BY <1>2, <2>1
<1>5. call' = [call EXCEPT !.got = @ \o f, !.at = @ + n, !.left = @ - n, !.tried = 0,
                           !.state = IF call.left = n THEN "ok" ELSE "reading"]
  BY DEF deviceRead, Cells
<1>6. \E X : f \in [1 .. n -> X]
  <2>1. Cells(n) \in [1 .. n -> {Cells(n)[k] : k \in 1 .. n}]
    BY DEF Cells
  <2> QED
    BY <2>1, Zenon
<1> HIDE DEF n, f
<1>7. /\ \E T : call.got \o f \in Seq(T)
      /\ Len(call.got \o f) = Len(call.got) + n
      /\ \A k \in 1 .. Len(call.got) : (call.got \o f)[k] = call.got[k]
      /\ \A k \in 1 .. n : (call.got \o f)[Len(call.got) + k] = f[k]
  <2> DEFINE g == call.got
  <2> HIDE DEF g
  <2>1. g \in Seq(S)
    BY <1>2 DEF g
  <2>a. PICK X : f \in [1 .. n -> X]
    BY <1>6
  <2>2. /\ g \o f \in Seq(S \cup X)
        /\ Len(g \o f) = Len(g) + n
        /\ \A k \in 1 .. Len(g) : (g \o f)[k] = g[k]
        /\ \A k \in 1 .. n : (g \o f)[Len(g) + k] = f[k]
    BY <1>4, <2>a, <2>1, GotGrows
  <2> QED
    BY <2>2, Zenon DEF g
<1>8. PICK T : call.got \o f \in Seq(T)
  BY <1>7
<1> DEFINE g == call.got \o f
<1> HIDE DEF g
<1>9. /\ call'.got = g /\ call'.at = call.at + n /\ call'.left = call.left - n
      /\ call'.from = call.from /\ call'.tried = 0 /\ call'.failed = call.failed
      /\ call'.state = IF call.left = n THEN "ok" ELSE "reading"
      /\ call' \in CallType(T, F)
  <2>1. call' = [call EXCEPT !.got = g, !.at = call.at + n, !.left = call.left - n, !.tried = 0,
                             !.state = IF call.left = n THEN "ok" ELSE "reading"]
    BY <1>1, <1>5 DEF g, CallType
  <2>2. g \in Seq(T) /\ call.at + n \in Nat /\ call.left - n \in Nat /\ 0 \in Nat
    BY <1>2, <1>4, <1>8, SMTT(30) DEF g
  <2>3. (IF call.left = n THEN "ok" ELSE "reading") \in {"none", "reading", "ok", "error"}
    OBVIOUS
  <2> QED
    BY <1>1, <2>1, <2>2, <2>3, Zenon DEF CallType
<1> QED
  BY <1>2, <1>4, <1>7, <1>9, Zenon DEF n, f, g

\* The call goes on to the next device, or fails.
LEMMA CallTriesNext ==
  ASSUME Opened, deviceMissing \/ deviceFails \/ noDeviceLeft
  PROVE  /\ \E S, F : call' \in CallType(S, F)
         /\ call'.got = call.got /\ call'.at = call.at /\ call'.left = call.left
         /\ call'.from = call.from /\ call.tried \in Nat /\ call.state = "reading"
         /\ deviceMissing => call'.tried = call.tried + 1 /\ call'.failed = call.failed /\ call'.state = "reading"
         /\ deviceFails => /\ call'.tried = call.tried + 1 /\ call'.state = "reading"
                           /\ call'.failed = call.failed \cup {<<pool[Turn.dev], Turn.off>>}
         /\ noDeviceLeft => call'.tried = call.tried /\ call'.failed = call.failed /\ call'.state = "error"
<1>1. PICK S, F : call \in CallType(S, F)
  BY DEF Opened, CallInv
<1>2. call.state = "reading"
  BY DEF deviceMissing, deviceFails, noDeviceLeft, Asked
<1> DEFINE e == <<pool[Turn.dev], Turn.off>>
           t == call.tried + 1
<1>3. call.tried \in Nat /\ t \in Nat
  BY <1>1 DEF CallType
<1>4. /\ deviceMissing => call' = [call EXCEPT !.tried = @ + 1]
      /\ deviceFails => call' = [call EXCEPT !.tried = @ + 1, !.failed = @ \cup {e}]
      /\ noDeviceLeft => call' = [call EXCEPT !.state = "error"]
  BY DEF deviceMissing, deviceFails, noDeviceLeft
<1> HIDE DEF e
<1>5. CASE deviceMissing
  <2>1. call' = [call EXCEPT !.tried = t]
    BY <1>1, <1>4, <1>5 DEF CallType
  <2> HIDE DEF t
  <2>2. /\ call' \in CallType(S, F)
        /\ call'.got = call.got /\ call'.at = call.at /\ call'.left = call.left
        /\ call'.from = call.from /\ call'.tried = t /\ call'.failed = call.failed
        /\ call'.state = "reading"
    BY <1>1, <1>2, <1>3, <2>1 DEF CallType
  <2>3. ~deviceFails /\ ~noDeviceLeft
    BY <1>1, <1>3, <1>5, <2>2 DEF deviceMissing, deviceFails, noDeviceLeft, Asked
  <2> QED
    BY <1>2, <1>3, <2>2, <2>3 DEF t
<1>6. CASE deviceFails
  <2>1. call' = [call EXCEPT !.tried = t, !.failed = call.failed \cup {e}]
    BY <1>1, <1>4, <1>6 DEF CallType
  <2> HIDE DEF t
  <2>2. /\ call' \in CallType(S, F \cup {e})
        /\ call'.got = call.got /\ call'.at = call.at /\ call'.left = call.left
        /\ call'.from = call.from /\ call'.tried = t /\ call'.failed = call.failed \cup {e}
        /\ call'.state = "reading"
    BY <1>1, <1>2, <1>3, <2>1, Zenon DEF CallType
  <2>3. ~deviceMissing /\ ~noDeviceLeft
    BY <1>1, <1>3, <1>6, <2>2 DEF deviceMissing, deviceFails, noDeviceLeft, Asked
  <2> QED
    BY <1>2, <1>3, <2>2, <2>3 DEF t, e
<1>7. CASE noDeviceLeft
  <2>1. call' = [call EXCEPT !.state = "error"]
    BY <1>4, <1>7
  <2>2. /\ call' \in CallType(S, F)
        /\ call'.got = call.got /\ call'.at = call.at /\ call'.left = call.left
        /\ call'.from = call.from /\ call'.tried = call.tried /\ call'.failed = call.failed
        /\ call'.state = "error"
    BY <1>1, <2>1 DEF CallType
  <2>3. ~deviceMissing /\ ~deviceFails
    BY <1>1, <1>3, <1>7, <2>2 DEF deviceMissing, deviceFails, noDeviceLeft, Asked
  <2> QED
    BY <1>2, <1>3, <2>2, <2>3
<1> QED
  BY <1>5, <1>6, <1>7

\* A read begins, in one chunk or in what was written.
LEMMA ReadBegins ==
  ASSUME Opened, NEW a, NEW n \in Lengths, ReadAt(a, n)
  PROVE  Opened'
<1>1. /\ call' = readAt(a, n) /\ UNCHANGED <<image, phase, probed, pool, chunks, closes>>
      /\ phase = "open"
      /\ \/ InOneChunk(a, n)
         \/ Writable /\ Mapped(a) /\ Allocatable(physFromLog(a), n)
  BY DEF ReadAt, Ready, InOneChunk
<1>2. n \in Nat \ {0}
  BY PoolAssumption
<1>3. a \in Nat
  <2>1. CASE Mapped(a)
    <3>1. chunkAt(a) \in KnownChunks /\ InChunk(chunkAt(a), a)
      BY <2>1, ChunkFound DEF Opened, ChunkInv
    <3>2. chunkAt(a) \in Chunks
      BY <3>1, GivenFacts, SMTT(30) DEF Opened
    <3> QED
      BY <3>1, <3>2 DEF InChunk, Chunks
  <2> QED
    BY <1>1, <2>1 DEF InOneChunk
<1>4. Readable(a, n)'
  <2>1. image.list[1].good
    BY <1>1 DEF Opened, PoolInv
  <2>2. Readable(a, n)
    BY <1>1, <2>1, Zenon DEF Readable, Spans, OneCopy, Writable
  <2> QED
    BY <1>1, <2>2, ReadableStays
<1>5. CallInv'
  BY <1>1, <1>2, <1>3, <1>4, CallStarts
<1> QED
  BY <1>1, <1>5, Unmoved

\* A read goes on.
LEMMA ReadGoesOn ==
  ASSUME Opened, Reading
  PROVE  Opened'
<1>1. UNCHANGED <<image, phase, probed, pool, chunks, closes>>
  BY ReadingSteps
<1>2. phase \notin {"new", "probing"}
  <2>1. call.state = "reading"
    BY DEF Reading, deviceMissing, deviceRead, deviceFails, noDeviceLeft, Asked
  <2>2. call # NoCall
    BY <2>1, NewCalls
  <2> QED
    BY <2>2 DEF Opened, PoolInv
<1>3. CASE deviceRead
  <2> DEFINE n == Covered(call.at, call.left)
  <2>1. /\ n \in 1 .. call.left /\ call.at \in Nat /\ call.left \in Nat /\ call.from \in Nat
        /\ call'.got = call.got \o Cells(n)
        /\ call'.at = call.at + n /\ call'.left = call.left - n /\ call'.from = call.from
        /\ call'.state = IF call.left = n THEN "ok" ELSE "reading"
        /\ \E T, F : call' \in CallType(T, F)
        /\ Len(call.got \o Cells(n)) = Len(call.got) + n
    BY <1>3, CallMovesOn, Zenon
  <2> HIDE DEF n
  <2>2. Len(call'.got) = call'.at - call'.from
    BY <2>1 DEF Opened, CallInv
  <2>3. call.state = "reading" /\ Readable(call.at, call.left)
    BY <1>3 DEF deviceRead, Asked, Opened, CallInv
  <2>4. call'.state = "reading" => call'.left # 0 /\ Readable(call.at, call.left)'
    <3> SUFFICES ASSUME call'.state = "reading"
                 PROVE  call'.left # 0 /\ Readable(call.at, call.left)'
      OBVIOUS
    <3>1. n # call.left
      BY <2>1
    <3>2. InOneChunk(call.at, call.left)
      <4>1. Given /\ chunks \in Seq(KnownChunks)
        BY DEF Opened, ChunkInv
      <4>2. ~Spans(call.at, call.left)
        BY <3>1, <4>1, SpanIsOneRead DEF n
      <4> QED
        BY <2>3, <4>2 DEF Readable
    <3>3. Readable(call.at, call.left)'
      <4>1. InOneChunk(call.at + n, call.left - n)
        BY <2>1, <3>1, <3>2, RestInChunk DEF Opened, ChunkInv
      <4>2. Readable(call.at + n, call.left - n)
        BY <4>1 DEF Readable
      <4>3. call'.at = call.at + n /\ call'.left = call.left - n
        BY <2>1
      <4> QED
        BY <1>1, <2>1, <4>2, <4>3, ReadableStays, Zenon
    <3>4. call'.left # 0
      BY <2>1, <3>1
    <3> QED
      BY <3>3, <3>4
  <2>5. CallInv'
    BY <2>1, <2>2, <2>4 DEF CallInv
  <2> QED
    BY <1>1, <1>2, <2>5, Unmoved
<1>4. CASE deviceMissing \/ deviceFails \/ noDeviceLeft
  <2>1. /\ \E S, F : call' \in CallType(S, F)
        /\ call'.got = call.got /\ call'.at = call.at /\ call'.left = call.left
        /\ call'.from = call.from /\ call.state = "reading"
    BY <1>4, CallTriesNext
  <2>2. call.left # 0 /\ Readable(call.at, call.left) /\ Len(call.got) = call.at - call.from
    BY <2>1 DEF Opened, CallInv
  <2>3. Readable(call.at, call.left)'
    BY <1>1, <2>1, <2>2, ReadableStays, Zenon
  <2>4. CallInv'
    BY <2>1, <2>2, <2>3 DEF CallInv
  <2> QED
    BY <1>1, <1>2, <2>4, Unmoved
<1> QED
  BY <1>3, <1>4 DEF Reading

\* A write.
Writing ==
  \/ \E p \in DOMAIN store[1] : writeCowNode(p) \/ \E n \in Lengths : writeExtent(p, n)
  \/ \E a \in Addresses : writeInPlace(a)

LEMMA WritesLeave ==
  ASSUME Opened, Writing
  PROVE  /\ UNCHANGED <<image, phase, probed, pool, chunks, closes>> /\ call' = NoCall
         /\ Opened'
<1>1. /\ UNCHANGED <<image, phase, probed, pool, chunks, closes>> /\ call' = NoCall /\ phase = "open"
  BY Zenon DEF Writing, writeCowNode, writeExtent, writeInPlace, WriteAt, Writable, Ready
<1>2. CallInv'
  BY <1>1, CallEnds
<1> QED
  BY <1>1, <1>2, Unmoved

\* Every step keeps the invariant.
LEMMA StepOpened ==
  Opened /\ [Next]_vars => Opened'
<1> SUFFICES ASSUME Opened, [Next]_vars PROVE Opened'
  OBVIOUS
<1>1. CASE Opening
  BY <1>1, SuperblockOpens, DeviceJoins, ChunkTreeRead, ChunkAppended,
     ChunkTreeLoaded, OpenEnds DEF Opening
<1>2. CASE Reading
  BY <1>2, ReadGoesOn
<1>3. CASE Close
  BY <1>3, OpenEnds
<1>4. CASE \E a \in {0} \cup Addresses, n \in Lengths : ReadAt(a, n)
  BY <1>4, ReadBegins
<1>5. CASE Writing
  BY <1>5, WritesLeave
<1>6. CASE UNCHANGED vars
  <2>1. UNCHANGED <<image, phase, probed, pool, chunks, closes>> /\ call' = call
    BY <1>6 DEF vars
  <2>2. CallInv'
    BY <2>1, CallStays
  <2> QED
    BY <2>1, <2>2, Unmoved
<1> QED
  BY <1>1, <1>2, <1>3, <1>4, <1>5, <1>6 DEF Next, Writing

\* The invariant holds.
LEMMA AlwaysOpened == Spec => []Opened
<1>1. Init => Opened
  BY InitOpened
<1>2. Opened /\ [Next]_vars => Opened'
  BY StepOpened
<1> QED
  BY <1>1, <1>2, PTL DEF Spec

\* A device of the pool is closed once: when opening fails, in whatever step, and
\* when the file system is closed; and no device is closed twice or before.
THEOREM DevicesAreClosedOnce == Spec => []PoolClosedOnce
<1>1. Opened => PoolClosedOnce
  <2> SUFFICES ASSUME Opened PROVE PoolClosedOnce
    OBVIOUS
  <2>1. PICK S, F : call \in CallType(S, F)
    BY DEF Opened, CallInv
  <2>2. TypeOK
    <3>1. call.state \in {"none", "reading", "ok", "error"} /\ call.left \in Nat
      BY <2>1 DEF CallType
    <3>2. DOMAIN closes = Devices
      BY DEF Opened, ClosesInv
    <3> QED
      BY <3>1, <3>2 DEF Opened, TypeOK, PoolInv, CallInv, Phases
  <2>3. ASSUME NEW d \in Devices
        PROVE  /\ closes[d] <= 1
               /\ phase \in {"failed", "closed"} /\ (\E i \in DOMAIN pool : pool[i] = d) => closes[d] = 1
    <3>1. closes[d] \in {0, 1}
      BY DEF Opened, ClosesInv
    <3>2. closes[d] <= 1
      BY <3>1
    <3> QED
      BY <3>2 DEF Opened, ClosesInv
  <2> QED
    BY <2>2, <2>3 DEF PoolClosedOnce
<1> QED
  BY <1>1, AlwaysOpened, PTL

----------------------------------------------------------------------------
(* Writes, to file systems as Format lays them out. *)

AllFormatted == \A m \in Images : Formatted(m)

\* The chunk has its addresses as offsets of the only device.
InPlaceChunk(c) ==
  /\ Mirrored(c) /\ StripeSize(c) = c.size
  /\ c.stripes = <<[dev |-> image.list[1].dev, off |-> c.log]>>

\* A file system of one device with one copy has such chunks only.
LEMMA OneCopyFormat ==
  ASSUME Opened, AllFormatted, OneCopy
  PROVE  /\ Devices = {1}
         /\ \A c \in KnownChunks : InPlaceChunk(c) /\ physStart(c) = c.log
<1>1. PICK m \in Images : \E l \in m.lists :
        image = [chunks |-> m.chunks, boot |-> m.boot, root |-> m.root, list |-> l]
  BY DEF Opened, Given
<1>2. PICK l \in m.lists :
        image = [chunks |-> m.chunks, boot |-> m.boot, root |-> m.root, list |-> l]
  BY <1>1
<1>3. image.chunks = m.chunks /\ image.list = l
  BY <1>2
<1>4. Len(l) = 1 /\ \A i \in DOMAIN m.chunks : m.chunks[i].profile = "single"
  BY <1>3 DEF OneCopy
<1>5. \A i \in DOMAIN m.chunks : m.chunks[i].stripes = <<[dev |-> l[1].dev, off |-> m.chunks[i].log]>>
  BY <1>4, Zenon DEF AllFormatted, Formatted
<1>6. Devices = {1}
  BY <1>3, <1>4, GivenFacts DEF Opened
<1>7. image.list[1].good
  BY DEF OneCopy
<1>8. devID \in {0, image.list[1].dev}
  <2>1. Identified(image.list)
    BY GivenFacts DEF Opened
  <2>2. 1 \in DOMAIN image.list
    BY <1>6 DEF Devices
  <2> QED
    BY <1>7, <2>1, <2>2 DEF Identified, devID
<1>9. ASSUME NEW c \in KnownChunks PROVE InPlaceChunk(c) /\ physStart(c) = c.log
  <2>1. c.profile = "single" /\ c.stripes = <<[dev |-> image.list[1].dev, off |-> c.log]>>
    BY <1>3, <1>4, <1>5 DEF KnownChunks
  <2>2. Mirrored(c)
    BY <2>1 DEF Mirrored
  <2>3. StripeSize(c) = c.size
    BY <2>1, <2>2 DEF StripeSize
  <2>4. localStripe(c) = 1
    <3> DEFINE mine == {i \in DOMAIN c.stripes : c.stripes[i].dev = devID}
    <3>1. CASE devID = 0
      BY <3>1, SMTT(30) DEF localStripe
    <3>2. CASE devID # 0
      <4>1. DOMAIN c.stripes = {1} /\ c.stripes[1].dev = image.list[1].dev
        BY <2>1
      <4>2. mine = {1}
        BY <1>8, <3>2, <4>1
      <4>3. Min({1}) = 1
        <5>1. {1} \in SUBSET Nat /\ {1} # {}
          OBVIOUS
        <5>2. Min({1}) \in {1}
          BY <5>1, MinIsLeast
        <5> QED
          BY <5>2
      <4>4. localStripe(c) = Min(mine)
        BY <3>2, <4>2 DEF localStripe
      <4> QED
        BY <4>2, <4>3, <4>4, Zenon
    <3> QED
      BY <3>1, <3>2
  <2>5. physStart(c) = c.log
    BY <2>1, <2>4 DEF physStart
  <2> QED
    BY <2>1, <2>2, <2>3, <2>5 DEF InPlaceChunk
<1> QED
  BY <1>6, <1>9

\* A file system that is written is of this kind.
LEMMA WrittenFormat ==
  ASSUME Opened, AllFormatted, Writable
  PROVE  /\ Devices = {1}
         /\ \A c \in KnownChunks : InPlaceChunk(c) /\ physStart(c) = c.log
<1>1. OneCopy
  BY Zenon DEF OneCopy, Writable, Ready, Opened, PoolInv
<1> QED
  BY <1>1, OneCopyFormat

\* A write goes to the offsets that are the addresses.
LEMMA WritesPlace ==
  ASSUME Opened, Stored, AllFormatted, Writing
  PROVE  /\ Writable
         /\ \E a, n \in Nat : /\ WriteAt(a, a, n)
                              /\ \A x \in a .. a + n - 1 : \E c \in KnownChunks : InChunk(c, x)
<1>1. Writable
  BY DEF Writing, writeCowNode, writeExtent, writeInPlace
<1>2. \A c \in KnownChunks : physStart(c) = c.log
  BY <1>1, WrittenFormat
<1>3. \A i \in DOMAIN chunks : chunks[i] \in KnownChunks
  BY DEF Opened, ChunkInv
<1>4. \A c \in KnownChunks : c.log \in Nat \ {0} /\ c.size \in Nat
  BY GivenFacts, Zenon DEF Opened, Chunks
<1>5. ASSUME NEW p, NEW i \in DOMAIN chunks, InChunk(chunks[i], p)
      PROVE  physToLog(p) = p /\ physFromLog(p) = p /\ p \in Nat
  <2> DEFINE hit == {j \in DOMAIN chunks :
                p \in physStart(chunks[j]) .. physStart(chunks[j]) + chunks[j].size - 1}
  <2>1. hit = lookupChunk(p)
    BY <1>2, <1>3 DEF lookupChunk
  <2>2. i \in hit
    BY <1>5, <2>1 DEF lookupChunk, InChunk
  <2>3. hit \in SUBSET Nat /\ hit # {}
    <3>1. DOMAIN chunks \in SUBSET Nat
      BY DEF Opened, ChunkInv
    <3> QED
      BY <2>2, <3>1
  <2>4. Min(hit) \in hit
    <3> HIDE DEF hit
    <3> QED
      BY <2>3, MinIsLeast
  <2> DEFINE c == chunks[Min(hit)]
  <2>5. c \in KnownChunks /\ physStart(c) = c.log /\ c.log \in Nat
    BY <1>2, <1>3, <1>4, <2>4
  <2>6. physToLog(p) = c.log + (p - physStart(c))
    BY <2>3 DEF physToLog
  <2>7. physFromLog(p) = physStart(c) + (p - c.log)
    BY <2>1, <2>3, Zenon DEF physFromLog, chunkAt
  <2>8. p \in Nat
    <3>1. chunks[i].log \in Nat /\ p \in chunks[i].log .. chunks[i].log + chunks[i].size - 1
      BY <1>3, <1>4, <1>5 DEF InChunk
    <3>2. chunks[i].size \in Nat
      BY <1>3, <1>4
    <3> QED
      BY <3>1, <3>2
  <2> HIDE DEF c
  <2> QED
    BY <2>5, <2>6, <2>7, <2>8
<1>6. ASSUME NEW p, NEW n \in Nat, Allocatable(p, n)
      PROVE  \A x \in p .. p + n - 1 : \E i \in DOMAIN chunks : InChunk(chunks[i], x)
  BY <1>2, <1>3, <1>6, SMTT(30) DEF Allocatable, InChunk
<1>7. \A p \in DOMAIN store[1] : p \in Nat
  <2>1. 1 \in Devices
    BY <1>1, WrittenFormat
  <2> QED
    BY <2>1 DEF Stored
<1>8. ASSUME NEW p \in DOMAIN store[1], NEW n \in Nat \ {0}, Allocatable(p, n), p \in Nat
      PROVE  physToLog(p) = p /\ physFromLog(p) = p
             /\ \A x \in p .. p + n - 1 : \E c \in KnownChunks : InChunk(c, x)
  <2>1. p \in p .. p + n - 1
    BY <1>8
  <2>2. \A x \in p .. p + n - 1 : \E i \in DOMAIN chunks : InChunk(chunks[i], x)
    BY <1>6, <1>8
  <2> QED
    BY <1>3, <1>5, <2>1, <2>2
<1>9. CASE \E p \in DOMAIN store[1] : writeCowNode(p)
  <2>1. PICK p \in DOMAIN store[1] :
          Allocatable(p, 1) /\ WriteAt(physToLog(p), physFromLog(physToLog(p)), 1)
    BY <1>9 DEF writeCowNode
  <2>2. p \in Nat /\ 1 \in Nat \ {0}
    BY <1>7
  <2>3. /\ physToLog(p) = p /\ physFromLog(p) = p
        /\ \A x \in p .. p + 1 - 1 : \E c \in KnownChunks : InChunk(c, x)
    BY <1>8, <2>1, <2>2
  <2>4. WriteAt(p, p, 1)
    BY <2>1, <2>3
  <2> QED
    BY <1>1, <2>2, <2>3, <2>4
<1>10. CASE \E p \in DOMAIN store[1] : \E n \in Lengths : writeExtent(p, n)
  <2>1. PICK p \in DOMAIN store[1], n \in Lengths : Allocatable(p, n) /\ WriteAt(physToLog(p), p, n)
    BY <1>10 DEF writeExtent
  <2>2. p \in Nat /\ n \in Nat \ {0}
    BY <1>7, PoolAssumption
  <2>3. /\ physToLog(p) = p
        /\ \A x \in p .. p + n - 1 : \E c \in KnownChunks : InChunk(c, x)
    BY <1>8, <2>1, <2>2
  <2>4. WriteAt(p, p, n)
    BY <2>1, <2>3
  <2> QED
    BY <1>1, <2>2, <2>3, <2>4
<1>11. CASE \E a \in Addresses : writeInPlace(a)
  <2>1. PICK a \in Addresses : Mapped(a) /\ WriteAt(a, physAddr(a), 1)
    BY <1>11 DEF writeInPlace
  <2>2. PICK i \in DOMAIN chunks : InChunk(chunks[i], a)
    BY <2>1, ChunkFound, Zenon DEF Opened, ChunkInv
  <2>3. a \in Nat /\ chunks[i] \in KnownChunks
    BY <1>3, <1>5, <2>2
  <2>4. \A x \in a .. a + 1 - 1 : x = a
    BY <2>3
  <2>5. WriteAt(a, a, 1)
    BY <2>1 DEF physAddr
  <2> QED
    BY <1>1, <2>2, <2>3, <2>4, <2>5
<1> QED
  BY <1>9, <1>10, <1>11 DEF Writing

\* What a stripe of such a chunk holds.
LEMMA InPlaceHolds ==
  ASSUME NEW c, InPlaceChunk(c), c.log \in Nat, c.size \in Nat
  PROVE  \A i, o, a : Holds(c, i, o, a) <=>
           i = 1 /\ o \in 0 .. c.size - 1 /\ a = c.log + o
<1>1. DOMAIN c.stripes = {1} /\ StripeSize(c) = c.size
  BY DEF InPlaceChunk
<1>2. \A i, o : Layout(c, i, o) = DataAt(c.log + o, 0)
  BY Zenon DEF Layout, InPlaceChunk
<1>3. \A x, y : DataAt(x, 0) = DataAt(y, 0) <=> x = y
  BY DEF DataAt
<1> QED
  BY <1>1, <1>2, <1>3, Zenon DEF Holds

\* Its only stripe.
LEMMA InPlaceStripe ==
  ASSUME NEW c, InPlaceChunk(c)
  PROVE  c.stripes[1].dev = image.list[1].dev /\ c.stripes[1].off = c.log
<1>1. c.stripes = <<[dev |-> image.list[1].dev, off |-> c.log]>>
  BY Zenon DEF InPlaceChunk
<1>2. c.stripes[1] = [dev |-> image.list[1].dev, off |-> c.log]
  BY <1>1
<1> QED
  BY <1>2

\* The stores follow a write.
LEMMA StoredWrite ==
  ASSUME Opened, Stored, AllFormatted, Writing
  PROVE  Stored'
<1>1. Writable
  BY WritesPlace
<1>2. PICK a \in Nat, n \in Nat :
        WriteAt(a, a, n) /\ \A x \in a .. a + n - 1 : \E c \in KnownChunks : InChunk(c, x)
  BY WritesPlace
<1>3. Devices = {1} /\ \A c \in KnownChunks : InPlaceChunk(c)
  BY <1>1, WrittenFormat
<1>4. \A c \in KnownChunks : c.log \in Nat \ {0} /\ c.size \in Nat
  BY GivenFacts, Zenon DEF Opened, Chunks
<1> DEFINE s == store[1]
           R == a .. a + n - 1
           V == NextVersion
<1>5. DOMAIN store = {1} /\ DOMAIN s \subseteq Nat /\ 0 \in DOMAIN s /\ s[0] = Super
  BY <1>3 DEF Stored
<1>6. /\ image' = image /\ written' = [x \in DOMAIN written \cup R |-> IF x \in R THEN V ELSE written[x]]
      /\ store' = [store EXCEPT ![1] = [x \in DOMAIN @ |->
                 IF x \in R THEN DataAt(a + (x - a), V) ELSE @[x]]]
  BY <1>2 DEF WriteAt
<1> HIDE DEF V
<1>7. /\ DOMAIN store' = {1} /\ DOMAIN store'[1] = DOMAIN s
      /\ \A x \in DOMAIN s : store'[1][x] = IF x \in R THEN DataAt(x, V) ELSE s[x]
  <2>1. store'[1] = [x \in DOMAIN s |-> IF x \in R THEN DataAt(a + (x - a), V) ELSE s[x]]
    BY <1>5, <1>6
  <2>2. \A x \in R : a + (x - a) = x
    BY <1>2
  <2>3. DOMAIN store' = {1}
    BY <1>5, <1>6
  <2> HIDE DEF R, s
  <2> QED
    BY <2>1, <2>2, <2>3
<1>8. \A x : Version(x)' = IF x \in R THEN V ELSE Version(x)
  BY <1>6 DEF Version
<1>9. Devices' = {1} /\ KnownChunks' = KnownChunks /\ image'.list = image.list
  BY <1>3, <1>6 DEF Devices, KnownChunks
<1>10. 0 \notin R
  <2>1. ASSUME 0 \in R PROVE FALSE
    <3>1. PICK c \in KnownChunks : InChunk(c, 0)
      BY <1>2, <2>1
    <3> QED
      BY <1>4, <3>1 DEF InChunk
  <2> QED
    BY <2>1
<1>11. \A c \in KnownChunks : \A i, o, x :
         StripeHolds(1, c, i, o, x) <=> i = 1 /\ o \in 0 .. c.size - 1 /\ x = c.log + o
  <2> SUFFICES ASSUME NEW c \in KnownChunks, NEW i, NEW o, NEW x
               PROVE  StripeHolds(1, c, i, o, x) <=> i = 1 /\ o \in 0 .. c.size - 1 /\ x = c.log + o
    OBVIOUS
  <2>1. Holds(c, i, o, x) <=> i = 1 /\ o \in 0 .. c.size - 1 /\ x = c.log + o
    BY <1>3, <1>4, InPlaceHolds
  <2>2. c.stripes[1].dev = image.list[1].dev
    BY <1>3, InPlaceStripe, SMTT(30)
  <2> QED
    BY <2>1, <2>2, Zenon DEF StripeHolds
<1>12. \A d, c, i, o, x : StripeHolds(d, c, i, o, x)' <=> StripeHolds(d, c, i, o, x)
  BY <1>9, SMTT(30) DEF StripeHolds
<1>13. \A c \in KnownChunks : c.stripes[1].off = c.log
  BY <1>3, InPlaceStripe
<1>14. ASSUME NEW c \in KnownChunks, NEW i, NEW o, NEW x, StripeHolds(1, c, i, o, x)
       PROVE  /\ c.stripes[i].off + o = x /\ x \in DOMAIN s /\ s[x] = DataAt(x, Version(x))
  <2>1. i = 1 /\ x = c.log + o /\ c.stripes[i].off = c.log
    BY <1>11, <1>13, <1>14, Zenon
  <2>2. c.stripes[i].off + o = x
    BY <2>1
  <2>3. c.stripes[i].off + o \in DOMAIN s /\ s[c.stripes[i].off + o] = DataAt(x, Version(x))
    BY <1>3, <1>14, Zenon DEF Stored
  <2> QED
    BY <2>2, <2>3
<1>15. ASSUME NEW p \in DOMAIN s, p \in R \/ s[p].kind = "data"
       PROVE  \E c \in KnownChunks : \E i, o :
                /\ StripeHolds(1, c, i, o, IF p \in R THEN p ELSE s[p].at)
                /\ p = c.stripes[i].off + o
  <2>1. CASE p \in R
    <3>1. PICK c \in KnownChunks : InChunk(c, p)
      BY <1>2, <2>1
    <3> DEFINE o == p - c.log
    <3>2. o \in 0 .. c.size - 1 /\ p = c.log + o
      BY <1>4, <3>1 DEF InChunk
    <3> HIDE DEF o
    <3>3. StripeHolds(1, c, 1, o, p) /\ p = c.stripes[1].off + o
      BY <1>11, <1>13, <3>2, SMTT(30)
    <3> QED
      BY <2>1, <3>3
  <2>2. CASE p \notin R
    <3>1. s[p].kind = "data"
      BY <1>15, <2>2
    <3> QED
      BY <1>3, <2>2, <3>1 DEF Stored
  <2> QED
    BY <2>1, <2>2
<1> HIDE DEF s, R
<1>16. (DOMAIN store = Devices)'
  BY <1>7, <1>9
<1>17. (\A d \in Devices : DOMAIN store[d] \subseteq Nat /\ 0 \in DOMAIN store[d] /\ store[d][0] = Super)'
  BY <1>5, <1>7, <1>9, <1>10
<1>18. ASSUME NEW c \in KnownChunks, NEW i, NEW o, NEW x, StripeHolds(1, c, i, o, x)
       PROVE  /\ c.stripes[i].off + o \in DOMAIN store'[1]
              /\ store'[1][c.stripes[i].off + o] = DataAt(x, Version(x)')
  <2>1. c.stripes[i].off + o = x /\ x \in DOMAIN s /\ s[x] = DataAt(x, Version(x))
    BY <1>14, <1>18
  <2>2. store'[1][x] = IF x \in R THEN DataAt(x, V) ELSE s[x]
    BY <1>7, <2>1
  <2>3. Version(x)' = IF x \in R THEN V ELSE Version(x)
    BY <1>8, SMTT(30)
  <2>4. x \in DOMAIN store'[1] /\ store'[1][x] = DataAt(x, Version(x)')
    BY <1>7, <2>1, <2>2, <2>3
  <2> QED
    BY <2>1, <2>4
<1>19. ASSUME NEW p \in DOMAIN store'[1], store'[1][p].kind = "data"
       PROVE  \E c \in KnownChunks : \E i, o :
                StripeHolds(1, c, i, o, store'[1][p].at) /\ p = c.stripes[i].off + o
  <2>1. p \in DOMAIN s /\ store'[1][p] = IF p \in R THEN DataAt(p, V) ELSE s[p]
    BY <1>7
  <2>2. p \in R \/ s[p].kind = "data"
    BY <1>19, <2>1
  <2>3. DataAt(p, V).at = p
    BY DEF DataAt
  <2>4. store'[1][p].at = IF p \in R THEN p ELSE s[p].at
    BY <2>1, <2>3
  <2>5. \E c \in KnownChunks : \E i, o :
          /\ StripeHolds(1, c, i, o, IF p \in R THEN p ELSE s[p].at)
          /\ p = c.stripes[i].off + o
    BY <1>15, <2>1, <2>2, Zenon
  <2> QED
    BY <2>4, <2>5, Zenon
<1>20. (\A d \in Devices : \A c \in KnownChunks : \A i, o, x :
         StripeHolds(d, c, i, o, x) =>
           /\ c.stripes[i].off + o \in DOMAIN store[d]
           /\ store[d][c.stripes[i].off + o] = DataAt(x, Version(x)))'
  <2>1. ASSUME NEW d \in Devices', NEW c \in KnownChunks', NEW i, NEW o, NEW x, StripeHolds(d, c, i, o, x)'
        PROVE  (/\ c.stripes[i].off + o \in DOMAIN store[d]
                /\ store[d][c.stripes[i].off + o] = DataAt(x, Version(x)))'
    <3>1. d = 1 /\ c \in KnownChunks
      BY <1>9
    <3>2. StripeHolds(1, c, i, o, x)
      BY <1>12, <2>1, <3>1, SMTT(30)
    <3> QED
      BY <1>18, <3>1, <3>2 DEF DataAt
  <2> QED
    BY <2>1, ZenonT(40)
<1>21. (\A d \in Devices : \A p \in DOMAIN store[d] :
         store[d][p].kind = "data" =>
           \E c \in KnownChunks : \E i, o :
             StripeHolds(d, c, i, o, store[d][p].at) /\ p = c.stripes[i].off + o)'
  <2>1. ASSUME NEW d \in Devices', NEW p \in DOMAIN store'[d], store'[d][p].kind = "data"
        PROVE  \E c \in KnownChunks' : \E i, o :
                 (StripeHolds(d, c, i, o, store[d][p].at))' /\ p = c.stripes[i].off + o
    <3>1. d = 1
      BY <1>9
    <3>2. PICK c \in KnownChunks : \E i, o :
            StripeHolds(1, c, i, o, store'[1][p].at) /\ p = c.stripes[i].off + o
      BY <1>19, <2>1, <3>1
    <3> QED
      BY <1>9, <3>1, <3>2, Zenon DEF StripeHolds
  <2> QED
    BY <2>1
<1> QED
  BY <1>16, <1>17, <1>20, <1>21, Zenon DEF Stored

\* A step that writes nothing leaves the stores.
LEMMA StoredStays ==
  ASSUME Stored, UNCHANGED <<image, store, written>>
  PROVE  Stored'
<1>1. KnownChunks' = KnownChunks /\ Devices' = Devices /\ store' = store
  BY DEF KnownChunks, Devices
<1>2. ASSUME NEW d, NEW c, NEW i, NEW o, NEW a
      PROVE  /\ StripeHolds(d, c, i, o, a)' <=> StripeHolds(d, c, i, o, a)
             /\ Version(a)' = Version(a)
  BY DEF StripeHolds, Version
<1>a. \A d \in Devices : \A c \in KnownChunks : \A i, o, a :
        StripeHolds(d, c, i, o, a) =>
          /\ c.stripes[i].off + o \in DOMAIN store[d]
          /\ store[d][c.stripes[i].off + o] = DataAt(a, Version(a))
  BY Zenon DEF Stored
<1>b. \A d \in Devices : \A p \in DOMAIN store[d] :
        store[d][p].kind = "data" =>
          \E c \in KnownChunks : \E i, o :
            StripeHolds(d, c, i, o, store[d][p].at) /\ p = c.stripes[i].off + o
  BY Zenon DEF Stored
<1>3. /\ DOMAIN store' = Devices'
      /\ \A d \in Devices' : DOMAIN store'[d] \subseteq Nat /\ 0 \in DOMAIN store'[d] /\ store'[d][0] = Super
  BY <1>1, Zenon DEF Stored
<1>4. ASSUME NEW d \in Devices', NEW c \in KnownChunks', NEW i, NEW o, NEW a,
             StripeHolds(d, c, i, o, a)'
      PROVE  /\ c.stripes[i].off + o \in DOMAIN store'[d]
             /\ store'[d][c.stripes[i].off + o] = DataAt(a, Version(a)')
  <2>1. d \in Devices /\ c \in KnownChunks /\ StripeHolds(d, c, i, o, a)
    BY <1>1, <1>2, <1>4, SMTT(30)
  <2>2. c.stripes[i].off + o \in DOMAIN store[d] /\ store[d][c.stripes[i].off + o] = DataAt(a, Version(a))
    BY <1>a, <2>1
  <2>3. Version(a)' = Version(a)
    BY <1>2
  <2> QED
    BY <1>1, <2>2, <2>3, Zenon
<1>5. ASSUME NEW d \in Devices', NEW p \in DOMAIN store'[d], store'[d][p].kind = "data"
      PROVE  \E c \in KnownChunks' : \E i, o :
               StripeHolds(d, c, i, o, store[d][p].at)' /\ p = c.stripes[i].off + o
  <2>1. d \in Devices /\ p \in DOMAIN store[d] /\ store[d][p].kind = "data"
    BY <1>1, <1>5
  <2>2. PICK c, i, o : /\ c \in KnownChunks /\ StripeHolds(d, c, i, o, store[d][p].at)
                      /\ p = c.stripes[i].off + o
    BY <1>b, <2>1
  <2>3. PICK v : v = store[d][p].at
    OBVIOUS
  <2>4. StripeHolds(d, c, i, o, v)'
    BY <1>2, <2>2, <2>3, Zenon
  <2> QED
    BY <1>1, <2>2, <2>3, <2>4, Zenon
<1> QED
  BY <1>3, <1>4, <1>5, Zenon DEF Stored

----------------------------------------------------------------------------
(* Division with remainder. *)

\* The product of two numbers of units is one.
LEMMA ProductIsNat ==
  ASSUME NEW x \in Nat, NEW y \in Nat
  PROVE  x * y \in Nat
OBVIOUS

\* One product is larger than the next by the divisor at least.
LEMMA StepOfProduct ==
  ASSUME NEW L \in Nat \ {0}, NEW p \in Nat, NEW q \in Nat, p < q
  PROVE  L * p + L <= L * q
<1>1. PICK d \in Nat : q = p + 1 + d
  <2>1. q - (p + 1) \in Nat /\ q = p + 1 + (q - (p + 1))
    OBVIOUS
  <2> QED
    BY <2>1
<1>2. L * q = L * p + L + L * d /\ L * d \in Nat
  BY <1>1
<1> QED
  BY <1>2

\* Quotient and rest are the only ones.
LEMMA DivisionUnique ==
  ASSUME NEW L \in Nat \ {0}, NEW q \in Nat, NEW r \in 0 .. L - 1
  PROVE  (L * q + r) \div L = q /\ (L * q + r) % L = r
<1> DEFINE y == L * q + r
           d == y \div L
           m == y % L
<1>1. y \in Nat /\ L * q \in Nat
  OBVIOUS
<1>2. d \in Nat /\ m \in 0 .. L - 1 /\ y = L * d + m /\ L * d \in Nat
  <2> HIDE DEF y
  <2>1. d \in Nat /\ m \in 0 .. L - 1 /\ y = L * d + m
    BY <1>1, Euclid, Zenon
  <2> HIDE DEF d, m
  <2> QED
    BY <2>1
<1>3. y = L * q + r
  OBVIOUS
<1> HIDE DEF y, d, m
<1>4. ~(d < q)
  <2> SUFFICES ASSUME d < q PROVE FALSE
    OBVIOUS
  <2>1. L * d + L <= L * q
    BY <1>2, StepOfProduct
  <2> QED
    BY <1>1, <1>2, <1>3, <2>1, SMTT(30)
<1>5. ~(q < d)
  <2> SUFFICES ASSUME q < d PROVE FALSE
    OBVIOUS
  <2>1. L * q + L <= L * d
    BY <1>2, StepOfProduct
  <2> QED
    BY <1>1, <1>2, <1>3, <2>1
<1>6. d = q
  BY <1>2, <1>4, <1>5
<1> QED
  BY <1>1, <1>2, <1>3, <1>6 DEF y, d, m

----------------------------------------------------------------------------
(* Rotation of columns. *)

\* Around the end once.
LEMMA Around ==
  ASSUME NEW n \in Nat \ {0}, NEW v \in 0 .. 2 * n - 1
  PROVE  (v < n => v % n = v) /\ (~(v < n) => v % n = v - n)
<1>1. CASE v < n
  <2>1. v \in 0 .. n - 1 /\ v = n * 0 + v
    BY <1>1
  <2> QED
    BY <1>1, <2>1, DivisionUnique
<1>2. CASE ~(v < n)
  <2>1. v - n \in 0 .. n - 1 /\ v = n * 1 + (v - n)
    BY <1>2
  <2>2. v % n = v - n
    BY <2>1, DivisionUnique
  <2> QED
    BY <1>2, <2>2
<1> QED
  BY <1>1, <1>2

\* Whole rounds do not count.
LEMMA WholeRounds ==
  ASSUME NEW n \in Nat \ {0}, NEW u \in Nat, NEW q \in Nat
  PROVE  (u + n * q) % n = u % n
<1> DEFINE a == u \div n
           m == u % n
<1>1. a \in Nat /\ m \in 0 .. n - 1 /\ u = n * a + m
  BY Euclid, Zenon
<1> HIDE DEF a, m
<1>2. a + q \in Nat /\ u + n * q = n * (a + q) + m
  BY <1>1
<1>3. (n * (a + q) + m) % n = m
  BY <1>1, <1>2, DivisionUnique
<1> QED
  BY <1>2, <1>3 DEF m

----------------------------------------------------------------------------
(* The columns of a row. *)

\* The column at which the data of a row starts.
First(c, row) == IF nparity(c) = 0 THEN 0 ELSE row % Len(c.stripes)

\* A chunk that is striped in columns.
InColumns(c) ==
  /\ c \in Chunks /\ c.profile \in {"raid0", "raid5", "raid6", "other"}
  /\ Len(c.stripes) > nparity(c)

LEMMA ColumnNumbers ==
  ASSUME NEW c, InColumns(c)
  PROVE  /\ Len(c.stripes) \in Nat \ {0} /\ nparity(c) \in 0 .. 2
         /\ Columns(c) \in 1 .. Len(c.stripes) /\ Columns(c) = Len(c.stripes) - nparity(c)
         /\ c.stripeLen \in Nat \ {0} /\ c.log \in Nat /\ c.size \in Nat \ {0}
         /\ ~Mirrored(c) /\ c.profile # "raid10"
         /\ nparity(c) = 0 => Columns(c) = Len(c.stripes)
<1>1. c.stripes \in Seq(Stripes)
  BY DEF InColumns, Chunks
<1>2. Len(c.stripes) \in Nat
  BY <1>1, SeqShape
<1>3. nparity(c) \in 0 .. 2
  BY DEF nparity
<1>4. c.stripeLen \in Nat \ {0} /\ c.log \in Nat /\ c.size \in Nat \ {0}
  BY DEF InColumns, Chunks
<1>5. ~Mirrored(c) /\ c.profile # "raid10"
  BY DEF InColumns, Mirrored
<1> QED
  BY <1>2, <1>3, <1>4, <1>5 DEF Columns, InColumns

LEMMA StripesIndexed ==
  ASSUME NEW c, InColumns(c)
  PROVE  Columns(c) \in Nat \ {0} /\ DOMAIN c.stripes = 1 .. Len(c.stripes)
<1>1. c.stripes \in Seq(Stripes)
  BY DEF InColumns, Chunks
<1>2. DOMAIN c.stripes = 1 .. Len(c.stripes)
  BY <1>1, SeqShape, Zenon
<1>3. Len(c.stripes) \in Nat /\ Columns(c) \in 1 .. Len(c.stripes)
  BY ColumnNumbers, Zenon
<1>4. Columns(c) \in Nat \ {0}
  BY <1>3
<1> QED
  BY <1>2, <1>4

LEMMA FirstIsColumn ==
  ASSUME NEW c, InColumns(c), NEW row \in Nat
  PROVE  First(c, row) \in 0 .. Len(c.stripes) - 1
<1>1. Len(c.stripes) \in Nat \ {0}
  BY ColumnNumbers
<1>2. row % Len(c.stripes) \in 0 .. Len(c.stripes) - 1
  BY <1>1, Euclid, Zenon
<1>3. CASE nparity(c) = 0
  BY <1>1, <1>3 DEF First
<1>4. CASE nparity(c) # 0
  BY <1>2, <1>4, Zenon DEF First
<1> QED
  BY <1>3, <1>4

\* Different ranks are different columns.
LEMMA Rotation ==
  ASSUME NEW n \in Nat \ {0}, NEW f \in 0 .. n - 1, NEW j \in 0 .. n - 1, NEW k \in 0 .. n - 1
  PROVE  (f + j) % n \in 0 .. n - 1 /\ ((f + j) % n = (f + k) % n => j = k)
<1> DEFINE v == f + j
           w == f + k
<1>1. v \in 0 .. 2 * n - 1 /\ w \in 0 .. 2 * n - 1 /\ (v = w => j = k)
      /\ (v = w + n => FALSE) /\ (w = v + n => FALSE)
  OBVIOUS
<1> HIDE DEF v, w
<1>2. /\ (v < n => v % n = v) /\ (~(v < n) => v % n = v - n)
      /\ (w < n => w % n = w) /\ (~(w < n) => w % n = w - n)
  BY <1>1, Around, Zenon
<1>3. v % n \in 0 .. n - 1 /\ (v % n = w % n => j = k)
  BY <1>1, <1>2
<1> QED
  BY <1>3 DEF v, w

\* Every column has a rank.
LEMMA RotationOnto ==
  ASSUME NEW n \in Nat \ {0}, NEW f \in 0 .. n - 1, NEW i \in 0 .. n - 1
  PROVE  \E k \in 0 .. n - 1 : (f + k) % n = i
<1> DEFINE k == IF f <= i THEN i - f ELSE i + n - f
           v == f + k
<1>1. /\ k \in 0 .. n - 1 /\ v \in 0 .. 2 * n - 1
      /\ (f <= i => v = i) /\ (~(f <= i) => v = i + n)
  OBVIOUS
<1> HIDE DEF k, v
<1>2. (v < n => v % n = v) /\ (~(v < n) => v % n = v - n)
  BY <1>1, Around, Zenon
<1>3. v % n = i
  BY <1>1, <1>2
<1> QED
  BY <1>1, <1>3 DEF v

\* Rank counts from the first column of the row.
LEMMA RankOfColumn ==
  ASSUME NEW c, InColumns(c), NEW row \in Nat, NEW k \in 0 .. Len(c.stripes) - 1
  PROVE  Rank(c, (First(c, row) + k) % Len(c.stripes), row) = k
<1> DEFINE n == Len(c.stripes)
           f == First(c, row)
           i == (f + k) % n
<1>1. n \in Nat \ {0} /\ f \in 0 .. n - 1
  BY ColumnNumbers, FirstIsColumn, Zenon
<1>2. Rank(c, i, row) = CHOOSE j \in 0 .. n - 1 : (f + j) % n = i
  BY DEF Rank, First
<1> HIDE DEF n, f
<1>3. \A j \in 0 .. n - 1 : (f + j) % n = i => j = k
  BY <1>1, Rotation, Zenon DEF n
<1>4. k \in 0 .. n - 1
  BY DEF n
<1> QED
  BY <1>2, <1>3, <1>4 DEF n, f

\* The parity of a row is in the columns that come last.
LEMMA ParityIsLast ==
  ASSUME NEW c, InColumns(c), NEW row \in Nat, NEW k \in 0 .. Len(c.stripes) - 1
  PROVE  (First(c, row) + k) % Len(c.stripes) \in ParityColumns(c, row) <=> k >= Columns(c)
<1> DEFINE n == Len(c.stripes)
           p == nparity(c)
           f == First(c, row)
<1>1. /\ n \in Nat \ {0} /\ f \in 0 .. n - 1 /\ p \in 0 .. 2 /\ p < n
      /\ Columns(c) = n - p /\ k \in 0 .. n - 1
  BY ColumnNumbers, FirstIsColumn, Zenon DEF InColumns
<1>2. ParityColumns(c, row) = {(n - p + row + j) % n : j \in 0 .. p - 1}
  BY DEF ParityColumns
<1>3. p = 0 \/ f = row % n
  BY Zenon DEF First
<1> HIDE DEF n, p, f
<1>4. CASE p = 0
  BY <1>1, <1>2, <1>4 DEF n, f
<1>5. CASE p # 0
  <2>1. ASSUME NEW j \in 0 .. p - 1
        PROVE  n - p + j \in 0 .. n - 1 /\ (n - p + row + j) % n = (f + (n - p + j)) % n
    <3>1. row \div n \in Nat /\ row = n * (row \div n) + f
      BY <1>1, <1>3, <1>5, Euclid, Zenon
    <3>2. n - p + j \in 0 .. n - 1 /\ f + (n - p + j) \in Nat
      BY <1>1
    <3> DEFINE q == row \div n
    <3> HIDE DEF q
    <3>3. n - p + row + j = (f + (n - p + j)) + n * q
      <4>1. n * q \in Nat /\ row = n * q + f
        BY <1>1, <3>1 DEF q
      <4> QED
        BY <1>1, <4>1, SMTT(30)
    <3>4. ((f + (n - p + j)) + n * q) % n = (f + (n - p + j)) % n
      BY <1>1, <3>1, <3>2, WholeRounds, Zenon DEF q
    <3> QED
      BY <3>2, <3>3, <3>4
  <2>2. ASSUME k >= Columns(c) PROVE (f + k) % n \in ParityColumns(c, row)
    <3>1. k - (n - p) \in 0 .. p - 1 /\ k = n - p + (k - (n - p))
      BY <1>1, <2>2
    <3> QED
      BY <1>2, <2>1, <3>1
  <2>3. ASSUME (f + k) % n \in ParityColumns(c, row) PROVE k >= Columns(c)
    <3>1. PICK j \in 0 .. p - 1 : (f + k) % n = (f + (n - p + j)) % n
      BY <1>2, <2>1, <2>3
    <3> DEFINE h == n - p + j
    <3>2. h \in 0 .. n - 1
      BY <2>1
    <3>3. k = h
      <4> HIDE DEF h
      <4> QED
        BY <1>1, <3>1, <3>2, Rotation, Zenon DEF h
    <3> QED
      BY <1>1, <3>3
  <2> QED
    BY <2>2, <2>3 DEF n, f
<1> QED
  BY <1>4, <1>5

\* What a column holds at a place of a row.
LEMMA LayoutOfColumn ==
  ASSUME NEW c, InColumns(c), NEW row \in Nat, NEW in \in 0 .. c.stripeLen - 1,
         NEW k \in 0 .. Len(c.stripes) - 1
  PROVE  Layout(c, (First(c, row) + k) % Len(c.stripes), c.stripeLen * row + in) =
           IF k >= Columns(c) THEN Parity
           ELSE DataAt(c.log + (row * Columns(c) + k) * c.stripeLen + in, 0)
<1> DEFINE i == (First(c, row) + k) % Len(c.stripes)
           o == c.stripeLen * row + in
<1>1. o \div c.stripeLen = row /\ o % c.stripeLen = in
  BY ColumnNumbers, DivisionUnique, Zenon
<1>2. Rank(c, i, row) = k
  BY RankOfColumn
<1>3. i \in ParityColumns(c, row) <=> k >= Columns(c)
  BY ParityIsLast
<1>4. ~Mirrored(c) /\ c.profile # "raid10"
  BY ColumnNumbers
<1> HIDE DEF i, o
<1>5. Layout(c, i, o) = IF i \in ParityColumns(c, row) THEN Parity
                        ELSE DataAt(c.log + (row * Columns(c) + k) * c.stripeLen + in, 0)
  BY <1>1, <1>2, <1>4, ZenonT(40) DEF Layout
<1> QED
  BY <1>3, <1>5, Zenon DEF i, o

\* readStriped finds the column of an address.
LEMMA IndexOfStripe ==
  ASSUME NEW c, InColumns(c), NEW a \in Nat, c.log <= a
  PROVE  LET row == stripeNr(c, a) \div Columns(c)
             col == stripeNr(c, a) % Columns(c)
         IN  /\ stripeNr(c, a) \in Nat /\ row \in Nat /\ col \in 0 .. Columns(c) - 1
             /\ stripeNr(c, a) = row * Columns(c) + col
             /\ stripeOff(c, a) \in 0 .. c.stripeLen - 1
             /\ a = c.log + (row * Columns(c) + col) * c.stripeLen + stripeOff(c, a)
             /\ stripeIdx(c, a) = (First(c, row) + col) % Len(c.stripes)
<1> DEFINE n == Len(c.stripes)
           p == nparity(c)
           D == Columns(c)
           nr == stripeNr(c, a)
           off == stripeOff(c, a)
           row == nr \div D
           col == nr % D
           f == First(c, row)
<1>1. /\ n \in Nat \ {0} /\ p \in 0 .. 2 /\ D \in 1 .. n /\ D = n - p
      /\ c.stripeLen \in Nat \ {0} /\ c.log \in Nat
  BY ColumnNumbers
<1>2. a - c.log \in Nat
  BY <1>1
<1>3. nr \in Nat /\ off \in 0 .. c.stripeLen - 1 /\ a - c.log = c.stripeLen * nr + off
  BY <1>1, <1>2, Euclid, Zenon DEF stripeNr, stripeOff
<1>4. row \in Nat /\ col \in 0 .. D - 1 /\ nr = D * row + col
  <2>1. D \in Nat \ {0}
    BY <1>1
  <2> HIDE DEF nr, D
  <2> QED
    BY <1>3, <2>1, Euclid, Zenon
<1>5. f \in 0 .. n - 1
  <2> HIDE DEF row
  <2> QED
    BY <1>4, FirstIsColumn, SMTT(30)
<1>6. /\ p = 0 => stripeIdx(c, a) = col /\ f = 0
      /\ p # 0 => stripeIdx(c, a) = (((n - p + f) % n) + p + col) % n
  BY DEF stripeIdx, First
<1> HIDE DEF n, p, D, nr, off, row, col, f
<1>7. stripeIdx(c, a) = (f + col) % n
  <2>1. CASE p = 0
    <3>1. col \in 0 .. 2 * n - 1 /\ col < n /\ f + col = col
      BY <1>1, <1>4, <1>6, <2>1
    <3>2. col % n = col
      BY <1>1, <3>1, Around, Zenon
    <3> QED
      BY <1>6, <2>1, <3>1, <3>2
  <2>2. CASE p # 0
    <3> DEFINE u == n - p + f
               v == u % n
               w == v + p + col
               x == f + col
    <3>1. u \in 0 .. 2 * n - 1 /\ x \in 0 .. 2 * n - 1
      BY <1>1, <1>4, <1>5
    <3>2. (u < n => v = u) /\ (~(u < n) => v = u - n)
      <4> HIDE DEF u
      <4> QED
        BY <1>1, <3>1, Around, Zenon
    <3>3. w \in 0 .. 2 * n - 1 /\ (u < n => w = x + n) /\ (~(u < n) => w = x)
      <4> HIDE DEF v
      <4> QED
        BY <1>1, <1>4, <1>5, <3>1, <3>2
    <3> HIDE DEF u, v, w, x
    <3>4. /\ (w < n => w % n = w) /\ (~(w < n) => w % n = w - n)
          /\ (x < n => x % n = x) /\ (~(x < n) => x % n = x - n)
      BY <1>1, <3>1, <3>3, Around, Zenon
    <3>5. w % n = x % n
      BY <1>1, <3>1, <3>3, <3>4
    <3> QED
      BY <1>6, <2>2, <3>5 DEF u, v, w, x
  <2> QED
    BY <2>1, <2>2
<1>8. nr = row * D + col
  BY <1>1, <1>4
<1>9. a = c.log + nr * c.stripeLen + off
  BY <1>1, <1>3
<1> QED
  BY <1>3, <1>4, <1>7, <1>8, <1>9 DEF n, p, D, nr, off, row, col, f

\* A place is in the chunk, and in the stripe, if its row is.
LEMMA RowBound ==
  ASSUME NEW L \in Nat \ {0}, NEW D \in Nat \ {0}, NEW R \in Nat,
         NEW row \in Nat, NEW k \in 0 .. D - 1, NEW in \in 0 .. L - 1
  PROVE  /\ L * row + in < L * R <=> row < R
         /\ (row * D + k) * L + in < L * R * D <=> row < R
<1> DEFINE x == row * D + k
           y == D * R
<1>1. x \in Nat /\ y \in Nat /\ row * D = D * row /\ D * row \in Nat /\ L * row \in Nat /\ L * R \in Nat
  OBVIOUS
<1>2. L * R * D = L * y /\ x * L = L * x /\ L * x \in Nat /\ L * y \in Nat
  OBVIOUS
<1>3. ASSUME row < R PROVE L * row + in < L * R /\ L * x + in < L * y
  <2>1. L * row + L <= L * R /\ D * row + D <= D * R
    BY <1>3, StepOfProduct
  <2>2. x < y
    BY <1>1, <2>1, SMTT(30)
  <2> HIDE DEF x, y
  <2>3. L * x + L <= L * y
    BY <1>1, <2>2, StepOfProduct, SMTT(30)
  <2> QED
    BY <1>1, <1>2, <2>1, <2>3
<1>4. ASSUME R <= row PROVE L * R <= L * row + in /\ L * y <= L * x + in
  <2>1. R = row \/ R < row
    BY <1>4
  <2>2. L * R <= L * row /\ D * R <= D * row
    <3>1. CASE R = row
      BY <1>1, <3>1
    <3>2. CASE R < row
      <4>1. L * R + L <= L * row /\ D * R + D <= D * row
        BY <3>2, StepOfProduct
      <4> QED
        BY <1>1, <4>1
    <3> QED
      BY <2>1, <3>1, <3>2
  <2>3. y <= x
    BY <1>1, <2>2
  <2> HIDE DEF x, y
  <2>4. L * y <= L * x
    <3>1. CASE y = x
      BY <1>2, <3>1
    <3>2. CASE y < x
      <4>1. L * y + L <= L * x
        BY <1>1, <3>2, StepOfProduct
      <4> QED
        BY <1>2, <4>1
    <3> QED
      BY <1>1, <2>3, <3>1, <3>2
  <2> QED
    BY <1>1, <1>2, <2>2, <2>4
<1> HIDE DEF y
<1>5. row < R \/ R <= row
  OBVIOUS
<1>6. x * L + in = L * x + in
  BY <1>2
<1> HIDE DEF x
<1>7. /\ L * row + in < L * R <=> row < R
      /\ L * x + in < L * y <=> row < R
  BY <1>1, <1>2, <1>3, <1>4, <1>5, SMTT(30)
<1> QED
  BY <1>2, <1>6, <1>7 DEF x

----------------------------------------------------------------------------
(* Routes and layout. *)

\* A stripe of a chunk in columns is a number of rows.
LEMMA ColumnRows ==
  ASSUME NEW c, InColumns(c), NEW u, LaidOut(c, u)
  PROVE  \E R \in Nat : StripeSize(c) = c.stripeLen * R /\ c.size = c.stripeLen * R * Columns(c)
<1>1. /\ Columns(c) \in Nat \ {0} /\ c.stripeLen \in Nat \ {0} /\ c.size \in Nat
      /\ ~Mirrored(c) /\ c.profile # "raid10"
  BY ColumnNumbers
<1>2. StripeSize(c) = c.size \div Columns(c)
  BY <1>1, Zenon DEF StripeSize
<1>3. StripeSize(c) \in Nat
  BY <1>1, <1>2, Euclid, SMTT(30)
<1>4. StripeSize(c) % c.stripeLen = 0 /\ c.size = StripeSize(c) * Columns(c)
  BY <1>1 DEF LaidOut
<1> DEFINE S == StripeSize(c)
           R == S \div c.stripeLen
<1> HIDE DEF S
<1>5. R \in Nat /\ S = c.stripeLen * R + (S % c.stripeLen)
  BY <1>1, <1>3, Euclid, Zenon DEF S
<1>6. S % c.stripeLen = 0 /\ c.size = S * Columns(c)
  BY <1>4 DEF S
<1> HIDE DEF R
<1>7. S = c.stripeLen * R
  BY <1>1, <1>5, <1>6
<1> QED
  BY <1>5, <1>6, <1>7 DEF S

\* The route of a read of a chunk in columns leads to the address.
LEMMA StripedSound ==
  ASSUME NEW c, InColumns(c), NEW u, LaidOut(c, u), NEW a, InChunk(c, a)
  PROVE  Holds(c, stripeIdx(c, a) + 1,
               (stripeNr(c, a) \div Columns(c)) * c.stripeLen + stripeOff(c, a), a)
<1> DEFINE row == stripeNr(c, a) \div Columns(c)
           col == stripeNr(c, a) % Columns(c)
           off == stripeOff(c, a)
           n == Len(c.stripes)
           L == c.stripeLen
           D == Columns(c)
<1>1. /\ n \in Nat \ {0} /\ Columns(c) \in 1 .. n /\ Columns(c) \in Nat \ {0}
      /\ c.stripeLen \in Nat \ {0} /\ c.log \in Nat /\ c.size \in Nat
      /\ DOMAIN c.stripes = 1 .. n
  BY ColumnNumbers, StripesIndexed, Zenon
<1>2. a \in Nat /\ c.log <= a /\ a < c.log + c.size
  BY <1>1, SMTT(30) DEF InChunk
<1>3. /\ row \in Nat /\ col \in 0 .. Columns(c) - 1 /\ off \in 0 .. c.stripeLen - 1
      /\ a = c.log + (row * Columns(c) + col) * c.stripeLen + off
      /\ stripeIdx(c, a) = (First(c, row) + col) % n
  BY <1>2, IndexOfStripe, SMTT(30)
<1>4. PICK R \in Nat : StripeSize(c) = c.stripeLen * R /\ c.size = c.stripeLen * R * Columns(c)
  BY ColumnRows
<1>a. /\ L \in Nat \ {0} /\ D \in Nat \ {0} /\ col \in 0 .. D - 1 /\ off \in 0 .. L - 1
      /\ a = c.log + (row * D + col) * L + off
      /\ StripeSize(c) = L * R /\ c.size = L * R * D
  BY <1>1, <1>3, <1>4, Zenon
<1> HIDE DEF row, col, off, n, L, D
<1>5. row < R
  <2>1. (row * D + col) * L \in Nat
    BY <1>3, <1>a
  <2> DEFINE before == (row * D + col) * L
             whole == L * R * D
  <2>2. a = c.log + before + off /\ c.size = whole
    BY <1>a, Zenon
  <2>3. off \in Int /\ before \in Nat
    BY <1>a, <2>1, SMTT(30)
  <2> HIDE DEF before, whole
  <2>4. before + off < whole
    BY <1>1, <1>2, <2>2, <2>3, SMTT(30)
  <2> QED
    BY <1>3, <1>a, <2>4, RowBound, SMTT(30) DEF before, whole
<1>6. L * row + off \in 0 .. StripeSize(c) - 1
  <2>1. L * row + off < L * R
    BY <1>3, <1>5, <1>a, RowBound, SMTT(30)
  <2>2. L * row + off \in Nat /\ L * R \in Nat
    BY <1>3, <1>a
  <2> QED
    BY <1>a, <2>1, <2>2
<1>7. col \in 0 .. n - 1 /\ ~(col >= Columns(c))
  <2>1. n \in Nat /\ Columns(c) \in 1 .. n /\ col \in 0 .. Columns(c) - 1
    BY <1>1, <1>3
  <2> QED
    BY <2>1, SMTT(30)
<1>8. Layout(c, stripeIdx(c, a), c.stripeLen * row + off) = DataAt(a, 0)
  BY <1>3, <1>7, LayoutOfColumn DEF n
<1>9. stripeIdx(c, a) \in 0 .. n - 1
  BY <1>1, <1>3, <1>7, FirstIsColumn, Rotation, ZenonT(40) DEF n
<1>10. stripeIdx(c, a) + 1 \in DOMAIN c.stripes /\ (stripeIdx(c, a) + 1) - 1 = stripeIdx(c, a)
  BY <1>1, <1>9
<1>11. row * c.stripeLen = c.stripeLen * row
  BY <1>3, <1>a, SMTT(30) DEF L
<1>12. Holds(c, stripeIdx(c, a) + 1, c.stripeLen * row + off, a)
  BY <1>6, <1>8, <1>10 DEF Holds, L
<1> QED
  BY <1>11, <1>12, SMTT(30) DEF row, off

\* An address is made of its row, its column and the place in the stripe.
Place(log, L, D, row, k, in) == log + (row * D + k) * L + in

IsPlace(log, L, D, row, k, in, a) ==
  /\ L \in Nat \ {0} /\ D \in Nat \ {0} /\ log \in Nat
  /\ row \in Nat /\ k \in 0 .. D - 1 /\ in \in 0 .. L - 1 /\ a = Place(log, L, D, row, k, in)

FoundAgain(log, L, D, row, k, in, a) ==
  /\ a \in Nat /\ log <= a
  /\ (a - log) \div L = row * D + k /\ (a - log) % L = in
  /\ (row * D + k) \div D = row /\ (row * D + k) % D = k
  /\ \A R \in Nat : row < R => a \in log .. log + L * R * D - 1

\* Row, column and place are found again from the address.
LEMMA PlaceOf ==
  \A log, L, D, row, k, in, a :
    IsPlace(log, L, D, row, k, in, a) => FoundAgain(log, L, D, row, k, in, a)
<1> SUFFICES ASSUME NEW log, NEW L, NEW D, NEW row, NEW k, NEW in, NEW a,
                    IsPlace(log, L, D, row, k, in, a)
             PROVE  FoundAgain(log, L, D, row, k, in, a)
  OBVIOUS
<1> USE DEF IsPlace
<1> DEFINE x == row * D + k
<1>1. x \in Nat /\ x = D * row + k
  OBVIOUS
<1>2. x \div D = row /\ x % D = k
  BY <1>1, DivisionUnique
<1>3. a = log + x * L + in
  BY DEF Place
<1> HIDE DEF x
<1>5. x * L \in Nat /\ L * x = x * L
  BY <1>1
<1>6. a \in Nat /\ log <= a /\ a - log = L * x + in
  BY <1>3, <1>5
<1>7. (a - log) \div L = x /\ (a - log) % L = in
  <2>1. L \in Nat \ {0} /\ in \in 0 .. L - 1
    OBVIOUS
  <2>2. (L * x + in) \div L = x /\ (L * x + in) % L = in
    BY ONLY <1>1, <2>1, DivisionUnique, Zenon
  <2> QED
    BY ONLY <1>6, <2>2
<1>8. ASSUME NEW R \in Nat, row < R PROVE a \in log .. log + L * R * D - 1
  <2> DEFINE z == L * R * D
  <2>1. z \in Nat
    OBVIOUS
  <2>2. x * L + in < z
    BY <1>8, RowBound DEF x
  <2> HIDE DEF z
  <2>3. a \in log .. log + z - 1
    BY <1>3, <1>5, <1>6, <2>1, <2>2, SMTT(30)
  <2> QED
    BY <2>3 DEF z
<1> QED
  BY <1>2, <1>6, <1>7, <1>8 DEF x, FoundAgain

\* Only the route of a read of a chunk in columns leads to the address.
LEMMA StripedComplete ==
  ASSUME NEW c, InColumns(c), NEW u, LaidOut(c, u), NEW a, NEW i, NEW o, Holds(c, i, o, a)
  PROVE  /\ a \in Nat /\ InChunk(c, a) /\ i = stripeIdx(c, a) + 1
         /\ o = (stripeNr(c, a) \div Columns(c)) * c.stripeLen + stripeOff(c, a)
<1> DEFINE n == Len(c.stripes)
           L == c.stripeLen
           D == Columns(c)
           row == o \div L
           in == o % L
<1>1. /\ n \in Nat \ {0} /\ D \in 1 .. n /\ D \in Nat \ {0}
      /\ L \in Nat \ {0} /\ c.log \in Nat /\ c.size \in Nat
      /\ DOMAIN c.stripes = 1 .. n
  BY ColumnNumbers, StripesIndexed, Zenon
<1>2. PICK R \in Nat : StripeSize(c) = L * R /\ c.size = L * R * D
  BY ColumnRows, SMTT(30)
<1>3. i \in 1 .. n /\ o \in Nat /\ o < L * R /\ Layout(c, i - 1, o) = DataAt(a, 0)
  <2>1. L * R \in Nat
    BY <1>1
  <2> QED
    BY <1>1, <1>2, <2>1, SMTT(30) DEF Holds
<1>4. row \in Nat /\ in \in 0 .. L - 1 /\ o = L * row + in
  <2> HIDE DEF L
  <2> QED
    BY <1>1, <1>3, Euclid, Zenon
<1> HIDE DEF row, in
<1>5. PICK k \in 0 .. n - 1 : (First(c, row) + k) % n = i - 1
  <2>a. First(c, row) \in 0 .. n - 1
    BY <1>4, FirstIsColumn, SMTT(30)
  <2> HIDE DEF n
  <2>1. i - 1 \in 0 .. n - 1 /\ First(c, row) \in 0 .. n - 1
    BY <1>1, <1>3, <2>a, SMTT(30)
  <2> DEFINE j == i - 1
             f == First(c, row)
  <2>2. j \in 0 .. n - 1 /\ f \in 0 .. n - 1
    BY <2>1
  <2> HIDE DEF j, f
  <2>3. \E k \in 0 .. n - 1 : (f + k) % n = j
    BY <1>1, <2>2, RotationOnto, Zenon
  <2> QED
    BY <2>3 DEF j, f
<1>6. DataAt(a, 0) = IF k >= D THEN Parity ELSE DataAt(c.log + (row * D + k) * L + in, 0)
  <2>1. Layout(c, (First(c, row) + k) % n, L * row + in)
          = IF k >= D THEN Parity ELSE DataAt(c.log + (row * D + k) * L + in, 0)
    BY <1>4, LayoutOfColumn
  <2> QED
    BY <1>3, <1>4, <1>5, <2>1, SMTT(30)
<1>7. ~(k >= D) /\ a = c.log + (row * D + k) * L + in
  <2>1. \A x : DataAt(x, 0).kind = "data" /\ DataAt(x, 0).at = x /\ Parity.kind = "parity"
    BY DEF DataAt, Parity, Nothing
  <2> HIDE DEF L, D
  <2> QED
    BY <1>6, <2>1
<1>8. k \in 0 .. D - 1
  BY <1>1, <1>7, SMTT(30)
<1>9. row < R
  <2> HIDE DEF L, D
  <2> QED
    BY <1>1, <1>3, <1>4, <1>8, RowBound
<1> HIDE DEF L, D
<1>10. /\ a \in Nat /\ c.log <= a
       /\ (a - c.log) \div L = row * D + k /\ (a - c.log) % L = in
       /\ (row * D + k) \div D = row /\ (row * D + k) % D = k
       /\ a \in c.log .. c.log + L * R * D - 1
  <2> DEFINE log == c.log
  <2>1. IsPlace(log, L, D, row, k, in, a)
    BY <1>1, <1>4, <1>7, <1>8 DEF Place, IsPlace
  <2> HIDE DEF log
  <2>2. FoundAgain(log, L, D, row, k, in, a)
    BY <2>1, PlaceOf
  <2> QED
    BY <1>9, <2>2, Zenon DEF log, FoundAgain
<1>11. stripeNr(c, a) \div D = row /\ stripeNr(c, a) % D = k /\ stripeOff(c, a) = in
  BY <1>10, SMTT(30) DEF stripeNr, stripeOff, L
<1>12. stripeIdx(c, a) = (First(c, row) + k) % n
  BY <1>10, <1>11, IndexOfStripe, SMTT(30) DEF D
<1>13. InChunk(c, a)
  BY <1>2, <1>10, SMTT(30) DEF InChunk
<1>14. o = row * L + in
  BY <1>1, <1>4
<1>15. i = stripeIdx(c, a) + 1
  BY <1>3, <1>5, <1>12, SMTT(30)
<1> QED
  BY <1>10, <1>11, <1>13, <1>14, <1>15, SMTT(30) DEF L, D

\* Inside a stripe the address and the offset move together.
LEMMA WithinStripe ==
  ASSUME NEW c \in Chunks, NEW a \in Nat, c.log <= a,
         NEW h \in Nat, h < c.stripeLen - stripeOff(c, a)
  PROVE  stripeNr(c, a + h) = stripeNr(c, a) /\ stripeOff(c, a + h) = stripeOff(c, a) + h
<1> DEFINE L == c.stripeLen
           x == a - c.log
           q == x \div L
           m == x % L
<1>1. L \in Nat \ {0} /\ c.log \in Nat /\ x \in Nat
  BY DEF Chunks
<1>2. q \in Nat /\ m \in 0 .. L - 1 /\ x = L * q + m
  <2> HIDE DEF L, x
  <2> QED
    BY <1>1, Euclid, Zenon
<1>3. h < L - m /\ (a + h) - c.log = x + h
  BY <1>1 DEF stripeOff, Chunks
<1>4. stripeNr(c, a) = q /\ stripeOff(c, a) = m
  BY DEF stripeNr, stripeOff
<1>5. stripeNr(c, a + h) = (x + h) \div L /\ stripeOff(c, a + h) = (x + h) % L
  <2>1. /\ stripeNr(c, a + h) = ((a + h) - c.log) \div L
        /\ stripeOff(c, a + h) = ((a + h) - c.log) % L
    BY DEF stripeNr, stripeOff
  <2> DEFINE y == (a + h) - c.log
             z == x + h
  <2>2. y = z
    BY <1>3
  <2>3. stripeNr(c, a + h) = y \div L /\ stripeOff(c, a + h) = y % L
    BY <2>1
  <2> HIDE DEF y, z
  <2>4. stripeNr(c, a + h) = z \div L /\ stripeOff(c, a + h) = z % L
    BY <2>2, <2>3, Zenon
  <2> QED
    BY <2>4 DEF z
<1> HIDE DEF L, x, q, m
<1>6. m + h \in 0 .. L - 1 /\ x + h = L * q + (m + h)
  <2>1. L * q \in Nat
    BY <1>1, <1>2
  <2> QED
    BY <1>1, <1>2, <1>3, <2>1
<1> DEFINE r == m + h
<1> HIDE DEF r
<1>7. (L * q + r) \div L = q /\ (L * q + r) % L = r
  BY <1>1, <1>2, <1>6, DivisionUnique, Zenon DEF r
<1> QED
  BY <1>4, <1>5, <1>6, <1>7 DEF r
=============================================================================
