----------------------------- MODULE DevicePool -----------------------------
(***************************************************************************)
(* The way from a logical address to the bytes of a device: OpenFromDevices*)
(* (fs.go), the chunk map (superblock.go, chunk.go), the routing of reads  *)
(* over the devices of a pool (multidev.go) and the writes of the one      *)
(* device that can be written (physToLog and physFromLog of btree_write.go,*)
(* physAddr of superblock.go).                                             *)
(*                                                                         *)
(* Addresses and device offsets are counted in units.  A device holds what *)
(* the layout of each profile puts there (Layout), stated from the side of *)
(* the device; the reads compute the way there from the side of the        *)
(* address, with the arithmetic of the code.  A device may miss from the   *)
(* pool, and a device read may fail.                                       *)
(***************************************************************************)
EXTENDS Naturals, Sequences, FiniteSets, FiniteSetsExt

CONSTANTS
  Images,       \* file systems: their chunks, and the lists of devices they are opened with
  StripeLen,    \* btrfsStripeLen
  Lengths,      \* the lengths of the reads
  MaxWrites,    \* bound: the writes
  MaxFaults     \* bound: the device reads that fail

\* A chunk is where it starts, how long it is, its profile, its stripe_len and
\* sub_stripes, and its stripes; a stripe is a device and an offset there.  "other"
\* is a combination of profile bits that the reads do not know.
Profiles == {"single", "dup", "raid1", "raid0", "raid5", "raid6", "raid10", "other"}
Stripes == [dev : Nat \ {0}, off : Nat \ {0}]
Chunks == [log : Nat \ {0}, size : Nat \ {0}, profile : Profiles, stripeLen : Nat \ {0},
           sub : Nat, stripes : Seq(Stripes)]
\* A device that is given to OpenFromDevices: which one it is, the devid in its
\* superblock, and whether that can be read.
Legs == [dev : Nat, devid : Nat, good : BOOLEAN]

VARIABLES
  image,        \* the file system, with the devices as given to OpenFromDevices
  store,        \* what the devices hold
  phase,        \* how far the file system is opened
  probed,       \* the devices whose superblock was read
  pool,         \* devicePool.devices: the device of each devid
  chunks,       \* sb.sysChunks
  closes,       \* how often each device was closed
  call,         \* the read on its way, or the last one
  written,      \* the version of each address that was written
  faults

vars == <<image, store, phase, probed, pool, chunks, closes, call, written, faults>>

Devices == DOMAIN image.list
devID == image.list[1].devid

----------------------------------------------------------------------------
(* What a device holds: the layout of the profiles.  Parity starts at the   *)
(* column before the first one and moves by one per row; the data of a row  *)
(* follows it, around the end.                                              *)

Nothing == [kind |-> "nothing", at |-> 0, version |-> 0]
Parity == [Nothing EXCEPT !.kind = "parity"]
Super == [Nothing EXCEPT !.kind = "super"]
DataAt(a, v) == [kind |-> "data", at |-> a, version |-> v]

Mirrored(c) == c.profile \in {"single", "dup", "raid1"}
nparity(c) == CASE c.profile = "raid5" -> 1 [] c.profile = "raid6" -> 2 [] OTHER -> 0
Columns(c) == Len(c.stripes) - nparity(c)
\* subStripes of readRAID10: a sub_stripes that is not set stands for 2.
subStripes(c) == IF c.sub < 2 THEN 2 ELSE c.sub
Groups(c) == Len(c.stripes) \div subStripes(c)

ParityColumns(c, row) ==
  LET n == Len(c.stripes) IN {(n - nparity(c) + row + k) % n : k \in 0 .. nparity(c) - 1}
\* How many data columns of the row come before column i, counted from the parity.
Rank(c, i, row) ==
  LET n     == Len(c.stripes)
      first == IF nparity(c) = 0 THEN 0 ELSE row % n
  IN  CHOOSE k \in 0 .. n - 1 : (first + k) % n = i

Layout(c, i, o) ==
  LET row  == o \div c.stripeLen
      in   == o % c.stripeLen
      nr   == IF c.profile = "raid10" THEN row * Groups(c) + i \div subStripes(c)
              ELSE row * Columns(c) + Rank(c, i, row)
      a    == IF Mirrored(c) THEN c.log + o ELSE c.log + nr * c.stripeLen + in
  IN  IF ~Mirrored(c) /\ i \in ParityColumns(c, row) THEN Parity ELSE DataAt(a, 0)

StripeSize(c) ==
  CASE Mirrored(c)          -> c.size
    [] c.profile = "raid10" -> c.size \div Groups(c)
    [] OTHER                -> c.size \div Columns(c)

\* The stripes of a file system that cover an offset of a device.
Covers(s, c, dev, o) == s.dev = dev /\ o >= s.off /\ o < s.off + StripeSize(c)
Covering(m, dev, o) ==
  UNION {{[chunk |-> c, column |-> i] :
            i \in {j \in DOMAIN c.stripes : Covers(c.stripes[j], c, dev, o)}} :
         c \in {m.chunks[k] : k \in DOMAIN m.chunks}}

StoreOf(m, leg) ==
  [o \in 0 .. m.units - 1 |->
     IF o = 0 THEN Super
     ELSE IF Covering(m, leg.dev, o) = {} THEN Nothing
     ELSE LET s == CHOOSE s \in Covering(m, leg.dev, o) : TRUE
          IN  Layout(s.chunk, s.column - 1, o - s.chunk.stripes[s.column].off)]

\* Stripes are whole rows, lie on the device and do not overlap; chunks do not
\* overlap either.
LaidOut(c, units) ==
  /\ Len(c.stripes) > nparity(c)
  /\ ~Mirrored(c) => /\ StripeSize(c) % c.stripeLen = 0
                     /\ c.size = StripeSize(c) * (IF c.profile = "raid10" THEN Groups(c)
                                                  ELSE Columns(c))
  /\ c.profile = "raid10" => Len(c.stripes) = Groups(c) * subStripes(c)
  /\ \A i \in DOMAIN c.stripes : c.stripes[i].off + StripeSize(c) <= units

Apart(m) ==
  /\ \A i, j \in DOMAIN m.chunks :
       i = j \/ m.chunks[i].log + m.chunks[i].size <= m.chunks[j].log
             \/ m.chunks[j].log + m.chunks[j].size <= m.chunks[i].log
  /\ \A l \in m.lists : \A d \in DOMAIN l : \A o \in 0 .. m.units - 1 :
       \A s, t \in Covering(m, l[d].dev, o) : s = t

\* A superblock without a devid is that of device 1, which is given once.
Identified(l) ==
  /\ Len(l) > 0
  /\ \A d \in DOMAIN l : l[d].good => l[d].devid \in {0, l[d].dev}
  /\ l[1].good /\ l[1].devid = 0 => l[1].dev = 1 /\ \A d \in DOMAIN l : l[d].devid # 1

WellFormed(m) ==
  /\ m.chunks \in Seq(Chunks) /\ m.boot \in 1 .. Len(m.chunks) /\ m.units \in Nat \ {0}
  /\ \A i \in DOMAIN m.chunks : LaidOut(m.chunks[i], m.units)
  /\ \E i \in DOMAIN m.chunks :
       m.root \in m.chunks[i].log .. m.chunks[i].log + m.chunks[i].size - 1
  /\ Apart(m)
  /\ \A l \in m.lists : l \in Seq(Legs) /\ Identified(l)

\* The file systems that are written are those of Format: one device, on which an
\* address is the offset.
Formatted(m) ==
  \A l \in m.lists :
    Len(l) = 1 /\ (\A i \in DOMAIN m.chunks : m.chunks[i].profile = "single") =>
      \A i \in DOMAIN m.chunks :
        m.chunks[i].stripes = <<[dev |-> l[1].dev, off |-> m.chunks[i].log]>>

ASSUME PoolAssumption ==
  /\ StripeLen \in Nat \ {0} /\ Lengths \subseteq Nat \ {0}
  /\ MaxWrites \in Nat /\ MaxFaults \in Nat
  /\ \A m \in Images : WellFormed(m)

----------------------------------------------------------------------------
(* The chunk map. *)

\* The stripe on the device that was opened, 0 if there is none; a superblock
\* without a devid stands for the device of the first stripe.
localStripe(c) ==
  LET mine == {i \in DOMAIN c.stripes : c.stripes[i].dev = devID}
  IN  IF devID = 0 THEN 1 ELSE IF mine = {} THEN 0 ELSE Min(mine)
physStart(c) == IF localStripe(c) = 0 THEN 0 ELSE c.stripes[localStripe(c)].off

hasChunkMapping(c) ==
  \E i \in DOMAIN chunks : /\ chunks[i].log = c.log /\ chunks[i].size = c.size
                           /\ physStart(chunks[i]) = physStart(c)

\* The chunks that hold an address; lookupChunk returns the first of them.
lookupChunk(a) ==
  {i \in DOMAIN chunks : a \in chunks[i].log .. chunks[i].log + chunks[i].size - 1}
chunkAt(a) == chunks[Min(lookupChunk(a))]

\* The first chunk whose local stripe holds the offset; without one, the offset.
physToLog(p) ==
  LET hit == {i \in DOMAIN chunks :
                p \in physStart(chunks[i]) .. physStart(chunks[i]) + chunks[i].size - 1}
      c   == chunks[Min(hit)]
  IN  IF hit = {} THEN p ELSE c.log + (p - physStart(c))

physFromLog(a) ==
  IF lookupChunk(a) = {} THEN a ELSE physStart(chunkAt(a)) + (a - chunkAt(a).log)

\* The address that is passed to ReadAt, and to WriteAt by the edits in place.
physAddr(a) == a

----------------------------------------------------------------------------
(* The route of a read: what is tried for an address, in this order. *)

Try(s, o) == [dev |-> s.dev, off |-> s.off + o]

\* A slip in Mirrors: only the copy on the opened device is read.
MirrorsLocal(c, a) ==
  IF localStripe(c) = 0 THEN <<>> ELSE <<Try(c.stripes[localStripe(c)], a - c.log)>>

\* The stripe that was opened first, then the others.
Mirrors(c, a) ==
  LET l        == localStripe(c)
      order(k) == IF l = 0 \/ k > l THEN k ELSE IF k = 1 THEN l ELSE k - 1
  IN  [k \in DOMAIN c.stripes |-> Try(c.stripes[order(k)], a - c.log)]

stripeNr(c, a) == (a - c.log) \div c.stripeLen
stripeOff(c, a) == (a - c.log) % c.stripeLen

\* A slip in stripeIdx: the parity stays in the last columns.
stripeIdxFixed(c, a) == stripeNr(c, a) % Columns(c)

\* readStriped: the column of a row, behind the parity.
stripeIdx(c, a) ==
  LET n              == Len(c.stripes)
      rowNr          == stripeNr(c, a) \div Columns(c)
      colInRow       == stripeNr(c, a) % Columns(c)
      parityStartCol == (n - nparity(c) + (rowNr % n)) % n
  IN  IF nparity(c) = 0 THEN colInRow ELSE (parityStartCol + nparity(c) + colInRow) % n

Striped(c, a) ==
  <<Try(c.stripes[stripeIdx(c, a) + 1],
        (stripeNr(c, a) \div Columns(c)) * c.stripeLen + stripeOff(c, a))>>

\* readRAID10: the legs of a group.
RAID10Legs(c, a) ==
  LET base == (stripeNr(c, a) % Groups(c)) * subStripes(c)
      o    == (stripeNr(c, a) \div Groups(c)) * c.stripeLen + stripeOff(c, a)
  IN  [leg \in 1 .. subStripes(c) |-> Try(c.stripes[base + leg], o)]

\* An unknown profile, checkStripeLen, and chunks with too few stripes.
Refused(c) ==
  ~Mirrored(c) /\ \/ c.profile = "other"
                  \/ c.stripeLen # StripeLen
                  \/ Len(c.stripes) <= nparity(c)
                  \/ c.profile = "raid10" /\ Len(c.stripes) < subStripes(c)

readFromChunk(c, a) ==
  IF Mirrored(c) THEN Mirrors(c, a)
  ELSE IF Refused(c) THEN <<>>
  ELSE IF c.profile = "raid10" THEN RAID10Legs(c, a)
  ELSE Striped(c, a)

\* How much one device read covers: a striped read ends with the stripe.
Piece(c, a, n) ==
  IF Mirrored(c) THEN n ELSE Min({n, c.stripeLen - stripeOff(c, a)})

\* ReadAt of the pool; an address without a chunk is an offset of the primary.
Mapped(a) == lookupChunk(a) # {}
Route(a) == IF Mapped(a) THEN readFromChunk(chunkAt(a), a) ELSE <<[dev |-> devID, off |-> a]>>
Covered(a, n) == IF Mapped(a) THEN Piece(chunkAt(a), a, n) ELSE n

\* The one whose turn it is.
Turn == Route(call.at)[call.tried + 1]

----------------------------------------------------------------------------
(* Opening and closing. *)

NoCall == [state |-> "none", from |-> 0, at |-> 0, left |-> 0, tried |-> 0,
           got |-> <<>>, failed |-> {}]
readAt(a, n) == [NoCall EXCEPT !.state = "reading", !.from = a, !.at = a, !.left = n]

Init ==
  /\ \E m \in Images : \E l \in m.lists :
       /\ image = [chunks |-> m.chunks, boot |-> m.boot, root |-> m.root, list |-> l]
       /\ store = [d \in DOMAIN l |-> StoreOf(m, l[d])]
  /\ phase = "new" /\ probed = 0 /\ pool = <<>> /\ chunks = <<>>
  /\ closes = [d \in Devices |-> 0]
  /\ call = NoCall /\ written = <<>> /\ faults = 0

\* A slip in poolClose: a device is closed for every devid it has.
poolCloseEach ==
  closes' = [d \in Devices |-> closes[d] + Cardinality({i \in DOMAIN pool : pool[i] = d})]

\* Every device once, also when it has two devids.
poolClose == closes' = [d \in Devices |->
                          IF \E i \in DOMAIN pool : pool[i] = d THEN closes[d] + 1 ELSE closes[d]]

\* The superblock of the primary, with the chunks of its sys_chunk_array.
readSuperblock ==
  /\ phase = "new"
  /\ probed' = 1
  /\ IF image.list[1].good
     THEN /\ pool' = [i \in {devID} \cup (IF devID = 0 THEN {1} ELSE {}) |-> 1]
          /\ chunks' = SubSeq(image.chunks, 1, image.boot)
          /\ phase' = "probing"
          /\ UNCHANGED closes
     ELSE /\ phase' = "failed"
          /\ closes' = [d \in Devices |-> 1]
          /\ UNCHANGED <<pool, chunks>>
  /\ UNCHANGED <<image, store, call, written, faults>>

\* A further device joins the pool; one that cannot ends the call.
addDevice ==
  /\ phase = "probing" /\ probed < Len(image.list)
  /\ probed' = probed + 1
  /\ LET leg == image.list[probed']
     IN  IF leg.good /\ leg.devid \notin {0, devID}
         THEN /\ pool' = [i \in DOMAIN pool \cup {leg.devid} |->
                            IF i = leg.devid THEN probed' ELSE pool[i]]
              /\ UNCHANGED <<phase, closes>>
         ELSE phase' = "failed" /\ poolClose /\ UNCHANGED pool
  /\ UNCHANGED <<image, store, chunks, call, written, faults>>

readChunkTree ==
  /\ phase = "probing" /\ probed = Len(image.list)
  /\ phase' = "loading" /\ call' = readAt(image.chunks[1].log, 1)
  /\ UNCHANGED <<image, store, probed, pool, chunks, closes, written, faults>>

\* The chunk tree lists all chunks, those of the sys_chunk_array again: the walk
\* appends the others, one after the other.
unmapped == {i \in DOMAIN image.chunks : ~hasChunkMapping(image.chunks[i])}

appendChunk ==
  /\ phase = "loading" /\ call.state = "ok"
  /\ \E i \in unmapped : /\ \A j \in unmapped : i <= j
                         /\ chunks' = Append(chunks, image.chunks[i])
  /\ UNCHANGED <<image, store, phase, probed, pool, closes, call, written, faults>>

loadChunkTree ==
  /\ phase = "loading" /\ call.state = "ok" /\ unmapped = {}
  /\ phase' = "resolving" /\ call' = readAt(image.root, 1)
  /\ UNCHANGED <<image, store, probed, pool, chunks, closes, written, faults>>

resolveRootTree ==
  /\ phase = "resolving" /\ call.state = "ok"
  /\ phase' = "reserving" /\ call' = readAt(image.root, 1)
  /\ UNCHANGED <<image, store, probed, pool, chunks, closes, written, faults>>

\* The walk over the FS tree that ends it; the errors of the walks before are
\* dropped.
buildSpaceManager ==
  /\ phase = "reserving" /\ call.state = "ok"
  /\ phase' = "open" /\ call' = NoCall
  /\ UNCHANGED <<image, store, probed, pool, chunks, closes, written, faults>>

openFails ==
  /\ phase \in {"loading", "resolving", "reserving"} /\ call.state = "error"
  /\ phase' = "failed" /\ poolClose
  /\ UNCHANGED <<image, store, probed, pool, chunks, call, written, faults>>

Ready == phase = "open" /\ call.state # "reading"

Close ==
  /\ Ready
  /\ phase' = "closed" /\ poolClose
  /\ UNCHANGED <<image, store, probed, pool, chunks, call, written, faults>>

----------------------------------------------------------------------------
(* Reading. *)

\* Only file systems of one device with one copy are written; the others are
\* opened to be read.
Writable ==
  /\ Ready /\ Len(image.list) = 1
  /\ \A i \in DOMAIN image.chunks : image.chunks[i].profile = "single"

\* What the allocator hands out: a run of units of the chunks, which coalesce
\* joins where chunks meet.
Allocatable(p, n) ==
  \A x \in p .. p + n - 1 : \E i \in DOMAIN chunks :
    x \in physStart(chunks[i]) .. physStart(chunks[i]) + chunks[i].size - 1

\* The callers read the superblock, and nodes and extents, which lie in one chunk
\* or, if writeExtent made them, in chunks that meet.
ReadAt(a, n) ==
  /\ Ready
  /\ \/ a = 0 /\ n = 1
     \/ Mapped(a) /\ a + n <= chunkAt(a).log + chunkAt(a).size
     \/ Writable /\ Mapped(a) /\ Allocatable(physFromLog(a), n)
  /\ call' = readAt(a, n)
  /\ UNCHANGED <<image, store, phase, probed, pool, chunks, closes, written, faults>>

\* A device that is not in the pool is passed over.
deviceMissing ==
  /\ call.state = "reading" /\ call.tried < Len(Route(call.at))
  /\ Turn.dev \notin DOMAIN pool
  /\ call' = [call EXCEPT !.tried = @ + 1]
  /\ UNCHANGED <<image, store, phase, probed, pool, chunks, closes, written, faults>>

Asked ==
  /\ call.state = "reading" /\ call.tried < Len(Route(call.at))
  /\ Turn.dev \in DOMAIN pool

\* A device read succeeds; what is left is read from the next stripe.
deviceRead ==
  /\ Asked
  /\ LET n == Covered(call.at, call.left)
     IN  call' = [call EXCEPT
           !.got = @ \o [k \in 1 .. n |-> store[pool[Turn.dev]][Turn.off + k - 1]],
           !.at = @ + n, !.left = @ - n, !.tried = 0,
           !.state = IF call.left = n THEN "ok" ELSE "reading"]
  /\ UNCHANGED <<image, store, phase, probed, pool, chunks, closes, written, faults>>

deviceFails ==
  /\ Asked
  /\ faults < MaxFaults /\ faults' = faults + 1
  /\ call' = [call EXCEPT !.tried = @ + 1, !.failed = @ \cup {<<pool[Turn.dev], Turn.off>>}]
  /\ UNCHANGED <<image, store, phase, probed, pool, chunks, closes, written>>

\* A slip in noDeviceLeft: the copies are tried again from the first.
noDeviceLeftRetries ==
  /\ call.state = "reading" /\ call.tried = Len(Route(call.at))
  /\ call' = [call EXCEPT !.tried = 0]
  /\ UNCHANGED <<image, store, phase, probed, pool, chunks, closes, written, faults>>

noDeviceLeft ==
  /\ call.state = "reading" /\ call.tried = Len(Route(call.at))
  /\ call' = [call EXCEPT !.state = "error"]
  /\ UNCHANGED <<image, store, phase, probed, pool, chunks, closes, written, faults>>

----------------------------------------------------------------------------
(* Writing: at an offset of the primary. *)

Version(a) == IF a \in DOMAIN written THEN written[a] ELSE 0
NextVersion == 1 + Max({0} \cup {written[a] : a \in DOMAIN written})

\* The addresses a .. a + n - 1 get a new version, at the offset o.
WriteAt(a, o, n) ==
  /\ NextVersion <= MaxWrites
  /\ written' = [x \in DOMAIN written \cup (a .. a + n - 1) |->
                   IF x \in a .. a + n - 1 THEN NextVersion ELSE written[x]]
  /\ store' = [store EXCEPT ![1] = [x \in DOMAIN @ |->
                 IF x \in o .. o + n - 1 THEN DataAt(a + (x - o), NextVersion) ELSE @[x]]]
  /\ call' = NoCall
  /\ UNCHANGED <<image, phase, probed, pool, chunks, closes, faults>>

\* A node in a new block.
writeCowNode(p) ==
  Writable /\ Allocatable(p, 1) /\ WriteAt(physToLog(p), physFromLog(physToLog(p)), 1)

\* An extent; the item of the file has the address of its first unit.
writeExtent(p, n) == Writable /\ Allocatable(p, n) /\ WriteAt(physToLog(p), p, n)

\* A node in its place: the ROOT_ITEMs, the extent tree, the records of a resize.
writeInPlace(a) == Writable /\ Mapped(a) /\ WriteAt(a, physAddr(a), 1)

Addresses == UNION {image.chunks[i].log .. image.chunks[i].log + image.chunks[i].size - 1 :
                      i \in DOMAIN image.chunks}

Opening == readSuperblock \/ addDevice \/ readChunkTree \/ appendChunk
             \/ loadChunkTree \/ resolveRootTree \/ buildSpaceManager \/ openFails
Reading == deviceMissing \/ deviceRead \/ deviceFails \/ noDeviceLeft

Next ==
  \/ Opening \/ Reading \/ Close
  \/ \E a \in {0} \cup Addresses, n \in Lengths : ReadAt(a, n)
  \/ \E p \in DOMAIN store[1] : writeCowNode(p) \/ \E n \in Lengths : writeExtent(p, n)
  \/ \E a \in Addresses : writeInPlace(a)

\* An open or a read goes on in its goroutine until it returns.
Spec == Init /\ [][Next]_vars /\ WF_vars(Opening \/ Reading)

----------------------------------------------------------------------------
(* Properties. *)

Expected(a) == IF a = 0 THEN Super ELSE DataAt(a, Version(a))

\* The pool holds devices whose superblock was read, and a read returns as many units
\* as it has moved on.
TypeOK ==
  /\ phase \in {"new", "probing", "loading", "resolving", "reserving", "open", "failed",
               "closed"}
  /\ probed \in 0 .. Len(image.list) /\ \A i \in DOMAIN pool : pool[i] \in 1 .. probed
  /\ call.state \in {"none", "reading", "ok", "error"} /\ call.left \in Nat
  /\ Len(call.got) = call.at - call.from
  /\ DOMAIN closes = Devices

\* A read that succeeds returns, unit by unit, what was last stored at the
\* addresses: in every profile, over the ends of stripes and rows, whichever
\* devices are missing or fail, and after every write.
ReadsAreRight ==
  call.state = "ok" =>
    call.got = [k \in 1 .. call.at - call.from |-> Expected(call.from + k - 1)]

\* A read fails only if each copy of a unit that is in the pool was tried and could
\* not be read.  So one device is enough for the profiles with copies.
ErrorMeansNoCopy ==
  call.state = "error" /\ Mapped(call.at) /\ ~Refused(chunkAt(call.at)) =>
    \A i \in DOMAIN pool : \A o \in DOMAIN store[pool[i]] :
      store[pool[i]][o].kind = "data" /\ store[pool[i]][o].at = call.at =>
        <<pool[i], o>> \in call.failed

\* No device is closed twice, and none of the pool stays open once the file system
\* is closed or could not be opened.  (A secondary whose place in the pool a later
\* one of the same devid takes is in it no longer, and is never closed.)
PoolClosedOnce ==
  TypeOK /\ \A d \in Devices :
    /\ closes[d] <= 1
    /\ phase \in {"failed", "closed"} /\ (\E i \in DOMAIN pool : pool[i] = d) => closes[d] = 1

\* When OpenFromDevices fails every device it was given is closed.
FailedOpenClosesAll == phase = "failed" => \A d \in Devices : closes[d] = 1

\* An open and a read return.
CallsReturn ==
  /\ phase = "new" ~> phase \in {"open", "failed"}
  /\ call.state = "reading" ~> call.state \in {"ok", "error"}
=============================================================================
