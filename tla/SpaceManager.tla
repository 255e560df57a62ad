---------------------------- MODULE SpaceManager ----------------------------
(***************************************************************************)
(* The free-extent list of alloc.go: an ordered list of physical ranges    *)
(* from which the copy-on-write tree code takes node blocks and the file   *)
(* code takes data extents.                                                *)
(*                                                                         *)
(* freeExts is sm.freeExts, in the order of the slice: allocation is first *)
(* fit (or largest fit) along that order.  remaining is the local variable *)
(* of a writeExtents call in its multi-extent loop, between whose rounds   *)
(* the tree code allocates and frees node blocks.  live and leaked are not *)
(* kept by the code: live holds the ranges the trees of the image          *)
(* reference, leaked those taken for an operation that then failed and did *)
(* not give them back.                                                     *)
(*                                                                         *)
(* Addresses and sizes count units smaller than a sector, so that the      *)
(* rounding of sizes to sectors is part of the model.                      *)
(***************************************************************************)
EXTENDS Naturals, Sequences, SequencesExt, FiniteSetsExt, TLC

CONSTANTS
  NodeSize,     \* sb.nodeSize
  SectorSize,   \* sb.sectorSize
  Chunks,       \* sb.sysChunks, in the order of the slice
  Fixed,        \* the superblock copies and the range at address 0
  Formatted,    \* the node blocks of the trees of a fresh image
  MaxWrite      \* bound: the largest file body

VARIABLES freeExts, live, leaked, remaining

vars == <<freeExts, live, leaked, remaining>>

Extent(start, size) == [physStart |-> start, size |-> size]
End(fe) == fe.physStart + fe.size
Units(fe) == fe.physStart .. End(fe) - 1
UnitsOf(S) == UNION {Units(fe) : fe \in S}
Overlap(d, e) == Units(d) \cap Units(e) # {}
Aligned(fe) == fe.physStart % SectorSize = 0 /\ fe.size % SectorSize = 0
RoundUp(n) == ((n + SectorSize - 1) \div SectorSize) * SectorSize
RoundDown(n) == (n \div SectorSize) * SectorSize

\* A chunk that holds nothing but the chunk tree is never handed out.
SystemOnly(c) ==
  "system" \in c.profile /\ c.profile \cap {"data", "metadata"} = {}

Seeded == LET s == SelectSeq(Chunks, LAMBDA c : ~SystemOnly(c))
          IN [i \in DOMAIN s |-> Extent(s[i].physStart, s[i].size)]

\* The units that can be handed out.
Usable == UnitsOf(ToSet(Seeded)) \ UnitsOf(Fixed)

ASSUME GeometryAssumption ==
  /\ NodeSize \in Nat \ {0} /\ SectorSize \in Nat \ {0} /\ MaxWrite \in Nat
  /\ NodeSize % SectorSize = 0
  /\ \A e \in ToSet(Chunks) \cup Fixed \cup Formatted : Aligned(e) /\ e.size > 0
  /\ \A i, j \in DOMAIN Chunks : i # j => ~Overlap(Chunks[i], Chunks[j])
  /\ UnitsOf(Formatted) \subseteq Usable

----------------------------------------------------------------------------
(* Operations on the list. *)

\* What is left of one free extent when [start, start + size) is cut out.
Cut(fe, start, size) ==
  LET left  == IF fe.physStart < start
               THEN <<Extent(fe.physStart, start - fe.physStart)>> ELSE <<>>
      right == IF End(fe) > start + size
               THEN <<Extent(start + size, End(fe) - (start + size))>> ELSE <<>>
  IN  IF start + size <= fe.physStart \/ start >= End(fe)
      THEN <<fe>> ELSE left \o right

remove(list, start, size) ==
  IF size = 0 THEN list
  ELSE FlattenSeq([i \in DOMAIN list |-> Cut(list[i], start, size)])

\* Each cut keeps the pieces in place, so the order of the cuts is immaterial.
removeAll(list, S) ==
  FoldSet(LAMBDA r, l : remove(l, r.physStart, r.size), list, S)

buildSpaceManager(referenced) == removeAll(Seeded, Fixed \cup referenced)

\* The first n units of the i-th free extent leave the list.
takeFront(list, i, n) ==
  IF list[i].size = n THEN RemoveAt(list, i)
  ELSE [list EXCEPT ![i] = Extent(@.physStart + n, @.size - n)]

Fits(list, n) == {i \in DOMAIN list : list[i].size >= n}

FirstFit(list, n) == Min(Fits(list, n))

\* The first of the largest free extents.
LargestFit(list) ==
  Min({i \in DOMAIN list : \A j \in DOMAIN list : list[j].size <= list[i].size})

\* How much allocDataBytesUpTo takes out of a largest extent of the given size.
UpToSize(best, maxSize) ==
  LET max == IF maxSize < SectorSize THEN SectorSize ELSE maxSize
  IN  IF best > max THEN RoundDown(max) ELSE best

merge(list) ==
  FoldLeft(LAMBDA merged, fe :
             IF merged # <<>> /\ End(Last(merged)) = fe.physStart
             THEN [merged EXCEPT ![Len(merged)].size = @ + fe.size]
             ELSE Append(merged, fe),
           <<>>, list)

\* A slip in coalesce: the list is merged in the order it has.
coalesceUnsorted(list) == merge(list)

coalesce(list) ==
  IF Len(list) < 2 THEN list
  ELSE merge(SortSeq(list, LAMBDA d, e : d.physStart < e.physStart))

freeRange(list, start, size) == coalesce(Append(list, Extent(start, size)))

----------------------------------------------------------------------------
\* The list and the extents in use have their types, and the loop never has less than
\* nothing left to write.
TypeOK ==
  /\ freeExts \in Seq([physStart : Nat, size : Nat])
  /\ live \subseteq [physStart : Nat, size : Nat]
  /\ leaked \subseteq [physStart : Nat, size : Nat]
  /\ remaining \in 0 .. MaxWrite

Init ==
  /\ live = Formatted
  /\ freeExts = buildSpaceManager(live)
  /\ leaked = {}
  /\ remaining = 0

\* An extent of n units is cut from the front of the i-th free extent.
TakeFrom(i, n) ==
  /\ freeExts' = takeFront(freeExts, i, n)
  /\ live' = live \cup {Extent(freeExts[i].physStart, n)}
  /\ UNCHANGED leaked

allocNodeBlock ==
  /\ Fits(freeExts, NodeSize) # {}
  /\ TakeFrom(FirstFit(freeExts, NodeSize), NodeSize)
  /\ UNCHANGED remaining

\* writeExtents with a body that is neither inline nor all zero: one extent
\* when one is large enough, the multi-extent loop otherwise.
allocDataBytes(size) ==
  /\ remaining = 0
  /\ Fits(freeExts, RoundUp(size)) # {}
  /\ TakeFrom(FirstFit(freeExts, RoundUp(size)), RoundUp(size))
  /\ UNCHANGED remaining

StartMultiExtent(size) ==
  /\ remaining = 0
  /\ Fits(freeExts, RoundUp(size)) = {}
  /\ remaining' = size
  /\ UNCHANGED <<freeExts, live, leaked>>

allocDataBytesUpTo ==
  /\ remaining > 0
  /\ Fits(freeExts, SectorSize) # {}
  /\ LET i == LargestFit(freeExts)
         n == UpToSize(freeExts[i].size, remaining)
     IN  /\ TakeFrom(i, n)
         /\ remaining' = IF n >= remaining THEN 0 ELSE remaining - n

\* A slip in the loop: it gives up when no node-sized extent is left.
NoSpaceRemainingForNode ==
  /\ remaining > 0
  /\ Fits(freeExts, NodeSize) = {}
  /\ remaining' = 0
  /\ UNCHANGED <<freeExts, live, leaked>>

\* No extent of a sector is left: the write returns its error.  The extents of
\* the earlier rounds are already in the tree.
NoSpaceRemaining ==
  /\ remaining > 0
  /\ Fits(freeExts, SectorSize) = {}
  /\ remaining' = 0
  /\ UNCHANGED <<freeExts, live, leaked>>

\* A slip in Free: one node block is given back whatever the size of the extent.
FreeNodeSized(e) ==
  /\ freeExts' = freeRange(freeExts, e.physStart, NodeSize)
  /\ live' = live \ {e}
  /\ UNCHANGED <<leaked, remaining>>

\* The tree code gives back a block it copied, the file code an extent whose
\* items it drops.
Free(e) ==
  /\ freeExts' = freeRange(freeExts, e.physStart, e.size)
  /\ live' = live \ {e}
  /\ UNCHANGED <<leaked, remaining>>

\* A range goes out of use without going back on the list: writeCowNode and
\* writeExtents return an error of WriteAt with the block still taken, and
\* truncateInode drops the items of extents past the new size.
Leak(e) ==
  /\ live' = live \ {e}
  /\ leaked' = leaked \cup {e}
  /\ remaining' = 0
  /\ UNCHANGED freeExts

Mount ==
  /\ freeExts' = buildSpaceManager(live)
  /\ leaked' = {}
  /\ remaining' = 0
  /\ UNCHANGED live

Next ==
  \/ allocNodeBlock
  \/ \E size \in 1 .. MaxWrite : allocDataBytes(size) \/ StartMultiExtent(size)
  \/ allocDataBytesUpTo
  \/ NoSpaceRemaining
  \/ \E e \in live : Free(e) \/ Leak(e)
  \/ Mount

Spec == Init /\ [][Next]_vars

----------------------------------------------------------------------------
\* The list stays a list of disjoint, non-empty, sector-aligned ranges in which
\* free space that is contiguous inside a chunk is one entry: a range that appears
\* twice would be handed to two owners by allocNodeBlock, and a first-fit search
\* that fails really found no run of that size.  The rest that the loop of
\* writeExtents has to write never falls below 0.
FreeListSound ==
  /\ TypeOK
  /\ \A i \in DOMAIN freeExts : freeExts[i].size > 0 /\ Aligned(freeExts[i])
  /\ \A i, j \in DOMAIN freeExts :
       /\ i # j => ~Overlap(freeExts[i], freeExts[j])
       /\ End(freeExts[i]) = freeExts[j].physStart =>
            \E c \in ToSet(Seeded) : c.physStart = freeExts[j].physStart

\* The multi-extent loop of writeExtents gives up only when no unit is free.
WriteFailsOnlyWhenFull == [][NoSpaceRemaining => freeExts = <<>>]_vars

FS == INSTANCE FreeSpace WITH
        Extents <- {s .. t : s, t \in Usable},
        free    <- UnitsOf(ToSet(freeExts)),
        live    <- {Units(e) : e \in live},
        leaked  <- {Units(e) : e \in leaked}

\* The list implements the set-level promise of FreeSpace, so that no unit has two
\* owners and nothing outside the seeded chunks or inside a superblock copy is
\* ever handed out (SpaceIsPartitioned in SpaceProofs).
ImplementsFreeSpace == FS!Init /\ [][FS!Next]_(FS!vars)
=============================================================================
