------------------------------- MODULE Commit -------------------------------
(***************************************************************************)
(* How a change becomes part of the image: updateFsTreeRoot of write.go    *)
(* and the rebuild of the EXTENT_TREE in extent_rebuild.go and             *)
(* extent_multilevel.go.  An operation copies nodes of the FS tree, then   *)
(* stores the new root of the FS tree in a copy of the ROOT_TREE, writes   *)
(* the EXTENT_TREE anew from the trees it finds, and last of all writes    *)
(* the superblock.  A block is free again as soon as it has been copied.   *)
(*                                                                         *)
(* A tree is its root node and the blocks below it (kids); the ROOT_TREE   *)
(* is one leaf.  The trees that never change are left out, and file data   *)
(* with them.  ver numbers the contents of the FS tree.                    *)
(***************************************************************************)
EXTENDS Naturals, FiniteSets, FiniteSetsExt

CONSTANTS
  Blocks,       \* the node blocks
  LeafCap,      \* the records of an extent leaf
  MaxKids,      \* bound: the FS tree below its root
  MaxVersion,   \* bound: the changes of the FS tree
  MaxFaults     \* bound: the writes that fail

ASSUME CommitAssumption ==
  /\ Blocks \subseteq Nat /\ IsFiniteSet(Blocks) /\ {1, 2, 3} \subseteq Blocks
  /\ LeafCap \in Nat /\ LeafCap >= 3
  /\ MaxKids \in Nat /\ MaxVersion \in Nat /\ MaxFaults \in Nat

VARIABLES
  disk,         \* the contents of the blocks
  super,        \* the ROOT_TREE address in the superblock of the image
  rootLogAddr,  \* sb.rootLogAddr
  fsTreeRoot,   \* fs.fsTreeRoot
  free,         \* the blocks on the free list
  pc,           \* how far the operation has come
  result,       \* what the last operation returned
  faults        \* how many writes have failed

vars == <<disk, super, rootLogAddr, fsTreeRoot, free, pc, result, faults>>

Fs(v, K) == [kind |-> "fs", ver |-> v, kids |-> K]
Root(f, e) == [kind |-> "root", fs |-> f, ext |-> e]
Ext(R, K) == [kind |-> "ext", recs |-> R, kids |-> K]
Below(kind) == [kind |-> kind]
Nodes == [kind : {"blank", "fsbelow", "extbelow"}]
         \cup [kind : {"fs"}, ver : 0 .. MaxVersion, kids : SUBSET Blocks]
         \cup [kind : {"root"}, fs : Blocks, ext : Blocks]
         \cup [kind : {"ext"}, recs : SUBSET Blocks, kids : SUBSET Blocks]

\* walkNodeAddrs: the blocks of the tree at b, as they are on the disk.
walkNodeAddrs(d, b) == {b} \cup IF d[b].kind \in {"fs", "ext"} THEN d[b].kids ELSE {}

\* The trees that the ROOT_TREE at r leads to, and the ROOT_TREE itself.
LiveBlocks(d, r) ==
  {r} \cup IF d[r].kind # "root" THEN {}
           ELSE walkNodeAddrs(d, d[r].fs) \cup walkNodeAddrs(d, d[r].ext)

\* First fit: the n lowest blocks of S.
Lowest(S, n) == {b \in S : Cardinality({c \in S : c < b}) < n}

Init ==
  /\ disk = [b \in Blocks |-> CASE b = 1 -> Root(2, 3)
                                [] b = 2 -> Fs(0, {})
                                [] b = 3 -> Ext({1, 2, 3}, {})
                                [] OTHER -> Below("blank")]
  /\ super = 1 /\ rootLogAddr = 1 /\ fsTreeRoot = 2
  /\ free = Blocks \ {1, 2, 3}
  /\ pc = "idle" /\ result = "ok" /\ faults = 0

Return(r) == pc' = "idle" /\ result' = r

----------------------------------------------------------------------------
(* The changes of the FS tree. *)

\* The root of the FS tree is copied; its new blocks come from the free list,
\* its old one and the ones that drop out of the tree go back.  The last block
\* to be written is the root, a new leaf comes before.
CowStep(grow, drop) ==
  LET old   == disk[fsTreeRoot]
      taken == Lowest(free, IF grow THEN 2 ELSE 1)
      top   == Max(taken)
      kids  == (old.kids \ drop) \cup (taken \ {top})
  IN  /\ pc \in {"idle", "mutating"}
      /\ Cardinality(taken) = (IF grow THEN 2 ELSE 1)
      /\ Cardinality(kids) <= MaxKids /\ old.ver < MaxVersion
      /\ disk' = [b \in Blocks |-> CASE b = top -> Fs(old.ver + 1, kids)
                                     [] b \in taken \ {top} -> Below("fsbelow")
                                     [] OTHER -> disk[b]]
      /\ fsTreeRoot' = top
      /\ free' = (free \ taken) \cup {fsTreeRoot} \cup drop
      /\ pc' = "mutating"
      /\ UNCHANGED <<super, rootLogAddr, result, faults>>

FsChange ==
  \E grow \in BOOLEAN : \E drop \in SUBSET disk[fsTreeRoot].kids :
    Cardinality(drop) <= 1 /\ ~(grow /\ drop # {}) /\ CowStep(grow, drop)

\* An operation that finds nothing to do, or must not, returns before any write.
Refuse ==
  /\ pc = "idle"
  /\ Return("error")
  /\ UNCHANGED <<disk, super, rootLogAddr, fsTreeRoot, free, faults>>

\* A node cannot be read, or a block had or written, and the operation returns
\* its error.  The copies made by its earlier steps stay.  Of the path that this
\* one was copying some blocks are taken, and some of these are written: none of
\* them is given back.  (A prefix delete that fails in a later pass gives the root
\* itself back: cowDeletePrefixFails of Session.)
CowFails ==
  \E taken \in {Lowest(free, n) : n \in 0 .. MaxKids + 1} :
    /\ pc \in {"idle", "mutating"}
    /\ faults' = IF taken = free THEN faults ELSE faults + 1
    /\ faults' <= MaxFaults
    /\ \E done \in {Lowest(taken, n) : n \in 0 .. MaxKids + 1} :
         disk' = [b \in Blocks |-> IF b \in done THEN Below("fsbelow") ELSE disk[b]]
    /\ free' = free \ taken
    /\ Return("error")
    /\ UNCHANGED <<super, rootLogAddr, fsTreeRoot>>

----------------------------------------------------------------------------
(* updateFsTreeRoot. *)

\* A slip in updateRootItem: the block of the copy stays on the free list.
updateRootItemKeepsFree ==
  LET b == Min(free)
  IN  /\ pc = "mutating"
      /\ free # {}
      /\ disk' = [disk EXCEPT ![b] = [disk[rootLogAddr] EXCEPT !.fs = fsTreeRoot]]
      /\ rootLogAddr' = b
      /\ free' = free \cup {rootLogAddr}
      /\ pc' = "rooted"
      /\ UNCHANGED <<super, fsTreeRoot, result, faults>>

\* The ROOT_ITEM of the FS tree is updated in a copy of the ROOT_TREE.
updateRootItem ==
  LET b == Min(free)
  IN  /\ pc = "mutating"
      /\ free # {}
      /\ disk' = [disk EXCEPT ![b] = [disk[rootLogAddr] EXCEPT !.fs = fsTreeRoot]]
      /\ rootLogAddr' = b
      /\ free' = (free \ {b}) \cup {rootLogAddr}
      /\ pc' = "rooted"
      /\ UNCHANGED <<super, fsTreeRoot, result, faults>>

\* The copy cannot be made: the error is dropped and the commit goes on.
updateRootItemFails ==
  /\ pc = "mutating"
  /\ free = {} \/ faults < MaxFaults
  /\ free' = free \ Lowest(free, 1)
  /\ faults' = IF free = {} THEN faults ELSE faults + 1
  /\ pc' = "rooted"
  /\ UNCHANGED <<disk, super, rootLogAddr, fsTreeRoot, result>>

extentTreeRoot == disk[rootLogAddr].ext

\* The records of the new tree and the blocks of the old one.
collected == LiveBlocks(disk, rootLogAddr)
oldExtent == walkNodeAddrs(disk, extentTreeRoot)

\* A slip in rebuildInPlace: the leaf is written with the records it had.
rebuildInPlaceStale ==
  /\ pc = "rooted"
  /\ Cardinality(collected) <= LeafCap
  /\ pc' = "rebuilt"
  /\ UNCHANGED <<disk, super, rootLogAddr, fsTreeRoot, free, result, faults>>

\* All records fit into one leaf, which is written over the old root.
rebuildInPlace ==
  /\ pc = "rooted"
  /\ Cardinality(collected) <= LeafCap
  /\ disk' = [disk EXCEPT ![extentTreeRoot] = Ext(collected, {})]
  /\ pc' = "rebuilt"
  /\ UNCHANGED <<super, rootLogAddr, fsTreeRoot, free, result, faults>>

\* One interior node indexes two leaves and more.
interiorShape(leaves) == IF leaves > 1 THEN 1 ELSE 0
partitionLeaves(n) == (n + LeafCap - 1) \div LeafCap

\* The fixpoint of buildMultiLevelExtentTree.  Each round allocates for the
\* number of leaves the last one came to, starting from one; more blocks never
\* need fewer leaves, so it ends at the smallest number that fits itself.
Layout(base) ==
  LET leaves == Min({n \in 1 .. Cardinality(Blocks) :
                       partitionLeaves(base + n + interiorShape(n)) <= n})
  IN  leaves + interiorShape(leaves)

baseRecs == collected \ oldExtent
reusable == free \cup oldExtent
blockCount == Layout(Cardinality(baseRecs))

\* The disk after n writes: the new nodes upwards, the root last, then the
\* ROOT_ITEM, which is repointed in place.
AfterWrites(n) ==
  LET new == Lowest(reusable, blockCount)
      top == Max(new)
  IN  [b \in Blocks |->
         CASE b = top /\ n >= blockCount -> Ext(baseRecs \cup new, new \ {top})
           [] b # top /\ b \in Lowest(new, n) -> Below("extbelow")
           [] b = rootLogAddr /\ n > blockCount -> [disk[b] EXCEPT !.ext = top]
           [] OTHER -> disk[b]]

\* The records do not fit: the blocks of the old tree are freed, and the new
\* tree is written to the lowest free blocks.
buildMultiLevelExtentTree ==
  /\ pc = "rooted"
  /\ Cardinality(collected) > LeafCap
  /\ Cardinality(reusable) >= blockCount
  /\ disk' = AfterWrites(blockCount + 1)
  /\ free' = reusable \ Lowest(reusable, blockCount)
  /\ pc' = "rebuilt"
  /\ UNCHANGED <<super, rootLogAddr, fsTreeRoot, result, faults>>

\* Too few blocks: the ones taken are not given back.
noRoomForExtents ==
  /\ pc = "rooted"
  /\ Cardinality(collected) > LeafCap
  /\ Cardinality(reusable) < blockCount
  /\ free' = {}
  /\ Return("rebuild")
  /\ UNCHANGED <<disk, super, rootLogAddr, fsTreeRoot, faults>>

\* A write of the rebuild fails: the leaf, or after it the ROOT_ITEM or the
\* bytes_used of the superblock.
rebuildInPlaceFails ==
  /\ pc = "rooted"
  /\ Cardinality(collected) <= LeafCap
  /\ faults < MaxFaults
  /\ disk' \in {disk, [disk EXCEPT ![extentTreeRoot] = Ext(collected, {})]}
  /\ faults' = faults + 1
  /\ Return("rebuild")
  /\ UNCHANGED <<super, rootLogAddr, fsTreeRoot, free>>

writeMultiLevelTreeFails ==
  /\ pc = "rooted"
  /\ Cardinality(collected) > LeafCap
  /\ Cardinality(reusable) >= blockCount
  /\ faults < MaxFaults
  /\ \E n \in 0 .. blockCount + 1 : disk' = AfterWrites(n)
  /\ free' = reusable \ Lowest(reusable, blockCount)
  /\ faults' = faults + 1
  /\ Return("rebuild")
  /\ UNCHANGED <<super, rootLogAddr, fsTreeRoot>>

\* A slip in writeSuperblock: the root address in the superblock is not changed.
writeSuperblockOldRoot ==
  /\ pc = "rebuilt"
  /\ Return("ok")
  /\ UNCHANGED <<disk, super, rootLogAddr, fsTreeRoot, free, faults>>

writeSuperblock ==
  /\ pc = "rebuilt"
  /\ super' = rootLogAddr
  /\ Return("ok")
  /\ UNCHANGED <<disk, rootLogAddr, fsTreeRoot, free, faults>>

writeSuperblockFails ==
  /\ pc = "rebuilt"
  /\ faults < MaxFaults
  /\ faults' = faults + 1
  /\ Return("error")
  /\ UNCHANGED <<disk, super, rootLogAddr, fsTreeRoot, free>>

\* The image is closed and opened again: the roots are read from the disk, and
\* what they do not reach is free.
Mountable ==
  /\ disk[super].kind = "root"
  /\ disk[disk[super].fs].kind = "fs"
  /\ \A b \in disk[disk[super].fs].kids : disk[b].kind = "fsbelow"

OpenFromDevices ==
  /\ pc = "idle"
  /\ Mountable
  /\ rootLogAddr' = super
  /\ fsTreeRoot' = disk[super].fs
  /\ free' = Blocks \ LiveBlocks(disk, super)
  /\ UNCHANGED <<disk, super, pc, result, faults>>

rebuildExtentTree ==
  \/ rebuildInPlace \/ rebuildInPlaceFails
  \/ buildMultiLevelExtentTree \/ noRoomForExtents \/ writeMultiLevelTreeFails

Next ==
  \/ FsChange \/ CowFails \/ Refuse
  \/ updateRootItem \/ updateRootItemFails
  \/ rebuildExtentTree
  \/ writeSuperblock \/ writeSuperblockFails
  \/ OpenFromDevices

Spec == Init /\ [][Next]_vars

----------------------------------------------------------------------------
(* Properties. *)

\* The trees, the free list and the superblock have their types.
TypeOK ==
  /\ disk \in [Blocks -> Nodes]
  /\ super \in Blocks /\ rootLogAddr \in Blocks /\ fsTreeRoot \in Blocks
  /\ free \subseteq Blocks
  /\ pc \in {"idle", "mutating", "rooted", "rebuilt"}
  /\ result \in {"ok", "error", "rebuild"}
  /\ faults \in 0 .. MaxFaults

\* When an operation has returned success, a mount of the image as it is finds
\* the FS tree that the operation made, also after operations before it that
\* failed while they copied the FS tree or wrote the superblock.
SuccessIsDurable ==
  pc = "idle" /\ result = "ok" => Mountable /\ disk[super].fs = fsTreeRoot

\* At every moment the trees in use are whole and apart: no block of one is free,
\* none belongs to two, and each still holds the node that was written to it.
TreesAreApart ==
  LET fs  == walkNodeAddrs(disk, fsTreeRoot)
      ext == walkNodeAddrs(disk, extentTreeRoot)
  IN  /\ TypeOK
      /\ disk[rootLogAddr].kind = "root"
      /\ disk[fsTreeRoot].kind = "fs"
      /\ disk[extentTreeRoot].kind = "ext"
      /\ \A b \in fs \ {fsTreeRoot} : disk[b].kind = "fsbelow"
      /\ \A b \in ext \ {extentTreeRoot} : disk[b].kind = "extbelow"
      /\ fs \cap ext = {} /\ rootLogAddr \notin fs \cup ext
      /\ (fs \cup ext \cup {rootLogAddr}) \cap free = {}

\* The EXTENT_TREE of a committed image has a record of every live block: a
\* block without one would be handed out by another implementation.
ExtentTreeCovers ==
  pc = "idle" /\ result = "ok" =>
    LiveBlocks(disk, super) \subseteq disk[disk[super].ext].recs

\* The EXTENT_TREE of a committed image describes the live blocks exactly.
ExtentTreeExact ==
  pc = "idle" /\ result = "ok" => disk[disk[super].ext].recs = LiveBlocks(disk, super)

\* After an error of the rebuild the image can be mounted.
RebuildErrorMountable == pc = "idle" /\ result = "rebuild" => Mountable

\* After an error of the rebuild the EXTENT_TREE that the ROOT_ITEM leads to is
\* in place: its nodes are there and none of their blocks is free.
RebuildErrorKeepsTree ==
  pc = "idle" /\ result = "rebuild" =>
    /\ disk[extentTreeRoot].kind = "ext"
    /\ \A b \in oldExtent \ {extentTreeRoot} : disk[b].kind = "extbelow"
    /\ oldExtent \cap free = {}
=============================================================================
