------------------------------- MODULE Resize -------------------------------
(***************************************************************************)
(* Growing and shrinking a file system: Grow and Shrink of resize.go, the  *)
(* relocation of what lives in the tail that is cut off (resize_reloc.go)  *)
(* and the removal of a whole trailing chunk (resize_chunk.go).            *)
(*                                                                         *)
(* The image is an array of units: a unit is a node block, and a sector.   *)
(* Logical and physical addresses are the same, as in every image this     *)
(* writer makes.  Unit 0 stands for the SYSTEM chunk with the superblock   *)
(* and the chunk tree.  The other chunks lie side by side behind it.  A    *)
(* unit holds a node (the FS tree and the extent tree are one leaf each,   *)
(* the dev tree one leaf or a leaf under a root, the root tree one leaf) or*)
(* a unit of a file.                                                       *)
(*                                                                         *)
(* A chunk has a size in six places: its CHUNK_ITEM, perhaps an entry of   *)
(* the sys_chunk_array, its DEV_EXTENT, its BLOCK_GROUP_ITEM, the map in   *)
(* memory, and implicitly in the free list and the total sizes.  A call    *)
(* holds fs.mu, but each of its steps may fail and leave the others done;  *)
(* a failure followed by a mount is also what a crash leaves.              *)
(***************************************************************************)
EXTENDS Naturals, Sequences, FiniteSets, FiniteSetsExt

CONSTANTS
  Layouts,      \* the images at the start
  Sizes,        \* the sizes asked for
  Reserved,     \* the unit of the superblock mirror, if the image is so large
  MaxUnits,     \* bound: the largest device
  MaxFiles,     \* bound: the files
  MaxCalls,     \* bound: the calls
  MaxFaults     \* bound: the steps that fail

\* Chunks do not overlap, and the last one ends where the device does.  A chunk
\* that is not there has the size 0.
Spaced(size, end) ==
  /\ \A s, t \in DOMAIN size :
       s # t /\ size[s] # 0 /\ size[t] # 0 => s + size[s] <= t \/ t + size[t] <= s
  /\ \A s \in DOMAIN size : size[s] # 0 => s + size[s] <= end
  /\ \E s \in DOMAIN size : size[s] # 0 /\ s + size[s] = end

ASSUME ResizeAssumption ==
  /\ MaxUnits \in Nat /\ Sizes \subseteq 1 .. MaxUnits
  /\ \A l \in Layouts : /\ l.size \in 1 .. MaxUnits
                        /\ DOMAIN l.chunk \subseteq Nat /\ l.chunk \in [DOMAIN l.chunk -> Nat]
                        /\ Spaced(l.chunk, l.size)

VARIABLES
  disk, dev,                  \* the device: its units and its size
  sb,                         \* the superblock: total_bytes and root
  devItem,                    \* total_bytes in the chunk tree's DEV_ITEM
  item, sys, devExt, group,   \* the records of the chunks, by where they start
  chunks, total,              \* sb.sysChunks and sb.totalBytes in memory
  rootLog, fsRoot, free,      \* sb.rootLogAddr, fsTreeRoot and the free list
  op,                         \* the call on its way
  cut,                        \* which part of a shrink was cut short, if any
  calls, faults

device == <<disk, dev, sb, devItem, item, sys, devExt, group>>
memory == <<chunks, total, rootLog, fsRoot, free>>
vars == <<device, memory, op, cut, calls, faults>>

Units == 0 .. MaxUnits - 1
Files == 1 .. MaxFiles

Hole == [kind |-> "none"]
RootLeaf(fs, ext, d) == [kind |-> "root", fs |-> fs, ext |-> ext, dev |-> d]
FsLeaf(files) == [kind |-> "fs", files |-> files]
Leaf(tree) == [kind |-> "leaf", tree |-> tree]
Inner(child) == [kind |-> "inner", child |-> child]
DataUnit(f, k) == [kind |-> "data", file |-> f, at |-> k]

\* A file is the item of its only extent: where it starts and how long it is.
Extent(x) == x.start .. x.start + x.len - 1
Span(c) == c.start .. c.start + c.size - 1
EndOf(c) == c.start + c.size

Idle == [kind |-> "none", stage |-> "none", size |-> 0, from |-> 0, to |-> 0,
         chunk |-> [start |-> 0, size |-> 0], todo |-> {}, moved |-> FALSE]

----------------------------------------------------------------------------
(* What is live, as the walks over the trees find it: a walk goes on from a *)
(* node that is what it should be.                                          *)

FilesAt(b, d) == IF d[b].kind = "fs" THEN d[b].files ELSE {}
Path(b, d) == IF d[b].kind = "inner" THEN {b, d[b].child} ELSE {b}
RootsAt(b, d) == IF d[b].kind = "root" THEN d[b] ELSE RootLeaf(0, 0, 0)

\* The node blocks of all trees but the extent tree's.
MetaBut(root, fs, d) == {root, fs} \cup Path(RootsAt(root, d).dev, d)
Meta(root, fs, d) == MetaBut(root, fs, d) \cup {RootsAt(root, d).ext}
DataOf(fs, d) == UNION {Extent(x) : x \in FilesAt(fs, d)}
Live(root, fs, d) == Meta(root, fs, d) \cup DataOf(fs, d)

\* A slip in Targets: an extent that only reaches into the tail is not seen.
TargetsByStart(from, to) == {x \in FilesAt(fsRoot, disk) : x.start \in from .. to - 1}

\* collectRelocTargets
Targets(from, to) ==
  {x \in FilesAt(fsRoot, disk) : Extent(x) \cap (from .. to - 1) # {}}

\* What the commit records: rebuildExtentTree counts from the ROOT_ITEMs.
Used(c, root, d) == Cardinality(Live(root, RootsAt(root, d).fs, d) \cap Span(c))
Groups(cs, root, d) ==
  [s \in DOMAIN group |->
     IF \E c \in cs : c.start = s
     THEN LET c == CHOOSE c \in cs : c.start = s
          IN  [len |-> c.size, used |-> Used(c, root, d)]
     ELSE [len |-> 0, used |-> 0]]

\* superblock.bytes_used, which the rebuild writes together with the groups.
bytesUsed == 1 + MapThenSumSet(LAMBDA s : group[s].used, DOMAIN group)

----------------------------------------------------------------------------
(* Free space: the first unit, or the first run that is long enough. *)

Fits(n, fr) == {s \in fr : s .. s + n - 1 \subseteq fr}

\* The tail chunk; a resize is refused unless it ends at the device size.
tailChunk == CHOOSE c \in chunks : \A x \in chunks : EndOf(x) <= EndOf(c)
tailChunkFound == EndOf(tailChunk) = total

\* buildSpaceManager, from the chunks a mount maps and the trees it reads.
FreeAt(cs, root, fs, d) ==
  (UNION {Span(c) : c \in cs}) \ (Live(root, fs, d) \cup Reserved)

\* parseSysChunkArray, then loadChunkTree, which skips what it has already.
Mapped == {[start |-> s, size |-> sys[s]] : s \in {t \in DOMAIN sys : sys[t] # 0}}
          \cup {[start |-> s, size |-> item[s]] : s \in {t \in DOMAIN item : item[t] # 0}}

----------------------------------------------------------------------------
(* The image at the start, mounted. *)

DiskOf(l) ==
  [u \in Units |->
     IF u = l.root THEN RootLeaf(l.fs, l.ext, l.dev[1])
     ELSE IF u = l.fs THEN FsLeaf(l.files)
     ELSE IF u = l.ext THEN Leaf("ext")
     ELSE IF u = l.dev[Len(l.dev)] THEN Leaf("dev")
     ELSE IF u = l.dev[1] THEN Inner(l.dev[2])
     ELSE IF \E x \in l.files : u \in Extent(x)
     THEN LET x == CHOOSE x \in l.files : u \in Extent(x)
          IN  DataUnit(x.file, u - x.start)
     ELSE Hole]

Init ==
  \E l \in Layouts :
    /\ disk = DiskOf(l) /\ dev = l.size
    /\ sb = [total |-> l.size, root |-> l.root] /\ devItem = l.size
    /\ item = l.chunk /\ devExt = l.chunk
    /\ sys = [s \in DOMAIN l.chunk |-> IF l.listed THEN l.chunk[s] ELSE 0]
    /\ chunks = {[start |-> s, size |-> l.chunk[s]] : s \in {t \in DOMAIN l.chunk : l.chunk[t] # 0}}
    /\ group = [s \in DOMAIN l.chunk |->
                  [len |-> l.chunk[s],
                   used |-> IF l.chunk[s] = 0 THEN 0
                            ELSE Used([start |-> s, size |-> l.chunk[s]], l.root, disk)]]
    /\ total = l.size /\ rootLog = l.root /\ fsRoot = l.fs
    /\ free = FreeAt(chunks, l.root, l.fs, disk)
    /\ op = Idle /\ cut = "no" /\ calls = 0 /\ faults = 0

----------------------------------------------------------------------------
(* The calls. *)

\* After a shrink that was cut short no call follows: RefusalIsUndone and
\* HalfShrunkKeepsFree are about the state that leaves.
Call == op = Idle /\ cut = "no" /\ calls < MaxCalls /\ calls' = calls + 1

Grow(n) ==
  /\ Call
  /\ n > total /\ tailChunkFound
  /\ op' = [Idle EXCEPT !.kind = "grow", !.stage = "extend", !.size = n,
                        !.from = total, !.to = n, !.chunk = tailChunk]
  /\ UNCHANGED <<device, memory, cut, faults>>

\* A free tail is cut off at once.  Otherwise it is taken off the free list and
\* what lives in it is moved.
Shrink(n) ==
  LET tail == n .. total - 1
      busy == ~(tail \subseteq free)
  IN  /\ Call
      /\ n < total /\ n >= bytesUsed /\ tailChunkFound /\ n > tailChunk.start
      /\ op' = [Idle EXCEPT !.kind = "shrink", !.stage = IF busy THEN "move" ELSE "item",
                            !.size = n, !.from = n, !.to = total, !.chunk = tailChunk,
                            !.todo = IF busy THEN Targets(n, total) ELSE {}, !.moved = busy]
      /\ free' = IF busy THEN free \ tail ELSE free
      /\ UNCHANGED <<device, chunks, total, rootLog, fsRoot, cut, faults>>

\* chunkIsEvacuableLocked; a group is found by its length.
evacuable(c) ==
  /\ Targets(c.start, EndOf(c)) = {}
  /\ Meta(rootLog, fsRoot, disk) \cap Span(c) = {}
  /\ group[c.start].len = c.size => group[c.start].used = 0

removeWholeTrailingChunk(n) ==
  LET busy == ~evacuable(tailChunk)
  IN  /\ Call
      /\ n < total /\ n >= bytesUsed /\ tailChunkFound /\ n = tailChunk.start
      /\ \E c \in chunks \ {tailChunk} : EndOf(c) = n
      /\ op' = [Idle EXCEPT !.kind = "remove", !.stage = IF busy THEN "move" ELSE "item",
                            !.size = n, !.from = n, !.to = total, !.chunk = tailChunk,
                            !.todo = IF busy THEN Targets(n, total) ELSE {}, !.moved = busy]
      /\ free' = IF busy THEN free \ Span(tailChunk) ELSE free
      /\ UNCHANGED <<device, chunks, total, rootLog, fsRoot, cut, faults>>

----------------------------------------------------------------------------
(* What a commit does (updateFsTreeRoot), and the writes around the resizes. *)

\* The root leaf is copied with the new FS root in it, or stays as it is when no
\* block is free.  The extent tree is rebuilt in its leaf; when that is outside
\* the chunks, in a new one.
Committed(d, fr, fs) ==
  LET cow   == fr # {}
      r     == IF cow THEN Min(fr) ELSE rootLog
      d1    == IF cow THEN [d EXCEPT ![r] = [d[rootLog] EXCEPT !.fs = fs]] ELSE d
      f1    == IF cow THEN (fr \ {r}) \cup {rootLog} ELSE fr
      inPlace == \E c \in chunks : RootsAt(r, d1).ext \in Span(c)
      ok    == inPlace \/ f1 # {}
      n     == Min(f1)
  IN  [root |-> r, ok |-> ok,
       disk |-> IF inPlace \/ ~ok THEN d1
                ELSE [d1 EXCEPT ![n] = Leaf("ext"), ![r] = [d1[r] EXCEPT !.ext = n]],
       free |-> IF inPlace \/ ~ok THEN f1 ELSE f1 \ {n}]

Commit(c, fs) ==
  /\ disk' = c.disk /\ free' = c.free /\ rootLog' = c.root /\ fsRoot' = fs
  /\ IF c.ok THEN /\ sb' = [sb EXCEPT !.root = c.root]
                  /\ group' = Groups(chunks, c.root, c.disk)
             ELSE UNCHANGED <<sb, group>>

\* A file is created (FileBody has the steps) in the first run that is free.
WriteFile(f, n) ==
  /\ Call
  /\ \A x \in FilesAt(fsRoot, disk) : x.file # f
  /\ Fits(n, free) # {}
  /\ LET x  == [file |-> f, start |-> Min(Fits(n, free)), len |-> n]
         f1 == free \ Extent(x)
         b  == Min(f1)
         d1 == [u \in Units |->
                  IF u \in Extent(x) THEN DataUnit(f, u - x.start)
                  ELSE IF u = b THEN FsLeaf(FilesAt(fsRoot, disk) \cup {x}) ELSE disk[u]]
     IN  /\ f1 # {}
         /\ Commit(Committed(d1, (f1 \ {b}) \cup {fsRoot}, b), b)
  /\ UNCHANGED <<dev, devItem, item, sys, devExt, chunks, total, op, cut, faults>>

DeleteFile(f) ==
  /\ Call
  /\ \E x \in FilesAt(fsRoot, disk) :
       LET f1 == free \cup Extent(x)
           b  == Min(f1)
           d1 == [disk EXCEPT ![b] = FsLeaf(FilesAt(fsRoot, disk) \ {x})]
       IN  /\ x.file = f
           /\ Commit(Committed(d1, (f1 \ {b}) \cup {fsRoot}, b), b)
  /\ UNCHANGED <<dev, devItem, item, sys, devExt, chunks, total, op, cut, faults>>

\* The process ends and the image is mounted again.
Mount ==
  /\ op = Idle
  /\ chunks' = Mapped /\ total' = sb.total
  /\ rootLog' = sb.root /\ fsRoot' = RootsAt(sb.root, disk).fs
  /\ free' = FreeAt(chunks', rootLog', fsRoot', disk)
  /\ UNCHANGED <<device, op, cut, calls, faults>>

----------------------------------------------------------------------------
(* The relocation of what lives in the tail. *)

Dropped == op.from .. op.to - 1
At(stage) == op.stage = stage
Goto(stage) == op' = [op EXCEPT !.stage = stage]
Fault == faults < MaxFaults /\ faults' = faults + 1
\* The Sync that ends a call, whose error changes nothing more.
Sync == UNCHANGED faults \/ Fault

\* relocateTailExtents returns an error: all of the tail becomes free again.
Refuse(fr) ==
  /\ free' = fr \cup Dropped
  /\ op' = Idle /\ cut' = "relocation"
  /\ UNCHANGED <<device, chunks, total, rootLog, fsRoot, calls>>

Target == CHOOSE x \in op.todo : \A y \in op.todo : x.file <= y.file
NewStart == Min(Fits(Target.len, free))
NewRange == NewStart .. NewStart + Target.len - 1
Room == Fits(Target.len, free) # {} /\ NewStart + Target.len <= op.from

\* One extent: a new range below the new size, the copy, the item in a new FS
\* leaf, and of the old range what lies below the new size is freed.
relocateExtent ==
  /\ At("move") /\ op.todo # {}
  /\ Room
  /\ LET x  == Target
         b  == Min(free \ NewRange)
         y  == [x EXCEPT !.start = NewStart]
     IN  /\ free \ NewRange # {}
         /\ disk' = [u \in Units |->
              IF u \in NewRange THEN disk[x.start + (u - NewStart)]
              ELSE IF u = b THEN FsLeaf((FilesAt(fsRoot, disk) \ {x}) \cup {y})
              ELSE disk[u]]
         /\ free' = ((free \ NewRange) \ {b}) \cup {fsRoot}
                      \cup {u \in Extent(x) : u < op.from}
         /\ fsRoot' = b
         /\ op' = [op EXCEPT !.todo = @ \ {x}]
  /\ UNCHANGED <<dev, sb, devItem, item, sys, devExt, group, chunks, total, rootLog,
                 cut, calls, faults>>

\* No range, or none below the new size; or the copy fails.  The new range goes
\* back, and it is lost when the item cannot be updated.
relocateExtentFails ==
  /\ At("move") /\ op.todo # {}
  /\ \/ ~Room /\ Refuse(free) /\ UNCHANGED faults
     \/ Room /\ free \ NewRange = {} /\ Refuse(free \ NewRange) /\ UNCHANGED faults
     \/ Room /\ Fault /\ (Refuse(free) \/ Refuse(free \ NewRange))

\* The k lowest free units, and those of them below the new size.
Lows(k) == {u \in free : Cardinality({v \in free : v < u}) < k}
LowRoom(k) == {u \in Lows(k) : u < op.from}

relocateRootTree ==
  /\ At("move") /\ op.todo = {}
  /\ \/ /\ rootLog \notin Dropped
        /\ UNCHANGED <<disk, free, rootLog>>
     \/ /\ rootLog \in Dropped /\ Cardinality(LowRoom(1)) = 1
        /\ rootLog' = Min(free)
        /\ free' = free \ {rootLog'}
        /\ disk' = [disk EXCEPT ![rootLog'] = disk[rootLog]]
  /\ Goto("meta")
  /\ UNCHANGED <<dev, sb, devItem, item, sys, devExt, group, chunks, total, fsRoot,
                 cut, calls, faults>>

\* The nodes of the dev tree that move: those in the tail, and the root when its
\* child moves.
DevRoot == RootsAt(rootLog, disk).dev
DevMoved == LET hit == Path(DevRoot, disk) \cap Dropped
            IN  IF hit = {} THEN {} ELSE hit \cup {DevRoot}

\* relocateSubtreePath, children first, then the ROOT_ITEM in its place.  The old
\* blocks are not freed.
relocateDevTree ==
  /\ At("meta")
  /\ \/ DevMoved = {} /\ UNCHANGED <<disk, free>>
     \/ LET k     == Cardinality(DevMoved)
            top   == Max(Lows(k))
            below == IF k = 2 THEN Min(Lows(k)) ELSE disk[DevRoot].child
            d1    == IF disk[DevRoot].kind = "inner"
                     THEN [disk EXCEPT ![below] = Leaf("dev"), ![top] = Inner(below)]
                     ELSE [disk EXCEPT ![top] = Leaf("dev")]
        IN  /\ k > 0 /\ Cardinality(LowRoom(k)) = k
            /\ free' = free \ Lows(k)
            /\ disk' = [d1 EXCEPT ![rootLog] = [disk[rootLog] EXCEPT !.dev = top]]
  /\ Goto("check")
  /\ UNCHANGED <<dev, sb, devItem, item, sys, devExt, group, chunks, total, rootLog,
                 fsRoot, cut, calls, faults>>

\* No block below the new size, or one cannot be written; those taken before it
\* are lost.
relocateTreeFails ==
  LET k == IF At("meta") THEN Cardinality(DevMoved) ELSE 1
  IN  /\ (At("move") /\ op.todo = {} /\ rootLog \in Dropped) \/ (At("meta") /\ k > 0)
      /\ \/ Cardinality(LowRoom(k)) < k /\ Refuse(free \ LowRoom(k)) /\ UNCHANGED faults
         \/ Fault /\ \E j \in 0 .. Cardinality(LowRoom(k)) : Refuse(free \ Lows(j))

\* The postcondition.  The extent tree is left out: the commit rebuilds it.
relocated ==
  /\ At("check")
  /\ MetaBut(rootLog, fsRoot, disk) \cap Dropped = {}
  /\ Goto(IF op.kind = "remove" THEN "commit" ELSE "item")
  /\ UNCHANGED <<device, memory, cut, calls, faults>>

\* A slip in leftInTail: the relocation is tried until nothing is left.
leftInTailRetried ==
  /\ At("check")
  /\ MetaBut(rootLog, fsRoot, disk) \cap Dropped # {}
  /\ Goto("move")
  /\ UNCHANGED <<device, memory, cut, calls, faults>>

leftInTail ==
  /\ At("check")
  /\ MetaBut(rootLog, fsRoot, disk) \cap Dropped # {}
  /\ Refuse(free) /\ UNCHANGED faults

----------------------------------------------------------------------------
(* The records of the chunk, one by one. *)

NewSize == CASE op.kind = "grow"   -> op.chunk.size + (op.to - op.from)
             [] op.kind = "shrink" -> op.chunk.size - (op.to - op.from)
             [] OTHER              -> 0
Start == op.chunk.start
Step(stage) == Goto(stage) /\ UNCHANGED <<cut, calls, faults>>

\* A slip in extendDevice: the device is left to grow with the first write.
extendDeviceLater ==
  /\ At("extend")
  /\ Step("item")
  /\ UNCHANGED <<device, memory>>

\* Grow makes the device longer before anything refers to the new units.
extendDevice ==
  /\ At("extend")
  /\ dev' = op.size
  /\ Step("item")
  /\ UNCHANGED <<disk, sb, devItem, item, sys, devExt, group, memory>>

rewriteChunkItem ==
  /\ At("item")
  /\ item' = [item EXCEPT ![Start] = NewSize]
  /\ Step(IF op.kind = "remove" THEN "devext" ELSE "sys")
  /\ UNCHANGED <<disk, dev, sb, devItem, sys, devExt, group, memory>>

\* A slip in rewriteSysChunkArrayEntry: the entry keeps the old size.
rewriteSysChunkArrayEntryKept ==
  /\ At("sys")
  /\ IF op.kind = "remove"
     THEN chunks' = chunks \ {op.chunk} /\ free' = free \ Span(op.chunk)
     ELSE UNCHANGED <<chunks, free>>
  /\ Step(IF op.kind = "remove" THEN "super" ELSE "devext")
  /\ UNCHANGED <<device, total, rootLog, fsRoot>>

\* A chunk that is removed leaves the map in memory and the free list here.
rewriteSysChunkArrayEntry ==
  /\ At("sys")
  /\ sys' = [sys EXCEPT ![Start] = IF @ = 0 THEN 0 ELSE NewSize]
  /\ IF op.kind = "remove"
     THEN chunks' = chunks \ {op.chunk} /\ free' = free \ Span(op.chunk)
     ELSE UNCHANGED <<chunks, free>>
  /\ Step(IF op.kind = "remove" THEN "super" ELSE "devext")
  /\ UNCHANGED <<disk, dev, sb, devItem, item, devExt, group, total, rootLog, fsRoot>>

\* The DEV_EXTENT is the last of rewriteChunkSizeLocked; the map follows.
rewriteDevExtent ==
  /\ At("devext")
  /\ devExt' = [devExt EXCEPT ![Start] = NewSize]
  /\ chunks' = IF op.kind = "remove" THEN chunks
               ELSE (chunks \ {op.chunk}) \cup {[op.chunk EXCEPT !.size = NewSize]}
  /\ Step(IF op.kind = "grow" THEN "super" ELSE "group")
  /\ UNCHANGED <<disk, dev, sb, devItem, item, sys, group, total, rootLog, fsRoot, free>>

\* The BLOCK_GROUP_ITEM is found by the length the chunk had; when it has another
\* length nothing is changed.
rewriteBlockGroup ==
  /\ At("group") /\ (op.kind = "shrink" => ~op.moved)
  /\ group' = IF group[Start].len # op.chunk.size THEN group
              ELSE [group EXCEPT ![Start] = [len |-> NewSize,
                                             used |-> IF op.kind = "remove" THEN 0 ELSE @.used]]
  /\ Step(IF op.kind = "remove" THEN "sys" ELSE "super")
  /\ UNCHANGED <<disk, dev, sb, devItem, item, sys, devExt, memory>>

\* After a relocation the commit writes the groups anew instead.
finishRelocation ==
  LET c == Committed(disk, free, fsRoot)
  IN  /\ At("group") /\ op.kind = "shrink" /\ op.moved
      /\ Commit(c, fsRoot)
      /\ op' = IF c.ok THEN [op EXCEPT !.stage = "super"] ELSE Idle
      /\ cut' = IF c.ok THEN "no" ELSE "relocation"
      /\ UNCHANGED <<dev, devItem, item, sys, devExt, chunks, total, calls, faults>>

\* A chunk that is removed is committed before: an extent tree that still has its
\* leaf in the chunk is an error, after which the chunk stays off the free list.
commitRelocation ==
  LET c == Committed(disk, free, fsRoot)
  IN  /\ At("commit")
      /\ Commit(c, fsRoot)
      /\ op' = IF c.ok /\ group'[Start].used = 0 THEN [op EXCEPT !.stage = "item"] ELSE Idle
      /\ cut' = IF c.ok THEN "no" ELSE "relocation"
      /\ UNCHANGED <<dev, devItem, item, sys, devExt, chunks, total, calls, faults>>

\* The commit fails after the root leaf was copied.
commitFails ==
  LET c == Committed(disk, free, fsRoot)
  IN  /\ At("commit") \/ (At("group") /\ op.kind = "shrink" /\ op.moved)
      /\ Fault
      /\ disk' = c.disk /\ free' = c.free /\ rootLog' = c.root
      /\ op' = Idle /\ cut' = "relocation"
      /\ UNCHANGED <<dev, sb, devItem, item, sys, devExt, group, chunks, total, fsRoot,
                     calls>>

\* rewriteResizedSuperblockLocked: the superblock, then the DEV_ITEM of the chunk
\* tree.  The size in memory follows, and for Grow the new units become free.
rewriteSuperblock ==
  /\ At("super")
  /\ sb' = [sb EXCEPT !.total = op.size]
  /\ Step("devitem")
  /\ UNCHANGED <<disk, dev, devItem, item, sys, devExt, group, memory>>

rewriteDevItem ==
  /\ At("devitem")
  /\ devItem' = op.size /\ total' = op.size
  /\ free' = IF op.kind = "grow" THEN free \cup Dropped ELSE free \ Dropped
  /\ IF op.kind = "grow" THEN op' = Idle /\ Sync
     ELSE Goto("truncate") /\ UNCHANGED faults
  /\ UNCHANGED <<disk, dev, sb, item, sys, devExt, group, chunks, rootLog, fsRoot,
                 cut, calls>>

truncateDevice ==
  /\ At("truncate")
  /\ dev' = op.size
  /\ disk' = [u \in Units |-> IF u < op.size THEN disk[u] ELSE Hole]
  /\ op' = Idle /\ Sync
  /\ UNCHANGED <<sb, devItem, item, sys, devExt, group, memory, cut, calls>>

\* A step fails and the call returns; what was done before stays.
stepFails ==
  /\ op.stage \in {"extend", "item", "sys", "devext", "super", "devitem", "truncate"}
       \/ (At("group") /\ ~op.moved)
  /\ Fault
  /\ op' = Idle
  /\ cut' = CASE op.kind = "grow" \/ At("truncate") -> "no"
              [] op.kind = "shrink" /\ op.moved /\ op.stage \in {"item", "sys", "devext"}
                   -> "relocation"
              [] OTHER -> IF At("item") THEN "no" ELSE "records"
  /\ UNCHANGED <<device, memory, calls>>

Relocation ==
  \/ relocateExtent \/ relocateExtentFails
  \/ relocateRootTree \/ relocateDevTree \/ relocateTreeFails
  \/ relocated \/ leftInTail
Records ==
  \/ extendDevice \/ rewriteChunkItem \/ rewriteSysChunkArrayEntry \/ rewriteDevExtent
  \/ rewriteBlockGroup \/ finishRelocation \/ commitRelocation \/ commitFails
  \/ rewriteSuperblock \/ rewriteDevItem \/ truncateDevice
  \/ stepFails

Next ==
  \/ \E n \in Sizes : Grow(n) \/ Shrink(n) \/ removeWholeTrailingChunk(n)
  \/ \E f \in Files : DeleteFile(f) \/ \E n \in 1 .. 2 : WriteFile(f, n)
  \/ Mount
  \/ Relocation \/ Records

\* A call goes on in its goroutine until it returns.
Spec == Init /\ [][Next]_vars /\ WF_vars(Relocation \/ Records)

----------------------------------------------------------------------------
(* Properties. *)

\* Sizes and addresses stay inside the largest device, and no block group counts more
\* than its length.
TypeOK ==
  /\ dev \in 0 .. MaxUnits /\ total \in 0 .. MaxUnits /\ sb.root \in Units
  /\ rootLog \in Units /\ fsRoot \in Units /\ free \subseteq Units
  /\ \A c \in chunks : Span(c) \subseteq Units
  /\ \A s \in DOMAIN group : group[s].used <= group[s].len

\* Every tree block and every unit of every file is where the trees say.
Sound(root, fs) ==
  /\ disk[root].kind = "root" /\ disk[fs].kind = "fs"
  /\ disk[RootsAt(root, disk).ext] = Leaf("ext")
  /\ \E b \in Path(RootsAt(root, disk).dev, disk) : disk[b] = Leaf("dev")
  /\ \A x \in FilesAt(fs, disk) : \A u \in Extent(x) : disk[u] = DataUnit(x.file, u - x.start)

\* The call has moved something, or may have, that no commit has recorded yet.
Relocating ==
  /\ op.moved
  /\ \/ op.stage \in {"move", "meta", "check", "commit"}
     \/ op.kind = "shrink" /\ op.stage \in {"item", "sys", "devext", "group"}

\* No resize loses anything, but for one whose relocation fails (RefusalIsUndone):
\* at every step the file system the process works on is whole and no unit of it
\* is on the free list.  And when the process ends at any step, or a record
\* cannot be written, a mount finds every tree and every file whole and inside
\* the chunks it maps, but for the steps from the first move to the commit.
NothingIsLost ==
  /\ TypeOK
  /\ cut # "relocation" =>
       /\ Sound(rootLog, fsRoot)
       /\ free \cap Live(rootLog, fsRoot, disk) = {}
       /\ ~Relocating =>
            LET fs == RootsAt(sb.root, disk).fs
            IN  /\ Sound(sb.root, fs)
                /\ Live(sb.root, fs, disk) \subseteq UNION {Span(c) : c \in Mapped}

\* When the relocation fails the free list is restored and the image untouched.
RefusalIsUndone ==
  cut = "relocation" =>
         /\ free \cap Live(rootLog, fsRoot, disk) = {}
         /\ Sound(sb.root, RootsAt(sb.root, disk).fs)

\* When a record of a smaller size cannot be written, what the process still takes
\* for free is inside the chunks that a mount will map.
HalfShrunkKeepsFree ==
  cut = "records" => free \subseteq UNION {Span(c) : c \in Mapped}

\* At every step of a call, so also when the process ends there, the device is as
\* long as the superblock and the chunks say: Grow makes it longer first, Shrink
\* shorter last.  (A Grow after one that failed may break this until it returns.)
DeviceIsLongEnough ==
  faults = 0 => /\ sb.total <= dev
                /\ \A s \in DOMAIN item : item[s] # 0 => s + item[s] <= dev
                /\ \A c \in chunks : EndOf(c) <= dev

\* After calls that succeeded all records of the sizes are the same, on the device and
\* in memory.
SizesAgree ==
  op = Idle /\ faults = 0 /\ cut = "no" =>
    /\ sb.total = dev /\ devItem = dev /\ total = dev
    /\ devExt = item /\ chunks = Mapped
    /\ \A s \in DOMAIN sys : sys[s] \in {0, item[s]}
    /\ EndOf(tailChunk) = dev

\* So the process and the image agree, and what the process takes for free a mount
\* would find free.
MountAgrees ==
  /\ SizesAgree
  /\ op = Idle /\ faults = 0 /\ cut = "no" =>
       free \subseteq FreeAt(Mapped, sb.root, RootsAt(sb.root, disk).fs, disk)

\* A block group has the length of its chunk.
GroupsMatchChunks ==
  op = Idle /\ faults = 0 /\ cut = "no" => \A s \in DOMAIN item : group[s].len = item[s]

\* Every call returns.
CallsReturn == op # Idle ~> op = Idle
=============================================================================
