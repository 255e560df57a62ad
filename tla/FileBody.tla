------------------------------ MODULE FileBody ------------------------------
(***************************************************************************)
(* The bodies of regular files: writeExtents, overwriteFile and            *)
(* freeInodeExtents of write.go, truncate.go, the part of removeInode      *)
(* (delete.go) that drops a body, readFileData (read.go) and the open      *)
(* files of openfile.go.                                                   *)
(*                                                                         *)
(* A body is a size in the INODE_ITEM and a set of EXTENT_DATA items:      *)
(* inline bytes, a range of the disk, or a hole (start = 0).  tree is what *)
(* the process works on (fsTreeRoot), image what a mount would find; the   *)
(* two differ while an operation runs and after one that failed.  The      *)
(* steps of an operation are its tree operations, each of which may fail;  *)
(* fs.mu keeps everything else out meanwhile.                              *)
(*                                                                         *)
(* Addresses and sizes count units smaller than a sector.  The disk is one *)
(* chunk, so that the free list is in the order of the addresses; the node *)
(* blocks of the trees come from elsewhere.  A unit holds <<inode, version,*)
(* position>> of the write that filled it.  body, saved, leaked and        *)
(* handle.body are not kept by the code.                                   *)
(***************************************************************************)
EXTENDS Naturals, Sequences, FiniteSets, FiniteSetsExt

CONSTANTS
  SectorSize,   \* sb.sectorSize
  Sectors,      \* how many sectors there are
  MaxInline,    \* maxInlineSize
  Bodies,       \* what is written: <<version, length>>
  Sizes,        \* the sizes a file is truncated to
  MaxInode,     \* bound: the inode numbers
  MaxCalls,     \* bound: the calls
  MaxFaults     \* bound: the steps that fail

ASSUME FileBodyAssumption ==
  /\ SectorSize \in Nat \ {0} /\ Sectors \in Nat /\ MaxInline \in Nat
  /\ Bodies \subseteq Nat \X Nat /\ Sizes \subseteq Nat
  /\ MaxInode \in Nat /\ MaxFaults \in Nat

VARIABLES tree, image, free, leaked, disk, op, body, saved, handle, calls, faults

vars == <<tree, image, free, leaked, disk, op, body, saved, handle, calls, faults>>

Units == SectorSize .. SectorSize * (Sectors + 1) - 1
Inodes == 1 .. MaxInode
Zero == <<0, 0, 0>>
RoundUp(n) == ((n + SectorSize - 1) \div SectorSize) * SectorSize
RoundDown(n) == (n \div SectorSize) * SectorSize

\* What a caller writes: n units of version v, or n zeros when v = 0.
Data(i, v, n) == [k \in 1 .. n |-> IF v = 0 THEN Zero ELSE <<i, v, k>>]
isAllZero(data) == \A k \in DOMAIN data : data[k] = Zero

encodeExtentDataInline(data) ==
  [off |-> 0, type |-> "inline", num |-> Len(data), start |-> 0, dlen |-> 0,
   data |-> data]
encodeExtentData(off, start, dlen, num) ==
  [off |-> off, type |-> "regular", num |-> num, start |-> start, dlen |-> dlen,
   data |-> <<>>]

OnDisk(items) == {e \in items : e.start # 0}
Extent(e) == e.start .. e.start + e.dlen - 1
Lowest(items) == {e \in items : \A x \in items : e.off <= x.off}

Absent == [there |-> FALSE, named |-> FALSE, size |-> 0, nbytes |-> 0, items |-> {}]
Idle == [kind |-> "none", ino |-> 0, stage |-> "none", data |-> <<>>, size |-> 0,
         want |-> {}, at |-> 0, todo |-> {}, got |-> {}]
Closed == [open |-> FALSE, ino |-> 0, size |-> 0, items |-> {}, body |-> <<>>]

----------------------------------------------------------------------------
(* Reading. *)

\* The item that covers position p of a file.
Covers(e, p) == e.off <= p /\ p < e.off + e.num

UnitAt(items, p, d) ==
  IF ~\E e \in items : Covers(e, p) THEN Zero
  ELSE LET e == CHOOSE x \in items : Covers(x, p)
       IN  IF e.type = "inline" THEN e.data[p - e.off + 1]
           ELSE IF e.start = 0 THEN Zero ELSE d[e.start + (p - e.off)]

\* A range or a hole that begins before the one in front of it has ended; the
\* offset is part of the key, so no two items have the same one.
Overlap(items) ==
  \E e, x \in {y \in items : y.type = "regular"} :
    e.off < x.off /\ x.off < e.off + e.num

\* The set of what readFileData may return: one body, or none when it returns an
\* error because collectPrefixItems found no item or because extents overlap.
readFileData(file, d) ==
  IF file.size = 0 THEN {<<>>}
  ELSE IF file.items = {} \/ Overlap(file.items) THEN {}
  ELSE {[k \in 1 .. file.size |-> UnitAt(file.items, k - 1, d)]}

\* ReadAt of an open file: the window is cleared, then each item that was there
\* at open fills the part of it that it overlaps.
ReadAt(h, off, len, d) ==
  LET want == IF off >= h.size THEN 0 ELSE Min({len, h.size - off})
      part(e) == Max({e.off, off}) .. Min({Min({e.off + e.num, h.size}), off + want}) - 1
  IN  [k \in 1 .. want |->
         IF \E e \in h.items : off + k - 1 \in part(e)
         THEN UnitAt(h.items, off + k - 1, d) ELSE Zero]

----------------------------------------------------------------------------
(* The free list: the runs of free units, which coalesce keeps in one piece. *)

freeExts ==
  {f \in [physStart : Units, size : 1 .. SectorSize * Sectors] :
     /\ f.physStart .. f.physStart + f.size - 1 \subseteq free
     /\ f.physStart - 1 \notin free /\ f.physStart + f.size \notin free}
Fits(n) == {f \in freeExts : f.size >= n}
\* The first entry that is large enough, and the first of the largest ones.
FirstFit(n) == {f \in Fits(n) : \A g \in Fits(n) : f.physStart <= g.physStart}
Largest == {f \in Fits(SectorSize) : \A g \in freeExts :
              g.size < f.size \/ (g.size = f.size /\ f.physStart <= g.physStart)}

\* How much allocDataBytesUpTo takes from a largest entry of the given size.
UpToSize(best, maxSize) ==
  LET max == IF maxSize < SectorSize THEN SectorSize ELSE maxSize
  IN  IF best > max THEN RoundDown(max) ELSE best

Referenced(t) == UNION {{Extent(e) : e \in OnDisk(t[i].items)} : i \in Inodes}

----------------------------------------------------------------------------
Init ==
  /\ tree = [i \in Inodes |-> Absent] /\ image = tree
  /\ free = Units /\ leaked = {}
  /\ disk = [u \in Units |-> Zero]
  /\ op = Idle /\ handle = Closed
  /\ body = [i \in Inodes |-> {}] /\ saved = body
  /\ calls = 0 /\ faults = 0

(* The calls.  What a call promises (want) holds once it has returned success. *)

\* While a call is on its way nothing is promised of its file.  What the image and
\* an open file promised ends too when the call is one that frees the extents.
Begin(kind, i, data, size, want, todo) ==
  /\ op = Idle
  /\ calls < MaxCalls /\ calls' = calls + 1
  /\ op' = [kind |-> kind, ino |-> i, stage |-> "begin", data |-> data,
            size |-> size, want |-> want, at |-> 0, todo |-> todo, got |-> {}]
  /\ body' = [body EXCEPT ![i] = {}]
  /\ saved' = IF kind = "truncate" THEN saved ELSE [saved EXCEPT ![i] = {}]
  /\ handle' = IF kind # "truncate" /\ handle.ino = i THEN Closed ELSE handle
  /\ UNCHANGED <<image, free, leaked, disk, faults>>

classifyExtent(data) ==
  IF Len(data) <= MaxInline THEN Len(data)
  ELSE IF isAllZero(data) THEN 0 ELSE RoundUp(Len(data))

\* The number after the largest one in use.
nextInodeNum == {i \in Inodes : /\ i = 1 \/ tree[i - 1].there
                                /\ \A j \in i .. MaxInode : ~tree[j].there}

createInodeWithDirEntry(v, n) ==
  \E i \in nextInodeNum :
    LET data == Data(i, v, n)
    IN  /\ Begin("create", i, data, n, {data}, {})
        /\ tree' = [tree EXCEPT ![i] = [there |-> TRUE, named |-> FALSE, size |-> n,
                                        nbytes |-> classifyExtent(data), items |-> {}]]

overwriteFile(i, v, n) ==
  /\ tree[i].named
  /\ Begin("overwrite", i, Data(i, v, n), n, {Data(i, v, n)}, OnDisk(tree[i].items))
  /\ UNCHANGED tree

removeInode(i) ==
  /\ tree[i].named
  /\ Begin("remove", i, <<>>, 0, {}, OnDisk(tree[i].items))
  /\ UNCHANGED tree

\* A body cut to n units, or filled up with zeros.
Resized(b, n) == [k \in 1 .. n |-> IF k <= Len(b) THEN b[k] ELSE Zero]

truncateInode(i, n) ==
  /\ tree[i].named
  /\ Begin("truncate", i, <<>>, n, {Resized(b, n) : b \in body[i]},
           IF n < tree[i].size THEN {e \in tree[i].items : e.off + e.num > n} ELSE {})
  /\ UNCHANGED tree

----------------------------------------------------------------------------
(* The steps. *)

At(kinds, stage) == op.kind \in kinds /\ op.stage = stage
Goto(stage) == op' = [op EXCEPT !.stage = stage]
Ghosts == <<body, saved, handle, calls>>

\* A step fails and the call returns its error.
Abort ==
  /\ faults < MaxFaults
  /\ faults' = faults + 1
  /\ op' = Idle
  /\ UNCHANGED <<image, free, Ghosts>>

\* A slip in freeInodeExtents: what the file uses of an extent is freed, not all
\* that the extent holds.
freeInodeExtentsByLength ==
  /\ At({"overwrite", "remove"}, "begin")
  /\ \E e \in Lowest(op.todo) :
       /\ free' = free \cup (e.start .. e.start + e.num - 1)
       /\ op' = [op EXCEPT !.todo = @ \ {e}]
  /\ UNCHANGED <<tree, image, leaked, disk, Ghosts, faults>>

\* The extents go back on the free list one by one, before the items go.
freeInodeExtents ==
  /\ At({"overwrite", "remove"}, "begin")
  /\ \E e \in Lowest(op.todo) :
       /\ free' = free \cup Extent(e)
       /\ op' = [op EXCEPT !.todo = @ \ {e}]
  /\ UNCHANGED <<tree, image, leaked, disk, Ghosts, faults>>

\* A slip in dropExtents: the items of the old body stay.
dropExtentsKept ==
  /\ At({"overwrite", "remove"}, "begin")
  /\ op.todo = {}
  /\ Goto(IF op.kind = "remove" THEN "unlink" ELSE "extent")
  /\ UNCHANGED <<tree, image, free, leaked, disk, Ghosts, faults>>

\* cowDeletePrefix of the EXTENT_DATA items.
dropExtents ==
  /\ At({"overwrite", "remove"}, "begin")
  /\ op.todo = {}
  /\ tree' = [tree EXCEPT ![op.ino].items = {}]
  /\ Goto(IF op.kind = "remove" THEN "unlink" ELSE "extent")
  /\ UNCHANGED <<image, free, leaked, disk, Ghosts, faults>>

dropExtentsFails ==
  /\ At({"overwrite", "remove"}, "begin")
  /\ op.todo = {}
  /\ Abort
  /\ UNCHANGED <<tree, leaked, disk>>

(* writeExtents.  A round chooses and allocates an item, then stores it. *)

Writing == At({"create"}, "begin") \/ At({"overwrite"}, "extent")
Got(e) ==
  /\ op' = [op EXCEPT !.stage = "store", !.got = {e}]
  /\ UNCHANGED <<tree, image, leaked, disk, Ghosts, faults>>
Stored == Len(op.data) > MaxInline /\ ~isAllZero(op.data)

\* An empty or a small body goes into the item, one of zeros nowhere.
writeWithoutExtent ==
  /\ Writing
  /\ ~Stored
  /\ Got(IF Len(op.data) <= MaxInline THEN encodeExtentDataInline(op.data)
         ELSE encodeExtentData(0, 0, 0, Len(op.data)))
  /\ UNCHANGED free

allocDataBytes ==
  LET n == RoundUp(Len(op.data))
  IN  /\ Writing /\ op.at = 0
      /\ Stored
      /\ \E f \in FirstFit(n) :
           /\ free' = free \ (f.physStart .. f.physStart + n - 1)
           /\ Got(encodeExtentData(0, f.physStart, n, Len(op.data)))

\* The multi-extent loop: entered when no entry is large enough for all of it.
InLoop == Writing /\ Stored /\ (op.at > 0 \/ Fits(RoundUp(Len(op.data))) = {})

allocDataBytesUpTo ==
  /\ InLoop
  /\ \E f \in Largest :
       LET remaining == Len(op.data) - op.at
           n == UpToSize(f.size, remaining)
       IN  /\ free' = free \ (f.physStart .. f.physStart + n - 1)
           /\ Got(encodeExtentData(op.at, f.physStart, n,
                                   IF n > remaining THEN remaining ELSE n))

\* The disk is full: what the earlier rounds stored stays in the file.
noSpace ==
  /\ InLoop
  /\ Fits(SectorSize) = {}
  /\ op' = Idle
  /\ UNCHANGED <<tree, image, free, leaked, disk, Ghosts, faults>>

\* The disk with the units of op.data that e stands for.
Written(e) ==
  [u \in Units |-> IF e.start # 0 /\ u \in e.start .. e.start + e.num - 1
                   THEN op.data[e.off + (u - e.start) + 1] ELSE disk[u]]

\* A slip in storeExtent: the loop does not move on.
storeExtentStays ==
  /\ op.stage = "store"
  /\ \E e \in op.got :
       /\ disk' = Written(e)
       /\ tree' = [tree EXCEPT ![op.ino].items = @ \cup {e}]
       /\ op' = [op EXCEPT !.got = {}, !.stage = IF op.kind = "create" THEN "begin" ELSE "extent"]
  /\ UNCHANGED <<image, free, leaked, Ghosts, faults>>

\* The data is written, then the item inserted.
storeExtent ==
  /\ op.stage = "store"
  /\ \E e \in op.got :
       LET more == e.off + e.num < Len(op.data)
       IN  /\ disk' = Written(e)
           /\ tree' = [tree EXCEPT ![op.ino].items = @ \cup {e}]
           /\ op' = [op EXCEPT
                !.got = {}, !.at = e.off + e.num,
                !.stage = CASE op.kind = "create" -> IF more THEN "begin" ELSE "link"
                            [] OTHER              -> IF more THEN "extent" ELSE "inode"]
  /\ UNCHANGED <<image, free, leaked, Ghosts, faults>>

\* The data or the item cannot be written: the extent is not given back.
storeExtentFails ==
  /\ op.stage = "store"
  /\ \E e \in op.got :
       /\ disk' \in {disk, Written(e)}
       /\ leaked' = leaked \cup {Extent(x) : x \in OnDisk({e})}
  /\ Abort
  /\ UNCHANGED tree

(* The end of each call. *)

updateInode ==
  /\ At({"overwrite"}, "inode")
  /\ tree' = [tree EXCEPT ![op.ino].size = Len(op.data),
                          ![op.ino].nbytes = classifyExtent(op.data)]
  /\ Goto("commit")
  /\ UNCHANGED <<image, free, leaked, disk, Ghosts, faults>>

\* overwriteFile drops an error of this step and goes on.
updateInodeDropped ==
  /\ At({"overwrite"}, "inode")
  /\ faults < MaxFaults
  /\ faults' = faults + 1
  /\ Goto("commit")
  /\ UNCHANGED <<tree, image, free, leaked, disk, Ghosts>>

\* The directory entries of a new file.
insertDirEntries ==
  /\ At({"create"}, "link")
  /\ tree' = [tree EXCEPT ![op.ino].named = TRUE]
  /\ Goto("commit")
  /\ UNCHANGED <<image, free, leaked, disk, Ghosts, faults>>

\* The INODE_ITEM and the directory entries of a removed one.
removeEntries ==
  /\ At({"remove"}, "unlink")
  /\ tree' = [tree EXCEPT ![op.ino] = Absent]
  /\ Goto("commit")
  /\ UNCHANGED <<image, free, leaked, disk, Ghosts, faults>>

entriesFail ==
  /\ At({"create"}, "link") \/ At({"remove"}, "unlink")
  /\ Abort
  /\ UNCHANGED <<tree, leaked, disk>>

(* truncateInode. *)

\* A slip in truncateItem: the sectors past the new size go back on the free list
\* with the item, before the commit.
truncateItemFrees ==
  /\ At({"truncate"}, "begin")
  /\ \E e \in Lowest(op.todo) :
       LET kept == IF e.off < op.size THEN op.size - e.off ELSE 0
           keep == {[x EXCEPT !.num = kept, !.dlen = IF e.start = 0 THEN 0 ELSE RoundUp(kept),
                              !.data = SubSeq(@, 1, IF e.type = "inline" THEN kept ELSE 0)] :
                      x \in {y \in {e} : kept > 0}}
       IN  /\ tree' = [tree EXCEPT ![op.ino].items = (@ \ {e}) \cup keep]
           /\ free' = free \cup (Extent(e) \ UNION {Extent(x) : x \in keep})
           /\ op' = [op EXCEPT !.todo = @ \ {e}]
  /\ UNCHANGED <<image, leaked, disk, Ghosts, faults>>

\* The next item past the new size: one that starts there is dropped, without
\* its extent being freed; one that starts before it is cut and keeps its extent.
truncateItem ==
  /\ At({"truncate"}, "begin")
  /\ \E e \in Lowest(op.todo) :
       LET kept == op.size - e.off
           keep == {[x EXCEPT !.num = kept,
                              !.data = SubSeq(@, 1, IF e.type = "inline" THEN kept ELSE 0)] :
                      x \in {y \in {e} : e.off < op.size}}
       IN  /\ tree' = [tree EXCEPT ![op.ino].items = (@ \ {e}) \cup keep]
           /\ leaked' = leaked \cup {Extent(x) : x \in OnDisk({y \in {e} : keep = {}})}
           /\ op' = [op EXCEPT !.todo = @ \ {e}]
  /\ UNCHANGED <<image, free, disk, Ghosts, faults>>

\* The size, and when the file shrinks the bytes of its extents anew.
truncateInodeItem ==
  /\ At({"truncate"}, "begin")
  /\ op.todo = {}
  /\ tree' = [tree EXCEPT
       ![op.ino].size = op.size,
       ![op.ino].nbytes = IF op.size >= tree[op.ino].size THEN @
                          ELSE MapThenSumSet(LAMBDA e : e.dlen,
                                             OnDisk(tree[op.ino].items))]
  /\ Goto("commit")
  /\ UNCHANGED <<image, free, leaked, disk, Ghosts, faults>>

truncateFails ==
  /\ At({"truncate"}, "begin")
  /\ Abort
  /\ UNCHANGED <<tree, leaked, disk>>

(* The commit, and what happens between the calls. *)

updateFsTreeRoot ==
  /\ op.stage = "commit"
  /\ image' = tree
  /\ body' = [body EXCEPT ![op.ino] = op.want]
  /\ saved' = body'
  /\ op' = Idle
  /\ UNCHANGED <<tree, free, leaked, disk, handle, calls, faults>>

updateFsTreeRootFails ==
  /\ op.stage = "commit"
  /\ Abort
  /\ UNCHANGED <<tree, leaked, disk>>

\* The items are taken as they are, unless they overlap; the body is what they
\* read now.
openBtrfsFile(i) ==
  /\ op = Idle
  /\ calls < MaxCalls /\ calls' = calls + 1
  /\ tree[i].named
  /\ \E b \in readFileData(tree[i], disk) :
       handle' = [open |-> TRUE, ino |-> i, size |-> tree[i].size,
                  items |-> tree[i].items, body |-> b]
  /\ UNCHANGED <<tree, image, free, leaked, disk, op, body, saved, faults>>

\* The process ends, in the middle of a call or not, and the image is mounted.
Remount ==
  /\ tree' = image
  /\ free' = Units \ UNION Referenced(image)
  /\ leaked' = {}
  /\ op' = Idle /\ handle' = Closed
  /\ body' = saved
  /\ UNCHANGED <<image, disk, saved, calls, faults>>

Calls ==
  \/ \E b \in Bodies :
       \/ createInodeWithDirEntry(b[1], b[2])
       \/ \E i \in Inodes : overwriteFile(i, b[1], b[2])
  \/ \E i \in Inodes : removeInode(i) \/ openBtrfsFile(i)
  \/ \E i \in Inodes, n \in Sizes : truncateInode(i, n)

Steps ==
  \/ freeInodeExtents \/ dropExtents
  \/ writeWithoutExtent \/ allocDataBytes \/ allocDataBytesUpTo \/ noSpace
  \/ storeExtent \/ storeExtentFails
  \/ updateInode \/ insertDirEntries \/ removeEntries \/ entriesFail
  \/ truncateItem \/ truncateInodeItem \/ truncateFails
  \/ updateFsTreeRoot \/ updateFsTreeRootFails

\* The failures after which the file no longer agrees with the free list, or with
\* what its caller was told.
Damage == dropExtentsFails \/ updateInodeDropped

Next == Calls \/ Steps \/ Remount

\* A call that has begun goes on: it runs in the goroutine of its caller.
Spec == Init /\ [][Next]_vars /\ WF_vars(Steps)

FaultySpec == Init /\ [][Next \/ Damage]_vars

----------------------------------------------------------------------------
(* Properties. *)

Items == [off : Nat, type : {"inline", "regular"}, num : Nat, start : Nat,
          dlen : Nat, data : Seq(Nat \X Nat \X Nat)]

\* Inodes, items, the free list and the calls have their types: free space stays inside
\* the disk, and only an inode that is there has a name.
TypeOK ==
  /\ \A i \in Inodes : \A t \in {tree, image} :
       /\ t[i].items \subseteq Items /\ t[i].size \in Nat
       /\ t[i].named => t[i].there
  /\ free \subseteq Units
  /\ disk \in [Units -> Nat \X Nat \X Nat]
  /\ op.got \cup op.todo \subseteq Items
  /\ faults \in 0 .. MaxFaults

\* Between calls a file reads back what was last written to it and done to it by
\* truncations, whatever the calls on other files did and at which step they
\* failed; a file with items can be read, as their extents do not overlap.
\* (GrownFileReads is about the files without items.)
ReadsAreRight ==
  /\ TypeOK
  /\ op = Idle => \A i \in Inodes :
       LET read == readFileData(tree[i], disk)
       IN  body[i] # {} => read \subseteq body[i] /\ (tree[i].items # {} => read # {})

\* A file that was written and truncated by successful calls can be read.
GrownFileReads ==
  op = Idle => \A i \in Inodes :
    body[i] # {} => readFileData(tree[i], disk) # {}

\* A mount at any moment, in the middle of a call too, finds every file with its
\* committed body, but for those whose extents a later call has begun to free:
\* no call writes over what the image refers to, and its items can be read.
CommittedFilesIntact ==
  \A i \in Inodes :
    LET read == readFileData(image[i], disk)
    IN  saved[i] # {} => read \subseteq saved[i] /\ (image[i].items # {} => read # {})

\* An open file reads the body it had when it was opened, in every window, until
\* a call overwrites or removes the file: a truncation does not reach it.
OpenFileKeepsBody ==
  op = Idle /\ handle.open =>
    \A off \in 0 .. handle.size, len \in 0 .. handle.size :
      ReadAt(handle, off, len, disk)
        = SubSeq(handle.body, off + 1, Min({off + len, handle.size}))

\* The nbytes of an inode are what its items take: the length of an inline body
\* and the disk ranges of the others.
NbytesMatch ==
  op = Idle => \A i \in Inodes :
    body[i] # {} =>
      tree[i].nbytes = MapThenSumSet(LAMBDA e : IF e.type = "inline" THEN e.num ELSE e.dlen,
                                     tree[i].items)

\* Every call returns.
CallsReturn == op # Idle ~> op = Idle

\* The extents of the call that freeInodeExtents has given back already.
Freed == IF op.stage = "begin" /\ op.kind \in {"overwrite", "remove"}
         THEN {Extent(e) : e \in OnDisk(tree[op.ino].items) \ op.todo} ELSE {}

FS == INSTANCE FreeSpace WITH
        Usable  <- Units,
        Extents <- {s .. t - 1 : s, t \in {SectorSize * k : k \in 1 .. Sectors + 1}},
        free    <- free,
        live    <- (Referenced(tree) \ Freed) \cup {Extent(e) : e \in OnDisk(op.got)},
        leaked  <- leaked

\* What the file code takes from the space manager and gives back keeps to the
\* set-level promise of FreeSpace: it returns what it holds, once.
ImplementsFreeSpace == FS!Init /\ [][FS!Next]_(FS!vars)
=============================================================================
