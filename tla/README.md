# A TLA+ model of go-filesystems/btrfs

The repository is a btrfs driver in Go: it formats, mounts, reads and changes
btrfs images without the kernel. This directory models the parts that decide
whether an image stays intact: space allocation, the copy-on-write trees, the
commit of a change, directories, file bodies and attributes, resizing, the way
from an address to a device, and the use of one mounted image by several
goroutines.

`PROJECT.json` lists every run with its properties, the source lines behind each
definition, the disagreements found between code and comments (`findings`), and
the places that are hard to test (`hazards`).

    tlc -config Session.cfg MCSession        # one run
    tlapm SessionProofs.tla                  # the proofs of one module

## The system

| Part | State | Operations | What makes it correct |
|---|---|---|---|
| Space manager (`alloc.go`) | the list of free extents | seed and reserve at mount, take a node block, take data (one extent or several), give back | no range has two owners; contiguous free space is one entry |
| B-tree (`btree.go`, `cow.go`, `btree_write.go`) | nodes, root address | search, prefix walk, insert, update, delete, prefix delete | a tree is a dictionary; an error leaves the old tree; no block is lost |
| Commit (`write.go`, `extent_rebuild.go`, `extent_multilevel.go`) | superblock, ROOT_TREE, EXTENT_TREE | `updateFsTreeRoot`: ROOT_TREE copy, extent tree rebuild, superblock | what was reported as done is what a mount finds |
| Namespace (`write.go`, `mkdir.go`, `symlink.go`, `link.go`, `delete.go`, `rename.go`, `dir.go`) | INODE_ITEM, DIR_INDEX, DIR_ITEM, INODE_REF | create, mkdir, symlink, link, unlink, delete directory, rename | the three records of a name agree; link counts and sizes are right |
| Session (`fs.go`, `nodecache.go`, `openfile.go`, `subvol.go`) | mutex, node cache, current root | every public method | nobody is served a stale node; every call returns |
| File bodies (`write.go`, `truncate.go`, `read.go`, `openfile.go`) | EXTENT_DATA items, open files | write, overwrite, truncate, remove, read | bytes read are the bytes written; space is taken and returned once |
| Attributes (`setattr.go`, `xattr_write.go`, `label.go`) | INODE_ITEM fields, XATTR_ITEMs, superblock labels | chown, chmod, chtimes, set and remove an attribute, set the label | what was set is read back; a change is dated by its commit |
| Resize (`resize*.go`) | chunks, device size | grow, shrink, relocate, drop a chunk | nothing in use is cut off; a refusal changes nothing |
| Address mapping (`multidev.go`, `chunk.go`, `superblock.go`) | chunk map, device pool | open, read over several devices, write | a read returns what is stored at its address, and fails only without a copy |
| Mount and format | superblock | open, format | the last committed image is found |

The parts meet in one operation: a public method takes the mutex, changes items
of the FS tree one after the other (each a path copy that takes blocks and gives
blocks back), then commits. Nothing is undone: when a step fails, the method
returns, and the steps before it stay in memory and on the image. That, the
immediate reuse of freed blocks, and roots that are held across a change are
where the hard behaviours come from.

## Modules

| Module | Models | Notes |
|---|---|---|
| `FreeSpace` | what the allocator promises | sets of units; no list |
| `SpaceManager` | `alloc.go` and the allocation loop of `writeExtents` | `freeExts` in slice order; implements `FreeSpace` |
| `KeyMap` | what a tree promises | a dictionary; an error changes nothing |
| `CowTree` | `btree.go`, `cow.go`, `btree_write.go` | implements `KeyMap` |
| `NameTree` | what the directory operations promise | a tree of names |
| `Namespace` | the directory operations | implements `NameTree` |
| `Session` | mutex, cache, held roots | the FS tree is its root node |
| `Commit` | `updateFsTreeRoot` and the extent tree | a tree is a root and the blocks below |
| `FileBody` | bodies of files and open files | their space implements `FreeSpace` |
| `Attributes` | attributes, extended attributes, reused inode numbers, label | |
| `Resize` | grow, shrink with relocation, removal of a chunk | |
| `DevicePool` | `OpenFromDevices`, chunk map, routing of reads, offsets of writes | |
| `SpaceProofs` | theorems about `FreeSpace` and `Resize` | |
| `SessionProofs`, `CommitProofs`, `AttributesProofs` | theorems about the module of that name | |
| `FileLayoutProofs`, `FileBodyProofs` | theorems about `FileBody` | the second extends the first |
| `PoolStateProofs`, `DevicePoolProofs` | theorems about `DevicePool` | the second extends the first |
| `MC*` | instances | |

Definitions whose comment begins with "A slip in" are wrong on purpose. Each is
the mistaken form of the definition that follows it, and replacing the one by
the other must make a property fail; no specification uses them.

### SpaceManager

`freeExts` is the slice. `allocNodeBlock` is first fit, `allocDataBytesUpTo`
takes from the largest entry, `Free` appends and coalesces, `Mount` computes the
list from what is referenced. `live` and `leaked` are observations: what the trees
reference, and what an operation took, lost by an error and did not give back.
`remaining` is the local variable of the multi-extent loop, between whose rounds
the tree code also allocates. Addresses count units smaller than a sector, so
rounding is part of the model.

### CowTree

A key is a number whose quotient by `Width` is (objectid, type). Item data is
its length. Operations work on a record that carries the blocks, the free list
and a fuse: the number of the write that fails. `MutatePath` and `MutateParent`
are the loop of `cowMutate`, `SplitParent` the loop of `cowInsertSplit`. Freed
blocks lose their contents, so that a read of one would show. `Keys` excludes
the smallest key of the tree, the root directory's inode, which is never
deleted.

### Namespace

An operation is a composition of changes of single items, in the order of the
code; the fuse says which one fails. Changes of items that are not modelled
(bodies, attributes, superblock) can fail but alter nothing. `Parents` are the
inodes some path leads to, which is what `pathLookupIno` accepts.

### Session

A node is its version, and every write makes a new one, so a read tells which
tree it saw. A mutator is any number of `CowStep` and `Commit` steps, then
`UnlockWrite`. `UnlockBypass` is the writer that nodecache.go:43-46 speaks of: one
that commits, and does not drop the cache. `OpenFile` takes its root in `Call`,
before the lock, as in openfile.go:26. A view takes the root that the ROOT_TREE names
(`rootItem`), which is the root in memory only between calls that succeeded.
`cowDeletePrefixFails` is a prefix delete that fails in a later pass: the first pass
has given the old root back, and the caller keeps it.

### Commit

An operation changes the FS tree (`CowStep`), stores its root in a copy of the
ROOT_TREE (`updateRootItem`), rebuilds the extent tree in place or on several
levels, and writes the superblock. Each step has its failing form; a path copy that
fails (`CowFails`) leaves any number of its blocks taken, written or not. `Layout` is
the fixpoint of `buildMultiLevelExtentTree`. `OpenFromDevices` mounts the image
as the disk has it.

### FileBody

An inode is its size, its nbytes and a set of items: inline bytes, a range of
the disk, or a hole. `tree` is what the process works on and `image` what a mount
finds; a call is a sequence of steps, one for each tree operation or data write
(`allocDataBytesUpTo`, `storeExtent`, `truncateItem`, ...), every one of which has its failing
form. `body` and `saved` say what the file must read as, `handle` is an open file,
which keeps its items as `openBtrfsFile` does. The free list is the set of maximal
runs of free units (`freeExts`), which is what `coalesce` leaves of it; `FirstFit`
and `Largest` are the entries that the two allocation functions choose. `Overlap` is what the readers refuse to read: an item that begins inside
another. Units are smaller than a sector, so
the last sector of an extent is partly used and truncations end inside one.

### Attributes

Each call is its tree changes, the change of the INODE_ITEM that dates it
(`bumpInodeTransIDSequence`), and the commit. Removing a file and creating
another are there because `nextInodeNum` gives the largest number out again.
`SetLabel` writes one superblock copy per step, passing over mirrors it cannot
read, and then the memory. `promise` says what an attribute must read as, `torn`
which copies a failed or skipping `SetLabel` left behind. `ApartSpec` leaves out the
calls that replace or remove the item of another name with the same hash: what they
break is in the table of disagreements. INODE_ITEMs are those of files; that of the
directory, which a create or a removal changes too, is in `Namespace`.

### Resize

Units hold tree blocks and file data; logical and physical addresses agree, as in
the images of `Format`. `Grow`, `Shrink` and the removal of a trailing chunk write
their records one step at a time: CHUNK_ITEM, sys_chunk_array, DEV_EXTENT,
BLOCK_GROUP_ITEM, superblock, DEV_ITEM, the map in memory, the length of the
device and its `Sync`. A relocation moves the extents and the tree blocks of the tail,
then looks again (`leftInTail`, `relocated`). `cut` notes a shrink that ended half-way,
in the relocation or behind it, because the code then promises less: `RefusalIsUndone`
and `HalfShrunkKeepsFree` are about those. After one the image is looked at and no
further call is made. `NothingIsLost` holds at every step for what the process works
on, and for what a mount would find at every step but those from the first move of a
relocation to its commit, when blocks of the committed trees are used again.

### DevicePool

What a device holds is stated from the side of the device (`Layout`: which
address and which row each of its units belongs to), what a read does from the
side of the address, with the divisions and remainders of the code, so that the
two can disagree. Opening reads one superblock after the other and closes the
pool when one cannot be used, and so do the steps after it: the chunk tree, the root
tree, and `buildSpaceManager`. A read is cut into pieces at the ends of stripes;
each piece tries its copies in the order of the code. A read stays in one chunk, or
is that of an extent that was allocated over the end of one, which `coalesce` makes
possible where chunks are adjacent. Chunks of a profile the code does not know are refused
when they are read. Writes find their offset
in three ways: data and new nodes by an allocated offset that `physToLog` turns
into an address, edits in place by `physAddr`.

`Images` are the file systems that may be there. `WellFormed` says what every one
of them has: a chunk has the number of stripes and the size its profile asks for, its
stripes lie on their devices, no two chunks share addresses or units, and a
superblock names its own device or none. `Formatted` says that a file system of one device and single
chunks, the only kind that is written, is one of `Format`, where addresses are
offsets.

## Runs

Runs that pass:

| Run | Configuration | States | Shows |
|---|---|---|---|
| `space_manager` | `MCSpaceManager` | 51070 | list, loop and coalescing over two chunks; refinement of `FreeSpace` |
| `cowtree_two_levels` | `CowTreeTwoLevels` | 4230 | all operations, one failing write; refinement of `KeyMap` |
| `cowtree_deep` | `CowTreeDeep` | 4692 | three levels: internal splits, dropped nodes, root collapse, one failing write |
| `session` | `Session` | 229594 | two goroutines, two blocks, three writes, failing prefix deletes; every call returns |
| `namespace` | `Namespace` | 6845 | directory operations without failures; refinement of `NameTree` |
| `namespace_faults` | `NamespaceFaults` | 16354 | any item change fails once: names stay unique, and other names keep their entry and a whole inode |
| `commit` | `Commit` | 214106 | commits, failures on the FS tree, lack of room, remounts |
| `file_body` | `FileBody` | 129636 | two files on a disk that fills up, an open file, one failing step, mounts at any step; refinement of `FreeSpace` |
| `attributes` | `Attributes` | 225890 | attributes, two names with one hash, a reused inode number, the label; one failing step, mounts |
| `resize` | `Resize` | 66914 | resizes between writes, deletes and mounts, from five images; one failing step, or a process that ends at any step |
| `device_pool` | `DevicePool` | 19269 | every profile and an unknown one, opened with all, some, reordered and unusable devices; two failing device reads |

One run shows a disagreement between the code and a comment (the quotation is in
`findings`): in `resize_refused` a shrink is refused because an FS tree block is in
the tail, and the whole tail, with that block, goes on the free list.

### Further disagreements

TLC refutes these properties too, on the instances given. A configuration marked ready
can be run as it is; for the others, put the property in place of those of the
configuration and make the changes given (`SplitFindsRoom`, `DeleteDirWantsEmpty`,
`RenameKeepsInode`, `OtherFilesUntouched` and `ImplementsFreeSpace` under PROPERTIES, the others under
INVARIANTS).

| Property | Configuration | The code, and what a comment says |
|---|---|---|
| `SearchFindsAll` | `CowTreeLostKey` (ready) | a key inserted left of every pointer goes to the first child, where `searchTree` does not look (btree_write.go:565); "Routing matches searchTree" (btree_write.go:523-524) |
| `PrefixDeleteReachesAll` | `CowTreeLostKey`, `Spec`, `PtrSpace = 6` | a prefix delete whose matches are not in the leaf that offset 0 is routed to fails (btree_write.go:107); it "visits each affected leaf in turn" (btree_write.go:80-81) |
| `SplitFindsRoom` | `CowTreeTwoLevels`, `Keys = {2, 3, 4}`, `Data = {1, 4}`, `LeafSpace = 6`, `MaxFaults = 0` | the split point counts data bytes and not descriptors (btree_write.go:646), so an insert is refused although two leaves would hold the items; the error is meant for an item that "even an empty leaf cannot hold" (btree_write.go:672-674) |
| `OpenRootIsLive` | `SessionOpen` (ready) | `OpenFile` reads the root before it locks (openfile.go:26) and may descend from a freed one; "btrfsFS serializes all access behind its mutex" (nodecache.go:34-35) |
| `ViewRootIsLive` | `SessionOpen` | a view of tree 5 keeps a root that the next mutator frees (subvol.go:289); reads "operate within that tree" (subvol.go:274-276) |
| `RootIsTaken` | `SessionOpen` | a prefix delete that fails in a later pass has given the old root back (btree_write.go:107-114), and `removeInode` keeps it (delete.go:197-199): the next write may take the block of the tree that is read; old blocks "are returned to the space manager once a successful new root has been computed" (btree_write.go:199-201) |
| `OtherFilesUntouched` | `NamespaceReuse` (ready) | a delete that fails behind delete.go:225 leaves its name without an inode, and `nextInodeNum` gives the number to the next file (write.go:47): the old name stands for that file, and deleting it deletes the file. A link that fails before its count is raised leaves a name that is not counted, and the delete of the other name takes the inode |
| `RenameKeepsInode` | `NamespaceRename` (ready) | a rename to the same path removes its own source (rename.go:35); "Rename moves or renames oldPath to newPath" (fs.go:330) |
| `LookupAgreesWithList` | `NamespaceRename`, `OrdinarySpec`, `Hash <- Colliding` | a DIR_ITEM is removed by hash alone (delete.go:255), also that of another name; the scan "covers hash collisions" (dir.go:85) |
| `DeleteDirWantsEmpty` | `NamespaceRename`, `OrdinarySpec` | `deleteDir` removes the contents first (delete.go:122); `DeleteDir` "removes the empty directory" (fs.go:322) |
| `ParentsAreDirectories` | `NamespaceRename` | no caller of `pathLookupIno` looks at the kind of the parent (write.go:39); "The parent directory of linkPath must already exist" (fs.go:351-352) |
| `SuccessIsDurable` | `CommitDropped` (ready) | `updateFsTreeRoot` ignores the error of the ROOT_TREE copy and writes the superblock (write.go:635); "errors propagate (no silent dropping" (stress_test.go:579) |
| `RebuildErrorMountable` | `CommitRebuild` (ready) | a rebuild error returns before the superblock is written, with the blocks of the old trees reused (write.go:646); it "leaves the prior extent tree in place (still mountable)" (write.go:644) |
| `RebuildErrorKeepsTree` | `CommitRebuild`, `LeafCap = 3` | the multi-level rebuild frees and overwrites the old tree before the ROOT_ITEM is repointed (extent_multilevel.go:137); the same comment |
| `ExtentTreeExact` | `Commit`, 12 blocks, `LeafCap = 5`, `MaxKids = 3`, `MaxVersion = 6`, `MaxFaults = 0` | when one leaf suffices again, it still describes the former leaves, which are never freed (extent_rebuild.go:296); "the common single-leaf case is exact" (extent_rebuild.go:105-106) |
| `GrownFileReads` | `FileGrow` (ready) | a file that was cut to nothing and grown again has no item, which a read takes for an error; "readFileData fills it with zeros" (truncate.go:11-13) |
| `NbytesMatch` | `FileBody` | a truncation counts the bytes of an inline body as 0 (truncate.go:118-136); nbytes is "updated to reflect the new on-disk footprint" (truncate.go:16-17) |
| `ReadsAreRight`, `ImplementsFreeSpace` | `FileBody`, `FaultySpec` | `overwriteFile` drops the error of its inode update (write.go:545), and frees the extents before it removes their items (write.go:521) |
| `GroupsMatchChunks` | `Resize` | `Grow` does not touch the BLOCK_GROUP_ITEM; "`btrfs check` rejects a block group whose length disagrees with its chunk" (resize.go:253-254) |
| `HalfShrunkKeepsFree` | `Resize` | a shrink of a free tail that fails after the CHUNK_ITEM leaves the tail on the free list (resize.go:247), outside what the next mount maps |
| `NothingIsLost` | `ResizeFull` (ready) | a relocation takes the last free blocks, the commit after it cannot copy the ROOT_TREE and drops that error (write.go:635); the shrink succeeds, and the ROOT_ITEM names an FS root whose block was reused. The commit is to write "the superblock + generation consistently" (resize.go:256-258) |
| `ReadsAreRight` of `DevicePool` | `PoolInPlace` (ready) | edits in place write at the logical address (extent_rebuild.go:291, resize.go:338, extent_multilevel.go:404), while reads translate it; "Supports single-device Btrfs images" (README.md:11), in which the two differ unless `Format` made them |
| `FailedOpenClosesAll` | `DevicePool` | an open that fails between two devices closes those of the pool and not the rest (fs.go:191-206), though a failure before that closes all |
| `AttributesReadBack` | `AttributesCollide` (ready) | an XATTR_ITEM is replaced and removed by hash alone (xattr_write.go:60-78), also that of another name, which is lost; `SetXattr` works by "creating the entry if missing or replacing the existing one" (fs.go:412-413) |
| `RemoveWantsName` | `AttributesCollide` | the removal of a name that is not there succeeds when another has its hash, and removes that one; "Removing a non-existent xattr returns an error wrapping ErrNotFound" (xattr_write.go:88-89), and so fs.go:422-423 |
| `LabelCoherent` | `Attributes` | a `SetLabel` that fails after the primary copy leaves the old label in memory (label.go:72-84); "Keep the in-memory label coherent with on-disk truth" (label.go:86) |

The passing runs leave out exactly the steps those disagreements are about, so
that one does not hide others: `RoutableSpec` and `CoveredSpec` of `MCCowTree`,
`OrdinarySpec` of `MCNamespace`, `FsFaultSpec` of `MCCommit` and `Spec` of `FileBody`
(without `Damage`) say which (`CoveredSpec` has no prefix delete either). `Resize`
keeps the steps and weakens what it promises once a shrink was cut short (`cut`), and
the images of `resize` have room for the copies of a commit;
`device_pool` writes only to images in which addresses are offsets; `attributes` is about
`ApartSpec`. `session` leaves out no step: `ServedIsCurrent` compares what is served with
the device, which holds for dead roots too, and `ReadsNewestTree` is about roots that
are not on the free list. `namespace_faults` leaves out no failure: `OtherNamesUntouched`
is about names whose inode is there and has a link for each of its names, which an
earlier failure may have changed (`OtherFilesUntouched`).

### Bounds

- `SpaceManager`: two data chunks with a superblock copy and a system chunk;
  bodies up to `MaxWrite`, larger than any one extent, so the loop runs for
  several rounds and also fails.
- `CowTree`: a leaf holds two or three items, so that five keys make splits,
  drops and collapses; `PtrSpace` of 2 brings internal splits and a third level.
  On three levels an operation makes at most seven writes (an insert that splits
  a leaf, an internal node and the root); `MaxFuse` is 7, so any of them may fail.
- `Namespace`: two names, three inodes besides the root (two with failures),
  offsets up to 4: a directory in a directory, a second link, a rename over an
  existing name.
- `Session`: two goroutines; two blocks, so that each write moves the root to the
  block the last one freed. Three writes bring a root back to a block that is
  still cached, and leave one for the writer that does not drop the cache.
- `Commit`: eight blocks make the free list run empty; `LeafCap` 3 makes the
  extent tree grow to two levels. `ExtentTreeExact` needs more of both, because
  shrinking back to one leaf does.

- `FileBody`: three sectors of two units; bodies that are inline, fit one sector or
  two, or are all zero; two files. Two files fill the disk, freed sectors make
  bodies of two extents, and four calls with one failing step reach an overwrite
  after a failed one and a reuse of its space.
- `Attributes`: two names with one hash, two inode numbers, two superblock copies;
  five calls suffice to create a file, set an attribute, fail to remove it, remove it
  and give its number to another one.
- `Resize`: images of 13 units with files, trees or both in the tail, one chunk or
  two, one level or two of the dev tree; sizes 11, 12 and 14 grow, cut inside a
  chunk and cut a chunk off. Four calls put a mount and a write after two resizes.
- `DevicePool`: chunks of at least two rows in every profile, so that the parity has
  rotated; reads of up to five units cross two ends of stripes; two failing reads
  exhaust the copies of a mirror.

`VIEW`: `ShapeView` drops the numbers of blocks, because no operation depends on
which free block it gets and the invariants are invariant under renaming; `Items`
drops the observations `named` and `ok`, the names the last operation was given and
whether it succeeded, which no action reads. Action properties are evaluated on every step,
also one to a known view. No run uses symmetry.

### Fairness

`session` assumes weak fairness of the steps of a method that holds the
mutex (it runs to its return; the code has no unbounded wait inside) and strong
fairness of taking the mutex (the starvation mode of `sync.Mutex`). Calls
themselves are not fair. `file_body`, `resize` and `device_pool` assume weak fairness of
the steps of the call that is on its way: it holds the mutex and waits for
nothing but the device. The other runs assume nothing.

## Proofs

`SpaceProofs`, about `FreeSpace`: `TypeCorrect`, and `SpaceIsPartitioned`, that `Inv` (no unit
has two owners, none in use is free, none is lost) always holds. `Inv` with
`TypeOK` is inductive; two things in use cannot be confused because `Take`
takes a range that is not empty. `Recover` is a mount, which may find any disjoint
extents in use: after a crash those are the committed ones, not the latest. There
is no assumption: every set of units and of extents is covered. `FileBody` is
proved to implement `FreeSpace`, `SpaceManager` is checked to (run
`space_manager`), so the theorem applies to both.

`SessionProofs`: for any set of goroutines and blocks,

- `MutexHeld`: who is inside a method holds the mutex (proved only);
- `CacheIsCoherent`: the invariant of the run;
- `NeverStale`: every node a method is served is the one on the device;
- `ReadsAreNewest`: a method that takes its root under the mutex sees the last
  tree that was written, unless a failed prefix delete has put that root on the free
  list.

`CacheCoherent` is not inductive by itself. `IInv` adds that a cache was built at
the present generation or before (`BuiltBefore`: a commit outdates it), that a
reader holds the cache that `reader()` gave it (`ReaderHasCache`), that
uncommitted writes belong to the holder of the mutex (`DirtyMeansWriting`: a
reader never starts among them), that a descent has a root (`ArgKnown`), and
that a root that is not free holds the last version (`RootIsNewest`). `UnlockWrite` keeps
`CacheCoherent` because it drops the cache, `Commit` because the generation
moves past `builtGen`. The only assumption is that the model values for "nobody"
and "absent" are no goroutine, block or number.

`SpaceProofs`, about `Resize`, for any images of that kind, sizes and number of calls:

- `DeviceStaysLongEnough`: at no step of a call does the superblock, a CHUNK_ITEM or the
  map in memory reach beyond the end of the device;
- `SizesStayEqual`: when no step has failed, all records of the sizes are the same
  between calls. It is the first half of `MountAgrees`.

The invariant (`SizesHold`) has the records of a file system at rest (`Settled`) and,
inside a call, which of the six records carry the new size already (`Working`,
`Progress`), so that the end of the device is compared with the larger of the two sizes
in a `Grow` and a `Shrink` alike. Both theorems are about calls without a failed step,
as the properties are: a `Grow` after one that failed may break the first until it
returns. The assumption says what the images are: the sizes are numbers, chunks do not
overlap, and the last one ends with the device.

`CommitProofs`: `TreesStayApart`, `SuccessStaysDurable` and
`ExtentTreeStaysComplete`, for any finite set of blocks, any capacity of a leaf (three
records at least: those of the three roots) and any number of operations and
failures. They are about `FsFaultSpec`, as the run is: what the other faults break is
in the table above. `TreesAreApart` is not inductive, because the rebuild of the
extent tree must know which blocks are whose. `Apart` says it with the kinds of the
blocks: every block below a root has the kind of that tree, which a block can have
only once. `Linked` says what each stage of a commit has reached (`pc`): the ROOT_ITEM
leads to the new FS tree, the records cover what was collected, the superblock leads
to the same ROOT_TREE. The step with the most in it is the multi-level rebuild: the
fixpoint `Layout` takes blocks whose own records must fit in the leaves
(`LowestOfLowest`, `FiniteMax`).

`AttributesProofs`: `AttributesAreKept`, `LabelsStayEqual` and, as an action
property, `ChangesCarryTheirGeneration`, for any inode numbers, names, values, hash
function and superblock copies. The first is about `ApartSpec`, as the run is. To `AttributesReadBack` the invariant adds that it
holds in the middle of a call and of the image too (`Kept`), that an inode number
out of use has no XATTR_ITEMs left (`FreeIsBare`, on which a reused number rests),
what the stages of each call have done (`InFlight`), that an uncommitted change
carries the next generation (`Dated`), and what `SetLabel` has written (`Labelled`).
The assumptions: the names of extended attributes are not those of the fields, no
value is the one for "unset", and copy 0 exists.

`FileLayoutProofs` and `FileBodyProofs`, for any sector size, disk, inline limit,
bodies and number of files, calls and failures:

- `ReadsStayRight`: a file reads as its promise says;
- `CommittedFilesStayIntact`: what a mount would find is what was committed, also
  while a later call overwrites and frees;
- `OpenFilesKeepTheirBody`: an open file reads what it was opened on, until its
  space is given back;
- `FilesImplementFreeSpace`: every step is a step of `FreeSpace` or leaves the space
  alone, with the extents of the items, less what `freeInodeExtents` has given back
  already, plus the extent just taken, as `live`.

The invariant: items of a file are in order and whole sectors (`Laid`, `Arranged`),
no unit is in two items of any files; what is held, lost or just taken is not free
(`Spaced`); the promised body is what the items read from the disk (`BodyInv`,
`SavedInv`, `HandleInv`), and the items that the image or an open file still use are
in use or lost, never free (`Kept`); what `writeExtents` has stored is a prefix of
what it was given (`WrittenSoFar`); what a truncation has not cut yet reads as before
(`CutInv`). Items in order do not overlap, so that the readers
accept them (`LaidReads`). The allocation lemmas (`FirstFitTakes`, `LargestTakes`) show that what is
taken is free and made of whole sectors, which is where rounding up and down
matters. The assumption is that the constants are numbers and a sector is not empty.

`PoolStateProofs` has the part of the invariant of `DevicePool` that does not depend
on how a read is routed: what the steps of opening have put in the pool and in the
chunk map, which `loadChunkTree` builds one chunk at a time, and where a write goes.
It concludes `DevicesAreClosedOnce`: no device is closed twice, and none of the pool
stays open. `DevicePoolProofs` shows that the two descriptions in `DevicePool` agree,
for any number of stripes, sub-stripes and parities, stripe length and offset in a
chunk: `RouteSound`, each device and offset on the route of an address holds that
address; `RouteComplete`, each unit that holds an address is on its route. It rests on
division with remainder (`DivisionUnique`) and on the rotation of parity columns.
From that it concludes

- `ReadsStayRight`: what a read returns is what was last written there, through any
  missing and failing devices;
- `ErrorsMeanNoCopy`: a read fails only after each copy in the pool was tried.

The invariant has the contents of the devices (`Stored`: each copy is the last
version, and nothing else is data) and what the pieces of a read have returned so
far. A read is in one chunk, or of an extent that was allocated over the end of one
(`Spans`), in which case addresses are offsets and one device read returns it all
(`SpanIsRight`). These two theorems assume `AllFormatted`,
that file systems which are written are those of `Format`: without it TLC refutes
`ReadsAreRight` (`PoolInPlace`). The run evaluates that assumption
(`ImagesFormatted`), and `WellFormed`, on its images.

Only model-checked: `CallsReturn` and every other liveness property (the prover
has no rule for fairness); everything in `CowTree`, `Namespace` and `NameTree`,
which are recursive over the tree; `SpaceManager` and its refinement, whose loops
are folds over the list (what they compute for a list of any length needs induction
over data); of `Resize`, `NothingIsLost`, which does not hold of every image (`ResizeFull`), and the free list
in `MountAgrees`, which needs what the relocation has moved so far.

## Not modelled

- Byte layouts, checksums, decompression and the guards against malformed images:
  no state, and tests reach them. Compressed extents are read and never written.
- `Format`: one sequence of writes to an unused image; its result is the initial
  state of the modules.
- Partition lookup (a library call) and the listing of subvolumes (a single pass
  that changes nothing).
- The tree blocks of a crash between two writes: the code frees blocks for reuse
  before the superblock is written and promises nothing for it; `RebuildErrorMountable`
  reaches the same state through an error. What a crash leaves of file data is in
  `FileBody`, of a resize in `Resize`.
- Writes to chunks with several copies: multidev.go:68 calls them best effort, and
  they reach the opened device alone.

## Plan

1. Proofs: `NothingIsLost` of `Resize` for images with enough free units, with the
   extents and tree blocks that a relocation has moved in the invariant.
2. `ExtentLayout`: the fixpoint of `buildMultiLevelExtentTree` with byte sizes and
   several interior levels, and that its 64 rounds suffice.
