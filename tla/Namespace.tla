----------------------------- MODULE Namespace -----------------------------
(***************************************************************************)
(* The directory operations of write.go, mkdir.go, symlink.go, link.go,    *)
(* delete.go and rename.go on the items of the FS tree.  A name is kept in *)
(* three places: a DIR_INDEX item under an increasing offset, a DIR_ITEM   *)
(* under the hash of the name, and a back reference in an INODE_REF item   *)
(* of the child.  An operation is a sequence of changes of single items;   *)
(* any of them may fail, the operation then returns, and what it has done  *)
(* so far stays in the tree.                                               *)
(*                                                                         *)
(* File bodies, times and extended attributes are left out: the steps that *)
(* write or remove them can fail, but change nothing here.                 *)
(***************************************************************************)
EXTENDS Integers, Sequences, SequencesExt, FiniteSets, FiniteSetsExt, Functions

CONSTANTS
  Names,        \* the names of directory entries
  Hash,         \* hashDirName
  NameLen,      \* the length of a name
  MaxInodes,    \* bound: how many inodes are created beside the root
  MaxIndex,     \* bound: the largest DIR_INDEX offset
  MaxFaults,    \* bound: how many item changes may fail
  Fuses         \* which change of an operation fails, 0 for none

ASSUME NamesAssumption ==
  /\ DOMAIN Hash = Names /\ DOMAIN NameLen = Names
  /\ \A n \in Names : NameLen[n] > 0
  /\ 0 \in Fuses /\ Fuses \subseteq Nat

VARIABLES
  inodes,       \* the INODE_ITEMs
  dirIndex,     \* the DIR_INDEX items
  dirItem,      \* the DIR_ITEMs of a directory and a hash, in tree order
  refs,         \* the back references in the INODE_REF item of child and parent
  ok,           \* whether the last operation succeeded
  faults,       \* how many changes have failed
  named         \* observation: the names the last operation was given

items == <<inodes, dirIndex, dirItem, refs, ok, faults>>
vars == <<items, named>>

rootDirObjID == 256
Inos == rootDirObjID .. rootDirObjID + MaxInodes
Hashes == Range(Hash)
Kinds == {"file", "dir", "symlink"}

Inode(kind, nlink, size) == [kind |-> kind, nlink |-> nlink, size |-> size]
Entry(n, i, kind) == [name |-> n, ino |-> i, kind |-> kind]
Index(d, off, e) == [dir |-> d, off |-> off, name |-> e.name, ino |-> e.ino, kind |-> e.kind]

----------------------------------------------------------------------------
(* An operation works on a record t of the items. *)

Begin(fuse) == [inodes |-> inodes, dirIndex |-> dirIndex, dirItem |-> dirItem,
                refs |-> refs, ok |-> TRUE, fuse |-> fuse]

\* One change of the tree: it fails when its turn has come.
Change(t, new) ==
  CASE ~t.ok -> t
    [] t.ok /\ t.fuse = 1 -> [t EXCEPT !.ok = FALSE, !.fuse = 0]
    [] OTHER -> [new EXCEPT !.fuse = IF @ = 0 THEN 0 ELSE @ - 1]

Refuse(t) == [t EXCEPT !.ok = FALSE]

\* The first DIR_ITEM under the hash when its name is the right one, otherwise
\* the first DIR_INDEX with the name.
lookupDirEntry(t, d, n) ==
  LET first == t.dirItem[d, Hash[n]]
      same  == {x \in t.dirIndex : x.dir = d /\ x.name = n}
  IN  IF first # <<>> /\ first[1].name = n THEN {first[1]}
      ELSE {Entry(n, x.ino, x.kind) : x \in {y \in same : \A z \in same : y.off <= z.off}}

\* The inodes that some path leads to.
RECURSIVE Resolved(_, _)
Resolved(t, S) ==
  LET next == S \cup {e.ino : e \in UNION {lookupDirEntry(t, d, n) : d \in S, n \in Names}}
  IN  IF next = S THEN S ELSE Resolved(t, next)

pathLookup(t) == Resolved(t, {rootDirObjID}) \cap DOMAIN t.inodes

readDir(t, d) == SetToSortSeq({x \in t.dirIndex : x.dir = d}, LAMBDA x, y : x.off < y.off)

nextInodeNum(t) == Max(DOMAIN t.inodes) + 1

nextDirIndexOffset(t, d) == Max({2} \cup {x.off : x \in {y \in t.dirIndex : y.dir = d}}) + 1

dirEntrySizeDelta(n) == 2 * NameLen[n]

----------------------------------------------------------------------------
(* Changes of single items. *)

insertInode(t, i, inode) == Change(t, [t EXCEPT !.inodes = (i :> inode) @@ @])

insertDirIndex(t, d, off, e) == Change(t, [t EXCEPT !.dirIndex = @ \cup {Index(d, off, e)}])

\* An equal key is inserted after the ones there are.
insertDirItem(t, d, e) == Change(t, [t EXCEPT !.dirItem[d, Hash[e.name]] = Append(@, e)])

\* (An item that a failed operation left under the same key is merged here.)
insertInodeRef(t, i, d, off, n) ==
  Change(t, [t EXCEPT !.refs[i, d] = @ \cup {[idx |-> off, name |-> n]}])

appendInodeRef(t, i, d, off, n) ==
  IF \E r \in t.refs[i, d] : r.name = n THEN t ELSE insertInodeRef(t, i, d, off, n)

\* A slip in removeInodeRef: the whole item goes with one of its names.
removeInodeRefItem(t, i, d, n) ==
  IF t.refs[i, d] = {} THEN t ELSE Change(t, [t EXCEPT !.refs[i, d] = {}])

removeInodeRef(t, i, d, n) ==
  IF t.refs[i, d] = {} THEN t
  ELSE Change(t, [t EXCEPT !.refs[i, d] = {r \in @ : r.name # n}])

\* A slip in removeDirIndex: the entry is not found.
removeDirIndexMisses(t, d, n) == t

\* The first DIR_INDEX of the directory that has the name.
removeDirIndex(t, d, n) ==
  LET same  == {x \in t.dirIndex : x.dir = d /\ x.name = n}
  IN  IF same = {} THEN t
      ELSE Change(t, [t EXCEPT !.dirIndex = @ \ {x \in same : \A y \in same : x.off <= y.off}])

\* A slip in removeDirItem: all DIR_ITEMs of the directory go.
removeDirItemPrefix(t, d, n) ==
  Change(t, [t EXCEPT !.dirItem = [x \in DOMAIN @ |-> IF x[1] = d THEN <<>> ELSE @[x]]])

\* The first DIR_ITEM under the hash of the name, whatever its name.
removeDirItem(t, d, n) ==
  IF t.dirItem[d, Hash[n]] = <<>> THEN t
  ELSE Change(t, [t EXCEPT !.dirItem[d, Hash[n]] = Tail(@)])

removeInodeItem(t, i) ==
  IF i \notin DOMAIN t.inodes THEN Refuse(t)
  ELSE Change(t, [t EXCEPT !.inodes = [j \in DOMAIN @ \ {i} |-> @[j]]])

\* A slip in addNlink: the inode is rewritten with its old link count.
addNlinkNothing(t, i, delta) == IF i \notin DOMAIN t.inodes THEN Refuse(t) ELSE Change(t, t)

addNlink(t, i, delta) ==
  IF i \notin DOMAIN t.inodes THEN Refuse(t)
  ELSE Change(t, [t EXCEPT !.inodes[i].nlink = Max({0, @ + delta})])

adjustDirSize(t, d, delta) ==
  IF d \notin DOMAIN t.inodes THEN Refuse(t)
  ELSE Change(t, [t EXCEPT !.inodes[d].size = Max({0, @ + delta})])

touchDir(t, d) == addNlink(t, d, 0)

\* Items this module leaves out are written, or the superblock is.
writeExtents(t) == Change(t, t)
updateFsTreeRoot(t) == Change(t, t)

----------------------------------------------------------------------------
(* Operations. *)

\* The steps that a new child and a new link have in common.
addEntry(t, d, off, e) == insertDirItem(insertDirIndex(t, d, off, e), d, e)

growParent(t, d, n) == adjustDirSize(t, d, dirEntrySizeDelta(n))

shrinkParent(t, d, n) == adjustDirSize(t, d, -dirEntrySizeDelta(n))

createInodeWithDirEntry(t, d, n, kind) ==
  LET i   == nextInodeNum(t)
      off == nextDirIndexOffset(t, d)
      t1  == insertInode(t, i, Inode(kind, 1, 0))
      t2  == IF kind = "dir" THEN t1 ELSE writeExtents(t1)
      t3  == addEntry(t2, d, off, Entry(n, i, kind))
      t4  == insertInodeRef(t3, i, d, off, n)
  IN  updateFsTreeRoot(touchDir(growParent(t4, d, n), d))

\* The body is removed and written.  (The inode item that is updated after it
\* changes nothing here, and its error is dropped.)
overwriteFile(t) == updateFsTreeRoot(writeExtents(writeExtents(t)))

writeFile(t, d, n) ==
  LET found == lookupDirEntry(t, d, n)
  IN  CASE found = {} -> createInodeWithDirEntry(t, d, n, "file")
        [] \E e \in found : e.kind = "dir" -> Refuse(t)
        [] OTHER -> overwriteFile(t)

\* A slip in makeDir: an existing name is not refused.
makeDirAnyway(t, d, n) == createInodeWithDirEntry(t, d, n, "dir")

makeDir(t, d, n) ==
  IF lookupDirEntry(t, d, n) # {} THEN Refuse(t)
  ELSE createInodeWithDirEntry(t, d, n, "dir")

symlinkInode(t, d, n) ==
  IF lookupDirEntry(t, d, n) # {} THEN Refuse(t)
  ELSE createInodeWithDirEntry(t, d, n, "symlink")

linkInode(t, i, d, n) ==
  LET off == nextDirIndexOffset(t, d)
      t1  == addEntry(t, d, off, Entry(n, i, t.inodes[i].kind))
      t2  == addNlink(appendInodeRef(t1, i, d, off, n), i, 1)
  IN  IF t.inodes[i].kind = "dir" \/ lookupDirEntry(t, d, n) # {} THEN Refuse(t)
      ELSE updateFsTreeRoot(growParent(t2, d, n))

\* One name of several goes.
unlinkInodeOnly(t, i, d, n) ==
  LET t1 == removeDirItem(removeDirIndex(t, d, n), d, n)
      t2 == addNlink(removeInodeRef(t1, i, d, n), i, -1)
  IN  updateFsTreeRoot(touchDir(shrinkParent(t2, d, n), d))

\* A slip in removeInode: the other links of the inode are not looked at.
removeInodeLinked(t, i, d, n) ==
  LET t1 == Change(writeExtents(writeExtents(t)), [t EXCEPT !.refs[i, d] = {}])
      t2 == removeDirItem(removeDirIndex(removeInodeItem(t1, i), d, n), d, n)
  IN  updateFsTreeRoot(touchDir(shrinkParent(t2, d, n), d))

\* The last name goes, and the inode with it.
removeInode(t, i, d, n) ==
  LET body == writeExtents(writeExtents(t))          \* EXTENT_DATA, then XATTR_ITEM
      t1   == IF body.refs[i, d] = {} THEN body
              ELSE Change(body, [body EXCEPT !.refs[i, d] = {}])
      t2   == removeInodeItem(t1, i)
      t3   == removeDirItem(removeDirIndex(t2, d, n), d, n)
  IN  IF i \in DOMAIN t.inodes /\ t.inodes[i].nlink > 1 THEN unlinkInodeOnly(t, i, d, n)
      ELSE updateFsTreeRoot(touchDir(shrinkParent(t3, d, n), d))

deleteFile(t, d, n) ==
  LET found == lookupDirEntry(t, d, n)
      e     == CHOOSE x \in found : TRUE
  IN  IF found = {} \/ e.kind = "dir" THEN Refuse(t) ELSE removeInode(t, e.ino, d, n)

dropDirIndexes(t, d) ==
  IF \A x \in t.dirIndex : x.dir # d THEN t
  ELSE Change(t, [t EXCEPT !.dirIndex = {x \in @ : x.dir # d}])

\* A slip in deleteDir: the contents are not removed.
purgeNothing(t, d) == t

\* The entries are listed once, then removed one after the other, directories
\* after their own contents.
RECURSIVE purgeDirContents(_, _)
purgeDirContents(t, d) ==
  FoldLeft(LAMBDA u, x :
             LET v == IF x.kind = "dir" THEN dropDirIndexes(purgeDirContents(u, x.ino), x.ino) ELSE u
             IN  IF ~u.ok \/ ~v.ok THEN v ELSE removeInode(v, x.ino, d, x.name),
           t, readDir(t, d))

deleteDir(t, d, n) ==
  LET found == lookupDirEntry(t, d, n)
      e     == CHOOSE x \in found : TRUE
      t1    == dropDirIndexes(purgeDirContents(t, e.ino), e.ino)
  IN  CASE found = {} \/ e.kind # "dir" -> Refuse(t)
        [] OTHER -> IF t1.ok THEN removeInode(t1, e.ino, d, n) ELSE t1

renameEntry(t, d, n, d2, n2) ==
  LET src == lookupDirEntry(t, d, n)
      e   == CHOOSE x \in src : TRUE
      dst == lookupDirEntry(t, d2, n2)
      o   == CHOOSE x \in dst : TRUE
      t1  == IF dst = {} THEN t ELSE removeInode(t, o.ino, d2, n2)
      t2  == removeInodeRef(removeDirItem(removeDirIndex(t1, d, n), d, n), e.ino, d, n)
      off == nextDirIndexOffset(t2, d2)
      t3  == addEntry(t2, d2, off, Entry(n2, e.ino, e.kind))
      t4  == appendInodeRef(t3, e.ino, d2, off, n2)
      t5  == touchDir(growParent(shrinkParent(t4, d, n), d2, n2), d)
      t6  == IF d = d2 THEN t5 ELSE touchDir(t5, d2)
  IN  IF src = {} \/ (dst # {} /\ o.kind = "dir") THEN Refuse(t)
      ELSE updateFsTreeRoot(t6)

----------------------------------------------------------------------------
\* The items of the FS tree have their types; offsets and sizes stay in their bounds.
TypeOK ==
  /\ DOMAIN inodes \subseteq Inos
  /\ \A i \in DOMAIN inodes : inodes[i] \in [kind : Kinds, nlink : Nat, size : Nat]
  /\ dirIndex \subseteq [dir : Inos, off : 3 .. MaxIndex, name : Names, ino : Inos, kind : Kinds]
  /\ dirItem \in [Inos \X Hashes -> Seq([name : Names, ino : Inos, kind : Kinds])]
  /\ refs \in [Inos \X Inos -> SUBSET [idx : 3 .. MaxIndex, name : Names]]
  /\ ok \in BOOLEAN
  /\ faults \in 0 .. MaxFaults

Init ==
  /\ inodes = (rootDirObjID :> Inode("dir", 1, 0))
  /\ dirIndex = {}
  /\ dirItem = [x \in Inos \X Hashes |-> <<>>]
  /\ refs = [x \in Inos \X Inos |-> {}]
  /\ ok = TRUE
  /\ faults = 0
  /\ named = {}

Finish(t, fuse, names) ==
  /\ fuse > 0 => faults < MaxFaults
  /\ \A x \in t.dirIndex : x.off <= MaxIndex
  /\ inodes' = t.inodes
  /\ dirIndex' = t.dirIndex
  /\ dirItem' = t.dirItem
  /\ refs' = t.refs
  /\ ok' = t.ok
  /\ faults' = IF fuse > 0 /\ t.fuse = 0 THEN faults + 1 ELSE faults
  /\ named' = names

\* The bound on new inodes.
RoomForInode == nextInodeNum(Begin(0)) \in Inos

Parents == pathLookup(Begin(0))

WriteFile(d, n, f) ==
  RoomForInode /\ Finish(writeFile(Begin(f), d, n), f, {<<d, n>>})
MkDir(d, n, f) ==
  RoomForInode /\ Finish(makeDir(Begin(f), d, n), f, {<<d, n>>})
Symlink(d, n, f) ==
  RoomForInode /\ Finish(symlinkInode(Begin(f), d, n), f, {<<d, n>>})
Link(i, d, n, f) ==
  Finish(linkInode(Begin(f), i, d, n), f, {<<d, n>>})
DeleteFile(d, n, f) == Finish(deleteFile(Begin(f), d, n), f, {<<d, n>>})
DeleteDir(d, n, f) == Finish(deleteDir(Begin(f), d, n), f, {<<d, n>>})
Rename(d, n, d2, n2, f) ==
  Finish(renameEntry(Begin(f), d, n, d2, n2), f, {<<d, n>>, <<d2, n2>>})

Next ==
  \E f \in Fuses, d \in Parents, n \in Names :
    \/ WriteFile(d, n, f) \/ MkDir(d, n, f) \/ Symlink(d, n, f)
    \/ \E i \in Parents : Link(i, d, n, f)
    \/ DeleteFile(d, n, f) \/ DeleteDir(d, n, f)
    \/ \E d2 \in Parents, n2 \in Names : Rename(d, n, d2, n2, f)

Spec == Init /\ [][Next]_vars

----------------------------------------------------------------------------
(* Properties. *)

NamesOf(i) == {x \in dirIndex : x.ino = i}

\* The three records of a name agree: the DIR_ITEMs are the DIR_INDEX entries
\* under the hashes of their names, and the back references are the same
\* entries seen from the child, with the same offset.
EntriesAgree ==
  /\ \A d \in Inos, h \in Hashes :
       LET s == dirItem[d, h]
       IN  /\ ToSet(s) = {Entry(x.name, x.ino, x.kind) :
                            x \in {y \in dirIndex : y.dir = d /\ Hash[y.name] = h}}
           /\ IsInjective(s)
  /\ \A i, d \in Inos :
       refs[i, d] = {[idx |-> x.off, name |-> x.name] : x \in {y \in dirIndex : y.dir = d /\ y.ino = i}}

\* A directory has no two entries of one name or of one offset.
NamesUnique ==
  \A x, y \in dirIndex : x.dir = y.dir /\ (x.name = y.name \/ x.off = y.off) => x = y

\* The size of a directory is what `btrfs check` computes from its entries.
SizesAgree ==
  \A d \in DOMAIN inodes :
    inodes[d].kind = "dir" =>
      inodes[d].size = FoldSet(LAMBDA x, s : s + dirEntrySizeDelta(x.name), 0,
                               {x \in dirIndex : x.dir = d})

\* After any sequence of operations the records that describe one name do not
\* contradict each other, and the sizes are those of the names.
RecordsAgree == TypeOK /\ EntriesAgree /\ NamesUnique /\ SizesAgree

\* The link count of an inode is the number of its names, so that the data goes
\* with the last name and not before; directories have one name.
LinksCounted ==
  /\ \A x \in dirIndex : x.ino \in DOMAIN inodes /\ inodes[x.ino].kind = x.kind
  /\ \A i \in DOMAIN inodes \ {rootDirObjID} :
       /\ inodes[i].nlink = Cardinality(NamesOf(i))
       /\ inodes[i].kind = "dir" => inodes[i].nlink = 1

\* Every inode can be reached from the root: nothing is orphaned and no
\* directory hangs below itself.
AllReachable == DOMAIN inodes = Parents

\* The inodes below the one a name stands for.
SubtreeOf(d, n) ==
  Resolved(Begin(0), {e.ino : e \in lookupDirEntry(Begin(0), d, n)})

\* An inode that has a link for each name that leads to it.
Whole(i) ==
  /\ i \in DOMAIN inodes
  /\ inodes[i].nlink >=
       Quantify(Inos \X Names, LAMBDA x : \E e \in lookupDirEntry(Begin(0), x[1], x[2]) : e.ino = i)

Same(d, n) ==
  LET found == lookupDirEntry(Begin(0), d, n)
  IN  /\ found = lookupDirEntry(Begin(0), d, n)'
      /\ \A e \in found : Whole(e.ino) =>
           e.ino \in DOMAIN inodes' /\ inodes'[e.ino].kind = inodes[e.ino].kind

\* The names an operation is given, and what is below them.
Meant(d, n) == <<d, n>> \in named' \/ \E y \in named' : d \in SubtreeOf(y[1], y[2])

\* An operation on a name, whether it succeeds or fails half-way, leaves every
\* other name its entry and the inode behind it, as long as no earlier failure
\* took that inode or the count of its links from it.
OtherNamesUntouched ==
  [][\A x \in Inos \X Names : Meant(x[1], x[2]) \/ Same(x[1], x[2])]_vars

\* And after such a failure too: a name that has lost its inode does not come to
\* stand for a file made under another name, and the last link of a file is not
\* removed with one of its names.
OtherFilesUntouched ==
  [][\A d \in Inos, n \in Names : Meant(d, n) \/
       \A e \in lookupDirEntry(Begin(0), d, n) :
         e.ino \in DOMAIN inodes <=> e.ino \in DOMAIN inodes']_vars

\* A name whose hash is also the hash of another name of the directory is found
\* all the same, and a name that was removed is not: the lookup agrees with the
\* list of entries.
LookupAgreesWithList ==
  \A d \in DOMAIN inodes, n \in Names :
    lookupDirEntry(Begin(0), d, n)
      = {Entry(n, x.ino, x.kind) : x \in {y \in dirIndex : y.dir = d /\ y.name = n}}

\* A rename that succeeds leaves the inode under its new name.
RenameKeepsInode ==
  [][\A d, d2 \in Parents, n, n2 \in Names :
       Rename(d, n, d2, n2, 0) /\ ok' =>
         /\ lookupDirEntry(Begin(0), d2, n2)' # {}
         /\ \A e \in lookupDirEntry(Begin(0), d2, n2)' : e.ino \in DOMAIN inodes']_vars

\* Only an empty directory is removed.
DeleteDirWantsEmpty ==
  [][\A d \in Parents, n \in Names :
       DeleteDir(d, n, 0) /\ ok' =>
         \A e \in lookupDirEntry(Begin(0), d, n) : \A x \in dirIndex : x.dir # e.ino]_vars

\* The parent of a new entry is a directory.
ParentsAreDirectories == \A x \in dirIndex : inodes[x.dir].kind = "dir"

NT == INSTANCE NameTree WITH
        Root <- rootDirObjID,
        tree <- [x \in {<<y.dir, y.name>> : y \in dirIndex} |->
                   (CHOOSE e \in lookupDirEntry(Begin(0), x[1], x[2]) : TRUE).ino]

\* The items implement a tree of names.
ImplementsNameTree == NT!Spec
=============================================================================
