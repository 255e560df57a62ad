-------------------------- MODULE AttributesProofs --------------------------
(***************************************************************************)
(* Attributes read back as they were set, changes carry the generation of  *)
(* the commit that makes them durable, and the copies of the superblock    *)
(* have one label, for any number of inodes, names, values and calls.      *)
(***************************************************************************)
EXTENDS Attributes, TLAPS

Settings == Values \cup {Unset}
Records == [there : BOOLEAN, named : BOOLEAN, fields : [Fields -> Settings],
            seq : Nat, transid : Nat,
            xattrs : [Hashes -> SUBSET [name : Names, value : Values]]]
Promises == [Inodes -> [Attrs -> SUBSET Settings]]
Supers == [generation : Nat, label : Labels]

\* What is stored and promised has its type.
StoreTyped ==
  /\ tree \in [Inodes -> Records] /\ image \in [Inodes -> Records]
  /\ generation \in Nat /\ supers \in [Copies -> Supers] /\ label \in Labels
  /\ promise \in Promises /\ saved \in Promises
  /\ torn \subseteq Copies
  /\ calls \in 0 .. MaxCalls /\ faults \in 0 .. MaxFaults

Kinds == {"none", "field", "setxattr", "removexattr", "create", "remove", "label"}
Stages == {"none", "xattr", "inode", "insert", "link", "xattrs", "item", "unlink",
           "commit", "write"}
Ops == [kind : Kinds, ino : 0 .. MaxInode, attr : Attrs \cup {"none"},
        value : Settings \cup Labels, stage : Stages, todo : SUBSET Copies,
        skipped : SUBSET Copies]

FileOp(kind, attrs, values, stages) ==
  /\ op.kind = kind /\ op.ino \in Inodes /\ op.attr \in attrs /\ op.value \in values
  /\ op.stage \in stages

\* Each call goes through its own stages with its own arguments.
OpTyped ==
  /\ op \in Ops
  /\ op.kind # "label" => op.todo = {} /\ op.skipped = {}
  /\ \/ op = Idle
     \/ FileOp("field", Fields, Values, {"inode", "commit"})
     \/ FileOp("setxattr", Names, Values, {"xattr", "inode", "commit"})
     \/ FileOp("removexattr", Names, {Unset}, {"xattr", "inode", "commit"})
     \/ FileOp("create", {"none"}, {Unset}, {"insert", "link", "commit"})
     \/ FileOp("remove", {"none"}, {Unset}, {"xattrs", "item", "unlink", "commit"})
     \/ op.kind = "label" /\ op.value \in Labels /\ op.stage = "write"

Typed == StoreTyped /\ OpTyped

\* Every transaction and every change belongs to a call of its own.
Counted ==
  /\ generation = supers[0].generation
  /\ generation <= (IF op = Idle THEN calls + 1 ELSE calls)
  /\ \A i \in Inodes :
       /\ tree[i].seq <= calls /\ tree[i].transid <= calls + 1
       /\ image[i].seq <= calls /\ image[i].transid <= calls + 1
       /\ op.stage \in {"xattr", "inode"} => tree[i].seq < calls

\* A change that is not committed yet has the number of the next transaction.
Dated ==
  \A i \in Inodes :
    /\ image[i].there => image[i].transid <= generation
    /\ tree[i].there /\ InodeItem(tree[i]) # InodeItem(image[i])
         => tree[i].transid = generation + 1

\* While SetLabel is on its way nothing is said of the copies but what it wrote;
\* the primary is never passed over.
Labelled ==
  /\ LabelsAgree
  /\ 0 \in torn => torn = Copies
  /\ 0 \notin op.skipped
  /\ op.kind = "label" =>
       /\ torn = Copies
       /\ \A k \in Copies \ (op.todo \cup op.skipped) : supers[k].label = op.value

NoXattrs == [h \in Hashes |-> {}]

\* The attributes that share the item of a.
Colliding(a) == IF a \in Names THEN {n \in Names \ {a} : Hash[n] = Hash[a]} ELSE {}

\* In the middle of a call too, and for the image as for the tree.
Kept ==
  \A i \in Inodes :
    /\ Found(i) => \A a \in Attrs : Read(tree[i], a) \in promise[i][a]
    /\ image[i].there /\ image[i].named => \A a \in Attrs : Read(image[i], a) \in saved[i][a]

\* A number that is not in use has no XATTR_ITEMs left.
FreeIsBare ==
  \A i \in Inodes : /\ ~tree[i].there => tree[i].xattrs = NoXattrs
                    /\ ~image[i].there => image[i].xattrs = NoXattrs

\* What a call has done of its work, and what its beginning allows.
InFlight ==
  /\ op.kind = "create" =>
       /\ \A a \in Attrs : promise[op.ino][a] = {Unset}
       /\ IF op.stage = "insert" THEN ~tree[op.ino].there
          ELSE \A a \in Attrs : Read(tree[op.ino], a) = Unset
  /\ op.kind \in {"field", "setxattr", "removexattr"} =>
       /\ tree[op.ino].there
       /\ op.value \in promise[op.ino][op.attr]
       /\ \A a \in Colliding(op.attr) : Unset \in promise[op.ino][a]
       /\ op.stage = "commit" \/ (op.kind # "field" /\ op.stage = "inode")
            => Read(tree[op.ino], op.attr) = op.value
  /\ op.kind = "remove" =>
       /\ \A a \in Attrs : Unset \in promise[op.ino][a]
       /\ op.stage = "item" => tree[op.ino].xattrs = NoXattrs
       /\ op.stage \in {"unlink", "commit"} => ~tree[op.ino].there

Base == Typed /\ Counted /\ Dated /\ Labelled

IInv == Base /\ Kept /\ FreeIsBare /\ InFlight

----------------------------------------------------------------------------
\* What is read depends on the fields and the items alone.
LEMMA ReadCongruent ==
  ASSUME NEW x, NEW y, x.fields = y.fields, x.xattrs = y.xattrs, NEW a
  PROVE  Read(x, a) = Read(y, a)
BY DEF Read, ExtendedStat, getXattrInode

\* Without items and with fresh fields nothing is set.
LEMMA BareReadsUnset ==
  ASSUME NEW x, x.fields = [f \in Fields |-> Unset], x.xattrs = NoXattrs, NEW a \in Attrs
  PROVE  Read(x, a) = Unset
BY AttributesAssumption DEF Read, ExtendedStat, getXattrInode, NoXattrs, Attrs, Hashes

\* nextInodeNum gives a number that no inode has.
LEMMA NextInodeIsFree ==
  ASSUME NEW i \in nextInodeNum
  PROVE  i \in Inodes /\ ~tree[i].there
BY AttributesAssumption DEF nextInodeNum, Inodes

LEMMA InitIInv == Init => IInv
<1> SUFFICES ASSUME Init PROVE IInv
  OBVIOUS
<1> USE AttributesAssumption DEF Init, Idle, Unset
<1>1. Absent \in Records
  BY DEF Absent, Records, Settings
<1>2. Typed
  BY <1>1 DEF Typed, StoreTyped, OpTyped, Ops, Kinds, Stages, Promises, Supers, Settings
<1>3. Counted /\ Dated /\ Labelled
  BY DEF Counted, Dated, Labelled, LabelsAgree, Absent
<1>4. Kept /\ FreeIsBare /\ InFlight
  BY Zenon DEF Kept, Found, FreeIsBare, NoXattrs, InFlight, Absent
<1> QED
  BY <1>2, <1>3, <1>4 DEF IInv, Base

----------------------------------------------------------------------------
\* The arguments of the call on its way.
LEMMA CallArgs ==
  ASSUME Typed
  PROVE  /\ op.kind \notin {"none", "label"} => op.ino \in Inodes
         /\ op.kind = "field" => op.attr \in Fields /\ op.value \in Values
         /\ op.kind = "setxattr" => op.attr \in Names /\ op.value \in Values
         /\ op.kind = "removexattr" => op.attr \in Names /\ op.value = Unset
         /\ op.kind = "label" => op.value \in Labels /\ op.stage = "write"
         /\ op.todo # {} => op.kind = "label"
         /\ op.stage = "inode" => op.kind \in {"field", "setxattr", "removexattr"}
         /\ op.stage = "commit" =>
              op.kind \in {"field", "setxattr", "removexattr", "create", "remove"}
<1>1. op = Idle => op.kind = "none" /\ op.stage = "none"
  BY DEF Idle
<1> QED
  BY <1>1 DEF Typed, OpTyped, FileOp

\* The edits of an inode give an inode.
LEMMA RecordEdits ==
  ASSUME NEW x \in Records
  PROVE  /\ \A n \in Names, v \in Values :
              [x EXCEPT !.xattrs[Hash[n]] = {[name |-> n, value |-> v]}] \in Records
         /\ \A n \in Names : [x EXCEPT !.xattrs[Hash[n]] = {}] \in Records
         /\ [x EXCEPT !.xattrs = NoXattrs] \in Records
         /\ \A f \in Fields, v \in Values : [x EXCEPT !.fields[f] = v] \in Records
         /\ \A g \in Nat : [x EXCEPT !.transid = g, !.seq = @ + 1] \in Records
         /\ \A g \in Nat : [x EXCEPT !.there = TRUE, !.fields = [f \in Fields |-> Unset],
                                     !.seq = 0, !.transid = g] \in Records
         /\ [x EXCEPT !.there = FALSE] \in Records
         /\ \A b \in BOOLEAN : [x EXCEPT !.named = b] \in Records
<1> USE DEF Records, Settings, NoXattrs
<1>1. \A n \in Names : Hash[n] \in Hashes
  BY DEF Hashes
<1>2. \A n \in Names, v \in Values :
        [x EXCEPT !.xattrs[Hash[n]] = {[name |-> n, value |-> v]}] \in Records
  BY <1>1
<1>3. \A n \in Names : [x EXCEPT !.xattrs[Hash[n]] = {}] \in Records
  BY <1>1
<1>4. [x EXCEPT !.xattrs = NoXattrs] \in Records
  OBVIOUS
<1>5. \A f \in Fields, v \in Values : [x EXCEPT !.fields[f] = v] \in Records
  OBVIOUS
<1>6. \A g \in Nat : [x EXCEPT !.transid = g, !.seq = @ + 1] \in Records
  <2>1. x.seq + 1 \in Nat
    OBVIOUS
  <2> QED
    BY <2>1, Zenon
<1>7. \A g \in Nat : [x EXCEPT !.there = TRUE, !.fields = [f \in Fields |-> Unset],
                               !.seq = 0, !.transid = g] \in Records
  BY Zenon
<1>8. /\ [x EXCEPT !.there = FALSE] \in Records
      /\ \A b \in BOOLEAN : [x EXCEPT !.named = b] \in Records
  BY Zenon
<1> QED
  BY <1>2, <1>3, <1>4, <1>5, <1>6, <1>7, <1>8


\* A weakened promise is a promise.
LEMMA WeakenedTyped ==
  ASSUME StoreTyped, NEW i \in Inodes, NEW a, NEW v \in Settings
  PROVE  Weakened(i, a, v) \in Promises
BY DEF StoreTyped, Promises, Weakened, Settings

\* The types are kept.
LEMMA StoreStep == Typed /\ [Next]_vars => StoreTyped'
<1> SUFFICES ASSUME Typed, [Next]_vars PROVE StoreTyped'
  OBVIOUS
<1> USE AttributesAssumption DEF Typed, StoreTyped, Goto, Rest, At
<1>1. CASE WriteFile
  BY <1>1, NextInodeIsFree DEF WriteFile, Begin, Promises, Settings
<1>2. ASSUME NEW i \in Inodes, DeleteFile(i) PROVE StoreTyped'
  BY <1>2 DEF DeleteFile, Begin, Promises, Settings
<1>3. ASSUME NEW i \in Inodes, NEW f \in Fields, NEW v \in Values, SetField(i, f, v) PROVE StoreTyped'
  BY <1>3, WeakenedTyped DEF SetField, Begin, Settings
<1>4. ASSUME NEW i \in Inodes, NEW n \in Names, RemoveXattr(i, n) PROVE StoreTyped'
  BY <1>4, WeakenedTyped DEF RemoveXattr, Begin, Settings
<1>5. ASSUME NEW i \in Inodes, NEW n \in Names, NEW v \in Values, SetXattr(i, n, v) PROVE StoreTyped'
  BY <1>5, WeakenedTyped DEF SetXattr, Begin, Settings
<1>6. ASSUME NEW l \in Labels, SetLabel(l) PROVE StoreTyped'
  BY <1>6 DEF SetLabel
<1>7. CASE putXattr
  BY <1>7, CallArgs, RecordEdits, Zenon DEF putXattr
<1>8. CASE deleteXattr
  BY <1>8, CallArgs, RecordEdits, Zenon DEF deleteXattr
<1>9. CASE updateInodeMetadata
  <2>1. op.ino \in Inodes /\ generation + 1 \in Nat
    BY <1>9, CallArgs DEF updateInodeMetadata
  <2> DEFINE x == IF op.kind # "field" THEN tree[op.ino]
                  ELSE [tree[op.ino] EXCEPT !.fields[op.attr] = op.value]
  <2>2. x \in Records
    BY <1>9, <2>1, CallArgs, RecordEdits, Zenon
  <2>3. bumpInodeTransIDSequence(x) \in Records
    BY <2>1, <2>2, RecordEdits, Zenon DEF bumpInodeTransIDSequence
  <2>4. tree' = [tree EXCEPT ![op.ino] = bumpInodeTransIDSequence(x)]
    BY <1>9 DEF updateInodeMetadata
  <2> HIDE DEF x
  <2> QED
    BY <1>9, <2>1, <2>3, <2>4 DEF updateInodeMetadata
<1>10. CASE insertInode
  <2>1. op.ino \in Inodes /\ generation + 1 \in Nat
    BY <1>10, CallArgs DEF insertInode
  <2>2. tree' \in [Inodes -> Records]
    BY <1>10, <2>1, RecordEdits, ZenonT(40) DEF insertInode
  <2> QED
    BY <1>10, <2>2 DEF insertInode
<1>11. CASE insertEntries
  BY <1>11, CallArgs, RecordEdits, Zenon DEF insertEntries
<1>12. CASE insertEntriesFail
  <2>1. PICK b \in BOOLEAN : tree' = [tree EXCEPT ![op.ino].named = @ \/ b]
    BY <1>12, Zenon DEF insertEntriesFail
  <2>2. op.ino \in Inodes
    BY <1>12, CallArgs DEF insertEntriesFail
  <2>3. tree' \in [Inodes -> Records]
    BY <2>1, <2>2, RecordEdits, Zenon
  <2> QED
    BY <1>12, <2>3 DEF insertEntriesFail
<1>13. CASE removeXattrItems
  BY <1>13, CallArgs, RecordEdits, Zenon DEF removeXattrItems, NoXattrs
<1>14. CASE removeInodeItem
  BY <1>14, CallArgs, RecordEdits, Zenon DEF removeInodeItem
<1>15. CASE removeEntries
  BY <1>15, CallArgs, RecordEdits, Zenon DEF removeEntries
<1>16. CASE changeFails
  <2>1. Abort
    BY <1>16 DEF changeFails
  <2> QED
    BY <2>1 DEF Abort
<1>17. CASE updateFsTreeRoot
  <2>1. op.ino \in Inodes /\ (op.value \in Settings \/ op.kind \in {"create", "remove"})
    BY <1>17, CallArgs DEF updateFsTreeRoot, Settings
  <2>2. promise' \in Promises
    BY <1>17, <2>1 DEF updateFsTreeRoot, Promises, Settings
  <2>3. generation' \in Nat /\ supers' \in [Copies -> Supers]
    BY <1>17 DEF updateFsTreeRoot, Supers
  <2> QED
    BY <1>17, <2>2, <2>3 DEF updateFsTreeRoot
<1>18. ASSUME NEW k \in Copies, writeLabel(k) PROVE StoreTyped'
  <2>1. op.value \in Labels
    BY <1>18, CallArgs DEF writeLabel, Copied
  <2> QED
    BY <1>18, <2>1 DEF writeLabel, Files, Supers
<1>19. ASSUME NEW k \in Copies, mirrorUnread(k) PROVE StoreTyped'
  BY <1>19 DEF mirrorUnread, Copied, Files
<1>20. CASE labelFails
  BY <1>20 DEF labelFails, Abort
<1>21. CASE syncLabel
  BY <1>21, CallArgs DEF syncLabel, Files, OpTyped, Ops
<1>22. CASE Remount
  BY <1>22 DEF Remount, Supers
<1>23. CASE UNCHANGED vars
  BY <1>23 DEF vars, OpTyped, FileOp
<1> QED
  BY <1>1, <1>2, <1>3, <1>4, <1>5, <1>6, <1>7, <1>8, <1>9, <1>10, <1>11, <1>12, <1>13,
     <1>14, <1>15, <1>16, <1>17, <1>18, <1>19, <1>20, <1>21, <1>22, <1>23, Zenon DEF Next, Calls, Steps

LEMMA InodeInRange == ASSUME NEW i \in Inodes PROVE i \in 0 .. MaxInode
BY AttributesAssumption DEF Inodes

LEMMA IdleFields ==
  /\ Idle.kind = "none" /\ Idle.stage = "none" /\ Idle.skipped = {} /\ Idle.todo = {}
BY DEF Idle

\* Between calls there is nothing to say of the call.
LEMMA IdleTyped == op' = Idle => OpTyped'
BY AttributesAssumption
   DEF Idle, OpTyped, Ops, Kinds, Stages, Settings, Attrs, Unset

\* A call that goes to another of its stages keeps its arguments.
LEMMA GotoTyped ==
  ASSUME Typed, NEW st \in Stages, op' = [op EXCEPT !.stage = st],
         \/ op.kind \in {"field", "setxattr", "removexattr"} /\ st \in {"inode", "commit"}
         \/ op.kind = "create" /\ st \in {"link", "commit"}
         \/ op.kind = "remove" /\ st \in {"item", "unlink", "commit"}
  PROVE  OpTyped'
<1>1. op' \in Ops /\ op'.todo = op.todo /\ op'.skipped = op.skipped /\ op'.kind = op.kind
  BY DEF Typed, OpTyped, Ops
<1>2. op # Idle
  BY IdleFields
<1>3. \/ FileOp("field", Fields, Values, {"inode", "commit"})'
      \/ FileOp("setxattr", Names, Values, {"xattr", "inode", "commit"})'
      \/ FileOp("removexattr", Names, {Unset}, {"xattr", "inode", "commit"})'
      \/ FileOp("create", {"none"}, {Unset}, {"insert", "link", "commit"})'
      \/ FileOp("remove", {"none"}, {Unset}, {"xattrs", "item", "unlink", "commit"})'
  BY <1>2 DEF Typed, OpTyped, Ops, FileOp
<1> QED
  BY <1>1, <1>3 DEF Typed, OpTyped

\* A call keeps to its stages.
LEMMA OpStep == Typed /\ [Next]_vars => OpTyped'
<1> SUFFICES ASSUME Typed, [Next]_vars PROVE OpTyped'
  OBVIOUS
<1> USE AttributesAssumption DEF Typed
<1>1. CASE WriteFile
  <2>1. PICK i \in nextInodeNum : Begin("create", i, "none", Unset, "insert")
    BY <1>1 DEF WriteFile
  <2>2. i \in Inodes
    BY NextInodeIsFree
  <2> QED
    BY <2>1, <2>2, InodeInRange, Zenon DEF Begin, OpTyped, Ops, Kinds, Stages, FileOp, Idle, Settings, Attrs
<1>2. ASSUME NEW i \in Inodes, DeleteFile(i) PROVE OpTyped'
  BY <1>2, InodeInRange, Zenon DEF DeleteFile, Begin, OpTyped, Ops, Kinds, Stages, FileOp, Idle, Settings, Attrs
<1>3. ASSUME NEW i \in Inodes, NEW f \in Fields, NEW v \in Values, SetField(i, f, v) PROVE OpTyped'
  BY <1>3, InodeInRange, Zenon DEF SetField, Begin, Weakened, OpTyped, Ops, Kinds, Stages, FileOp, Idle, Settings, Attrs
<1>4. ASSUME NEW i \in Inodes, NEW n \in Names, RemoveXattr(i, n) PROVE OpTyped'
  BY <1>4, InodeInRange, Zenon DEF RemoveXattr, Begin, Weakened, OpTyped, Ops, Kinds, Stages, FileOp, Idle, Settings, Attrs
<1>5. ASSUME NEW i \in Inodes, NEW n \in Names, NEW v \in Values, SetXattr(i, n, v) PROVE OpTyped'
  BY <1>5, InodeInRange, Zenon DEF SetXattr, Begin, Weakened, OpTyped, Ops, Kinds, Stages, FileOp, Idle, Settings, Attrs
<1>6. ASSUME NEW l \in Labels, SetLabel(l) PROVE OpTyped'
  BY <1>6, InodeInRange, Zenon DEF SetLabel, OpTyped, Ops, Kinds, Stages, FileOp, Idle, Settings, Attrs
<1>7. CASE putXattr
  BY <1>7, GotoTyped, CallArgs DEF putXattr, Goto, At, Stages, FileOp
<1>8. CASE deleteXattr
  BY <1>8, GotoTyped, CallArgs DEF deleteXattr, Goto, At, Stages, FileOp
<1>9. CASE updateInodeMetadata
  BY <1>9, GotoTyped, CallArgs DEF updateInodeMetadata, Goto, At, Stages, FileOp
<1>10. CASE insertInode
  BY <1>10, GotoTyped, CallArgs DEF insertInode, Goto, At, Stages, FileOp
<1>11. CASE insertEntries
  BY <1>11, GotoTyped, CallArgs DEF insertEntries, Goto, At, Stages, FileOp
<1>12. CASE insertEntriesFail
  BY <1>12, IdleTyped DEF insertEntriesFail
<1>13. CASE removeXattrItems
  BY <1>13, GotoTyped, CallArgs DEF removeXattrItems, Goto, At, Stages, FileOp
<1>14. CASE removeInodeItem
  BY <1>14, GotoTyped, CallArgs DEF removeInodeItem, Goto, At, Stages, FileOp
<1>15. CASE removeEntries
  BY <1>15, GotoTyped, CallArgs DEF removeEntries, Goto, At, Stages, FileOp
<1>16. CASE changeFails
  BY <1>16, IdleTyped DEF changeFails, Abort
<1>17. CASE updateFsTreeRoot
  BY <1>17, IdleTyped DEF updateFsTreeRoot
<1>18. ASSUME NEW k \in Copies, writeLabel(k) PROVE OpTyped'
  BY <1>18, CallArgs DEF writeLabel, Copied, OpTyped, Ops
<1>19. ASSUME NEW k \in Copies, mirrorUnread(k) PROVE OpTyped'
  BY <1>19, CallArgs, Zenon DEF mirrorUnread, Copied, OpTyped, Ops
<1>20. CASE labelFails
  BY <1>20, IdleTyped DEF labelFails, Abort
<1>21. CASE syncLabel
  BY <1>21, IdleTyped DEF syncLabel
<1>22. CASE Remount
  BY <1>22, IdleTyped DEF Remount
<1>23. CASE UNCHANGED vars
  BY <1>23 DEF vars, OpTyped, FileOp
<1> QED
  BY <1>1, <1>2, <1>3, <1>4, <1>5, <1>6, <1>7, <1>8, <1>9, <1>10, <1>11, <1>12, <1>13,
     <1>14, <1>15, <1>16, <1>17, <1>18, <1>19, <1>20, <1>21, <1>22, <1>23 DEF Next, Calls, Steps

\* A transaction for a call, a change for a call.
LEMMA CountedStep == Typed /\ Typed' /\ Counted /\ [Next]_vars => Counted'
<1> SUFFICES ASSUME Typed, Typed', Counted, [Next]_vars PROVE Counted'
  OBVIOUS
<1>0. /\ tree \in [Inodes -> Records] /\ tree' \in [Inodes -> Records]
      /\ image \in [Inodes -> Records]
      /\ generation \in Nat /\ calls \in Nat
      /\ \A x \in Records : x.seq \in Nat /\ x.transid \in Nat
      /\ supers \in [Copies -> Supers] /\ supers[0].generation \in Nat
  BY AttributesAssumption DEF Typed, StoreTyped, Records, Supers
<1> USE <1>0 DEF Counted, Goto, Rest, At
<1>1. CASE WriteFile
  BY <1>1 DEF WriteFile, Begin
<1>2. ASSUME NEW i \in Inodes, DeleteFile(i) PROVE Counted'
  BY <1>2 DEF DeleteFile, Begin
<1>3. ASSUME NEW i \in Inodes, NEW f \in Fields, NEW v \in Values, SetField(i, f, v) PROVE Counted'
  BY <1>3 DEF SetField, Begin
<1>4. ASSUME NEW i \in Inodes, NEW n \in Names, RemoveXattr(i, n) PROVE Counted'
  BY <1>4 DEF RemoveXattr, Begin
<1>5. ASSUME NEW i \in Inodes, NEW n \in Names, NEW v \in Values, SetXattr(i, n, v) PROVE Counted'
  BY <1>5 DEF SetXattr, Begin
<1>6. ASSUME NEW l \in Labels, SetLabel(l) PROVE Counted'
  BY <1>6 DEF SetLabel
<1>7. CASE putXattr
  BY <1>7, IdleFields, CallArgs DEF putXattr
<1>8. CASE deleteXattr
  BY <1>8, IdleFields, CallArgs DEF deleteXattr
<1>9. CASE updateInodeMetadata
  BY <1>9, IdleFields, CallArgs DEF updateInodeMetadata, bumpInodeTransIDSequence
<1>10. CASE insertInode
  BY <1>10, IdleFields, CallArgs DEF insertInode
<1>11. CASE insertEntries
  BY <1>11, IdleFields, CallArgs DEF insertEntries
<1>12. CASE insertEntriesFail
  BY <1>12, IdleFields, CallArgs DEF insertEntriesFail
<1>13. CASE removeXattrItems
  <2>1. op # Idle /\ op'.stage \notin {"xattr", "inode"} /\ op.ino \in Inodes
    BY <1>13, IdleFields, CallArgs DEF removeXattrItems, Typed, OpTyped, Ops
  <2>2. \A i \in Inodes : tree'[i].seq = tree[i].seq /\ tree'[i].transid = tree[i].transid
    BY <1>13, <2>1 DEF removeXattrItems, Records
  <2>3. UNCHANGED <<image, generation, supers, calls>>
    BY <1>13 DEF removeXattrItems
  <2> QED
    BY <2>1, <2>2, <2>3
<1>14. CASE removeInodeItem
  <2>1. op # Idle /\ op'.stage \notin {"xattr", "inode"} /\ op.ino \in Inodes
    BY <1>14, IdleFields, CallArgs DEF removeInodeItem, Typed, OpTyped, Ops
  <2>2. \A i \in Inodes : tree'[i].seq = tree[i].seq /\ tree'[i].transid = tree[i].transid
    BY <1>14, <2>1 DEF removeInodeItem, Records
  <2>3. UNCHANGED <<image, generation, supers, calls>>
    BY <1>14 DEF removeInodeItem
  <2> QED
    BY <2>1, <2>2, <2>3
<1>15. CASE removeEntries
  BY <1>15, IdleFields, CallArgs DEF removeEntries
<1>16. CASE changeFails
  <2>1. op # Idle /\ Abort
    BY <1>16, IdleFields, Zenon DEF changeFails
  <2>2. op'.stage \notin {"xattr", "inode"}
    BY <2>1, IdleFields DEF Abort
  <2> QED
    BY <2>1, <2>2 DEF Abort
<1>17. CASE updateFsTreeRoot
  <2>1. op # Idle /\ op' = Idle /\ op'.stage \notin {"xattr", "inode"}
    BY <1>17, IdleFields DEF updateFsTreeRoot
  <2>2. supers'[0].generation = generation + 1 /\ generation' = generation + 1
    BY <1>17, AttributesAssumption DEF updateFsTreeRoot, Supers
  <2> QED
    BY <1>17, <2>1, <2>2 DEF updateFsTreeRoot
<1>18. ASSUME NEW k \in Copies, writeLabel(k) PROVE Counted'
  BY <1>18, IdleFields, CallArgs DEF writeLabel, Copied, Files
<1>19. ASSUME NEW k \in Copies, mirrorUnread(k) PROVE Counted'
  BY <1>19, IdleFields, CallArgs DEF mirrorUnread, Copied, Files
<1>20. CASE labelFails
  BY <1>20, IdleFields, CallArgs DEF labelFails, Abort
<1>21. CASE syncLabel
  BY <1>21, IdleFields, CallArgs DEF syncLabel, Files
<1>22. CASE Remount
  BY <1>22, IdleFields, CallArgs DEF Remount
<1>23. CASE UNCHANGED vars
  BY <1>23 DEF vars
<1> QED
  BY <1>1, <1>2, <1>3, <1>4, <1>5, <1>6, <1>7, <1>8, <1>9, <1>10, <1>11, <1>12, <1>13,
     <1>14, <1>15, <1>16, <1>17, <1>18, <1>19, <1>20, <1>21, <1>22, <1>23, Zenon DEF Next, Calls, Steps

\* What a call changes has the number of the transaction that commits it.
LEMMA DatedStep == Typed /\ Counted /\ Dated /\ [Next]_vars => Dated'
<1> SUFFICES ASSUME Typed, Counted, Dated, [Next]_vars PROVE Dated'
  OBVIOUS
<1>0. /\ tree \in [Inodes -> Records] /\ image \in [Inodes -> Records]
      /\ generation \in Nat
      /\ \A x \in Records : x.transid \in Nat
  BY DEF Typed, StoreTyped, Records
<1>a. UNCHANGED <<tree, image, generation>> => Dated'
  BY DEF Dated
<1>b. UNCHANGED <<image, generation>> /\ (\A i \in Inodes : InodeItem(tree'[i]) = InodeItem(tree[i]))
        => Dated'
  BY DEF Dated, InodeItem
<1>c. ASSUME UNCHANGED <<image, generation>>, \A i \in Inodes \ {op.ino} : tree'[i] = tree[i],
             ~tree'[op.ino].there \/ tree'[op.ino].transid = generation + 1
      PROVE  Dated'
  BY <1>c DEF Dated
<1> USE <1>0 DEF Goto, Rest, At
<1>1. CASE WriteFile
  BY <1>1, <1>a DEF WriteFile, Begin
<1>2. ASSUME NEW i \in Inodes, DeleteFile(i) PROVE Dated'
  BY <1>2, <1>a DEF DeleteFile, Begin
<1>3. ASSUME NEW i \in Inodes, NEW f \in Fields, NEW v \in Values, SetField(i, f, v) PROVE Dated'
  BY <1>3, <1>a DEF SetField, Begin, Weakened
<1>4. ASSUME NEW i \in Inodes, NEW n \in Names, RemoveXattr(i, n) PROVE Dated'
  BY <1>4, <1>a DEF RemoveXattr, Begin, Weakened
<1>5. ASSUME NEW i \in Inodes, NEW n \in Names, NEW v \in Values, SetXattr(i, n, v) PROVE Dated'
  BY <1>5, <1>a DEF SetXattr, Begin, Weakened
<1>6. ASSUME NEW l \in Labels, SetLabel(l) PROVE Dated'
  BY <1>6, <1>a DEF SetLabel
<1>7. CASE putXattr
  <2>1. op.ino \in Inodes
    BY <1>7, CallArgs DEF putXattr
  <2>2. \A i \in Inodes : InodeItem(tree'[i]) = InodeItem(tree[i])
    BY <1>7, <2>1 DEF putXattr, InodeItem, Records
  <2>3. UNCHANGED <<image, generation>>
    BY <1>7 DEF putXattr
  <2> QED
    BY <2>2, <2>3, <1>b
<1>8. CASE deleteXattr
  <2>1. op.ino \in Inodes
    BY <1>8, CallArgs DEF deleteXattr
  <2>2. \A i \in Inodes : InodeItem(tree'[i]) = InodeItem(tree[i])
    BY <1>8, <2>1 DEF deleteXattr, InodeItem, Records
  <2>3. UNCHANGED <<image, generation>>
    BY <1>8 DEF deleteXattr
  <2> QED
    BY <2>2, <2>3, <1>b
<1>9. CASE updateInodeMetadata
  <2>1. op.ino \in Inodes
    BY <1>9, CallArgs DEF updateInodeMetadata
  <2> DEFINE x == IF op.kind # "field" THEN tree[op.ino]
                  ELSE [tree[op.ino] EXCEPT !.fields[op.attr] = op.value]
  <2>2. x \in Records
    BY <1>9, <2>1, CallArgs, RecordEdits, Zenon DEF updateInodeMetadata
  <2>3. bumpInodeTransIDSequence(x).transid = generation + 1
    BY <2>2 DEF bumpInodeTransIDSequence, Records
  <2>4. tree' = [tree EXCEPT ![op.ino] = bumpInodeTransIDSequence(x)]
    BY <1>9 DEF updateInodeMetadata
  <2>5. UNCHANGED <<image, generation>>
    BY <1>9 DEF updateInodeMetadata
  <2> HIDE DEF x
  <2> QED
    BY <2>1, <2>3, <2>4, <2>5, <1>c
<1>10. CASE insertInode
  <2>1. op.ino \in Inodes
    BY <1>10, CallArgs DEF insertInode
  <2>2. /\ \A i \in Inodes \ {op.ino} : tree'[i] = tree[i]
        /\ tree'[op.ino].transid = generation + 1
    BY <1>10, <2>1 DEF insertInode, Records
  <2>3. UNCHANGED <<image, generation>>
    BY <1>10 DEF insertInode
  <2> QED
    BY <2>1, <2>2, <2>3, <1>c
<1>11. CASE insertEntries
  <2>1. op.ino \in Inodes
    BY <1>11, CallArgs DEF insertEntries
  <2>2. \A i \in Inodes : InodeItem(tree'[i]) = InodeItem(tree[i])
    BY <1>11, <2>1 DEF insertEntries, InodeItem, Records
  <2>3. UNCHANGED <<image, generation>>
    BY <1>11 DEF insertEntries
  <2> QED
    BY <2>2, <2>3, <1>b
<1>12. CASE insertEntriesFail
  <2>1. op.ino \in Inodes
    BY <1>12, CallArgs DEF insertEntriesFail
  <2>2. \A i \in Inodes : InodeItem(tree'[i]) = InodeItem(tree[i])
    BY <1>12, <2>1 DEF insertEntriesFail, InodeItem, Records
  <2>3. UNCHANGED <<image, generation>>
    BY <1>12 DEF insertEntriesFail
  <2> QED
    BY <2>2, <2>3, <1>b
<1>13. CASE removeXattrItems
  <2>1. op.ino \in Inodes
    BY <1>13, CallArgs DEF removeXattrItems
  <2>2. \A i \in Inodes : InodeItem(tree'[i]) = InodeItem(tree[i])
    BY <1>13, <2>1 DEF removeXattrItems, InodeItem, Records
  <2>3. UNCHANGED <<image, generation>>
    BY <1>13 DEF removeXattrItems
  <2> QED
    BY <2>2, <2>3, <1>b
<1>14. CASE removeInodeItem
  <2>1. op.ino \in Inodes
    BY <1>14, CallArgs DEF removeInodeItem
  <2>2. /\ \A i \in Inodes \ {op.ino} : tree'[i] = tree[i]
        /\ ~tree'[op.ino].there
    BY <1>14, <2>1 DEF removeInodeItem, Records
  <2>3. UNCHANGED <<image, generation>>
    BY <1>14 DEF removeInodeItem
  <2> QED
    BY <2>1, <2>2, <2>3, <1>c
<1>15. CASE removeEntries
  <2>1. op.ino \in Inodes
    BY <1>15, CallArgs DEF removeEntries
  <2>2. \A i \in Inodes : InodeItem(tree'[i]) = InodeItem(tree[i])
    BY <1>15, <2>1 DEF removeEntries, InodeItem, Records
  <2>3. UNCHANGED <<image, generation>>
    BY <1>15 DEF removeEntries
  <2> QED
    BY <2>2, <2>3, <1>b
<1>16. CASE changeFails
  BY <1>16, <1>a DEF changeFails, Abort
<1>17. CASE updateFsTreeRoot
  <2>1. image' = tree /\ tree' = tree /\ generation' = generation + 1
    BY <1>17 DEF updateFsTreeRoot, Counted
  <2>2. \A i \in Inodes : tree[i].there => tree[i].transid <= generation + 1
    BY DEF Dated, InodeItem
  <2> QED
    BY <2>1, <2>2 DEF Dated
<1>18. ASSUME NEW k \in Copies, writeLabel(k) PROVE Dated'
  BY <1>18, <1>a DEF writeLabel, Copied, Files
<1>19. ASSUME NEW k \in Copies, mirrorUnread(k) PROVE Dated'
  BY <1>19, <1>a DEF mirrorUnread, Copied, Files
<1>20. CASE labelFails
  BY <1>20, <1>a DEF labelFails, Abort
<1>21. CASE syncLabel
  BY <1>21, <1>a DEF syncLabel, Files
<1>22. CASE Remount
  <2>1. tree' = image /\ image' = image /\ generation' = generation
    BY <1>22 DEF Remount, Counted
  <2> QED
    BY <2>1 DEF Dated
<1>23. CASE UNCHANGED vars
  BY <1>23, <1>a DEF vars
<1> QED
  BY <1>1, <1>2, <1>3, <1>4, <1>5, <1>6, <1>7, <1>8, <1>9, <1>10, <1>11, <1>12, <1>13,
     <1>14, <1>15, <1>16, <1>17, <1>18, <1>19, <1>20, <1>21, <1>22, <1>23 DEF Next, Calls, Steps

\* The labels of the copies follow SetLabel.
LEMMA LabelledStep == Typed /\ Labelled /\ [Next]_vars => Labelled'
<1> SUFFICES ASSUME Typed, Labelled, [Next]_vars PROVE Labelled'
  OBVIOUS
<1>0. /\ supers \in [Copies -> Supers] /\ 0 \in Copies /\ torn \subseteq Copies
      /\ op \in Ops /\ op.todo \subseteq Copies /\ op.skipped \subseteq Copies
  BY AttributesAssumption DEF Typed, StoreTyped, OpTyped, Ops
<1>a. ASSUME UNCHANGED <<label, torn>>, \A k \in Copies : supers'[k].label = supers[k].label,
             op'.kind # "label", 0 \notin op'.skipped
      PROVE  Labelled'
  BY <1>a, <1>0 DEF Labelled, LabelsAgree
<1> USE <1>0 DEF Goto, Rest, At
<1>1. CASE WriteFile
  BY <1>1, <1>a, IdleFields DEF WriteFile, Begin, Idle
<1>2. ASSUME NEW i \in Inodes, DeleteFile(i) PROVE Labelled'
  BY <1>2, <1>a, IdleFields DEF DeleteFile, Begin, Idle
<1>3. ASSUME NEW i \in Inodes, NEW f \in Fields, NEW v \in Values, SetField(i, f, v) PROVE Labelled'
  BY <1>3, <1>a, IdleFields DEF SetField, Begin, Idle
<1>4. ASSUME NEW i \in Inodes, NEW n \in Names, RemoveXattr(i, n) PROVE Labelled'
  BY <1>4, <1>a, IdleFields DEF RemoveXattr, Begin, Idle
<1>5. ASSUME NEW i \in Inodes, NEW n \in Names, NEW v \in Values, SetXattr(i, n, v) PROVE Labelled'
  BY <1>5, <1>a, IdleFields DEF SetXattr, Begin, Idle
<1>6. ASSUME NEW l \in Labels, SetLabel(l) PROVE Labelled'
  <2>1. op'.kind = "label" /\ op'.todo = Copies /\ op'.skipped = {}
    BY <1>6 DEF SetLabel, Idle
  <2> QED
    BY <1>6, <2>1 DEF SetLabel, Labelled, LabelsAgree
<1>7. CASE putXattr
  <2>1. op'.kind = op.kind /\ op'.skipped = op.skipped /\ op.kind # "label"
    BY <1>7, CallArgs DEF putXattr, Ops
  <2> QED
    BY <1>7, <2>1, <1>a DEF putXattr, Labelled
<1>8. CASE deleteXattr
  <2>1. op'.kind = op.kind /\ op'.skipped = op.skipped /\ op.kind # "label"
    BY <1>8, CallArgs DEF deleteXattr, Ops
  <2> QED
    BY <1>8, <2>1, <1>a DEF deleteXattr, Labelled
<1>9. CASE updateInodeMetadata
  <2>1. op'.kind = op.kind /\ op'.skipped = op.skipped /\ op.kind # "label"
    BY <1>9, CallArgs DEF updateInodeMetadata, Ops
  <2> QED
    BY <1>9, <2>1, <1>a DEF updateInodeMetadata, Labelled
<1>10. CASE insertInode
  <2>1. op'.kind = op.kind /\ op'.skipped = op.skipped /\ op.kind # "label"
    BY <1>10, CallArgs DEF insertInode, Ops
  <2> QED
    BY <1>10, <2>1, <1>a DEF insertInode, Labelled
<1>11. CASE insertEntries
  <2>1. op'.kind = op.kind /\ op'.skipped = op.skipped /\ op.kind # "label"
    BY <1>11, CallArgs DEF insertEntries, Ops
  <2> QED
    BY <1>11, <2>1, <1>a DEF insertEntries, Labelled
<1>12. CASE insertEntriesFail
  BY <1>12, <1>a, IdleFields DEF insertEntriesFail
<1>13. CASE removeXattrItems
  <2>1. op'.kind = op.kind /\ op'.skipped = op.skipped /\ op.kind # "label"
    BY <1>13, CallArgs DEF removeXattrItems, Ops
  <2> QED
    BY <1>13, <2>1, <1>a DEF removeXattrItems, Labelled
<1>14. CASE removeInodeItem
  <2>1. op'.kind = op.kind /\ op'.skipped = op.skipped /\ op.kind # "label"
    BY <1>14, CallArgs DEF removeInodeItem, Ops
  <2> QED
    BY <1>14, <2>1, <1>a DEF removeInodeItem, Labelled
<1>15. CASE removeEntries
  <2>1. op'.kind = op.kind /\ op'.skipped = op.skipped /\ op.kind # "label"
    BY <1>15, CallArgs DEF removeEntries, Ops
  <2> QED
    BY <1>15, <2>1, <1>a DEF removeEntries, Labelled
<1>16. CASE changeFails
  <2>1. Abort
    BY <1>16 DEF changeFails
  <2> QED
    BY <2>1, <1>a, IdleFields DEF Abort
<1>17. CASE updateFsTreeRoot
  <2>1. \A k \in Copies : supers'[k].label = supers[k].label
    BY <1>17 DEF updateFsTreeRoot, Supers
  <2> QED
    BY <1>17, <2>1, <1>a, IdleFields DEF updateFsTreeRoot
<1>18. ASSUME NEW k \in Copies, writeLabel(k) PROVE Labelled'
  <2>1. /\ op.kind = "label" /\ op' = [op EXCEPT !.todo = @ \ {k}]
        /\ supers' = [supers EXCEPT ![k].label = op.value] /\ UNCHANGED <<label, torn>>
    BY <1>18, CallArgs DEF writeLabel, Copied
  <2>2. op'.kind = "label" /\ op'.todo = op.todo \ {k} /\ UNCHANGED <<op.skipped, op.value>>
    BY <2>1 DEF Ops
  <2>3. supers'[k].label = op.value /\ \A j \in Copies \ {k} : supers'[j] = supers[j]
    BY <2>1 DEF Supers
  <2> QED
    BY <2>1, <2>2, <2>3 DEF Labelled, LabelsAgree
<1>19. ASSUME NEW k \in Copies, mirrorUnread(k) PROVE Labelled'
  <2>1. /\ op.kind = "label" /\ k # 0 /\ UNCHANGED <<supers, label, torn>>
        /\ op' = [op EXCEPT !.todo = @ \ {k}, !.skipped = @ \cup {k}]
    BY <1>19, CallArgs DEF mirrorUnread, Copied
  <2>2. /\ op'.kind = "label" /\ op'.todo = op.todo \ {k} /\ op'.value = op.value
        /\ op'.skipped = op.skipped \cup {k}
    BY <2>1 DEF Ops
  <2> QED
    BY <2>1, <2>2 DEF Labelled, LabelsAgree
<1>20. CASE labelFails
  <2>1. Abort
    BY <1>20 DEF labelFails
  <2> QED
    BY <2>1, <1>a, IdleFields DEF Abort
<1>21. CASE syncLabel
  BY <1>21, IdleFields DEF syncLabel, Labelled, LabelsAgree
<1>22. CASE Remount
  BY <1>22, IdleFields DEF Remount, Labelled, LabelsAgree
<1>23. CASE UNCHANGED vars
  BY <1>23 DEF vars, Labelled, LabelsAgree
<1> QED
  BY <1>1, <1>2, <1>3, <1>4, <1>5, <1>6, <1>7, <1>8, <1>9, <1>10, <1>11, <1>12, <1>13,
     <1>14, <1>15, <1>16, <1>17, <1>18, <1>19, <1>20, <1>21, <1>22, <1>23 DEF Next, Calls, Steps

\* The stage is all that changes of the call.
LEMMA GotoFields ==
  ASSUME op \in Ops, NEW st, op' = [op EXCEPT !.stage = st]
  PROVE  op'.stage = st /\ UNCHANGED <<op.kind, op.ino, op.attr, op.value>>
BY DEF Ops

\* The edits of an inode that change what is read.
WithXattr(x, n, v) == [x EXCEPT !.xattrs[Hash[n]] = {[name |-> n, value |-> v]}]
WithoutXattr(x, n) == [x EXCEPT !.xattrs[Hash[n]] = {}]
WithField(x, f, v) == [x EXCEPT !.fields[f] = v]

\* An extended attribute that is set is read, one that shares its item is gone,
\* the other attributes stay as they are.
LEMMA ReadAfterPut ==
  ASSUME NEW x \in Records, NEW n \in Names, NEW v \in Values
  PROVE  LET y == WithXattr(x, n, v) IN
         /\ Read(y, n) = v
         /\ \A a \in Colliding(n) : Read(y, a) = Unset
         /\ \A a \in Attrs \ (Colliding(n) \cup {n}) : Read(y, a) = Read(x, a)
<1> DEFINE y == WithXattr(x, n, v)
<1>1. Hash[n] \in Hashes /\ n \notin Fields
  BY AttributesAssumption DEF Hashes, Fields
<1>2. /\ y.fields = x.fields
      /\ y.xattrs = [x.xattrs EXCEPT ![Hash[n]] = {[name |-> n, value |-> v]}]
      /\ DOMAIN x.xattrs = Hashes
  BY DEF Records, WithXattr, WithoutXattr
<1> HIDE DEF y
<1>3. y.xattrs[Hash[n]] = {[name |-> n, value |-> v]}
  BY <1>1, <1>2
<1>4. getXattrInode(y, n) = v
  <2>1. \A z \in y.xattrs[Hash[n]] : z.name = n /\ z.value = v
    BY <1>3
  <2>2. \E z \in y.xattrs[Hash[n]] : z.name = n
    <3>1. [name |-> n, value |-> v] \in y.xattrs[Hash[n]] /\ [name |-> n, value |-> v].name = n
      BY <1>3
    <3> QED
      BY <3>1, Zenon
  <2> DEFINE c == CHOOSE z \in y.xattrs[Hash[n]] : z.name = n
  <2>3. c \in y.xattrs[Hash[n]]
    BY <2>2
  <2>4. c.value = v
    BY <2>1, <2>3
  <2> QED
    BY <2>2, <2>4, Zenon DEF getXattrInode
<1>5. ASSUME NEW a \in Colliding(n) PROVE Read(y, a) = Unset
  <2>1. a \in Names /\ a # n /\ Hash[a] = Hash[n]
    BY <1>5 DEF Colliding
  <2>2. a \notin Fields
    BY <2>1, AttributesAssumption DEF Fields
  <2>3. ~\E z \in y.xattrs[Hash[a]] : z.name = a
    BY <1>3, <2>1
  <2> QED
    BY <2>2, <2>3 DEF Read, getXattrInode
<1>6. ASSUME NEW a \in Attrs \ (Colliding(n) \cup {n}) PROVE Read(y, a) = Read(x, a)
  <2>1. CASE a \in Fields
    BY <1>2, <2>1 DEF Read, ExtendedStat
  <2>2. CASE a \notin Fields
    <3>1. a \in Names /\ Hash[a] # Hash[n] /\ Hash[a] \in Hashes
      BY <1>6, <2>2 DEF Attrs, Colliding, Hashes
    <3>2. y.xattrs[Hash[a]] = x.xattrs[Hash[a]]
      BY <1>2, <3>1
    <3> QED
      BY <2>2, <3>2 DEF Read, getXattrInode
  <2> QED
    BY <2>1, <2>2
<1>7. Read(y, n) = v
  BY <1>1, <1>4 DEF Read
<1> QED
  BY <1>5, <1>6, <1>7 DEF y

\* An extended attribute that is removed is gone, with those that share its item.
LEMMA ReadAfterDelete ==
  ASSUME NEW x \in Records, NEW n \in Names
  PROVE  LET y == WithoutXattr(x, n) IN
         /\ \A a \in Colliding(n) \cup {n} : Read(y, a) = Unset
         /\ \A a \in Attrs \ (Colliding(n) \cup {n}) : Read(y, a) = Read(x, a)
<1> DEFINE y == WithoutXattr(x, n)
<1>1. Hash[n] \in Hashes /\ n \notin Fields
  BY AttributesAssumption DEF Hashes, Fields
<1>2. /\ y.fields = x.fields
      /\ y.xattrs = [x.xattrs EXCEPT ![Hash[n]] = {}]
      /\ DOMAIN x.xattrs = Hashes
  BY DEF Records, WithXattr, WithoutXattr
<1> HIDE DEF y
<1>3. y.xattrs[Hash[n]] = {}
  BY <1>1, <1>2
<1>4. ASSUME NEW a \in Colliding(n) \cup {n} PROVE Read(y, a) = Unset
  <2>1. a \in Names /\ Hash[a] = Hash[n]
    BY <1>4 DEF Colliding
  <2>2. a \notin Fields
    BY <2>1, AttributesAssumption DEF Fields
  <2> QED
    BY <1>3, <2>1, <2>2 DEF Read, getXattrInode
<1>5. ASSUME NEW a \in Attrs \ (Colliding(n) \cup {n}) PROVE Read(y, a) = Read(x, a)
  <2>1. CASE a \in Fields
    BY <1>2, <2>1 DEF Read, ExtendedStat
  <2>2. CASE a \notin Fields
    <3>1. a \in Names /\ Hash[a] # Hash[n] /\ Hash[a] \in Hashes
      BY <1>5, <2>2 DEF Attrs, Colliding, Hashes
    <3>2. y.xattrs[Hash[a]] = x.xattrs[Hash[a]]
      BY <1>2, <3>1
    <3> QED
      BY <2>2, <3>2 DEF Read, getXattrInode
  <2> QED
    BY <2>1, <2>2
<1> QED
  BY <1>4, <1>5 DEF y

\* A field that is set is read, the other attributes stay as they are.
LEMMA ReadAfterField ==
  ASSUME NEW x \in Records, NEW f \in Fields, NEW v \in Values
  PROVE  LET y == WithField(x, f, v) IN
         Read(y, f) = v /\ \A a \in Attrs \ {f} : Read(y, a) = Read(x, a)
<1> DEFINE y == WithField(x, f, v)
<1>1. y.fields = [x.fields EXCEPT ![f] = v] /\ y.xattrs = x.xattrs /\ DOMAIN x.fields = Fields
  BY DEF Records, WithField, WithXattr, WithoutXattr
<1> HIDE DEF y
<1>2. Read(y, f) = v /\ \A a \in Attrs \ {f} : Read(y, a) = Read(x, a)
  BY <1>1 DEF Read, ExtendedStat, getXattrInode
<1> QED
  BY <1>2 DEF y

\* What is read is what is promised, and what a call has done is known.
LEMMA ValueStep ==
  Typed /\ Kept /\ FreeIsBare /\ InFlight /\ [ApartNext]_vars => Kept' /\ FreeIsBare' /\ InFlight'
<1> DEFINE Goal == Kept' /\ FreeIsBare' /\ InFlight'
<1> SUFFICES ASSUME Typed, Kept, FreeIsBare, InFlight, [ApartNext]_vars PROVE Goal
  OBVIOUS
<1>0. /\ tree \in [Inodes -> Records] /\ image \in [Inodes -> Records]
      /\ promise \in Promises /\ saved \in Promises
      /\ op \in Ops
  BY DEF Typed, StoreTyped, OpTyped
<1>a. ASSUME UNCHANGED <<image, saved, promise>>, \A i \in Inodes \ {op.ino} : tree'[i] = tree[i],
             tree'[op.ino].there /\ tree'[op.ino].named => \A a \in Attrs : Read(tree'[op.ino], a) \in promise[op.ino][a],
             ~tree'[op.ino].there => tree'[op.ino].xattrs = NoXattrs
      PROVE  Kept' /\ FreeIsBare'
  BY <1>a DEF Kept, FreeIsBare, Found
<1>b. UNCHANGED <<tree, image>> => FreeIsBare'
  BY DEF FreeIsBare
<1>c. UNCHANGED <<tree, image, saved, promise>> => Kept'
  BY DEF Kept, Found
<1>d. op'.kind \in {"none", "label"} => InFlight'
  BY DEF InFlight
<1> HIDE DEF Goal
<1> USE <1>0 DEF Goto, Rest, At
<1>1. CASE WriteFile
  <2>0. PICK i \in nextInodeNum : /\ Begin("create", i, "none", Unset, "insert")
                                 /\ promise' = [promise EXCEPT ![i] = [a \in Attrs |-> {Unset}]]
    BY <1>1, Zenon DEF WriteFile
  <2>1. op'.kind = "create" /\ op'.ino = i /\ op'.stage = "insert"
    BY <2>0 DEF Begin, Idle
  <2>2. i \in Inodes /\ ~tree[i].there /\ UNCHANGED <<tree, image, saved>>
    BY <2>0, NextInodeIsFree DEF Begin
  <2>3. /\ \A j \in Inodes \ {i} : promise'[j] = promise[j]
        /\ \A a \in Attrs : promise'[i][a] = {Unset}
    BY <2>0, <2>2 DEF Promises
  <2>4. Kept'
    BY <2>2, <2>3 DEF Kept, Found
  <2>5. InFlight'
    BY <2>1, <2>2, <2>3 DEF InFlight
  <2> QED
    BY <2>2, <2>4, <2>5, <1>b DEF Goal
<1>2. ASSUME NEW i \in Inodes, DeleteFile(i) PROVE Goal
  <2>1. op'.kind = "remove" /\ op'.ino = i /\ op'.attr = "none" /\ op'.value = Unset /\ op'.stage = "xattrs"
    BY <1>2 DEF DeleteFile, Begin, Idle
  <2>2. tree[i].there /\ UNCHANGED <<tree, image, saved>>
    BY <1>2 DEF DeleteFile, Begin, Found
  <2>3. /\ \A j \in Inodes, a \in Attrs : promise[j][a] \subseteq promise'[j][a]
        /\ \A a \in Attrs : Unset \in promise'[i][a]
    BY <1>2 DEF DeleteFile, Promises, Attrs, Weakened
  <2>4. Kept'
    BY <2>2, <2>3 DEF Kept, Found
  <2>5. InFlight'
    BY <2>1, <2>2, <2>3 DEF InFlight
  <2> QED
    BY <2>2, <2>4, <2>5, <1>b DEF Goal
<1>3. ASSUME NEW i \in Inodes, NEW f \in Fields, NEW v \in Values, SetField(i, f, v) PROVE Goal
  <2>1. op'.kind = "field" /\ op'.ino = i /\ op'.attr = f /\ op'.value = v /\ op'.stage = "inode"
    BY <1>3 DEF SetField, Begin, Idle
  <2>2. tree[i].there /\ UNCHANGED <<tree, image, saved>>
    BY <1>3 DEF SetField, Begin, Found
  <2>3. /\ \A j \in Inodes, a \in Attrs : promise[j][a] \subseteq promise'[j][a]
        /\ v \in promise'[i][f]
        /\ \A a \in Colliding(f) : Unset \in promise'[i][a]
    BY <1>3, AttributesAssumption DEF SetField, Colliding, Fields, Promises, Attrs, Weakened
  <2>4. Kept'
    BY <2>2, <2>3 DEF Kept, Found
  <2>5. InFlight'
    BY <2>1, <2>2, <2>3 DEF InFlight
  <2> QED
    BY <2>2, <2>4, <2>5, <1>b DEF Goal
<1>4. ASSUME NEW i \in Inodes, NEW n \in Names, RemoveXattr(i, n), Apart' PROVE Goal
  <2>1. op'.kind = "removexattr" /\ op'.ino = i /\ op'.attr = n /\ op'.value = Unset /\ op'.stage = "xattr"
    BY <1>4 DEF RemoveXattr, Begin, Idle
  <2>2. tree[i].there /\ UNCHANGED <<tree, image, saved>>
    BY <1>4 DEF RemoveXattr, Begin, Found
  <2>3. /\ \A j \in Inodes, a \in Attrs : promise[j][a] \subseteq promise'[j][a]
        /\ Unset \in promise'[i][n]
    BY <1>4 DEF RemoveXattr, Promises, Attrs, Weakened
  <2>6. \A y \in tree[i].xattrs[Hash[n]] : y.name = n
    BY <1>4, <2>1, <2>2 DEF Apart
  <2>7. ASSUME NEW a \in Colliding(n) PROVE Unset \in promise'[i][a]
    <3>1. a \in Names /\ a # n /\ Hash[a] = Hash[n] /\ a \in Attrs /\ a \notin Fields
      BY AttributesAssumption DEF Colliding, Attrs, Fields
    <3>2. Read(tree[i], a) = Unset
      BY <2>6, <3>1, Zenon DEF Read, getXattrInode
    <3>3. Read(tree[i], a) \in promise[i][a]
      BY <1>4, <3>1, Zenon DEF RemoveXattr, Kept
    <3> QED
      BY <2>3, <3>1, <3>2, <3>3
  <2>4. Kept'
    BY <2>2, <2>3, SMTT(30) DEF Kept, Found
  <2>5. InFlight'
    BY <2>1, <2>2, <2>3, <2>7 DEF InFlight
  <2> QED
    BY <2>2, <2>4, <2>5, <1>b DEF Goal
<1>5. ASSUME NEW i \in Inodes, NEW n \in Names, NEW v \in Values, SetXattr(i, n, v), Apart' PROVE Goal
  <2>1. op'.kind = "setxattr" /\ op'.ino = i /\ op'.attr = n /\ op'.value = v /\ op'.stage = "xattr"
    BY <1>5 DEF SetXattr, Begin, Idle
  <2>2. tree[i].there /\ UNCHANGED <<tree, image, saved>>
    BY <1>5 DEF SetXattr, Begin, Found
  <2>3. /\ \A j \in Inodes, a \in Attrs : promise[j][a] \subseteq promise'[j][a]
        /\ v \in promise'[i][n]
    BY <1>5 DEF SetXattr, Promises, Attrs, Weakened
  <2>6. \A y \in tree[i].xattrs[Hash[n]] : y.name = n
    BY <1>5, <2>1, <2>2 DEF Apart
  <2>7. ASSUME NEW a \in Colliding(n) PROVE Unset \in promise'[i][a]
    <3>1. a \in Names /\ a # n /\ Hash[a] = Hash[n] /\ a \in Attrs /\ a \notin Fields
      BY AttributesAssumption DEF Colliding, Attrs, Fields
    <3>2. Read(tree[i], a) = Unset
      BY <2>6, <3>1, Zenon DEF Read, getXattrInode
    <3>3. Read(tree[i], a) \in promise[i][a]
      BY <1>5, <3>1, Zenon DEF SetXattr, Kept
    <3> QED
      BY <2>3, <3>1, <3>2, <3>3
  <2>4. Kept'
    BY <2>2, <2>3, SMTT(30) DEF Kept, Found
  <2>5. InFlight'
    BY <2>1, <2>2, <2>3, <2>7 DEF InFlight
  <2> QED
    BY <2>2, <2>4, <2>5, <1>b DEF Goal
<1>6. ASSUME NEW l \in Labels, SetLabel(l) PROVE Goal
  <2>1. op'.kind \in {"none", "label"} /\ UNCHANGED <<tree, image, saved, promise>>
    BY <1>6, CallArgs, IdleFields DEF SetLabel, Idle
  <2> QED
    BY <2>1, <1>b, <1>c, <1>d DEF Goal
<1>7. CASE putXattr
  <2>1. /\ op.ino \in Inodes /\ op.kind = "setxattr" /\ op'.stage = "inode"
        /\ UNCHANGED <<op.kind, op.ino, op.attr, op.value>>
    BY <1>7, CallArgs, GotoFields DEF putXattr
  <2>2. UNCHANGED <<image, saved, promise>> /\ \A i \in Inodes \ {op.ino} : tree'[i] = tree[i]
    BY <1>7 DEF putXattr
  <2>3. op.attr \in Names /\ op.value \in Values
    BY <2>1, CallArgs
  <2>4. tree'[op.ino] = [tree[op.ino] EXCEPT !.xattrs[Hash[op.attr]] =
                           {[name |-> op.attr, value |-> op.value]}]
    BY <1>7, <2>1, Zenon DEF putXattr
  <2>5. UNCHANGED <<tree[op.ino].there, tree[op.ino].named>>
    BY <2>1, <2>4 DEF Records
  <2>6. /\ Read(tree'[op.ino], op.attr) = op.value
        /\ \A a \in Colliding(op.attr) : Read(tree'[op.ino], a) = Unset
        /\ \A a \in Attrs \ (Colliding(op.attr) \cup {op.attr}) :
             Read(tree'[op.ino], a) = Read(tree[op.ino], a)
    <3>1. tree[op.ino] \in Records
      BY <2>1
    <3>2. tree'[op.ino] = WithXattr(tree[op.ino], op.attr, op.value)
      BY <2>4 DEF WithXattr
    <3> QED
      BY <2>3, <3>1, <3>2, ReadAfterPut
  <2>9. Kept' /\ FreeIsBare'
    <3>1. tree'[op.ino].there /\ tree'[op.ino].named =>
            \A a \in Attrs : Read(tree'[op.ino], a) \in promise[op.ino][a]
      BY <2>3, <2>5, <2>6, <2>1, <2>2, SMTT(30) DEF Found, Kept, InFlight
    <3>2. ~tree'[op.ino].there => tree'[op.ino].xattrs = NoXattrs
      BY <2>3, <2>5, <2>6, <2>1, <2>2, SMTT(30) DEF FreeIsBare, InFlight
    <3> QED
      BY <2>2, <3>1, <3>2, <1>a, Zenon
  <2>10. InFlight'
    BY <2>3, <2>5, <2>6, <2>1, <2>2 DEF InFlight
  <2> QED
    BY <2>9, <2>10 DEF Goal
<1>8. CASE deleteXattr
  <2>1. /\ op.ino \in Inodes /\ op.kind = "removexattr" /\ op'.stage = "inode"
        /\ UNCHANGED <<op.kind, op.ino, op.attr, op.value>>
    BY <1>8, CallArgs, GotoFields DEF deleteXattr
  <2>2. UNCHANGED <<image, saved, promise>> /\ \A i \in Inodes \ {op.ino} : tree'[i] = tree[i]
    BY <1>8 DEF deleteXattr
  <2>3. op.attr \in Names /\ op.value = Unset
    BY <2>1, CallArgs
  <2>4. tree'[op.ino] = [tree[op.ino] EXCEPT !.xattrs[Hash[op.attr]] = {}]
    BY <1>8, <2>1, Zenon DEF deleteXattr
  <2>5. UNCHANGED <<tree[op.ino].there, tree[op.ino].named>>
    BY <2>1, <2>4 DEF Records
  <2>6. /\ \A a \in Colliding(op.attr) \cup {op.attr} : Read(tree'[op.ino], a) = Unset
        /\ \A a \in Attrs \ (Colliding(op.attr) \cup {op.attr}) :
             Read(tree'[op.ino], a) = Read(tree[op.ino], a)
    <3>1. tree[op.ino] \in Records
      BY <2>1
    <3>2. tree'[op.ino] = WithoutXattr(tree[op.ino], op.attr)
      BY <2>4 DEF WithoutXattr
    <3> QED
      BY <2>3, <3>1, <3>2, ReadAfterDelete
  <2>9. Kept' /\ FreeIsBare'
    <3>1. tree'[op.ino].there /\ tree'[op.ino].named =>
            \A a \in Attrs : Read(tree'[op.ino], a) \in promise[op.ino][a]
      BY <2>3, <2>5, <2>6, <2>1, <2>2, SMTT(30) DEF Found, Kept, InFlight
    <3>2. ~tree'[op.ino].there => tree'[op.ino].xattrs = NoXattrs
      BY <2>3, <2>5, <2>6, <2>1, <2>2, SMTT(30) DEF FreeIsBare, InFlight
    <3> QED
      BY <2>2, <3>1, <3>2, <1>a, Zenon
  <2>10. InFlight'
    BY <2>3, <2>5, <2>6, <2>1, <2>2 DEF InFlight
  <2> QED
    BY <2>9, <2>10 DEF Goal
<1>9. CASE updateInodeMetadata
  <2>1. /\ op.ino \in Inodes /\ op.kind \in {"field", "setxattr", "removexattr"} /\ op'.stage = "commit"
        /\ UNCHANGED <<op.kind, op.ino, op.attr, op.value>>
    BY <1>9, CallArgs, GotoFields DEF updateInodeMetadata
  <2>2. UNCHANGED <<image, saved, promise>> /\ \A i \in Inodes \ {op.ino} : tree'[i] = tree[i]
    BY <1>9 DEF updateInodeMetadata
  <2> DEFINE x == IF op.kind # "field" THEN tree[op.ino]
                  ELSE [tree[op.ino] EXCEPT !.fields[op.attr] = op.value]
  <2>3. /\ op.attr \in Attrs
        /\ op.kind = "field" => op.attr \in Fields /\ op.value \in Values
    BY <2>1, CallArgs DEF Attrs
  <2>4. x \in Records /\ x.there = tree[op.ino].there /\ x.named = tree[op.ino].named
    <3>1. CASE op.kind # "field"
      BY <2>1, <3>1
    <3>2. CASE op.kind = "field"
      <4>1. x = [tree[op.ino] EXCEPT !.fields[op.attr] = op.value]
        BY <3>2
      <4>2. x.there = tree[op.ino].there /\ x.named = tree[op.ino].named
        BY <2>1, <4>1 DEF Records
      <4> QED
        BY <2>1, <2>3, <3>2, <4>1, <4>2, RecordEdits, Zenon
    <3> QED
      BY <3>1, <3>2
  <2>5. /\ \A a \in Attrs \ {op.attr} : Read(x, a) = Read(tree[op.ino], a)
        /\ op.kind = "field" => Read(x, op.attr) = op.value
        /\ op.kind # "field" => x = tree[op.ino]
    <3>1. CASE op.kind # "field"
      BY <3>1
    <3>2. CASE op.kind = "field"
      <4>1. tree[op.ino] \in Records /\ x = WithField(tree[op.ino], op.attr, op.value)
        BY <2>1, <3>2 DEF WithField
      <4> HIDE DEF x
      <4> QED
        BY <2>3, <3>2, <4>1, ReadAfterField
    <3> QED
      BY <3>1, <3>2
  <2>6. tree'[op.ino] = bumpInodeTransIDSequence(x)
    BY <1>9, <2>1 DEF updateInodeMetadata
  <2> HIDE DEF x
  <2>7. /\ tree'[op.ino].there = x.there /\ tree'[op.ino].named = x.named
        /\ tree'[op.ino].fields = x.fields /\ tree'[op.ino].xattrs = x.xattrs
    BY <2>4, <2>6 DEF bumpInodeTransIDSequence, Records
  <2>8. /\ \A a \in Attrs : Read(tree'[op.ino], a) = Read(x, a)
        /\ op.stage = "inode"
    BY <1>9, <2>7, ReadCongruent DEF updateInodeMetadata
  <2>9. Kept' /\ FreeIsBare'
    <3>1. tree'[op.ino].there /\ tree'[op.ino].named =>
            \A a \in Attrs : Read(tree'[op.ino], a) \in promise[op.ino][a]
      <4> SUFFICES ASSUME tree'[op.ino].there, tree'[op.ino].named, NEW a \in Attrs
                   PROVE  Read(tree'[op.ino], a) \in promise[op.ino][a]
        OBVIOUS
      <4>1. Found(op.ino)
        BY <2>4, <2>7, Zenon DEF Found
      <4>2. Read(tree[op.ino], a) \in promise[op.ino][a]
        BY <2>1, <4>1, Zenon DEF Kept
      <4>3. op.kind = "field" => op.value \in promise[op.ino][op.attr]
        BY Zenon DEF InFlight
      <4>4. Read(tree'[op.ino], a) = Read(x, a)
        BY <2>8, Zenon
      <4> QED
        BY <2>5, <4>2, <4>3, <4>4, Zenon
    <3>2. ~tree'[op.ino].there => tree'[op.ino].xattrs = NoXattrs
      BY <2>3, <2>4, <2>5, <2>7, <2>8, <2>1, <2>2, SMTT(30) DEF FreeIsBare, InFlight
    <3> QED
      BY <2>2, <3>1, <3>2, <1>a, Zenon
  <2>10. InFlight'
    BY <2>3, <2>4, <2>5, <2>7, <2>8, <2>1, <2>2 DEF InFlight
  <2> QED
    BY <2>9, <2>10 DEF Goal
<1>10. CASE insertInode
  <2>1. /\ op.ino \in Inodes /\ op.kind = "create" /\ op'.stage = "link"
        /\ UNCHANGED <<op.kind, op.ino, op.attr, op.value>>
    BY <1>10, CallArgs, GotoFields DEF insertInode
  <2>2. UNCHANGED <<image, saved, promise>> /\ \A i \in Inodes \ {op.ino} : tree'[i] = tree[i]
    BY <1>10 DEF insertInode
  <2>3. ~tree[op.ino].there /\ \A a \in Attrs : promise[op.ino][a] = {Unset}
    BY <1>10, <2>1 DEF insertInode, InFlight
  <2>4. /\ tree'[op.ino].there /\ tree'[op.ino].fields = [f \in Fields |-> Unset]
        /\ tree'[op.ino].xattrs = NoXattrs
    BY <1>10, <2>1, <2>3 DEF insertInode, Records, FreeIsBare
  <2>5. \A a \in Attrs : Read(tree'[op.ino], a) = Unset
    BY <2>4, BareReadsUnset
  <2>9. Kept' /\ FreeIsBare'
    <3>1. tree'[op.ino].there /\ tree'[op.ino].named =>
            \A a \in Attrs : Read(tree'[op.ino], a) \in promise[op.ino][a]
      BY <2>3, <2>4, <2>5, <2>1, <2>2, SMTT(30) DEF Found, Kept, InFlight
    <3>2. ~tree'[op.ino].there => tree'[op.ino].xattrs = NoXattrs
      BY <2>3, <2>4, <2>5, <2>1, <2>2, SMTT(30) DEF FreeIsBare, InFlight
    <3> QED
      BY <2>2, <3>1, <3>2, <1>a, ZenonT(40)
  <2>10. InFlight'
    BY <2>3, <2>4, <2>5, <2>1, <2>2 DEF InFlight
  <2> QED
    BY <2>9, <2>10 DEF Goal
<1>11. CASE insertEntries
  <2>1. /\ op.ino \in Inodes /\ op.kind = "create" /\ op'.stage = "commit"
        /\ UNCHANGED <<op.kind, op.ino, op.attr, op.value>>
    BY <1>11, CallArgs, GotoFields DEF insertEntries
  <2>2. UNCHANGED <<image, saved, promise>> /\ \A i \in Inodes \ {op.ino} : tree'[i] = tree[i]
    BY <1>11 DEF insertEntries
  <2>3. /\ \A a \in Attrs : promise[op.ino][a] = {Unset}
        /\ \A a \in Attrs : Read(tree[op.ino], a) = Unset
    BY <1>11, <2>1 DEF insertEntries, InFlight
  <2>4. /\ tree'[op.ino].there = tree[op.ino].there
        /\ tree'[op.ino].fields = tree[op.ino].fields /\ tree'[op.ino].xattrs = tree[op.ino].xattrs
    BY <1>11, <2>1 DEF insertEntries, Records
  <2>5. \A a \in Attrs : Read(tree'[op.ino], a) = Unset
    BY <2>3, <2>4, ReadCongruent
  <2>9. Kept' /\ FreeIsBare'
    <3>1. tree'[op.ino].there /\ tree'[op.ino].named =>
            \A a \in Attrs : Read(tree'[op.ino], a) \in promise[op.ino][a]
      BY <2>3, <2>4, <2>5, <2>1, <2>2, SMTT(30) DEF Found, Kept, InFlight
    <3>2. ~tree'[op.ino].there => tree'[op.ino].xattrs = NoXattrs
      BY <2>3, <2>4, <2>5, <2>1, <2>2, SMTT(30) DEF FreeIsBare, InFlight
    <3> QED
      BY <2>2, <3>1, <3>2, <1>a, ZenonT(40)
  <2>10. InFlight'
    BY <2>3, <2>4, <2>5, <2>1, <2>2 DEF InFlight
  <2> QED
    BY <2>9, <2>10 DEF Goal
<1>12. CASE insertEntriesFail
  <2>1. op.ino \in Inodes /\ op.kind = "create" /\ op'.kind = "none"
    BY <1>12, CallArgs, IdleFields DEF insertEntriesFail
  <2>2. UNCHANGED <<image, saved, promise>> /\ \A i \in Inodes \ {op.ino} : tree'[i] = tree[i]
    BY <1>12 DEF insertEntriesFail
  <2>3. /\ \A a \in Attrs : promise[op.ino][a] = {Unset}
        /\ \A a \in Attrs : Read(tree[op.ino], a) = Unset
    BY <1>12, <2>1 DEF insertEntriesFail, InFlight
  <2>4. /\ tree'[op.ino].there = tree[op.ino].there
        /\ tree'[op.ino].fields = tree[op.ino].fields /\ tree'[op.ino].xattrs = tree[op.ino].xattrs
    BY <1>12, <2>1 DEF insertEntriesFail, Records
  <2>5. \A a \in Attrs : Read(tree'[op.ino], a) = Unset
    BY <2>3, <2>4, ReadCongruent
  <2>9. Kept' /\ FreeIsBare'
    <3>1. tree'[op.ino].there /\ tree'[op.ino].named =>
            \A a \in Attrs : Read(tree'[op.ino], a) \in promise[op.ino][a]
      BY <2>1, <2>2, <2>3, <2>4, <2>5, SMTT(30) DEF Found, Kept, InFlight
    <3>2. ~tree'[op.ino].there => tree'[op.ino].xattrs = NoXattrs
      BY <2>1, <2>2, <2>3, <2>4, <2>5 DEF FreeIsBare, InFlight
    <3> QED
      BY <2>2, <3>1, <3>2, <1>a, ZenonT(40)
  <2> QED
    BY <2>1, <2>9, <1>d DEF Goal
<1>13. CASE removeXattrItems
  <2>1. /\ op.ino \in Inodes /\ op.kind = "remove" /\ op'.stage = "item"
        /\ UNCHANGED <<op.kind, op.ino, op.attr, op.value>>
    BY <1>13, CallArgs, GotoFields DEF removeXattrItems
  <2>2. UNCHANGED <<image, saved, promise>> /\ \A i \in Inodes \ {op.ino} : tree'[i] = tree[i]
    BY <1>13 DEF removeXattrItems
  <2>3. /\ UNCHANGED <<tree[op.ino].there, tree[op.ino].named, tree[op.ino].fields>>
        /\ tree'[op.ino].xattrs = NoXattrs
    BY <1>13, <2>1, SMTT(30) DEF removeXattrItems, Records, NoXattrs
  <2>4. \A a \in Attrs : Read(tree'[op.ino], a) \in {Read(tree[op.ino], a), Unset}
    <3>1. ASSUME NEW a \in Names PROVE getXattrInode(tree'[op.ino], a) = Unset
      BY <2>3, SMTT(30) DEF getXattrInode, NoXattrs, Hashes
    <3> QED
      BY <2>1, <2>3, <3>1 DEF Read, ExtendedStat, Attrs
  <2>9. Kept' /\ FreeIsBare'
    <3>1. tree'[op.ino].there /\ tree'[op.ino].named =>
            \A a \in Attrs : Read(tree'[op.ino], a) \in promise[op.ino][a]
      BY <2>3, <2>4, <2>1, <2>2, SMTT(30) DEF Found, Kept, InFlight
    <3>2. ~tree'[op.ino].there => tree'[op.ino].xattrs = NoXattrs
      BY <2>3, <2>4, <2>1, <2>2, SMTT(30) DEF FreeIsBare, InFlight
    <3> QED
      BY <2>2, <3>1, <3>2, <1>a, Zenon
  <2>10. InFlight'
    BY <2>3, <2>4, <2>1, <2>2 DEF InFlight
  <2> QED
    BY <2>9, <2>10 DEF Goal
<1>14. CASE removeInodeItem
  <2>1. /\ op.ino \in Inodes /\ op.kind = "remove" /\ op'.stage = "unlink"
        /\ UNCHANGED <<op.kind, op.ino, op.attr, op.value>>
    BY <1>14, CallArgs, GotoFields DEF removeInodeItem
  <2>2. UNCHANGED <<image, saved, promise>> /\ \A i \in Inodes \ {op.ino} : tree'[i] = tree[i]
    BY <1>14 DEF removeInodeItem
  <2>3. ~tree'[op.ino].there /\ UNCHANGED tree[op.ino].xattrs
    BY <1>14, <2>1 DEF removeInodeItem, Records
  <2>4. tree[op.ino].xattrs = NoXattrs
    BY <1>14, <2>1 DEF removeInodeItem, InFlight
  <2>9. Kept' /\ FreeIsBare'
    <3>1. tree'[op.ino].there /\ tree'[op.ino].named =>
            \A a \in Attrs : Read(tree'[op.ino], a) \in promise[op.ino][a]
      BY <2>3, <2>4, <2>1, <2>2, SMTT(30) DEF Found, Kept, InFlight
    <3>2. ~tree'[op.ino].there => tree'[op.ino].xattrs = NoXattrs
      BY <2>3, <2>4, <2>1, <2>2, SMTT(30) DEF FreeIsBare, InFlight
    <3> QED
      BY <2>2, <3>1, <3>2, <1>a, Zenon
  <2>10. InFlight'
    BY <2>3, <2>4, <2>1, <2>2 DEF InFlight
  <2> QED
    BY <2>9, <2>10 DEF Goal
<1>15. CASE removeEntries
  <2>1. /\ op.ino \in Inodes /\ op.kind = "remove" /\ op'.stage = "commit"
        /\ UNCHANGED <<op.kind, op.ino, op.attr, op.value>>
    BY <1>15, CallArgs, GotoFields DEF removeEntries
  <2>2. UNCHANGED <<image, saved, promise>> /\ \A i \in Inodes \ {op.ino} : tree'[i] = tree[i]
    BY <1>15 DEF removeEntries
  <2>3. ~tree'[op.ino].named /\ UNCHANGED <<tree[op.ino].xattrs, tree[op.ino].there>>
    BY <1>15, <2>1 DEF removeEntries, Records
  <2>4. ~tree[op.ino].there
    BY <1>15, <2>1 DEF removeEntries, InFlight
  <2>9. Kept' /\ FreeIsBare'
    <3>1. tree'[op.ino].there /\ tree'[op.ino].named =>
            \A a \in Attrs : Read(tree'[op.ino], a) \in promise[op.ino][a]
      BY <2>3, <2>4, <2>1, <2>2, SMTT(30) DEF Found, Kept, InFlight
    <3>2. ~tree'[op.ino].there => tree'[op.ino].xattrs = NoXattrs
      BY <2>3, <2>4, <2>1, <2>2, SMTT(30) DEF FreeIsBare, InFlight
    <3> QED
      BY <2>2, <3>1, <3>2, <1>a, Zenon
  <2>10. InFlight'
    BY <2>3, <2>4, <2>1, <2>2 DEF InFlight
  <2> QED
    BY <2>9, <2>10 DEF Goal
<1>16. CASE changeFails
  <2>1. Abort
    BY <1>16 DEF changeFails
  <2>2. op'.kind \in {"none", "label"} /\ UNCHANGED <<tree, image, saved, promise>>
    BY <2>1, IdleFields DEF Abort
  <2> QED
    BY <2>2, <1>b, <1>c, <1>d DEF Goal
<1>17. CASE updateFsTreeRoot
  <2>1. /\ op.ino \in Inodes /\ op'.kind = "none"
        /\ op.kind \in {"field", "setxattr", "removexattr", "create", "remove"}
    BY <1>17, CallArgs, IdleFields DEF updateFsTreeRoot
  <2>2. image' = tree /\ tree' = tree /\ saved' = promise'
    BY <1>17 DEF updateFsTreeRoot
  <2>3. /\ \A i \in Inodes \ {op.ino} : promise'[i] = promise[i]
        /\ \A a \in Attrs : promise'[op.ino][a] =
             IF op.kind \in {"create", "remove"} THEN {Unset}
             ELSE IF a = op.attr THEN {op.value} ELSE promise[op.ino][a]
    BY <1>17, <2>1 DEF updateFsTreeRoot, Promises
  <2>4. Found(op.ino) => \A a \in Attrs : Read(tree[op.ino], a) \in promise'[op.ino][a]
    BY <1>17, <2>1, <2>3, SMTT(30) DEF updateFsTreeRoot, InFlight, Kept, Found
  <2>5. Kept'
    BY <2>1, <2>2, <2>3, <2>4 DEF Kept, Found
  <2>6. FreeIsBare'
    BY <2>2 DEF FreeIsBare
  <2> QED
    BY <2>1, <2>5, <2>6, <1>d DEF Goal
<1>18. ASSUME NEW k \in Copies, writeLabel(k) PROVE Goal
  <2>1. op'.kind \in {"none", "label"} /\ UNCHANGED <<tree, image, saved, promise>>
    BY <1>18, CallArgs, IdleFields DEF writeLabel, Copied, Files, Ops
  <2> QED
    BY <2>1, <1>b, <1>c, <1>d DEF Goal
<1>19. ASSUME NEW k \in Copies, mirrorUnread(k) PROVE Goal
  <2>1. op'.kind \in {"none", "label"} /\ UNCHANGED <<tree, image, saved, promise>>
    BY <1>19, CallArgs, IdleFields DEF mirrorUnread, Copied, Files, Ops
  <2> QED
    BY <2>1, <1>b, <1>c, <1>d DEF Goal
<1>20. CASE labelFails
  <2>1. Abort
    BY <1>20 DEF labelFails
  <2>2. op'.kind \in {"none", "label"} /\ UNCHANGED <<tree, image, saved, promise>>
    BY <2>1, IdleFields DEF Abort
  <2> QED
    BY <2>2, <1>b, <1>c, <1>d DEF Goal
<1>21. CASE syncLabel
  <2>1. op'.kind \in {"none", "label"} /\ UNCHANGED <<tree, image, saved, promise>>
    BY <1>21, CallArgs, IdleFields DEF syncLabel, Files
  <2> QED
    BY <2>1, <1>b, <1>c, <1>d DEF Goal
<1>22. CASE Remount
  <2>1. op'.kind = "none"
    BY <1>22, IdleFields DEF Remount
  <2>2. Kept'
    BY <1>22 DEF Remount, Kept, Found
  <2>3. FreeIsBare'
    BY <1>22, SMTT(30) DEF Remount, FreeIsBare
  <2> QED
    BY <2>1, <2>2, <2>3, <1>d DEF Goal
<1>23. CASE UNCHANGED vars
  BY <1>23, <1>b, <1>c DEF vars, Goal, InFlight
<1> QED
  BY <1>1, <1>2, <1>3, <1>4, <1>5, <1>6, <1>7, <1>8, <1>9, <1>10, <1>11, <1>12, <1>13,
     <1>14, <1>15, <1>16, <1>17, <1>18, <1>19, <1>20, <1>21, <1>22, <1>23
     DEF ApartNext, Next, Calls, Steps

----------------------------------------------------------------------------
\* What does not depend on the hashes holds in every behaviour, and the values
\* where no call changes the item of another name.
LEMMA BaseInvariance == Spec => []Base
<1>1. Init => Base
  BY InitIInv DEF IInv, Base
<1>2. Base /\ [Next]_vars => Base'
  BY StoreStep, OpStep, CountedStep, DatedStep, LabelledStep DEF Base, Typed
<1> QED
  BY <1>1, <1>2, PTL DEF Spec

LEMMA Invariance == ApartSpec => []IInv
<1>1. [ApartNext]_vars => [Next]_vars
  BY DEF ApartNext
<1>2. IInv /\ [ApartNext]_vars => IInv'
  BY <1>1, StoreStep, OpStep, CountedStep, DatedStep, LabelledStep, ValueStep DEF IInv, Base, Typed
<1> QED
  BY <1>2, InitIInv, PTL DEF ApartSpec

LEMMA TypedImpliesTypeOK == Typed /\ Counted => TypeOK
<1> SUFFICES ASSUME Typed, Counted PROVE TypeOK
  OBVIOUS
<1>1. ASSUME NEW i \in Inodes, NEW t \in {tree, image}
      PROVE  /\ t[i] \in Records /\ t[i].seq <= MaxCalls /\ t[i].transid <= MaxCalls + 1
  <2>1. t[i] \in Records /\ t[i].seq \in Nat /\ t[i].transid \in Nat
    BY DEF Typed, StoreTyped, Records
  <2>2. t[i].seq <= calls /\ t[i].transid <= calls + 1 /\ calls \in 0 .. MaxCalls
    BY DEF Counted, Typed, StoreTyped
  <2> QED
    BY <2>1, <2>2, AttributesAssumption
<1>2. ASSUME NEW x \in Records, x.seq <= MaxCalls, x.transid <= MaxCalls + 1
      PROVE  /\ x.there \in BOOLEAN /\ x.named \in BOOLEAN
             /\ x.fields \in [Fields -> Values \cup {Unset}]
             /\ x.seq \in 0 .. MaxCalls /\ x.transid \in 0 .. MaxCalls + 1
             /\ \A h \in Hashes : x.xattrs[h] \subseteq [name : Names, value : Values]
  BY <1>2, AttributesAssumption DEF Records, Settings
<1>3. /\ generation \in Nat /\ label \in Labels
      /\ DOMAIN supers = Copies /\ \A k \in Copies : supers[k].label \in Labels
      /\ faults \in 0 .. MaxFaults /\ torn \subseteq Copies
  BY DEF Typed, StoreTyped, Supers
<1>4. op.ino \in 0 .. MaxInode /\ op.todo \subseteq Copies /\ op.skipped \subseteq Copies
  BY DEF Typed, OpTyped, Ops
<1> QED
  BY <1>1, <1>2, <1>3, <1>4 DEF TypeOK

\* For any number of files, names, hashes, values and failures, where no call meets
\* the item of another name with the hash of its own: between calls
\* what Chown, Chmod, Chtimes, SetXattr, RemoveXattr, WriteFile and DeleteFile
\* have set is what Stat and GetXattr answer, after a mount too, and a file that
\* is given the number of a removed one has none of its attributes.
THEOREM AttributesAreKept == ApartSpec => []AttributesReadBack
<1>1. IInv => AttributesReadBack
  BY TypedImpliesTypeOK DEF IInv, Base, AttributesReadBack, Kept
<1> QED
  BY <1>1, Invariance, PTL

\* SetLabel writes every copy that it does not pass over, commits keep the label
\* of the primary, and a mount takes it: the label in memory is that of every
\* copy that no SetLabel left behind.
THEOREM LabelsStayEqual == Spec => []LabelsAgree
<1>1. Base => LabelsAgree
  BY DEF Base, Labelled
<1> QED
  BY <1>1, BaseInvariance, PTL

\* bumpInodeTransIDSequence and insertInode give a change the generation that
\* updateFsTreeRoot will write, whatever calls failed between the two.
THEOREM ChangesCarryTheirGeneration == Spec => ChangesAreDated
<1> DEFINE
  Step == /\ \A i \in Inodes : image'[i].there => image'[i].transid <= supers'[0].generation
          /\ \A i \in Inodes :
               image'[i].there /\ InodeItem(image'[i]) # InodeItem(image[i])
                 => image'[i].transid = supers'[0].generation
<1>1. Base /\ Base' /\ [Next]_vars => [Step]_vars
  <2> SUFFICES ASSUME Base, Base', Next PROVE Step
    BY ZenonT(40)
  <2>1. \A i \in Inodes : image'[i].there => image'[i].transid <= supers'[0].generation
    BY DEF Base, Dated, Counted
  <2>2. CASE UNCHANGED image
    BY <2>1, <2>2
  <2>3. CASE updateFsTreeRoot
    <3>1. image' = tree /\ generation' = generation + 1 /\ generation' = supers'[0].generation
      BY <2>3 DEF Base, Counted, updateFsTreeRoot
    <3> QED
      BY <2>1, <3>1 DEF Base, Dated
  <2>4. UNCHANGED image \/ updateFsTreeRoot
    BY Zenon DEF Next, Calls, Steps, WriteFile, DeleteFile, SetField, RemoveXattr, SetXattr, SetLabel,
           Begin, putXattr, deleteXattr, updateInodeMetadata, insertInode, insertEntries,
           insertEntriesFail, removeXattrItems, removeInodeItem, removeEntries, changeFails,
           Abort, writeLabel, mirrorUnread, labelFails, syncLabel, Remount, Rest, Files
  <2> QED
    BY <2>2, <2>3, <2>4
<1>2. ChangesAreDated <=> [][Step]_vars
  BY DEF ChangesAreDated
<1> HIDE DEF Step
<1> QED
  BY <1>1, <1>2, BaseInvariance, PTL DEF Spec
=============================================================================
