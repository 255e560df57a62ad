----------------------------- MODULE Attributes -----------------------------
(***************************************************************************)
(* The attributes of files (setattr.go), their extended attributes         *)
(* (xattr_write.go and the readers of fs.go), the numbers of inodes that   *)
(* are given out again, and the volume label (label.go).                   *)
(*                                                                         *)
(* An inode has the fields of its INODE_ITEM and the XATTR_ITEMs under its *)
(* number, one for each hash of a name.  tree is what the process works    *)
(* on, image what a mount would find.  A call is a sequence of changes of  *)
(* the tree; any of them may fail, the call then returns, and what it has  *)
(* done so far stays in the tree until a later call commits it.  supers    *)
(* are the copies of the superblock, of which a commit writes the first.   *)
(*                                                                         *)
(* Every file has one name.  seq stands for the sequence number and for    *)
(* the change time, which are written together.  promise, saved and torn   *)
(* are not kept by the code.                                               *)
(***************************************************************************)
EXTENDS Naturals, FiniteSets

CONSTANTS
  Names,        \* the names of extended attributes
  Hash,         \* hashDirName
  Values,       \* what a field or an extended attribute is set to
  Labels,       \* the labels
  Copies,       \* the superblock copies that lie within the image, 0 is the primary
  MaxInode,     \* bound: the inode numbers
  MaxCalls,     \* bound: the calls
  MaxFaults     \* bound: the steps that fail

\* The names of the fields are not names of extended attributes here.
ASSUME AttributesAssumption ==
  /\ DOMAIN Hash = Names /\ Names \cap {"owner", "mode", "times"} = {}
  /\ Values \subseteq Nat \ {0}
  /\ 0 \in Copies /\ Copies \subseteq Nat
  /\ MaxInode \in Nat /\ MaxCalls \in Nat /\ MaxFaults \in Nat

VARIABLES tree, image, generation, supers, label, op, promise, saved, torn, calls, faults

vars == <<tree, image, generation, supers, label, op, promise, saved, torn, calls, faults>>

Inodes == 1 .. MaxInode
Fields == {"owner", "mode", "times"}
Attrs == Fields \cup Names
Unset == 0
Hashes == {Hash[n] : n \in Names}

Absent == [there |-> FALSE, named |-> FALSE, fields |-> [f \in Fields |-> Unset],
           seq |-> 0, transid |-> 0, xattrs |-> [h \in Hashes |-> {}]]
Idle == [kind |-> "none", ino |-> 0, attr |-> "none", value |-> Unset, stage |-> "none",
         todo |-> {}, skipped |-> {}]

\* The INODE_ITEM of a record.
InodeItem(x) == <<x.there, x.fields, x.seq, x.transid>>

----------------------------------------------------------------------------
(* Reading. *)

\* The item under the hash of the name, when the name in it is the same.
getXattrInode(x, n) ==
  IF ~\E y \in x.xattrs[Hash[n]] : y.name = n THEN Unset
  ELSE (CHOOSE y \in x.xattrs[Hash[n]] : y.name = n).value

ExtendedStat(x, f) == x.fields[f]

Read(x, a) == IF a \in Fields THEN ExtendedStat(x, a) ELSE getXattrInode(x, a)

----------------------------------------------------------------------------
Init ==
  /\ tree = [i \in Inodes |-> Absent] /\ image = tree
  /\ generation = 1
  /\ label \in Labels
  /\ supers = [k \in Copies |-> [generation |-> 1, label |-> label]]
  /\ op = Idle
  /\ promise = [i \in Inodes |-> [a \in Attrs |-> {Unset}]] /\ saved = promise
  /\ torn = {}
  /\ calls = 0 /\ faults = 0

\* From here to the return of the call the attribute may be as before or as the
\* call wants it.
Weakened(i, a, v) == [promise EXCEPT ![i][a] = @ \cup {v}]

Begin(kind, i, a, v, stage) ==
  /\ op = Idle
  /\ calls < MaxCalls /\ calls' = calls + 1
  /\ op' = [Idle EXCEPT !.kind = kind, !.ino = i, !.attr = a, !.value = v, !.stage = stage]
  /\ UNCHANGED <<tree, image, generation, supers, label, saved, torn, faults>>

\* pathLookup succeeds.
Found(i) == tree[i].there /\ tree[i].named

\* chownInode, chmodInode and chtimesInode.
SetField(i, f, v) ==
  /\ Found(i)
  /\ Begin("field", i, f, v, "inode")
  /\ promise' = Weakened(i, f, v)

SetXattr(i, n, v) ==
  /\ Found(i)
  /\ Begin("setxattr", i, n, v, "xattr")
  /\ promise' = Weakened(i, n, v)

\* cowDelete returns an error when there is no item under the hash of the name;
\* the name in the item is not looked at.
RemoveXattr(i, n) ==
  /\ Found(i)
  /\ tree[i].xattrs[Hash[n]] # {}
  /\ Begin("removexattr", i, n, Unset, "xattr")
  /\ promise' = Weakened(i, n, Unset)

\* The number after the largest one in use.
nextInodeNum == {i \in Inodes : /\ i = 1 \/ tree[i - 1].there
                                /\ \A j \in i .. MaxInode : ~tree[j].there}

WriteFile ==
  \E i \in nextInodeNum :
    /\ Begin("create", i, "none", Unset, "insert")
    /\ promise' = [promise EXCEPT ![i] = [a \in Attrs |-> {Unset}]]

DeleteFile(i) ==
  /\ Found(i)
  /\ Begin("remove", i, "none", Unset, "xattrs")
  /\ promise' = [promise EXCEPT ![i] = [a \in Attrs |-> @[a] \cup {Unset}]]

SetLabel(l) ==
  /\ op = Idle
  /\ calls < MaxCalls /\ calls' = calls + 1
  /\ op' = [Idle EXCEPT !.kind = "label", !.value = l, !.stage = "write", !.todo = Copies]
  /\ torn' = Copies
  /\ UNCHANGED <<tree, image, generation, supers, label, promise, saved, faults>>

----------------------------------------------------------------------------
(* The steps of the calls on files. *)

At(kind, stage) == op.kind = kind /\ op.stage = stage
Goto(stage) == op' = [op EXCEPT !.stage = stage]
Rest == <<image, generation, supers, label, promise, saved, torn, calls>>

Abort ==
  /\ faults < MaxFaults
  /\ faults' = faults + 1
  /\ op' = Idle
  /\ UNCHANGED <<tree, Rest>>

\* One item for a hash: whatever was there is replaced, under any name.
putXattr ==
  /\ At("setxattr", "xattr")
  /\ tree' = [tree EXCEPT ![op.ino].xattrs[Hash[op.attr]] =
                {[name |-> op.attr, value |-> op.value]}]
  /\ Goto("inode")
  /\ UNCHANGED <<Rest, faults>>

\* The item goes by its hash, under any name.
deleteXattr ==
  /\ At("removexattr", "xattr")
  /\ tree' = [tree EXCEPT ![op.ino].xattrs[Hash[op.attr]] = {}]
  /\ Goto("inode")
  /\ UNCHANGED <<Rest, faults>>

\* A slip in bumpInodeTransIDSequence: the transaction before is recorded.
bumpInodeTransIDSequenceOld(x) == [x EXCEPT !.transid = generation, !.seq = @ + 1]

bumpInodeTransIDSequence(x) == [x EXCEPT !.transid = generation + 1, !.seq = @ + 1]

\* The mutator of a field, which for extended attributes does nothing.
updateInodeMetadata ==
  /\ op.stage = "inode"
  /\ tree' = [tree EXCEPT ![op.ino] =
       bumpInodeTransIDSequence(IF op.kind # "field" THEN @
                                ELSE [@ EXCEPT !.fields[op.attr] = op.value])]
  /\ Goto("commit")
  /\ UNCHANGED <<Rest, faults>>

insertInode ==
  /\ At("create", "insert")
  /\ tree' = [tree EXCEPT ![op.ino].there = TRUE,
                          ![op.ino].fields = [f \in Fields |-> Unset],
                          ![op.ino].seq = 0, ![op.ino].transid = generation + 1]
  /\ Goto("link")
  /\ UNCHANGED <<Rest, faults>>

\* The body, the directory entries and the back reference.
insertEntries ==
  /\ At("create", "link")
  /\ tree' = [tree EXCEPT ![op.ino].named = TRUE]
  /\ Goto("commit")
  /\ UNCHANGED <<Rest, faults>>

\* Some of the entries may have been made: one is enough for a lookup.
insertEntriesFail ==
  /\ At("create", "link")
  /\ faults < MaxFaults
  /\ faults' = faults + 1
  /\ \E b \in BOOLEAN : tree' = [tree EXCEPT ![op.ino].named = @ \/ b]
  /\ op' = Idle
  /\ UNCHANGED Rest

\* A slip in removeXattrItems: any error is tolerated, not only "not found".
removeXattrItemsTolerant ==
  /\ At("remove", "xattrs")
  /\ \/ tree' = [tree EXCEPT ![op.ino].xattrs = [h \in Hashes |-> {}]]
     \/ UNCHANGED tree
  /\ Goto("item")
  /\ UNCHANGED <<Rest, faults>>

\* removeInode: the extents, then all XATTR_ITEMs.
removeXattrItems ==
  /\ At("remove", "xattrs")
  /\ tree' = [tree EXCEPT ![op.ino].xattrs = [h \in Hashes |-> {}]]
  /\ Goto("item")
  /\ UNCHANGED <<Rest, faults>>

\* The INODE_REF, then the INODE_ITEM.
removeInodeItem ==
  /\ At("remove", "item")
  /\ tree' = [tree EXCEPT ![op.ino].there = FALSE]
  /\ Goto("unlink")
  /\ UNCHANGED <<Rest, faults>>

removeEntries ==
  /\ At("remove", "unlink")
  /\ tree' = [tree EXCEPT ![op.ino].named = FALSE]
  /\ Goto("commit")
  /\ UNCHANGED <<Rest, faults>>

\* Any of these changes fails.  (A name that stays without its inode leads to the
\* next inode that is given the number.)
changeFails ==
  /\ op.stage \in {"xattr", "inode", "insert", "xattrs", "item", "unlink", "commit"}
  /\ Abort

\* The commit: the generation is the one after that of the primary superblock,
\* which is read and written back with its label.
updateFsTreeRoot ==
  /\ op.stage = "commit"
  /\ image' = tree
  /\ generation' = supers[0].generation + 1
  /\ supers' = [supers EXCEPT ![0].generation = generation']
  /\ promise' = [promise EXCEPT ![op.ino] = [a \in Attrs |->
       IF op.kind \in {"create", "remove"} THEN {Unset}
       ELSE IF a = op.attr THEN {op.value} ELSE @[a]]]
  /\ saved' = promise'
  /\ op' = Idle
  /\ UNCHANGED <<tree, label, torn, calls, faults>>

----------------------------------------------------------------------------
(* SetLabel: the copies in the order of their offsets, then the memory. *)

Files == <<tree, image, generation, promise, saved>>
Copied(k) == k \in op.todo /\ \A j \in op.todo : k <= j

\* A slip in writeLabel: the mirrors are left as they are.
writeLabelPrimary(k) ==
  /\ Copied(k)
  /\ supers' = [supers EXCEPT ![0].label = op.value]
  /\ op' = [op EXCEPT !.todo = @ \ {k}]
  /\ UNCHANGED <<Files, label, torn, calls, faults>>

writeLabel(k) ==
  /\ Copied(k)
  /\ supers' = [supers EXCEPT ![k].label = op.value]
  /\ op' = [op EXCEPT !.todo = @ \ {k}]
  /\ UNCHANGED <<Files, label, torn, calls, faults>>

\* A mirror that cannot be read is passed over.
mirrorUnread(k) ==
  /\ Copied(k) /\ k # 0
  /\ faults < MaxFaults
  /\ faults' = faults + 1
  /\ op' = [op EXCEPT !.todo = @ \ {k}, !.skipped = @ \cup {k}]
  /\ UNCHANGED <<Files, supers, label, torn, calls>>

\* The primary cannot be read, a copy not written, or the device not synced.
labelFails ==
  /\ op.kind = "label"
  /\ Abort

syncLabel ==
  /\ op.kind = "label" /\ op.todo = {}
  /\ label' = op.value
  /\ torn' = op.skipped
  /\ op' = Idle
  /\ UNCHANGED <<Files, supers, calls, faults>>

\* The process ends, in the middle of a call or not, and the image is mounted.
Remount ==
  /\ tree' = image
  /\ generation' = supers[0].generation
  /\ label' = supers[0].label
  /\ op' = Idle
  /\ promise' = saved
  /\ torn' = torn \ {0}
  /\ UNCHANGED <<image, supers, saved, calls, faults>>

Calls ==
  \/ WriteFile
  \/ \E i \in Inodes :
       \/ DeleteFile(i)
       \/ \E f \in Fields, v \in Values : SetField(i, f, v)
       \/ \E n \in Names : RemoveXattr(i, n) \/ \E v \in Values : SetXattr(i, n, v)
  \/ \E l \in Labels : SetLabel(l)

Steps ==
  \/ putXattr \/ deleteXattr \/ updateInodeMetadata
  \/ insertInode \/ insertEntries \/ insertEntriesFail
  \/ removeXattrItems \/ removeInodeItem \/ removeEntries
  \/ changeFails \/ updateFsTreeRoot
  \/ \E k \in Copies : writeLabel(k) \/ mirrorUnread(k)
  \/ labelFails \/ syncLabel

Next == Calls \/ Steps \/ Remount

Spec == Init /\ [][Next]_vars

\* The item that SetXattr or RemoveXattr is about to change is not the item of
\* another name with the same hash.
Apart ==
  op.kind \in {"setxattr", "removexattr"} /\ op.stage = "xattr" =>
    \A y \in tree[op.ino].xattrs[Hash[op.attr]] : y.name = op.attr

\* The behaviours in which no such item is changed.
ApartNext == Next /\ Apart'

ApartSpec == Init /\ [][ApartNext]_vars

----------------------------------------------------------------------------
(* Properties. *)

\* Items, superblocks and calls have their types; the numbers of changes and of
\* transactions are no larger than the number of calls allows.
TypeOK ==
  /\ \A i \in Inodes : \A t \in {tree, image} :
       /\ t[i].there \in BOOLEAN /\ t[i].named \in BOOLEAN
       /\ t[i].fields \in [Fields -> Values \cup {Unset}]
       /\ t[i].seq \in 0 .. MaxCalls /\ t[i].transid \in 0 .. MaxCalls + 1
       /\ \A h \in Hashes : t[i].xattrs[h] \subseteq [name : Names, value : Values]
  /\ generation \in Nat /\ label \in Labels
  /\ DOMAIN supers = Copies /\ \A k \in Copies : supers[k].label \in Labels
  /\ op.ino \in 0 .. MaxInode /\ op.todo \cup op.skipped \cup torn \subseteq Copies
  /\ faults \in 0 .. MaxFaults

\* Between calls every attribute of a file reads as it was last set: chown, chmod
\* and chtimes do not undo each other, a name without an extended attribute is not
\* answered with the value of another name that has its hash, and a file that is
\* given the number of a removed one has none of its attributes, whatever failed
\* in between and after a mount too.  (In ApartSpec; of Spec it is not true.)
AttributesReadBack ==
  /\ TypeOK
  /\ op = Idle => \A i \in Inodes :
       Found(i) => \A a \in Attrs : Read(tree[i], a) \in promise[i][a]

\* An extended attribute that is not there cannot be removed.  (In ApartSpec too.)
RemoveWantsName ==
  op.kind = "removexattr" /\ op.stage = "xattr" =>
    getXattrInode(tree[op.ino], op.attr) # Unset

\* Every INODE_ITEM of a file that a commit changes carries the generation of that
\* commit, also when the change was made by an earlier call that failed; none
\* carries a generation that the superblock has not reached.  (The INODE_ITEMs of
\* the directories that the files are in are not part of this module.)
ChangesAreDated ==
  [][/\ \A i \in Inodes : image'[i].there => image'[i].transid <= supers'[0].generation
     /\ \A i \in Inodes :
          image'[i].there /\ InodeItem(image'[i]) # InodeItem(image[i])
            => image'[i].transid = supers'[0].generation]_vars

\* The label in memory is the label of every copy of the superblock, through all
\* commits and mounts, but for the mirrors that SetLabel passed over, and for all
\* of them once a SetLabel was cut short; a mount takes the label of the primary.
LabelsAgree == \A k \in Copies \ torn : supers[k].label = label

\* The label in memory is the one a mount would find.
LabelCoherent == op.kind # "label" => supers[0].label = label
=============================================================================
