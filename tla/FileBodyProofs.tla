--------------------------- MODULE FileBodyProofs ---------------------------
(***************************************************************************)
(* The second half: storing an extent, cutting an item, every step keeps   *)
(* the invariant, and what follows from it: a read returns the bytes of    *)
(* the last call that succeeded, a committed file survives a remount, an   *)
(* open file reads the body it was opened on, and the files use space as   *)
(* FreeSpace allows.                                                       *)
(***************************************************************************)
EXTENDS FileLayoutProofs

\* The item that is stored.
LEMMA StoreFacts ==
  ASSUME IInv, op.stage = "store"
  PROVE  /\ op # Idle /\ op.ino \in Inodes /\ op.kind \in {"create", "overwrite"} /\ ~Freeing(op.ino)
         /\ WrittenSoFar /\ Len(op.data) \in Nat /\ op.at \in Nat /\ op.data \in Seq(Cells)
         /\ \E g : op.got = {g} /\ NextItem(g)
<1>1. op # Idle /\ op.ino \in Inodes
  BY OpGoes
<1>2. op.kind \in {"create", "overwrite"} /\ ~Freeing(op.ino)
  BY <1>1 DEF IInv, Inv, OpInv, Freeing
<1>3. WrittenSoFar /\ \E g : op.got = {g} /\ NextItem(g)
  BY DEF IInv, Inv, WriteInv
<1> QED
  BY <1>1, <1>2, <1>3, OpFields DEF IInv, Typed

\* What is written lands in the extent of the item.
LEMMA WrittenFacts ==
  ASSUME IInv, op.stage = "store", NEW g, op.got = {g}, NextItem(g)
  PROVE  /\ Written(g) \in [Units -> Cells]
         /\ \A u \in Units : (g.start = 0 \/ u \notin Extent(g)) => Written(g)[u] = disk[u]
         /\ \A p \in Nat : g.start # 0 /\ Covers(g, p) => Written(g)[g.start + (p - g.off)] = op.data[p + 1]
<1> DEFINE D == op.data
           n == Len(op.data)
           R == g.start .. g.start + g.num - 1
<1>1. /\ g.off \in Nat /\ g.num \in Nat /\ g.start \in Nat /\ g.off + g.num <= n /\ n \in Nat
      /\ g.start # 0 => R \subseteq Extent(g) /\ Extent(g) \subseteq Units
  BY ItemFacts, StoreFacts DEF NextItem
<1>2. \A i \in 1 .. n : D[i] \in Cells
  BY StoreFacts, SeqShape
<1>3. disk \in [Units -> Cells]
  BY DEF IInv, Typed, DiskTyped
<1>4. Written(g) = [u \in Units |-> IF g.start # 0 /\ u \in R THEN D[g.off + (u - g.start) + 1] ELSE disk[u]]
  BY DEF Written
<1> HIDE DEF D, n
<1>5. \A u \in R : g.off + (u - g.start) + 1 \in 1 .. n
  BY <1>1
<1>6. Written(g) \in [Units -> Cells]
  BY <1>2, <1>3, <1>4, <1>5
<1>7. \A u \in Units : (g.start = 0 \/ u \notin Extent(g)) => Written(g)[u] = disk[u]
  BY <1>1, <1>4
<1>8. ASSUME NEW p \in Nat, g.start # 0, Covers(g, p)
      PROVE  Written(g)[g.start + (p - g.off)] = D[p + 1]
  <2> DEFINE u == g.start + (p - g.off)
  <2>1. g.off <= p /\ p < g.off + g.num
    BY <1>8 DEF Covers
  <2>2. u \in R /\ g.off + (u - g.start) + 1 = p + 1
    BY <1>1, <2>1
  <2>3. u \in Units
    BY <1>1, <1>8, <2>2
  <2> HIDE DEF u, R
  <2>4. Written(g)[u] = D[g.off + (u - g.start) + 1]
    BY <1>4, <1>8, <2>2, <2>3
  <2>5. Written(g)[u] = D[p + 1]
    BY <2>2, <2>4
  <2> QED
    BY <2>5 DEF u
<1> QED
  BY <1>6, <1>7, <1>8 DEF D

\* No other extent is written to.
LEMMA WrittenApart ==
  ASSUME IInv, op.stage = "store", NEW g, op.got = {g}, NextItem(g), disk' = Written(g) \/ disk' = disk
  PROVE  DiskKept /\ disk' \in [Units -> Cells]
<1>1. /\ Written(g) \in [Units -> Cells]
      /\ \A u \in Units : (g.start = 0 \/ u \notin Extent(g)) => Written(g)[u] = disk[u]
  BY WrittenFacts
<1>2. disk \in [Units -> Cells]
  BY DEF IInv, Typed, DiskTyped
<1>3. g.start # 0 =>
         /\ \A x \in leaked : Extent(g) \cap x = {}
         /\ \A i \in Inodes : \A e \in OnDisk(tree[i].items) : Extent(e) \cap Extent(g) = {}
  <2>1. g.start # 0 => g \in OnDisk(op.got)
    BY DEF OnDisk
  <2> QED
    BY <2>1 DEF IInv, Inv, Spaced
<1>4. \A x \in leaked : x \subseteq Units
  BY DEF IInv, Inv, Spaced, FS!Ranges
<1>5. \A i \in Inodes : \A e \in OnDisk(tree[i].items) : Extent(e) \subseteq Units
  BY ItemFacts DEF IInv, Inv, Arranged, Laid, OnDisk
<1>6. \A x \in leaked : \A u \in x : disk'[u] = disk[u]
  BY <1>1, <1>3, <1>4
<1>7. \A i \in Inodes : \A e \in OnDisk(tree[i].items) : \A u \in Extent(e) : disk'[u] = disk[u]
  BY <1>1, <1>3, <1>5
<1> QED
  BY <1>1, <1>2, <1>6, <1>7 DEF DiskKept

\* When storing the item fails the extent is lost and the call ends.
LEMMA StoreFailsStep ==
  ASSUME IInv, storeExtentFails
  PROVE  IInv'
<1>1. /\ op.stage = "store" /\ op' = Idle /\ faults < MaxFaults /\ faults' = faults + 1
      /\ UNCHANGED <<tree, image, free, body, saved, handle>>
  BY DEF storeExtentFails, Abort, Ghosts
<1>2. PICK g : op.got = {g} /\ NextItem(g)
  BY <1>1, StoreFacts
<1> DEFINE X == {Extent(x) : x \in OnDisk({g})}
<1>3. disk' \in {disk, Written(g)} /\ leaked' = leaked \cup X
  BY <1>2 DEF storeExtentFails
<1>4. op # Idle /\ ~Freeing(op.ino) /\ op.kind # "truncate"
  BY <1>1, StoreFacts
<1>5. DiskKept /\ disk' \in [Units -> Cells]
  BY <1>1, <1>2, <1>3, WrittenApart
<1>6. DiskTyped'
  <2>1. faults' \in 0 .. MaxFaults
    BY <1>1, FileBodyAssumption DEF IInv, Typed, DiskTyped
  <2> QED
    BY <1>5, <2>1 DEF DiskTyped
<1>7. TreesTyped' /\ Arranged(tree)' /\ SpaceTyped'
  BY <1>1 DEF IInv, Inv, Typed, TreesTyped, SpaceTyped, Whole
<1>8. BodyInv' /\ SavedInv' /\ HandleInv' /\ Arranged(image)' /\ PromisesTyped'
  BY <1>1, <1>3, <1>4, <1>5, OwnStep, SMTT(30)
<1>9. OpTyped' /\ OpInv' /\ WriteInv' /\ CutInv' /\ CommitInv'
  BY <1>1, IdleInv
<1>10. Spaced'
  <2>1. Spaced
    BY DEF IInv, Inv
  <2>2. \A j \in Inodes : HeldBy(j) = OnDisk(tree[j].items) /\ HeldBy(j)' = OnDisk(tree[j].items)
    BY <1>1, <1>4, IdleFacts DEF HeldBy, Freeing
  <2>3. \A j \in Inodes : \A f \in HeldBy(j)' : Extent(f) \cap free' = {}
    BY <1>1, <2>1, <2>2 DEF Spaced
  <2>4. ASSUME NEW x \in leaked'
        PROVE  /\ x \in FS!Ranges /\ x \cap free' = {}
               /\ \A j \in Inodes : \A f \in OnDisk(tree'[j].items) : Extent(f) \cap x = {}
    <3>1. CASE x \in leaked
      BY <1>1, <2>1, <3>1 DEF Spaced
    <3>2. CASE x \in X
      <4>1. x = Extent(g) /\ g.start # 0 /\ g \in OnDisk(op.got)
        BY <1>2, <3>2 DEF OnDisk
      <4>2. ItemOK(g)
        BY <1>2 DEF NextItem
      <4>3. x \in FS!Ranges
        BY <4>1, <4>2, ItemFacts DEF FS!Ranges
      <4> QED
        BY <1>1, <2>1, <4>1, <4>3 DEF Spaced
    <3> QED
      BY <1>3, <3>1, <3>2
  <2>5. OnDisk(op'.got) = {}
    BY <1>1, IdleFacts DEF OnDisk
  <2> QED
    BY <2>3, <2>4, <2>5 DEF Spaced
<1> QED
  BY <1>6, <1>7, <1>8, <1>9, <1>10 DEF IInv, Inv, Typed

\* With the item the file reads what was written so far and what the item stands for.
LEMMA StoredSoFar ==
  ASSUME IInv, op.stage = "store", NEW g, op.got = {g}, NextItem(g), disk' = Written(g)
  PROVE  \A p \in Nat : p < g.off + g.num =>
           UnitAt(tree[op.ino].items \cup {g}, p, disk') = op.data[p + 1]
<1> DEFINE S == tree[op.ino].items
           T == S \cup {g}
<1>1. /\ ItemOK(g) /\ g.off = op.at /\ g.off + g.num <= Len(op.data)
      /\ g.off \in Nat /\ g.num \in Nat /\ Len(op.data) \in Nat /\ op.data \in Seq(Cells)
  BY StoreFacts, ItemFacts, SMTT(30) DEF NextItem
<1>2. Laid(S) /\ EndBy(S, g.off)
  BY <1>1, StoreFacts DEF IInv, Inv, Arranged, WrittenSoFar
<1>3. /\ \A d : \A p \in Nat : p < g.off => UnitAt(T, p, d) = UnitAt(S, p, d)
      /\ \A d : \A p \in Nat : Covers(g, p) => UnitAt(T, p, d) = ItemAt(g, p, d)
  <2> HIDE DEF S
  <2>1. ItemOK(g) /\ Laid(S) /\ EndBy(S, g.off)
    BY <1>1, <1>2
  <2>2. ASSUME NEW d, NEW p \in Nat, p < g.off PROVE UnitAt(S \cup {g}, p, d) = UnitAt(S, p, d)
    BY <2>1, <2>2, AddedBefore
  <2>3. ASSUME NEW d, NEW p \in Nat, Covers(g, p) PROVE UnitAt(S \cup {g}, p, d) = ItemAt(g, p, d)
    BY <2>1, <2>3, AddedIn
  <2> QED
    BY <2>2, <2>3, Zenon
<1>4. \A p \in Nat : UnitAt(S, p, disk') = UnitAt(S, p, disk)
  <2>1. DiskKept
    BY WrittenApart
  <2>2. \A e \in OnDisk(S) : \A u \in Extent(e) : disk'[u] = disk[u]
    BY <2>1, StoreFacts DEF DiskKept
  <2> QED
    BY <1>2, <2>2, UnitStays
<1> SUFFICES ASSUME NEW p \in Nat, p < g.off + g.num PROVE UnitAt(T, p, disk') = op.data[p + 1]
  OBVIOUS
<1>5. CASE p < g.off
  <2>1. UnitAt(S, p, disk) = op.data[p + 1]
    BY <1>1, <1>5, StoreFacts, SMTT(30) DEF WrittenSoFar
  <2> QED
    BY <1>3, <1>4, <1>5, <2>1, Zenon
<1>6. CASE ~(p < g.off)
  <2>1. Covers(g, p)
    BY <1>1, <1>6 DEF Covers
  <2>2. UnitAt(T, p, disk') = ItemAt(g, p, disk')
    BY <1>3, <2>1, Zenon
  <2>3. CASE g.type = "inline"
    <3>1. g.off = 0 /\ g.data = op.data
      BY <1>1, <2>3 DEF ItemOK, NextItem
    <3>2. ItemAt(g, p, disk') = op.data[p - 0 + 1]
      BY <2>3, <3>1 DEF ItemAt
    <3>3. p - 0 + 1 = p + 1
      OBVIOUS
    <3> QED
      BY <2>2, <3>2, <3>3
  <2>4. CASE g.type # "inline" /\ g.start = 0
    <3>1. g.type = "regular"
      BY <1>1, <2>4 DEF ItemOK, Items
    <3>2. isAllZero(op.data)
      BY <2>4, <3>1 DEF NextItem
    <3>3. p + 1 \in DOMAIN op.data
      BY <1>1, SeqShape
    <3> QED
      BY <2>2, <2>4, <3>2, <3>3 DEF ItemAt, isAllZero
  <2>5. CASE g.type # "inline" /\ g.start # 0
    <3>1. Written(g)[g.start + (p - g.off)] = op.data[p + 1]
      BY <2>1, <2>5, WrittenFacts
    <3> QED
      BY <2>2, <2>5, <3>1 DEF ItemAt
  <2> QED
    BY <2>3, <2>4, <2>5
<1> QED
  BY <1>5, <1>6

\* Storing the item adds it to the inode and writes its bytes.
LEMMA StoreStep ==
  ASSUME IInv, storeExtent
  PROVE  IInv'
<1> DEFINE k == op.ino
           S == tree[k].items
           n == Len(op.data)
<1>1. op.stage = "store" /\ UNCHANGED <<image, free, leaked, body, saved, handle, faults>>
  BY DEF storeExtent, Ghosts
<1>2. PICK g : op.got = {g} /\ NextItem(g)
  BY <1>1, StoreFacts
<1> DEFINE T == S \cup {g}
           end == g.off + g.num
           s == CASE op.kind = "create" -> IF end < n THEN "begin" ELSE "link"
                  [] OTHER              -> IF end < n THEN "extent" ELSE "inode"
<1>3. /\ disk' = Written(g) /\ tree' = [tree EXCEPT ![k].items = T]
      /\ op' = [op EXCEPT !.got = {}, !.at = end, !.stage = s]
  BY <1>2 DEF storeExtent
<1>4. /\ op # Idle /\ k \in Inodes /\ op.kind \in {"create", "overwrite"} /\ ~Freeing(k)
      /\ WrittenSoFar /\ n \in Nat /\ OpInv
  BY <1>1, StoreFacts DEF IInv, Inv
<1>5. /\ ItemOK(g) /\ g \in Items /\ g.off = op.at /\ end <= n /\ end \in Nat
      /\ g.off \in Nat /\ g.num \in Nat
  BY <1>2, ItemFacts DEF NextItem, ItemOK
<1>6. /\ op.kind = "create" => s = IF end < n THEN "begin" ELSE "link"
      /\ op.kind = "overwrite" => s = IF end < n THEN "extent" ELSE "inode"
  OBVIOUS
<1>7. s \in Stages
  BY <1>4, <1>6 DEF Stages
<1> HIDE DEF s
<1>8. /\ OpTyped' /\ op'.stage = s /\ op'.kind = op.kind /\ op'.ino = k /\ op'.data = op.data
      /\ op'.size = op.size /\ op'.want = op.want /\ op'.at = end /\ op'.todo = op.todo
      /\ op'.got = {}
  BY <1>3, <1>5, <1>7, ZenonT(40) DEF IInv, Typed, OpTyped, OpType
<1>9. S \in SUBSET Items /\ Laid(S) /\ EndBy(S, g.off)
  BY <1>4, <1>5, TreeFields DEF IInv, Inv, Typed, Arranged, WrittenSoFar
<1>10. /\ TreesTyped'
       /\ \A j \in Inodes : /\ tree'[j].there = tree[j].there /\ tree'[j].named = tree[j].named
                            /\ tree'[j].size = tree[j].size
                            /\ tree'[j].items = IF j = k THEN T ELSE tree[j].items
  <2>1. T \in SUBSET Items /\ TreesTyped /\ image' = image
    BY <1>1, <1>5, <1>9 DEF IInv, Typed
  <2> HIDE DEF T
  <2> QED
    BY <1>3, <1>4, <2>1, ItemsReplaced, Zenon
<1>11. \A j \in Inodes \ {k} : tree'[j] = tree[j]
  BY <1>3, <1>4 DEF IInv, Typed, TreesTyped
<1>12. Laid(T) /\ EndBy(T, end)
  BY <1>5, <1>9, ItemAdded, Zenon
<1>13. Spaced
  BY DEF IInv, Inv
<1>14. g.start # 0 =>
         /\ Extent(g) \cap free = {}
         /\ \A x \in leaked : Extent(g) \cap x = {}
         /\ \A i \in Inodes : \A e \in OnDisk(tree[i].items) : Extent(e) \cap Extent(g) = {}
  BY <1>2, <1>13 DEF OnDisk, Spaced
<1>15. \A f \in OnDisk(T) : f \in OnDisk(S) \/ (f = g /\ g.start # 0)
  BY DEF OnDisk
<1>16. Arranged(tree)'
  <2>1. \A e, f \in OnDisk(T) : e = f \/ Extent(e) \cap Extent(f) = {}
    BY <1>4, <1>14, <1>15, SMTT(30) DEF IInv, Inv, Arranged
  <2>2. \A e \in OnDisk(T) : \A j \in Inodes \ {k} : \A f \in OnDisk(tree[j].items) :
           Extent(e) \cap Extent(f) = {}
    BY <1>4, <1>14, <1>15, SMTT(30) DEF IInv, Inv, Arranged
  <2>5. tree[k].there
    BY <1>4 DEF OpInv
  <2>3. tree'[k].items = T /\ tree'[k].there
    BY <1>4, <1>10, <2>5
  <2>4. Laid(tree'[k].items) /\ Arranged(tree)
    BY <1>12, <2>3 DEF IInv, Inv
  <2> HIDE DEF T
  <2> QED
    BY <1>4, <1>11, <2>1, <2>2, <2>3, <2>4, OneInodeArranged, SMTT(30)
<1>17. DiskKept /\ disk' \in [Units -> Cells]
  BY <1>1, <1>2, <1>3, WrittenApart
<1>18. DiskTyped' /\ SpaceTyped'
  BY <1>1, <1>17 DEF IInv, Typed, DiskTyped, SpaceTyped, Whole
<1>19. BodyInv' /\ SavedInv' /\ HandleInv' /\ Arranged(image)' /\ PromisesTyped'
  <2>1. leaked' = leaked \cup {} /\ op.kind # "truncate"
    BY <1>1, <1>4, SMTT(30)
  <2> QED
    BY <1>1, <1>4, <1>11, <1>17, <2>1, OwnStep, Zenon
<1>20. Spaced'
  <2>1. s \notin {"commit"} /\ ~(op'.kind \in {"overwrite", "remove"} /\ op'.stage = "begin")
    BY <1>4, <1>6, <1>8
  <2>2. \A j \in Inodes : HeldBy(j) = OnDisk(tree[j].items) /\ HeldBy(j)' = OnDisk(tree'[j].items)
    BY <1>4, <2>1 DEF HeldBy, Freeing
  <2>3. \A j \in Inodes : \A f \in OnDisk(tree'[j].items) :
          f \in OnDisk(tree[j].items) \/ (f = g /\ g.start # 0)
    BY <1>10, <1>15, SMTT(30)
  <2>4. \A j \in Inodes : \A f \in HeldBy(j)' : Extent(f) \cap free' = {}
    BY <1>1, <1>13, <1>14, <2>2, <2>3, SMTT(30) DEF Spaced
  <2>5. \A x \in leaked' : /\ x \in FS!Ranges /\ x \cap free' = {}
                           /\ \A j \in Inodes : \A f \in OnDisk(tree'[j].items) : Extent(f) \cap x = {}
    BY <1>1, <1>13, <1>14, <2>3, SMTT(30) DEF Spaced
  <2>6. OnDisk(op'.got) = {}
    BY <1>8 DEF OnDisk
  <2> QED
    BY <2>4, <2>5, <2>6 DEF Spaced
<1>21. OpInv'
  <2>1. tree'[k].there = tree[k].there /\ tree'[k].size = tree[k].size
    BY <1>4, <1>10
  <2>2. op'.kind = "create" => op'.stage \in {"begin", "link"}
    BY <1>6, <1>8
  <2>3. op'.kind = "overwrite" => op'.stage \in {"extent", "inode"}
    BY <1>6, <1>8
  <2> QED
    BY <1>1, <1>4, <1>8, <2>1, <2>2, <2>3, Zenon DEF OpInv, Freeing
<1>22. WriteInv'
  <2>1. tree'[op'.ino].items = T
    BY <1>4, <1>8, <1>10
  <2>2. \A p \in Nat : p < end => UnitAt(T, p, disk') = op.data[p + 1]
    BY <1>1, <1>2, <1>3, StoredSoFar
  <2>3. WrittenSoFar'
    BY <1>5, <1>8, <1>12, <2>1, <2>2, Zenon DEF WrittenSoFar
  <2>4. end < n => Stored
    BY <1>2, <1>4, <1>5 DEF NextItem
  <2>5. Stored' <=> Stored
    BY <1>8 DEF Stored
  <2>6. Writing' => end < n
    BY <1>4, <1>6, <1>8 DEF Writing, At
  <2>7. op'.stage \in {"link", "inode"} => end = n
    BY <1>4, <1>5, <1>6, <1>8
  <2>8. op'.stage # "store"
    BY <1>4, <1>6, <1>8, SMTT(30)
  <2> QED
    BY <1>8, <2>3, <2>4, <2>5, <2>6, <2>7, <2>8, SMTT(30) DEF WriteInv
<1>23. CutInv' /\ CommitInv'
  BY <1>4, <1>6, <1>8, SMTT(30) DEF CutInv, CommitInv, At
<1> QED
  BY <1>8, <1>10, <1>16, <1>18, <1>19, <1>20, <1>21, <1>22, <1>23, SMTT(30) DEF IInv, Inv, Typed

\* A cut leaves the file the extents it has, or loses one of them.
Trims(i) ==
  \/ /\ leaked' = leaked
     /\ {Extent(f) : f \in OnDisk(tree'[i].items)} = {Extent(f) : f \in OnDisk(tree[i].items)}
  \/ \E e \in OnDisk(tree[i].items) :
       /\ leaked' = leaked \cup {Extent(e)}
       /\ OnDisk(tree'[i].items) = OnDisk(tree[i].items) \ {e}

\* Items past the new size are dropped or cut.
LEMMA CutStep ==
  ASSUME IInv, truncateItem
  PROVE  IInv' /\ Trims(op.ino)
<1> DEFINE k == op.ino
           S == tree[k].items
           n == op.size
           keepOf(e) == {[x EXCEPT !.num = n - e.off,
                            !.data = SubSeq(@, 1, IF e.type = "inline" THEN n - e.off ELSE 0)] :
                        x \in {y \in {e} : e.off < n}}
<1>4. PICK e \in op.todo :
        /\ tree' = [tree EXCEPT ![k].items = (@ \ {e}) \cup keepOf(e)]
        /\ leaked' = leaked \cup {Extent(x) : x \in OnDisk({y \in {e} : keepOf(e) = {}})}
        /\ op' = [op EXCEPT !.todo = @ \ {e}]
  BY Zenon DEF truncateItem, Lowest
<1> DEFINE T == CutAt(S, e, n)
           X == {Extent(x) : x \in OnDisk({y \in {e} : ~(e.off < n)})}
<1>1. /\ op.kind = "truncate" /\ op.stage = "begin"
      /\ op' = [op EXCEPT !.todo = @ \ {e}]
      /\ UNCHANGED <<image, free, disk, body, saved, handle, faults>>
  BY <1>4, Zenon DEF truncateItem, At, Ghosts
<1>2. /\ tree' = [tree EXCEPT ![k].items = T] /\ leaked' = leaked \cup X
  <2> DEFINE keep == keepOf(e)
  <2>1. /\ tree' = [tree EXCEPT ![k].items = (@ \ {e}) \cup keep]
        /\ leaked' = leaked \cup {Extent(x) : x \in OnDisk({y \in {e} : keep = {}})}
    BY <1>4, Zenon
  <2>2. keep = IF e.off < n THEN {Cut(e, n)} ELSE {}
    BY Zenon DEF Cut
  <2> HIDE DEF keep
  <2>3. T = (S \ {e}) \cup keep
    BY <2>2 DEF CutAt
  <2>4. keep = {} <=> ~(e.off < n)
    BY <2>2
  <2>5. {y \in {e} : keep = {}} = {y \in {e} : ~(e.off < n)}
    BY <2>4
  <2> QED
    BY <2>1, <2>3, <2>5, Zenon
<1>3. op # Idle /\ k \in Inodes /\ ~Freeing(k) /\ OpInv /\ n \in Nat
  BY <1>1, OpGoes, OpFields DEF Freeing, IInv, Inv, Typed
<1>5. /\ op.todo \subseteq S /\ n < e.off + e.num
      /\ op.want # {} => /\ \A w \in op.want : w = Content(S, n, disk)
                         /\ EndBy(S \ op.todo, n)
  BY <1>1, <1>4, Zenon DEF IInv, Inv, CutInv, At
<1>6. e \in S /\ S \in SUBSET Items /\ Laid(S)
  BY <1>3, <1>4, <1>5, TreeFields, Zenon DEF IInv, Inv, Typed, Arranged
<1>7. ItemOK(e) /\ e.off \in Nat /\ e.num \in Nat
  BY <1>6, ItemFacts DEF Laid
<1>8. /\ Laid(T)
      /\ \A x \in T : x \in S \ {e} \/ x.off + x.num <= n
      /\ \A p \in Nat : p < n => UnitAt(T, p, disk) = UnitAt(S, p, disk)
  <2> HIDE DEF S, T
  <2>1. /\ Laid(T)
        /\ \A x \in T : x \in S \ {e} \/ x.off + x.num <= n
    BY <1>3, <1>5, <1>6, ItemsCut, SMTT(30) DEF T
  <2>2. ASSUME NEW p \in Nat, p < n PROVE UnitAt(CutAt(S, e, n), p, disk) = UnitAt(S, p, disk)
    BY <1>3, <1>5, <1>6, <2>2, ItemsCut, SMTT(30)
  <2> QED
    BY <2>1, <2>2, SMTT(30) DEF T
<1>9. e.off < n => ItemOK(Cut(e, n)) /\ Cut(e, n).start = e.start /\ Extent(Cut(e, n)) = Extent(e)
  BY <1>3, <1>5, <1>7, CutItem, SMTT(30)
<1>10. \A x \in T : x \in S \ {e} \/ (e.off < n /\ x = Cut(e, n))
  BY DEF CutAt
<1>11. /\ S \ {e} \subseteq T /\ (e.off < n => Cut(e, n) \in T)
  BY DEF CutAt
<1> HIDE DEF T
<1>12. T \in SUBSET Items
  BY <1>8 DEF Laid, ItemOK
<1>13. /\ OpTyped' /\ op'.stage = op.stage /\ op'.kind = op.kind /\ op'.ino = k /\ op'.data = op.data
       /\ op'.size = n /\ op'.want = op.want /\ op'.at = op.at /\ op'.todo = op.todo \ {e}
       /\ op'.got = op.got
  BY <1>1, TodoReplaced DEF IInv, Typed
<1>14. /\ TreesTyped'
       /\ \A j \in Inodes : /\ tree'[j].there = tree[j].there /\ tree'[j].named = tree[j].named
                            /\ tree'[j].size = tree[j].size
                            /\ tree'[j].items = IF j = k THEN T ELSE tree[j].items
  <2>1. TreesTyped /\ image' = image
    BY <1>1 DEF IInv, Typed
  <2> QED
    BY <1>2, <1>3, <1>12, <2>1, ItemsReplaced, Zenon
<1>15. \A j \in Inodes \ {k} : tree'[j] = tree[j]
  BY <1>2, <1>3, SMTT(30) DEF IInv, Typed, TreesTyped
\* The extents of the new items are those of the old ones, one for one.
<1>16. \A f \in OnDisk(T) : \/ f \in OnDisk(S) /\ f # e
                            \/ f = Cut(e, n) /\ e \in OnDisk(S) /\ Extent(f) = Extent(e)
  BY <1>6, <1>9, <1>10, SMTT(30) DEF OnDisk
<1>17. /\ \A x, y \in OnDisk(S) : x = y \/ Extent(x) \cap Extent(y) = {}
       /\ \A x \in OnDisk(S) : \A j \in Inodes \ {k} : \A y \in OnDisk(tree[j].items) :
            Extent(x) \cap Extent(y) = {}
  BY <1>3 DEF IInv, Inv, Arranged
<1>18. Arranged(tree)'
  <2>1. \A x, y \in OnDisk(T) : x = y \/ Extent(x) \cap Extent(y) = {}
    BY <1>16, <1>17, SMTT(30)
  <2>2. \A x \in OnDisk(T) : \A j \in Inodes \ {k} : \A y \in OnDisk(tree[j].items) :
           Extent(x) \cap Extent(y) = {}
    BY <1>16, <1>17
  <2>3. tree[k].there
    BY <1>1, <1>3 DEF OpInv
  <2>4. Arranged(tree)
    BY SMTT(30) DEF IInv, Inv
  <2>5. tree'[k].items = T /\ (tree'[k].named => tree'[k].there) /\ tree'[k].there
    BY <1>3, <1>8, <1>14, <1>15, <2>3, <2>4, SMTT(30) DEF Arranged
  <2>6. /\ Laid(tree'[k].items)
        /\ \A x, y \in OnDisk(tree'[k].items) : x = y \/ Extent(x) \cap Extent(y) = {}
        /\ \A x \in OnDisk(tree'[k].items) : \A j \in Inodes \ {k} : \A y \in OnDisk(tree[j].items) :
             Extent(x) \cap Extent(y) = {}
    BY <1>8, <2>1, <2>2, <2>5, Zenon
  <2> QED
    BY <1>3, <1>15, <2>4, <2>5, <2>6, OneInodeArranged, Zenon
<1>19. DiskKept /\ DiskTyped' /\ SpaceTyped'
  BY <1>1, SameDisk DEF IInv, Typed, DiskTyped, SpaceTyped, Whole
<1>20. Follows(k)
  <2>1. ASSUME NEW f \in OnDisk(S)
        PROVE  Extent(f) \in leaked' \/ \E h \in OnDisk(T) : Extent(h) = Extent(f)
    <3>1. CASE f # e
      BY <1>11, <2>1, <3>1, SMTT(30) DEF OnDisk
    <3>2. CASE f = e /\ e.off < n
      BY <1>9, <1>11, <2>1, <3>2 DEF OnDisk
    <3>3. CASE f = e /\ ~(e.off < n)
      BY <1>2, <2>1, <3>3 DEF OnDisk
    <3> QED
      BY <3>1, <3>2, <3>3
  <2>2. tree'[k].items = T
    BY <1>3, <1>14
  <2> QED
    BY <1>2, <2>1, <2>2, Zenon DEF Follows
<1>21. BodyInv' /\ SavedInv' /\ HandleInv' /\ Arranged(image)' /\ PromisesTyped'
  BY <1>1, <1>2, <1>3, <1>15, <1>19, <1>20, OwnStep, Zenon
<1>22. Spaced'
  <2>1. Spaced
    BY DEF IInv, Inv
  <2>2. \A j \in Inodes : HeldBy(j) = OnDisk(tree[j].items) /\ HeldBy(j)' = OnDisk(tree'[j].items)
    BY <1>1, <1>13 DEF HeldBy, Freeing
  <2>3. \A j \in Inodes : \A f \in OnDisk(tree'[j].items) :
          \E h \in OnDisk(tree[j].items) : Extent(f) = Extent(h)
    BY <1>14, <1>16
  <2>4. \A j \in Inodes : \A f \in HeldBy(j)' : Extent(f) \cap free' = {}
    BY <1>1, <2>1, <2>2, <2>3 DEF Spaced
  <2>5. ASSUME NEW x \in leaked'
        PROVE  /\ x \in FS!Ranges /\ x \cap free' = {}
               /\ \A j \in Inodes : \A f \in OnDisk(tree'[j].items) : Extent(f) \cap x = {}
    <3>1. CASE x \in leaked
      BY <1>1, <2>1, <2>3, <3>1, SMTT(30) DEF Spaced
    <3>2. CASE x \in X
      <4>1. x = Extent(e) /\ e.start # 0 /\ e \in OnDisk(S) /\ ~(e.off < n)
        BY <1>6, <3>2 DEF OnDisk
      <4>2. x \in FS!Ranges
        BY <1>7, <4>1, ItemFacts DEF FS!Ranges
      <4>3. x \cap free' = {}
        BY <1>1, <1>3, <2>1, <2>2, <4>1, SMTT(30) DEF Spaced
      <4>4. \A f \in OnDisk(T) : Extent(f) \cap x = {}
        <5>1. \A f \in OnDisk(T) : f \in OnDisk(S) /\ f # e
          BY <1>10, <1>16, <4>1, SMTT(30) DEF OnDisk
        <5> QED
          BY <1>17, <4>1, <5>1, SMTT(30)
      <4>5. \A j \in Inodes : \A f \in OnDisk(tree'[j].items) : Extent(f) \cap x = {}
        BY <1>14, <1>17, <4>1, <4>4
      <4> QED
        BY <4>2, <4>3, <4>5
    <3> QED
      BY <1>2, <3>1, <3>2, Zenon
  <2>6. OnDisk(op'.got) = {}
    <3>1. op.got = {}
      BY <1>1, <1>3, SMTT(30) DEF OpInv
    <3> QED
      BY <1>13, <3>1 DEF OnDisk
  <2> QED
    BY <2>4, <2>5, <2>6, SMTT(30) DEF Spaced
<1>23. OpInv'
  <2>1. tree'[k].there = tree[k].there
    BY <1>3, <1>14
  <2> QED
    BY <1>1, <1>3, <1>13, <2>1, SMTT(30) DEF OpInv, Freeing
<1>24. WriteInv' /\ CommitInv'
  BY <1>1, <1>13 DEF WriteInv, CommitInv, Writing, At
<1>25. CutInv'
  <2>1. tree'[op'.ino].items = T
    BY <1>3, <1>13, <1>14, SMTT(30)
  <2>2. op'.todo \subseteq T
    BY <1>5, <1>11, <1>13
  <2>3. \A f \in op'.todo : op'.size < f.off + f.num
    BY <1>1, <1>13 DEF IInv, Inv, CutInv, At
  <2>4. Content(T, n, disk) = Content(S, n, disk)
    <3>1. \A i \in 1 .. n : UnitAt(T, i - 1, disk) = UnitAt(S, i - 1, disk)
      <4> SUFFICES ASSUME NEW i \in 1 .. n PROVE UnitAt(T, i - 1, disk) = UnitAt(S, i - 1, disk)
        OBVIOUS
      <4>1. i - 1 \in Nat /\ i - 1 < n
        BY <1>3
      <4> QED
        BY <1>8, <4>1
    <3> QED
      BY <3>1 DEF Content
  <2>5. op.want # {} => EndBy(T \ op'.todo, n)
    BY <1>5, <1>8, <1>13 DEF EndBy
  <2> QED
    BY <1>1, <1>5, <1>13, <2>1, <2>2, <2>3, <2>4, <2>5, Zenon DEF CutInv
<1>26. Trims(k)
  <2>1. tree'[k].items = T
    BY <1>3, <1>14
  <2>2. CASE e.off < n
    <3>1. leaked' = leaked
      BY <1>2, <2>2 DEF OnDisk
    <3>2. \A f \in OnDisk(S) : \E h \in OnDisk(T) : Extent(h) = Extent(f)
      BY <1>9, <1>11, <2>2 DEF OnDisk
    <3>3. \A f \in OnDisk(T) : \E h \in OnDisk(S) : Extent(h) = Extent(f)
      BY <1>16
    <3>4. {Extent(f) : f \in OnDisk(T)} = {Extent(f) : f \in OnDisk(S)}
      BY <3>2, <3>3
    <3> QED
      BY <2>1, <3>1, <3>4 DEF Trims
  <2>3. CASE ~(e.off < n)
    <3>1. OnDisk(T) = OnDisk(S) \ {e}
      BY <1>10, <1>11, <2>3 DEF OnDisk
    <3>2. CASE e.start = 0
      <4>1. leaked' = leaked /\ e \notin OnDisk(S)
        BY <1>2, <3>2 DEF OnDisk
      <4>2. OnDisk(T) = OnDisk(S)
        BY <3>1, <4>1
      <4> QED
        BY <2>1, <4>1, <4>2 DEF Trims
    <3>3. CASE e.start # 0
      <4>1. leaked' = leaked \cup {Extent(e)} /\ e \in OnDisk(S)
        BY <1>2, <1>6, <2>3, <3>3 DEF OnDisk
      <4> QED
        BY <2>1, <3>1, <4>1 DEF Trims
    <3> QED
      BY <3>2, <3>3
  <2> QED
    BY <2>2, <2>3
<1> QED
  BY <1>13, <1>14, <1>18, <1>19, <1>21, <1>22, <1>23, <1>24, <1>25, <1>26, SMTT(30) DEF IInv, Inv, Typed

\* Every step of the calls, and the crash, keep the invariant.
LEMMA StepIInv == IInv /\ [Next]_vars => IInv'
<1> SUFFICES ASSUME IInv, [Next]_vars PROVE IInv'
  OBVIOUS
<1>1. CASE UNCHANGED vars
  BY <1>1, Stutter
<1>2. CASE Remount
  BY <1>2, RemountStep
<1>3. CASE Calls
  <2>1. ASSUME NEW b \in Bodies, createInodeWithDirEntry(b[1], b[2])
        PROVE  IInv'
    <3>1. b[1] \in Nat /\ b[2] \in Nat
      BY FileBodyAssumption
    <3> QED
      BY <2>1, <3>1, CreateStep
  <2>2. ASSUME NEW b \in Bodies, NEW i \in Inodes, overwriteFile(i, b[1], b[2])
        PROVE  IInv'
    <3>1. b[1] \in Nat /\ b[2] \in Nat
      BY FileBodyAssumption
    <3> QED
      BY <2>2, <3>1, OverwriteStep
  <2>3. ASSUME NEW i \in Inodes, NEW n \in Sizes, truncateInode(i, n)
        PROVE  IInv'
    <3>1. n \in Nat
      BY FileBodyAssumption
    <3> QED
      BY <2>3, <3>1, TruncateStep
  <2> QED
    BY <1>3, <2>1, <2>2, <2>3, RemoveStep, OpenStep, SMTT(30) DEF Calls
<1>4. CASE Steps
  <2>1. \/ freeInodeExtents \/ dropExtents \/ writeWithoutExtent \/ allocDataBytes \/ allocDataBytesUpTo
        \/ storeExtent \/ storeExtentFails
        => IInv'
    BY FreeStep, DropStep, InlineStep, AllocStep, AllocUpToStep, StoreStep, StoreFailsStep, SMTT(30)
  <2>2. \/ updateInode \/ insertDirEntries \/ removeEntries
        \/ truncateItem \/ truncateInodeItem \/ updateFsTreeRoot
        => IInv'
    BY UpdateStep, LinkStep, UnlinkStep, CutStep, TruncatedStep, CommitStep, SMTT(30)
  <2> QED
    BY <1>4, <2>1, <2>2, FailedStep DEF Steps
<1> QED
  BY <1>1, <1>2, <1>3, <1>4 DEF Next

\* The invariant holds in every reachable state.
LEMMA AlwaysIInv == Spec => []IInv
<1>1. IInv /\ [Next]_vars => IInv'
  BY StepIInv
<1> QED
  BY <1>1, InitIInv, PTL DEF Spec

\* The types of the model, which the invariant implies.
LEMMA TypesHold == IInv => TypeOK
<1> SUFFICES ASSUME IInv PROVE TypeOK
  OBVIOUS
<1>1. TreesTyped /\ OpTyped /\ SpaceTyped /\ DiskTyped /\ Arranged(tree) /\ Arranged(image)
  BY SMTT(30) DEF IInv, Typed, Inv
<1>2. ASSUME NEW i \in Inodes
      PROVE  /\ tree[i].items \subseteq Items /\ tree[i].size \in Nat
             /\ tree[i].named => tree[i].there
             /\ image[i].items \subseteq Items /\ image[i].size \in Nat
             /\ image[i].named => image[i].there
  BY <1>1, TreeFields DEF Arranged
<1>3. op.got \cup op.todo \subseteq Items
  BY <1>1, OpFields
<1>4. free \subseteq Units /\ disk \in [Units -> Nat \X Nat \X Nat] /\ faults \in 0 .. MaxFaults
  BY <1>1 DEF SpaceTyped, DiskTyped, Cells
<1> QED
  BY <1>2, <1>3, <1>4 DEF TypeOK

\* Reading an inode gives the body that was promised of it.
LEMMA PromiseRead ==
  ASSUME NEW B, NEW t, NEW i, t[i].size \in Nat, Promised(B, t, i), B # {}
  PROVE  readFileData(t[i], disk) \subseteq B
<1>1. PICK b \in B : b = Content(t[i].items, t[i].size, disk)
  BY DEF Promised
<1> QED
  BY <1>1, ReadContent

\* Items that are laid out do not overlap, so they can be read.
LEMMA LaidReads ==
  ASSUME NEW f, Laid(f.items), f.items # {}, NEW d
  PROVE  readFileData(f, d) # {}
<1>1. ASSUME NEW e \in f.items, NEW x \in f.items, e.off < x.off PROVE ~(x.off < e.off + e.num)
  <2>1. ItemOK(e) /\ ItemOK(x)
    BY DEF Laid
  <2>2. e.off \in Nat /\ e.num \in Nat /\ x.off \in Nat /\ x.num \in Nat
    BY <2>1, ItemFacts
  <2>3. e = x \/ e.off + e.num <= x.off \/ x.off + x.num <= e.off
    BY DEF Laid, Sorted
  <2> QED
    BY <1>1, <2>2, <2>3
<1>2. ~Overlap(f.items)
  BY <1>1 DEF Overlap
<1> QED
  BY <1>2, Zenon DEF readFileData

\* A read between the calls (readFileData, read.go) returns what the last successful
\* write and the truncations after it made of the file, whatever failed elsewhere.
THEOREM ReadsStayRight == Spec => []ReadsAreRight
<1>1. IInv => ReadsAreRight
  <2> SUFFICES ASSUME IInv PROVE ReadsAreRight
    OBVIOUS
  <2>1. TreesTyped /\ BodyInv /\ Arranged(tree)
    BY SMTT(30) DEF IInv, Typed, Inv
  <2>2. ASSUME NEW i \in Inodes, body[i] # {}
        PROVE  readFileData(tree[i], disk) \subseteq body[i]
    BY <2>1, <2>2, TreeFields, PromiseRead DEF BodyInv
  <2>3. ASSUME NEW i \in Inodes, tree[i].items # {}
        PROVE  readFileData(tree[i], disk) # {}
    BY <2>1, <2>3, LaidReads DEF Arranged
  <2> QED
    BY <2>2, <2>3, TypesHold DEF ReadsAreRight
<1> QED
  BY <1>1, AlwaysIInv, PTL

\* A crash at any step of any call leaves the committed bodies readable: nothing the
\* image refers to is written over before the commit, but for the file whose extents
\* the call frees itself.
THEOREM CommittedFilesStayIntact == Spec => []CommittedFilesIntact
<1>1. IInv => CommittedFilesIntact
  <2> SUFFICES ASSUME IInv, NEW i \in Inodes, saved[i] # {}
               PROVE  /\ readFileData(image[i], disk) \subseteq saved[i]
                      /\ image[i].items # {} => readFileData(image[i], disk) # {}
    BY DEF CommittedFilesIntact
  <2>1. TreesTyped /\ SavedInv /\ Arranged(image)
    BY DEF IInv, Typed, Inv
  <2>2. readFileData(image[i], disk) \subseteq saved[i]
    BY <2>1, TreeFields, PromiseRead DEF SavedInv
  <2>3. ASSUME image[i].items # {} PROVE readFileData(image[i], disk) # {}
    BY <2>1, <2>3, LaidReads DEF Arranged
  <2> QED
    BY <2>2, <2>3
<1> QED
  BY <1>1, AlwaysIInv, PTL

----------------------------------------------------------------------------
(* Open files. *)

\* The smaller and the larger of two numbers.
LEMMA OfTwo ==
  ASSUME NEW a \in Nat, NEW b \in Nat
  PROVE  /\ Min({a, b}) = IF a <= b THEN a ELSE b
         /\ Max({a, b}) = IF a <= b THEN b ELSE a
<1>1. Min({a, b}) \in {a, b} /\ \A y \in {a, b} : Min({a, b}) <= y
  BY DEF Min
<1>2. Max({a, b}) \in {a, b} /\ \A y \in {a, b} : y <= Max({a, b})
  BY DEF Max
<1> QED
  BY <1>1, <1>2

\* An item fills exactly what it covers of the window that is read.
LEMMA WindowOfItem ==
  ASSUME NEW e, ItemOK(e), NEW size \in Nat, NEW off \in Nat, NEW want \in Nat, off + want <= size,
         NEW p \in off .. off + want - 1
  PROVE  p \in Max({e.off, off}) .. Min({Min({e.off + e.num, size}), off + want}) - 1 <=> Covers(e, p)
<1> DEFINE a == e.off
           z == e.off + e.num
<1>1. a \in Nat /\ z \in Nat
  BY ItemFacts
<1> HIDE DEF a, z
<1>2. /\ Max({a, off}) = (IF a <= off THEN off ELSE a)
      /\ Min({z, size}) = (IF z <= size THEN z ELSE size)
  BY <1>1, OfTwo, Zenon
<1>3. Min({z, size}) \in Nat /\ off + want \in Nat
  BY <1>1, <1>2
<1>4. Min({Min({z, size}), off + want}) = (IF Min({z, size}) <= off + want THEN Min({z, size}) ELSE off + want)
  BY <1>3, OfTwo
<1>5. p \in Max({a, off}) .. Min({Min({z, size}), off + want}) - 1 <=> a <= p /\ p < z
  BY <1>1, <1>2, <1>3, <1>4, SMTT(30)
<1> QED
  BY <1>5 DEF Covers, a, z

\* What is read through an open file is the part of the body it had at open.
THEOREM OpenFilesKeepTheirBody == Spec => []OpenFileKeepsBody
<1>1. IInv => OpenFileKeepsBody
  <2> SUFFICES ASSUME IInv, handle.open, NEW off \in 0 .. handle.size, NEW len \in 0 .. handle.size
               PROVE  ReadAt(handle, off, len, disk)
                        = SubSeq(handle.body, off + 1, Min({off + len, handle.size}))
    BY Zenon DEF OpenFileKeepsBody
  <2> DEFINE size == handle.size
             S == handle.items
             want == IF off >= size THEN 0 ELSE Min({len, size - off})
             part(e) == Max({e.off, off}) .. Min({Min({e.off + e.num, size}), off + want}) - 1
             end == Min({off + len, size})
             q == Content(S, size, disk)
  <2>1. size \in Nat /\ Laid(S) /\ handle.body = q
    BY DEF IInv, Inv, HandleInv
  <2>2. off \in Nat /\ len \in Nat /\ off + len \in Nat /\ size - off \in Nat
    BY <2>1
  <2>3. end = (IF off + len <= size THEN off + len ELSE size)
    BY <2>1, <2>2, OfTwo, SMTT(30)
  <2>4. Min({len, size - off}) = (IF len <= size - off THEN len ELSE size - off)
    BY <2>1, <2>2, OfTwo, SMTT(30)
  <2>5. ReadAt(handle, off, len, disk) =
          [k \in 1 .. want |-> IF \E e \in S : off + k - 1 \in part(e)
                               THEN UnitAt(S, off + k - 1, disk) ELSE Zero]
    BY DEF ReadAt
  <2> HIDE DEF size, S, part, end
  <2>6. want \in Nat /\ end = off + want /\ off + want <= size
    BY <2>1, <2>2, <2>3, <2>4, SMTT(30)
  <2> HIDE DEF want
  <2>7. ASSUME NEW k \in 1 .. want
        PROVE  (IF \E e \in S : off + k - 1 \in part(e) THEN UnitAt(S, off + k - 1, disk) ELSE Zero)
                 = q[off + k]
    <3> DEFINE p == off + k - 1
    <3>1. p \in off .. off + want - 1 /\ p \in Nat /\ off + k \in 1 .. size /\ off + k - 1 = p
      BY <2>1, <2>2, <2>6
    <3>2. q[off + k] = UnitAt(S, p, disk)
      BY <3>1 DEF Content
    <3> HIDE DEF p, q
    <3>3. ASSUME NEW e \in S PROVE p \in part(e) <=> Covers(e, p)
      <4>1. ItemOK(e)
        BY <2>1 DEF Laid
      <4>2. size \in Nat /\ off \in Nat /\ want \in Nat /\ off + want <= size /\ p \in off .. off + want - 1
        BY <2>1, <2>2, <2>6, <3>1
      <4>3. p \in Max({e.off, off}) .. Min({Min({e.off + e.num, size}), off + want}) - 1 <=> Covers(e, p)
        BY <4>1, <4>2, WindowOfItem, Zenon
      <4> QED
        BY <4>3, Zenon DEF part
    <3>4. (\E e \in S : p \in part(e)) \/ UnitAt(S, p, disk) = Zero
      BY <3>3, UnitUncovered
    <3> QED
      BY <3>1, <3>2, <3>4
  <2>8. SubSeq(q, off + 1, end) = [k \in 1 .. want |-> q[off + k]]
    <3> DEFINE C == {UnitAt(S, k - 1, disk) : k \in 1 .. size}
    <3>1. q \in [1 .. size -> C]
      BY DEF Content
    <3> HIDE DEF q, C
    <3>2. q \in Seq(C) /\ Len(q) = size
      BY <2>1, <3>1
    <3> DEFINE r == SubSeq(q, off + 1, end)
    <3>3. r \in Seq(C) /\ Len(r) = want /\ \A k \in 1 .. want : r[k] = q[off + k]
      BY <2>1, <2>2, <2>6, <3>2
    <3> HIDE DEF r
    <3>4. r = [k \in 1 .. want |-> r[k]]
      BY <3>3
    <3> QED
      BY <3>3, <3>4, Zenon DEF r
  <2> HIDE DEF q
  <2>9. ReadAt(handle, off, len, disk) = [k \in 1 .. want |-> q[off + k]]
    BY <2>5, <2>7, SMTT(30)
  <2> QED
    BY <2>1, <2>8, <2>9, Zenon DEF end, size
<1> QED
  BY <1>1, AlwaysIInv, PTL

----------------------------------------------------------------------------
(* The space the files use. *)

\* The extents in use: those the inodes hold, and the one that was just taken.
Held == UNION {{Extent(e) : e \in HeldBy(i)} : i \in Inodes}
Live == Held \cup {Extent(e) : e \in OnDisk(op.got)}

\* What an inode holds are extents of its items.
LEMMA HeldOnDisk ==
  ASSUME IInv, NEW i \in Inodes
  PROVE  /\ HeldBy(i) \subseteq OnDisk(tree[i].items)
         /\ \A e \in OnDisk(tree[i].items) : ItemOK(e) /\ Extent(e) \in FS!Ranges
<1>1. Arranged(tree) /\ OpInv
  BY DEF IInv, Inv
<1>2. ASSUME Freeing(i) PROVE op.todo \subseteq OnDisk(tree[i].items)
  <2>1. op # Idle
    BY <1>2, IdleFacts DEF Freeing
  <2> QED
    BY <1>1, <1>2, <2>1 DEF OpInv, Freeing
<1>3. ASSUME NEW e \in OnDisk(tree[i].items) PROVE ItemOK(e) /\ Extent(e) \in FS!Ranges
  <2>1. ItemOK(e) /\ e.start # 0
    BY <1>1 DEF Arranged, Laid, OnDisk
  <2> QED
    BY <2>1, ItemFacts DEF FS!Ranges
<1> QED
  BY <1>2, <1>3 DEF HeldBy

\* An extent belongs to one item of one inode.
LEMMA OneOwner ==
  ASSUME IInv, NEW i \in Inodes, NEW j \in Inodes,
         NEW e \in OnDisk(tree[i].items), NEW f \in OnDisk(tree[j].items), Extent(e) = Extent(f)
  PROVE  i = j /\ e = f
<1>1. Extent(e) # {}
  BY HeldOnDisk DEF FS!Ranges
<1>2. Arranged(tree)
  BY Zenon DEF IInv, Inv
<1>3. (i = j /\ e = f) \/ Extent(e) \cap Extent(f) = {}
  BY <1>2, Zenon DEF Arranged
<1> QED
  BY <1>1, <1>3, SMTT(30)

\* The extents that the refinement calls live are the ones in use.
LEMMA LiveIs ==
  IInv => (Referenced(tree) \ Freed) \cup {Extent(e) : e \in OnDisk(op.got)} = Live
<1> SUFFICES ASSUME IInv
             PROVE  Referenced(tree) \ Freed = Held
  BY DEF Live
<1>1. ASSUME NEW x \in Referenced(tree) \ Freed
      PROVE  \E i \in Inodes : \E e \in HeldBy(i) : x = Extent(e)
  <2>1. PICK i \in Inodes : \E e \in OnDisk(tree[i].items) : x = Extent(e)
    BY <1>1 DEF Referenced
  <2>2. PICK e \in OnDisk(tree[i].items) : x = Extent(e)
    BY <2>1
  <2>3. Freeing(i) => e \in op.todo
    BY <1>1, <2>2 DEF Freed, Freeing
  <2> QED
    BY <2>2, <2>3 DEF HeldBy
<1>2. ASSUME NEW i \in Inodes, NEW e \in HeldBy(i)
      PROVE  Extent(e) \in Referenced(tree) \ Freed
  <2>1. e \in OnDisk(tree[i].items)
    BY HeldOnDisk
  <2>2. Extent(e) \in Referenced(tree)
    BY <2>1 DEF Referenced
  <2>3. ASSUME Extent(e) \in Freed PROVE FALSE
    <3>1. op.stage = "begin" /\ op.kind \in {"overwrite", "remove"}
      BY <2>3 DEF Freed
    <3>2. PICK f \in OnDisk(tree[op.ino].items) \ op.todo : Extent(e) = Extent(f)
      BY <2>3, <3>1 DEF Freed
    <3>3. op.ino \in Inodes
      BY <3>1, OpGoes
    <3>4. i = op.ino /\ e = f
      BY <2>1, <3>2, <3>3, OneOwner
    <3> QED
      BY <3>1, <3>2, <3>4 DEF HeldBy, Freeing
  <2> QED
    BY <2>2, <2>3
<1> QED
  BY <1>1, <1>2 DEF Held

\* What a step may do to the space: nothing, take an extent, give one back, lose one,
\* or start from what an image refers to.
SpaceMoves ==
  \/ UNCHANGED <<free, leaked>> /\ Live' = Live
  \/ \E x \in FS!Ranges :
       \/ x \subseteq free /\ free' = free \ x /\ Live' = Live \cup {x} /\ leaked' = leaked
       \/ x \in Live /\ free' = free \cup x /\ Live' = Live \ {x} /\ leaked' = leaked
       \/ x \in Live /\ free' = free /\ Live' = Live \ {x} /\ leaked' = leaked \cup {x}
  \/ /\ Live' \subseteq FS!Ranges /\ \A x, y \in Live' : x # y => x \cap y = {}
     /\ free' = Units \ UNION Live' /\ leaked' = {}

\* The same after a step.
LEMMA LiveIsNext ==
  (IInv => (Referenced(tree) \ Freed) \cup {Extent(e) : e \in OnDisk(op.got)} = Live)'
  BY LiveIs, PTL

\* Such a step is a step of FreeSpace.
LEMMA SpaceMoved ==
  ASSUME IInv, IInv', SpaceMoves
  PROVE  [FS!Next]_(FS!vars)
<1> DEFINE L == (Referenced(tree) \ Freed) \cup {Extent(e) : e \in OnDisk(op.got)}
<1>1. L = Live
  BY LiveIs
<1>2. L' = Live'
  BY LiveIsNext
<1> HIDE DEF L
<1>3. CASE UNCHANGED <<free, leaked>> /\ Live' = Live
  <2>1. UNCHANGED <<free, L, leaked>>
    BY <1>1, <1>2, <1>3, SMTT(30)
  <2> QED
    BY <2>1 DEF FS!vars, L
<1>4. ASSUME NEW x \in FS!Ranges,
             \/ x \subseteq free /\ free' = free \ x /\ Live' = Live \cup {x} /\ leaked' = leaked
             \/ x \in Live /\ free' = free \cup x /\ Live' = Live \ {x} /\ leaked' = leaked
             \/ x \in Live /\ free' = free /\ Live' = Live \ {x} /\ leaked' = leaked \cup {x}
      PROVE  [FS!Next]_(FS!vars)
  <2>1. \/ x \subseteq free /\ free' = free \ x /\ L' = L \cup {x} /\ leaked' = leaked
        \/ x \in L /\ free' = free \cup x /\ L' = L \ {x} /\ leaked' = leaked
        \/ x \in L /\ free' = free /\ L' = L \ {x} /\ leaked' = leaked \cup {x}
    BY <1>1, <1>2, <1>4
  <2>2. FS!Take(x) \/ FS!Return(x) \/ FS!Lose(x)
    <3>1. x # {}
      BY DEF FS!Ranges
    <3> QED
      BY <2>1, <3>1, Zenon DEF FS!Take, FS!Return, FS!Lose, L
  <2> QED
    BY <2>2 DEF FS!Next, FS!Ranges
<1>5. CASE /\ Live' \subseteq FS!Ranges /\ \A x, y \in Live' : x # y => x \cap y = {}
           /\ free' = Units \ UNION Live' /\ leaked' = {}
  <2>1. /\ L' \subseteq FS!Ranges /\ \A x, y \in L' : x # y => x \cap y = {}
        /\ free' = Units \ UNION L' /\ leaked' = {}
    BY <1>2, <1>5
  <2>2. FS!Recover
    BY <2>1, ZenonT(40) DEF FS!Recover, L
  <2> QED
    BY <2>2 DEF FS!Next
<1> QED
  BY <1>3, <1>4, <1>5 DEF SpaceMoves

\* A step that neither frees nor changes extents leaves the space alone.
LEMMA SameSpace ==
  ASSUME ~Freeing(op.ino), ~Freeing(op.ino)', UNCHANGED <<free, leaked>>,
         \A j \in Inodes : OnDisk(tree'[j].items) = OnDisk(tree[j].items),
         OnDisk(op'.got) = OnDisk(op.got)
  PROVE  SpaceMoves
<1>1. \A j \in Inodes : HeldBy(j)' = HeldBy(j)
  BY DEF HeldBy, Freeing
<1> QED
  BY <1>1, SMTT(30) DEF Live, Held, SpaceMoves

\* The steps with which a call ends.
LEMMA EndsMove ==
  ASSUME IInv, noSpace \/ entriesFail \/ truncateFails \/ updateFsTreeRootFails \/ updateFsTreeRoot
  PROVE  SpaceMoves
<1>1. op' = Idle /\ UNCHANGED <<tree, free, leaked>>
  BY DEF noSpace, entriesFail, truncateFails, updateFsTreeRootFails, updateFsTreeRoot, Abort
<1>2. ~Freeing(op.ino) /\ op.stage \notin {"none", "store"}
  BY DEF noSpace, entriesFail, truncateFails, updateFsTreeRootFails, updateFsTreeRoot, InLoop, Writing, At, Freeing
<1>3. op.got = {}
  BY <1>2, OpGoes, ZenonT(40) DEF IInv, Inv, OpInv
<1>4. ~Freeing(op.ino)' /\ op'.got = {}
  BY <1>1, IdleFacts, SMTT(30) DEF Freeing
<1> QED
  BY <1>1, <1>2, <1>3, <1>4, SameSpace, SMTT(30)

\* The last steps before the commit.
LEMMA LastMoves ==
  ASSUME IInv, updateInode \/ insertDirEntries \/ removeEntries \/ truncateInodeItem
  PROVE  SpaceMoves
<1>1. /\ op' = [op EXCEPT !.stage = "commit"] /\ UNCHANGED <<free, leaked>>
      /\ ~Freeing(op.ino) /\ op.stage # "none"
  BY DEF updateInode, insertDirEntries, removeEntries, truncateInodeItem, At, Freeing, Goto
<1>2. op.ino \in Inodes /\ (op.stage = "unlink" => tree[op.ino].items = {})
  BY <1>1, OpGoes DEF IInv, Inv, OpInv
<1>3. op'.stage = "commit" /\ op'.got = op.got
  BY <1>1 DEF IInv, Typed, OpTyped, OpType
<1>4. PICK N : tree \in [Inodes -> FileType(N)]
  BY DEF IInv, Typed, TreesTyped
<1>5. \A j \in Inodes : tree'[j].items = tree[j].items
  <2>1. CASE updateInode
    BY <1>2, <1>4, <2>1 DEF updateInode, FileType
  <2>2. CASE insertDirEntries
    BY <1>2, <1>4, <2>2 DEF insertDirEntries, FileType
  <2>3. CASE removeEntries
    BY <1>2, <1>4, <2>3, Zenon DEF removeEntries, FileType, Absent, At
  <2>4. CASE truncateInodeItem
    <3>1. PICK b : tree' = [tree EXCEPT ![op.ino].size = op.size, ![op.ino].nbytes = b]
      BY <2>4 DEF truncateInodeItem
    <3> QED
      BY <1>2, <1>4, <3>1, SMTT(30) DEF FileType
  <2> QED
    BY <2>1, <2>2, <2>3, <2>4
<1>6. ~Freeing(op.ino)'
  BY <1>3 DEF Freeing
<1> QED
  BY <1>1, <1>3, <1>5, <1>6, SameSpace, SMTT(30)

\* A call that begins takes nothing and gives nothing back.
LEMMA BeginMoves ==
  ASSUME IInv, NEW kind, NEW i \in Inodes, NEW data, NEW size, NEW want, NEW todo,
         Begin(kind, i, data, size, want, todo),
         \A j \in Inodes : tree'[j].items = tree[j].items,
         kind \in {"overwrite", "remove"} => todo = OnDisk(tree[i].items)
  PROVE  SpaceMoves
<1>1. /\ op = Idle /\ UNCHANGED <<free, leaked>>
      /\ op'.kind = kind /\ op'.ino = i /\ op'.stage = "begin" /\ op'.todo = todo /\ op'.got = {}
  BY Zenon DEF Begin
<1>2. \A j \in Inodes : HeldBy(j)' = HeldBy(j)
  BY <1>1, IdleFacts, SMTT(30) DEF HeldBy, Freeing
<1>3. op.got = op'.got
  BY <1>1, IdleFacts
<1>4. Live' = Live
  BY <1>2, <1>3, SMTT(30) DEF Live, Held
<1> QED
  BY <1>1, <1>4, Zenon DEF SpaceMoves

\* The number of a new inode is not in use.
LEMMA CreateMoves ==
  ASSUME IInv, NEW v, NEW n, createInodeWithDirEntry(v, n)
  PROVE  SpaceMoves
<1>0. PICK i \in nextInodeNum :
        /\ Begin("create", i, Data(i, v, n), n, {Data(i, v, n)}, {})
        /\ tree' = [tree EXCEPT ![i] = [there |-> TRUE, named |-> FALSE, size |-> n,
                                        nbytes |-> classifyExtent(Data(i, v, n)), items |-> {}]]
  BY ZenonT(40) DEF createInodeWithDirEntry
<1> DEFINE data == Data(i, v, n)
<1>1. /\ Begin("create", i, data, n, {data}, {})
      /\ tree' = [tree EXCEPT ![i] = [there |-> TRUE, named |-> FALSE, size |-> n,
                                      nbytes |-> classifyExtent(data), items |-> {}]]
  BY <1>0
<1> HIDE DEF data
<1>4. i \in Inodes /\ ~tree[i].there
  BY FileBodyAssumption DEF nextInodeNum, Inodes
<1>5. tree[i].items = {}
  BY <1>4, Zenon DEF IInv, Inv, Arranged
<1>6. \A j \in Inodes : tree'[j].items = tree[j].items
  BY <1>1, <1>4, <1>5, SMTT(30) DEF IInv, Typed, TreesTyped
<1> QED
  BY <1>1, <1>4, <1>6, BeginMoves

\* The other calls.
LEMMA CallsMove ==
  ASSUME IInv, Calls
  PROVE  SpaceMoves
<1>1. ASSUME NEW i \in Inodes, NEW v, NEW n, overwriteFile(i, v, n) PROVE SpaceMoves
  <2>1. Begin("overwrite", i, Data(i, v, n), n, {Data(i, v, n)}, OnDisk(tree[i].items)) /\ tree' = tree
    BY <1>1 DEF overwriteFile
  <2> QED
    BY <2>1, BeginMoves
<1>2. ASSUME NEW i \in Inodes, removeInode(i) PROVE SpaceMoves
  <2>1. Begin("remove", i, <<>>, 0, {}, OnDisk(tree[i].items)) /\ tree' = tree
    BY <1>2 DEF removeInode
  <2> QED
    BY <2>1, BeginMoves
<1>3. ASSUME NEW i \in Inodes, NEW n, truncateInode(i, n) PROVE SpaceMoves
  <2>1. PICK want, todo : Begin("truncate", i, <<>>, n, want, todo)
    BY <1>3 DEF truncateInode
  <2>2. tree' = tree
    BY <1>3 DEF truncateInode
  <2> QED
    BY <2>1, <2>2, BeginMoves, SMTT(30)
<1>4. ASSUME NEW i \in Inodes, openBtrfsFile(i) PROVE SpaceMoves
  BY <1>4, ZenonT(40) DEF openBtrfsFile, SpaceMoves, Live, Held, HeldBy, Freeing
<1> QED
  BY <1>1, <1>2, <1>3, <1>4, CreateMoves, SMTT(30) DEF Calls

\* One item fewer of one inode is one extent fewer.
LEMMA OneFewer ==
  ASSUME NEW k \in Inodes, NEW e \in HeldBy(k), HeldBy(k)' = HeldBy(k) \ {e},
         \A j \in Inodes \ {k} : HeldBy(j)' = HeldBy(j),
         \A j \in Inodes : \A f \in HeldBy(j) : Extent(f) = Extent(e) => j = k /\ f = e
  PROVE  Held' = Held \ {Extent(e)}
<1>1. ASSUME NEW j \in Inodes, NEW f \in HeldBy(j)' PROVE Extent(f) \in Held \ {Extent(e)}
  <2>1. f \in HeldBy(j) /\ (j = k => f # e)
    BY <1>1
  <2>2. Extent(f) \in Held
    BY <2>1 DEF Held
  <2> QED
    BY <2>1, <2>2
<1>2. ASSUME NEW j \in Inodes, NEW f \in HeldBy(j), Extent(f) # Extent(e) PROVE Extent(f) \in Held'
  <2>1. f \in HeldBy(j)'
    BY <1>2
  <2> QED
    BY <2>1 DEF Held
<1>3. Held' \subseteq Held \ {Extent(e)}
  BY <1>1 DEF Held
<1>4. Held \ {Extent(e)} \subseteq Held'
  BY <1>2 DEF Held
<1> QED
  BY <1>3, <1>4

\* The extent given back is one the call still holds.
LEMMA FreeMoves ==
  ASSUME IInv, freeInodeExtents
  PROVE  SpaceMoves
<1> DEFINE k == op.ino
<1>2. PICK e \in op.todo : free' = free \cup Extent(e) /\ op' = [op EXCEPT !.todo = @ \ {e}]
  BY Zenon DEF freeInodeExtents, Lowest
<1>1. /\ op.kind \in {"overwrite", "remove"} /\ op.stage = "begin"
      /\ free' = free \cup Extent(e) /\ op' = [op EXCEPT !.todo = @ \ {e}]
      /\ UNCHANGED <<tree, leaked>>
  BY <1>2 DEF freeInodeExtents, At
<1>3. /\ op'.stage = op.stage /\ op'.kind = op.kind /\ op'.ino = op.ino /\ op'.todo = op.todo \ {e}
      /\ op'.got = op.got
  BY <1>1, TodoReplaced DEF IInv, Typed
<1>4. k \in Inodes /\ HeldBy(k) = op.todo /\ HeldBy(k)' = op.todo \ {e}
  BY <1>1, <1>3, OpGoes DEF HeldBy, Freeing
<1>5. \A j \in Inodes \ {k} : HeldBy(j)' = HeldBy(j)
  BY <1>1, <1>3, SMTT(30) DEF HeldBy, Freeing
<1>6. op.got = {}
  BY <1>1, OpGoes, SMTT(30) DEF IInv, Inv, OpInv
<1>7. \A j \in Inodes : \A f \in HeldBy(j) : Extent(f) = Extent(e) => j = k /\ f = e
  <2>1. \A j \in Inodes : HeldBy(j) \subseteq OnDisk(tree[j].items)
    BY HeldOnDisk
  <2>2. e \in OnDisk(tree[k].items)
    BY <1>2, <1>4, <2>1
  <2> QED
    BY <1>4, <2>1, <2>2, OneOwner, SMTT(30)
<1>8. Extent(e) \in FS!Ranges
  BY <1>2, <1>4, HeldOnDisk, SMTT(30)
<1>9. Live = Held /\ Live' = Held'
  BY <1>3, <1>6 DEF Live, OnDisk, Held
<1>10. Extent(e) \in Held
  BY <1>2, <1>4 DEF Held
<1>11. Held' = Held \ {Extent(e)}
  BY <1>2, <1>4, <1>5, <1>7, OneFewer, SMTT(30)
<1> QED
  BY <1>1, <1>8, <1>9, <1>10, <1>11, SMTT(30) DEF SpaceMoves

\* The items go when their extents are given back.
LEMMA DropMoves ==
  ASSUME IInv, dropExtents
  PROVE  SpaceMoves
<1> DEFINE k == op.ino
<1>1. /\ op.kind \in {"overwrite", "remove"} /\ op.stage = "begin" /\ op.todo = {}
      /\ tree' = [tree EXCEPT ![k].items = {}] /\ UNCHANGED <<free, leaked>>
      /\ \E s \in {"unlink", "extent"} : op' = [op EXCEPT !.stage = s]
  BY DEF dropExtents, At, Goto
<1>2. k \in Inodes
  BY <1>1, OpGoes
<1>3. op'.stage # "begin" /\ op'.got = op.got
  BY <1>1 DEF IInv, Typed, OpTyped, OpType
<1>4. \A j \in Inodes : tree'[j].items = IF j = k THEN {} ELSE tree[j].items
  BY <1>1, <1>2 DEF IInv, Typed, TreesTyped, FileType
<1>5. \A j \in Inodes : HeldBy(j)' = HeldBy(j)
  BY <1>1, <1>3, <1>4, SMTT(30) DEF HeldBy, Freeing, OnDisk
<1> QED
  BY <1>1, <1>3, <1>5 DEF Live, Held, SpaceMoves

\* A round of writeExtents takes the extent of its item, or none.
LEMMA GotMoves ==
  ASSUME IInv, Writing, NEW g, Got(g), (OnDisk({g}) = {} /\ free' = free) \/ TookExtent
  PROVE  SpaceMoves
<1>1. /\ op' = [op EXCEPT !.stage = "store", !.got = {g}] /\ UNCHANGED <<tree, leaked>>
      /\ ~Freeing(op.ino) /\ op.stage \notin {"none", "store"}
  BY SMTT(30) DEF Got, Writing, At, Freeing
<1>2. op.got = {}
  BY <1>1, OpGoes, SMTT(30) DEF IInv, Inv, OpInv
<1>3. op'.stage = "store" /\ op'.got = {g}
  BY <1>1 DEF IInv, Typed, OpTyped, OpType
<1>4. \A j \in Inodes : HeldBy(j)' = HeldBy(j)
  BY <1>1, <1>3 DEF HeldBy, Freeing
<1>5. CASE OnDisk({g}) = {} /\ free' = free
  <2>1. OnDisk(op'.got) = OnDisk(op.got)
    BY <1>2, <1>3, <1>5 DEF OnDisk
  <2> QED
    BY <1>1, <1>4, <1>5, <2>1, SMTT(30) DEF Live, Held, SpaceMoves
<1>6. CASE TookExtent
  <2>1. PICK h : /\ Got(h) /\ ItemOK(h) /\ h.start # 0
                 /\ Extent(h) \subseteq free /\ free' = free \ Extent(h)
    BY <1>6 DEF TookExtent
  <2>2. op'.got = {h}
    BY <2>1, Zenon DEF Got, IInv, Typed, OpTyped, OpType
  <2>3. Extent(h) \in FS!Ranges
    BY <2>1, ItemFacts DEF FS!Ranges
  <2>4. OnDisk(op'.got) = {h} /\ OnDisk(op.got) = {}
    BY <1>2, <2>1, <2>2 DEF OnDisk
  <2>5. Live' = Live \cup {Extent(h)}
    BY <1>4, <2>4 DEF Live, Held
  <2> QED
    BY <1>1, <2>1, <2>3, <2>5, SMTT(30) DEF SpaceMoves
<1> QED
  BY <1>5, <1>6

\* Storing the item hands its extent to the inode.
LEMMA StoreMoves ==
  ASSUME IInv, storeExtent
  PROVE  SpaceMoves
<1> DEFINE k == op.ino
<1>1. op.stage = "store" /\ UNCHANGED <<free, leaked>>
  BY DEF storeExtent
<1>2. PICK g : op.got = {g} /\ NextItem(g)
  BY <1>1, StoreFacts
<1>3. /\ tree' = [tree EXCEPT ![k].items = @ \cup {g}]
      /\ \E a, s : op' = [op EXCEPT !.got = {}, !.at = a, !.stage = s]
  BY <1>2, Zenon DEF storeExtent
<1>4. k \in Inodes /\ op.kind \in {"create", "overwrite"} /\ ~Freeing(k)
  BY <1>1, StoreFacts
<1>5. op'.got = {}
  BY <1>3 DEF IInv, Typed, OpTyped, OpType
<1>6. ~Freeing(op.ino)'
  BY <1>1, <1>2, <1>4, SMTT(30) DEF storeExtent, Freeing, IInv, Typed, OpTyped, OpType
<1>7. \A j \in Inodes : tree'[j].items = IF j = k THEN tree[j].items \cup {g} ELSE tree[j].items
  <2> DEFINE T == tree[k].items \cup {g}
  <2>1. tree[k].items \in SUBSET Items /\ TreesTyped
    BY <1>4, TreeFields, SMTT(30) DEF IInv, Typed
  <2>2. g \in Items
    BY <1>2 DEF NextItem, ItemOK
  <2>3. T \in SUBSET Items /\ image' = image /\ tree' = [tree EXCEPT ![k].items = T]
    BY <1>3, <2>1, <2>2, Zenon DEF storeExtent
  <2> HIDE DEF T
  <2>4. \A j \in Inodes : tree'[j].items = IF j = k THEN T ELSE tree[j].items
    BY <1>4, <2>1, <2>3, ItemsReplaced, ZenonT(40)
  <2> QED
    BY <2>4 DEF T
<1>8. \A j \in Inodes : HeldBy(j) = OnDisk(tree[j].items) /\ HeldBy(j)' = OnDisk(tree'[j].items)
  BY <1>4, <1>6 DEF HeldBy, Freeing
<1>9. \A j \in Inodes : HeldBy(j)' = IF j = k THEN HeldBy(j) \cup OnDisk({g}) ELSE HeldBy(j)
  <2>1. \A j \in Inodes : OnDisk(tree'[j].items) =
                IF j = k THEN OnDisk(tree[j].items) \cup OnDisk({g}) ELSE OnDisk(tree[j].items)
    <3> SUFFICES ASSUME NEW j \in Inodes
                 PROVE  OnDisk(tree'[j].items) =
                          IF j = k THEN OnDisk(tree[j].items) \cup OnDisk({g}) ELSE OnDisk(tree[j].items)
      OBVIOUS
    <3>1. tree'[j].items = IF j = k THEN tree[j].items \cup {g} ELSE tree[j].items
      BY <1>7
    <3> QED
      BY <3>1 DEF OnDisk
  <2> QED
    BY <1>8, <2>1, Zenon
<1>10. OnDisk(op.got) = OnDisk({g}) /\ OnDisk(op'.got) = {}
  BY <1>2, <1>5 DEF OnDisk
<1>11. Live' = Live
  BY <1>4, <1>9, <1>10 DEF Live, Held
<1> QED
  BY <1>1, <1>11 DEF SpaceMoves

\* When storing fails the extent is lost.
LEMMA StoreFailsMoves ==
  ASSUME IInv, storeExtentFails
  PROVE  SpaceMoves
<1>1. op.stage = "store" /\ op' = Idle /\ UNCHANGED <<tree, free>>
  BY DEF storeExtentFails, Abort
<1>2. PICK g : op.got = {g} /\ NextItem(g)
  BY <1>1, StoreFacts, SMTT(30)
<1>3. leaked' = leaked \cup {Extent(x) : x \in OnDisk({g})}
  BY <1>2, SMTT(30) DEF storeExtentFails
<1>4. ~Freeing(op.ino) /\ ~Freeing(op.ino)' /\ op'.got = {}
  BY <1>1, StoreFacts, IdleFacts, SMTT(30) DEF Freeing
<1>5. \A j \in Inodes : HeldBy(j) = OnDisk(tree[j].items) /\ HeldBy(j)' = HeldBy(j)
  BY <1>1, <1>4, SMTT(30) DEF HeldBy, Freeing
<1>6. OnDisk(op'.got) = {}
  BY <1>4, SMTT(30) DEF OnDisk
<1>7. CASE g.start = 0
  <2>1. OnDisk(op.got) = {} /\ leaked' = leaked
    BY <1>2, <1>3, <1>7 DEF OnDisk
  <2> QED
    BY <1>1, <1>5, <1>6, <2>1, SMTT(30) DEF Live, Held, SpaceMoves
<1>8. CASE g.start # 0
  <2>1. OnDisk(op.got) = {g} /\ leaked' = leaked \cup {Extent(g)}
    BY <1>2, <1>3, <1>8 DEF OnDisk
  <2>2. Extent(g) \in FS!Ranges /\ Extent(g) # {}
    <3>1. /\ Extent(g) # {} /\ Extent(g) \subseteq Units
          /\ \E s, t \in {SectorSize * k : k \in 1 .. Sectors + 1} : Extent(g) = s .. t - 1
      BY <1>2, <1>8, ItemFacts DEF NextItem
    <3> QED
      BY <3>1 DEF FS!Ranges
  <2>3. ASSUME NEW j \in Inodes, NEW e \in HeldBy(j) PROVE Extent(e) \cap Extent(g) = {}
    <3>1. e \in OnDisk(tree[j].items) /\ g \in OnDisk(op.got)
      BY <1>5, <2>1, <2>3
    <3>2. Spaced
      BY DEF IInv, Inv
    <3> QED
      BY <3>1, <3>2, Zenon DEF Spaced
  <2>4. \A j \in Inodes : \A e \in HeldBy(j) : Extent(e) # Extent(g)
    BY <2>2, <2>3, SMTT(30)
  <2>5. Live = Held \cup {Extent(g)} /\ Live' = Held /\ Extent(g) \notin Held
    BY <1>5, <1>6, <2>1, <2>4, SMTT(30) DEF Live, Held
  <2> QED
    BY <1>1, <2>1, <2>2, <2>5, ZenonT(40) DEF SpaceMoves
<1> QED
  BY <1>7, <1>8

\* A truncation loses the extent of an item that it drops.
LEMMA TrimMoves ==
  ASSUME IInv, truncateItem
  PROVE  SpaceMoves
<1>0. PICK k \in Inodes : k = op.ino
  BY OpGoes, Zenon DEF truncateItem, At
<1>1. /\ op.kind = "truncate" /\ op.stage = "begin" /\ free' = free
      /\ \E X : tree' = [tree EXCEPT ![k].items = X]
      /\ \E e : op' = [op EXCEPT !.todo = @ \ {e}]
  BY <1>0, Zenon DEF truncateItem, At
<1>2. op.got = {}
  BY <1>1, OpGoes DEF IInv, Inv, OpInv
<1>3. op'.got = op.got /\ op'.kind = op.kind
  BY <1>1 DEF IInv, Typed, OpTyped, OpType
<1>4. \A j \in Inodes \ {k} : tree'[j] = tree[j]
  BY <1>1, <1>2 DEF IInv, Typed, TreesTyped
<1>5. \A j \in Inodes : HeldBy(j) = OnDisk(tree[j].items) /\ HeldBy(j)' = OnDisk(tree'[j].items)
  BY <1>1, <1>3 DEF HeldBy, Freeing
<1>6. Live = Held /\ Live' = Held'
  BY <1>2, <1>3, SMTT(30) DEF Live, Held, OnDisk
<1>7. \A j \in Inodes \ {k} : HeldBy(j)' = HeldBy(j)
  BY <1>4, <1>5, SMTT(30)
<1>8. Trims(k)
  BY <1>0, CutStep DEF Trims
<1>9. CASE /\ leaked' = leaked
           /\ {Extent(f) : f \in OnDisk(tree'[k].items)} = {Extent(f) : f \in OnDisk(tree[k].items)}
  <2>1. \A j \in Inodes : {Extent(f) : f \in HeldBy(j)'} = {Extent(f) : f \in HeldBy(j)}
    BY <1>5, <1>7, <1>9
  <2>2. Held' = Held
    BY <2>1, SMTT(30) DEF Held
  <2> QED
    BY <1>1, <1>6, <1>9, <2>2, SMTT(30) DEF SpaceMoves
<1>10. ASSUME NEW e \in OnDisk(tree[k].items), leaked' = leaked \cup {Extent(e)},
              OnDisk(tree'[k].items) = OnDisk(tree[k].items) \ {e}
       PROVE  SpaceMoves
  <2>1. Extent(e) \in FS!Ranges
    BY <1>2, HeldOnDisk
  <2>2. Extent(e) \in Held
    BY <1>2, <1>5, SMTT(30) DEF Held
  <2>3. \A j \in Inodes : \A f \in HeldBy(j) : Extent(f) = Extent(e) => j = k /\ f = e
    BY <1>2, <1>5, OneOwner, SMTT(30)
  <2>4. HeldBy(k)' = HeldBy(k) \ {e}
    <3>1. HeldBy(k) = OnDisk(tree[k].items) /\ HeldBy(k)' = OnDisk(tree'[k].items)
      BY <1>2, <1>5, Zenon
    <3> QED
      BY <1>10, <3>1
  <2>5. Held' = Held \ {Extent(e)}
    <3>1. k \in Inodes /\ e \in HeldBy(k)
      BY <1>1, <1>2, <1>5, Zenon
    <3> QED
      BY <1>7, <2>3, <2>4, <3>1, OneFewer, Zenon
  <2> QED
    BY <1>1, <1>6, <1>10, <2>1, <2>2, <2>5 DEF SpaceMoves
<1> QED
  BY <1>8, <1>9, <1>10 DEF Trims

\* A mount starts from the extents of the image.
LEMMA RemountMoves ==
  ASSUME IInv, Remount
  PROVE  SpaceMoves
<1>1. /\ tree' = image /\ free' = Units \ UNION Referenced(image) /\ leaked' = {} /\ op' = Idle
  BY DEF Remount
<1>2. ~Freeing(op.ino)' /\ OnDisk(op'.got) = {}
  BY <1>1, IdleFacts, SMTT(30) DEF Freeing, OnDisk
<1>3. \A j \in Inodes : HeldBy(j)' = OnDisk(image[j].items)
  BY <1>1, <1>2 DEF HeldBy, Freeing
<1>4. Live' = Referenced(image)
  BY <1>2, <1>3 DEF Live, Held, Referenced
<1>5. Arranged(image)
  BY DEF IInv, Inv
<1>6. \A i \in Inodes : \A e \in OnDisk(image[i].items) : Extent(e) \in FS!Ranges
  <2> SUFFICES ASSUME NEW i \in Inodes, NEW e \in OnDisk(image[i].items)
               PROVE  Extent(e) \in FS!Ranges
    BY SMTT(30)
  <2>1. ItemOK(e) /\ e.start # 0
    BY <1>5 DEF Arranged, Laid, OnDisk
  <2> QED
    BY <2>1, ItemFacts DEF FS!Ranges
<1>7. Referenced(image) \subseteq FS!Ranges
  BY <1>6, SMTT(30) DEF Referenced
<1>8. ASSUME NEW x \in Referenced(image), NEW y \in Referenced(image), x # y
      PROVE  x \cap y = {}
  <2>1. PICK i \in Inodes : \E e \in OnDisk(image[i].items) : x = Extent(e)
    BY <1>8 DEF Referenced
  <2>2. PICK j \in Inodes : \E e \in OnDisk(image[j].items) : y = Extent(e)
    BY <1>8 DEF Referenced
  <2> QED
    BY <1>5, <1>8, <2>1, <2>2, SMTT(30) DEF Arranged
<1> QED
  BY <1>1, <1>4, <1>7, <1>8, SMTT(30) DEF SpaceMoves

\* Every step does to the space what FreeSpace allows.
LEMMA StepSpace ==
  ASSUME IInv, IInv', [Next]_vars
  PROVE  [FS!Next]_(FS!vars)
<1>1. CASE UNCHANGED vars
  <2>1. SpaceMoves
    BY <1>1, ZenonT(40) DEF vars, SpaceMoves, Live, Held, HeldBy, Freeing
  <2> QED
    BY <2>1, SpaceMoved
<1>2. CASE Remount \/ Calls
  BY <1>2, RemountMoves, CallsMove, SpaceMoved
<1>3. CASE Steps
  <2>1. writeWithoutExtent => SpaceMoves
    <3> SUFFICES ASSUME writeWithoutExtent PROVE SpaceMoves
      OBVIOUS
    <3> DEFINE h == IF Len(op.data) <= MaxInline THEN encodeExtentDataInline(op.data)
                    ELSE encodeExtentData(0, 0, 0, Len(op.data))
    <3>0. h.start = 0
      BY DEF encodeExtentDataInline, encodeExtentData
    <3>1. PICK g : Writing /\ Got(g) /\ free' = free /\ g.start = 0
      <4>1. Writing /\ Got(h) /\ free' = free
        BY DEF writeWithoutExtent
      <4> HIDE DEF h
      <4> QED
        BY <3>0, <4>1, Zenon
    <3>2. OnDisk({g}) = {}
      BY <3>1 DEF OnDisk
    <3> QED
      BY <3>1, <3>2, GotMoves
  <2>2. allocDataBytes \/ allocDataBytesUpTo => SpaceMoves
    <3> SUFFICES ASSUME allocDataBytes \/ allocDataBytesUpTo PROVE SpaceMoves
      BY SMTT(30)
    <3>1. Writing /\ TookExtent
      BY AllocStep, AllocUpToStep, SMTT(30) DEF allocDataBytes, allocDataBytesUpTo, InLoop
    <3>2. PICK g : Got(g)
      BY <3>1 DEF TookExtent
    <3> QED
      BY <3>1, <3>2, GotMoves, SMTT(30)
  <2>3. freeInodeExtents \/ dropExtents \/ storeExtent \/ storeExtentFails \/ truncateItem => SpaceMoves
    BY FreeMoves, DropMoves, StoreMoves, StoreFailsMoves, TrimMoves, SMTT(30)
  <2> QED
    BY <1>3, <2>1, <2>2, <2>3, EndsMove, LastMoves, SpaceMoved, SMTT(30) DEF Steps
<1> QED
  BY <1>1, <1>2, <1>3, SMTT(30) DEF Next

\* Before the first call no space is in use.
LEMMA InitSpace == Init => FS!Init
<1> SUFFICES ASSUME Init PROVE FS!Init
  BY SMTT(30)
<1>1. Referenced(tree) = {}
  BY SMTT(30) DEF Init, Referenced, OnDisk, Absent
<1>2. OnDisk(op.got) = {} /\ free = Units /\ leaked = {}
  BY IdleFacts DEF Init, OnDisk
<1> QED
  BY <1>1, <1>2 DEF FS!Init

\* The file code keeps to what FreeSpace allows: it takes what is free, gives back once
\* what it holds, and a mount frees what no item refers to.
THEOREM FilesImplementFreeSpace == Spec => ImplementsFreeSpace
<1>1. IInv /\ IInv' /\ [Next]_vars => [FS!Next]_(FS!vars)
  BY StepSpace
<1> QED
  BY <1>1, InitSpace, AlwaysIInv, PTL DEF Spec, ImplementsFreeSpace
=============================================================================
