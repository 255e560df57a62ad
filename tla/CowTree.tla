------------------------------ MODULE CowTree ------------------------------
(***************************************************************************)
(* The copy-on-write B-tree of btree.go, cow.go and btree_write.go: path   *)
(* copies, leaf and internal splits, dropped leaves, root collapse, and    *)
(* what an operation leaves behind when a block cannot be had.             *)
(*                                                                         *)
(* A key is a number: its (objectid, type) part is the quotient by Width,  *)
(* its offset the remainder.  Item data is its length.  Blocks are node    *)
(* sized and the free list is coalesced, so first fit takes the lowest     *)
(* free block.  A block that is given back loses its contents here, so     *)
(* that a read of it would show up as a node without items.                *)
(*                                                                         *)
(* MinKey stands for the INODE_ITEM of the root directory, the smallest    *)
(* key of the tree, which is written by Format and never deleted.          *)
(***************************************************************************)
EXTENDS Naturals, Sequences, SequencesExt, FiniteSets, FiniteSetsExt

CONSTANTS
  Keys,         \* the keys that are inserted and deleted
  MinKey,       \* smaller than all of Keys, in its (objectid, type) too
  Width,        \* the number of offsets per (objectid, type)
  Data,         \* the lengths of item data
  ItemSize,     \* the length of an item descriptor
  LeafSpace,    \* nodeSize - nodeHdrSize
  PtrSpace,     \* the key pointers that fit in an internal node
  Blocks,       \* the node blocks of the image
  MaxFaults,    \* bound: how many writes may fail
  MaxFuse       \* bound: the last write of an operation that may fail

ASSUME ShapeAssumption ==
  /\ Blocks \subseteq Nat \ {0} /\ Keys \subseteq Nat /\ Data \subseteq Nat
  /\ \A k \in Keys : MinKey \div Width < k \div Width
  /\ \A d \in Data : ItemSize + d <= LeafSpace
  /\ PtrSpace >= 2

VARIABLES
  nodes,        \* the contents of every block
  free,         \* the blocks on the free list
  root,         \* *fsTreeRoot
  result,       \* what the last operation returned
  faults,       \* how many writes have failed
  contents      \* observation: the items of the tree from left to right

vars == <<nodes, free, root, result, faults, contents>>

PrefixOf(k) == k \div Width
KeyPrefixes == {PrefixOf(k) : k \in Keys}
Leaf(items) == [level |-> 0, items |-> items]
Blank == Leaf(<<>>)
Item(k, d) == [k |-> k, data |-> d]
Ptr(k, b) == [k |-> k, child |-> b]
IsLeaf(n) == n.level = 0

Size(items) == FoldLeft(LAMBDA s, it : s + ItemSize + it.data, 0, items)
Bytes(items) == FoldLeft(LAMBDA s, it : s + it.data, 0, items)

----------------------------------------------------------------------------
(* Searching. *)

\* A slip in the descent: a key equal to a pointer's goes to its left.
RightmostBelow(ptrs, k) == Max({0} \cup {i \in DOMAIN ptrs : ptrs[i].k < k})

\* The rightmost entry whose key is at most k, 0 when there is none.
Rightmost(ptrs, k) == Max({0} \cup {i \in DOMAIN ptrs : ptrs[i].k <= k})

\* searchTree: the items with key k in the leaf that k is routed to.
RECURSIVE searchTree(_, _, _)
searchTree(ns, b, k) ==
  LET n == ns[b]
      i == Rightmost(n.items, k)
  IN  CASE IsLeaf(n) -> {n.items[j] : j \in {x \in DOMAIN n.items : n.items[x].k = k}}
        [] ~IsLeaf(n) /\ i = 0 -> {}
        [] OTHER -> searchTree(ns, n.items[i].child, k)

\* A slip in the walk: a subtree that starts at the prefix is skipped.
RECURSIVE walkPrefixBelow(_, _, _)
walkPrefixBelow(ns, b, p) ==
  LET n == ns[b]
      below == SelectSeq(n.items, LAMBDA e : PrefixOf(e.k) < p)
  IN  IF IsLeaf(n) THEN SelectSeq(n.items, LAMBDA it : PrefixOf(it.k) = p)
      ELSE FlattenSeq([i \in DOMAIN below |-> walkPrefixBelow(ns, below[i].child, p)])

\* walkPrefixLeaves and findLeafContainingPrefix: the items of prefix p in the
\* leaves of the subtrees that are not entirely past p, left to right.
RECURSIVE walkPrefix(_, _, _)
walkPrefix(ns, b, p) ==
  LET n == ns[b]
      below == SelectSeq(n.items, LAMBDA e : PrefixOf(e.k) <= p)
  IN  IF IsLeaf(n) THEN SelectSeq(n.items, LAMBDA it : PrefixOf(it.k) = p)
      ELSE FlattenSeq([i \in DOMAIN below |-> walkPrefix(ns, below[i].child, p)])

\* tracePath: the blocks from the root to the leaf k is routed to, each with the
\* index followed; a key smaller than every pointer goes to the first child.
RECURSIVE tracePath(_, _, _)
tracePath(ns, b, k) ==
  LET n == ns[b]
      i == Max({1, Rightmost(n.items, k)})
  IN  IF IsLeaf(n) THEN <<[block |-> b, childIdx |-> 0]>>
      ELSE <<[block |-> b, childIdx |-> i]>> \o tracePath(ns, n.items[i].child, k)

----------------------------------------------------------------------------
(* Items of one leaf. *)

\* The position before the first greater key.
InsertIdx(items, k) ==
  Min({Len(items) + 1} \cup {i \in DOMAIN items : items[i].k > k})

\* A slip in leafInsertItem: the greater items are not moved up.
leafInsertItemOver(items, k, d) ==
  LET i == InsertIdx(items, k)
  IN  IF i > Len(items) THEN Append(items, Item(k, d)) ELSE ReplaceAt(items, i, Item(k, d))

leafInsertItem(items, k, d) == InsertAt(items, InsertIdx(items, k), Item(k, d))

findItemIdx(items, k) == Min({i \in DOMAIN items : items[i].k = k})

HasKey(items, k) == \E i \in DOMAIN items : items[i].k = k

leafReplaceItemData(items, k, d) ==
  [items EXCEPT ![findItemIdx(items, k)].data = d]

leafDeleteItem(items, k) == RemoveAt(items, findItemIdx(items, k))

\* The split point: the first item at which half of the data bytes is reached,
\* the first item when it is not reached before the last one.
SplitPoint(all) ==
  LET reached == {i \in 1 .. Len(all) - 1 :
                    Bytes(SubSeq(all, 1, i)) >= Bytes(all) \div 2}
  IN  IF reached = {} THEN 1 ELSE Min(reached)

SplitLeft(all) == SubSeq(all, 1, SplitPoint(all))
SplitRight(all) == SubSeq(all, SplitPoint(all) + 1, Len(all))

----------------------------------------------------------------------------
(* Writing.  An operation works on a record t: the blocks, the free list,   *)
(* the block last written, whether a write has failed, and the number of   *)
(* the write that will fail (0: none will).                                *)

Begin(fuse) == [nodes |-> nodes, free |-> free, last |-> 0, ok |-> TRUE, fuse |-> fuse]

\* A slip in writeCowNode: the block stays on the free list.
writeCowNodeKeepsFree(t, n) ==
  IF ~t.ok \/ t.free = {} THEN [t EXCEPT !.ok = FALSE]
  ELSE [t EXCEPT !.nodes[Min(t.free)] = n, !.last = Min(t.free)]

\* A block is taken and written.  A block whose write fails stays taken.
writeCowNode(t, n) ==
  LET b == Min(t.free)
  IN  CASE ~t.ok -> t
        [] t.ok /\ t.free = {} -> [t EXCEPT !.ok = FALSE]
        [] t.ok /\ t.free # {} /\ t.fuse = 1 ->
             [t EXCEPT !.ok = FALSE, !.fuse = 0, !.free = @ \ {b}]
        [] OTHER -> [t EXCEPT !.nodes[b] = n, !.free = @ \ {b}, !.last = b,
                              !.fuse = IF @ = 0 THEN 0 ELSE @ - 1]

\* A slip in giveBack: the blocks do not go back on the list.
giveBackForgets(t, B) == [t EXCEPT !.nodes = [b \in Blocks |-> IF b \in B THEN Blank ELSE @[b]]]

\* freeRange of each block of B.
giveBack(t, B) ==
  [t EXCEPT !.nodes = [b \in Blocks |-> IF b \in B THEN Blank ELSE @[b]],
            !.free = @ \cup B]

Outcome(t, r, status) == [t |-> t, root |-> r, status |-> status]

\* A root over two leaves that fit into one is replaced by that leaf; when the
\* leaf cannot be written the root stays.
tryCollapseTwoLeafRoot(t, r) ==
  LET ptrs == t.nodes[r].items
      both == t.nodes[ptrs[1].child].items \o t.nodes[ptrs[2].child].items
      w    == writeCowNode(t, Leaf(both))
  IN  IF t.nodes[r].level # 1 \/ Len(ptrs) # 2 \/ Size(both) > LeafSpace
      THEN Outcome(t, r, "ok")
      ELSE IF ~w.ok THEN Outcome([w EXCEPT !.ok = TRUE], r, "ok")
      ELSE Outcome(giveBack(w, {r, ptrs[1].child, ptrs[2].child}), w.last, "ok")

\* One level of cowMutate on the way up: repoint the followed pointer, or remove
\* it when the child was dropped.  An internal node left empty is dropped too,
\* and a root left with one child gives way to that child.
MutateParent(acc, pe, isRoot) ==
  LET n    == acc.t.nodes[pe.block]
      rest == RemoveAt(n.items, pe.childIdx)
      copy(items) == LET w == writeCowNode(acc.t, [n EXCEPT !.items = items])
                     IN  [t |-> w, child |-> w.last, dropped |-> FALSE, collapsed |-> FALSE]
  IN  CASE ~acc.dropped -> copy([n.items EXCEPT ![pe.childIdx].child = acc.child])
        [] acc.dropped /\ rest = <<>> /\ ~isRoot -> acc
        [] acc.dropped /\ Len(rest) = 1 /\ isRoot ->
             [acc EXCEPT !.child = rest[1].child, !.dropped = FALSE, !.collapsed = TRUE]
        [] OTHER -> copy(rest)

\* The leaf k is routed to gets the given items, and every node on the path is
\* copied.
MutatePath(t, r, k, items) ==
  LET path    == tracePath(t.nodes, r, k)
      dropped == items = <<>> /\ Len(path) > 1
      w       == IF dropped THEN t ELSE writeCowNode(t, Leaf(items))
  IN  FoldLeft(LAMBDA acc, pe : MutateParent(acc, pe, pe.block = r),
               [t |-> w, child |-> w.last, dropped |-> dropped, collapsed |-> FALSE],
               Reverse(Front(path)))

PathBlocks(t, r, k) == {pe.block : pe \in ToSet(tracePath(t.nodes, r, k))}

\* A slip in cowMutate: the old path is given back before an error is returned.
cowMutateFreesFirst(t, r, k, items) ==
  LET end   == MutatePath(t, r, k, items)
      freed == giveBack(end.t, PathBlocks(t, r, k))
  IN  IF ~end.t.ok THEN Outcome(freed, r, "nospace")
      ELSE tryCollapseTwoLeafRoot(freed, end.child)

\* Once the new path is written the old one is given back.
cowMutate(t, r, k, items) ==
  LET end   == MutatePath(t, r, k, items)
      freed == giveBack(end.t, PathBlocks(t, r, k))
  IN  IF ~end.t.ok THEN Outcome(end.t, r, "nospace")
      ELSE IF end.collapsed THEN Outcome(freed, end.child, "ok")
      ELSE tryCollapseTwoLeafRoot(freed, end.child)

RoutedLeaf(t, r, k) == t.nodes[Last(tracePath(t.nodes, r, k)).block].items

\* One level of cowInsertSplit on the way up: repoint the followed pointer and
\* insert the pending one after it, splitting the node when it is full.
SplitParent(acc, pe) ==
  LET n    == acc.t.nodes[pe.block]
      ptrs == [n.items EXCEPT ![pe.childIdx].child = acc.child]
      all  == IF acc.pending THEN InsertAt(ptrs, pe.childIdx + 1, Ptr(acc.key, acc.right))
              ELSE ptrs
      half == Len(all) \div 2
      lw   == writeCowNode(acc.t, [n EXCEPT !.items = SubSeq(all, 1, half)])
      rw   == writeCowNode(lw, [n EXCEPT !.items = SubSeq(all, half + 1, Len(all))])
      w    == writeCowNode(acc.t, [n EXCEPT !.items = all])
  IN  IF Len(all) > PtrSpace
      THEN [t |-> rw, child |-> lw.last, right |-> rw.last, key |-> all[half + 1].k, pending |-> TRUE]
      ELSE [acc EXCEPT !.t = w, !.child = w.last, !.pending = FALSE]

\* A root over the two halves of the old one.
buildNewRoot(acc, level) ==
  [level |-> level,
   items |-> <<Ptr(acc.t.nodes[acc.child].items[1].k, acc.child), Ptr(acc.key, acc.right)>>]

cowInsertSplit(t, r, k, d) ==
  LET path  == tracePath(t.nodes, r, k)
      all   == leafInsertItem(RoutedLeaf(t, r, k), k, d)
      lw    == writeCowNode(t, Leaf(SplitLeft(all)))
      rw    == writeCowNode(lw, Leaf(SplitRight(all)))
      end   == FoldLeft(SplitParent,
                        [t |-> rw, child |-> lw.last, right |-> rw.last,
                         key |-> SplitRight(all)[1].k, pending |-> TRUE],
                        Reverse(Front(path)))
      top   == IF ~end.pending \/ ~end.t.ok THEN end.t
               ELSE writeCowNode(end.t, buildNewRoot(end, Len(path)))
  IN  IF Size(SplitLeft(all)) > LeafSpace \/ Size(SplitRight(all)) > LeafSpace
      THEN Outcome(t, r, "nosplit")
      ELSE IF ~top.ok THEN Outcome(top, r, "nospace")
      ELSE Outcome(giveBack(top, PathBlocks(t, r, k)),
                   IF end.pending THEN top.last ELSE end.child, "ok")

\* A slip in cowInsert: the item descriptors are not counted.
cowInsertBytesOnly(t, r, k, d) ==
  LET items == leafInsertItem(RoutedLeaf(t, r, k), k, d)
  IN  IF Bytes(items) <= LeafSpace THEN cowMutate(t, r, k, items)
      ELSE cowInsertSplit(t, r, k, d)

cowInsert(t, r, k, d) ==
  LET items == leafInsertItem(RoutedLeaf(t, r, k), k, d)
  IN  IF Size(items) <= LeafSpace THEN cowMutate(t, r, k, items)
      ELSE cowInsertSplit(t, r, k, d)

cowUpdate(t, r, k, d) ==
  LET old == RoutedLeaf(t, r, k)
      new == leafReplaceItemData(old, k, d)
  IN  IF ~HasKey(old, k) THEN Outcome(t, r, "notfound")
      ELSE IF Size(new) > LeafSpace THEN Outcome(t, r, "nofit")
      ELSE cowMutate(t, r, k, new)

cowDelete(t, r, k) ==
  LET old == RoutedLeaf(t, r, k)
  IN  IF ~HasKey(old, k) THEN Outcome(t, r, "notfound")
      ELSE cowMutate(t, r, k, leafDeleteItem(old, k))

\* Pass after pass, the matches of the leaf that the smallest key of the prefix
\* is routed to are deleted, until a walk finds none.  An error returns the
\* root the caller came with, whatever earlier passes did.
RECURSIVE deletePasses(_, _, _, _)
deletePasses(t, r, cur, p) ==
  LET old  == RoutedLeaf(t, cur, p * Width)
      rest == SelectSeq(old, LAMBDA it : PrefixOf(it.k) # p)
      m    == cowMutate(t, cur, p * Width, rest)
  IN  IF walkPrefix(t.nodes, cur, p) = <<>> THEN Outcome(t, cur, "ok")
      ELSE IF rest = old THEN Outcome(t, r, "misrouted")
      ELSE IF m.status # "ok" THEN Outcome(m.t, r, m.status)
      ELSE deletePasses(m.t, r, m.root, p)

cowDeletePrefix(t, r, p) == deletePasses(t, r, r, p)

----------------------------------------------------------------------------
\* The blocks of the subtree at b, one entry per path that leads to a block.
RECURSIVE BlocksBelow(_, _)
BlocksBelow(ns, b) ==
  LET n == ns[b]
  IN  IF IsLeaf(n) THEN <<b>>
      ELSE <<b>> \o FlattenSeq([i \in DOMAIN n.items |-> BlocksBelow(ns, n.items[i].child)])

\* The items of the tree at r from left to right.
ItemsOf(ns, r) ==
  LET bs == SelectSeq(BlocksBelow(ns, r), LAMBDA b : IsLeaf(ns[b]))
  IN  FlattenSeq([i \in DOMAIN bs |-> ns[bs[i]].items])

\* Nodes, root and free blocks have their types.
TypeOK ==
  /\ nodes \in [Blocks -> [level : Nat, items : Seq([k : Nat, data : Data] \cup [k : Nat, child : Blocks])]]
  /\ free \subseteq Blocks
  /\ root \in Blocks
  /\ result \in {"ok", "nospace", "nosplit", "notfound", "nofit", "misrouted"}
  /\ faults \in 0 .. MaxFaults

\* The empty tree of a fresh image: one leaf with the root directory.
Init ==
  /\ root = Min(Blocks)
  /\ nodes = [b \in Blocks |-> IF b = root THEN Leaf(<<Item(MinKey, Min(Data))>>) ELSE Blank]
  /\ free = Blocks \ {root}
  /\ result = "ok"
  /\ faults = 0
  /\ contents = ItemsOf(nodes, root)

\* The caller stores the root an operation returns.
Finish(o, fuse) ==
  /\ nodes' = o.t.nodes
  /\ free' = o.t.free
  /\ root' = o.root
  /\ result' = o.status
  /\ contents' = ItemsOf(o.t.nodes, o.root)
  /\ faults' = IF fuse > 0 /\ o.t.fuse = 0 THEN faults + 1 ELSE faults

Found(k) == searchTree(nodes, root, k)

\* The callers insert keys they have not found and change keys they have.
Insert(k, d, fuse) == Found(k) = {} /\ Finish(cowInsert(Begin(fuse), root, k, d), fuse)
Update(k, d, fuse) == Found(k) # {} /\ Finish(cowUpdate(Begin(fuse), root, k, d), fuse)
Delete(k, fuse) == Finish(cowDelete(Begin(fuse), root, k), fuse)
DeletePrefix(p, fuse) == Finish(cowDeletePrefix(Begin(fuse), root, p), fuse)

Fuses == IF faults < MaxFaults THEN 0 .. MaxFuse ELSE {0}

Next ==
  \E fuse \in Fuses :
    \/ \E k \in Keys, d \in Data : Insert(k, d, fuse) \/ Update(k, d, fuse)
    \/ \E k \in Keys : Delete(k, fuse)
    \/ \E p \in KeyPrefixes : DeletePrefix(p, fuse)

Spec == Init /\ [][Next]_vars

----------------------------------------------------------------------------
(* Properties. *)

AllKeys == Keys \cup {MinKey}

\* No block of the tree is on the free list and none is reached twice: the
\* frees of cowMutate, cowInsertSplit and tryCollapseTwoLeafRoot never hit a
\* block the new tree still uses, and no write lands on a live block.
TreeOwnsItsBlocks ==
  LET bs == BlocksBelow(nodes, root)
  IN  /\ \A i \in DOMAIN bs : bs[i] \notin free
      /\ Cardinality(ToSet(bs)) = Len(bs)

\* Searches can rely on the shape: levels fall by one, no node is overfull, and
\* no leaf or internal node is empty.
WellShaped ==
  \A b \in ToSet(BlocksBelow(nodes, root)) :
    LET n == nodes[b]
    IN  /\ n.items # <<>>
        /\ IsLeaf(n) => Size(n.items) <= LeafSpace
        /\ ~IsLeaf(n) => /\ Len(n.items) <= PtrSpace
                         /\ \A e \in ToSet(n.items) : nodes[e.child].level + 1 = n.level

\* The keys rise from left to right, within and across leaves.
KeysAscend == \A i \in 1 .. Len(contents) - 1 : contents[i].k < contents[i + 1].k

\* After any sequence of splits, dropped nodes, collapses and failed writes the tree
\* is one: its blocks are its own, its shape and its order are what searches rely on.
TreeSound == TypeOK /\ TreeOwnsItsBlocks /\ WellShaped /\ KeysAscend

\* Point lookups see exactly the items of the tree: what one operation inserts
\* or updates through tracePath, a later searchTree finds.  Prefix scans (readdir,
\* extent lists, xattr lists) miss nothing and invent nothing, even when the
\* matches span leaves.
SearchFindsAll ==
  /\ \A k \in AllKeys : Found(k) = {it \in ToSet(contents) : it.k = k}
  /\ \A p \in KeyPrefixes :
       walkPrefix(nodes, root, p) = SelectSeq(contents, LAMBDA it : PrefixOf(it.k) = p)

Leaked == (Blocks \ free) \ ToSet(BlocksBelow(nodes, root))

\* An operation that returns an error leaves every item where it was, whichever
\* of its writes failed; one that succeeds loses no block: every block it took or
\* copied is in the new tree or back on the free list.  (The leaf that
\* tryCollapseTwoLeafRoot fails to write is the exception.)
AllOrNothing ==
  [][/\ result' # "ok" => contents' = contents
     /\ result' = "ok" /\ faults' = faults => Leaked' \subseteq Leaked]_vars

\* The bulk delete of a prefix stops early only for want of a block: its passes
\* reach every leaf that holds a match.
PrefixDeleteReachesAll == result # "misrouted"

\* An insert into a full leaf is refused for its size only when no division of
\* the items over two leaves would hold them.
SplitFindsRoom ==
  [][\A k \in Keys, d \in Data :
       Insert(k, d, 0) /\ result' = "nosplit" =>
         LET all == leafInsertItem(RoutedLeaf(Begin(0), root, k), k, d)
         IN  \A i \in 1 .. Len(all) - 1 :
               Size(SubSeq(all, 1, i)) > LeafSpace \/ Size(SubSeq(all, i + 1, Len(all))) > LeafSpace]_vars

KM == INSTANCE KeyMap WITH
        Keys <- AllKeys,
        dict <- [k \in {contents[i].k : i \in DOMAIN contents} |->
                   contents[findItemIdx(contents, k)].data]

\* The tree is a dictionary, whatever becomes of its blocks.
ImplementsKeyMap == KM!Spec
=============================================================================
