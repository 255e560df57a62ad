----------------------------- MODULE MCCowTree -----------------------------
(* Instances of CowTree. *)
EXTENDS CowTree

\* The tree without the numbers of its blocks.  Two states with the same shape,
\* the same number of free blocks and the same outcome have the same future up
\* to a renaming of blocks: no operation tells one free block from another.
RECURSIVE Shape(_)
Shape(b) ==
  LET n == nodes[b]
  IN  IF IsLeaf(n) THEN n.items
      ELSE [i \in DOMAIN n.items |-> <<n.items[i].k, Shape(n.items[i].child)>>]

ShapeView == <<Shape(root), Cardinality(free), root \in free, result, faults>>

\* The matches of p are in the one leaf that cowDeletePrefix is routed to.
Routable(p) ==
  walkPrefix(nodes, root, p)
    = SelectSeq(RoutedLeaf(Begin(0), root, p * Width), LAMBDA it : PrefixOf(it.k) = p)

\* Everything except prefix deletes whose matches are elsewhere.
RoutableNext ==
  \E fuse \in Fuses :
    \/ \E k \in Keys, d \in Data : Insert(k, d, fuse) \/ Update(k, d, fuse)
    \/ \E k \in Keys : Delete(k, fuse)
    \/ \E p \in KeyPrefixes : Routable(p) /\ DeletePrefix(p, fuse)

RoutableSpec == Init /\ [][RoutableNext]_vars

\* Operations on single keys.
PointNext ==
  \E fuse \in Fuses, k \in Keys :
    \/ \E d \in Data : Insert(k, d, fuse) \/ Update(k, d, fuse)
    \/ Delete(k, fuse)

PointSpec == Init /\ [][PointNext]_vars

\* On the way to k no node has only greater pointers.
Covered(k) ==
  \A pe \in ToSet(tracePath(nodes, root, k)) :
    IsLeaf(nodes[pe.block]) \/ Rightmost(nodes[pe.block].items, k) > 0

\* Operations on single keys, except inserts to the left of every pointer.
CoveredNext ==
  \E fuse \in Fuses, k \in Keys :
    \/ Covered(k) /\ \E d \in Data : Insert(k, d, fuse)
    \/ \E d \in Data : Update(k, d, fuse)
    \/ Delete(k, fuse)

CoveredSpec == Init /\ [][CoveredNext]_vars
=============================================================================
