----------------------------- MODULE FreeSpace -----------------------------
(***************************************************************************)
(* What the space manager of alloc.go promises to the code that takes      *)
(* blocks from it, with the list, its order and its coalescing left out.   *)
(* The usable space is a set of units, an extent a non-empty set of them;  *)
(* it is handed out only while all of it is free, stays with one owner     *)
(* until it is given back, and is never handed out twice.                  *)
(***************************************************************************)
CONSTANTS
  Usable,           \* the units of the seeded chunks outside the fixed regions
  Extents           \* the ranges of units that may be handed out

VARIABLES
  free,             \* the units on the free list
  live,             \* the extents the trees of the image reference
  leaked            \* the extents a failed operation took and did not return

vars == <<free, live, leaked>>

\* What can be handed out is not empty, and usable.
Ranges == {e \in Extents : e # {} /\ e \subseteq Usable}

\* Free, used and lost space are ranges of what may be used.
TypeOK ==
  /\ free \in SUBSET Usable
  /\ live \in SUBSET Ranges
  /\ leaked \in SUBSET Ranges

\* A mounted image: the extents of the trees do not overlap, the rest is free.
Init ==
  /\ live \in SUBSET Ranges
  /\ \A d, e \in live : d # e => d \cap e = {}
  /\ free = Usable \ (UNION live)
  /\ leaked = {}

Take(e) ==
  /\ e # {}
  /\ e \subseteq free
  /\ free' = free \ e
  /\ live' = live \cup {e}
  /\ UNCHANGED leaked

Return(e) ==
  /\ e \in live
  /\ free' = free \cup e
  /\ live' = live \ {e}
  /\ UNCHANGED leaked

\* The operation that took e fails: nothing references e any more.
Lose(e) ==
  /\ e \in live
  /\ live' = live \ {e}
  /\ leaked' = leaked \cup {e}
  /\ UNCHANGED free

\* A mount finds the extents of the image, which are not the ones in use when the
\* last change was never committed, and computes the free space from them.
Recover ==
  /\ live' \in SUBSET Ranges
  /\ \A d, e \in live' : d # e => d \cap e = {}
  /\ free' = Usable \ (UNION live')
  /\ leaked' = {}

Next ==
  \/ \E e \in Extents : Take(e) \/ Return(e) \/ Lose(e)
  \/ Recover

Spec == Init /\ [][Next]_vars

----------------------------------------------------------------------------
\* No unit belongs to two extents, whether they are in use or leaked: two
\* tree nodes or file extents never share a block.
SingleOwner ==
  \A d, e \in live \cup leaked : d # e => d \cap e = {}

\* Nothing in use can be handed out again.
FreeIsUnused == \A e \in live \cup leaked : e \cap free = {}

\* An extent is in use or leaked, not both.
LeakedIsUnreferenced == live \cap leaked = {}

\* Every usable unit is free, in use or leaked: no unit is lost to all three.
Conserved == Usable = free \cup (UNION live) \cup (UNION leaked)

Inv ==
  /\ SingleOwner
  /\ FreeIsUnused
  /\ LeakedIsUnreferenced
  /\ Conserved
=============================================================================
