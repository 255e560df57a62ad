------------------------------ MODULE NameTree ------------------------------
(***************************************************************************)
(* What the directory operations promise: a tree of names.  A name is a    *)
(* directory and a name in it, and stands for an inode.  Removing a name   *)
(* removes what was below it; a rename replaces what the new name stood    *)
(* for and takes along what is below.                                      *)
(***************************************************************************)
EXTENDS TLC

CONSTANTS Inos, Root, Names

VARIABLE tree       \* a function from <<directory, name>> to inodes

Init == tree = <<>>        \* the function with the empty domain

\* The names of t that a path from the root leads through.
RECURSIVE Below(_, _)
Below(t, S) ==
  LET next == S \cup {t[x] : x \in {y \in DOMAIN t : y[1] \in S}}
  IN  IF next = S THEN S ELSE Below(t, next)

Prune(t) ==
  LET S == Below(t, {Root}) IN [x \in {y \in DOMAIN t : y[1] \in S} |-> t[x]]

Without(t, x) == [y \in DOMAIN t \ {x} |-> t[y]]

\* A new name, for a new inode or for one that has names already.
Add(d, n, i) ==
  /\ <<d, n>> \notin DOMAIN tree
  /\ tree' = (<<d, n>> :> i) @@ tree

Remove(d, n) ==
  /\ <<d, n>> \in DOMAIN tree
  /\ tree' = Prune(Without(tree, <<d, n>>))

Rename(d, n, d2, n2) ==
  /\ <<d, n>> \in DOMAIN tree
  /\ tree' = (<<d2, n2>> :> tree[d, n]) @@ Without(tree, <<d, n>>)

Next ==
  \E d \in Inos, n \in Names :
    \/ \E i \in Inos : Add(d, n, i)
    \/ Remove(d, n)
    \/ \E d2 \in Inos, n2 \in Names : Rename(d, n, d2, n2)

Spec == Init /\ [][Next]_tree
=============================================================================
