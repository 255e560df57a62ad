---------------------------- MODULE MCNamespace ----------------------------
(* Instances of Namespace. *)
EXTENDS Namespace, TLC

\* "a" and "bb" are the same to the hash of Colliding.
Short == [n \in Names |-> IF n = "bb" THEN 2 ELSE 1]
Distinct == [n \in Names |-> n]
Colliding == [n \in Names |-> IF n = "bb" THEN "a" ELSE n]

\* The state without what is said of the last operation, the names it was given
\* and how it ended, which no action reads.
Items == <<inodes, dirIndex, dirItem, refs, faults>>

Directories == {d \in Parents : inodes[d].kind = "dir"}

\* Entries are made in directories, and a rename leads neither to the old name
\* itself nor below the directory that is moved.
OrdinaryNext ==
  \E f \in Fuses, d \in Directories, n \in Names :
    \/ WriteFile(d, n, f) \/ MkDir(d, n, f) \/ Symlink(d, n, f)
    \/ \E i \in Parents : Link(i, d, n, f)
    \/ DeleteFile(d, n, f) \/ DeleteDir(d, n, f)
    \/ \E d2 \in Directories, n2 \in Names :
         /\ <<d2, n2>> # <<d, n>>
         /\ d2 \notin SubtreeOf(d, n)
         /\ Rename(d, n, d2, n2, f)

OrdinarySpec == Init /\ [][OrdinaryNext]_vars
=============================================================================
