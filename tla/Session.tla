------------------------------ MODULE Session ------------------------------
(***************************************************************************)
(* One mounted image used by several goroutines: the mutex fs.mu, the node *)
(* cache of nodecache.go, the copy-on-write root that mutators move, and   *)
(* the roots that OpenFile and subvolume views hold on to.                 *)
(*                                                                         *)
(* The FS tree is its root node, and a node its version: every write gives *)
(* the block it lands on a version never used before, so a version tells   *)
(* which tree a read has seen.  Blocks that are given back are reused, so  *)
(* an address says nothing about what it holds.                            *)
(***************************************************************************)
EXTENDS Naturals

CONSTANTS
  Threads,      \* the goroutines that call the public methods
  Blocks,       \* the logical addresses of nodes
  Nobody,       \* mu is not locked
  Absent,       \* no block, or no node in the cache
  MaxWrites     \* bound: the number of node writes

ASSUME SessionAssumption ==
  /\ Nobody \notin Threads
  /\ Absent \notin Blocks
  /\ Absent \notin Nat

VARIABLES
  mu,           \* fs.mu: the goroutine that holds it
  root,         \* fs.fsTreeRoot
  disk,         \* the version of the node at each address
  free,         \* the addresses on the free list of fs.sm
  rootItem,     \* the root that the ROOT_ITEM of the FS_TREE names
  generation,   \* fs.sb.generation
  cache,        \* fs.cache: is it installed, builtGen, nodes
  last,         \* the last version written
  dirty,        \* the mutator at work has written since its last commit
  pc,           \* where each goroutine is
  arg,          \* the tree root that each goroutine descends from
  view,         \* the root kept by the subvolume view of each goroutine
  got           \* the version each goroutine read last

vars == <<mu, root, disk, free, rootItem, generation, cache, last, dirty, pc, arg, view, got>>

Idle == "idle"
Reading == "reading"
Writing == "writing"

\* A call waits for the mutex: a method that reads, OpenFile with the root it
\* has read already, a method of a view, OpenSubvolumeBy..., a mutator.
Calls == {"read", "open", "viewread", "subvol", "write"}

NoCache == [present |-> FALSE, builtGen |-> 0, nodes |-> [b \in Blocks |-> Absent]]

newCachedReader(gen) ==
  [present |-> TRUE, builtGen |-> gen, nodes |-> [b \in Blocks |-> Absent]]

\* A slip in reader: the generation is not looked at.
readerNoGuard == IF ~cache.present THEN newCachedReader(generation) ELSE cache

\* reader(): the installed cache unless the generation moved under it.
reader ==
  IF ~cache.present \/ cache.builtGen # generation
  THEN newCachedReader(generation) ELSE cache

\* The mutex, the cache, the roots and the device have their types.
TypeOK ==
  /\ mu \in Threads \cup {Nobody}
  /\ root \in Blocks
  /\ disk \in [Blocks -> Nat]
  /\ free \in SUBSET Blocks
  /\ rootItem \in Blocks
  /\ generation \in Nat
  /\ cache \in [present : BOOLEAN, builtGen : Nat, nodes : [Blocks -> Nat \cup {Absent}]]
  /\ last \in Nat
  /\ dirty \in BOOLEAN
  /\ pc \in [Threads -> {Idle, Reading, Writing} \cup Calls]
  /\ arg \in [Threads -> Blocks \cup {Absent}]
  /\ view \in [Threads -> Blocks \cup {Absent}]
  /\ got \in [Threads -> Nat \cup {Absent}]

Init ==
  /\ mu = Nobody
  /\ root \in Blocks
  /\ disk = [b \in Blocks |-> IF b = root THEN 1 ELSE 0]
  /\ free = Blocks \ {root}
  /\ rootItem = root
  /\ generation = 1
  /\ cache = NoCache
  /\ last = 1
  /\ dirty = FALSE
  /\ pc = [t \in Threads |-> Idle]
  /\ arg = [t \in Threads |-> Absent]
  /\ view = [t \in Threads |-> Absent]
  /\ got = [t \in Threads |-> Absent]

device == <<root, disk, free, rootItem, generation, last, dirty>>

----------------------------------------------------------------------------
(* Calls. *)

\* A public method is entered.  OpenFile evaluates fs.fsTreeRoot for its
\* argument before openBtrfsFile locks; a view passes the root it keeps.
Call(t, c) ==
  /\ pc[t] = Idle
  /\ c = "viewread" => view[t] # Absent
  /\ pc' = [pc EXCEPT ![t] = c]
  /\ arg' = [arg EXCEPT ![t] = CASE c = "open" -> root
                                 [] c = "viewread" -> view[t]
                                 [] OTHER -> Absent]
  /\ got' = [got EXCEPT ![t] = Absent]
  /\ UNCHANGED <<mu, cache, view, device>>

\* mu is taken for a method that reads through reader(); ReadFile and its like
\* read fs.fsTreeRoot now.
LockForRead(t) ==
  /\ pc[t] \in {"read", "open", "viewread"}
  /\ mu = Nobody
  /\ mu' = t
  /\ pc' = [pc EXCEPT ![t] = Reading]
  /\ arg' = [arg EXCEPT ![t] = IF pc[t] = "read" THEN root ELSE @]
  /\ cache' = reader
  /\ UNCHANGED <<view, got, device>>

\* readNode through the cache: a hit is served as it is, a miss is read from the
\* device and kept.
readNode(t) ==
  /\ pc[t] = Reading
  /\ got[t] = Absent
  /\ LET hit == cache.nodes[arg[t]]
         buf == IF hit # Absent THEN hit ELSE disk[arg[t]]
     IN  /\ got' = [got EXCEPT ![t] = buf]
         /\ cache' = [cache EXCEPT !.nodes[arg[t]] = buf]
  /\ UNCHANGED <<mu, pc, arg, view, device>>

\* A slip in UnlockRead: the loop over the extents does not advance.
UnlockReadRetries(t) ==
  /\ pc[t] = Reading
  /\ got[t] # Absent
  /\ got' = [got EXCEPT ![t] = Absent]
  /\ UNCHANGED <<mu, cache, pc, arg, view, device>>

UnlockRead(t) ==
  /\ pc[t] = Reading
  /\ got[t] # Absent
  /\ mu' = Nobody
  /\ pc' = [pc EXCEPT ![t] = Idle]
  /\ UNCHANGED <<cache, arg, view, got, device>>

\* OpenSubvolumeByID and ByName: the root comes from the ROOT_TREE, read past
\* the cache.  After a mutator that failed before its commit it is not the
\* root that fs.fsTreeRoot has moved to.
OpenSubvolume(t) ==
  /\ pc[t] = "subvol"
  /\ mu = Nobody
  /\ view' = [view EXCEPT ![t] = rootItem]
  /\ pc' = [pc EXCEPT ![t] = Idle]
  /\ UNCHANGED <<mu, cache, arg, got, device>>

LockForWrite(t) ==
  /\ pc[t] = "write"
  /\ mu = Nobody
  /\ mu' = t
  /\ pc' = [pc EXCEPT ![t] = Writing]
  /\ UNCHANGED <<cache, arg, view, got, device>>

\* A slip in CowStep: the new root is not stored.
CowStepForgetsRoot(t, b) ==
  /\ pc[t] = Writing
  /\ last <= MaxWrites
  /\ b \in free
  /\ disk' = [disk EXCEPT ![b] = last + 1]
  /\ last' = last + 1
  /\ free' = free \ {b}
  /\ dirty' = TRUE
  /\ UNCHANGED <<mu, root, rootItem, generation, cache, pc, arg, view, got>>

\* One copy-on-write step of a mutator: the new root is written to a free block
\* and the block of the old one is given back.  Mutators read past the cache.
CowStep(t, b) ==
  /\ pc[t] = Writing
  /\ last <= MaxWrites
  /\ b \in free
  /\ disk' = [disk EXCEPT ![b] = last + 1]
  /\ last' = last + 1
  /\ root' = b
  /\ free' = (free \ {b}) \cup {root}
  /\ dirty' = TRUE
  /\ UNCHANGED <<mu, rootItem, generation, cache, pc, arg, view, got>>

\* cowDeletePrefix fails in a later pass: the first one has written a root and
\* given the old one back, the caller keeps the old one and returns the error.
cowDeletePrefixFails(t, b) ==
  /\ pc[t] = Writing
  /\ last <= MaxWrites
  /\ b \in free
  /\ disk' = [disk EXCEPT ![b] = last + 1]
  /\ last' = last + 1
  /\ free' = (free \ {b}) \cup {root}
  /\ cache' = NoCache
  /\ dirty' = FALSE
  /\ mu' = Nobody
  /\ pc' = [pc EXCEPT ![t] = Idle]
  /\ UNCHANGED <<root, rootItem, generation, arg, view, got>>

\* updateFsTreeRoot and writeSuperblock.
Commit(t) ==
  /\ pc[t] = Writing
  /\ dirty
  /\ rootItem' = root
  /\ generation' = generation + 1
  /\ dirty' = FALSE
  /\ UNCHANGED <<mu, root, disk, free, cache, last, pc, arg, view, got>>

\* A slip in UnlockWrite: a mutator that returns without invalidateCache.
UnlockWriteKeepsCache(t) ==
  /\ pc[t] = Writing
  /\ dirty' = FALSE
  /\ mu' = Nobody
  /\ pc' = [pc EXCEPT ![t] = Idle]
  /\ UNCHANGED <<root, disk, free, rootItem, generation, cache, last, arg, view, got>>

\* The deferred calls of a public mutator, after success and after an error.
UnlockWrite(t) ==
  /\ pc[t] = Writing
  /\ cache' = NoCache
  /\ dirty' = FALSE
  /\ mu' = Nobody
  /\ pc' = [pc EXCEPT ![t] = Idle]
  /\ UNCHANGED <<root, disk, free, rootItem, generation, last, arg, view, got>>

\* A writer that does not go through the public methods leaves the cache alone,
\* but commits what it wrote.
UnlockBypass(t) ==
  /\ pc[t] = Writing
  /\ ~dirty
  /\ mu' = Nobody
  /\ pc' = [pc EXCEPT ![t] = Idle]
  /\ UNCHANGED <<cache, arg, view, got, device>>

Step(t) ==
  \/ LockForRead(t)
  \/ readNode(t)
  \/ UnlockRead(t)
  \/ OpenSubvolume(t)
  \/ LockForWrite(t)
  \/ \E b \in Blocks : CowStep(t, b) \/ cowDeletePrefixFails(t, b)
  \/ Commit(t)
  \/ UnlockWrite(t)
  \/ UnlockBypass(t)

Next == \E t \in Threads : Step(t) \/ \E c \in Calls : Call(t, c)

Spec == Init /\ [][Next]_vars

Acquire(t) == LockForRead(t) \/ OpenSubvolume(t) \/ LockForWrite(t)

\* A method that holds the mutex runs to its return, and a goroutine that asks
\* for a mutex that becomes free again and again gets it (the starvation mode
\* of sync.Mutex).
Fairness ==
  \A t \in Threads :
    /\ WF_vars(readNode(t))
    /\ WF_vars(UnlockRead(t))
    /\ WF_vars(UnlockWrite(t))
    /\ SF_vars(Acquire(t))

FairSpec == Spec /\ Fairness

----------------------------------------------------------------------------
(* Properties. *)

\* The mutex does what every method relies on: who is inside a method holds it.
MutualExclusion ==
  \A t \in Threads : pc[t] \in {Reading, Writing} <=> mu = t

\* A cache that reader() would hand out holds what the device holds, unless a
\* mutator is between its first write and its return: no address that was
\* given back and reused is still cached with its old node.
CacheCoherent ==
  cache.present /\ cache.builtGen = generation /\ ~dirty =>
    \A b \in Blocks : cache.nodes[b] # Absent => cache.nodes[b] = disk[b]

\* The root is never on the free list, so that no mutator overwrites the tree it
\* started from before it has moved on.  A prefix delete that fails in a later
\* pass breaks this.
RootIsTaken == root \notin free

\* What a method under the mutex is served is what the device holds at that
\* moment, whatever was cached by earlier calls.
ServedFromDevice ==
  \A t \in Threads : got'[t] # got[t] /\ got'[t] # Absent => got'[t] = disk[arg[t]]

ServedIsCurrent == [][ServedFromDevice]_vars

\* A method that takes its root under the mutex reads the newest tree, unless a
\* prefix delete that failed in a later pass has left the root on the free list.
LockSeesNewest ==
  \A t \in Threads :
    pc[t] = "read" /\ pc'[t] = Reading /\ RootIsTaken => disk[arg'[t]] = last

ReadsNewestTree == [][LockSeesNewest]_vars

\* The accesses of all public methods are serialized by the mutex: the root an
\* OpenFile descends from is still a block of the tree when it gets to run.
OpenRootIsLive ==
  \A t \in Threads : pc[t] = "open" /\ mu = Nobody => arg[t] \notin free

\* A view of the default subvolume stays within the tree of that subvolume.
ViewRootIsLive ==
  \A t \in Threads : pc[t] = "viewread" /\ mu = Nobody => arg[t] \notin free

\* Every call returns, whatever the other goroutines do.
CallsReturn == \A t \in Threads : pc[t] # Idle ~> pc[t] = Idle
=============================================================================
