---------------------------- MODULE CommitProofs ----------------------------
(***************************************************************************)
(* The trees of the filesystem stay whole and apart, a change that was     *)
(* reported as done is found by a mount, and the EXTENT_TREE covers it,    *)
(* for any number of blocks, leaves and changes, as long as the writes to  *)
(* the ROOT_TREE and the EXTENT_TREE do not fail.                          *)
(***************************************************************************)
EXTENDS MCCommit, FiniteSetTheorems, TLAPS

\* The order of the natural numbers as a set of pairs.
Less == {ss \in Nat \X Nat : ss[1] < ss[2]}

\* There is no infinite descent in the natural numbers.
LEMMA LessWellFounded == IsWellFoundedOn(Less, Nat)
  BY NatLessThanWellFounded, Zenon DEF OpToRel, Less

\* A set of numbers that is not empty has a least one.
LEMMA MinIsLeast ==
  ASSUME NEW S \in SUBSET Nat, S # {}
  PROVE  Min(S) \in S /\ \A y \in S : Min(S) <= y
<1>1. PICK x \in S : \A y \in S : <<y, x>> \notin Less
  BY WFMin, LessWellFounded, Zenon
<1>2. ASSUME NEW y \in S PROVE x <= y
  <2>1. y < x => <<y, x>> \in Less
    BY DEF Less
  <2> QED
    BY <1>1, <2>1
<1> QED
  BY <1>2, Zenon DEF Min

\* The kinds of the nodes keep the trees apart: a block is the root of one tree,
\* or below the root of one tree.
Apart ==
  /\ disk[rootLogAddr].kind = "root"
  /\ disk[fsTreeRoot].kind = "fs"
  /\ disk[extentTreeRoot].kind = "ext"
  /\ \A b \in disk[fsTreeRoot].kids : disk[b].kind = "fsbelow"
  /\ \A b \in disk[extentTreeRoot].kids : disk[b].kind = "extbelow"
  /\ rootLogAddr \notin free /\ fsTreeRoot \notin free /\ extentTreeRoot \notin free
  /\ disk[fsTreeRoot].kids \cap free = {} /\ disk[extentTreeRoot].kids \cap free = {}

\* From updateRootItem on the ROOT_ITEM leads to the FS tree in memory; from the
\* rebuild on the records cover what is in use; after the superblock a mount
\* starts from the same ROOT_TREE.
Linked ==
  /\ pc \in {"rooted", "rebuilt"} => disk[rootLogAddr].fs = fsTreeRoot
  /\ pc = "rebuilt" => collected \subseteq disk[extentTreeRoot].recs
  /\ pc = "idle" /\ result = "ok" =>
       /\ super = rootLogAddr /\ disk[rootLogAddr].fs = fsTreeRoot
       /\ collected \subseteq disk[extentTreeRoot].recs

IInv == TypeOK /\ Apart /\ Linked

----------------------------------------------------------------------------
\* The shapes of nodes.
LEMMA NodeShapes ==
  ASSUME NEW x \in Nodes
  PROVE  /\ x.kind = "fs" => x.ver \in 0 .. MaxVersion /\ x.kids \subseteq Blocks
         /\ x.kind = "root" => x.fs \in Blocks /\ x.ext \in Blocks
         /\ x.kind = "ext" => x.recs \subseteq Blocks /\ x.kids \subseteq Blocks
BY DEF Nodes

LEMMA NodesMade ==
  /\ \A v \in 0 .. MaxVersion, K \in SUBSET Blocks :
       /\ Fs(v, K) \in Nodes /\ Fs(v, K).kind = "fs" /\ Fs(v, K).kids = K
       /\ Fs(v, K).ver = v
  /\ \A R \in SUBSET Blocks, K \in SUBSET Blocks :
       /\ Ext(R, K) \in Nodes /\ Ext(R, K).kind = "ext" /\ Ext(R, K).kids = K
       /\ Ext(R, K).recs = R
  /\ \A f \in Blocks, e \in Blocks :
       /\ Root(f, e) \in Nodes /\ Root(f, e).kind = "root" /\ Root(f, e).fs = f
       /\ Root(f, e).ext = e
  /\ \A k \in {"blank", "fsbelow", "extbelow"} : Below(k) \in Nodes /\ Below(k).kind = k
BY DEF Nodes, Fs, Ext, Root, Below

\* A ROOT_TREE in which a ROOT_ITEM is changed.
LEMMA RootEdits ==
  ASSUME NEW x \in Nodes, x.kind = "root", NEW b \in Blocks
  PROVE  /\ [x EXCEPT !.fs = b] = Root(b, x.ext)
         /\ [x EXCEPT !.ext = b] = Root(x.fs, b)
BY DEF Nodes, Root

\* First fit takes from the set, and takes something when it is to take something.
LEMMA LowestTakes ==
  ASSUME NEW S \in SUBSET Blocks, NEW n \in Nat
  PROVE  /\ Lowest(S, n) \subseteq S
         /\ n # 0 /\ S # {} => Lowest(S, n) # {}
<1>1. Lowest(S, n) \subseteq S
  BY DEF Lowest
<1>2. ASSUME n # 0, S # {} PROVE Lowest(S, n) # {}
  <2>1. S \in SUBSET Nat /\ Min(S) \in S /\ \A y \in S : Min(S) <= y
    BY <1>2, MinIsLeast, CommitAssumption
  <2>2. {c \in S : c < Min(S)} = {}
    <3>1. \A m, c \in Nat : m <= c => ~(c < m)
      OBVIOUS
    <3>2. \A c \in S : ~(c < Min(S))
      BY <2>1, <3>1, Zenon
    <3> QED
      BY <3>2, Zenon
  <2>3. Cardinality({c \in S : c < Min(S)}) < n
    BY <1>2, <2>2, FS_EmptySet
  <2> QED
    BY <2>1, <2>3 DEF Lowest
<1> QED
  BY <1>1, <1>2

\* What is taken for n blocks is taken again when the blocks are written one by one.
LEMMA LowestOfLowest ==
  ASSUME NEW S \in SUBSET Blocks, NEW n \in Nat
  PROVE  Lowest(Lowest(S, n), n + 1) = Lowest(S, n)
<1> DEFINE T == Lowest(S, n)
<1>1. T \subseteq S
  BY DEF Lowest
<1>2. ASSUME NEW b \in T PROVE Cardinality({c \in T : c < b}) < n + 1
  <2> DEFINE U == {c \in S : c < b}
             V == {c \in T : c < b}
  <2>1. Cardinality(U) < n
    BY DEF Lowest
  <2>2. IsFiniteSet(U) /\ V \in SUBSET U
    BY <1>1, CommitAssumption, FS_Subset, Zenon
  <2>3. Cardinality(V) <= Cardinality(U) /\ Cardinality(V) \in Nat /\ Cardinality(U) \in Nat
    <3> HIDE DEF U, V
    <3> QED
      BY <2>2, FS_Subset, FS_CardinalityType
  <2> QED
    BY <2>1, <2>3
<1>3. Lowest(T, n + 1) = {b \in T : Cardinality({c \in T : c < b}) < n + 1}
  BY DEF Lowest
<1> HIDE DEF T
<1>4. Lowest(T, n + 1) = T
  BY <1>2, <1>3, Zenon
<1> QED
  BY <1>4 DEF T

\* A finite set of numbers that is not empty has a greatest one.
LEMMA FiniteMax ==
  ASSUME NEW S \in SUBSET Nat, IsFiniteSet(S), S # {}
  PROVE  Max(S) \in S /\ \A y \in S : y <= Max(S)
<1> DEFINE Unbounded(U) == U # {} /\ ~\E m \in U : \A y \in U : y <= m
           T == {k \in Nat : \E U \in SUBSET Nat : /\ IsFiniteSet(U) /\ Cardinality(U) = k
                                                   /\ Unbounded(U)}
<1>1. SUFFICES T = {}
  <2>1. Cardinality(S) \in Nat
    BY FS_CardinalityType
  <2>2. ~Unbounded(S)
    BY <1>1, <2>1
  <2> QED
    BY <2>2, Zenon DEF Max
<1>2. SUFFICES ASSUME T # {} PROVE FALSE
  OBVIOUS
<1>3. PICK k \in T : \A j \in T : k <= j
  <2>1. T \in SUBSET Nat
    OBVIOUS
  <2> HIDE DEF T
  <2> QED
    BY <1>2, <2>1, MinIsLeast, Zenon
<1>4. PICK U \in SUBSET Nat : IsFiniteSet(U) /\ Cardinality(U) = k /\ Unbounded(U)
  BY <1>3
<1>5. PICK x \in U : TRUE
  BY <1>4, Zenon
<1> DEFINE V == U \ {x}
<1>6. IsFiniteSet(V) /\ Cardinality(V) = k - 1 /\ V \in SUBSET Nat
  BY <1>4, <1>5, FS_RemoveElement
<1>7. V # {}
  BY <1>4, <1>5
<1>8. k - 1 \in Nat
  BY <1>6, FS_CardinalityType
<1>9. k - 1 \notin T
  BY <1>3, <1>8
<1>10. ~Unbounded(V)
  BY <1>6, <1>8, <1>9, Zenon
<1>11. PICK m \in V : \A y \in V : y <= m
  BY <1>7, <1>10
<1>12. CASE x <= m
  <2>1. m \in U /\ \A y \in U : y <= m
    BY <1>11, <1>12
  <2> QED
    BY <1>4, <2>1
<1>13. CASE m <= x
  <2>1. \A y \in U : y <= x
    BY <1>4, <1>5, <1>11, <1>13
  <2> QED
    BY <1>4, <1>5, <2>1
<1> QED
  BY <1>4, <1>5, <1>11, <1>12, <1>13

----------------------------------------------------------------------------
(* Division. *)

\* The last block of a set of blocks.
LEMMA TopOf ==
  ASSUME NEW S \in SUBSET Blocks, S # {}
  PROVE  Max(S) \in S
<1>1. S \in SUBSET Nat /\ IsFiniteSet(S)
  BY CommitAssumption, FS_Subset, Zenon
<1> QED
  BY <1>1, FiniteMax

\* The fixpoint of the layout exists, and a tree has at least one block.
LEMMA LayoutPositive ==
  ASSUME NEW base \in Nat, base <= Cardinality(Blocks)
  PROVE  Layout(base) \in Nat /\ Layout(base) # 0
<1> DEFINE N == Cardinality(Blocks)
           S == {n \in 1 .. N : partitionLeaves(base + n + interiorShape(n)) <= n}
<1>1. N \in Nat /\ N >= 2
  <2>1. N \in Nat
    BY CommitAssumption, FS_CardinalityType
  <2>2. {1, 2} \in SUBSET Blocks
    BY CommitAssumption
  <2>3. Cardinality({1, 2}) = 2
    <3>1. IsFiniteSet({1}) /\ Cardinality({1}) = 1
      BY FS_Singleton
    <3>2. Cardinality({1} \cup {2}) = 2
      BY <3>1, FS_AddElement
    <3>3. {1, 2} = {1} \cup {2}
      OBVIOUS
    <3> QED
      BY <3>2, <3>3, Zenon
  <2>4. Cardinality({1, 2}) <= N
    BY <2>2, CommitAssumption, FS_Subset
  <2> QED
    BY <2>1, <2>3, <2>4
<1> HIDE DEF N
<1>2. N \in S
  <2>1. interiorShape(N) = 1
    BY <1>1 DEF interiorShape
  <2>2. LeafCap * N >= 3 * N
    BY <1>1, CommitAssumption
  <2> DEFINE a == base + N + 1 + LeafCap - 1
  <2>3. a \in Nat /\ a < LeafCap * N + LeafCap
    BY <1>1, <2>2, CommitAssumption DEF N
  <2>4. a \div LeafCap \in Nat /\ LeafCap * (a \div LeafCap) <= a
    <3> HIDE DEF a
    <3> QED
      BY <2>3, CommitAssumption
  <2>5. a \div LeafCap <= N
    <3> DEFINE q == a \div LeafCap
    <3> HIDE DEF a, q
    <3>1. q \in Nat /\ LeafCap * q < LeafCap * N + LeafCap
      BY <1>1, <2>3, <2>4, CommitAssumption DEF q
    <3>2. ASSUME q >= N + 1 PROVE FALSE
      <4>1. PICK d \in Nat : q = N + 1 + d
        <5>1. q - (N + 1) \in Nat /\ q = N + 1 + (q - (N + 1))
          BY <1>1, <3>1, <3>2
        <5> QED
          BY <5>1
      <4>2. LeafCap * q = LeafCap * N + LeafCap + LeafCap * d /\ LeafCap * d >= 0
        BY <1>1, <4>1, CommitAssumption
      <4> QED
        BY <1>1, <3>1, <4>2, CommitAssumption
    <3> QED
      BY <1>1, <3>1, <3>2 DEF q
  <2> QED
    BY <1>1, <2>1, <2>5 DEF partitionLeaves
<1>3. S \in SUBSET Nat /\ \A n \in S : n >= 1
  OBVIOUS
<1>4. Layout(base) = Min(S) + interiorShape(Min(S))
  BY DEF Layout, N
<1> HIDE DEF S
<1>5. Min(S) \in Nat /\ Min(S) >= 1
  BY <1>2, <1>3, MinIsLeast, Zenon
<1> QED
  BY <1>4, <1>5 DEF interiorShape

----------------------------------------------------------------------------
LEMMA InitIInv == Init => IInv
<1> SUFFICES ASSUME Init PROVE IInv
  OBVIOUS
<1> USE CommitAssumption
<1>1. /\ disk \in [Blocks -> Nodes]
      /\ disk[1] = Root(2, 3) /\ disk[2] = Fs(0, {}) /\ disk[3] = Ext({1, 2, 3}, {})
  <2>1. 0 \in 0 .. MaxVersion /\ {} \in SUBSET Blocks /\ {1, 2, 3} \in SUBSET Blocks
    OBVIOUS
  <2>2. /\ Root(2, 3) \in Nodes /\ Fs(0, {}) \in Nodes /\ Ext({1, 2, 3}, {}) \in Nodes
        /\ Below("blank") \in Nodes
    BY <2>1, NodesMade
  <2> QED
    BY <2>2 DEF Init
<1>2. /\ disk[1].kind = "root" /\ disk[1].fs = 2 /\ disk[1].ext = 3
      /\ disk[2].kind = "fs" /\ disk[2].kids = {}
      /\ disk[3].kind = "ext" /\ disk[3].kids = {} /\ disk[3].recs = {1, 2, 3}
  BY <1>1 DEF Root, Fs, Ext
<1>3. TypeOK
  BY <1>1 DEF Init, TypeOK
<1>4. Apart
  BY <1>2 DEF Init, Apart, extentTreeRoot
<1>5. Linked
  BY <1>2 DEF Init, Linked, extentTreeRoot, collected, LiveBlocks, walkNodeAddrs
<1> QED
  BY <1>3, <1>4, <1>5 DEF IInv

\* What is known of the trees in use.
LEMMA InUse ==
  ASSUME TypeOK, Apart
  PROVE  /\ extentTreeRoot \in Blocks /\ disk[rootLogAddr].fs \in Blocks
         /\ disk[fsTreeRoot].kids \subseteq Blocks /\ disk[extentTreeRoot].kids \subseteq Blocks
         /\ disk[fsTreeRoot].ver \in 0 .. MaxVersion
         /\ oldExtent = {extentTreeRoot} \cup disk[extentTreeRoot].kids
         /\ collected = {rootLogAddr} \cup walkNodeAddrs(disk, disk[rootLogAddr].fs) \cup oldExtent
         /\ collected \subseteq Blocks
<1>1. \A b \in Blocks : walkNodeAddrs(disk, b) \subseteq Blocks
  BY NodeShapes DEF TypeOK, walkNodeAddrs
<1>2. extentTreeRoot \in Blocks /\ disk[rootLogAddr].fs \in Blocks
  BY NodeShapes DEF TypeOK, Apart, extentTreeRoot
<1>3. /\ disk[fsTreeRoot].kids \subseteq Blocks /\ disk[extentTreeRoot].kids \subseteq Blocks
      /\ disk[fsTreeRoot].ver \in 0 .. MaxVersion
  BY <1>2, NodeShapes DEF TypeOK, Apart
<1>4. oldExtent = {extentTreeRoot} \cup disk[extentTreeRoot].kids
  BY DEF oldExtent, walkNodeAddrs, Apart
<1>5. collected = {rootLogAddr} \cup walkNodeAddrs(disk, disk[rootLogAddr].fs) \cup oldExtent
  BY DEF collected, LiveBlocks, oldExtent, extentTreeRoot, Apart
<1>6. collected \subseteq Blocks
  BY <1>1, <1>2, <1>5 DEF oldExtent, TypeOK
<1> QED
  BY <1>2, <1>3, <1>4, <1>5, <1>6

\* The trees stay as they are when the disk does and no block becomes free.
LEMMA Undisturbed ==
  ASSUME Apart, UNCHANGED <<disk, rootLogAddr, fsTreeRoot>>, free' \subseteq free
  PROVE  Apart'
BY DEF Apart, extentTreeRoot

\* FsChange: a node is copied.
LEMMA CowStepSafe ==
  ASSUME TypeOK, Apart, NEW grow \in BOOLEAN, NEW drop \in SUBSET disk[fsTreeRoot].kids,
         CowStep(grow, drop)
  PROVE  TypeOK' /\ Apart'
<1> DEFINE n == IF grow THEN 2 ELSE 1
           old == disk[fsTreeRoot]
           taken == Lowest(free, n)
           top == Max(taken)
           kids == (old.kids \ drop) \cup (taken \ {top})
<1>1. /\ disk' = [b \in Blocks |-> CASE b = top -> Fs(old.ver + 1, kids)
                                     [] b \in taken \ {top} -> Below("fsbelow")
                                     [] OTHER -> disk[b]]
      /\ fsTreeRoot' = top
      /\ free' = (free \ taken) \cup {fsTreeRoot} \cup drop
      /\ pc' = "mutating" /\ old.ver < MaxVersion
      /\ UNCHANGED <<super, rootLogAddr, result, faults>>
      /\ Cardinality(taken) = n
  BY DEF CowStep
<1>2. taken \subseteq free /\ taken # {} /\ free \subseteq Blocks
  <2>1. n \in Nat /\ n # 0
    OBVIOUS
  <2>2. taken \subseteq free
    BY DEF Lowest
  <2> QED
    BY <1>1, <2>1, <2>2, FS_EmptySet DEF TypeOK
<1>3. top \in taken
  <2>1. taken \in SUBSET Blocks
    BY <1>2
  <2> HIDE DEF taken
  <2> QED
    BY <1>2, <2>1, TopOf
<1> HIDE DEF n, taken, top
<1>4. kids \subseteq Blocks /\ old.ver + 1 \in 0 .. MaxVersion
  BY <1>1, <1>2, InUse, CommitAssumption
<1> HIDE DEF kids
<1>5. Fs(old.ver + 1, kids) \in Nodes /\ Below("fsbelow") \in Nodes
  BY <1>4, NodesMade
<1>6. TypeOK'
  <2>1. disk' \in [Blocks -> Nodes]
    BY <1>1, <1>5 DEF TypeOK
  <2>2. fsTreeRoot' \in Blocks /\ free' \subseteq Blocks
    BY <1>1, <1>2, <1>3, InUse DEF TypeOK
  <2> QED
    BY <1>1, <2>1, <2>2 DEF TypeOK
<1>7. /\ disk'[top].kind = "fs" /\ disk'[top].kids = kids
      /\ \A b \in taken \ {top} : disk'[b].kind = "fsbelow"
      /\ \A b \in Blocks \ taken : disk'[b] = disk[b]
  BY <1>1, <1>2, <1>3, <1>4, NodesMade
<1>8. /\ rootLogAddr \in Blocks \ taken /\ extentTreeRoot \in Blocks \ taken
      /\ disk[extentTreeRoot].kids \subseteq Blocks \ taken
      /\ old.kids \subseteq Blocks \ taken
      /\ fsTreeRoot \notin taken
  BY <1>2, InUse DEF Apart, TypeOK
<1>9. extentTreeRoot' = extentTreeRoot /\ UNCHANGED disk[extentTreeRoot]
      /\ disk'[rootLogAddr] = disk[rootLogAddr]
  BY <1>1, <1>7, <1>8 DEF extentTreeRoot
<1>10. \A b \in kids : disk'[b].kind = "fsbelow"
  BY <1>7, <1>8 DEF kids, Apart
<1>11. /\ top \notin free' /\ kids \cap free' = {}
       /\ rootLogAddr \notin free' /\ extentTreeRoot \notin free'
       /\ disk[extentTreeRoot].kids \cap free' = {}
  BY <1>1, <1>2, <1>3, <1>8 DEF kids, Apart
<1> QED
  BY <1>1, <1>6, <1>7, <1>8, <1>9, <1>10, <1>11 DEF Apart

\* CowFails: only blocks that were free are written.
LEMMA CowFailsSafe ==
  ASSUME TypeOK, Apart, Linked, CowFails
  PROVE  IInv'
<1>1. PICK n \in 0 .. MaxKids + 1, k \in 0 .. MaxKids + 1 :
        /\ disk' = [b \in Blocks |-> IF b \in Lowest(Lowest(free, n), k) THEN Below("fsbelow")
                                     ELSE disk[b]]
        /\ free' = free \ Lowest(free, n)
        /\ faults' \in {faults, faults + 1} /\ faults' <= MaxFaults
        /\ pc' = "idle" /\ result' = "error"
        /\ UNCHANGED <<super, rootLogAddr, fsTreeRoot>>
  BY DEF CowFails, Return
<1> DEFINE done == Lowest(Lowest(free, n), k)
<1>2. done \subseteq free /\ free' \subseteq free
  BY <1>1 DEF Lowest
<1> HIDE DEF done
<1>3. Below("fsbelow") \in Nodes
  BY NodesMade
<1>4. disk' \in [Blocks -> Nodes] /\ \A b \in Blocks \ free : disk'[b] = disk[b]
  BY <1>1, <1>2, <1>3 DEF TypeOK, done
<1>5. TypeOK'
  <2>1. faults' \in 0 .. MaxFaults
    BY <1>1, CommitAssumption DEF TypeOK
  <2>2. free' \subseteq Blocks /\ disk' \in [Blocks -> Nodes]
    BY <1>2, <1>4, Zenon DEF TypeOK
  <2> QED
    BY <1>1, <2>1, <2>2, Zenon DEF TypeOK
<1>6. /\ rootLogAddr \in Blocks \ free /\ extentTreeRoot \in Blocks \ free
      /\ fsTreeRoot \in Blocks \ free
      /\ disk[extentTreeRoot].kids \subseteq Blocks \ free
      /\ disk[fsTreeRoot].kids \subseteq Blocks \ free
  BY InUse DEF Apart, TypeOK
<1>7. extentTreeRoot' = extentTreeRoot /\ disk'[extentTreeRoot] = disk[extentTreeRoot]
      /\ disk'[fsTreeRoot] = disk[fsTreeRoot] /\ disk'[rootLogAddr] = disk[rootLogAddr]
  BY <1>1, <1>4, <1>6 DEF extentTreeRoot
<1>8. Apart'
  BY <1>1, <1>2, <1>4, <1>6, <1>7 DEF Apart
<1>9. Linked'
  BY <1>1 DEF Linked
<1> QED
  BY <1>5, <1>8, <1>9 DEF IInv

\* updateRootItem: the ROOT_TREE is copied.
LEMMA UpdateRootItemSafe ==
  ASSUME TypeOK, Apart, updateRootItem
  PROVE  TypeOK' /\ Apart' /\ Linked'
<1> DEFINE b == Min(free)
           x == disk[rootLogAddr]
<1>1. /\ free # {} /\ disk' = [disk EXCEPT ![b] = [x EXCEPT !.fs = fsTreeRoot]]
      /\ rootLogAddr' = b /\ free' = (free \ {b}) \cup {rootLogAddr} /\ pc' = "rooted"
      /\ UNCHANGED <<super, fsTreeRoot, result, faults>>
  BY DEF updateRootItem
<1>2. b \in free
  <2>1. free \in SUBSET Nat
    BY CommitAssumption DEF TypeOK
  <2> QED
    BY <1>1, <2>1, MinIsLeast
<1> HIDE DEF b
<1>3. disk' = [disk EXCEPT ![b] = Root(fsTreeRoot, x.ext)]
  BY <1>1, RootEdits, Zenon DEF TypeOK, Apart
<1>4. /\ Root(fsTreeRoot, x.ext) \in Nodes /\ Root(fsTreeRoot, x.ext).kind = "root"
      /\ Root(fsTreeRoot, x.ext).fs = fsTreeRoot /\ Root(fsTreeRoot, x.ext).ext = x.ext
  BY InUse, NodesMade DEF TypeOK, extentTreeRoot
<1>5. TypeOK'
  BY <1>1, <1>2, <1>3, <1>4 DEF TypeOK
<1>6. /\ disk'[b].kind = "root" /\ disk'[b].fs = fsTreeRoot /\ disk'[b].ext = x.ext
      /\ \A c \in Blocks \ {b} : disk'[c] = disk[c]
  BY <1>2, <1>3, <1>4 DEF TypeOK
<1>7. /\ fsTreeRoot \in Blocks \ {b} /\ extentTreeRoot \in Blocks \ {b}
      /\ disk[fsTreeRoot].kids \subseteq Blocks \ {b}
      /\ disk[extentTreeRoot].kids \subseteq Blocks \ {b}
  BY <1>2, InUse DEF Apart, TypeOK
<1>8. extentTreeRoot' = extentTreeRoot
  BY <1>1, <1>6 DEF extentTreeRoot
<1>9. Apart'
  BY <1>1, <1>2, <1>6, <1>7, <1>8 DEF Apart
<1>10. Linked'
  BY <1>1, <1>6 DEF Linked
<1> QED
  BY <1>5, <1>9, <1>10

\* rebuildInPlace: the root of the EXTENT_TREE is written over.
LEMMA RebuildInPlaceSafe ==
  ASSUME TypeOK, Apart, Linked, rebuildInPlace
  PROVE  TypeOK' /\ Apart' /\ Linked'
<1> DEFINE e == extentTreeRoot
<1>1. /\ pc = "rooted" /\ disk' = [disk EXCEPT ![e] = Ext(collected, {})] /\ pc' = "rebuilt"
      /\ UNCHANGED <<super, rootLogAddr, fsTreeRoot, free, result, faults>>
  BY DEF rebuildInPlace
<1>2. /\ Ext(collected, {}) \in Nodes /\ Ext(collected, {}).kind = "ext"
      /\ Ext(collected, {}).kids = {} /\ Ext(collected, {}).recs = collected
  BY InUse, NodesMade
<1>3. TypeOK'
  BY <1>1, <1>2, InUse DEF TypeOK
<1>4. /\ disk'[e].kind = "ext" /\ disk'[e].kids = {} /\ disk'[e].recs = collected
      /\ \A c \in Blocks \ {e} : disk'[c] = disk[c]
  BY <1>1, <1>2, InUse DEF TypeOK
<1>5. /\ fsTreeRoot \in Blocks \ {e} /\ rootLogAddr \in Blocks \ {e}
      /\ disk[fsTreeRoot].kids \subseteq Blocks \ {e}
  BY InUse DEF Apart, TypeOK
<1>6. extentTreeRoot' = e /\ disk'[rootLogAddr] = disk[rootLogAddr]
  BY <1>1, <1>4, <1>5 DEF extentTreeRoot
<1>7. Apart'
  BY <1>1, <1>4, <1>5, <1>6 DEF Apart
<1>8. disk[rootLogAddr].fs = fsTreeRoot
  BY <1>1 DEF Linked
<1>9. collected' \subseteq collected
  <2>1. /\ collected' = {rootLogAddr} \cup walkNodeAddrs(disk', fsTreeRoot) \cup oldExtent'
        /\ oldExtent' = {e}
    <3> HIDE DEF e
    <3>1. oldExtent' = {e}
      BY <1>4, <1>6 DEF oldExtent, walkNodeAddrs
    <3>2. disk'[rootLogAddr].kind = "root" /\ disk'[rootLogAddr].fs = fsTreeRoot
      BY <1>6, <1>8 DEF Apart
    <3>3. collected' = {rootLogAddr} \cup walkNodeAddrs(disk', fsTreeRoot) \cup oldExtent'
      BY <1>1, <3>2 DEF collected, LiveBlocks, oldExtent, extentTreeRoot
    <3> QED
      BY <3>1, <3>3
  <2>2. walkNodeAddrs(disk', fsTreeRoot) = walkNodeAddrs(disk, fsTreeRoot)
    BY <1>4, <1>5 DEF walkNodeAddrs
  <2>3. /\ collected = {rootLogAddr} \cup walkNodeAddrs(disk, fsTreeRoot) \cup oldExtent
        /\ e \in oldExtent
    BY <1>8, InUse
  <2> QED
    BY <2>1, <2>2, <2>3
<1>10. Linked'
  BY <1>1, <1>4, <1>6, <1>8, <1>9 DEF Linked
<1> QED
  BY <1>3, <1>7, <1>10

\* buildMultiLevelExtentTree: the EXTENT_TREE is written anew.
LEMMA MultiLevelSafe ==
  ASSUME TypeOK, Apart, Linked, buildMultiLevelExtentTree
  PROVE  TypeOK' /\ Apart' /\ Linked'
<1> DEFINE n == blockCount
           new == Lowest(reusable, n)
           top == Max(new)
           r == rootLogAddr
           f == fsTreeRoot
<1>1. /\ pc = "rooted" /\ pc' = "rebuilt" /\ Cardinality(reusable) >= n
      /\ disk' = AfterWrites(n + 1) /\ free' = reusable \ new
      /\ UNCHANGED <<super, rootLogAddr, fsTreeRoot, result, faults>>
  BY DEF buildMultiLevelExtentTree
<1>2. n \in Nat /\ n # 0
  <2>1. IsFiniteSet(Blocks) /\ baseRecs \in SUBSET Blocks
    BY InUse, CommitAssumption DEF baseRecs
  <2>2. Cardinality(baseRecs) <= Cardinality(Blocks) /\ Cardinality(baseRecs) \in Nat
    BY <2>1, FS_Subset, FS_CardinalityType
  <2> QED
    BY <2>2, LayoutPositive DEF blockCount
<1>3. reusable \subseteq Blocks /\ reusable # {}
  <2>1. reusable \subseteq Blocks
    BY InUse DEF reusable, TypeOK
  <2>2. reusable # {}
    BY <1>1, <1>2, FS_EmptySet
  <2> QED
    BY <2>1, <2>2
<1>4. new \subseteq reusable /\ new # {} /\ Lowest(new, n + 1) = new
  BY <1>2, <1>3, LowestTakes, LowestOfLowest
<1>5. top \in new
  <2> HIDE DEF new
  <2> QED
    BY <1>3, <1>4, TopOf
<1>6. /\ r \in Blocks \ new /\ f \in Blocks \ new /\ disk[f].kids \subseteq Blocks \ new
      /\ r \notin reusable /\ f \notin reusable /\ disk[f].kids \cap reusable = {}
  BY <1>4, InUse, Zenon DEF Apart, TypeOK, reusable
<1>7. disk' = [b \in Blocks |->
                 CASE b = top -> Ext(baseRecs \cup new, new \ {top})
                   [] b # top /\ b \in new -> Below("extbelow")
                   [] b = r -> [disk[b] EXCEPT !.ext = top]
                   [] OTHER -> disk[b]]
  <2>1. n + 1 >= n /\ n + 1 > n
    BY <1>2
  <2> QED
    BY <1>1, <1>4, <2>1 DEF AfterWrites
<1> HIDE DEF n, new, top
<1>8. baseRecs \cup new \subseteq Blocks /\ new \ {top} \subseteq Blocks /\ top \in Blocks
  BY <1>3, <1>4, <1>5, InUse DEF baseRecs
<1> DEFINE x == Ext(baseRecs \cup new, new \ {top})
<1>9. /\ x \in Nodes /\ x.kind = "ext" /\ x.recs = baseRecs \cup new /\ x.kids = new \ {top}
      /\ Below("extbelow") \in Nodes /\ Below("extbelow").kind = "extbelow"
  BY <1>8, NodesMade
<1>10. [disk[r] EXCEPT !.ext = top] = Root(disk[r].fs, top)
  BY <1>8, RootEdits, Zenon DEF TypeOK, Apart
<1>11. /\ Root(disk[r].fs, top) \in Nodes /\ Root(disk[r].fs, top).kind = "root"
       /\ Root(disk[r].fs, top).fs = disk[r].fs /\ Root(disk[r].fs, top).ext = top
  BY <1>8, InUse, NodesMade
<1> HIDE DEF x
<1>12. /\ disk'[top] = x
       /\ \A b \in new \ {top} : disk'[b] = Below("extbelow")
       /\ disk'[r] = Root(disk[r].fs, top)
       /\ \A b \in Blocks \ (new \cup {r}) : disk'[b] = disk[b]
  BY <1>5, <1>6, <1>7, <1>8, <1>10 DEF x
<1>13. TypeOK'
  <2>1. DOMAIN disk' = Blocks /\ disk' = [b \in Blocks |-> disk'[b]]
    BY <1>7
  <2>2. \A b \in Blocks : disk'[b] \in Nodes
    BY <1>9, <1>11, <1>12 DEF TypeOK
  <2>3. disk' \in [Blocks -> Nodes]
    BY <2>1, <2>2
  <2> QED
    BY <1>1, <1>3, <2>3 DEF TypeOK
<1>14. extentTreeRoot' = top /\ disk'[f] = disk[f]
       /\ \A b \in disk[f].kids : disk'[b] = disk[b]
  <2>1. r \notin disk[f].kids /\ r # f
    BY DEF Apart
  <2> QED
    BY <1>1, <1>6, <1>11, <1>12, <2>1 DEF extentTreeRoot
<1>15. Apart'
  BY <1>1, <1>4, <1>5, <1>6, <1>9, <1>11, <1>12, <1>14 DEF Apart
<1>16. disk[r].fs = f /\ disk'[r].fs = f
  BY <1>1, <1>11, <1>12 DEF Linked
<1>17. collected' \subseteq disk'[top].recs
  <2>1. /\ collected' = {r} \cup walkNodeAddrs(disk', f) \cup oldExtent'
        /\ oldExtent' = {top} \cup (new \ {top})
    <3>1. rootLogAddr' = r /\ disk'[r].kind = "root" /\ disk'[r].ext = top
      BY <1>1, <1>11, <1>12
    <3>2. collected' = {r} \cup (walkNodeAddrs(disk', f) \cup walkNodeAddrs(disk', top))
      BY <1>16, <3>1 DEF collected, LiveBlocks
    <3>3. walkNodeAddrs(disk', top) = {top} \cup (new \ {top})
      BY <1>9, <1>12 DEF walkNodeAddrs
    <3>4. oldExtent' = walkNodeAddrs(disk', top)
      BY <1>14 DEF oldExtent
    <3> QED
      BY <3>2, <3>3, <3>4
  <2>2. walkNodeAddrs(disk', f) = walkNodeAddrs(disk, f)
    BY <1>14 DEF walkNodeAddrs
  <2>3. /\ collected = {r} \cup walkNodeAddrs(disk, f) \cup oldExtent
        /\ walkNodeAddrs(disk, f) = {f} \cup disk[f].kids
    BY <1>16, InUse DEF walkNodeAddrs, Apart
  <2>4. {r} \cup walkNodeAddrs(disk, f) \subseteq baseRecs
    BY <1>6, <2>3 DEF baseRecs, reusable
  <2> QED
    BY <1>5, <1>9, <1>12, <2>1, <2>2, <2>4
<1>18. Linked'
  BY <1>1, <1>14, <1>16, <1>17 DEF Linked
<1> QED
  BY <1>13, <1>15, <1>18

----------------------------------------------------------------------------
LEMMA StepIInv == IInv /\ [FsFaultNext]_vars => IInv'
<1> SUFFICES ASSUME TypeOK, Apart, Linked, [FsFaultNext]_vars PROVE IInv'
  BY DEF IInv
<1> USE DEF IInv
<1>1. CASE FsChange
  <2>1. PICK grow \in BOOLEAN, drop \in SUBSET disk[fsTreeRoot].kids : CowStep(grow, drop)
    BY <1>1 DEF FsChange
  <2>2. TypeOK' /\ Apart'
    BY <2>1, CowStepSafe
  <2>3. pc' = "mutating"
    BY <2>1 DEF CowStep
  <2> QED
    BY <2>2, <2>3 DEF Linked
<1>2. CASE CowFails
  BY <1>2, CowFailsSafe
<1>3. CASE Refuse
  <2>1. /\ UNCHANGED <<disk, super, rootLogAddr, fsTreeRoot, free, faults>>
        /\ pc' = "idle" /\ result' = "error"
    BY <1>3 DEF Refuse, Return
  <2> QED
    BY <2>1, Undisturbed DEF TypeOK, Linked
<1>4. CASE updateRootItem
  BY <1>4, UpdateRootItemSafe
<1>5. CASE rebuildInPlace
  BY <1>5, RebuildInPlaceSafe
<1>6. CASE buildMultiLevelExtentTree
  BY <1>6, MultiLevelSafe
<1>7. CASE noRoomForExtents
  <2>1. /\ free' = {} /\ UNCHANGED <<disk, super, rootLogAddr, fsTreeRoot, faults>>
        /\ pc' = "idle" /\ result' = "rebuild"
    BY <1>7 DEF noRoomForExtents, Return
  <2> QED
    BY <2>1, Undisturbed DEF TypeOK, Linked
<1>8. CASE writeSuperblock
  <2>1. /\ pc = "rebuilt" /\ super' = rootLogAddr /\ pc' = "idle" /\ result' = "ok"
        /\ UNCHANGED <<disk, rootLogAddr, fsTreeRoot, free, faults>>
    BY <1>8 DEF writeSuperblock, Return
  <2>2. UNCHANGED <<collected, extentTreeRoot>>
    BY <2>1 DEF collected, LiveBlocks, walkNodeAddrs, extentTreeRoot
  <2> QED
    BY <2>1, <2>2, Undisturbed DEF TypeOK, Linked
<1>9. CASE writeSuperblockFails
  <2>1. /\ UNCHANGED <<disk, super, rootLogAddr, fsTreeRoot, free>>
        /\ pc' = "idle" /\ result' = "error" /\ faults' \in 0 .. MaxFaults
    BY <1>9, CommitAssumption DEF writeSuperblockFails, Return, TypeOK
  <2> QED
    BY <2>1, Undisturbed DEF TypeOK, Linked
<1>10. CASE result = "ok" /\ OpenFromDevices
  <2>1. /\ pc = "idle" /\ super = rootLogAddr /\ disk[rootLogAddr].fs = fsTreeRoot
        /\ UNCHANGED <<disk, super, rootLogAddr, fsTreeRoot, pc, result, faults>>
        /\ free' = Blocks \ collected
    BY <1>10 DEF OpenFromDevices, Linked, collected
  <2>2. UNCHANGED <<collected, extentTreeRoot>>
    BY <2>1, Zenon DEF collected, LiveBlocks, walkNodeAddrs, extentTreeRoot
  <2>3. /\ rootLogAddr \in collected /\ fsTreeRoot \in collected /\ extentTreeRoot \in collected
        /\ disk[fsTreeRoot].kids \subseteq collected
        /\ disk[extentTreeRoot].kids \subseteq collected
    BY <2>1, InUse DEF walkNodeAddrs, Apart
  <2>4. Apart'
    BY <2>1, <2>2, <2>3 DEF Apart
  <2> QED
    BY <2>1, <2>2, <2>4 DEF TypeOK, Linked
<1>11. CASE UNCHANGED vars
  <2>1. UNCHANGED <<collected, extentTreeRoot>>
    BY <1>11 DEF vars, collected, LiveBlocks, walkNodeAddrs, extentTreeRoot
  <2> QED
    BY <1>11, <2>1 DEF vars, TypeOK, Apart, Linked
<1> QED
  BY <1>1, <1>2, <1>3, <1>4, <1>5, <1>6, <1>7, <1>8, <1>9, <1>10, <1>11 DEF FsFaultNext

LEMMA Invariance == FsFaultSpec => []IInv
BY InitIInv, StepIInv, PTL DEF FsFaultSpec

\* For any number of blocks and any size of a leaf: while only the writes to the
\* FS tree and to the superblock fail, first fit, the copies of updateRootItem
\* and the rebuild of the EXTENT_TREE never hand out or overwrite a block of a
\* tree that is in use.
THEOREM TreesStayApart == FsFaultSpec => []TreesAreApart
<1>1. IInv => TreesAreApart
  <2> SUFFICES ASSUME TypeOK, Apart PROVE TreesAreApart
    BY DEF IInv
  <2>1. /\ walkNodeAddrs(disk, fsTreeRoot) = {fsTreeRoot} \cup disk[fsTreeRoot].kids
        /\ walkNodeAddrs(disk, extentTreeRoot) = {extentTreeRoot} \cup disk[extentTreeRoot].kids
    BY DEF walkNodeAddrs, Apart
  <2> QED
    BY <2>1 DEF TreesAreApart, Apart
<1> QED
  BY <1>1, Invariance, PTL

\* updateFsTreeRoot reports success when the superblock leads, over the ROOT_ITEM,
\* to the FS tree that the operation made: nothing between the two takes its
\* blocks away.
THEOREM SuccessStaysDurable == FsFaultSpec => []SuccessIsDurable
<1>1. IInv => SuccessIsDurable
  BY DEF IInv, Apart, Linked, SuccessIsDurable, Mountable
<1> QED
  BY <1>1, Invariance, PTL

\* rebuildExtentTree writes a record of every block that a mount can reach, those
\* of the new EXTENT_TREE included, whether it fits into one leaf or not.
THEOREM ExtentTreeStaysComplete == FsFaultSpec => []ExtentTreeCovers
<1>1. IInv => ExtentTreeCovers
  BY DEF IInv, Linked, ExtentTreeCovers, collected, extentTreeRoot
<1> QED
  BY <1>1, Invariance, PTL
=============================================================================
