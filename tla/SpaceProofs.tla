----------------------------- MODULE SpaceProofs -----------------------------
(***************************************************************************)
(* The space of a file system: the promise of the free list holds for      *)
(* every set of usable units, and the sizes that Grow and Shrink write, one*)
(* record after the other, agree for every image and every size.           *)
(***************************************************************************)
EXTENDS Resize, TLAPS

----------------------------------------------------------------------------
(* The promise of the free list. *)

CONSTANTS Usable, Extents      \* the units, and the ranges that may be handed out
VARIABLES unused, live, leaked \* the free units, and the extents in use and lost

Space == INSTANCE FreeSpace WITH free <- unused

\* The state of the space manager is well typed in every behaviour: only
\* usable units are ever on the free list, only extents are ever handed out.
THEOREM TypeCorrect == Space!Spec => []Space!TypeOK
<1>1. Space!Init => Space!TypeOK
  BY DEF Space!Init, Space!TypeOK, Space!Ranges
<1>2. Space!TypeOK /\ [Space!Next]_(Space!vars) => Space!TypeOK'
  <2> SUFFICES ASSUME Space!TypeOK, [Space!Next]_(Space!vars) PROVE Space!TypeOK'
    OBVIOUS
  <2> USE DEF Space!TypeOK, Space!Ranges
  <2>1. ASSUME NEW e \in Extents, Space!Take(e) PROVE Space!TypeOK'
    BY <2>1 DEF Space!Take
  <2>2. ASSUME NEW e \in Extents, Space!Return(e) PROVE Space!TypeOK'
    BY <2>2 DEF Space!Return
  <2>3. ASSUME NEW e \in Extents, Space!Lose(e) PROVE Space!TypeOK'
    BY <2>3 DEF Space!Lose
  <2>4. CASE Space!Recover
    BY <2>4 DEF Space!Recover
  <2>5. CASE UNCHANGED Space!vars
    BY <2>5 DEF Space!vars
  <2> QED
    BY <2>1, <2>2, <2>3, <2>4, <2>5 DEF Space!Next
<1> QED
  BY <1>1, <1>2, PTL DEF Space!Spec

\* No block has two owners, nothing in use is on the free list, and no block
\* is forgotten: allocNodeBlock, allocDataBytes, freeRange, a failed write
\* and a mount, in any order and any number, keep the usable space divided
\* into free, live and leaked parts.
THEOREM SpaceIsPartitioned == Space!Spec => []Space!Inv
<1>1. Space!Init => Space!Inv
  BY DEF Space!Init, Space!Ranges, Space!Inv, Space!SingleOwner,
    Space!FreeIsUnused, Space!LeakedIsUnreferenced, Space!Conserved
<1>2. Space!TypeOK /\ Space!Inv /\ [Space!Next]_(Space!vars) => Space!Inv'
  <2> SUFFICES ASSUME Space!TypeOK, Space!Inv, [Space!Next]_(Space!vars) PROVE Space!Inv'
    OBVIOUS
  <2> USE DEF Space!TypeOK, Space!Ranges, Space!Inv, Space!SingleOwner,
    Space!FreeIsUnused, Space!LeakedIsUnreferenced, Space!Conserved
  <2>1. ASSUME NEW e \in Extents, Space!Take(e) PROVE Space!Inv'
    <3>1. e # {} /\ e \notin live \cup leaked
      BY <2>1 DEF Space!Take
    <3>2. \A x \in live \cup leaked : x \cap e = {}
      BY <2>1 DEF Space!Take
    <3> QED
      BY <2>1, <3>1, <3>2 DEF Space!Take
  <2>2. ASSUME NEW e \in Extents, Space!Return(e) PROVE Space!Inv'
    BY <2>2 DEF Space!Return
  <2>3. ASSUME NEW e \in Extents, Space!Lose(e) PROVE Space!Inv'
    BY <2>3 DEF Space!Lose
  <2>4. CASE Space!Recover
    BY <2>4 DEF Space!Recover
  <2>5. CASE UNCHANGED Space!vars
    BY <2>5 DEF Space!vars
  <2> QED
    BY <2>1, <2>2, <2>3, <2>4, <2>5 DEF Space!Next
<1> QED
  BY <1>1, <1>2, TypeCorrect, PTL DEF Space!Spec

----------------------------------------------------------------------------
(* The records of the sizes. *)

ChunkSet == [start : Nat, size : Nat]
ChunksOf(size) == {[start |-> s, size |-> size[s]] : s \in {t \in DOMAIN size : size[t] # 0}}

Stages == {"none", "extend", "move", "meta", "check", "commit", "item", "sys", "devext",
           "group", "super", "devitem", "truncate"}
OpType(S) ==
  [kind : {"none", "grow", "shrink", "remove"}, stage : Stages, size : Nat, from : Nat,
   to : Nat, chunk : ChunkSet, todo : SUBSET S, moved : BOOLEAN]

\* The sizes are numbers, and a call that is on its way is not cut short.
SizesTyped ==
  /\ dev \in Nat /\ total \in Nat /\ devItem \in Nat
  /\ \E R : sb \in [total : Nat, root : R]
  /\ \E S : op \in OpType(S)
  /\ DOMAIN item \subseteq Nat /\ item \in [DOMAIN item -> Nat]
  /\ sys \in [DOMAIN item -> Nat] /\ devExt \in [DOMAIN item -> Nat]
  /\ op.stage = "none" => op = Idle
  /\ op.stage # "none" => op.kind # "none" /\ cut = "no"

\* Between the calls all records have the size of the device.
Settled ==
  /\ sb.total = dev /\ devItem = dev /\ total = dev
  /\ devExt = item /\ chunks = ChunksOf(item)
  /\ \A s \in DOMAIN item : sys[s] \in {0, item[s]}
  /\ Spaced(item, dev)

\* What a call that is on its way replaces, and by what.
Old == [item EXCEPT ![Start] = op.chunk.size]
New == [item EXCEPT ![Start] = NewSize]
OldEnd == Start + op.chunk.size

\* The last chunk gets another size, or none.
Planned(old, new) ==
  /\ DOMAIN old \subseteq Nat /\ old \in [DOMAIN old -> Nat]
  /\ Start \in DOMAIN old /\ old[Start] = op.chunk.size /\ op.chunk.size # 0
  /\ NewSize \in Nat /\ new = [old EXCEPT ![Start] = NewSize]
  /\ NewSize = 0 <=> op.kind = "remove"
  /\ Spaced(old, OldEnd) /\ Spaced(new, op.size)
  /\ IF op.kind = "grow" THEN OldEnd < op.size ELSE op.size < OldEnd

\* The records that the steps before this one have written.
MovingStage == op.stage \in {"move", "meta", "check", "commit"}
ItemDone == ~MovingStage /\ op.stage \notin {"extend", "item"}
ExtDone == ItemDone /\ op.stage # "devext" /\ (op.kind # "remove" => op.stage # "sys")
SysDone == ItemDone /\ op.stage # "sys" /\ (op.kind = "remove" => op.stage \notin {"devext", "group"})
MapDone == IF op.kind = "remove" THEN SysDone ELSE ExtDone

Progress(old, new) ==
  /\ op.kind = "grow" => ~MovingStage /\ op.stage \notin {"group", "truncate"}
  /\ op.kind # "grow" => op.stage # "extend"
  /\ item = (IF ItemDone THEN new ELSE old)
  /\ devExt = (IF ExtDone THEN new ELSE old)
  /\ \A s \in DOMAIN old : sys[s] \in {0, (IF SysDone THEN new ELSE old)[s]}
  /\ chunks = ChunksOf(IF MapDone THEN new ELSE old)
  /\ sb.total = (IF op.stage \in {"devitem", "truncate"} THEN op.size ELSE OldEnd)
  /\ devItem = (IF op.stage = "truncate" THEN op.size ELSE OldEnd) /\ total = devItem
  /\ dev = (IF op.kind = "grow" /\ op.stage # "extend" THEN op.size ELSE OldEnd)

Working == Planned(Old, New) /\ Progress(Old, New)

\* Nothing is said to lie behind the end of the device.
Bounded ==
  /\ sb.total <= dev
  /\ \A s \in DOMAIN item : /\ item[s] # 0 => s + item[s] <= dev
                            /\ sys[s] # 0 => s + sys[s] <= dev
  /\ \A c \in chunks : EndOf(c) <= dev

SizesHold == IF op.stage # "none" THEN Working ELSE IF cut = "no" THEN Settled ELSE Bounded

\* The inductive invariant: it says nothing once a record could not be written.
IInv == faults \in Nat /\ (faults = 0 => SizesTyped /\ SizesHold)

\* The fields of the call.
LEMMA OpFields ==
  ASSUME SizesTyped
  PROVE  /\ op.kind \in {"none", "grow", "shrink", "remove"} /\ op.stage \in Stages
         /\ op.size \in Nat /\ op.from \in Nat /\ op.to \in Nat /\ op.moved \in BOOLEAN
         /\ op.chunk \in ChunkSet /\ op.chunk.start \in Nat /\ op.chunk.size \in Nat
<1>1. PICK S : op \in OpType(S)
  BY DEF SizesTyped
<1> QED
  BY <1>1 DEF OpType, ChunkSet

\* What a call is about does not change from step to step.
LEMMA StageMoves ==
  ASSUME SizesTyped, NEW x \in Stages \ {"none"}, op' = [op EXCEPT !.stage = x]
  PROVE  /\ op'.stage = x /\ op'.kind = op.kind /\ op'.size = op.size /\ op'.from = op.from
         /\ op'.to = op.to /\ op'.chunk = op.chunk
         /\ Start' = Start /\ NewSize' = NewSize /\ OldEnd' = OldEnd
         /\ \E S : op' \in OpType(S)
<1>1. PICK S : op \in OpType(S)
  BY DEF SizesTyped
<1>2. op' \in OpType(S) /\ op'.stage = x /\ op'.kind = op.kind /\ op'.size = op.size
  BY <1>1 DEF OpType
<1>3. op'.from = op.from /\ op'.to = op.to /\ op'.chunk = op.chunk
  BY <1>1 DEF OpType
<1>4. Start' = Start /\ NewSize' = NewSize /\ OldEnd' = OldEnd
  BY <1>2, <1>3 DEF Start, NewSize, OldEnd
<1> QED
  BY <1>2, <1>3, <1>4

\* Nor does the plan.
LEMMA PlannedStays ==
  ASSUME op'.kind = op.kind, op'.size = op.size, op'.chunk = op.chunk, Start' = Start,
         NewSize' = NewSize, OldEnd' = OldEnd, NEW old, NEW new, Planned(old, new)
  PROVE  Planned(old, new)'
  BY DEF Planned

\* The first write of the chunk's size leaves the plan what it was.
LEMMA OldNewStay ==
  ASSUME Planned(Old, New), item \in [DOMAIN item -> Nat],
         item' = item \/ item' = [item EXCEPT ![Start] = NewSize],
         op'.chunk = op.chunk, Start' = Start, NewSize' = NewSize
  PROVE  Old' = Old /\ New' = New /\ DOMAIN item' = DOMAIN item
<1>1. Start \in DOMAIN item /\ op.chunk.size \in Nat /\ NewSize \in Nat
  BY DEF Planned, Old
<1>2. DOMAIN item' = DOMAIN item /\ \A s \in DOMAIN item : s # Start => item'[s] = item[s]
  BY <1>1
<1>3. Old' = [s \in DOMAIN item |-> IF s = Start THEN op.chunk.size ELSE item[s]]
  BY <1>2, Zenon DEF Old
<1>4. New' = [s \in DOMAIN item |-> IF s = Start THEN NewSize ELSE item[s]]
  BY <1>2, Zenon DEF New
<1>5. Old = [s \in DOMAIN item |-> IF s = Start THEN op.chunk.size ELSE item[s]]
  BY DEF Old
<1>6. New = [s \in DOMAIN item |-> IF s = Start THEN NewSize ELSE item[s]]
  BY DEF New
<1> QED
  BY <1>2, <1>3, <1>4, <1>5, <1>6

ChunkAt(s, n) == [start |-> s, size |-> n]
Resized(size, s, n) == [size EXCEPT ![s] = n]

\* The chunks when one of them gets another size, or none.
LEMMA ChunksReplaced ==
  ASSUME NEW old, old \in [DOMAIN old -> Nat], NEW s \in DOMAIN old, old[s] # 0, NEW n \in Nat
  PROVE  ChunksOf(Resized(old, s, n)) =
           (ChunksOf(old) \ {ChunkAt(s, old[s])}) \cup (IF n = 0 THEN {} ELSE {ChunkAt(s, n)})
<1> DEFINE c == ChunkAt(s, old[s])
           new == Resized(old, s, n)
           rest == {[start |-> t, size |-> old[t]] : t \in {u \in DOMAIN old \ {s} : old[u] # 0}}
<1>1. DOMAIN new = DOMAIN old /\ new[s] = n /\ \A t \in DOMAIN old \ {s} : new[t] = old[t]
  BY DEF Resized
<1>2. \A t \in DOMAIN old \ {s} : [start |-> t, size |-> old[t]] # c
  BY DEF ChunkAt
<1>3. c \notin rest
  BY <1>2
<1>4. ChunksOf(old) = rest \cup {c}
  BY DEF ChunksOf, ChunkAt
<1> HIDE DEF new
<1>5. n # 0 => ChunksOf(new) = rest \cup {ChunkAt(s, n)}
  BY <1>1 DEF ChunksOf, ChunkAt
<1>6. n = 0 => ChunksOf(new) = rest
  BY <1>1 DEF ChunksOf
<1> HIDE DEF rest, c
<1>7. ChunksOf(old) \ {c} = rest
  BY <1>3, <1>4
<1> QED
  BY <1>5, <1>6, <1>7 DEF new, c

\* A chunk is one of the map.
LEMMA ChunkOf ==
  ASSUME NEW size, size \in [DOMAIN size -> Nat], DOMAIN size \subseteq Nat, NEW c \in ChunksOf(size)
  PROVE  /\ c.start \in DOMAIN size /\ c.size = size[c.start] /\ c.size # 0 /\ c.size \in Nat
         /\ c.start \in Nat /\ c \in ChunkSet /\ c = [start |-> c.start, size |-> c.size]
<1>1. PICK s \in DOMAIN size : size[s] # 0 /\ c = [start |-> s, size |-> size[s]]
  BY DEF ChunksOf
<1> QED
  BY <1>1 DEF ChunkSet

\* The ends of a map of chunks are those of its sizes.
LEMMA EndsBounded ==
  ASSUME NEW size, size \in [DOMAIN size -> Nat], DOMAIN size \subseteq Nat,
         NEW e \in Nat, NEW d \in Nat, Spaced(size, e), e <= d
  PROVE  /\ \A s \in DOMAIN size : size[s] # 0 => s + size[s] <= d
         /\ \A c \in ChunksOf(size) : EndOf(c) <= d
<1>1. \A s \in DOMAIN size : size[s] # 0 => s + size[s] <= d
  <2> SUFFICES ASSUME NEW s \in DOMAIN size, size[s] # 0 PROVE s + size[s] <= d
    OBVIOUS
  <2>1. s \in Nat /\ size[s] \in Nat /\ s + size[s] <= e
    BY DEF Spaced
  <2> QED
    BY <2>1
<1>2. \A c \in ChunksOf(size) : EndOf(c) <= d
  BY <1>1, ChunkOf DEF EndOf
<1> QED
  BY <1>1, <1>2

\* Between the calls nothing lies behind the end of the device.
LEMMA SettledBounded ==
  ASSUME SizesTyped, Settled
  PROVE  Bounded
<1>1. /\ \A s \in DOMAIN item : item[s] # 0 => s + item[s] <= dev
      /\ \A c \in ChunksOf(item) : EndOf(c) <= dev
  BY EndsBounded DEF SizesTyped, Settled
<1>2. \A s \in DOMAIN item : sys[s] # 0 => s + sys[s] <= dev
  BY <1>1 DEF Settled
<1>3. sb.total <= dev
  BY DEF Settled, SizesTyped
<1> QED
  BY <1>1, <1>2, <1>3 DEF Bounded, Settled

\* Nor during a call: a grown device is longer before any record says so, and a
\* shrunk one is cut after all of them.
LEMMA WorkingBounded ==
  ASSUME SizesTyped, Working
  PROVE  Bounded
<1> DEFINE old == Old
           new == New
<1>1. Planned(old, new) /\ Progress(old, new)
  BY DEF Working
<1>2. DOMAIN old = DOMAIN item /\ DOMAIN new = DOMAIN old
  BY DEF Old, New
<1> HIDE DEF old, new
<1>3. op.size \in Nat /\ OldEnd \in Nat
  BY OpFields DEF OldEnd, Start
<1>4. /\ DOMAIN old \subseteq Nat /\ old \in [DOMAIN old -> Nat] /\ new \in [DOMAIN new -> Nat]
      /\ Spaced(old, OldEnd) /\ Spaced(new, op.size)
  BY <1>1, <1>2 DEF Planned
<1>5. CASE op.kind = "grow" /\ op.stage = "extend"
  <2>1. /\ item = old /\ dev = OldEnd /\ chunks = ChunksOf(old) /\ sb.total = OldEnd
        /\ \A s \in DOMAIN old : sys[s] \in {0, old[s]}
    BY <1>1, <1>5 DEF Progress, ItemDone, ExtDone, SysDone, MapDone
  <2>2. /\ \A s \in DOMAIN old : old[s] # 0 => s + old[s] <= OldEnd
        /\ \A c \in ChunksOf(old) : EndOf(c) <= OldEnd
    BY <1>3, <1>4, EndsBounded
  <2> QED
    BY <1>3, <2>1, <2>2 DEF Bounded
<1>6. CASE ~(op.kind = "grow" /\ op.stage = "extend")
  <2>1. OldEnd <= dev /\ op.size <= dev /\ dev \in Nat
    BY <1>1, <1>3, <1>6 DEF Progress, Planned
  <2>2. /\ \A s \in DOMAIN old : old[s] # 0 => s + old[s] <= dev
        /\ \A c \in ChunksOf(old) : EndOf(c) <= dev
    BY <1>3, <1>4, <2>1, EndsBounded
  <2>3. /\ \A s \in DOMAIN new : new[s] # 0 => s + new[s] <= dev
        /\ \A c \in ChunksOf(new) : EndOf(c) <= dev
    BY <1>2, <1>3, <1>4, <2>1, EndsBounded
  <2>4. /\ item \in {old, new} /\ chunks \in {ChunksOf(old), ChunksOf(new)}
        /\ sb.total \in {op.size, OldEnd}
        /\ \A s \in DOMAIN old : sys[s] \in {0, old[s], new[s]}
    BY <1>1 DEF Progress
  <2> QED
    BY <1>2, <2>1, <2>2, <2>3, <2>4 DEF Bounded
<1> QED
  BY <1>5, <1>6

----------------------------------------------------------------------------
(* The calls begin. *)

\* The tail chunk is the one that ends where the device does.
LEMMA TailIsLast ==
  ASSUME SizesTyped, Settled
  PROVE  /\ tailChunk \in chunks /\ EndOf(tailChunk) = dev
         /\ tailChunk \in ChunkSet /\ tailChunk.start \in DOMAIN item
         /\ tailChunk.size = item[tailChunk.start] /\ tailChunk.size # 0
<1>1. /\ item \in [DOMAIN item -> Nat] /\ DOMAIN item \subseteq Nat /\ dev \in Nat
      /\ chunks = ChunksOf(item) /\ Spaced(item, dev)
  BY DEF SizesTyped, Settled
<1>2. PICK s \in DOMAIN item : item[s] # 0 /\ s + item[s] = dev
  BY <1>1 DEF Spaced
<1>3. \A x \in chunks : EndOf(x) <= dev
  BY <1>1, EndsBounded
<1>4. \E c \in chunks : EndOf(c) = dev
  <2>1. [start |-> s, size |-> item[s]] \in chunks
    BY <1>1, <1>2 DEF ChunksOf
  <2>2. EndOf([start |-> s, size |-> item[s]]) = dev
    BY <1>2 DEF EndOf
  <2> QED
    BY <2>1, <2>2
<1>5. PICK c \in chunks : EndOf(c) = dev
  BY <1>4
<1>6. tailChunk \in chunks /\ \A x \in chunks : EndOf(x) <= EndOf(tailChunk)
  BY <1>3, <1>5 DEF tailChunk
<1>7. /\ tailChunk \in ChunkSet /\ tailChunk.start \in DOMAIN item
      /\ tailChunk.size = item[tailChunk.start] /\ tailChunk.size # 0
  BY <1>1, <1>6, ChunkOf
<1>8. EndOf(tailChunk) \in Nat
  BY <1>7 DEF EndOf, ChunkSet
<1> QED
  BY <1>1, <1>3, <1>5, <1>6, <1>7, <1>8

\* The last chunk may get another size without meeting the others; without it the
\* device ends with the one before.
LEMMA LastResized ==
  ASSUME NEW size, size \in [DOMAIN size -> Nat], DOMAIN size \subseteq Nat, NEW e \in Nat,
         Spaced(size, e), NEW s \in DOMAIN size, size[s] # 0, s + size[s] = e,
         NEW n \in Nat, n = 0 => \E t \in DOMAIN size : size[t] # 0 /\ t + size[t] = s
  PROVE  Spaced([size EXCEPT ![s] = n], s + n)
<1> DEFINE new == [size EXCEPT ![s] = n]
<1>1. DOMAIN new = DOMAIN size /\ new[s] = n /\ \A t \in DOMAIN size \ {s} : new[t] = size[t]
  OBVIOUS
<1>2. \A t \in DOMAIN size : t \in Nat /\ size[t] \in Nat
  OBVIOUS
<1> HIDE DEF new
<1>3. ASSUME NEW t \in DOMAIN size \ {s}, size[t] # 0 PROVE t + size[t] <= s
  <2>1. t + size[t] <= s \/ s + size[s] <= t
    BY <1>3 DEF Spaced
  <2>2. t + size[t] <= e
    BY <1>3 DEF Spaced
  <2> QED
    BY <1>2, <1>3, <2>1, <2>2
<1>4. \A t \in DOMAIN new : new[t] # 0 => t + new[t] <= s + n
  <2> SUFFICES ASSUME NEW t \in DOMAIN size, new[t] # 0 PROVE t + new[t] <= s + n
    BY <1>1
  <2>1. CASE t = s
    BY <1>1, <1>2, <2>1
  <2>2. CASE t # s
    <3>1. t + size[t] <= s /\ new[t] = size[t]
      BY <1>1, <1>3, <2>2
    <3> QED
      BY <1>2, <3>1
  <2> QED
    BY <2>1, <2>2
<1>5. \A t, v \in DOMAIN new :
        t # v /\ new[t] # 0 /\ new[v] # 0 => t + new[t] <= v \/ v + new[v] <= t
  <2> SUFFICES ASSUME NEW t \in DOMAIN size, NEW v \in DOMAIN size, t # v, new[t] # 0, new[v] # 0
               PROVE  t + new[t] <= v \/ v + new[v] <= t
    BY <1>1
  <2>1. CASE t = s
    BY <1>1, <1>3, <2>1
  <2>2. CASE v = s
    BY <1>1, <1>3, <2>2
  <2>3. CASE t # s /\ v # s
    BY <1>1, <2>3 DEF Spaced
  <2> QED
    BY <2>1, <2>2, <2>3
<1>6. \E t \in DOMAIN new : new[t] # 0 /\ t + new[t] = s + n
  <2>1. CASE n # 0
    BY <1>1, <2>1
  <2>2. CASE n = 0
    <3>1. PICK t \in DOMAIN size : size[t] # 0 /\ t + size[t] = s
      BY <2>2
    <3>2. t # s
      BY <1>2, <3>1
    <3>3. new[t] # 0 /\ t + new[t] = s + n
      BY <1>1, <1>2, <2>2, <3>1, <3>2
    <3> QED
      BY <1>1, <3>3
  <2> QED
    BY <2>1, <2>2
<1> QED
  BY <1>4, <1>5, <1>6 DEF Spaced, new

OpOf(kind, stage, n, from, to, c, todo, moved) ==
  [kind |-> kind, stage |-> stage, size |-> n, from |-> from, to |-> to, chunk |-> c,
   todo |-> todo, moved |-> moved]

\* The call that each of the three starts with.
GrowPlan(stage, n) == stage = "extend" /\ n > total
ShrinkPlan(stage, n) == stage \in {"move", "item"} /\ n < total /\ n > tailChunk.start
RemovePlan(stage, n) ==
  /\ stage \in {"move", "item"} /\ n < total /\ n = tailChunk.start
  /\ \E c \in chunks \ {tailChunk} : EndOf(c) = n

\* A call that begins plans a size for the last chunk, and has written nothing.
LEMMA CallBegins ==
  ASSUME SizesTyped, Settled, cut = "no",
         UNCHANGED <<dev, devItem, item, sys, devExt, chunks, total, cut, sb>>,
         NEW n \in Nat, NEW stage, NEW todo, NEW moved \in BOOLEAN, NEW kind,
         \/ /\ kind = "grow" /\ GrowPlan(stage, n)
            /\ op' = OpOf(kind, stage, n, total, n, tailChunk, todo, moved)
         \/ /\ \/ kind = "shrink" /\ ShrinkPlan(stage, n)
               \/ kind = "remove" /\ RemovePlan(stage, n)
            /\ op' = OpOf(kind, stage, n, n, total, tailChunk, todo, moved)
  PROVE  /\ Working' /\ op'.stage \in Stages \ {"none"} /\ op'.kind # "none"
         /\ \E S : op' \in OpType(S)
<1> DEFINE s == tailChunk.start
           z == tailChunk.size
<1>1. /\ tailChunk \in chunks /\ s + z = dev /\ tailChunk \in ChunkSet /\ s \in DOMAIN item
      /\ z = item[s] /\ z # 0
  BY TailIsLast DEF EndOf
<1>2. /\ s \in Nat /\ z \in Nat /\ dev \in Nat /\ total = dev /\ sb.total = dev /\ devItem = dev
      /\ item \in [DOMAIN item -> Nat] /\ DOMAIN item \subseteq Nat /\ Spaced(item, dev)
      /\ devExt = item /\ chunks = ChunksOf(item) /\ \A t \in DOMAIN item : sys[t] \in {0, item[t]}
  BY <1>1 DEF SizesTyped, Settled, ChunkSet
<1>3. stage \in Stages \ {"none"} /\ kind \in {"grow", "shrink", "remove"}
  BY DEF GrowPlan, ShrinkPlan, RemovePlan, Stages
<1>4. /\ op'.kind = kind /\ op'.stage = stage /\ op'.size = n /\ op'.chunk = tailChunk
      /\ kind = "grow" => op'.from = total /\ op'.to = n
      /\ kind # "grow" => op'.from = n /\ op'.to = total
  BY DEF OpOf
<1>5. \E S : op' \in OpType(S)
  <2>1. todo \in SUBSET todo
    OBVIOUS
  <2>2. op' \in OpType(todo)
    BY <1>1, <1>2, <1>3, <2>1 DEF OpOf, OpType
  <2> QED
    BY <2>2
<1>6. Start' = s /\ op'.chunk.size = z /\ OldEnd' = dev
  BY <1>1, <1>4 DEF Start, OldEnd
<1> HIDE DEF s, z
<1>7. /\ n - s \in Nat /\ (n - s = 0 <=> kind = "remove") /\ s + (n - s) = n
      /\ IF kind = "grow" THEN dev < n ELSE n < dev
  BY <1>1, <1>2 DEF GrowPlan, ShrinkPlan, RemovePlan, s
<1>8. NewSize' = n - s
  <2>1. CASE kind = "grow"
    <3>1. NewSize' = z + (n - total)
      BY <1>4, <1>6, <2>1 DEF NewSize
    <3> QED
      BY <1>1, <1>2, <3>1
  <2>2. CASE kind = "shrink"
    <3>1. NewSize' = z - (total - n)
      BY <1>4, <1>6, <2>2 DEF NewSize
    <3> QED
      BY <1>1, <1>2, <3>1
  <2>3. CASE kind = "remove"
    <3>1. NewSize' = 0
      BY <1>4, <2>3 DEF NewSize
    <3> QED
      BY <1>7, <2>3, <3>1
  <2> QED
    BY <1>3, <2>1, <2>2, <2>3
<1>9. Old' = item /\ New' = [item EXCEPT ![s] = n - s]
  <2>1. Old' = [item EXCEPT ![s] = z]
    BY <1>6 DEF Old
  <2>2. [item EXCEPT ![s] = z] = item
    BY <1>1, <1>2
  <2> QED
    BY <1>6, <1>8, <2>1, <2>2 DEF New
<1> DEFINE m == n - s
           new == [item EXCEPT ![s] = m]
<1>10. Spaced(new, n)
  <2>1. m = 0 => \E t \in DOMAIN item : item[t] # 0 /\ t + item[t] = s
    <3> SUFFICES ASSUME m = 0 PROVE \E t \in DOMAIN item : item[t] # 0 /\ t + item[t] = s
      OBVIOUS
    <3>1. PICK c \in chunks : EndOf(c) = s
      BY <1>7 DEF RemovePlan, s
    <3>2. c.start \in DOMAIN item /\ c.size = item[c.start] /\ c.size # 0
      BY <1>2, ChunkOf
    <3> QED
      BY <3>1, <3>2 DEF EndOf
  <2>2. m \in Nat /\ s + m = n
    BY <1>7
  <2> HIDE DEF m
  <2>3. Spaced(new, s + m)
    BY <1>1, <1>2, <2>1, <2>2, LastResized
  <2> QED
    BY <2>2, <2>3
<1>a. PICK old, got : old = item /\ got = new
  BY Zenon
<1>11. Planned(old, got)'
  <2>1. /\ DOMAIN old \subseteq Nat /\ old \in [DOMAIN old -> Nat] /\ s \in DOMAIN old
        /\ old[s] = z /\ z # 0 /\ m \in Nat /\ got = [old EXCEPT ![s] = m]
        /\ Spaced(old, dev) /\ Spaced(got, n)
    BY <1>1, <1>2, <1>7, <1>10, <1>a
  <2> HIDE DEF m, new
  <2>2. NewSize' = m /\ (m = 0 <=> kind = "remove")
    BY <1>7, <1>8 DEF m
  <2> QED
    BY <1>4, <1>6, <1>7, <2>1, <2>2 DEF Planned
<1>12. ~ItemDone' /\ ~ExtDone' /\ ~SysDone' /\ ~MapDone'
  BY <1>4 DEF ItemDone, ExtDone, SysDone, MapDone, MovingStage, GrowPlan, ShrinkPlan, RemovePlan
<1>13. /\ (op.kind = "grow" => ~MovingStage /\ op.stage \notin {"group", "truncate"})'
       /\ (op.kind # "grow" => op.stage # "extend")'
  BY <1>4 DEF MovingStage, GrowPlan, ShrinkPlan, RemovePlan
<1>14. /\ op'.stage \notin {"devitem", "truncate"}
       /\ op'.kind = "grow" => op'.stage = "extend"
  BY <1>4 DEF GrowPlan, ShrinkPlan, RemovePlan
<1>15. Progress(old, got)'
  BY <1>2, <1>6, <1>12, <1>13, <1>14, <1>a DEF Progress
<1> QED
  BY <1>3, <1>4, <1>5, <1>9, <1>11, <1>15, <1>a DEF Working

\* A call that is not there is a call.
LEMMA IdleTyped ==
  (\E S : Idle \in OpType(S)) /\ Idle.stage = "none"
<1>1. Idle \in OpType({})
  BY DEF Idle, OpType, Stages, ChunkSet
<1>2. Idle.stage = "none"
  BY DEF Idle
<1> QED
  BY <1>1, <1>2

\* A device with a size, of the layout it is made with, has records that agree.
LEMMA InitIInv ==
  Init => IInv
<1> SUFFICES ASSUME Init PROVE IInv
  OBVIOUS
<1>1. PICK l \in Layouts :
        /\ dev = l.size /\ sb = [total |-> l.size, root |-> l.root] /\ devItem = l.size
        /\ item = l.chunk /\ devExt = l.chunk
        /\ sys = [s \in DOMAIN l.chunk |-> IF l.listed THEN l.chunk[s] ELSE 0]
        /\ chunks = ChunksOf(l.chunk)
        /\ total = l.size /\ op = Idle /\ cut = "no" /\ faults = 0
  BY DEF Init, ChunksOf
<1>2. /\ l.size \in Nat /\ DOMAIN l.chunk \subseteq Nat /\ l.chunk \in [DOMAIN l.chunk -> Nat]
      /\ Spaced(l.chunk, l.size)
  BY ResizeAssumption
<1>3. SizesTyped
  <2>1. sb \in [total : Nat, root : {l.root}]
    BY <1>1, <1>2
  <2>2. sys \in [DOMAIN item -> Nat]
    BY <1>1, <1>2
  <2> QED
    BY <1>1, <1>2, <2>1, <2>2, IdleTyped, Zenon DEF SizesTyped
<1>4. Settled
  <2>1. \A s \in DOMAIN item : sys[s] \in {0, item[s]}
    BY <1>1
  <2>2. sb.total = dev
    BY <1>1
  <2> QED
    BY <1>1, <1>2, <2>1, <2>2 DEF Settled
<1> QED
  BY <1>1, <1>3, <1>4, IdleTyped DEF IInv, SizesHold

\* A commit writes another root into the superblock, or none.
LEMMA RootMoves ==
  ASSUME SizesTyped, NEW c, NEW fs, Commit(c, fs)
  PROVE  sb'.total = sb.total /\ \E R : sb' \in [total : Nat, root : R]
<1>1. PICK R : sb \in [total : Nat, root : R]
  BY DEF SizesTyped
<1>2. CASE sb' = sb
  BY <1>1, <1>2
<1>3. CASE sb' = [sb EXCEPT !.root = c.root]
  <2>1. sb' \in [total : Nat, root : R \cup {c.root}] /\ sb'.total = sb.total
    BY <1>1, <1>3
  <2> QED
    BY <2>1, Zenon
<1> QED
  BY <1>2, <1>3 DEF Commit

\* A call that returns, or none, with records that agree.
LEMMA EndsSettled ==
  ASSUME SizesTyped, faults' = 0, op' = Idle, cut' = "no", Settled',
         \E R : sb' \in [total : Nat, root : R],
         dev' \in Nat, DOMAIN item' \subseteq Nat, item' \in [DOMAIN item' -> Nat],
         sys' \in [DOMAIN item' -> Nat]
  PROVE  IInv'
<1>1. SizesTyped'
  BY IdleTyped DEF SizesTyped, Settled
<1> QED
  BY <1>1, IdleTyped DEF IInv, SizesHold

\* A call that is cut short and leaves records that only keep to the device.
LEMMA EndsBound ==
  ASSUME SizesTyped, Bounded, faults' = 0, op' = Idle, cut' # "no",
         UNCHANGED <<dev, devItem, item, sys, devExt, chunks, total>>, sb'.total = sb.total,
         \E R : sb' \in [total : Nat, root : R]
  PROVE  IInv'
<1>1. SizesTyped'
  BY IdleTyped DEF SizesTyped
<1>2. Bounded'
  BY DEF Bounded
<1> QED
  BY <1>1, <1>2, IdleTyped DEF IInv, SizesHold

\* A call that has begun.
LEMMA BeginsWorking ==
  ASSUME SizesTyped, faults' = 0, cut' = "no", Working', op'.stage \in Stages \ {"none"},
         op'.kind # "none", \E S : op' \in OpType(S),
         UNCHANGED <<dev, devItem, item, sys, devExt, total, sb>>
  PROVE  IInv'
<1>1. SizesTyped'
  BY DEF SizesTyped
<1> QED
  BY <1>1 DEF IInv, SizesHold

\* Grow, Shrink and the removal of a chunk begin.
LEMMA ResizeBegins ==
  ASSUME IInv, faults' = 0, NEW n \in Sizes, Grow(n) \/ Shrink(n) \/ removeWholeTrailingChunk(n)
  PROVE  IInv'
<1>1. n \in Nat
  BY ResizeAssumption
<1>2. Call /\ UNCHANGED <<dev, devItem, item, sys, devExt, chunks, total, cut, sb, faults>>
  BY DEF Grow, Shrink, removeWholeTrailingChunk, device, memory
<1>3. op = Idle /\ cut = "no" /\ cut' = "no" /\ faults = 0
  BY <1>2 DEF Call
<1>4. SizesTyped /\ Settled
  BY <1>3, IdleTyped DEF IInv, SizesHold
<1> DEFINE Begun == /\ Working' /\ op'.stage \in Stages \ {"none"} /\ op'.kind # "none"
                    /\ \E S : op' \in OpType(S)
<1>5. CASE Grow(n)
  <2>1. op' = OpOf("grow", "extend", n, total, n, tailChunk, {}, FALSE)
    BY <1>5, Zenon DEF Grow, Idle, OpOf
  <2>2. GrowPlan("extend", n)
    BY <1>5 DEF Grow, GrowPlan
  <2>3. Begun
    BY <1>1, <1>2, <1>3, <1>4, <2>1, <2>2, CallBegins, Zenon
  <2> QED
    BY <1>2, <1>3, <1>4, <2>3, BeginsWorking
<1>6. CASE Shrink(n)
  <2>1. PICK busy, stage, todo :
          /\ op' = OpOf("shrink", stage, n, n, total, tailChunk, todo, busy)
          /\ stage \in {"move", "item"} /\ busy \in BOOLEAN
    <3> DEFINE b == ~(n .. total - 1 \subseteq free)
    <3>1. op' = OpOf("shrink", IF b THEN "move" ELSE "item", n, n, total, tailChunk,
                     IF b THEN Targets(n, total) ELSE {}, b)
      BY <1>6, Zenon DEF Shrink, Idle, OpOf
    <3> QED
      BY <3>1, Zenon
  <2>2. ShrinkPlan(stage, n)
    BY <1>6, <2>1 DEF Shrink, ShrinkPlan
  <2>3. Begun
    BY <1>1, <1>2, <1>3, <1>4, <2>1, <2>2, CallBegins, Zenon
  <2> QED
    BY <1>2, <1>3, <1>4, <2>3, BeginsWorking
<1>7. CASE removeWholeTrailingChunk(n)
  <2>1. PICK busy, stage, todo :
          /\ op' = OpOf("remove", stage, n, n, total, tailChunk, todo, busy)
          /\ stage \in {"move", "item"} /\ busy \in BOOLEAN
    <3> DEFINE b == ~evacuable(tailChunk)
    <3>1. op' = OpOf("remove", IF b THEN "move" ELSE "item", n, n, total, tailChunk,
                     IF b THEN Targets(n, total) ELSE {}, b)
      BY <1>7, Zenon DEF removeWholeTrailingChunk, Idle, OpOf
    <3> QED
      BY <3>1, Zenon
  <2>2. RemovePlan(stage, n)
    BY <1>7, <2>1 DEF removeWholeTrailingChunk, RemovePlan
  <2>3. Begun
    BY <1>1, <1>2, <1>3, <1>4, <2>1, <2>2, CallBegins, Zenon
  <2> QED
    BY <1>2, <1>3, <1>4, <2>3, BeginsWorking
<1> QED
  BY <1>5, <1>6, <1>7

\* Files come and go without a word about sizes.
LEMMA FilesChange ==
  ASSUME IInv, faults' = 0, NEW f, NEW n, WriteFile(f, n) \/ DeleteFile(f)
  PROVE  IInv'
<1>1. PICK c, fs : Commit(c, fs)
  BY Zenon DEF WriteFile, DeleteFile
<1>2. Call /\ UNCHANGED <<dev, devItem, item, sys, devExt, chunks, total, op, cut, faults>>
  BY Zenon DEF WriteFile, DeleteFile
<1>3. op = Idle /\ op' = Idle /\ cut = "no" /\ cut' = "no" /\ faults = 0
  BY <1>2 DEF Call
<1>4. SizesTyped /\ Settled
  BY <1>3, IdleTyped DEF IInv, SizesHold
<1>5. sb'.total = sb.total /\ \E R : sb' \in [total : Nat, root : R]
  BY <1>1, <1>4, RootMoves
<1>6. Settled'
  BY <1>2, <1>4, <1>5 DEF Settled
<1>7. /\ dev' \in Nat /\ DOMAIN item' \subseteq Nat /\ item' \in [DOMAIN item' -> Nat]
      /\ sys' \in [DOMAIN item' -> Nat]
  BY <1>2, <1>4 DEF SizesTyped
<1> QED
  BY <1>3, <1>4, <1>5, <1>6, <1>7, EndsSettled

\* What a mount maps when the two lists of chunks agree, and when they need not.
LEMMA MappedChunks ==
  ASSUME SizesTyped
  PROVE  /\ Mapped = ChunksOf(sys) \cup ChunksOf(item)
         /\ (\A s \in DOMAIN item : sys[s] \in {0, item[s]}) => Mapped = ChunksOf(item)
<1>1. Mapped = ChunksOf(sys) \cup ChunksOf(item)
  BY DEF Mapped, ChunksOf
<1>2. DOMAIN sys = DOMAIN item
  BY DEF SizesTyped
<1>3. ASSUME \A s \in DOMAIN item : sys[s] \in {0, item[s]}
      PROVE  ChunksOf(sys) \subseteq ChunksOf(item)
  BY <1>2, <1>3 DEF ChunksOf
<1> QED
  BY <1>1, <1>3

\* A mount reads the records: when they agreed it maps the same chunks.
LEMMA MountAgain ==
  ASSUME IInv, faults' = 0, Mount
  PROVE  IInv'
<1>1. /\ op = Idle /\ op' = Idle /\ faults = 0 /\ chunks' = Mapped /\ total' = sb.total
      /\ UNCHANGED <<dev, sb, devItem, item, sys, devExt, cut>>
  BY DEF Mount, device
<1>2. SizesTyped /\ (cut = "no" => Settled) /\ (cut # "no" => Bounded)
  BY <1>1, IdleTyped DEF IInv, SizesHold
<1>3. SizesTyped'
  BY <1>1, <1>2, IdleTyped DEF SizesTyped
<1>4. CASE cut = "no"
  <2>1. Mapped = ChunksOf(item)
    BY <1>2, <1>4, MappedChunks DEF Settled
  <2>2. Settled'
    BY <1>1, <1>2, <1>4, <2>1 DEF Settled
  <2> QED
    BY <1>1, <1>3, <1>4, <2>2, IdleTyped DEF IInv, SizesHold
<1>5. CASE cut # "no"
  <2>1. \A c \in ChunksOf(item) : EndOf(c) <= dev
    BY <1>2, <1>5, ChunkOf DEF Bounded, EndOf, SizesTyped
  <2>2. \A c \in ChunksOf(sys) : EndOf(c) <= dev
    <3>1. DOMAIN sys = DOMAIN item /\ DOMAIN sys \subseteq Nat /\ sys \in [DOMAIN sys -> Nat]
      BY <1>2 DEF SizesTyped
    <3> QED
      BY <1>2, <1>5, <3>1, ChunkOf DEF Bounded, EndOf
  <2>3. Bounded'
    BY <1>1, <1>2, <1>5, <2>1, <2>2, MappedChunks DEF Bounded
  <2> QED
    BY <1>1, <1>3, <1>5, <2>3, IdleTyped DEF IInv, SizesHold
<1> QED
  BY <1>4, <1>5

----------------------------------------------------------------------------
(* The steps of a call. *)

\* A step of a call goes on with the same call.
SameCall ==
  /\ op'.kind = op.kind /\ op'.size = op.size /\ op'.chunk = op.chunk
  /\ Start' = Start /\ NewSize' = NewSize /\ OldEnd' = OldEnd
  /\ op'.stage \in Stages \ {"none"} /\ \E S : op' \in OpType(S)

\* A step of the records to the next one.
LEMMA GoesTo ==
  ASSUME SizesTyped, NEW x \in Stages \ {"none"}, op' = [op EXCEPT !.stage = x]
  PROVE  SameCall /\ op'.stage = x
  BY StageMoves DEF SameCall

\* A call that goes on with what it has written by then.
LEMMA StepWorks ==
  ASSUME SizesTyped, Working, op.stage # "none", SameCall, faults' = 0, cut' = "no",
         item' = item \/ item' = [item EXCEPT ![Start] = NewSize],
         sys' \in [DOMAIN item -> Nat], \E R : sb' \in [total : Nat, root : R],
         NEW old, NEW new, old = Old, new = New, Progress(old, new)'
  PROVE  IInv'
<1>1. Planned(old, new) /\ Planned(Old, New)
  BY DEF Working
<1>2. Old' = old /\ New' = new /\ DOMAIN item' = DOMAIN item
  <2>1. item \in [DOMAIN item -> Nat]
    BY DEF SizesTyped
  <2> QED
    BY <1>1, <2>1, OldNewStay DEF SameCall
<1>3. Planned(old, new)'
  BY <1>1, PlannedStays DEF SameCall
<1>4. Working'
  BY <1>2, <1>3 DEF Working
<1>5. /\ DOMAIN old = DOMAIN item /\ DOMAIN new = DOMAIN item
      /\ old \in [DOMAIN item -> Nat] /\ new \in [DOMAIN item -> Nat]
  BY <1>1 DEF Planned, Old, New
<1>6. op'.size \in Nat /\ OldEnd' \in Nat /\ op.kind # "none"
  BY OpFields DEF SameCall, OldEnd, Start, SizesTyped
<1>7. /\ item' \in {old, new} /\ devExt' \in {old, new}
      /\ dev' \in {op'.size, OldEnd'} /\ devItem' \in {op'.size, OldEnd'} /\ total' = devItem'
  BY DEF Progress
<1>8. item' \in [DOMAIN item -> Nat] /\ devExt' \in [DOMAIN item -> Nat] /\ DOMAIN item \subseteq Nat
  BY <1>5, <1>7 DEF SizesTyped
<1>9. dev' \in Nat /\ devItem' \in Nat /\ total' \in Nat
  BY <1>6, <1>7
<1>10. op'.stage # "none" /\ op'.kind # "none" /\ \E S : op' \in OpType(S)
  BY <1>6 DEF SameCall
<1>11. SizesTyped'
  BY <1>2, <1>8, <1>9, <1>10 DEF SizesTyped
<1> QED
  BY <1>4, <1>10, <1>11 DEF IInv, SizesHold

\* A step between two records.
LEMMA RecordsStay ==
  ASSUME SizesTyped, Working, op.stage # "none", SameCall, faults' = 0, cut' = "no",
         UNCHANGED <<dev, devItem, item, sys, devExt, chunks, total>>,
         sb'.total = sb.total, \E R : sb' \in [total : Nat, root : R],
         op.kind # "grow", op.stage \notin {"super", "devitem", "truncate"},
         op'.stage \notin {"extend", "devitem", "truncate"},
         ItemDone' <=> ItemDone, ExtDone' <=> ExtDone, SysDone' <=> SysDone
  PROVE  IInv'
<1>1. PICK old, new : old = Old /\ new = New
  OBVIOUS
<1>2. Progress(old, new)
  BY <1>1 DEF Working
<1>3. MapDone' <=> MapDone
  BY DEF MapDone, SameCall
<1>4. op'.kind = op.kind /\ op'.size = op.size /\ OldEnd' = OldEnd
  BY SMTT(30) DEF SameCall
<1>5. /\ item = (IF ItemDone THEN new ELSE old) /\ devExt = (IF ExtDone THEN new ELSE old)
      /\ \A s \in DOMAIN old : sys[s] \in {0, (IF SysDone THEN new ELSE old)[s]}
      /\ chunks = ChunksOf(IF MapDone THEN new ELSE old)
      /\ sb.total = OldEnd /\ devItem = OldEnd /\ total = devItem /\ dev = OldEnd
  BY <1>2, SMTT(30) DEF Progress
<1>6. Progress(old, new)'
  BY <1>3, <1>4, <1>5 DEF Progress
<1>7. sys' \in [DOMAIN item -> Nat]
  BY DEF SizesTyped
<1> QED
  BY <1>1, <1>6, <1>7, StepWorks

\* A relocation moves nodes and files, and no record.
LEMMA Relocates ==
  ASSUME SizesTyped, Working, MovingStage, SameCall, faults' = 0, cut' = "no",
         op'.stage \in {"move", "meta", "check", "commit", "item"},
         UNCHANGED <<dev, devItem, item, sys, devExt, chunks, total>>,
         sb'.total = sb.total, \E R : sb' \in [total : Nat, root : R]
  PROVE  IInv'
<1>1. op.kind # "grow"
  BY DEF Working, Progress
<1>2. op.stage \notin {"none", "super", "devitem", "truncate"}
  BY DEF MovingStage
<1>3. /\ ~ItemDone' /\ ~ItemDone /\ ~ExtDone' /\ ~ExtDone /\ ~SysDone' /\ ~SysDone
  BY DEF ItemDone, ExtDone, SysDone, MovingStage
<1> QED
  BY <1>1, <1>2, <1>3, RecordsStay

\* A relocation that is refused.
LEMMA RelocationEnds ==
  ASSUME SizesTyped, Working, faults' = 0, NEW fr, Refuse(fr)
  PROVE  IInv'
<1>1. Bounded
  BY WorkingBounded
<1>2. /\ op' = Idle /\ cut' # "no" /\ UNCHANGED <<dev, devItem, item, sys, devExt, chunks, total>>
      /\ sb' = sb
  BY DEF Refuse, device
<1>3. \E R : sb' \in [total : Nat, root : R]
  BY <1>2 DEF SizesTyped
<1> QED
  BY <1>1, <1>2, <1>3, EndsBound

\* The state in which a step of a call is taken.
LEMMA OnTheWay ==
  ASSUME IInv, faults = 0, op.stage # "none"
  PROVE  SizesTyped /\ Working /\ cut = "no"
  BY DEF IInv, SizesHold, SizesTyped

\* An extent moves, the call goes on with the others.
LEMMA ExtentMoves ==
  ASSUME IInv, faults' = 0, relocateExtent
  PROVE  IInv'
<1>1. PICK x : op' = [op EXCEPT !.todo = op.todo \ {x}]
  BY Zenon DEF relocateExtent
<1>2. /\ op.stage = "move" /\ faults = 0 /\ cut' = cut
      /\ UNCHANGED <<dev, devItem, item, sys, devExt, chunks, total, sb>>
  BY DEF relocateExtent, At
<1>3. SizesTyped /\ Working /\ cut = "no"
  BY <1>2, OnTheWay
<1>4. PICK S : op \in OpType(S)
  BY <1>3 DEF SizesTyped
<1>5. op' \in OpType(S) /\ op'.kind = op.kind /\ op'.stage = op.stage /\ op'.size = op.size
  BY <1>1, <1>4 DEF OpType
<1>6. op'.from = op.from /\ op'.to = op.to /\ op'.chunk = op.chunk
  BY <1>1, <1>4 DEF OpType
<1>7. SameCall
  BY <1>2, <1>5, <1>6 DEF SameCall, Start, NewSize, OldEnd, Stages
<1>8. MovingStage /\ \E R : sb' \in [total : Nat, root : R]
  BY <1>2, <1>3 DEF MovingStage, SizesTyped
<1> QED
  BY <1>2, <1>3, <1>5, <1>7, <1>8, Relocates

\* The nodes move, and the postcondition is checked.
LEMMA NodesMove ==
  ASSUME IInv, faults' = 0, relocateRootTree \/ relocateDevTree \/ relocated
  PROVE  IInv'
<1>1. /\ op.stage \in {"move", "meta", "check"} /\ faults = 0 /\ cut' = cut
      /\ UNCHANGED <<dev, devItem, item, sys, devExt, chunks, total, sb>>
  BY DEF relocateRootTree, relocateDevTree, relocated, At, device, memory
<1>2. PICK x \in {"meta", "check", "commit", "item"} : op' = [op EXCEPT !.stage = x]
  BY DEF relocateRootTree, relocateDevTree, relocated, Goto
<1>3. SizesTyped /\ Working /\ cut = "no"
  BY <1>1, OnTheWay
<1>4. SameCall /\ op'.stage = x
  BY <1>2, <1>3, GoesTo DEF Stages
<1>5. MovingStage /\ \E R : sb' \in [total : Nat, root : R]
  BY <1>1, <1>3 DEF MovingStage, SizesTyped
<1> QED
  BY <1>1, <1>2, <1>3, <1>4, <1>5, Relocates

\* A fault is counted.
LEMMA FaultCounts ==
  ASSUME IInv, Fault
  PROVE  faults' # 0 /\ faults' \in Nat
  BY DEF IInv, Fault

\* What lives in the tail moves, or the call is refused.
LEMMA RelocationStep ==
  ASSUME IInv, faults' = 0, Relocation
  PROVE  IInv'
<1>1. CASE relocateExtent
  BY <1>1, ExtentMoves
<1>2. CASE relocateRootTree \/ relocateDevTree \/ relocated
  BY <1>2, NodesMove
<1>3. CASE relocateExtentFails \/ relocateTreeFails \/ leftInTail
  <2>1. op.stage # "none"
    BY <1>3 DEF relocateExtentFails, relocateTreeFails, leftInTail, At
  <2>2. ~Fault
    BY FaultCounts
  <2>3. faults' = faults /\ \E fr : Refuse(fr)
    BY <1>3, <2>2 DEF relocateExtentFails, relocateTreeFails, leftInTail
  <2>4. SizesTyped /\ Working
    BY <2>1, <2>3, OnTheWay
  <2> QED
    BY <2>3, <2>4, RelocationEnds
<1> QED
  BY <1>1, <1>2, <1>3 DEF Relocation

\* The commit of a relocation.
LEMMA CommitStep ==
  ASSUME IInv, faults' = 0, finishRelocation \/ commitRelocation
  PROVE  IInv'
<1> DEFINE c == Committed(disk, free, fsRoot)
<1>1. /\ Commit(c, fsRoot) /\ faults = 0
      /\ UNCHANGED <<dev, devItem, item, sys, devExt, chunks, total>>
      /\ cut' = IF c.ok THEN "no" ELSE "relocation"
      /\ \/ op.stage = "group" /\ op.kind = "shrink"
            /\ op' = (IF c.ok THEN [op EXCEPT !.stage = "super"] ELSE Idle)
         \/ op.stage = "commit"
            /\ op' = (IF c.ok /\ group'[Start].used = 0 THEN [op EXCEPT !.stage = "item"] ELSE Idle)
  BY DEF finishRelocation, commitRelocation, At
<1> HIDE DEF c
<1>2. SizesTyped /\ Working
  BY <1>1, OnTheWay
<1>3. sb'.total = sb.total /\ \E R : sb' \in [total : Nat, root : R]
  BY <1>1, <1>2, RootMoves
<1>4. CASE cut' # "no"
  <2>1. op' = Idle
    BY <1>1, <1>4
  <2> QED
    BY <1>1, <1>2, <1>3, <1>4, <2>1, EndsBound, WorkingBounded
<1>5. CASE cut' = "no" /\ op' = Idle
  <2>1. op.stage = "commit"
    <3>1. op.stage = "group" => op' = [op EXCEPT !.stage = "super"]
      BY <1>1, <1>5
    <3>2. op' = [op EXCEPT !.stage = "super"] => op'.stage = "super"
      BY <1>2, GoesTo DEF Stages
    <3> QED
      BY <1>1, <1>5, <3>1, <3>2, IdleTyped
  <2>2. PICK old, new : old = Old /\ new = New
    OBVIOUS
  <2>3. Planned(old, new) /\ Progress(old, new)
    BY <1>2, <2>2, SMTT(30) DEF Working
  <2>4. /\ item = old /\ devExt = old /\ chunks = ChunksOf(old)
        /\ \A s \in DOMAIN old : sys[s] \in {0, old[s]}
        /\ sb.total = OldEnd /\ devItem = OldEnd /\ total = OldEnd /\ dev = OldEnd
    BY <2>1, <2>3 DEF Progress, ItemDone, ExtDone, SysDone, MapDone, MovingStage
  <2>5. Settled
    BY <2>3, <2>4 DEF Settled, Planned
  <2>6. Settled'
    BY <1>1, <1>3, <2>5 DEF Settled
  <2>7. /\ dev' \in Nat /\ DOMAIN item' \subseteq Nat /\ item' \in [DOMAIN item' -> Nat]
        /\ sys' \in [DOMAIN item' -> Nat]
    BY <1>1, <1>2 DEF SizesTyped
  <2> QED
    BY <1>2, <1>3, <1>5, <2>6, <2>7, EndsSettled
<1>6. CASE cut' = "no" /\ op' # Idle
  <2>1. CASE op.stage = "group"
    <3>1. op.kind = "shrink" /\ op' = [op EXCEPT !.stage = "super"]
      BY <1>1, <1>6, <2>1
    <3>2. SameCall /\ op'.stage = "super"
      BY <1>2, <3>1, GoesTo DEF Stages
    <3>3. op'.kind = "shrink"
      BY <3>1, <3>2 DEF SameCall
    <3>4. ItemDone /\ ItemDone' /\ ExtDone /\ ExtDone' /\ SysDone /\ SysDone'
      BY <2>1, <3>1, <3>2, <3>3 DEF ItemDone, ExtDone, SysDone, MovingStage
    <3> QED
      BY <1>1, <1>2, <1>3, <1>6, <2>1, <3>1, <3>2, <3>4, RecordsStay
  <2>2. CASE op.stage = "commit"
    <3>1. op' = [op EXCEPT !.stage = "item"]
      BY <1>1, <1>6, <2>2
    <3>2. SameCall /\ op'.stage = "item"
      BY <1>2, <3>1, GoesTo DEF Stages
    <3> QED
      BY <1>1, <1>2, <1>3, <1>6, <2>2, <3>2, Relocates DEF MovingStage
  <2> QED
    BY <1>1, <2>1, <2>2
<1> QED
  BY <1>4, <1>5, <1>6

\* What the records are, and the chunk that is replaced, when a step is taken.
LEMMA StepFrom ==
  ASSUME IInv, faults = 0, op.stage # "none", NEW old, NEW new, old = Old, new = New
  PROVE  /\ SizesTyped /\ Working /\ cut = "no" /\ Planned(old, new) /\ Progress(old, new)
         /\ sys \in [DOMAIN old -> Nat] /\ DOMAIN old = DOMAIN item
         /\ op.chunk = [start |-> Start, size |-> old[Start]]
         /\ old \in [DOMAIN old -> Nat] /\ new = [old EXCEPT ![Start] = NewSize]
         /\ Start \in DOMAIN old /\ old[Start] # 0 /\ NewSize \in Nat
         /\ op.kind \in {"grow", "shrink", "remove"} /\ (NewSize = 0 <=> op.kind = "remove")
<1>1. SizesTyped /\ Working /\ cut = "no"
  BY OnTheWay
<1>2. Planned(old, new) /\ Progress(old, new)
  BY <1>1 DEF Working
<1>3. DOMAIN old = DOMAIN item /\ sys \in [DOMAIN old -> Nat]
  BY <1>1, SMTT(30) DEF Old, SizesTyped
<1>4. op.chunk = [start |-> Start, size |-> old[Start]]
  <2>1. op.chunk \in ChunkSet /\ old[Start] = op.chunk.size
    BY <1>1, <1>2, OpFields DEF Planned
  <2> QED
    BY <2>1 DEF ChunkSet, Start
<1>5. op.kind \in {"grow", "shrink", "remove"}
  BY <1>1, OpFields DEF SizesTyped
<1> QED
  BY <1>1, <1>2, <1>3, <1>4, <1>5 DEF Planned

\* The device is longer before the records say so.
LEMMA ExtendStep ==
  ASSUME IInv, faults' = 0, extendDevice
  PROVE  IInv'
<1>1. PICK old, new : old = Old /\ new = New
  OBVIOUS
<1>2. /\ op.stage = "extend" /\ faults = 0 /\ cut' = cut /\ op' = [op EXCEPT !.stage = "item"]
      /\ dev' = op.size /\ UNCHANGED <<devItem, item, sys, devExt, chunks, total, sb>>
  BY DEF extendDevice, At, Step, Goto, memory
<1>3. /\ SizesTyped /\ Working /\ cut = "no" /\ Progress(old, new) /\ sys \in [DOMAIN item -> Nat]
      /\ \E R : sb' \in [total : Nat, root : R]
  BY <1>1, <1>2, StepFrom, Zenon DEF SizesTyped
<1>4. SameCall /\ op'.stage = "item"
  BY <1>2, <1>3, GoesTo DEF Stages
<1>5. op'.kind = op.kind /\ op'.size = op.size /\ OldEnd' = OldEnd /\ op.kind = "grow"
  BY <1>2, <1>3, <1>4 DEF SameCall, Progress
<1>6. /\ ~ItemDone /\ ~ExtDone /\ ~SysDone /\ ~MapDone
      /\ ~ItemDone' /\ ~ExtDone' /\ ~SysDone' /\ ~MapDone' /\ ~MovingStage'
  BY <1>2, <1>4 DEF ItemDone, ExtDone, SysDone, MapDone, MovingStage
<1>7. Progress(old, new)'
  BY <1>2, <1>3, <1>4, <1>5, <1>6 DEF Progress
<1> QED
  BY <1>1, <1>2, <1>3, <1>4, <1>7, StepWorks

\* The CHUNK_ITEM is the first record of the size.
LEMMA ItemStep ==
  ASSUME IInv, faults' = 0, rewriteChunkItem
  PROVE  IInv'
<1>1. PICK old, new : old = Old /\ new = New
  OBVIOUS
<1>2. PICK x : /\ x = (IF op.kind = "remove" THEN "devext" ELSE "sys")
               /\ op' = [op EXCEPT !.stage = x]
  BY DEF rewriteChunkItem, Step, Goto
<1>3. /\ op.stage = "item" /\ faults = 0 /\ cut' = cut
      /\ item' = [item EXCEPT ![Start] = NewSize]
      /\ UNCHANGED <<dev, devItem, sys, devExt, chunks, total, sb>>
  BY DEF rewriteChunkItem, At, Step, memory
<1>4. /\ SizesTyped /\ Working /\ cut = "no" /\ Progress(old, new) /\ sys \in [DOMAIN item -> Nat]
      /\ \E R : sb' \in [total : Nat, root : R]
  BY <1>1, <1>3, StepFrom, Zenon DEF SizesTyped
<1>5. SameCall /\ op'.stage = x
  BY <1>2, <1>4, GoesTo DEF Stages
<1>6. op'.kind = op.kind /\ op'.size = op.size /\ OldEnd' = OldEnd
  BY <1>5 DEF SameCall
<1>7. ~ItemDone /\ ~ExtDone /\ ~SysDone /\ ~MapDone
  BY <1>3 DEF ItemDone, ExtDone, SysDone, MapDone, MovingStage
<1>8. ItemDone' /\ ~ExtDone' /\ ~SysDone' /\ ~MapDone' /\ ~MovingStage'
  BY <1>2, <1>5, <1>6 DEF ItemDone, ExtDone, SysDone, MapDone, MovingStage
<1>9. item' = new
  <2>1. item = old /\ new = [old EXCEPT ![Start] = NewSize]
    BY <1>1, <1>3, <1>4, <1>7, StepFrom, Zenon DEF Progress
  <2> QED
    BY <1>3, <2>1
<1>10. Progress(old, new)'
  BY <1>2, <1>3, <1>4, <1>5, <1>6, <1>7, <1>8, <1>9, SMTT(30) DEF Progress
<1> QED
  BY <1>1, <1>3, <1>4, <1>5, <1>10, StepWorks

\* The sys_chunk_array has the size, if it has the chunk; a chunk that is removed
\* leaves the map.
LEMMA SysStep ==
  ASSUME IInv, faults' = 0, rewriteSysChunkArrayEntry
  PROVE  IInv'
<1>1. PICK old, new : old = Old /\ new = New
  OBVIOUS
<1>2. PICK x : /\ x = (IF op.kind = "remove" THEN "super" ELSE "devext")
               /\ op' = [op EXCEPT !.stage = x]
  BY DEF rewriteSysChunkArrayEntry, Step, Goto
<1>3. /\ op.stage = "sys" /\ faults = 0 /\ cut' = cut
      /\ sys' = [sys EXCEPT ![Start] = IF sys[Start] = 0 THEN 0 ELSE NewSize]
      /\ chunks' = (IF op.kind = "remove" THEN chunks \ {op.chunk} ELSE chunks)
      /\ UNCHANGED <<dev, devItem, item, devExt, total, sb>>
  BY DEF rewriteSysChunkArrayEntry, At, Step
<1>4. /\ SizesTyped /\ Working /\ cut = "no" /\ Progress(old, new)
      /\ \E R : sb' \in [total : Nat, root : R]
  BY <1>1, <1>3, StepFrom, Zenon DEF SizesTyped
<1>5. SameCall /\ op'.stage = x
  BY <1>2, <1>4, GoesTo DEF Stages
<1>6. op'.kind = op.kind /\ op'.size = op.size /\ OldEnd' = OldEnd
  BY <1>5 DEF SameCall
<1>7. ItemDone /\ ~SysDone /\ (ExtDone <=> op.kind = "remove") /\ ~MapDone
  BY <1>3 DEF ItemDone, ExtDone, SysDone, MapDone, MovingStage
<1>8. ItemDone' /\ SysDone' /\ (ExtDone' <=> op.kind = "remove") /\ (MapDone' <=> op.kind = "remove")
      /\ ~MovingStage'
  BY <1>2, <1>5, <1>6 DEF ItemDone, ExtDone, SysDone, MapDone, MovingStage
<1>9. /\ sys \in [DOMAIN old -> Nat] /\ DOMAIN old = DOMAIN item
      /\ op.chunk = [start |-> Start, size |-> old[Start]]
      /\ old \in [DOMAIN old -> Nat] /\ new = [old EXCEPT ![Start] = NewSize]
      /\ Start \in DOMAIN old /\ old[Start] # 0 /\ NewSize \in Nat
      /\ (NewSize = 0 <=> op.kind = "remove")
  BY <1>1, <1>3, StepFrom
<1>10. \A s \in DOMAIN old : sys[s] \in {0, old[s]}
  BY <1>4, <1>7 DEF Progress
<1>11. sys' \in [DOMAIN item -> Nat] /\ \A s \in DOMAIN old : sys'[s] \in {0, new[s]}
  BY <1>3, <1>9, <1>10
<1>12. chunks' = ChunksOf(IF MapDone' THEN new ELSE old)
  <2>1. chunks = ChunksOf(old)
    BY <1>4, <1>7 DEF Progress
  <2>2. op.kind = "remove" => ChunksOf(new) = ChunksOf(old) \ {op.chunk}
    <3>1. PICK s, n, c : s = Start /\ n = NewSize /\ c = op.chunk
      OBVIOUS
    <3>2. /\ old \in [DOMAIN old -> Nat] /\ s \in DOMAIN old /\ old[s] # 0 /\ n \in Nat
          /\ c = ChunkAt(s, old[s]) /\ new = Resized(old, s, n)
      BY <1>9, <3>1 DEF ChunkAt, Resized
    <3>3. ChunksOf(Resized(old, s, n)) =
            (ChunksOf(old) \ {ChunkAt(s, old[s])}) \cup (IF n = 0 THEN {} ELSE {ChunkAt(s, n)})
      BY <3>2, ChunksReplaced
    <3>4. (ChunksOf(old) \ {c}) \cup {} = ChunksOf(old) \ {c}
      OBVIOUS
    <3> QED
      BY <1>9, <3>1, <3>2, <3>3, <3>4, Zenon
  <2> QED
    BY <1>3, <1>8, <2>1, <2>2
<1>13. Progress(old, new)'
  BY <1>2, <1>3, <1>4, <1>5, <1>6, <1>7, <1>8, <1>11, <1>12 DEF Progress
<1> QED
  BY <1>1, <1>3, <1>4, <1>5, <1>11, <1>13, StepWorks

\* The DEV_EXTENT has the size, and a chunk that stays has it in the map.
LEMMA DevExtentStep ==
  ASSUME IInv, faults' = 0, rewriteDevExtent
  PROVE  IInv'
<1>1. PICK old, new : old = Old /\ new = New
  OBVIOUS
<1>2. PICK x : /\ x = (IF op.kind = "grow" THEN "super" ELSE "group")
               /\ op' = [op EXCEPT !.stage = x]
  BY DEF rewriteDevExtent, Step, Goto
<1>3. /\ op.stage = "devext" /\ faults = 0 /\ cut' = cut
      /\ devExt' = [devExt EXCEPT ![Start] = NewSize]
      /\ chunks' = (IF op.kind = "remove" THEN chunks
                    ELSE (chunks \ {op.chunk}) \cup {[op.chunk EXCEPT !.size = NewSize]})
      /\ UNCHANGED <<dev, devItem, item, sys, total, sb>>
  BY DEF rewriteDevExtent, At, Step
<1>4. /\ SizesTyped /\ Working /\ cut = "no" /\ Progress(old, new) /\ sys' \in [DOMAIN item -> Nat]
      /\ \E R : sb' \in [total : Nat, root : R]
  BY <1>1, <1>3, StepFrom, Zenon DEF SizesTyped
<1>5. SameCall /\ op'.stage = x
  BY <1>2, <1>4, GoesTo DEF Stages
<1>6. op'.kind = op.kind /\ op'.size = op.size /\ OldEnd' = OldEnd
  BY <1>5 DEF SameCall
<1>7. ItemDone /\ ~ExtDone /\ (SysDone <=> op.kind # "remove") /\ ~MapDone
  BY <1>3 DEF ItemDone, ExtDone, SysDone, MapDone, MovingStage
<1>8. /\ ItemDone' /\ ExtDone' /\ (SysDone' <=> op.kind # "remove") /\ (MapDone' <=> op.kind # "remove")
      /\ ~MovingStage'
  BY <1>2, <1>5, <1>6 DEF ItemDone, ExtDone, SysDone, MapDone, MovingStage
<1>9. /\ op.chunk = [start |-> Start, size |-> old[Start]]
      /\ old \in [DOMAIN old -> Nat] /\ new = [old EXCEPT ![Start] = NewSize]
      /\ Start \in DOMAIN old /\ old[Start] # 0 /\ NewSize \in Nat
      /\ (NewSize = 0 <=> op.kind = "remove")
  BY <1>1, <1>3, StepFrom
<1>10. devExt' = new
  BY <1>3, <1>4, <1>7, <1>9 DEF Progress
<1>11. chunks' = ChunksOf(IF MapDone' THEN new ELSE old)
  <2>1. chunks = ChunksOf(old)
    BY <1>4, <1>7 DEF Progress
  <2>2. [op.chunk EXCEPT !.size = NewSize] = [start |-> Start, size |-> NewSize]
    BY <1>9
  <2>3. op.kind # "remove" =>
          ChunksOf(new) = (ChunksOf(old) \ {op.chunk}) \cup {[start |-> Start, size |-> NewSize]}
    <3>1. PICK s, n, c : s = Start /\ n = NewSize /\ c = op.chunk
      OBVIOUS
    <3>2. /\ old \in [DOMAIN old -> Nat] /\ s \in DOMAIN old /\ old[s] # 0 /\ n \in Nat
          /\ c = ChunkAt(s, old[s]) /\ new = Resized(old, s, n)
      BY <1>9, <3>1 DEF ChunkAt, Resized
    <3>3. ChunksOf(Resized(old, s, n)) =
            (ChunksOf(old) \ {ChunkAt(s, old[s])}) \cup (IF n = 0 THEN {} ELSE {ChunkAt(s, n)})
      BY <3>2, ChunksReplaced
    <3> QED
      BY <1>9, <3>1, <3>2, <3>3, Zenon DEF ChunkAt
  <2> QED
    BY <1>3, <1>8, <2>1, <2>2, <2>3
<1>12. /\ item = new /\ (\A s \in DOMAIN old : sys[s] \in {0, (IF SysDone THEN new ELSE old)[s]})
       /\ sb.total = OldEnd /\ devItem = OldEnd /\ total = devItem
       /\ dev = (IF op.kind = "grow" THEN op.size ELSE OldEnd)
  BY <1>3, <1>4, <1>7 DEF Progress
<1>13. op'.stage \notin {"extend", "devitem", "truncate"} /\ (op.kind = "grow" => op'.stage # "group")
  BY <1>2, <1>5
<1>14. Progress(old, new)'
  BY <1>3, <1>6, <1>7, <1>8, <1>10, <1>11, <1>12, <1>13, Zenon DEF Progress
<1> QED
  BY <1>1, <1>3, <1>4, <1>5, <1>14, StepWorks

\* The BLOCK_GROUP_ITEM is no record of the sizes.
LEMMA GroupStep ==
  ASSUME IInv, faults' = 0, rewriteBlockGroup
  PROVE  IInv'
<1>1. PICK x : /\ x = (IF op.kind = "remove" THEN "sys" ELSE "super")
               /\ op' = [op EXCEPT !.stage = x]
  BY DEF rewriteBlockGroup, Step, Goto
<1>2. /\ op.stage = "group" /\ faults = 0 /\ cut' = cut
      /\ UNCHANGED <<dev, devItem, item, sys, devExt, chunks, total, sb>>
  BY DEF rewriteBlockGroup, At, Step, memory
<1>3. SizesTyped /\ Working /\ cut = "no" /\ \E R : sb' \in [total : Nat, root : R]
  BY <1>2, OnTheWay DEF SizesTyped
<1>4. SameCall /\ op'.stage = x
  BY <1>1, <1>3, GoesTo, SMTT(20) DEF Stages
<1>5. op'.kind = op.kind /\ op.kind # "grow"
  BY <1>2, <1>3, <1>4, Zenon DEF SameCall, Working, Progress
<1>6. ItemDone' /\ ItemDone /\ ExtDone' /\ ExtDone /\ (SysDone' <=> SysDone)
  BY <1>1, <1>2, <1>4, <1>5 DEF ItemDone, ExtDone, SysDone, MovingStage
<1> QED
  BY <1>1, <1>2, <1>3, <1>4, <1>5, <1>6, RecordsStay

\* The superblock has the size.
LEMMA SuperStep ==
  ASSUME IInv, faults' = 0, rewriteSuperblock
  PROVE  IInv'
<1>1. PICK old, new : old = Old /\ new = New
  OBVIOUS
<1>2. /\ op.stage = "super" /\ faults = 0 /\ cut' = cut /\ op' = [op EXCEPT !.stage = "devitem"]
      /\ sb' = [sb EXCEPT !.total = op.size]
      /\ UNCHANGED <<dev, devItem, item, sys, devExt, chunks, total>>
  BY DEF rewriteSuperblock, At, Step, Goto, memory
<1>3. /\ SizesTyped /\ Working /\ cut = "no" /\ Progress(old, new) /\ sys' \in [DOMAIN item -> Nat]
  BY <1>1, <1>2, StepFrom, Zenon DEF SizesTyped
<1>4. sb'.total = op.size /\ \E R : sb' \in [total : Nat, root : R]
  <2>1. PICK R : sb \in [total : Nat, root : R]
    BY <1>3 DEF SizesTyped
  <2>2. op.size \in Nat
    BY <1>3, OpFields
  <2>3. sb' \in [total : Nat, root : R] /\ sb'.total = op.size
    BY <1>2, <2>1, <2>2
  <2> QED
    BY <2>3
<1>5. SameCall /\ op'.stage = "devitem"
  BY <1>2, <1>3, GoesTo, SMTT(30) DEF Stages
<1>6. op'.kind = op.kind /\ op'.size = op.size /\ OldEnd' = OldEnd
  BY <1>5 DEF SameCall
<1>7. /\ ItemDone /\ ExtDone /\ SysDone /\ MapDone
      /\ ItemDone' /\ ExtDone' /\ SysDone' /\ MapDone' /\ ~MovingStage'
  BY <1>2, <1>5 DEF ItemDone, ExtDone, SysDone, MapDone, MovingStage
<1>8. /\ item = new /\ devExt = new /\ chunks = ChunksOf(new) /\ devItem = OldEnd /\ total = devItem
      /\ (\A s \in DOMAIN old : sys[s] \in {0, new[s]})
      /\ dev = (IF op.kind = "grow" THEN op.size ELSE OldEnd)
  BY <1>2, <1>3, <1>7 DEF Progress
<1>9. Progress(old, new)'
  BY <1>2, <1>4, <1>5, <1>6, <1>7, <1>8, SMTT(30) DEF Progress
<1> QED
  BY <1>1, <1>2, <1>3, <1>4, <1>5, <1>9, StepWorks

\* The last record, after which the size in memory follows.
LEMMA DevItemStep ==
  ASSUME IInv, faults' = 0, rewriteDevItem
  PROVE  IInv'
<1>1. PICK old, new : old = Old /\ new = New
  OBVIOUS
<1>2. /\ op.stage = "devitem" /\ faults = 0 /\ cut' = cut /\ devItem' = op.size /\ total' = op.size
      /\ op' = (IF op.kind = "grow" THEN Idle ELSE [op EXCEPT !.stage = "truncate"])
      /\ UNCHANGED <<dev, item, sys, devExt, chunks, sb>>
  BY DEF rewriteDevItem, At, Goto, Sync, Fault, IInv
<1>3. /\ SizesTyped /\ Working /\ cut = "no" /\ Planned(old, new) /\ Progress(old, new)
      /\ sys' \in [DOMAIN item -> Nat] /\ DOMAIN old = DOMAIN item
      /\ \E R : sb' \in [total : Nat, root : R]
  BY <1>1, <1>2, StepFrom, Zenon DEF SizesTyped
<1>4. ItemDone /\ ExtDone /\ SysDone /\ MapDone
  BY <1>2 DEF ItemDone, ExtDone, SysDone, MapDone, MovingStage
<1>5. /\ item = new /\ devExt = new /\ chunks = ChunksOf(new) /\ sb.total = op.size
      /\ (\A s \in DOMAIN old : sys[s] \in {0, new[s]})
      /\ dev = (IF op.kind = "grow" THEN op.size ELSE OldEnd)
  BY <1>2, <1>3, <1>4 DEF Progress
<1>6. CASE op.kind = "grow"
  <2>1. Spaced(new, op.size)
    BY <1>3 DEF Planned
  <2>2. Settled'
    BY <1>2, <1>3, <1>5, <1>6, <2>1 DEF Settled
  <2>3. /\ dev' \in Nat /\ DOMAIN item' \subseteq Nat /\ item' \in [DOMAIN item' -> Nat]
        /\ sys' \in [DOMAIN item' -> Nat]
    BY <1>2, <1>3 DEF SizesTyped
  <2> QED
    BY <1>2, <1>3, <1>6, <2>2, <2>3, EndsSettled
<1>7. CASE op.kind # "grow"
  <2>1. SameCall /\ op'.stage = "truncate"
    BY <1>2, <1>3, <1>7, GoesTo DEF Stages
  <2>2. op'.kind = op.kind /\ op'.size = op.size /\ OldEnd' = OldEnd
    BY <2>1 DEF SameCall
  <2>3. ItemDone' /\ ExtDone' /\ SysDone' /\ MapDone' /\ ~MovingStage'
    BY <2>1 DEF ItemDone, ExtDone, SysDone, MapDone, MovingStage
  <2>4. Progress(old, new)'
    BY <1>2, <1>5, <1>7, <2>1, <2>2, <2>3, SMTT(30) DEF Progress
  <2> QED
    BY <1>1, <1>2, <1>3, <2>1, <2>4, StepWorks
<1> QED
  BY <1>6, <1>7

\* The device is cut off last.
LEMMA TruncateStep ==
  ASSUME IInv, faults' = 0, truncateDevice
  PROVE  IInv'
<1>1. PICK old, new : old = Old /\ new = New
  OBVIOUS
<1>2. /\ op.stage = "truncate" /\ faults = 0 /\ cut' = cut /\ dev' = op.size /\ op' = Idle
      /\ UNCHANGED <<devItem, item, sys, devExt, chunks, total, sb>>
  BY DEF truncateDevice, At, memory, Sync, Fault, IInv
<1>3. /\ SizesTyped /\ Working /\ cut = "no" /\ Planned(old, new) /\ Progress(old, new)
      /\ DOMAIN old = DOMAIN item /\ \E R : sb' \in [total : Nat, root : R]
  BY <1>1, <1>2, StepFrom, Zenon DEF SizesTyped
<1>4. ItemDone /\ ExtDone /\ SysDone /\ MapDone
  BY <1>2 DEF ItemDone, ExtDone, SysDone, MapDone, MovingStage
<1>5. /\ item = new /\ devExt = new /\ chunks = ChunksOf(new) /\ sb.total = op.size
      /\ (\A s \in DOMAIN old : sys[s] \in {0, new[s]}) /\ devItem = op.size /\ total = op.size
  BY <1>2, <1>3, <1>4 DEF Progress
<1>6. Spaced(new, op.size)
  BY <1>3 DEF Planned
<1>7. Settled'
  BY <1>2, <1>3, <1>5, <1>6 DEF Settled
<1>8. /\ dev' \in Nat /\ DOMAIN item' \subseteq Nat /\ item' \in [DOMAIN item' -> Nat]
      /\ sys' \in [DOMAIN item' -> Nat]
  BY <1>2, <1>3, OpFields DEF SizesTyped
<1> QED
  BY <1>2, <1>3, <1>7, <1>8, EndsSettled

\* Every step keeps the invariant.
LEMMA StepIInv ==
  IInv /\ [Next]_vars => IInv'
<1> SUFFICES ASSUME IInv, [Next]_vars PROVE IInv'
  OBVIOUS
<1>1. CASE UNCHANGED vars
  <2>1. UNCHANGED <<dev, sb, devItem, item, sys, devExt, chunks, total, op, cut, faults>>
    BY <1>1 DEF vars, device, memory
  <2>2. SizesTyped' <=> SizesTyped
    BY <2>1 DEF SizesTyped
  <2>3. (Settled' <=> Settled) /\ (Bounded' <=> Bounded)
    BY <2>1 DEF Settled, Bounded
  <2>4. Working' <=> Working
    BY <2>1 DEF Working, Planned, Progress, Old, New, OldEnd, Start, NewSize, MovingStage,
                ItemDone, ExtDone, SysDone, MapDone
  <2> QED
    BY <2>1, <2>2, <2>3, <2>4 DEF IInv, SizesHold
<1>2. CASE Next
  <2>1. faults' \in Nat
    <3>1. faults' = faults \/ Fault
      BY <1>2, Zenon DEF Next, Relocation, Records, Grow, Shrink, removeWholeTrailingChunk, DeleteFile,
        WriteFile, Mount, relocateExtent, relocateExtentFails, relocateRootTree, relocateDevTree,
        relocateTreeFails, relocated, leftInTail, extendDevice, rewriteChunkItem,
        rewriteSysChunkArrayEntry, rewriteDevExtent, rewriteBlockGroup, finishRelocation,
        commitRelocation, commitFails, rewriteSuperblock, rewriteDevItem, truncateDevice, Sync,
        stepFails, Step
    <3> QED
      BY <3>1, FaultCounts, Zenon DEF IInv
  <2>2. ASSUME faults' = 0 PROVE IInv'
    <3>1. ~Fault
      BY <2>2, FaultCounts
    <3>2. CASE \E n \in Sizes : Grow(n) \/ Shrink(n) \/ removeWholeTrailingChunk(n)
      BY <2>2, <3>2, ResizeBegins
    <3>3. CASE \E f \in Files : DeleteFile(f) \/ \E n \in 1 .. 2 : WriteFile(f, n)
      BY <2>2, <3>3, FilesChange
    <3>4. CASE Mount
      BY <2>2, <3>4, MountAgain
    <3>5. CASE Relocation
      BY <2>2, <3>5, RelocationStep
    <3>6. CASE Records
      <4>1. ~commitFails /\ ~stepFails
        BY <3>1 DEF commitFails, stepFails
      <4> QED
        BY <2>2, <3>6, <4>1, ExtendStep, ItemStep, SysStep, DevExtentStep, GroupStep, CommitStep,
           SuperStep, DevItemStep, TruncateStep DEF Records
    <3> QED
      BY <1>2, <3>2, <3>3, <3>4, <3>5, <3>6 DEF Next
  <2> QED
    BY <2>1, <2>2 DEF IInv
<1> QED
  BY <1>1, <1>2

\* The invariant holds throughout.
LEMMA AlwaysIInv ==
  Spec => []IInv
  BY InitIInv, StepIInv, PTL DEF Spec

\* At every step of Grow and Shrink the device is as long as the superblock and the
\* chunks say, on the device and in memory, for every image and every size: a process
\* that ends anywhere in between leaves an image that a mount accepts.
THEOREM DeviceStaysLongEnough ==
  Spec => []DeviceIsLongEnough
<1>1. IInv => DeviceIsLongEnough
  <2> SUFFICES ASSUME IInv, faults = 0 PROVE Bounded
    BY DEF DeviceIsLongEnough, Bounded
  <2> QED
    BY SettledBounded, WorkingBounded DEF IInv, SizesHold
<1> QED
  BY <1>1, AlwaysIInv, PTL

\* When Grow or Shrink returns without an error, all the records of the sizes agree, on
\* the device and in memory, and the last chunk ends where the device does.
THEOREM SizesStayEqual ==
  Spec => []SizesAgree
<1>1. IInv => SizesAgree
  <2> SUFFICES ASSUME IInv, op = Idle, faults = 0, cut = "no"
               PROVE  /\ sb.total = dev /\ devItem = dev /\ total = dev
                      /\ devExt = item /\ chunks = Mapped
                      /\ \A s \in DOMAIN sys : sys[s] \in {0, item[s]}
                      /\ EndOf(tailChunk) = dev
    BY DEF SizesAgree
  <2>1. SizesTyped /\ Settled
    BY IdleTyped, SMTT(30) DEF IInv, SizesHold
  <2>2. EndOf(tailChunk) = dev
    BY <2>1, TailIsLast
  <2>3. chunks = Mapped /\ DOMAIN sys = DOMAIN item
    BY <2>1, MappedChunks DEF Settled, SizesTyped
  <2> QED
    BY <2>1, <2>2, <2>3 DEF Settled
<1> QED
  BY <1>1, AlwaysIInv, PTL
=============================================================================
