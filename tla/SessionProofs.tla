--------------------------- MODULE SessionProofs ---------------------------
(***************************************************************************)
(* The node cache never serves a stale node, for any number of goroutines, *)
(* blocks and writes.                                                      *)
(***************************************************************************)
EXTENDS Session, TLAPS

\* Who descends a tree has a root to descend from.
ArgKnown ==
  \A t \in Threads : pc[t] \in {"open", "viewread", Reading} => arg[t] \in Blocks

\* An installed cache was built at the present generation or at an earlier one,
\* so that a commit always outdates it.
BuiltBefore == cache.builtGen <= generation

\* While a reader holds the mutex the cache is the one reader() gave it.
ReaderHasCache ==
  \A t \in Threads : pc[t] = Reading => cache.present /\ cache.builtGen = generation

\* Uncommitted writes belong to the mutator that holds the mutex.
DirtyMeansWriting == dirty => \E t \in Threads : mu = t /\ pc[t] = Writing

\* The root holds the last version that was written, unless it was given back.
RootIsNewest == RootIsTaken => disk[root] = last

IInv ==
  /\ TypeOK
  /\ MutualExclusion
  /\ RootIsNewest
  /\ ArgKnown
  /\ BuiltBefore
  /\ ReaderHasCache
  /\ DirtyMeansWriting
  /\ CacheCoherent

----------------------------------------------------------------------------
LEMMA InitIInv == Init => IInv
<1> SUFFICES ASSUME Init PROVE IInv
  OBVIOUS
<1> USE SessionAssumption DEF Init, NoCache, Idle, Reading, Writing, Calls
<1>1. TypeOK
  BY Zenon DEF TypeOK
<1>2. MutualExclusion
  BY DEF MutualExclusion
<1>3. RootIsNewest
  BY DEF RootIsTaken, RootIsNewest
<1>4. ArgKnown /\ BuiltBefore /\ ReaderHasCache /\ DirtyMeansWriting /\ CacheCoherent
  BY DEF ArgKnown, BuiltBefore, ReaderHasCache, DirtyMeansWriting, CacheCoherent
<1> QED
  BY <1>1, <1>2, <1>3, <1>4 DEF IInv

\* Type correctness is preserved by itself.
LEMMA TypeStep == TypeOK /\ ArgKnown /\ [Next]_vars => TypeOK'
<1> SUFFICES ASSUME TypeOK, ArgKnown, [Next]_vars PROVE TypeOK'
  OBVIOUS
<1> USE SessionAssumption DEF TypeOK, Idle, Reading, Writing, Calls, device
<1>1. ASSUME NEW t \in Threads, NEW c \in Calls, Call(t, c) PROVE TypeOK'
  BY <1>1 DEF Call
<1>2. ASSUME NEW t \in Threads, LockForRead(t) PROVE TypeOK'
  <2>1. cache' \in [present : BOOLEAN, builtGen : Nat, nodes : [Blocks -> Nat \cup {Absent}]]
    BY <1>2 DEF LockForRead, reader, newCachedReader
  <2> QED
    BY <1>2, <2>1 DEF LockForRead
<1>3. ASSUME NEW t \in Threads, readNode(t) PROVE TypeOK'
  <2>1. arg[t] \in Blocks
    BY <1>3 DEF readNode, ArgKnown
  <2> QED
    BY <1>3, <2>1 DEF readNode
<1>4. ASSUME NEW t \in Threads, UnlockRead(t) PROVE TypeOK'
  BY <1>4 DEF UnlockRead
<1>5. ASSUME NEW t \in Threads, OpenSubvolume(t) PROVE TypeOK'
  BY <1>5 DEF OpenSubvolume
<1>6. ASSUME NEW t \in Threads, LockForWrite(t) PROVE TypeOK'
  BY <1>6 DEF LockForWrite
<1>7. ASSUME NEW t \in Threads, NEW b \in Blocks, CowStep(t, b) PROVE TypeOK'
  BY <1>7 DEF CowStep
<1>8. ASSUME NEW t \in Threads, Commit(t) PROVE TypeOK'
  <2>1. /\ generation' = generation + 1
        /\ dirty' = FALSE
        /\ UNCHANGED <<mu, root, disk, free, cache, last, pc, arg, view, got>>
        /\ rootItem' = root
    BY <1>8, Zenon DEF Commit
  <2>2. generation' \in Nat
    BY <2>1
  <2>3. dirty' \in BOOLEAN
    BY <2>1, Zenon
  <2> HIDE SessionAssumption DEF Idle, Reading, Writing, Calls, device
  <2> QED
    BY <2>1, <2>2, <2>3, Zenon
<1>9. ASSUME NEW t \in Threads, UnlockWrite(t) PROVE TypeOK'
  BY <1>9, Zenon DEF UnlockWrite, NoCache
<1>10. ASSUME NEW t \in Threads, UnlockBypass(t) PROVE TypeOK'
  BY <1>10 DEF UnlockBypass
<1>12. ASSUME NEW t \in Threads, NEW b \in Blocks, cowDeletePrefixFails(t, b) PROVE TypeOK'
  <2>1. /\ mu' = Nobody
        /\ cache' = NoCache
        /\ dirty' = FALSE
        /\ UNCHANGED <<root, rootItem, generation, arg, view, got>>
    BY <1>12, Zenon DEF cowDeletePrefixFails
  <2>2. /\ disk' \in [Blocks -> Nat]
        /\ last' \in Nat
        /\ free' \in SUBSET Blocks
        /\ pc' \in [Threads -> {Idle, Reading, Writing} \cup Calls]
    BY <1>12 DEF cowDeletePrefixFails
  <2>3. cache' \in [present : BOOLEAN, builtGen : Nat, nodes : [Blocks -> Nat \cup {Absent}]]
    BY <2>1 DEF NoCache
  <2>4. dirty' \in BOOLEAN /\ mu' \in Threads \cup {Nobody}
    BY <2>1, Zenon
  <2> HIDE SessionAssumption DEF Idle, Reading, Writing, Calls, device
  <2> QED
    BY <2>1, <2>2, <2>3, <2>4, Zenon
<1>11. CASE UNCHANGED vars
  BY <1>11 DEF vars
<1> QED
  BY <1>1, <1>2, <1>3, <1>4, <1>5, <1>6, <1>7, <1>8, <1>9, <1>10, <1>11, <1>12 DEF Next, Step

\* The facts about the mutex and about who may be where.
LEMMA MutexStep ==
  IInv /\ [Next]_vars => MutualExclusion' /\ RootIsNewest' /\ ArgKnown'
<1> SUFFICES ASSUME IInv, [Next]_vars PROVE MutualExclusion' /\ RootIsNewest' /\ ArgKnown'
  OBVIOUS
<1> USE SessionAssumption
    DEF IInv, TypeOK, MutualExclusion, RootIsTaken, RootIsNewest, ArgKnown, Idle, Reading, Writing, Calls, device
<1>1. ASSUME NEW t \in Threads, NEW c \in Calls, Call(t, c)
      PROVE MutualExclusion' /\ RootIsNewest' /\ ArgKnown'
  BY <1>1 DEF Call
<1>2. ASSUME NEW t \in Threads, LockForRead(t)
      PROVE MutualExclusion' /\ RootIsNewest' /\ ArgKnown'
  BY <1>2 DEF LockForRead
<1>3. ASSUME NEW t \in Threads, readNode(t)
      PROVE MutualExclusion' /\ RootIsNewest' /\ ArgKnown'
  BY <1>3 DEF readNode
<1>4. ASSUME NEW t \in Threads, UnlockRead(t)
      PROVE MutualExclusion' /\ RootIsNewest' /\ ArgKnown'
  BY <1>4 DEF UnlockRead
<1>5. ASSUME NEW t \in Threads, OpenSubvolume(t)
      PROVE MutualExclusion' /\ RootIsNewest' /\ ArgKnown'
  BY <1>5 DEF OpenSubvolume
<1>6. ASSUME NEW t \in Threads, LockForWrite(t)
      PROVE MutualExclusion' /\ RootIsNewest' /\ ArgKnown'
  BY <1>6 DEF LockForWrite
<1>7. ASSUME NEW t \in Threads, NEW b \in Blocks, CowStep(t, b)
      PROVE MutualExclusion' /\ RootIsNewest' /\ ArgKnown'
  BY <1>7 DEF CowStep
<1>8. ASSUME NEW t \in Threads, Commit(t)
      PROVE MutualExclusion' /\ RootIsNewest' /\ ArgKnown'
  BY <1>8 DEF Commit
<1>9. ASSUME NEW t \in Threads, UnlockWrite(t)
      PROVE MutualExclusion' /\ RootIsNewest' /\ ArgKnown'
  BY <1>9 DEF UnlockWrite
<1>10. ASSUME NEW t \in Threads, UnlockBypass(t)
       PROVE MutualExclusion' /\ RootIsNewest' /\ ArgKnown'
  BY <1>10 DEF UnlockBypass
<1>12. ASSUME NEW t \in Threads, NEW b \in Blocks, cowDeletePrefixFails(t, b)
       PROVE MutualExclusion' /\ RootIsNewest' /\ ArgKnown'
  BY <1>12 DEF cowDeletePrefixFails
<1>11. CASE UNCHANGED vars
  BY <1>11 DEF vars
<1> QED
  BY <1>1, <1>2, <1>3, <1>4, <1>5, <1>6, <1>7, <1>8, <1>9, <1>10, <1>11, <1>12 DEF Next, Step

\* Commits outdate the cache, and a cache is rebuilt before it is used.
LEMMA CacheAgeStep ==
  IInv /\ [Next]_vars => BuiltBefore' /\ ReaderHasCache'
<1> SUFFICES ASSUME IInv, [Next]_vars PROVE BuiltBefore' /\ ReaderHasCache'
  OBVIOUS
<1> USE SessionAssumption
    DEF IInv, TypeOK, MutualExclusion, BuiltBefore, ReaderHasCache, Idle, Reading, Writing, Calls, device
<1>1. ASSUME NEW t \in Threads, NEW c \in Calls, Call(t, c)
      PROVE BuiltBefore' /\ ReaderHasCache'
  BY <1>1 DEF Call
<1>2. ASSUME NEW t \in Threads, LockForRead(t)
      PROVE BuiltBefore' /\ ReaderHasCache'
  BY <1>2 DEF LockForRead, reader, newCachedReader
<1>3. ASSUME NEW t \in Threads, readNode(t)
      PROVE BuiltBefore' /\ ReaderHasCache'
  BY <1>3 DEF readNode
<1>4. ASSUME NEW t \in Threads, UnlockRead(t)
      PROVE BuiltBefore' /\ ReaderHasCache'
  BY <1>4 DEF UnlockRead
<1>5. ASSUME NEW t \in Threads, OpenSubvolume(t)
      PROVE BuiltBefore' /\ ReaderHasCache'
  BY <1>5 DEF OpenSubvolume
<1>6. ASSUME NEW t \in Threads, LockForWrite(t)
      PROVE BuiltBefore' /\ ReaderHasCache'
  BY <1>6 DEF LockForWrite
<1>7. ASSUME NEW t \in Threads, NEW b \in Blocks, CowStep(t, b)
      PROVE BuiltBefore' /\ ReaderHasCache'
  BY <1>7 DEF CowStep
<1>8. ASSUME NEW t \in Threads, Commit(t)
      PROVE BuiltBefore' /\ ReaderHasCache'
  BY <1>8 DEF Commit
<1>9. ASSUME NEW t \in Threads, UnlockWrite(t)
      PROVE BuiltBefore' /\ ReaderHasCache'
  BY <1>9 DEF UnlockWrite, NoCache
<1>10. ASSUME NEW t \in Threads, UnlockBypass(t)
       PROVE BuiltBefore' /\ ReaderHasCache'
  BY <1>10 DEF UnlockBypass
<1>12. ASSUME NEW t \in Threads, NEW b \in Blocks, cowDeletePrefixFails(t, b)
       PROVE BuiltBefore' /\ ReaderHasCache'
  BY <1>12 DEF cowDeletePrefixFails, NoCache
<1>11. CASE UNCHANGED vars
  BY <1>11 DEF vars
<1> QED
  BY <1>1, <1>2, <1>3, <1>4, <1>5, <1>6, <1>7, <1>8, <1>9, <1>10, <1>11, <1>12 DEF Next, Step

\* Only the holder of the mutex writes, and it leaves nothing uncommitted with a
\* cache in place.
LEMMA CoherenceStep ==
  IInv /\ [Next]_vars => DirtyMeansWriting' /\ CacheCoherent'
<1> SUFFICES ASSUME IInv, [Next]_vars PROVE DirtyMeansWriting' /\ CacheCoherent'
  OBVIOUS
<1> USE SessionAssumption
    DEF IInv, TypeOK, MutualExclusion, BuiltBefore, ReaderHasCache, DirtyMeansWriting,
        CacheCoherent, Idle, Reading, Writing, Calls, device
<1>1. ASSUME NEW t \in Threads, NEW c \in Calls, Call(t, c)
      PROVE DirtyMeansWriting' /\ CacheCoherent'
  BY <1>1 DEF Call
<1>2. ASSUME NEW t \in Threads, LockForRead(t)
      PROVE DirtyMeansWriting' /\ CacheCoherent'
  BY <1>2 DEF LockForRead, reader, newCachedReader
<1>3. ASSUME NEW t \in Threads, readNode(t)
      PROVE DirtyMeansWriting' /\ CacheCoherent'
  BY <1>3 DEF readNode, ArgKnown
<1>4. ASSUME NEW t \in Threads, UnlockRead(t)
      PROVE DirtyMeansWriting' /\ CacheCoherent'
  BY <1>4 DEF UnlockRead
<1>5. ASSUME NEW t \in Threads, OpenSubvolume(t)
      PROVE DirtyMeansWriting' /\ CacheCoherent'
  BY <1>5 DEF OpenSubvolume
<1>6. ASSUME NEW t \in Threads, LockForWrite(t)
      PROVE DirtyMeansWriting' /\ CacheCoherent'
  BY <1>6 DEF LockForWrite
<1>7. ASSUME NEW t \in Threads, NEW b \in Blocks, CowStep(t, b)
      PROVE DirtyMeansWriting' /\ CacheCoherent'
  BY <1>7 DEF CowStep
<1>8. ASSUME NEW t \in Threads, Commit(t)
      PROVE DirtyMeansWriting' /\ CacheCoherent'
  BY <1>8 DEF Commit
<1>9. ASSUME NEW t \in Threads, UnlockWrite(t)
      PROVE DirtyMeansWriting' /\ CacheCoherent'
  BY <1>9 DEF UnlockWrite, NoCache
<1>10. ASSUME NEW t \in Threads, UnlockBypass(t)
       PROVE DirtyMeansWriting' /\ CacheCoherent'
  BY <1>10 DEF UnlockBypass
<1>12. ASSUME NEW t \in Threads, NEW b \in Blocks, cowDeletePrefixFails(t, b)
       PROVE DirtyMeansWriting' /\ CacheCoherent'
  BY <1>12 DEF cowDeletePrefixFails, NoCache
<1>11. CASE UNCHANGED vars
  BY <1>11 DEF vars
<1> QED
  BY <1>1, <1>2, <1>3, <1>4, <1>5, <1>6, <1>7, <1>8, <1>9, <1>10, <1>11, <1>12 DEF Next, Step

LEMMA StepIInv == IInv /\ [Next]_vars => IInv'
BY TypeStep, MutexStep, CacheAgeStep, CoherenceStep, Zenon DEF IInv

\* Every reachable state satisfies the inductive invariant.
LEMMA Invariance == Spec => []IInv
BY InitIInv, StepIInv, PTL DEF Spec

----------------------------------------------------------------------------
\* The variables of the session keep their types.
THEOREM TypeCorrect == Spec => []TypeOK
<1>1. IInv => TypeOK
  BY DEF IInv
<1> QED
  BY <1>1, Invariance, PTL

\* Two goroutines are never inside methods of the file system together.
THEOREM MutexHeld == Spec => []MutualExclusion
<1>1. IInv => MutualExclusion
  BY DEF IInv
<1> QED
  BY <1>1, Invariance, PTL

\* A cache that reader() hands out agrees with the device at every address, for
\* writers that return through invalidateCache and for writers that only commit.
THEOREM CacheIsCoherent == Spec => []CacheCoherent
<1>1. IInv => CacheCoherent
  BY DEF IInv
<1> QED
  BY <1>1, Invariance, PTL

\* No read through the cache returns anything but what the device holds.
THEOREM NeverStale == Spec => ServedIsCurrent
<1>1. IInv /\ [Next]_vars => [ServedFromDevice]_vars
  <2> SUFFICES ASSUME IInv, Next PROVE ServedFromDevice
    BY DEF vars, ServedFromDevice
  <2> USE SessionAssumption
      DEF IInv, TypeOK, MutualExclusion, ReaderHasCache, DirtyMeansWriting, CacheCoherent,
          ArgKnown, ServedFromDevice, Idle, Reading, Writing, Calls, device
  <2>1. ASSUME NEW t \in Threads, readNode(t) PROVE ServedFromDevice
    <3>1. arg[t] \in Blocks /\ cache.present /\ cache.builtGen = generation
      BY <2>1 DEF readNode
    <3>2. ~dirty
      BY <2>1 DEF readNode
    <3>3. got' = [got EXCEPT ![t] = disk[arg[t]]]
      BY <2>1, <3>1, <3>2, Zenon DEF readNode
    <3> QED
      BY <3>3
  <2>2. ASSUME NEW t \in Threads, NEW c \in Calls, Call(t, c) PROVE ServedFromDevice
    BY <2>2 DEF Call
  <2>3. ASSUME got' = got PROVE ServedFromDevice
    BY <2>3
  <2>4. ASSUME NEW t \in Threads, Step(t), ~readNode(t) PROVE got' = got
    BY <2>4 DEF Step, LockForRead, UnlockRead, OpenSubvolume, LockForWrite, CowStep,
                cowDeletePrefixFails, Commit, UnlockWrite, UnlockBypass
  <2> QED
    BY <2>1, <2>2, <2>3, <2>4 DEF Next
<1> QED
  BY <1>1, Invariance, PTL DEF Spec, ServedIsCurrent

\* ReadFile and its like start at the root that holds the last write, unless a
\* failed prefix delete has given that root back.
THEOREM ReadsAreNewest == Spec => ReadsNewestTree
<1>1. IInv /\ [Next]_vars => [LockSeesNewest]_vars
  <2> SUFFICES ASSUME IInv, Next PROVE LockSeesNewest
    BY Zenon DEF vars, LockSeesNewest
  <2> USE SessionAssumption
      DEF IInv, TypeOK, RootIsNewest, RootIsTaken, LockSeesNewest, Idle, Reading, Writing, Calls, device
  <2>1. ASSUME NEW t \in Threads, LockForRead(t) PROVE LockSeesNewest
    BY <2>1 DEF LockForRead
  <2>2. ASSUME NEW t \in Threads, NEW c \in Calls, Call(t, c) PROVE LockSeesNewest
    BY <2>2 DEF Call
  <2>3. ASSUME NEW t \in Threads, Step(t), ~LockForRead(t) PROVE LockSeesNewest
    BY <2>3 DEF Step, readNode, UnlockRead, OpenSubvolume, LockForWrite, CowStep,
                cowDeletePrefixFails, Commit, UnlockWrite, UnlockBypass
  <2> QED
    BY <2>1, <2>2, <2>3 DEF Next
<1> QED
  BY <1>1, Invariance, PTL DEF Spec, ReadsNewestTree
=============================================================================
