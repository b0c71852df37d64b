--------------------------- MODULE LockfileProofs ---------------------------
(***************************************************************************)
(* Proofs about Lockfile for any number of processes and goroutines: its   *)
(* inductive invariant, the exclusion it gives, and that it implements     *)
(* ReaderWriterLock.                                                       *)
(***************************************************************************)
EXTENDS Lockfile, FiniteSetTheorems, TLAPS

USE ProcOfAssumption, MethodAssumption, BoundAssumption, NoneAssumption

-----------------------------------------------------------------------------
\* The sets that counter and rwReaders count are finite: both are subsets of
\* the bounded set of acquisitions.
LEMMA AcquisitionFinite ==
    ASSUME NEW S \in SUBSET Acquisition
    PROVE  IsFiniteSet(S)
<1>1. IsFiniteSet(1..MaxDepth)
  BY FS_Interval
<1>2. IsFiniteSet(Acquisition)
  BY <1>1, FiniteAssumption, FS_Product DEF Acquisition
<1> QED
  BY <1>2, FS_Subset

\* counter++ and rwMutex.RLock: one acquisition more is counted.
LEMMA CountAdded ==
    ASSUME NEW S \in SUBSET Acquisition, NEW a, a \notin S
    PROVE  Cardinality(S \cup {a}) = Cardinality(S) + 1
BY AcquisitionFinite, FS_AddElement

\* counter-- and rwMutex.RUnlock: one acquisition less is counted.
LEMMA CountRemoved ==
    ASSUME NEW S \in SUBSET Acquisition, NEW a \in S
    PROVE  Cardinality(S \ {a}) = Cardinality(S) - 1
BY AcquisitionFinite, FS_RemoveElement

\* A count is a natural number, and zero exactly for the empty set.
LEMMA CountType ==
    ASSUME NEW S \in SUBSET Acquisition
    PROVE  /\ Cardinality(S) \in Nat
           /\ Cardinality(S) = 0 <=> S = {}
BY AcquisitionFinite, FS_CardinalityType, FS_EmptySet

\* A goroutine that holds the lock is counted by its process.
LEMMA HolderCounted ==
    ASSUME Inv, NEW g \in Goroutine, Holds(g)
    PROVE  counter[ProcOf[g]] > 0
<1> DEFINE p == ProcOf[g]
<1>1. <<g, 1>> \in HeldIn(p)
  BY DEF Inv, TypeOK, Holds, HeldIn, Acquisition
<1>2. Cardinality(HeldIn(p)) > 0
  BY <1>1, CountType DEF HeldIn
<1> QED
  BY <1>2 DEF Inv, StateInv

\* A goroutine inside rwMutex as a reader is counted by rwReaders.
LEMMA ReaderCounted ==
    ASSUME Inv, NEW g \in Goroutine, EntersAsReader(mode[g]),
           Holds(g) \/ pc[g] \in {"stateMutex", "fcntl"}
    PROVE  rwReaders[ProcOf[g]] > 0
<1> DEFINE p == ProcOf[g]
<1>1. Entered(g) \in Nat /\ Entered(g) >= 1
  BY DEF Inv, TypeOK, Holds, Entered
<1>2. <<g, 1>> \in ReadersIn(p)
  BY <1>1 DEF ReadersIn, Acquisition
<1>3. Cardinality(ReadersIn(p)) > 0
  BY <1>2, CountType DEF ReadersIn
<1> QED
  BY <1>3 DEF Inv, RWMutexInv

\* A process that counts something has a goroutine that holds the lock.
LEMMA SomeHolder ==
    ASSUME Inv, NEW p \in Proc, counter[p] > 0
    PROVE  \E g \in Goroutine : ProcOf[g] = p /\ Holds(g)
<1>1. HeldIn(p) # {}
  <2>1. Cardinality(HeldIn(p)) # 0
    BY DEF Inv, StateInv, TypeOK
  <2>2. HeldIn(p) \in SUBSET Acquisition
    BY DEF HeldIn
  <2> QED
    BY <2>1, <2>2, CountType
<1>2. PICK a \in HeldIn(p) : TRUE
  BY <1>1
<1>3. a[1] \in Goroutine /\ ProcOf[a[1]] = p /\ a[2] \in 1..MaxDepth /\ a[2] <= depth[a[1]]
  BY <1>2 DEF HeldIn, Acquisition
<1> QED
  BY <1>3 DEF Holds, Inv, TypeOK

\* Holders in one process got the lock the same way, and a Lock holder is
\* alone in its process.
LEMMA SameProcess ==
    ASSUME NoMixing, Inv,
           NEW g \in Goroutine, NEW h \in Goroutine, g # h,
           ProcOf[g] = ProcOf[h], Holds(h),
           Holds(g) \/ pc[g] \in {"stateMutex", "fcntl"}
    PROVE  mode[g] # "Lock" /\ mode[h] = mode[g]
<1>1. mode[g] \in Method /\ mode[h] \in Method
  BY DEF Inv, CallInv
<1>2. mode[g] # "Lock"
  <2> SUFFICES ASSUME mode[g] = "Lock" PROVE FALSE
    OBVIOUS
  <2>1. WriterIn(g) /\ pc[g] # "announced"
    BY DEF WriterIn, Inv, CallInv
  <2>2. rwWriter[ProcOf[g]] = g /\ rwReaders[ProcOf[g]] = 0
    BY <2>1 DEF Inv, RWMutexInv
  <2>3. mode[h] # "Lock"
    BY <2>2 DEF Inv, RWMutexInv, WriterIn
  <2> QED
    BY <2>2, <2>3, ReaderCounted DEF EntersAsReader, Inv, TypeOK
<1>3. mode[h] # "Lock"
  <2> SUFFICES ASSUME mode[h] = "Lock" PROVE FALSE
    OBVIOUS
  <2>1. WriterIn(h) /\ pc[h] # "announced"
    BY DEF WriterIn, Inv, CallInv
  <2>2. rwReaders[ProcOf[h]] = 0
    BY <2>1 DEF Inv, RWMutexInv
  <2> QED
    BY <1>2, <2>2, ReaderCounted DEF EntersAsReader, Inv, TypeOK
<1> QED
  BY <1>1, <1>2, <1>3 DEF NoMixing, Acquirers

-----------------------------------------------------------------------------
\* One lemma per action: it preserves the inductive invariant.
LEMMA CallKeepsInv ==
    ASSUME Inv, NEW g \in Goroutine, NEW m \in Method, Call(g, m)
    PROVE  Inv'
<1> USE DEF Inv
<1>1. TypeOK'
  BY DEF TypeOK, Call, PC, object, rwMutex
<1>2. CallInv'
  BY DEF TypeOK, CallInv, Call, Holds
<1>3. ASSUME NEW p \in Proc
      PROVE  HeldIn(p)' = HeldIn(p) /\ ReadersIn(p)' = ReadersIn(p)
  <2>1. HeldIn(p)' = HeldIn(p)
    BY DEF HeldIn, Call
  <2>2. ASSUME NEW h \in Goroutine
        PROVE  \/ mode'[h] = mode[h] /\ Entered(h)' = Entered(h)
               \/ Entered(h)' = 0 /\ Entered(h) = 0
    BY DEF TypeOK, Call, Entered
  <2>3. ASSUME NEW a \in Acquisition
        PROVE  (EntersAsReader(mode[a[1]]) /\ a[2] <= Entered(a[1]))'
                 <=> (EntersAsReader(mode[a[1]]) /\ a[2] <= Entered(a[1]))
    <3>1. a[1] \in Goroutine /\ a[2] \in 1..MaxDepth
      BY DEF Acquisition
    <3> QED
      BY <3>1, <2>2
  <2> QED
    BY <2>1, <2>3 DEF ReadersIn
<1>4. RWMutexInv'
  BY <1>3 DEF TypeOK, RWMutexInv, Call, WriterIn, Holds, rwMutex
<1>5. StateInv'
  BY <1>3 DEF TypeOK, StateInv, Call, Holds, object
<1>6. FcntlInv'
  BY DEF FcntlInv, Call
<1> QED
  BY <1>1, <1>2, <1>4, <1>5, <1>6

LEMMA RWRLockKeepsInv ==
    ASSUME Inv, NEW g \in Goroutine, RWRLock(g)
    PROVE  Inv'
<1> USE DEF Inv
<1> DEFINE P == ProcOf[g]
           new == <<g, depth[g] + 1>>
<1>1. TypeOK'
  BY DEF TypeOK, RWRLock, PC, object
<1>2. CallInv'
  BY DEF TypeOK, CallInv, RWRLock, Holds
<1>3. ASSUME NEW p \in Proc PROVE HeldIn(p)' = HeldIn(p)
  BY DEF HeldIn, RWRLock
<1>4. ASSUME NEW p \in Proc, p # P PROVE ReadersIn(p)' = ReadersIn(p)
  <2>1. ASSUME NEW h \in Goroutine, h # g
        PROVE  Entered(h)' = Entered(h) /\ mode'[h] = mode[h]
    BY <2>1 DEF TypeOK, RWRLock, Entered
  <2> QED
    BY <1>4, <2>1 DEF ReadersIn, Acquisition
<1>5. ReadersIn(P)' = ReadersIn(P) \cup {new} /\ new \notin ReadersIn(P)
  <2>1. ASSUME NEW h \in Goroutine
        PROVE  /\ mode'[h] = mode[h]
               /\ Entered(h)' = IF h = g THEN Entered(h) + 1 ELSE Entered(h)
    BY DEF TypeOK, RWRLock, Entered
  <2>2. Entered(g) = depth[g] /\ depth[g] + 1 \in 1..MaxDepth
    BY DEF TypeOK, RWRLock, Entered, CallInv
  <2>3. EntersAsReader(mode[g])
    BY DEF RWRLock
  <2>4. new \in Acquisition /\ new \notin ReadersIn(P)
    BY <2>2 DEF Acquisition, ReadersIn, TypeOK
  <2>5. ASSUME NEW a \in Acquisition
        PROVE  a \in ReadersIn(P)' <=> a \in ReadersIn(P) \cup {new}
    <3>1. a[1] \in Goroutine /\ a[2] \in 1..MaxDepth /\ a = <<a[1], a[2]>>
      BY DEF Acquisition
    <3>2. CASE a[1] # g
      BY <3>1, <3>2, <2>1 DEF ReadersIn
    <3>3. CASE a[1] = g
      <4>1. a \in ReadersIn(P)' <=> a[2] <= depth[g] + 1
        BY <3>1, <3>3, <2>1, <2>2, <2>3 DEF ReadersIn
      <4>2. a \in ReadersIn(P) <=> a[2] <= depth[g]
        BY <3>1, <3>3, <2>2, <2>3 DEF ReadersIn
      <4>3. a = new <=> a[2] = depth[g] + 1
        BY <3>1, <3>3
      <4> QED
        BY <4>1, <4>2, <4>3, <3>1 DEF TypeOK
    <3> QED
      BY <3>2, <3>3
  <2> QED
    BY <2>4, <2>5 DEF ReadersIn
<1>6. Cardinality(ReadersIn(P)') = Cardinality(ReadersIn(P)) + 1
  BY <1>5, CountAdded DEF ReadersIn
<1>7. RWMutexInv'
  <2>1. ASSUME NEW p \in Proc
        PROVE  rwReaders'[p] = Cardinality(ReadersIn(p)')
    BY <1>4, <1>6 DEF TypeOK, RWMutexInv, RWRLock
  <2>2. ASSUME NEW h \in Goroutine
        PROVE  WriterIn(h)' <=> WriterIn(h)
    BY DEF TypeOK, RWRLock, WriterIn, Holds, EntersAsReader
  <2>3. rwWriter' = rwWriter /\ rwWriter[P] = None
    BY DEF RWRLock
  <2>4. ASSUME NEW h \in Goroutine, WriterIn(h)
        PROVE  ProcOf[h] # P /\ (pc'[h] = pc[h])
    BY <2>3, <2>4 DEF RWMutexInv, TypeOK, RWRLock, WriterIn, EntersAsReader
  <2>5. ASSUME NEW p \in Proc, p # P PROVE rwReaders'[p] = rwReaders[p]
    BY <2>5 DEF TypeOK, RWRLock
  <2> QED
    BY <2>1, <2>2, <2>3, <2>4, <2>5 DEF RWMutexInv, TypeOK
<1>8. StateInv'
  BY <1>3 DEF TypeOK, StateInv, RWRLock, Holds, object
<1>9. FcntlInv'
  BY DEF FcntlInv, RWRLock
<1> QED
  BY <1>1, <1>2, <1>7, <1>8, <1>9

LEMMA RWAnnounceKeepsInv ==
    ASSUME Inv, NEW g \in Goroutine, RWAnnounce(g)
    PROVE  Inv'
<1> USE DEF Inv
<1>1. TypeOK'
  BY DEF TypeOK, RWAnnounce, PC, object
<1>2. CallInv'
  BY DEF TypeOK, CallInv, RWAnnounce, Holds, EntersAsReader, Acquirers
<1>3. ASSUME NEW p \in Proc
      PROVE  HeldIn(p)' = HeldIn(p) /\ ReadersIn(p)' = ReadersIn(p)
  <2>1. ASSUME NEW h \in Goroutine
        PROVE  Entered(h)' = Entered(h) /\ mode'[h] = mode[h]
    BY DEF TypeOK, RWAnnounce, Entered
  <2> QED
    BY <2>1 DEF HeldIn, ReadersIn, Acquisition, RWAnnounce
<1>4. RWMutexInv'
  BY <1>3 DEF TypeOK, RWMutexInv, RWAnnounce, WriterIn, Holds, EntersAsReader, Acquirers
<1>5. StateInv'
  BY <1>3 DEF TypeOK, StateInv, RWAnnounce, Holds, object
<1>6. FcntlInv'
  BY DEF FcntlInv, RWAnnounce
<1> QED
  BY <1>1, <1>2, <1>4, <1>5, <1>6

LEMMA RWLockKeepsInv ==
    ASSUME Inv, NEW g \in Goroutine, RWLock(g)
    PROVE  Inv'
<1> USE DEF Inv
<1>1. TypeOK'
  BY DEF TypeOK, RWLock, PC, object, rwMutex
<1>2. CallInv'
  BY DEF TypeOK, CallInv, RWLock, Holds
<1>3. ASSUME NEW p \in Proc
      PROVE  HeldIn(p)' = HeldIn(p) /\ ReadersIn(p)' = ReadersIn(p)
  <2>1. ASSUME NEW h \in Goroutine
        PROVE  /\ mode'[h] = mode[h]
               /\ EntersAsReader(mode[h]) => Entered(h)' = Entered(h)
    BY DEF TypeOK, RWLock, Entered, CallInv, EntersAsReader
  <2> QED
    BY <2>1 DEF HeldIn, ReadersIn, Acquisition, RWLock
<1>4. RWMutexInv'
  BY <1>3 DEF TypeOK, RWMutexInv, RWLock, WriterIn, Holds, rwMutex
<1>5. StateInv'
  BY <1>3 DEF TypeOK, StateInv, RWLock, Holds, object
<1>6. FcntlInv'
  BY DEF FcntlInv, RWLock
<1> QED
  BY <1>1, <1>2, <1>4, <1>5, <1>6

LEMMA OpenKeepsInv ==
    ASSUME Inv, NEW g \in Goroutine, Open(g)
    PROVE  Inv'
<1> USE DEF Inv
<1>1. TypeOK'
  BY DEF TypeOK, Open, PC, object, rwMutex
<1>2. CallInv'
  BY DEF TypeOK, CallInv, Open, Holds
<1>3. ASSUME NEW p \in Proc
      PROVE  HeldIn(p)' = HeldIn(p) /\ ReadersIn(p)' = ReadersIn(p)
  <2>1. ASSUME NEW h \in Goroutine
        PROVE  mode'[h] = mode[h] /\ Entered(h)' = Entered(h)
    BY DEF TypeOK, Open, Entered
  <2> QED
    BY <2>1 DEF HeldIn, ReadersIn, Acquisition, Open
<1>4. RWMutexInv'
  BY <1>3 DEF TypeOK, RWMutexInv, Open, WriterIn, Holds, rwMutex
<1>5. StateInv'
  BY <1>3 DEF TypeOK, StateInv, Open, Holds, object
<1>6. FcntlInv'
  BY DEF FcntlInv, Open
<1> QED
  BY <1>1, <1>2, <1>4, <1>5, <1>6

\* The end of lock() counts one more acquisition and does not change who is
\* inside rwMutex.
LEMMA AcquiredCounts ==
    ASSUME Inv, NEW g \in Goroutine, Acquired(g), mode' = mode,
           pc[g] \in {"stateMutex", "fcntl"}
    PROVE  /\ depth[g] + 1 \in 1..MaxDepth
           /\ \A p \in Proc : ReadersIn(p)' = ReadersIn(p)
           /\ \A p \in Proc : Cardinality(HeldIn(p)') = counter'[p]
<1> USE DEF Inv
<1> DEFINE P == ProcOf[g]
           new == <<g, depth[g] + 1>>
<1>1. depth[g] + 1 \in 1..MaxDepth
  BY DEF TypeOK, CallInv
<1>2. ASSUME NEW p \in Proc PROVE ReadersIn(p)' = ReadersIn(p)
  <2>1. ASSUME NEW h \in Goroutine PROVE Entered(h)' = Entered(h)
    BY DEF TypeOK, Acquired, Entered
  <2> QED
    BY <2>1 DEF ReadersIn, Acquisition
<1>3. ASSUME NEW p \in Proc, p # P PROVE HeldIn(p)' = HeldIn(p)
  BY <1>3 DEF HeldIn, Acquisition, Acquired, TypeOK
<1>4. HeldIn(P)' = HeldIn(P) \cup {new} /\ new \notin HeldIn(P)
  <2>1. new \in Acquisition /\ new \notin HeldIn(P)
    BY <1>1 DEF Acquisition, HeldIn, TypeOK
  <2>2. ASSUME NEW a \in Acquisition
        PROVE  a \in HeldIn(P)' <=> a \in HeldIn(P) \cup {new}
    <3>1. a[1] \in Goroutine /\ a[2] \in 1..MaxDepth /\ a = <<a[1], a[2]>>
      BY DEF Acquisition
    <3>2. CASE a[1] # g
      BY <3>1, <3>2 DEF HeldIn, Acquired, TypeOK
    <3>3. CASE a[1] = g
      <4>1. a \in HeldIn(P)' <=> a[2] <= depth[g] + 1
        BY <3>1, <3>3 DEF HeldIn, Acquired, TypeOK
      <4>2. a \in HeldIn(P) <=> a[2] <= depth[g]
        BY <3>1, <3>3 DEF HeldIn
      <4>3. a = new <=> a[2] = depth[g] + 1
        BY <3>1, <3>3
      <4> QED
        BY <4>1, <4>2, <4>3, <3>1 DEF TypeOK
    <3> QED
      BY <3>2, <3>3
  <2> QED
    BY <2>1, <2>2 DEF HeldIn
<1>5. Cardinality(HeldIn(P)') = Cardinality(HeldIn(P)) + 1
  BY <1>4, CountAdded DEF HeldIn
<1>6. ASSUME NEW p \in Proc PROVE Cardinality(HeldIn(p)') = counter'[p]
  BY <1>3, <1>5 DEF Acquired, TypeOK, StateInv
<1> QED
  BY <1>1, <1>2, <1>6

LEMMA ShareKeepsInv ==
    ASSUME NoMixing, Inv, NEW g \in Goroutine, Share(g)
    PROVE  Inv'
<1> USE DEF Inv
<1> DEFINE P == ProcOf[g]
<1>1. Acquired(g) /\ mode' = mode /\ pc[g] = "stateMutex"
  BY DEF Share
<1>2. /\ depth[g] + 1 \in 1..MaxDepth
      /\ \A p \in Proc : ReadersIn(p)' = ReadersIn(p)
      /\ \A p \in Proc : Cardinality(HeldIn(p)') = counter'[p]
  BY <1>1, AcquiredCounts
<1>3. PICK h \in Goroutine : ProcOf[h] = P /\ Holds(h)
  BY SomeHolder DEF Share
<1>4. mode[g] = mode[h] /\ mode[g] # "Lock"
  BY <1>1, <1>3, SameProcess DEF CallInv, Acquirers
<1>5. TypeOK'
  BY <1>2 DEF TypeOK, Share, Acquired, PC, LockType, lType, rwMutex
<1>6. CallInv'
  BY <1>2 DEF TypeOK, CallInv, Share, Acquired, Holds
<1>7. RWMutexInv'
  BY <1>1, <1>2, <1>4 DEF TypeOK, RWMutexInv, Share, Acquired, WriterIn, Holds, rwMutex
<1>8. StateInv'
  <2>1. fileLock[P] = lType(mode[g])
    BY SMTT(60), <1>3, <1>4 DEF StateInv
  <2>2. ASSUME NEW k \in Goroutine, ProcOf[k] = P, Holds(k) PROVE mode[k] = mode[g]
    BY <1>1, <2>2, SameProcess DEF CallInv
  <2>3. ASSUME NEW k \in Goroutine, Holds(k)'
        PROVE  /\ fileLock'[ProcOf[k]] = lType(mode[k])
               /\ locktype'[ProcOf[k]] = lType(mode[k])
               /\ recursive'[ProcOf[k]] <=> mode[k] = "RecursiveLock"
    <3>1. CASE ProcOf[k] = P
      BY <3>1, <2>1, <2>2, <2>3 DEF TypeOK, Share, Acquired, Holds
    <3>2. CASE ProcOf[k] # P
      BY <3>2, <2>3 DEF TypeOK, StateInv, Share, Acquired, Holds
    <3> QED
      BY <3>1, <3>2
  <2>4. ASSUME NEW k \in Goroutine
        PROVE  (pc'[k] = "fcntl") <=> (stateMutex'[ProcOf[k]] = k)
    BY DEF TypeOK, StateInv, Share, Acquired
  <2>5. ASSUME NEW p \in Proc
        PROVE  /\ locked'[p] <=> counter'[p] > 0
               /\ counter'[p] = 0 <=> fileLock'[p] = "none"
               /\ stateMutex'[p] # None => counter'[p] = 0 /\ ProcOf[stateMutex'[p]] = p
    BY DEF TypeOK, StateInv, Share, Acquired
  <2> QED
    BY <1>1, <1>2, <2>3, <2>4, <2>5 DEF StateInv
<1>9. FcntlInv'
  BY DEF FcntlInv, Share
<1> QED
  BY <1>5, <1>6, <1>7, <1>8, <1>9

LEMMA FcntlKeepsInv ==
    ASSUME Inv, NEW g \in Goroutine, Fcntl(g)
    PROVE  Inv'
<1> USE DEF Inv
<1> DEFINE P == ProcOf[g]
<1>1. Acquired(g) /\ mode' = mode /\ pc[g] = "fcntl"
  BY DEF Fcntl
<1>2. /\ depth[g] + 1 \in 1..MaxDepth
      /\ \A p \in Proc : ReadersIn(p)' = ReadersIn(p)
      /\ \A p \in Proc : Cardinality(HeldIn(p)') = counter'[p]
  BY <1>1, AcquiredCounts
<1>3. stateMutex[P] = g /\ counter[P] = 0
  BY <1>1 DEF StateInv
<1>4. ASSUME NEW h \in Goroutine, ProcOf[h] = P PROVE ~Holds(h)
  BY <1>3, <1>4, HolderCounted
<1>5. TypeOK'
  BY <1>2 DEF TypeOK, Fcntl, Acquired, PC, LockType, lType, rwMutex
<1>6. CallInv'
  BY <1>2 DEF TypeOK, CallInv, Fcntl, Acquired, Holds
<1>7. RWMutexInv'
  <2>1. ASSUME NEW h \in Goroutine PROVE WriterIn(h)' <=> WriterIn(h)
    BY <1>1 DEF TypeOK, WriterIn, Acquired, Holds
  <2>2. ASSUME NEW h \in Goroutine, pc'[h] # "announced" PROVE pc[h] # "announced"
    BY <1>1, <2>2 DEF TypeOK, Acquired
  <2>3. rwReaders' = rwReaders /\ rwWriter' = rwWriter
    BY DEF Fcntl, rwMutex
  <2> QED
    BY <1>2, <2>1, <2>2, <2>3 DEF RWMutexInv, TypeOK
<1>8. StateInv'
  <2>3. ASSUME NEW k \in Goroutine, Holds(k)'
        PROVE  /\ fileLock'[ProcOf[k]] = lType(mode[k])
               /\ locktype'[ProcOf[k]] = lType(mode[k])
               /\ recursive'[ProcOf[k]] <=> mode[k] = "RecursiveLock"
    <3>1. CASE ProcOf[k] = P
      BY <3>1, <1>4, <2>3 DEF TypeOK, Fcntl, Acquired, Holds
    <3>2. CASE ProcOf[k] # P
      BY <3>2, <2>3 DEF TypeOK, StateInv, Fcntl, Acquired, Holds
    <3> QED
      BY <3>1, <3>2
  <2>4. ASSUME NEW k \in Goroutine
        PROVE  (pc'[k] = "fcntl") <=> (stateMutex'[ProcOf[k]] = k)
    BY <1>3 DEF TypeOK, StateInv, Fcntl, Acquired
  <2>5. ASSUME NEW p \in Proc
        PROVE  /\ locked'[p] <=> counter'[p] > 0
               /\ counter'[p] = 0 <=> fileLock'[p] = "none"
               /\ stateMutex'[p] # None => counter'[p] = 0 /\ ProcOf[stateMutex'[p]] = p
    BY DEF TypeOK, StateInv, Fcntl, Acquired, lType
  <2> QED
    BY <1>1, <1>2, <2>3, <2>4, <2>5 DEF StateInv
<1>9. FcntlInv'
  BY DEF FcntlInv, Fcntl, Compatible, TypeOK, LockType
<1> QED
  BY <1>5, <1>6, <1>7, <1>8, <1>9

\* Unlock counts one acquisition less.
LEMMA ReleaseCounts ==
    ASSUME Inv, NEW g \in Goroutine, Unlock(g)
    PROVE  \A p \in Proc : Cardinality(HeldIn(p)') = counter'[p]
<1> USE DEF Inv
<1> DEFINE P == ProcOf[g]
           old == <<g, depth[g]>>
<1>1. depth[g] \in 1..MaxDepth /\ depth' = [depth EXCEPT ![g] = @ - 1]
  BY DEF TypeOK, Unlock, Release, Holds
<1>2. ASSUME NEW p \in Proc, p # P PROVE HeldIn(p)' = HeldIn(p)
  BY <1>1, <1>2 DEF HeldIn, Acquisition, TypeOK
<1>3. HeldIn(P)' = HeldIn(P) \ {old} /\ old \in HeldIn(P)
  <2>1. old \in HeldIn(P)
    BY <1>1 DEF Acquisition, HeldIn, TypeOK
  <2>2. ASSUME NEW a \in Acquisition
        PROVE  a \in HeldIn(P)' <=> a \in HeldIn(P) \ {old}
    <3>1. a[1] \in Goroutine /\ a[2] \in 1..MaxDepth /\ a = <<a[1], a[2]>>
      BY DEF Acquisition
    <3>2. CASE a[1] # g
      BY <1>1, <3>1, <3>2 DEF HeldIn, TypeOK
    <3>3. CASE a[1] = g
      <4>1. a \in HeldIn(P)' <=> a[2] <= depth[g] - 1
        BY <1>1, <3>1, <3>3 DEF HeldIn, TypeOK
      <4>2. a \in HeldIn(P) <=> a[2] <= depth[g]
        BY <3>1, <3>3 DEF HeldIn
      <4>3. a = old <=> a[2] = depth[g]
        BY <3>1, <3>3
      <4> QED
        BY <4>1, <4>2, <4>3, <3>1, <1>1
    <3> QED
      BY <3>2, <3>3
  <2> QED
    BY <2>1, <2>2 DEF HeldIn
<1>4. Cardinality(HeldIn(P)') = Cardinality(HeldIn(P)) - 1
  BY <1>3, CountRemoved DEF HeldIn
<1> QED
  BY <1>2, <1>4 DEF TypeOK, StateInv, Unlock, Release

\* Unlock leaves rwMutex on the side on which its caller entered it.
LEMMA RWReleaseKeepsInv ==
    ASSUME Inv, NEW g \in Goroutine, Unlock(g)
    PROVE  /\ rwReaders' \in [Proc -> Nat]
           /\ rwWriter' \in [Proc -> Goroutine \cup {None}]
           /\ RWMutexInv'
<1> USE DEF Inv
<1> DEFINE P == ProcOf[g]
           old == <<g, depth[g]>>
<1>1. /\ pc[g] = "run" /\ Holds(g)
      /\ pc' = pc /\ mode' = mode
      /\ depth[g] \in 1..MaxDepth /\ depth' = [depth EXCEPT ![g] = @ - 1]
  BY DEF TypeOK, Unlock, Release, Holds
<1>2. (locktype[P] = "RDLCK" \/ recursive[P]) <=> EntersAsReader(mode[g])
  BY <1>1 DEF StateInv, lType, EntersAsReader, TypeOK, Acquirers
<1>3. ASSUME NEW h \in Goroutine, h # g
      PROVE  Entered(h)' = Entered(h) /\ (WriterIn(h)' <=> WriterIn(h))
  BY <1>1, <1>3 DEF Entered, WriterIn, Holds, TypeOK
<1>4. Entered(g) = depth[g] /\ Entered(g)' = depth[g] - 1
  BY <1>1 DEF Entered, TypeOK
<1>5. ASSUME NEW p \in Proc, p # P PROVE ReadersIn(p)' = ReadersIn(p)
  BY <1>1, <1>3, <1>5 DEF ReadersIn, Acquisition
<1>6. CASE EntersAsReader(mode[g])
  <2>1. /\ rwReaders' = [rwReaders EXCEPT ![P] = @ - 1]
        /\ rwWriter' = rwWriter
    BY <1>2, <1>6 DEF Unlock, RWRelease
  <2>2. rwReaders[P] > 0
    BY <1>1, <1>6, ReaderCounted
  <2>3. ReadersIn(P)' = ReadersIn(P) \ {old} /\ old \in ReadersIn(P)
    <3>1. old \in ReadersIn(P)
      BY <1>1, <1>4, <1>6 DEF Acquisition, ReadersIn
    <3>2. ASSUME NEW a \in Acquisition
          PROVE  a \in ReadersIn(P)' <=> a \in ReadersIn(P) \ {old}
      <4>1. a[1] \in Goroutine /\ a[2] \in 1..MaxDepth /\ a = <<a[1], a[2]>>
        BY DEF Acquisition
      <4>2. CASE a[1] # g
        BY <1>1, <1>3, <4>1, <4>2 DEF ReadersIn
      <4>3. CASE a[1] = g
        <5>1. a \in ReadersIn(P)' <=> a[2] <= depth[g] - 1
          BY <1>1, <1>4, <1>6, <4>1, <4>3 DEF ReadersIn
        <5>2. a \in ReadersIn(P) <=> a[2] <= depth[g]
          BY <1>4, <1>6, <4>1, <4>3 DEF ReadersIn
        <5>3. a = old <=> a[2] = depth[g]
          BY <4>1, <4>3
        <5> QED
          BY <5>1, <5>2, <5>3, <4>1, <1>1
      <4> QED
        BY <4>2, <4>3
    <3> QED
      BY <3>1, <3>2 DEF ReadersIn
  <2>4. Cardinality(ReadersIn(P)') = Cardinality(ReadersIn(P)) - 1
    BY <2>3, CountRemoved DEF ReadersIn
  <2>5. ~WriterIn(g) /\ ~WriterIn(g)'
    BY <1>1, <1>6 DEF WriterIn, EntersAsReader
  <2>6. ASSUME NEW p \in Proc
        PROVE  rwReaders'[p] = Cardinality(ReadersIn(p)') /\ rwReaders'[p] \in Nat
    BY <1>5, <2>1, <2>2, <2>4 DEF TypeOK, RWMutexInv
  <2>7. rwReaders' \in [Proc -> Nat] /\ rwWriter' \in [Proc -> Goroutine \cup {None}]
    BY <2>1, <2>2 DEF TypeOK
  <2>8. ASSUME NEW h \in Goroutine, WriterIn(h), pc[h] # "announced"
        PROVE  ProcOf[h] # P
    BY <2>2, <2>8 DEF RWMutexInv, TypeOK
  <2> QED
    BY <1>1, <1>3, <2>1, <2>5, <2>6, <2>7, <2>8 DEF RWMutexInv, TypeOK
<1>7. CASE ~EntersAsReader(mode[g])
  <2>1. /\ rwWriter' = [rwWriter EXCEPT ![P] = None]
        /\ rwReaders' = rwReaders
    BY <1>2, <1>7 DEF Unlock, RWRelease
  <2>2. mode[g] = "Lock" /\ depth[g] = 1
    BY <1>1, <1>7 DEF EntersAsReader, CallInv
  <2>3. rwWriter[P] = g /\ ~WriterIn(g)'
    BY <1>1, <2>2 DEF WriterIn, RWMutexInv, Holds, TypeOK
  <2>4. ReadersIn(P)' = ReadersIn(P)
    BY <1>1, <1>3, <1>7 DEF ReadersIn, Acquisition
  <2>5. ASSUME NEW h \in Goroutine, WriterIn(h)' PROVE ProcOf[h] # P /\ h # g
    BY <1>3, <2>3, <2>5 DEF RWMutexInv
  <2>6. ASSUME NEW p \in Proc PROVE rwReaders'[p] = Cardinality(ReadersIn(p)')
    BY <1>5, <2>1, <2>4 DEF RWMutexInv
  <2> QED
    BY <1>1, <1>3, <2>1, <2>3, <2>5, <2>6 DEF RWMutexInv, TypeOK
<1> QED
  BY <1>6, <1>7

LEMMA UnlockKeepsInv ==
    ASSUME Inv, NEW g \in Goroutine, Unlock(g)
    PROVE  Inv'
<1> USE DEF Inv
<1> DEFINE P == ProcOf[g]
<1>1. \A p \in Proc : Cardinality(HeldIn(p)') = counter'[p]
  BY ReleaseCounts
<1>2. /\ rwReaders' \in [Proc -> Nat]
      /\ rwWriter' \in [Proc -> Goroutine \cup {None}]
      /\ RWMutexInv'
  BY RWReleaseKeepsInv
<1>3. TypeOK'
  <2>1. locked' \in [Proc -> BOOLEAN]
    <3>1. locked' = [locked EXCEPT ![P] = counter[P] # 1] /\ locked \in [Proc -> BOOLEAN]
      BY DEF TypeOK, Unlock, Release
    <3>2. (counter[P] # 1) \in BOOLEAN
      OBVIOUS
    <3> QED
      BY <3>1, <3>2, Zenon
  <2>2. depth' \in [Goroutine -> 0..MaxDepth] /\ counter' \in [Proc -> Nat]
    BY DEF TypeOK, Unlock, Release, Holds
  <2>3. fileLock' \in [Proc -> LockType \cup {"none"}]
    BY DEF TypeOK, Unlock, Release
  <2> QED
    BY <1>2, <2>1, <2>2, <2>3 DEF TypeOK, Unlock, Release
<1>4. CallInv'
  BY DEF TypeOK, CallInv, Unlock, Release, Holds
<1>5. StateInv'
  <2>1. ASSUME NEW k \in Goroutine, Holds(k)', ProcOf[k] = P
        PROVE  counter'[P] > 0
    <3>1. <<k, 1>> \in HeldIn(P)' /\ HeldIn(P)' \in SUBSET Acquisition
      BY SMTT(60), <1>3, <2>1 DEF HeldIn, Acquisition, Holds, TypeOK
    <3> QED
      BY <1>1, <3>1, CountType
  <2>2. ASSUME NEW k \in Goroutine, Holds(k)'
        PROVE  /\ fileLock'[ProcOf[k]] = lType(mode'[k])
               /\ locktype'[ProcOf[k]] = lType(mode'[k])
               /\ recursive'[ProcOf[k]] <=> mode'[k] = "RecursiveLock"
    <3>1. Holds(k)
      BY <2>2 DEF TypeOK, Unlock, Release, Holds
    <3>2. fileLock'[ProcOf[k]] = fileLock[ProcOf[k]]
      BY <2>1, <2>2 DEF TypeOK, Unlock, Release
    <3> QED
      BY <3>1, <3>2 DEF StateInv, Unlock, Release
  <2>3. ASSUME NEW k \in Goroutine
        PROVE  (pc'[k] = "fcntl") <=> (stateMutex'[ProcOf[k]] = k)
    BY DEF StateInv, Unlock, Release
  <2>4. ASSUME NEW p \in Proc
        PROVE  /\ locked'[p] <=> counter'[p] > 0
               /\ counter'[p] = 0 <=> fileLock'[p] = "none"
               /\ stateMutex'[p] # None => counter'[p] = 0 /\ ProcOf[stateMutex'[p]] = p
    <3>1. CASE p # P
      BY <3>1 DEF TypeOK, StateInv, Unlock, Release
    <3>2. CASE p = P
      <4>1. /\ counter[P] \in Nat /\ counter[P] > 0
            /\ counter'[P] = counter[P] - 1
            /\ stateMutex'[P] = None
        BY DEF TypeOK, Unlock, Release
      <4>2. locked'[P] <=> counter[P] # 1
        BY Zenon DEF TypeOK, Unlock, Release
      <4>3. fileLock'[P] = IF counter[P] = 1 THEN "none" ELSE fileLock[P]
        BY DEF TypeOK, Unlock, Release
      <4> QED
        BY <3>2, <4>1, <4>2, <4>3 DEF StateInv
    <3> QED
      BY <3>1, <3>2
  <2> QED
    BY <1>1, <2>2, <2>3, <2>4 DEF StateInv
<1>6. FcntlInv'
  BY DEF FcntlInv, Unlock, Release, TypeOK
<1> QED
  BY <1>2, <1>3, <1>4, <1>5, <1>6

LEMMA CrashKeepsInv ==
    ASSUME Inv, NEW P \in Proc, Crash(P)
    PROVE  Inv'
<1> USE DEF Inv
<1>1. TypeOK'
  BY DEF TypeOK, Crash, PC, LockType
<1>2. ASSUME NEW h \in Goroutine, ProcOf[h] = P
      PROVE  pc'[h] = "run" /\ depth'[h] = 0
  BY <1>2 DEF Crash
<1>3. ASSUME NEW h \in Goroutine, ProcOf[h] # P
      PROVE  pc'[h] = pc[h] /\ depth'[h] = depth[h] /\ mode'[h] = mode[h]
  BY <1>3 DEF Crash
<1>4. CallInv'
  BY <1>2, <1>3 DEF TypeOK, CallInv, Holds
<1>5. ASSUME NEW p \in Proc, p # P
      PROVE  HeldIn(p)' = HeldIn(p) /\ ReadersIn(p)' = ReadersIn(p)
  BY <1>3, <1>5 DEF HeldIn, ReadersIn, Entered, Acquisition
<1>6. HeldIn(P)' = {} /\ ReadersIn(P)' = {}
  BY <1>2 DEF HeldIn, ReadersIn, Entered, Acquisition
<1>7. Cardinality(HeldIn(P)') = 0 /\ Cardinality(ReadersIn(P)') = 0
  BY <1>6, FS_EmptySet
<1>8. RWMutexInv'
  <2>1. ASSUME NEW h \in Goroutine
        PROVE  WriterIn(h)' <=> WriterIn(h) /\ ProcOf[h] # P
    BY SMTT(60), <1>2, <1>3 DEF WriterIn, Holds
  <2>2. ASSUME NEW p \in Proc
        PROVE  rwReaders'[p] = Cardinality(ReadersIn(p)')
    BY <1>5, <1>7 DEF RWMutexInv, TypeOK, Crash
  <2>3. ASSUME NEW p \in Proc
        PROVE  /\ p = P => rwWriter'[p] = None
               /\ p # P => rwWriter'[p] = rwWriter[p] /\ rwReaders'[p] = rwReaders[p]
    BY DEF TypeOK, Crash
  <2> QED
    BY SMTT(60), <1>3, <2>1, <2>2, <2>3 DEF RWMutexInv, TypeOK
<1>9. StateInv'
  <2>1. ASSUME NEW p \in Proc
        PROVE  Cardinality(HeldIn(p)') = counter'[p]
    BY <1>5, <1>7 DEF StateInv, TypeOK, Crash
  <2>2. ASSUME NEW p \in Proc
        PROVE  IF p = P
               THEN /\ counter'[p] = 0 /\ ~locked'[p]
                    /\ fileLock'[p] = "none" /\ stateMutex'[p] = None
               ELSE /\ counter'[p] = counter[p] /\ locked'[p] = locked[p]
                    /\ fileLock'[p] = fileLock[p] /\ stateMutex'[p] = stateMutex[p]
                    /\ locktype'[p] = locktype[p] /\ recursive'[p] = recursive[p]
    BY DEF TypeOK, Crash
  <2>3. ASSUME NEW p \in Proc
        PROVE  /\ locked'[p] <=> counter'[p] > 0
               /\ counter'[p] = 0 <=> fileLock'[p] = "none"
               /\ stateMutex'[p] # None => counter'[p] = 0 /\ ProcOf[stateMutex'[p]] = p
    BY SMTT(60), <2>2 DEF StateInv, TypeOK
  <2>4. ASSUME NEW k \in Goroutine
        PROVE  /\ (pc'[k] = "fcntl") <=> (stateMutex'[ProcOf[k]] = k)
               /\ Holds(k)' =>
                    /\ fileLock'[ProcOf[k]] = lType(mode'[k])
                    /\ locktype'[ProcOf[k]] = lType(mode'[k])
                    /\ recursive'[ProcOf[k]] <=> mode'[k] = "RecursiveLock"
    <3>1. CASE ProcOf[k] = P
      BY <3>1, <1>2, <2>2 DEF Holds
    <3>2. CASE ProcOf[k] # P
      <4>1. pc'[k] = pc[k] /\ mode'[k] = mode[k] /\ (Holds(k)' <=> Holds(k))
        BY <3>2, <1>3 DEF Holds
      <4>2. ProcOf[k] \in Proc
        BY ProcOfAssumption
      <4>3. /\ stateMutex'[ProcOf[k]] = stateMutex[ProcOf[k]]
            /\ fileLock'[ProcOf[k]] = fileLock[ProcOf[k]]
            /\ locktype'[ProcOf[k]] = locktype[ProcOf[k]]
            /\ recursive'[ProcOf[k]] = recursive[ProcOf[k]]
        BY <3>2, <4>2, <2>2
      <4>4. /\ (pc[k] = "fcntl") <=> (stateMutex[ProcOf[k]] = k)
            /\ Holds(k) =>
                 /\ fileLock[ProcOf[k]] = lType(mode[k])
                 /\ locktype[ProcOf[k]] = lType(mode[k])
                 /\ recursive[ProcOf[k]] <=> mode[k] = "RecursiveLock"
        BY DEF StateInv
      <4> QED
        BY <4>1, <4>3, <4>4
    <3> QED
      BY <3>1, <3>2
  <2> QED
    BY <2>1, <2>3, <2>4 DEF StateInv
<1>10. FcntlInv'
  BY DEF FcntlInv, Crash, TypeOK
<1> QED
  BY <1>1, <1>4, <1>8, <1>9, <1>10

-----------------------------------------------------------------------------
LEMMA InitInv ==
    ASSUME Init PROVE Inv
<1>1. TypeOK /\ CallInv /\ FcntlInv
  BY DEF Init, TypeOK, PC, Acquirers, LockType, CallInv, Holds, FcntlInv
<1>2. ASSUME NEW p \in Proc PROVE HeldIn(p) = {} /\ ReadersIn(p) = {}
  BY DEF Init, HeldIn, ReadersIn, Entered, Acquisition
<1>3. Cardinality({}) = 0
  BY FS_EmptySet
<1>4. ASSUME NEW p \in Proc
      PROVE  Cardinality(HeldIn(p)) = 0 /\ Cardinality(ReadersIn(p)) = 0
  BY <1>2, <1>3
<1>5. RWMutexInv
  BY <1>4 DEF Init, RWMutexInv, WriterIn, Holds
<1>6. StateInv
  BY <1>4 DEF Init, StateInv, Holds
<1> QED
  BY <1>1, <1>5, <1>6 DEF Inv

LEMMA NextInv ==
    ASSUME NoMixing, Inv, [Next]_vars PROVE Inv'
<1>1. ASSUME NEW g \in Goroutine, NEW m \in Method, Call(g, m) PROVE Inv'
  BY <1>1, CallKeepsInv
<1>2. ASSUME NEW g \in Goroutine, RWRLock(g) PROVE Inv'
  BY <1>2, RWRLockKeepsInv
<1>3. ASSUME NEW g \in Goroutine, RWAnnounce(g) PROVE Inv'
  BY <1>3, RWAnnounceKeepsInv
<1>4. ASSUME NEW g \in Goroutine, RWLock(g) PROVE Inv'
  BY <1>4, RWLockKeepsInv
<1>5. ASSUME NEW g \in Goroutine, Share(g) PROVE Inv'
  BY <1>5, ShareKeepsInv
<1>6. ASSUME NEW g \in Goroutine, Open(g) PROVE Inv'
  BY <1>6, OpenKeepsInv
<1>7. ASSUME NEW g \in Goroutine, Fcntl(g) PROVE Inv'
  BY <1>7, FcntlKeepsInv
<1>8. ASSUME NEW g \in Goroutine, Unlock(g) PROVE Inv'
  BY <1>8, UnlockKeepsInv
<1>9. ASSUME NEW p \in Proc, Crash(p) PROVE Inv'
  BY <1>9, CrashKeepsInv
<1>10. CASE UNCHANGED vars
  <2> USE <1>10 DEF Inv, vars, perGoroutine, rwMutex, object
  <2>1. TypeOK' /\ CallInv' /\ FcntlInv'
    BY DEF TypeOK, CallInv, FcntlInv, Holds
  <2>2. \A p : HeldIn(p)' = HeldIn(p) /\ ReadersIn(p)' = ReadersIn(p)
    BY DEF HeldIn, ReadersIn, Entered
  <2>3. RWMutexInv'
    BY <2>2 DEF RWMutexInv, WriterIn, Holds
  <2>4. StateInv'
    BY <2>2 DEF StateInv, Holds
  <2> QED
    BY <2>1, <2>3, <2>4
<1> QED
  BY <1>1, <1>2, <1>3, <1>4, <1>5, <1>6, <1>7, <1>8, <1>9, <1>10 DEF Next, Step

\* The inductive invariant holds in every execution of callers that do not
\* mix RLock and RecursiveLock; type correctness is one of its conjuncts.
THEOREM InvAlways ==
    ASSUME NoMixing PROVE Spec => []Inv
<1>1. Init => Inv
  BY InitInv
<1>2. Inv /\ [Next]_vars => Inv'
  BY NextInv
<1> QED
  BY <1>1, <1>2, PTL DEF Spec

\* For any processes and goroutines: a writer excludes all other holders, in
\* its own process and in every other one, except recursive writers of its
\* process.  Holds for Lock with RLock and for Lock with RecursiveLock.
THEOREM ExclusionAlways ==
    ASSUME NoMixing PROVE Spec => []Exclusion
<1>1. Inv => Exclusion
  <2> SUFFICES ASSUME Inv, NEW g \in Goroutine, NEW h \in Goroutine,
                      g # h, IsWriter(g), Holds(h)
               PROVE  /\ ProcOf[g] = ProcOf[h]
                      /\ mode[g] = "RecursiveLock"
                      /\ mode[h] = "RecursiveLock"
    BY DEF Exclusion
  <2>1. ProcOf[g] = ProcOf[h]
    <3>1. fileLock[ProcOf[g]] = "WRLCK"
      BY DEF Inv, StateInv, IsWriter, lType
    <3>2. fileLock[ProcOf[h]] # "none"
      BY DEF Inv, StateInv, lType
    <3> QED
      BY <3>1, <3>2 DEF Inv, FcntlInv
  <2>2. mode[g] # "Lock" /\ mode[h] = mode[g]
    BY <2>1, SameProcess DEF IsWriter
  <2> QED
    BY <2>1, <2>2 DEF IsWriter, Inv, TypeOK, Acquirers
<1> QED
  BY <1>1, InvAlways, PTL

\* A holder never meets a panic of Unlock, Touch or Modified and leaves
\* rwMutex on the side it entered.
THEOREM HolderNeverPanicsAlways ==
    ASSUME NoMixing PROVE Spec => []HolderNeverPanics
<1>1. Inv => HolderNeverPanics
  <2> SUFFICES ASSUME Inv, NEW g \in Goroutine, Holds(g)
               PROVE  LET p == ProcOf[g] IN
                      /\ locked[p] /\ counter[p] > 0
                      /\ IsWriter(g) => Locked(p)
                      /\ IF locktype[p] = "RDLCK" \/ recursive[p]
                         THEN rwReaders[p] > 0
                         ELSE rwWriter[p] = g
    BY DEF HolderNeverPanics
  <2> DEFINE p == ProcOf[g]
  <2>1. counter[p] > 0 /\ locked[p]
    BY HolderCounted DEF Inv, StateInv
  <2>2. IsWriter(g) => Locked(p)
    BY <2>1 DEF Inv, StateInv, IsWriter, Locked, lType
  <2>3. (locktype[p] = "RDLCK" \/ recursive[p]) <=> EntersAsReader(mode[g])
    BY DEF Inv, StateInv, lType, EntersAsReader, TypeOK, Acquirers
  <2>4. EntersAsReader(mode[g]) => rwReaders[p] > 0
    BY ReaderCounted
  <2>5. ~EntersAsReader(mode[g]) => rwWriter[p] = g
    BY DEF Inv, RWMutexInv, WriterIn, EntersAsReader
  <2> QED
    BY <2>1, <2>2, <2>3, <2>4, <2>5
<1> QED
  BY <1>1, InvAlways, PTL

-----------------------------------------------------------------------------
Readers == {g \in Goroutine : Holds(g) /\ mode[g] = "RLock"}

Writers == {g \in Goroutine : Holds(g) /\ mode[g] = "Lock"}

\* The end of lock() is one acquisition of the reader-writer lock.
LEMMA AcquiredImplements ==
    ASSUME "RecursiveLock" \notin Method, Inv, Exclusion', NEW g \in Goroutine,
           pc[g] # "run", Acquired(g), mode' = mode
    PROVE  RW!RLock(g) \/ RW!Lock(g)
<1>1. mode[g] \in {"RLock", "Lock"} /\ ~Holds(g) /\ depth[g] = 0
  BY DEF Inv, CallInv, Acquirers, Holds, TypeOK
<1>2. Holds(g)' /\ \A h \in Goroutine \ {g} : Holds(h)' <=> Holds(h)
  BY <1>1 DEF Acquired, Holds, Inv, TypeOK
<1>3. CASE mode[g] = "RLock"
  <2>1. Readers' = Readers \cup {g} /\ g \notin Readers /\ Writers' = Writers
    BY <1>1, <1>2, <1>3 DEF Readers, Writers
  <2>2. Writers = {}
    BY <1>1, <1>2, <1>3 DEF Writers, Exclusion, IsWriter
  <2> QED
    BY <2>1, <2>2 DEF RW!RLock, Readers, Writers
<1>4. CASE mode[g] = "Lock"
  <2>1. Readers' = Readers /\ Writers' = Writers \cup {g}
    BY <1>1, <1>2, <1>4 DEF Readers, Writers
  <2>2. Readers = {} /\ Writers = {}
    BY <1>1, <1>2, <1>4 DEF Readers, Writers, Exclusion, IsWriter
  <2> QED
    BY <2>1, <2>2 DEF RW!Lock, Readers, Writers
<1> QED
  BY <1>1, <1>3, <1>4

\* Every step of the lock file is a step of the reader-writer lock or leaves
\* it unchanged.
LEMMA StepImplements ==
    ASSUME "RecursiveLock" \notin Method, Inv, Exclusion', [Next]_vars
    PROVE  [RW!Next]_(RW!vars)
<1> DEFINE Same == Readers' = Readers /\ Writers' = Writers
<1>1. Same => [RW!Next]_(RW!vars)
  BY DEF RW!vars, Readers, Writers
<1>2. ASSUME NEW g \in Goroutine, NEW m \in Method, Call(g, m) PROVE Same
  <2>1. ~Holds(g) /\ ~Holds(g)'
    BY <1>2 DEF Call, Inv, CallInv, TypeOK, Holds
  <2> QED
    BY <1>2, <2>1 DEF Call, Readers, Writers, Holds, Inv, TypeOK
<1>3. ASSUME NEW g \in Goroutine,
             RWRLock(g) \/ RWAnnounce(g) \/ RWLock(g) \/ Open(g)
      PROVE  Same
  BY <1>3 DEF RWRLock, RWAnnounce, RWLock, Open, Readers, Writers, Holds
<1>4. ASSUME NEW g \in Goroutine, Share(g) \/ Fcntl(g)
      PROVE  RW!Next
  <2>1. RW!RLock(g) \/ RW!Lock(g)
    BY <1>4, AcquiredImplements DEF Share, Fcntl
  <2> QED
    BY <2>1 DEF RW!Next
<1>5. ASSUME NEW g \in Goroutine, Unlock(g)
      PROVE  RW!Next
  <2>1. Holds(g) /\ mode[g] \in {"RLock", "Lock"} /\ depth[g] = 1
    BY SMTT(60), <1>5 DEF Unlock, Release, Inv, CallInv, Acquirers, TypeOK, Holds
  <2>2. /\ mode' = mode /\ ~Holds(g)'
        /\ \A h \in Goroutine \ {g} : Holds(h)' <=> Holds(h)
    BY <1>5, <2>1 DEF Unlock, Release, Inv, TypeOK, Holds
  <2>3. /\ Readers' = Readers \ {g} /\ Writers' = Writers \ {g}
        /\ g \in Readers \cup Writers
    BY <2>1, <2>2 DEF Readers, Writers
  <2>4. RW!Unlock(g)
    BY <2>3 DEF RW!Unlock, Readers, Writers
  <2> QED
    BY <2>4 DEF RW!Next
<1>6. ASSUME NEW p \in Proc, Crash(p)
      PROVE  RW!Next
  <2>1. /\ mode' = mode
        /\ \A h \in Goroutine : Holds(h)' <=> Holds(h) /\ ProcOf[h] # p
    BY <1>6 DEF Crash, Holds
  <2>2. /\ Readers' = {g \in Readers : ProcOf[g] # p}
        /\ Writers' = {g \in Writers : ProcOf[g] # p}
    BY <2>1 DEF Readers, Writers
  <2>3. RW!Crash(p)
    BY <2>2 DEF RW!Crash, Readers, Writers
  <2> QED
    BY <2>3 DEF RW!Next
<1>7. ASSUME UNCHANGED vars PROVE Same
  BY <1>7 DEF vars, perGoroutine, Readers, Writers, Holds
<1>8. Same \/ RW!Next
  <2> HIDE DEF Same
  <2> QED
    BY <1>2, <1>3, <1>4, <1>5, <1>6, <1>7 DEF Next, Step
<1> QED
  BY <1>1, <1>8

\* Lock, RLock and Unlock of the lock file implement one reader-writer lock
\* for all goroutines of all processes, through crashes.
THEOREM LockfileImplementsReaderWriterLock ==
    ASSUME "RecursiveLock" \notin Method PROVE Spec => RWSpec
<1>1. NoMixing
  BY DEF NoMixing
<1>2. Init => RW!Init
  BY DEF Init, RW!Init, Holds
<1>3. Inv /\ Exclusion' /\ [Next]_vars => [RW!Next]_(RW!vars)
  BY StepImplements
<1>4. Spec => []Inv
  BY <1>1, InvAlways
<1>5. Spec => []Exclusion
  BY <1>1, ExclusionAlways
<1> QED
  BY <1>2, <1>3, <1>4, <1>5, PTL DEF Spec, RWSpec, RW!Spec

=============================================================================
