------------------------------ MODULE Lockfile ------------------------------
(***************************************************************************)
(* The lock of pkg/lockfile (lockfile_unix.go): one lock file shared by    *)
(* several processes, and in each process one lockfile object shared by    *)
(* its goroutines.  Between processes the lock is an fcntl(2) record lock, *)
(* which belongs to the process.  Between goroutines it is a sync.RWMutex  *)
(* (rwMutex).  The remaining fields of the object (counter, locktype,      *)
(* locked, recursive) are guarded by stateMutex, which a goroutine also    *)
(* keeps while it waits for the record lock.  Lock files opened read-only  *)
(* (the ro flag), where Lock panics and RecursiveLock is RLock, are not    *)
(* modelled.                                                               *)
(***************************************************************************)
EXTENDS Naturals, FiniteSets

CONSTANTS
    Proc,        \* operating system processes that use the lock file
    Goroutine,   \* goroutines, in all the processes
    ProcOf,      \* the process a goroutine runs in
    Method,      \* the acquiring methods callers use
    MaxDepth,    \* bound on nested recursive acquisitions of one goroutine
    MaxCalls,    \* bound on the acquisitions of one goroutine
    None         \* "no goroutine"

Acquirers == {"RLock", "Lock", "RecursiveLock"}

ASSUME ProcOfAssumption == ProcOf \in [Goroutine -> Proc]
ASSUME MethodAssumption == Method \subseteq Acquirers
ASSUME BoundAssumption == MaxDepth \in Nat \ {0} /\ MaxCalls \in Nat
ASSUME FiniteAssumption == IsFiniteSet(Goroutine)
ASSUME NoneAssumption == None \notin Goroutine

VARIABLES
    pc,          \* where a goroutine is: outside of a call, or what it waits for
    mode,        \* the method of its current call, or of the lock it holds
    depth,       \* how many acquisitions it has not released yet
    calls,       \* how many acquisitions it has made (bounded)
    rwReaders,   \* rwMutex: number of goroutines inside as readers
    rwWriter,    \* rwMutex: the goroutine that announced itself as the writer
    stateMutex,  \* the goroutine that holds it
    counter, locktype, locked, recursive,  \* the object's fields
    fileLock     \* the record lock that a process has on the file

perGoroutine == <<pc, mode, depth, calls>>
rwMutex == <<rwReaders, rwWriter>>
object == <<counter, locktype, locked, recursive>>
vars == <<perGoroutine, rwMutex, stateMutex, object, fileLock>>

\* fcntl lock types: F_RDLCK and F_WRLCK.
LockType == {"RDLCK", "WRLCK"}

lType(m) == IF m = "RLock" THEN "RDLCK" ELSE "WRLCK"

\* rwMutex is entered as a reader by RLock and, "recursive", by RecursiveLock.
EntersAsReader(m) == m # "Lock"

Holds(g) == depth[g] > 0

Of(p) == {g \in Goroutine : ProcOf[g] = p}

-----------------------------------------------------------------------------
\* createLockerForPath: nobody holds anything.  locktype starts as F_WRLCK.
Init ==
    /\ pc = [g \in Goroutine |-> "run"]
    /\ mode = [g \in Goroutine |-> "RLock"]
    /\ depth = [g \in Goroutine |-> 0]
    /\ calls = [g \in Goroutine |-> 0]
    /\ rwReaders = [p \in Proc |-> 0]
    /\ rwWriter = [p \in Proc |-> None]
    /\ stateMutex = [p \in Proc |-> None]
    /\ counter = [p \in Proc |-> 0]
    /\ locktype = [p \in Proc |-> "WRLCK"]
    /\ locked = [p \in Proc |-> FALSE]
    /\ recursive = [p \in Proc |-> FALSE]
    /\ fileLock = [p \in Proc |-> "none"]

\* A goroutine calls RLock, Lock or RecursiveLock.  Only a recursive writer
\* may call again while it holds the lock.
Call(g, m) ==
    /\ pc[g] = "run"
    /\ calls[g] < MaxCalls
    /\ \/ depth[g] = 0
       \/ mode[g] = "RecursiveLock" /\ m = "RecursiveLock" /\ depth[g] < MaxDepth
    /\ pc' = [pc EXCEPT ![g] = "rwMutex"]
    /\ mode' = [mode EXCEPT ![g] = m]
    /\ calls' = [calls EXCEPT ![g] = @ + 1]
    /\ UNCHANGED <<depth, rwMutex, stateMutex, object, fileLock>>

\* sync.RWMutex.RLock: blocks while a writer is inside or has announced itself.
RWRLock(g) ==
    LET p == ProcOf[g] IN
    /\ pc[g] = "rwMutex" /\ EntersAsReader(mode[g])
    /\ rwWriter[p] = None
    /\ rwReaders' = [rwReaders EXCEPT ![p] = @ + 1]
    /\ pc' = [pc EXCEPT ![g] = "stateMutex"]
    /\ UNCHANGED <<mode, depth, calls, rwWriter, stateMutex, object, fileLock>>

\* sync.RWMutex.Lock, first half: one writer at a time announces itself and
\* from then on keeps new readers out.
RWAnnounce(g) ==
    LET p == ProcOf[g] IN
    /\ pc[g] = "rwMutex" /\ ~EntersAsReader(mode[g])
    /\ rwWriter[p] = None
    /\ rwWriter' = [rwWriter EXCEPT ![p] = g]
    /\ pc' = [pc EXCEPT ![g] = "announced"]
    /\ UNCHANGED <<mode, depth, calls, rwReaders, stateMutex, object, fileLock>>

\* sync.RWMutex.Lock, second half: the readers that were inside have left.
RWLock(g) ==
    /\ pc[g] = "announced"
    /\ rwReaders[ProcOf[g]] = 0
    /\ pc' = [pc EXCEPT ![g] = "stateMutex"]
    /\ UNCHANGED <<mode, depth, calls, rwMutex, stateMutex, object, fileLock>>

\* The end of lock(): the fields are set, whatever they were, stateMutex is
\* released and the caller has the lock.
Acquired(g) ==
    LET p == ProcOf[g] IN
    /\ locktype' = [locktype EXCEPT ![p] = lType(mode[g])]
    /\ locked' = [locked EXCEPT ![p] = TRUE]
    /\ recursive' = [recursive EXCEPT ![p] = mode[g] = "RecursiveLock"]
    /\ counter' = [counter EXCEPT ![p] = @ + 1]
    /\ depth' = [depth EXCEPT ![g] = @ + 1]
    /\ pc' = [pc EXCEPT ![g] = "run"]

\* stateMutex is taken; with counter > 0 the process already has a record
\* lock and lock() keeps that one.
Share(g) ==
    LET p == ProcOf[g] IN
    /\ pc[g] = "stateMutex"
    /\ stateMutex[p] = None
    /\ counter[p] > 0
    /\ Acquired(g)
    /\ UNCHANGED <<mode, calls, rwMutex, stateMutex, fileLock>>

\* stateMutex is taken; with counter = 0 the file is opened and lock() asks
\* for the record lock, keeping stateMutex.
Open(g) ==
    LET p == ProcOf[g] IN
    /\ pc[g] = "stateMutex"
    /\ stateMutex[p] = None
    /\ counter[p] = 0
    /\ stateMutex' = [stateMutex EXCEPT ![p] = g]
    /\ pc' = [pc EXCEPT ![g] = "fcntl"]
    /\ UNCHANGED <<mode, depth, calls, rwMutex, object, fileLock>>

\* Mutant of Compatible: a read lock is granted next to a write lock.
CompatibleIgnoringWriter(p, t) ==
    t = "WRLCK" => \A q \in Proc \ {p} : fileLock[q] = "none"

\* What F_SETLKW waits for: no other process has a conflicting record lock.
Compatible(p, t) ==
    \A q \in Proc \ {p} :
        /\ fileLock[q] # "WRLCK"
        /\ t = "WRLCK" => fileLock[q] = "none"

\* Mutant of Fcntl: stateMutex is not released when the lock is granted.
FcntlKeepingStateMutex(g) ==
    LET p == ProcOf[g] IN
    /\ pc[g] = "fcntl"
    /\ Compatible(p, lType(mode[g]))
    /\ fileLock' = [fileLock EXCEPT ![p] = lType(mode[g])]
    /\ Acquired(g)
    /\ UNCHANGED <<mode, calls, rwMutex, stateMutex>>

Fcntl(g) ==
    LET p == ProcOf[g] IN
    /\ pc[g] = "fcntl"
    /\ Compatible(p, lType(mode[g]))
    /\ fileLock' = [fileLock EXCEPT ![p] = lType(mode[g])]
    /\ stateMutex' = [stateMutex EXCEPT ![p] = None]
    /\ Acquired(g)
    /\ UNCHANGED <<mode, calls, rwMutex>>

\* What Unlock does besides releasing rwMutex, for a "last" that says when
\* the descriptor is closed and a "stillLocked" to leave in the field.
Release(g, last, stillLocked) ==
    LET p == ProcOf[g] IN
    /\ pc[g] = "run" /\ Holds(g)
    /\ stateMutex[p] = None
    /\ locked[p] /\ counter[p] > 0
    /\ counter' = [counter EXCEPT ![p] = @ - 1]
    /\ locked' = [locked EXCEPT ![p] = stillLocked]
    /\ fileLock' = [fileLock EXCEPT ![p] = IF last THEN "none" ELSE @]
    /\ depth' = [depth EXCEPT ![g] = @ - 1]
    /\ UNCHANGED <<pc, mode, calls, stateMutex, locktype, recursive>>

RWRelease(p) ==
    IF locktype[p] = "RDLCK" \/ recursive[p]
    THEN /\ rwReaders' = [rwReaders EXCEPT ![p] = @ - 1]
         /\ UNCHANGED rwWriter
    ELSE /\ rwWriter' = [rwWriter EXCEPT ![p] = None]
         /\ UNCHANGED rwReaders

\* Mutant of Unlock: every Unlock closes the descriptor.
UnlockClosingAlways(g) ==
    LET p == ProcOf[g] IN
    Release(g, TRUE, counter[p] # 1) /\ RWRelease(p)

\* Mutant of Unlock: every Unlock clears the locked field.
UnlockClearingLocked(g) ==
    LET p == ProcOf[g] IN
    Release(g, counter[p] = 1, FALSE) /\ RWRelease(p)

\* Mutant of Unlock: rwMutex is always left as a reader.
UnlockAsReader(g) ==
    LET p == ProcOf[g] IN
    /\ Release(g, counter[p] = 1, counter[p] # 1)
    /\ rwReaders' = [rwReaders EXCEPT ![p] = @ - 1]
    /\ UNCHANGED rwWriter

\* Unlock, under stateMutex throughout.  The last holder of the process
\* closes the descriptor, which drops the record lock; the side of rwMutex
\* that is released depends on the object's fields, not on the caller.
Unlock(g) ==
    LET p == ProcOf[g] IN
    Release(g, counter[p] = 1, counter[p] # 1) /\ RWRelease(p)

\* The process is killed.  The kernel drops its record lock; the process
\* that replaces it starts from a new object.
Crash(p) ==
    /\ pc' = [g \in Goroutine |-> IF ProcOf[g] = p THEN "run" ELSE pc[g]]
    /\ depth' = [g \in Goroutine |-> IF ProcOf[g] = p THEN 0 ELSE depth[g]]
    /\ rwReaders' = [rwReaders EXCEPT ![p] = 0]
    /\ rwWriter' = [rwWriter EXCEPT ![p] = None]
    /\ stateMutex' = [stateMutex EXCEPT ![p] = None]
    /\ counter' = [counter EXCEPT ![p] = 0]
    /\ locktype' = [locktype EXCEPT ![p] = "WRLCK"]
    /\ locked' = [locked EXCEPT ![p] = FALSE]
    /\ recursive' = [recursive EXCEPT ![p] = FALSE]
    /\ fileLock' = [fileLock EXCEPT ![p] = "none"]
    /\ UNCHANGED <<mode, calls>>

-----------------------------------------------------------------------------
Step(g) ==
    \/ RWRLock(g) \/ RWAnnounce(g) \/ RWLock(g)
    \/ Share(g) \/ Open(g) \/ Fcntl(g) \/ Unlock(g)

Next ==
    \/ \E g \in Goroutine : Step(g) \/ \E m \in Method : Call(g, m)
    \/ \E p \in Proc : Crash(p)

Spec == Init /\ [][Next]_vars

\* Goroutines that can run are run, callers release what they hold (every
\* caller in the tree pairs the acquisition with a deferred Unlock), and the
\* kernel grants a record lock that stays compatible.
Fairness == \A g \in Goroutine : WF_vars(Step(g))

FairSpec == Spec /\ Fairness

-----------------------------------------------------------------------------
PC == {"run", "rwMutex", "announced", "stateMutex", "fcntl"}

\* Type invariant.
TypeOK ==
    /\ pc \in [Goroutine -> PC]
    /\ mode \in [Goroutine -> Acquirers]
    /\ depth \in [Goroutine -> 0..MaxDepth]
    /\ calls \in [Goroutine -> 0..MaxCalls]
    /\ rwReaders \in [Proc -> Nat]
    /\ rwWriter \in [Proc -> Goroutine \cup {None}]
    /\ stateMutex \in [Proc -> Goroutine \cup {None}]
    /\ counter \in [Proc -> Nat]
    /\ locktype \in [Proc -> LockType]
    /\ locked \in [Proc -> BOOLEAN]
    /\ recursive \in [Proc -> BOOLEAN]
    /\ fileLock \in [Proc -> LockType \cup {"none"}]

\* Locked() tells of the process, whichever of its goroutines has the lock.
Locked(p) == locked[p] /\ locktype[p] = "WRLCK"

\* g itself has it as a writer.
IsWriter(g) == Holds(g) /\ mode[g] # "RLock"

\* What callers of the lock rely on: while a goroutine holds the lock as a
\* writer (Lock, RecursiveLock) no other goroutine of any process holds it,
\* except that recursive writers of one process may share it.
Exclusion ==
    \A g, h \in Goroutine :
        g # h /\ IsWriter(g) /\ Holds(h) =>
            /\ ProcOf[g] = ProcOf[h]
            /\ mode[g] = "RecursiveLock"
            /\ mode[h] = "RecursiveLock"

\* No holder can run into a panic of Unlock, Touch or Modified, nor into the
\* runtime's fatal error for leaving the wrong side of rwMutex: the fields
\* that these methods test, which every other goroutine of the process
\* overwrites in lock(), agree with the way the holder acquired the lock.
HolderNeverPanics ==
    \A g \in Goroutine : LET p == ProcOf[g] IN
        Holds(g) =>
            /\ locked[p] /\ counter[p] > 0
            /\ IsWriter(g) => Locked(p)
            /\ IF locktype[p] = "RDLCK" \/ recursive[p]
               THEN rwReaders[p] > 0
               ELSE rwWriter[p] = g

\* Every call of an acquiring method returns, with the lock (or dies with
\* its process): no lost wakeup and no deadlock between rwMutex, stateMutex
\* and the record lock.
CallReturns ==
    \A g \in Goroutine : (pc[g] # "run") ~> (pc[g] = "run")

-----------------------------------------------------------------------------
\* The reader-writer lock that the callers see.
RW == INSTANCE ReaderWriterLock WITH
          readers <- {g \in Goroutine : Holds(g) /\ mode[g] = "RLock"},
          writers <- {g \in Goroutine : Holds(g) /\ mode[g] = "Lock"}

\* Without RecursiveLock the lock file, the two mutexes and the counter
\* together implement one reader-writer lock for all goroutines of all
\* processes.
RWSpec == RW!Spec

-----------------------------------------------------------------------------
\* The inductive invariant behind Exclusion and HolderNeverPanics.  An
\* acquisition is a pair: the i-th one that a goroutine has not released.
Acquisition == Goroutine \X (1..MaxDepth)

\* The acquisitions that counter counts.
HeldIn(p) ==
    {a \in Acquisition : ProcOf[a[1]] = p /\ a[2] <= depth[a[1]]}

\* The acquisitions, finished or not, that are inside rwMutex as readers.
Entered(g) == depth[g] + IF pc[g] \in {"stateMutex", "fcntl"} THEN 1 ELSE 0

ReadersIn(p) ==
    {a \in Acquisition :
        /\ ProcOf[a[1]] = p
        /\ EntersAsReader(mode[a[1]])
        /\ a[2] <= Entered(a[1])}

WriterIn(g) ==
    mode[g] = "Lock" /\ (pc[g] \in {"announced", "stateMutex", "fcntl"} \/ Holds(g))

CallInv ==
    \A g \in Goroutine :
        /\ pc[g] # "run" \/ Holds(g) => mode[g] \in Method
        /\ pc[g] # "run" => depth[g] < MaxDepth
        /\ pc[g] # "run" /\ Holds(g) => mode[g] = "RecursiveLock"
        /\ depth[g] > 1 => mode[g] = "RecursiveLock"
        /\ pc[g] = "announced" => mode[g] = "Lock"

RWMutexInv ==
    /\ \A p \in Proc :
        /\ rwReaders[p] = Cardinality(ReadersIn(p))
        /\ rwWriter[p] # None =>
              ProcOf[rwWriter[p]] = p /\ WriterIn(rwWriter[p])
    /\ \A g \in Goroutine : WriterIn(g) =>
        /\ rwWriter[ProcOf[g]] = g
        /\ pc[g] # "announced" => rwReaders[ProcOf[g]] = 0

StateInv ==
    /\ \A p \in Proc :
        /\ counter[p] = Cardinality(HeldIn(p))
        /\ locked[p] <=> counter[p] > 0
        /\ counter[p] = 0 <=> fileLock[p] = "none"
        /\ stateMutex[p] # None => counter[p] = 0 /\ ProcOf[stateMutex[p]] = p
    /\ \A g \in Goroutine :
        /\ pc[g] = "fcntl" <=> stateMutex[ProcOf[g]] = g
        /\ Holds(g) =>
            /\ fileLock[ProcOf[g]] = lType(mode[g])
            /\ locktype[ProcOf[g]] = lType(mode[g])
            /\ recursive[ProcOf[g]] <=> mode[g] = "RecursiveLock"

FcntlInv ==
    \A p, q \in Proc :
        p # q /\ fileLock[p] = "WRLCK" => fileLock[q] = "none"

\* The object's fields, the two mutexes and the record locks of all processes
\* always agree with one another and with who holds the lock.
Inv == TypeOK /\ CallInv /\ RWMutexInv /\ StateInv /\ FcntlInv

\* The callers of a lock file do not use RLock and RecursiveLock together.
NoMixing == ~({"RLock", "RecursiveLock"} \subseteq Method)

=============================================================================
