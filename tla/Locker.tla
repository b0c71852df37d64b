------------------------------ MODULE Locker ------------------------------
(***************************************************************************)
(* Locks by name (pkg/locker/locker.go), which the overlay, aufs and       *)
(* devicemapper drivers hold per layer in Get and Put.  A counter is the   *)
(* mutex of one name with the number of those that wait for it; it is made *)
(* when a name is first locked and dropped when nobody waits any more.     *)
(***************************************************************************)
EXTENDS Integers, FiniteSets

CONSTANTS Goroutine, Name, Ctr, None

ASSUME LockerAssumption == IsFiniteSet(Goroutine) /\ None \notin Ctr /\ None \notin Goroutine

VARIABLES
    locks,     \* per name: its counter, or None
    holder,    \* per counter: who holds its mutex, or None
    waiters,   \* per counter: lockCtr.waiters
    pc,        \* per goroutine: "out", "waiting" for the mutex, "locked" it, "in"side
    name, ctr  \* per goroutine: what it locks, and the counter it found

vars == <<locks, holder, waiters, pc, name, ctr>>

Init ==
    /\ locks = [n \in Name |-> None]
    /\ holder = [c \in Ctr |-> None]
    /\ waiters = [c \in Ctr |-> 0]
    /\ pc = [g \in Goroutine |-> "out"]
    /\ name \in [Goroutine -> Name]
    /\ ctr = [g \in Goroutine |-> None]

\* The memory of a counter is used again once nothing points to it.
Unused(c) == (\A n \in Name : locks[n] # c) /\ (\A g \in Goroutine : ctr[g] # c)

countIfFound(g) ==
    /\ pc[g] = "out"
    /\ \E n \in Name, c \in Ctr :
          /\ IF locks[n] = None THEN Unused(c) ELSE c = locks[n]
          /\ locks' = [locks EXCEPT ![n] = c]
          /\ holder' = IF locks[n] = None THEN [holder EXCEPT ![c] = None] ELSE holder
          /\ waiters' = [waiters EXCEPT ![c] = IF locks[n] = None THEN 0 ELSE @ + 1]
          /\ name' = [name EXCEPT ![g] = n]
          /\ ctr' = [ctr EXCEPT ![g] = c]
    /\ pc' = [pc EXCEPT ![g] = "waiting"]

\* Lock, up to l.mu.Unlock: find or make the counter, and count in.
Find(g) ==
    /\ pc[g] = "out"
    /\ \E n \in Name, c \in Ctr :
          /\ IF locks[n] = None THEN Unused(c) ELSE c = locks[n]
          /\ locks' = [locks EXCEPT ![n] = c]
          /\ holder' = IF locks[n] = None THEN [holder EXCEPT ![c] = None] ELSE holder
          /\ waiters' = [waiters EXCEPT ![c] = (IF locks[n] = None THEN 0 ELSE @) + 1]
          /\ name' = [name EXCEPT ![g] = n]
          /\ ctr' = [ctr EXCEPT ![g] = c]
    /\ pc' = [pc EXCEPT ![g] = "waiting"]

\* nameLock.Lock.
Acquire(g) ==
    /\ pc[g] = "waiting" /\ holder[ctr[g]] = None
    /\ holder' = [holder EXCEPT ![ctr[g]] = g]
    /\ pc' = [pc EXCEPT ![g] = "locked"]
    /\ UNCHANGED <<locks, waiters, name, ctr>>

\* nameLock.dec, after l.mu was released.
Dec(g) ==
    /\ pc[g] = "locked"
    /\ waiters' = [waiters EXCEPT ![ctr[g]] = @ - 1]
    /\ pc' = [pc EXCEPT ![g] = "in"]
    /\ UNCHANGED <<locks, holder, name, ctr>>

dropAlways(g) ==
    /\ pc[g] = "in" /\ locks[name[g]] # None
    /\ LET c == locks[name[g]] IN
       /\ locks' = [locks EXCEPT ![name[g]] = None]
       /\ holder' = [holder EXCEPT ![c] = None]
    /\ pc' = [pc EXCEPT ![g] = "out"]
    /\ ctr' = [ctr EXCEPT ![g] = None]
    /\ UNCHANGED <<waiters, name>>

keepAlways(g) ==
    /\ pc[g] = "in" /\ locks[name[g]] # None
    /\ LET c == locks[name[g]] IN
       /\ locks' = locks
       /\ holder' = [holder EXCEPT ![c] = None]
    /\ pc' = [pc EXCEPT ![g] = "out"]
    /\ ctr' = [ctr EXCEPT ![g] = None]
    /\ UNCHANGED <<waiters, name>>

\* Unlock: the counter is looked up again by the name.
Unlock(g) ==
    /\ pc[g] = "in" /\ locks[name[g]] # None
    /\ LET c == locks[name[g]] IN
       /\ locks' = IF waiters[c] = 0 THEN [locks EXCEPT ![name[g]] = None] ELSE locks
       /\ holder' = [holder EXCEPT ![c] = None]
    /\ pc' = [pc EXCEPT ![g] = "out"]
    /\ ctr' = [ctr EXCEPT ![g] = None]
    /\ UNCHANGED <<waiters, name>>

\* Unlock of a name that is not locked returns ErrNoSuchLock.
NoSuchLock(g) ==
    /\ pc[g] = "out" /\ \E n \in Name : locks[n] = None
    /\ UNCHANGED vars

Next == \E g \in Goroutine : Find(g) \/ Acquire(g) \/ Dec(g) \/ Unlock(g) \/ NoSuchLock(g)

Spec == Init /\ [][Next]_vars

-----------------------------------------------------------------------------
Busy(g) == pc[g] \in {"waiting", "locked", "in"}
Counted(c) == {g \in Goroutine : pc[g] \in {"waiting", "locked"} /\ ctr[g] = c}

TypeOK ==
    /\ locks \in [Name -> Ctr \cup {None}]
    /\ holder \in [Ctr -> Goroutine \cup {None}]
    /\ waiters \in [Ctr -> Nat]
    /\ pc \in [Goroutine -> {"out", "waiting", "locked", "in"}]
    /\ name \in [Goroutine -> Name]
    /\ ctr \in [Goroutine -> Ctr \cup {None}]

\* At most one goroutine is between Lock and Unlock of a name, also while the counter of the
\* name is dropped and made anew.
MutualExclusion ==
    \A g, h \in Goroutine : pc[g] = "in" /\ pc[h] = "in" /\ name[g] = name[h] => g = h

\* A counter is not dropped while someone waits for it or holds it ("this makes sure that the
\* lock isn't deleted if Lock and Unlock are called concurrently").
NotDropped == \A g \in Goroutine : Busy(g) => ctr[g] # None /\ locks[name[g]] = ctr[g]

\* Nothing is kept for a name that nobody uses ("If the given lock is not being waited on by
\* any other callers, it is deleted").
NothingKept == \A n \in Name : locks[n] # None => \E g \in Goroutine : Busy(g) /\ name[g] = n

\* What makes these three inductive: waiters counts those that wait or have not yet counted
\* themselves out, the holder is the one goroutine past the mutex, and
\* no two names share a counter.
Inv ==
    /\ TypeOK /\ NotDropped
    /\ \A g \in Goroutine : ~Busy(g) => ctr[g] = None
    /\ \A m, n \in Name : locks[m] = locks[n] /\ locks[m] # None => m = n
    /\ \A c \in Ctr : waiters[c] = Cardinality(Counted(c))
    /\ \A c \in Ctr, g \in Goroutine : holder[c] = g <=> pc[g] \in {"locked", "in"} /\ ctr[g] = c
    /\ NothingKept

=============================================================================
