--------------------------- MODULE LockerProofs ---------------------------
(* Proofs about Locker, for any goroutines, names and counters. *)
EXTENDS Locker, FiniteSetTheorems, TLAPS

\* The goroutines counted for a counter are finitely many.
LEMMA CountedFinite == ASSUME NEW c PROVE IsFiniteSet(Counted(c))
  <1>1. Counted(c) \subseteq Goroutine
    BY DEF Counted
  <1> QED BY <1>1, FS_Subset, LockerAssumption

\* Cardinality changes by one with one goroutine (lockCtr.inc, lockCtr.dec).
LEMMA CountOne ==
  ASSUME NEW S, IsFiniteSet(S), NEW g
  PROVE  /\ Cardinality(S) \in Nat
         /\ g \notin S => Cardinality(S \cup {g}) = Cardinality(S) + 1
         /\ g \in S => Cardinality(S \ {g}) = Cardinality(S) - 1
         /\ Cardinality(S) = 0 <=> S = {}
  BY FS_CardinalityType, FS_AddElement, FS_RemoveElement, FS_EmptySet

\* New makes a locker in which Inv holds.
LEMMA InitInv == Init => Inv
  <1> SUFFICES ASSUME Init PROVE Inv
    OBVIOUS
  <1>1. TypeOK
    BY DEF Init, TypeOK
  <1>2. \A c \in Ctr : Counted(c) = {}
    BY DEF Init, Counted
  <1>3. \A c \in Ctr : waiters[c] = Cardinality(Counted(c))
    BY <1>2, FS_EmptySet DEF Init
  <1>4. NotDropped /\ NothingKept /\ \A g \in Goroutine : ~Busy(g) => ctr[g] = None
    BY DEF Init, NotDropped, NothingKept, Busy
  <1>5. \A c \in Ctr, g \in Goroutine : holder[c] = g <=> pc[g] \in {"locked", "in"} /\ ctr[g] = c
    BY LockerAssumption DEF Init
  <1>6. \A m, n \in Name : locks[m] = locks[n] /\ locks[m] # None => m = n
    BY DEF Init
  <1> QED BY <1>1, <1>3, <1>4, <1>5, <1>6 DEF Inv

\* Lock counts in and finds, or makes, the counter of the name.
LEMMA FindInv == ASSUME Inv, NEW g \in Goroutine, Find(g) PROVE Inv'
  <1> PICK n \in Name, c \in Ctr :
          /\ IF locks[n] = None THEN Unused(c) ELSE c = locks[n]
          /\ locks' = [locks EXCEPT ![n] = c]
          /\ holder' = IF locks[n] = None THEN [holder EXCEPT ![c] = None] ELSE holder
          /\ waiters' = [waiters EXCEPT ![c] = (IF locks[n] = None THEN 0 ELSE waiters[c]) + 1]
          /\ name' = [name EXCEPT ![g] = n]
          /\ ctr' = [ctr EXCEPT ![g] = c]
    BY DEF Find
  <1>p. pc[g] = "out" /\ pc' = [pc EXCEPT ![g] = "waiting"]
    BY DEF Find
  <1> USE DEF Inv
  <1>t. TypeOK
    OBVIOUS
  <1>c. c # None
    BY LockerAssumption
  <1>o. ctr[g] = None
    BY <1>p DEF Busy
  \* A counter that is made was at rest: nobody is counted for it and nobody holds it.
  <1>r. ASSUME locks[n] = None PROVE waiters[c] = 0 /\ holder[c] = None
    <2>1. \A h \in Goroutine : ctr[h] # c
      BY <1>r DEF Unused
    <2>2. Counted(c) = {}
      BY <2>1 DEF Counted
    <2>3. waiters[c] = 0
      BY <2>2, FS_EmptySet
    <2>4. \A h \in Goroutine : holder[c] # h
      BY <2>1
    <2> QED BY <2>3, <2>4, <1>t DEF TypeOK
  <1>w. waiters' = [waiters EXCEPT ![c] = waiters[c] + 1] /\ holder' = holder
    <2>1. CASE locks[n] = None
      BY <2>1, <1>r, <1>t DEF TypeOK
    <2>2. CASE locks[n] # None
      BY <2>2, <1>t DEF TypeOK
    <2> QED BY <2>1, <2>2
  <1>1. TypeOK'
    BY <1>t, <1>p, <1>w DEF TypeOK
  <1>b. \A h \in Goroutine : h # g => pc'[h] = pc[h] /\ ctr'[h] = ctr[h] /\ name'[h] = name[h]
    BY <1>t, <1>p DEF TypeOK
  <1>g. pc'[g] = "waiting" /\ ctr'[g] = c /\ name'[g] = n /\ locks'[n] = c
    BY <1>t, <1>p DEF TypeOK
  <1>n. \A m \in Name : m # n => locks'[m] = locks[m]
    BY <1>t DEF TypeOK
  <1>k. locks[n] # None => locks'[n] = locks[n]
    BY <1>g
  <1>2. NotDropped'
    <2> SUFFICES ASSUME NEW h \in Goroutine, Busy(h)' PROVE (ctr[h] # None /\ locks[name[h]] = ctr[h])'
      BY DEF NotDropped
    <2>1. CASE h = g
      BY <2>1, <1>g, <1>c
    <2>2. CASE h # g
      <3>1. Busy(h) /\ ctr[h] # None /\ locks[name[h]] = ctr[h]
        BY <2>2, <1>b DEF NotDropped, Busy
      <3>2. locks'[name[h]] = locks[name[h]]
        BY <3>1, <1>n, <1>k, <1>t DEF TypeOK
      <3> QED BY <3>1, <3>2, <2>2, <1>b
    <2> QED BY <2>1, <2>2
  <1>3. (\A h \in Goroutine : ~Busy(h) => ctr[h] = None)'
    BY <1>b, <1>g DEF Busy
  <1>4. (\A m, l \in Name : locks[m] = locks[l] /\ locks[m] # None => m = l)'
    <2>1. ASSUME NEW m \in Name, m # n PROVE locks[m] # c
      BY <2>1, <1>c DEF Unused
    <2> QED BY <2>1, <1>n, <1>g
  <1>5. (\A k \in Ctr : waiters[k] = Cardinality(Counted(k)))'
    <2> SUFFICES ASSUME NEW k \in Ctr PROVE waiters'[k] = Cardinality(Counted(k)')
      BY DEF Counted
    <2>1. CASE k = c
      <3>1. Counted(c)' = Counted(c) \cup {g}
        BY <1>b, <1>g DEF Counted
      <3>2. g \notin Counted(c)
        BY <1>p DEF Counted
      <3>3. Cardinality(Counted(c)') = Cardinality(Counted(c)) + 1
        BY <3>1, <3>2, CountOne, CountedFinite
      <3> QED BY <2>1, <3>3, <1>w, <1>t DEF TypeOK
    <2>2. CASE k # c
      <3>1. Counted(k)' = Counted(k)
        BY <2>2, <1>b, <1>g, <1>p DEF Counted
      <3> QED BY <2>2, <3>1, <1>w, <1>t DEF TypeOK
    <2> QED BY <2>1, <2>2
  <1>6. (\A k \in Ctr, h \in Goroutine : holder[k] = h <=> pc[h] \in {"locked", "in"} /\ ctr[h] = k)'
    BY <1>b, <1>g, <1>w, <1>p
  <1>7. NothingKept'
    <2> SUFFICES ASSUME NEW m \in Name, locks'[m] # None
                 PROVE \E h \in Goroutine : Busy(h)' /\ name'[h] = m
      BY DEF NothingKept, Busy
    <2>1. CASE m = n
      BY <2>1, <1>g DEF Busy
    <2>2. CASE m # n
      <3>1. PICK h \in Goroutine : Busy(h) /\ name[h] = m
        BY <2>2, <1>n DEF NothingKept
      <3>2. h # g
        BY <3>1, <1>p DEF Busy
      <3> QED BY <3>1, <3>2, <1>b DEF Busy
    <2> QED BY <2>1, <2>2
  <1> QED BY <1>1, <1>2, <1>3, <1>4, <1>5, <1>6, <1>7

\* nameLock.Lock succeeds when nobody holds the mutex of the counter.
LEMMA AcquireInv == ASSUME Inv, NEW g \in Goroutine, Acquire(g) PROVE Inv'
  <1> USE DEF Inv
  <1>t. TypeOK /\ NotDropped
    OBVIOUS
  <1>c. ctr[g] \in Ctr
    BY <1>t DEF Acquire, Busy, NotDropped, TypeOK
  <1>1. TypeOK'
    BY <1>t, <1>c DEF Acquire, TypeOK
  <1>b. \A h \in Goroutine : Busy(h)' <=> Busy(h)
    BY <1>t DEF Acquire, Busy, TypeOK
  <1>2. NotDropped' /\ NothingKept' /\ (\A h \in Goroutine : ~Busy(h) => ctr[h] = None)'
    BY <1>b DEF Acquire, NotDropped, NothingKept
  <1>3. (\A m, l \in Name : locks[m] = locks[l] /\ locks[m] # None => m = l)'
    BY DEF Acquire
  <1>4. (\A k \in Ctr : waiters[k] = Cardinality(Counted(k)))'
    <2>1. \A k \in Ctr : Counted(k)' = Counted(k)
      BY <1>t DEF Acquire, Counted, TypeOK
    <2> QED BY <2>1 DEF Acquire
  <1>5. (\A k \in Ctr, h \in Goroutine : holder[k] = h <=> pc[h] \in {"locked", "in"} /\ ctr[h] = k)'
    BY <1>t, <1>c, LockerAssumption DEF Acquire, TypeOK
  <1> QED BY <1>1, <1>2, <1>3, <1>4, <1>5

\* The one that has the mutex counts itself out.
LEMMA DecInv == ASSUME Inv, NEW g \in Goroutine, Dec(g) PROVE Inv'
  <1> USE DEF Inv
  <1>t. TypeOK /\ NotDropped
    OBVIOUS
  <1>c. ctr[g] \in Ctr
    BY <1>t DEF Dec, Busy, NotDropped, TypeOK
  <1>w. /\ Counted(ctr[g])' = Counted(ctr[g]) \ {g}
        /\ g \in Counted(ctr[g])
        /\ \A k \in Ctr : k # ctr[g] => Counted(k)' = Counted(k)
    BY <1>t DEF Dec, Counted, TypeOK
  <1>d. /\ Cardinality(Counted(ctr[g])) \in Nat
        /\ Cardinality(Counted(ctr[g])') = Cardinality(Counted(ctr[g])) - 1
        /\ Cardinality(Counted(ctr[g])) # 0
    BY <1>w, CountOne, CountedFinite
  <1>e. waiters[ctr[g]] = Cardinality(Counted(ctr[g]))
    BY <1>c
  <1>1. TypeOK'
    BY <1>t, <1>c, <1>d, <1>e DEF Dec, TypeOK
  <1>b. \A h \in Goroutine : Busy(h)' <=> Busy(h)
    BY <1>t DEF Dec, Busy, TypeOK
  <1>2. NotDropped' /\ NothingKept' /\ (\A h \in Goroutine : ~Busy(h) => ctr[h] = None)'
    BY <1>b DEF Dec, NotDropped, NothingKept
  <1>3. (\A m, l \in Name : locks[m] = locks[l] /\ locks[m] # None => m = l)'
    BY DEF Dec
  <1>4. (\A k \in Ctr : waiters[k] = Cardinality(Counted(k)))'
    <2> SUFFICES ASSUME NEW k \in Ctr PROVE waiters'[k] = Cardinality(Counted(k)')
      BY DEF Counted
    <2>1. CASE k = ctr[g]
      BY <2>1, <1>d, <1>e, <1>t DEF Dec, TypeOK
    <2>2. CASE k # ctr[g]
      BY <2>2, <1>w, <1>t DEF Dec, TypeOK
    <2> QED BY <2>1, <2>2
  <1>5. (\A k \in Ctr, h \in Goroutine : holder[k] = h <=> pc[h] \in {"locked", "in"} /\ ctr[h] = k)'
    BY <1>t DEF Dec, TypeOK
  <1> QED BY <1>1, <1>2, <1>3, <1>4, <1>5

\* Unlock drops the counter only when nobody else points to it.
LEMMA UnlockInv == ASSUME Inv, NEW g \in Goroutine, Unlock(g) PROVE Inv'
  <1> USE DEF Inv
  <1>t. TypeOK /\ NotDropped
    OBVIOUS
  <1> DEFINE c == ctr[g]
  <1> DEFINE n == name[g]
  <1>c. pc[g] = "in" /\ c \in Ctr /\ n \in Name /\ locks[n] = c
    BY <1>t DEF Unlock, Busy, NotDropped, TypeOK
  <1>u. /\ locks' = IF waiters[c] = 0 THEN [locks EXCEPT ![n] = None] ELSE locks
        /\ holder' = [holder EXCEPT ![c] = None]
        /\ pc' = [pc EXCEPT ![g] = "out"] /\ ctr' = [ctr EXCEPT ![g] = None]
        /\ waiters' = waiters /\ name' = name
    BY <1>c DEF Unlock
  <1> HIDE DEF c, n
  <1>g. pc'[g] = "out" /\ ctr'[g] = None
    BY <1>t, <1>u DEF TypeOK
  <1>o. \A h \in Goroutine : h # g => pc'[h] = pc[h] /\ ctr'[h] = ctr[h]
    BY <1>t, <1>u DEF TypeOK
  \* Those counted for c are who else is at c, since g holds it.
  <1>e. ASSUME NEW h \in Goroutine, h # g, Busy(h), ctr[h] = c PROVE h \in Counted(c)
    <2>1. holder[c] = g
      BY <1>c DEF c
    <2>2. pc[h] # "in"
      BY <2>1, <1>e, <1>c
    <2> QED BY <2>2, <1>e DEF Busy, Counted
  <1>z. waiters[c] = 0 <=> Counted(c) = {}
    <2>1. waiters[c] = Cardinality(Counted(c))
      BY <1>c
    <2>2. IsFiniteSet(Counted(c))
      BY CountedFinite
    <2>3. Cardinality(Counted(c)) = 0 <=> Counted(c) = {}
      BY <2>2, FS_EmptySet
    <2> QED BY <2>1, <2>3
  <1>1. TypeOK'
    BY <1>t, <1>u, <1>c DEF TypeOK
  <1>2. NotDropped'
    <2> SUFFICES ASSUME NEW h \in Goroutine, Busy(h)' PROVE (ctr[h] # None /\ locks[name[h]] = ctr[h])'
      BY DEF NotDropped
    <2>1. h # g
      BY <1>g DEF Busy
    <2>2. Busy(h) /\ ctr[h] # None /\ locks[name[h]] = ctr[h] /\ ctr'[h] = ctr[h]
      BY <2>1, <1>o DEF NotDropped, Busy
    <2>3. CASE ctr[h] = c
      <3>1. locks' = locks
        BY <2>1, <2>2, <2>3, <1>e, <1>z, <1>u
      <3> QED BY <3>1, <2>2, <1>u
    <2>4. CASE ctr[h] # c
      <3>1. name[h] # n
        BY <2>2, <2>4, <1>c
      <3>2. locks'[name[h]] = locks[name[h]]
        BY <3>1, <1>u, <1>t DEF TypeOK
      <3> QED BY <3>2, <2>2, <1>u
    <2> QED BY <2>3, <2>4
  <1>3. (\A h \in Goroutine : ~Busy(h) => ctr[h] = None)'
    BY <1>g, <1>o DEF Busy
  <1>4. (\A m, l \in Name : locks[m] = locks[l] /\ locks[m] # None => m = l)'
    BY <1>u, <1>t, <1>c DEF TypeOK
  <1>5. (\A k \in Ctr : waiters[k] = Cardinality(Counted(k)))'
    <2>1. \A k \in Ctr : Counted(k)' = Counted(k)
      BY <1>c, <1>g, <1>o DEF Counted
    <2> QED BY <2>1, <1>u
  <1>6. (\A k \in Ctr, h \in Goroutine : holder[k] = h <=> pc[h] \in {"locked", "in"} /\ ctr[h] = k)'
    <2> SUFFICES ASSUME NEW k \in Ctr, NEW h \in Goroutine
                 PROVE holder'[k] = h <=> pc'[h] \in {"locked", "in"} /\ ctr'[h] = k
      OBVIOUS
    <2>1. holder[c] = g
      BY <1>c DEF c
    <2>2. CASE k = c
      <3>1. holder'[k] # h
        BY <2>2, <1>u, <1>t, <1>c, LockerAssumption DEF TypeOK
      <3>2. ~(pc'[h] \in {"locked", "in"} /\ ctr'[h] = k)
        BY <2>1, <2>2, <1>g, <1>o, <1>c
      <3> QED BY <3>1, <3>2
    <2>3. CASE k # c
      <3>1. holder'[k] = holder[k]
        BY <2>3, <1>u, <1>t DEF TypeOK
      <3>2. holder[k] = g => FALSE
        BY <2>3 DEF c
      <3> QED BY <3>1, <3>2, <1>g, <1>o
    <2> QED BY <2>2, <2>3
  <1>7. NothingKept'
    <2> SUFFICES ASSUME NEW m \in Name, locks'[m] # None
                 PROVE \E h \in Goroutine : Busy(h)' /\ name'[h] = m
      BY DEF NothingKept, Busy
    <2>1. CASE m = n
      <3>1. Counted(c) # {}
        BY <2>1, <1>z, <1>u, <1>t, <1>c DEF TypeOK
      <3>2. PICK h \in Counted(c) : TRUE
        BY <3>1
      <3>3. h \in Goroutine /\ h # g /\ Busy(h) /\ ctr[h] = c
        BY <3>2, <1>c DEF Counted, Busy
      <3>4. locks[name[h]] = c /\ name[h] \in Name
        BY <3>3, <1>t DEF NotDropped, TypeOK
      <3>5. name[h] = m
        BY <3>4, <2>1, <1>c, LockerAssumption
      <3> QED BY <3>3, <3>5, <1>o, <1>u DEF Busy
    <2>2. CASE m # n
      <3>1. locks[m] # None
        BY <2>2, <1>u, <1>t DEF TypeOK
      <3>2. PICK h \in Goroutine : Busy(h) /\ name[h] = m
        BY <3>1 DEF NothingKept
      <3>3. h # g
        BY <3>2, <2>2 DEF n
      <3> QED BY <3>2, <3>3, <1>o, <1>u DEF Busy
    <2> QED BY <2>1, <2>2
  <1> QED BY <1>1, <1>2, <1>3, <1>4, <1>5, <1>6, <1>7

\* Every step of Lock and Unlock keeps Inv.
THEOREM LockerInvariant == Spec => []Inv
  <1>1. ASSUME Inv, [Next]_vars PROVE Inv'
    <2>1. ASSUME NEW g \in Goroutine, Find(g) \/ Acquire(g) \/ Dec(g) \/ Unlock(g) PROVE Inv'
      BY <1>1, <2>1, FindInv, AcquireInv, DecInv, UnlockInv
    <2>2. CASE UNCHANGED vars
      BY <1>1, <2>2 DEF Inv, TypeOK, NotDropped, NothingKept, Counted, Busy, vars
    <2> QED BY <1>1, <2>1, <2>2 DEF Next, NoSuchLock
  <1> QED BY InitInv, <1>1, PTL DEF Spec

\* Lock and Unlock of a name exclude each other, whatever goroutines use whatever names
\* and whenever counters are dropped and made anew.
THEOREM LockerExclusion == Spec => []MutualExclusion
  <1>1. Inv => MutualExclusion
    <2> SUFFICES ASSUME Inv, NEW g \in Goroutine, NEW h \in Goroutine,
                        pc[g] = "in", pc[h] = "in", name[g] = name[h]
                 PROVE g = h
      BY DEF MutualExclusion
    <2>1. ctr[g] = ctr[h] /\ ctr[g] \in Ctr
      BY DEF Inv, NotDropped, Busy, TypeOK
    <2> QED BY <2>1 DEF Inv
  <1> QED BY <1>1, LockerInvariant, PTL

\* The counter of a name is there as long as someone waits for it or holds it.
THEOREM LockerNotDropped == Spec => []NotDropped
  BY LockerInvariant, PTL DEF Inv

\* The locker keeps nothing for a name that nobody uses.
THEOREM LockerNothingKept == Spec => []NothingKept
  BY LockerInvariant, PTL DEF Inv

=============================================================================
