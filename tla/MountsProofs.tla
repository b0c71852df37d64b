---------------------------- MODULE MountsProofs ----------------------------
(***************************************************************************)
(* Proofs about Mounts, for processes with one goroutine each: the count   *)
(* in mountpoints.json is the number of mounts that clients need, and the  *)
(* layer is mounted as long as one of them does.                           *)
(***************************************************************************)
EXTENDS MountsInvariant

-----------------------------------------------------------------------------
(* The mounts. *)

\* A step of one client changes its own membership only.
LEMMA UsersOthers ==
  ASSUME StateInv, NEW c \in Client,
         \A d \in Client : d # c => /\ pc'[d] = pc[d] /\ call'[d] = call[d] /\ rlstore'[d] = rlstore[d]
                                    /\ rlstore[d] \in Object => ctr'[rlstore[d]] = ctr[rlstore[d]]
  PROVE  /\ (c \in Users' <=> c \in Users) => Users' = Users
         /\ c \in Users' => Users' = Users \cup {c}
         /\ c \notin Users' => Users' = Users \ {c}
  <1>1. \A d \in Client : pc[d] = "open" => rlstore[d] \in Object
    BY Working, Zenon
  <1>2. \A d \in Client : d # c => (d \in Users' <=> d \in Users)
    BY <1>1, Zenon DEF Users
  <1>3. Users \subseteq Client /\ Users' \subseteq Client
    BY Zenon DEF Users
  <1> QED BY <1>2, <1>3

\* What adding and taking away a client does to the size of Users.
LEMMA UsersSize ==
  ASSUME IsFiniteSet(Users), NEW c
  PROVE  /\ Cardinality(Users) \in Nat
         /\ IsFiniteSet(Users \cup {c}) /\ IsFiniteSet(Users \ {c})
         /\ c \notin Users => Cardinality(Users \cup {c}) = Cardinality(Users) + 1
         /\ c \in Users => Cardinality(Users \ {c}) = Cardinality(Users) - 1 /\ Cardinality(Users) > 0
  <1>2. Cardinality(Users) \in Nat
    BY FS_CardinalityType, Zenon
  <1>3. IsFiniteSet(Users \cup {c}) /\ (c \notin Users => Cardinality(Users \cup {c}) = Cardinality(Users) + 1)
    BY FS_AddElement, Zenon
  <1>4. IsFiniteSet(Users \ {c}) /\ (c \in Users => Cardinality(Users \ {c}) = Cardinality(Users) - 1)
    BY FS_RemoveElement, Zenon
  <1>5. c \in Users => Cardinality(Users) # 0
    BY FS_EmptySet, Zenon
  <1> QED BY <1>2, <1>3, <1>4, <1>5

\* What a step that mounts and unmounts nothing must not do.
LEMMA KeepLower ==
  ASSUME StateInv, LowerInv, Users' \subseteq Users, UNCHANGED <<mounted, count>>, happened \subseteq happened',
         holds' = holds \/ holds' = holds - 1,
         \A o \in Object : ctr'[o] = NewCounter \/ ctr'[o] = ctr[o] \/ ctr'[o].check,
         \A d \in Client :
            /\ pc'[d] = "mount" /\ call'[d] \in Naive => ctr'[rlstore'[d]].count <= 1
            /\ pc'[d] = "count" => (pc[d] = "count" /\ call'[d] = call[d]) \/ mounted > 0
            /\ Critical(d)' /\ pc'[d] \in {"Put", "unmount"} =>
                  \/ Critical(d) /\ pc[d] \in {"Put", "unmount"}
                  \/ "forced" \in happened' \/ "skewed" \in happened' \/ count <= 1
  PROVE  LowerInv'
  <1>1. IsFiniteSet(Users') /\ Cardinality(Users') <= Cardinality(Users)
    BY FS_Subset, Zenon DEF LowerInv
  <1>2. Cardinality(Users) \in Nat /\ Cardinality(Users') \in Nat
    BY <1>1, FS_CardinalityType, Zenon DEF LowerInv
  <1>3. \A o \in Object : ~ctr'[o].check => ctr'[o].count = 0
    BY DEF LowerInv, NewCounter
  <1>5. ASSUME happened' \subseteq {"crash", "shared", "unmount"}
        PROVE  /\ holds' > 0 => mounted' >= 1 + Cardinality(Users')
               /\ \A d \in Client : pc'[d] = "count" /\ call'[d] = "Mount" => mounted' >= 1
               /\ \A d \in Client : Critical(d)' /\ pc'[d] \in {"Put", "unmount"} => count' <= 1
    <2>1. happened \subseteq {"crash", "shared", "unmount"} /\ "forced" \notin happened' /\ "skewed" \notin happened'
      BY <1>5, Zenon
    <2>2. mounted \in Nat /\ holds \in Nat
      BY Zenon DEF StateInv, TypeOK
    <2>3. holds' > 0 => mounted' >= 1 + Cardinality(Users')
      BY <1>1, <1>2, <2>1, <2>2 DEF LowerInv
    <2> QED BY <2>1, <2>2, <2>3 DEF LowerInv
  <1> QED BY <1>1, <1>3, <1>5, Zenon DEF LowerInv

LEMMA KeepUpper ==
  ASSUME StateInv, UpperInv, UNCHANGED <<mounted, count>>, happened \subseteq happened',
         happened' = {} =>
            /\ Users' = Users /\ CounterBound'
            /\ \A d \in Client :
                /\ pc[d] = "count" => pc'[d] = "count"
                /\ Critical(d)' /\ pc'[d] \in {"Get", "mount", "uncount"} =>
                      \/ Critical(d) /\ pc[d] = pc'[d]
                      \/ mounted <= Cardinality(Users) \/ (pc'[d] = "uncount" /\ ~(count <= 1))
  PROVE  UpperInv'
  <1> SUFFICES ASSUME happened' = {} PROVE UpperInv'
    BY Zenon DEF UpperInv
  <1>0. happened = {} /\ UpperInv
    BY Zenon
  <1>3. /\ mounted' <= 1 + Cardinality(Users')
        /\ \A c \in Client :
              Critical(c)' /\ (pc'[c] \in {"Get", "mount"} \/ (pc'[c] = "uncount" /\ count' <= 1)) =>
                  mounted' <= Cardinality(Users')
        /\ count' = 0 /\ (\A c \in Client : pc'[c] # "count") => mounted' <= Cardinality(Users')
    BY <1>0, Zenon DEF UpperInv
  <1> QED BY <1>3, Zenon DEF UpperInv

\* Counters are kept or forgotten, and reads go on.
LEMMA KeepBound ==
  ASSUME CounterBound, \A o \in Object : ctr'[o] = NewCounter \/ ctr'[o] = ctr[o] \/ ctr'[o].count <= 1,
         \A d \in Client : pc[d] = "open" /\ call[d] \in Naive =>
            \/ pc'[d] = "open" /\ call'[d] = call[d] /\ rlstore'[d] = rlstore[d]
            \/ rlstore[d] \in Object => ctr'[rlstore[d]].count <= 1
  PROVE  CounterBound'
  BY DEF CounterBound, NewCounter

\* A step of a client that has, and makes, no mount.
LEMMA Quiet ==
  ASSUME StateInv, LowerInv, UpperInv, NEW c \in Client,
         \A d \in Client : d # c => /\ pc'[d] = pc[d] /\ call'[d] = call[d] /\ rlstore'[d] = rlstore[d]
                                    /\ rlstore[d] \in Object => ctr'[rlstore[d]] = ctr[rlstore[d]],
         \A o \in Object : ctr'[o] = NewCounter \/ ctr'[o] = ctr[o],
         UNCHANGED <<mounted, count>>, happened \subseteq happened', holds' = holds \/ holds' = holds - 1,
         pc[c] \notin {"open", "count", "unmount"},
         \/ pc'[c] \notin {"open", "mount", "count", "Get", "uncount", "unmount", "Put"}
         \/ pc'[c] = "Put" /\ "forced" \in happened
  PROVE  LowerInv' /\ UpperInv'
  <1>1. c \notin Users /\ c \notin Users'
    BY Zenon DEF Users
  <1>2. Users' = Users
    BY <1>1, UsersOthers, Zenon
  <1>3. \A d \in Client : d # c => (Critical(d)' <=> Critical(d))
    BY Zenon DEF Critical
  <1>4. \A d \in Client : pc[d] # "idle" => rlstore[d] \in Object
    BY Working, Zenon
  <1>5. LowerInv'
    <2>1. \A d \in Client :
            /\ pc'[d] = "mount" /\ call'[d] \in Naive => ctr'[rlstore'[d]].count <= 1
            /\ pc'[d] = "count" => pc[d] = "count" /\ call'[d] = call[d]
            /\ Critical(d)' /\ pc'[d] \in {"Put", "unmount"} =>
                  (Critical(d) /\ pc[d] \in {"Put", "unmount"}) \/ "forced" \in happened'
      BY <1>3, <1>4, Zenon DEF LowerInv
    <2> QED BY <1>2, <2>1, KeepLower, Zenon
  <1>6. UpperInv'
    <2>1. \A d \in Client :
                /\ pc[d] = "count" => pc'[d] = "count"
                /\ Critical(d)' /\ pc'[d] \in {"Get", "mount", "uncount"} =>
                      Critical(d) /\ pc[d] = pc'[d]
      BY <1>3, Zenon
    <2>2. CounterBound => CounterBound'
      BY KeepBound, Zenon
    <2>3. happened' = {} => CounterBound'
      BY <2>2, Zenon DEF UpperInv
    <2> QED BY <1>2, <2>1, <2>3, KeepUpper, Zenon
  <1> QED BY <1>5, <1>6, Zenon

\* The counters that are in use survive the collection of those that are not.
LEMMA CollectCounters ==
  ASSUME NEW copies \in [Object -> Nat], NEW counters \in [Object -> Counter], Collect(copies, counters)
  PROVE  /\ \A d \in Client : rlstore'[d] \in Object => ctr'[rlstore'[d]] = counters[rlstore'[d]]
         /\ \A o \in Object : ctr'[o] = NewCounter \/ ctr'[o] = counters[o]
  <1>1. \A d \in Client : rlstore'[d] \in Object =>
               MountCount'[rlstore'[d]] = copies[rlstore'[d]] /\ ctr'[rlstore'[d]] = counters[rlstore'[d]]
    BY CollectFacts, Zenon
  <1>2. \A o \in Object : ctr'[o] = NewCounter \/ ctr'[o] = counters[o]
    BY CollectFacts, Zenon
  <1> QED BY <1>1, <1>2, Zenon

\* A call begins with a new counter, or with the one of its process.
LEMMA LayerStoreMounts ==
  ASSUME OneGoroutine, StateInv, LowerInv, UpperInv, NEW c \in Client, NEW m \in Call, LayerStore(c, m)
  PROVE  LowerInv' /\ UpperInv'
  <1>1. /\ \A d \in Client : d # c => pc'[d] = pc[d] /\ call'[d] = call[d]
        /\ UNCHANGED <<mounted, count, happened>>
        /\ pc[c] = "idle" /\ pc'[c] \in {"graphLock", "lock"}
    BY Zenon DEF LayerStore, Go, StateInv, TypeOK
  <1>2. holds' = holds \/ holds' = holds - 1
    BY Zenon DEF LayerStore
  <1>3. PICK o \in Object :
            /\ rlstore' = [rlstore EXCEPT ![c] = o] /\ layerStore' = [layerStore EXCEPT ![ProcOf[c]] = o]
            /\ \/ layerStore[ProcOf[c]] = o /\ UNCHANGED <<MountCount, ctr>>
               \/ /\ \A q \in Proc \ {ProcOf[c]} : layerStore[q] # o
                  /\ \A d \in Client : rlstore[d] # o
                  /\ mountsLock = None
                  /\ Collect([MountCount EXCEPT ![o] = count], [ctr EXCEPT ![o] = NewCounter])
    BY LayerStoreFacts, Zenon DEF StateInv
  <1>4. \A d \in Client : d # c => rlstore'[d] = rlstore[d]
    BY <1>3, Zenon DEF StateInv, TypeOK
  <1>5. /\ \A d \in Client : d # c /\ rlstore[d] \in Object => ctr'[rlstore[d]] = ctr[rlstore[d]]
        /\ \A x \in Object : ctr'[x] = NewCounter \/ ctr'[x] = ctr[x]
    <2>1. CASE UNCHANGED <<MountCount, ctr>>
      BY <2>1, Zenon
    <2>2. CASE /\ \A d \in Client : rlstore[d] # o
               /\ Collect([MountCount EXCEPT ![o] = count], [ctr EXCEPT ![o] = NewCounter])
      <3> DEFINE copies == [MountCount EXCEPT ![o] = count]
                 counters == [ctr EXCEPT ![o] = NewCounter]
      <3>1. copies \in [Object -> Nat] /\ counters \in [Object -> Counter]
        BY DEF StateInv, TypeOK, NewCounter, Counter
      <3>2. counters[o] = NewCounter /\ \A x \in Object : x # o => counters[x] = ctr[x]
        BY Zenon DEF StateInv, TypeOK
      <3>a. Collect(copies, counters)
        BY <2>2, Zenon
      <3> HIDE DEF copies, counters
      <3>3. /\ \A d \in Client : rlstore'[d] \in Object => ctr'[rlstore'[d]] = counters[rlstore'[d]]
            /\ \A x \in Object : ctr'[x] = NewCounter \/ ctr'[x] = counters[x]
        BY <3>1, <3>a, CollectCounters, Zenon
      <3> QED BY <1>4, <2>2, <3>2, <3>3
    <2> QED BY <1>3, <2>1, <2>2, Zenon
  <1> QED BY <1>1, <1>2, <1>4, <1>5, Quiet, Zenon

\* A process that ends in a call leaves its mounts, and one that ends between calls has none of its own.
LEMMA ExitMounts ==
  ASSUME StateInv, LowerInv, UpperInv, NEW p \in Proc, Exit(p)
  PROVE  LowerInv' /\ UpperInv'
  <1>1. /\ \A d \in Client : ProcOf[d] # p => pc'[d] = pc[d] /\ call'[d] = call[d] /\ rlstore'[d] = rlstore[d]
        /\ \A d \in Client : ProcOf[d] = p => pc'[d] = "idle" /\ call'[d] = None /\ rlstore'[d] = None
        /\ UNCHANGED <<count, holds, mounted>> /\ happened \subseteq happened' /\ Collect(MountCount, ctr)
        /\ "crash" \notin happened' => \A d \in Client : ProcOf[d] = p => pc[d] = "idle"
    BY Zenon DEF Exit, Of, StateInv, TypeOK
  <1>2. MountCount \in [Object -> Nat] /\ ctr \in [Object -> Counter]
    BY Zenon DEF StateInv, TypeOK
  <1>3. /\ \A d \in Client : rlstore'[d] \in Object => ctr'[rlstore'[d]] = ctr[rlstore'[d]]
        /\ \A o \in Object : ctr'[o] = NewCounter \/ ctr'[o] = ctr[o]
    BY <1>1, <1>2, CollectCounters, Zenon
  <1>4. \A d \in Client : pc[d] # "idle" => rlstore[d] \in Object
    BY Working, Zenon
  <1>5. \A d \in Client : ProcOf[d] # p => (Critical(d)' <=> Critical(d)) /\ (d \in Users' <=> d \in Users)
    BY <1>1, <1>3, <1>4 DEF Critical, Users
  <1>6. \A d \in Client : ProcOf[d] = p => ~Critical(d)' /\ d \notin Users'
    BY <1>1, Zenon DEF Critical, Users
  <1>7. Users' \subseteq Users
    <2>1. Users' \subseteq Client
      BY Zenon DEF Users
    <2> QED BY <1>5, <1>6, <2>1, Zenon
  <1>8. LowerInv'
    <2>1. \A d \in Client :
            /\ pc'[d] = "mount" /\ call'[d] \in Naive => ctr'[rlstore'[d]].count <= 1
            /\ pc'[d] = "count" => pc[d] = "count" /\ call'[d] = call[d]
            /\ Critical(d)' /\ pc'[d] \in {"Put", "unmount"} =>
                  (Critical(d) /\ pc[d] \in {"Put", "unmount"}) \/ "forced" \in happened'
      BY <1>1, <1>3, <1>4, <1>5, <1>6 DEF LowerInv
    <2> QED BY <1>1, <1>3, <1>7, <2>1, KeepLower, Zenon
  <1>9. UpperInv'
    <2>1. ASSUME happened' = {}
          PROVE  /\ Users' = Users /\ CounterBound'
                 /\ \A d \in Client :
                    /\ pc[d] = "count" => pc'[d] = "count"
                    /\ Critical(d)' /\ pc'[d] \in {"Get", "mount", "uncount"} => Critical(d) /\ pc[d] = pc'[d]
      <3>1. \A d \in Client : ProcOf[d] = p => pc[d] = "idle" /\ d \notin Users
        BY <1>1, <2>1, Zenon DEF Users
      <3>2. Users' = Users
        <4>1. Users \subseteq Client
          BY Zenon DEF Users
        <4> QED BY <3>1, <1>5, <1>7, <4>1, Zenon
      <3>3. CounterBound'
        <4>1. CounterBound
          BY <1>1, <2>1, Zenon DEF UpperInv
        <4>2. \A d \in Client : pc[d] = "open" => pc'[d] = "open" /\ call'[d] = call[d] /\ rlstore'[d] = rlstore[d]
          BY <1>1, <3>1, Zenon
        <4> QED BY <1>3, <4>1, <4>2, KeepBound, Zenon
      <3> QED BY <1>1, <1>5, <1>6, <3>1, <3>2, <3>3, Zenon
    <2> QED BY <1>1, <1>3, <2>1, KeepUpper, Zenon
  <1> QED BY <1>8, <1>9, Zenon

-----------------------------------------------------------------------------
(* The steps that mount, unmount and count. *)

\* Whoever has mountpoints.lock is alone with it, and whoever has layers.lock for writing is alone.
LEMMA Alone ==
  ASSUME StateInv, NEW c \in Client
  PROVE  /\ Critical(c) => \A d \in Client : d # c => ~Critical(d)
         /\ mountsLock = None => \A d \in Client : ~Critical(d)
         /\ pc[c] \notin Outside /\ call[c] \in Write =>
               Users = {} /\ Cardinality(Users) = 0 /\ \A d \in Client : d # c => pc[d] \in Outside
  <1>1. Critical(c) => \A d \in Client : d # c => ~Critical(d)
    BY Zenon DEF StateInv, LockInv
  <1>2. mountsLock = None => \A d \in Client : ~Critical(d)
    BY NoneAssumption, Zenon DEF StateInv, LockInv
  <1>3. ASSUME pc[c] \notin Outside, call[c] \in Write
        PROVE  Users = {} /\ Cardinality(Users) = 0 /\ \A d \in Client : d # c => pc[d] \in Outside
    <2>1. writers = {c} /\ readers = {}
      BY <1>3, Zenon DEF StateInv, LockInv
    <2>2. \A d \in Client : d # c => pc[d] \in Outside
      BY <2>1, Zenon DEF StateInv, LockInv
    <2>3. Users = {}
      BY <1>3, <2>2, Zenon DEF Users, Outside, Write, Naive
    <2> QED BY <2>2, <2>3, FS_EmptySet, Zenon
  <1> QED BY <1>1, <1>2, <1>3, Zenon

\* What the driver's counter is before it counts.
LEMMA CheckedFacts ==
  ASSUME StateInv, LowerInv, NEW c \in Client, pc[c] # "idle"
  PROVE  /\ Checked(rlstore[c]) \in Int
         /\ mounted = 0 => Checked(rlstore[c]) = 0
         /\ ctr[rlstore[c]].count <= 1 => Checked(rlstore[c]) <= 1
         /\ ctr[rlstore[c]].count > 1 /\ mounted > 0 => Checked(rlstore[c]) = ctr[rlstore[c]].count
         /\ ctr[rlstore[c]].count \in Int
         /\ ~(pc[c] = "open" /\ call[c] \in Naive) /\ CounterBound => ctr[rlstore[c]].count <= 1
  <1> DEFINE o == rlstore[c]
  <1>1. o \in Object
    BY Working, Zenon
  <1>2. ctr[o] \in Counter
    BY <1>1, Zenon DEF StateInv, TypeOK
  <1>3. ctr[o].check \in BOOLEAN /\ ctr[o].count \in Int
    BY <1>2, Zenon DEF Counter
  <1>4. ~ctr[o].check => ctr[o].count = 0
    BY <1>1, Zenon DEF LowerInv
  <1>5. mounted \in Nat
    BY Zenon DEF StateInv, TypeOK
  <1>6. ~(pc[c] = "open" /\ call[c] \in Naive) /\ CounterBound => ctr[o].count <= 1
    BY <1>1, NoneAssumption DEF CounterBound, StateInv, ObjectInv
  <1> QED BY <1>3, <1>4, <1>5, <1>6 DEF Checked

\* No step of a call takes a mount away that is needed, or leaves one that is not.
LEMMA StepMounts ==
  ASSUME StateInv, KnownInv, CountInv, LowerInv, UpperInv, NEW c \in Client, Step(c)
  PROVE  LowerInv' /\ UpperInv'
  <1>1. CASE Lock_graphLock(c)
    <2> USE <1>1
    <2>1. /\ \A d \in Client : d # c => pc'[d] = pc[d]
          /\ UNCHANGED <<call, rlstore, mounted, count, holds, happened>>
          /\ pc[c] = "graphLock" /\ pc'[c] = "lock" /\ Collect(MountCount, ctr)
      BY Zenon DEF Lock_graphLock, Go, StateInv, TypeOK, history
    <2>2. MountCount \in [Object -> Nat] /\ ctr \in [Object -> Counter]
      BY Zenon DEF StateInv, TypeOK
    <2>3. /\ \A d \in Client : rlstore'[d] \in Object => ctr'[rlstore'[d]] = ctr[rlstore'[d]]
          /\ \A o \in Object : ctr'[o] = NewCounter \/ ctr'[o] = ctr[o]
      BY <2>1, <2>2, CollectCounters, Zenon
    <2>4. \A d \in Client : rlstore[d] \in Object => ctr'[rlstore[d]] = ctr[rlstore[d]]
      BY <2>1, <2>3, Zenon
    <2> QED BY <2>1, <2>3, <2>4, Quiet, Zenon
  <1>2. CASE Lock(c)
    <2> USE <1>2
    <2>1. /\ \A d \in Client : d # c => pc'[d] = pc[d]
          /\ UNCHANGED <<call, rlstore, ctr, mounted, count, holds>> /\ happened \subseteq happened'
      BY Zenon DEF Lock, Go, L!Lock, L!RLock, StateInv, TypeOK, counts, mounts, history
    <2>2. /\ pc[c] \notin {"open", "count", "unmount"}
          /\ \/ pc'[c] \notin {"open", "mount", "count", "Get", "uncount", "unmount", "Put"}
             \/ pc'[c] = "Put" /\ "forced" \in happened
      BY Zenon DEF Lock, Go, L!Lock, L!RLock, StateInv, TypeOK, CallInv, CallAt
    <2> QED BY <2>1, <2>2, Quiet, Zenon
  <1>3. ASSUME NEW changed \in BOOLEAN, ReloadIfChanged(c, changed) PROVE LowerInv' /\ UpperInv'
    <2> USE <1>3
    <2>1. /\ \A d \in Client : d # c => pc'[d] = pc[d]
          /\ UNCHANGED <<call, rlstore, ctr, mounted, count, holds>> /\ happened \subseteq happened'
      BY Zenon DEF ReloadIfChanged, Go, StateInv, TypeOK, counts, mounts, history
    <2>2. /\ pc[c] \notin {"open", "count", "unmount"}
          /\ \/ pc'[c] \notin {"open", "mount", "count", "Get", "uncount", "unmount", "Put"}
             \/ pc'[c] = "Put" /\ "forced" \in happened
      BY DEF ReloadIfChanged, Go, StateInv, TypeOK, CallInv, CallAt
    <2> QED BY <2>1, <2>2, Quiet, Zenon
  <1>4. CASE Load(c)
    <2> USE <1>4
    <2>1. /\ \A d \in Client : d # c => pc'[d] = pc[d]
          /\ UNCHANGED <<call, rlstore, ctr, mounted, count, holds>> /\ happened \subseteq happened'
      BY Zenon DEF Load, Go, StateInv, TypeOK, counts, mounts, history
    <2>2. /\ pc[c] \notin {"open", "count", "unmount"}
          /\ \/ pc'[c] \notin {"open", "mount", "count", "Get", "uncount", "unmount", "Put"}
             \/ pc'[c] = "Put" /\ "forced" \in happened
      BY Zenon DEF Load, Go, StateInv, TypeOK, CallInv, CallAt
    <2> QED BY <2>1, <2>2, Quiet, Zenon
  <1>5. CASE loadMounts(c)
    <2> USE <1>5
    <2>1. /\ \A d \in Client : d # c => pc'[d] = pc[d]
          /\ UNCHANGED <<call, rlstore, ctr, mounted, count, holds>> /\ happened \subseteq happened'
      BY Zenon DEF loadMounts, Go, StateInv, TypeOK, counts, mounts, history
    <2>2. /\ pc[c] \notin {"open", "count", "unmount"}
          /\ \/ pc'[c] \notin {"open", "mount", "count", "Get", "uncount", "unmount", "Put"}
             \/ pc'[c] = "Put" /\ "forced" \in happened
      BY Zenon DEF loadMounts, Go, StateInv, TypeOK, CallInv, CallAt
    <2> QED BY <2>1, <2>2, Quiet, Zenon
  <1>6. CASE Mounted(c)
    <2> USE <1>6
    <2>1. /\ \A d \in Client : d # c => pc'[d] = pc[d]
          /\ UNCHANGED <<call, rlstore, ctr, mounted, count, holds>> /\ happened \subseteq happened'
      BY Zenon DEF Mounted, Go, StateInv, TypeOK, counts, mounts, history
    <2>2. /\ pc[c] \notin {"open", "count", "unmount"}
          /\ \/ pc'[c] \notin {"open", "mount", "count", "Get", "uncount", "unmount", "Put"}
             \/ pc'[c] = "Put" /\ "forced" \in happened
      BY Zenon DEF Mounted, Go, StateInv, TypeOK, CallInv, CallAt
    <2> QED BY <2>1, <2>2, Quiet, Zenon
  <1>7. CASE Mount(c)
    <2> USE <1>7
    <2>1. /\ \A d \in Client : d # c => pc'[d] = pc[d]
          /\ UNCHANGED <<call, rlstore, mounted, count, holds, happened>>
          /\ pc[c] = "ready" /\ mountsLock = None
          /\ Collect([MountCount EXCEPT ![rlstore[c]] = Current(c)], ctr)
          /\ pc'[c] = IF Current(c) > 0 /\ mounted > 0 THEN "count" ELSE "Get"
      BY Zenon DEF Mount, Go, StateInv, TypeOK, history
    <2>2. /\ Current(c) \in Nat /\ count \in Nat /\ mounted \in Nat
          /\ "skewed" \notin happened => Current(c) = count
      BY <2>1, CurrentCount, Working, Zenon DEF KnownInv, Current, StateInv, TypeOK
    <2>3. [MountCount EXCEPT ![rlstore[c]] = Current(c)] \in [Object -> Nat] /\ ctr \in [Object -> Counter]
      BY <2>2, Zenon DEF StateInv, TypeOK
    <2>a. /\ \A d \in Client : rlstore'[d] \in Object => ctr'[rlstore'[d]] = ctr[rlstore'[d]]
          /\ \A o \in Object : ctr'[o] = NewCounter \/ ctr'[o] = ctr[o]
      <3> DEFINE copies == [MountCount EXCEPT ![rlstore[c]] = Current(c)]
      <3>1. copies \in [Object -> Nat] /\ ctr \in [Object -> Counter] /\ Collect(copies, ctr)
        BY <2>1, <2>3, Zenon
      <3> HIDE DEF copies
      <3> QED BY <3>1, CollectCounters, Zenon
    <2>4. /\ \A d \in Client : rlstore[d] \in Object => ctr'[rlstore[d]] = ctr[rlstore[d]]
          /\ \A o \in Object : ctr'[o] = NewCounter \/ ctr'[o] = ctr[o]
      BY <2>1, <2>a, Zenon
    <2>5. Users' = Users
      <3>1. c \notin Users /\ c \notin Users'
        BY <2>1, Zenon DEF Users
      <3> QED BY <2>1, <2>4, <3>1, UsersOthers, Zenon
    <2>6. \A d \in Client : ~Critical(d) /\ pc[d] # "count" /\ (d # c => ~Critical(d)')
      BY <2>1, Alone, Zenon DEF Critical
    <2>7. \A d \in Client : pc[d] # "idle" => rlstore[d] \in Object
      BY Working, Zenon
    <2>8. LowerInv'
      <3>1. \A d \in Client :
              /\ pc'[d] = "mount" /\ call'[d] \in Naive => ctr'[rlstore'[d]].count <= 1
              /\ pc'[d] = "count" => mounted > 0
              /\ ~(Critical(d)' /\ pc'[d] \in {"Put", "unmount"})
        BY <2>1, <2>4, <2>6, <2>7, Zenon DEF LowerInv
      <3> QED BY <2>1, <2>4, <2>5, <3>1, KeepLower, Zenon
    <2>9. UpperInv'
      <3>1. CounterBound => CounterBound'
        BY <2>1, <2>4, KeepBound, Zenon
      <3>2. happened = {} /\ pc'[c] = "Get" => mounted <= Cardinality(Users)
        <4>1. Cardinality(Users) \in Nat
          BY UsersSize, Zenon DEF LowerInv
        <4> QED BY <2>1, <2>2, <2>6, <4>1 DEF UpperInv
      <3>3. happened' = {} =>
              /\ Users' = Users /\ CounterBound'
              /\ \A d \in Client :
                  /\ pc[d] = "count" => pc'[d] = "count"
                  /\ Critical(d)' /\ pc'[d] \in {"Get", "mount", "uncount"} =>
                        \/ Critical(d) /\ pc[d] = pc'[d]
                        \/ mounted <= Cardinality(Users) \/ (pc'[d] = "uncount" /\ ~(count <= 1))
        BY <2>1, <2>5, <2>6, <3>1, <3>2, Zenon DEF UpperInv
      <3> QED BY <2>1, <3>3, KeepUpper, Zenon
    <2> QED BY <2>8, <2>9, Zenon
  \* A mount is added to holds: it is there, and no reader has one.
  <1>8. CASE IncrementMountCount(c)
    <2> USE <1>8
    <2>1. /\ \A d \in Client : d # c => pc'[d] = pc[d]
          /\ UNCHANGED <<call, rlstore, mounted, happened, ctr>>
          /\ pc[c] = "count" /\ pc'[c] \in {"return", "open"} /\ call[c] \in {"Mount", "DiffTarSplit"}
          /\ holds' = IF call[c] = "Mount" THEN holds + 1 ELSE holds
      BY Zenon DEF IncrementMountCount, Opened, Go, StateInv, TypeOK, CallInv, CallAt, history
    <2>2. Critical(c) /\ ~Critical(c)' /\ \A d \in Client : d # c => ~Critical(d) /\ ~Critical(d)'
      <3>1. Critical(c) /\ ~Critical(c)'
        BY <2>1, Zenon DEF Critical
      <3>2. \A d \in Client : d # c => (Critical(d)' <=> Critical(d))
        BY <2>1, Zenon DEF Critical
      <3> QED BY <3>1, <3>2, Alone, Zenon
    <2>3. Users' = Users
      <3>1. c \notin Users /\ c \notin Users'
        BY <2>1, Zenon DEF Users, Naive
      <3> QED BY <2>1, <3>1, UsersOthers, Zenon
    <2>4. count' > 0 /\ count' \in Nat
      <3>1. MountCount[rlstore[c]] \in Nat /\ MountCount[rlstore[c]] + 1 \in Nat
        BY <2>1, Working
      <3>2. saveMounts(c, MountCount[rlstore[c]] + 1)
        BY Zenon DEF IncrementMountCount
      <3>3. count' = MountCount[rlstore[c]] + 1
        BY <2>1, <3>1, <3>2, Saved, Zenon
      <3> QED BY <3>1, <3>3
    <2>5. Cardinality(Users) \in Nat /\ mounted \in Nat /\ holds \in Nat
      BY UsersSize, Zenon DEF LowerInv, StateInv, TypeOK
    <2>6. call[c] = "Mount" => Cardinality(Users) = 0
      BY <2>1, Alone, Zenon DEF Outside, Write
    <2>7. LowerInv'
      <3>1. happened \subseteq {"crash", "shared", "unmount"} /\ holds' > 0 => mounted >= 1 + Cardinality(Users)
        BY <2>1, <2>5, <2>6 DEF LowerInv
      <3>2. \A d \in Client : pc'[d] = "count" => pc[d] = "count" /\ d # c
        BY <2>1, Zenon
      <3>3. \A d \in Client : pc'[d] = "mount" => pc[d] = "mount"
        BY <2>1, Zenon
      <3> QED BY <2>1, <2>2, <2>3, <3>1, <3>2, <3>3, Zenon DEF LowerInv
    <2>8. UpperInv'
      <3>1. CounterBound => CounterBound'
        BY <2>1, KeepBound, Zenon DEF Naive
      <3> QED BY <2>1, <2>2, <2>3, <2>4, <3>1 DEF UpperInv
    <2> QED BY <2>7, <2>8, Zenon
  <1>9. CASE Unmount(c)
    <2> USE <1>9
    <2>1. /\ \A d \in Client : d # c => pc'[d] = pc[d]
          /\ UNCHANGED <<call, rlstore, mounted, count, holds, happened, ctr>>
          /\ pc[c] \in {"ready", "open"} /\ call[c] \notin Naive /\ mountsLock = None
          /\ pc'[c] = IF Current(c) > 1 THEN "uncount" ELSE "Put"
      BY Zenon DEF Unmount, Go, StateInv, TypeOK, history, mounts, Naive
    <2>2. Current(c) \in Nat /\ count \in Nat /\ ("skewed" \notin happened => Current(c) = count)
      BY <2>1, CurrentCount, Working, Zenon DEF KnownInv, Current, StateInv, TypeOK
    <2>5. Users' = Users
      <3>1. c \notin Users /\ c \notin Users'
        BY <2>1, Zenon DEF Users
      <3> QED BY <2>1, <3>1, UsersOthers, Zenon
    <2>6. \A d \in Client : ~Critical(d) /\ pc[d] # "count" /\ (d # c => ~Critical(d)')
      BY <2>1, Alone, Zenon DEF Critical
    <2>8. LowerInv'
      <3>1. \A d \in Client :
              /\ pc'[d] = "mount" /\ call'[d] \in Naive => ctr'[rlstore'[d]].count <= 1
              /\ pc'[d] # "count"
              /\ Critical(d)' /\ pc'[d] \in {"Put", "unmount"} => "skewed" \in happened' \/ count <= 1
        BY <2>1, <2>2, <2>6 DEF LowerInv
      <3> QED BY <2>1, <2>5, <3>1, KeepLower, Zenon
    <2>9. UpperInv'
      <3>1. CounterBound => CounterBound'
        BY <2>1, KeepBound, Zenon
      <3>3. happened' = {} =>
              /\ Users' = Users /\ CounterBound'
              /\ \A d \in Client :
                  /\ pc[d] = "count" => pc'[d] = "count"
                  /\ Critical(d)' /\ pc'[d] \in {"Get", "mount", "uncount"} =>
                        \/ Critical(d) /\ pc[d] = pc'[d]
                        \/ mounted <= Cardinality(Users) \/ (pc'[d] = "uncount" /\ ~(count <= 1))
        BY <2>1, <2>2, <2>5, <2>6, <3>1 DEF UpperInv
      <3> QED BY <2>1, <3>3, KeepUpper, Zenon
    <2> QED BY <2>8, <2>9, Zenon
  <1>10. CASE DecrementMountCount(c)
    <2> USE <1>10
    <2>1. /\ \A d \in Client : d # c => pc'[d] = pc[d]
          /\ UNCHANGED <<call, rlstore, mounted, happened, ctr, holds>>
          /\ pc[c] = "uncount" /\ pc'[c] \in {"return", "loop"} /\ call[c] \notin Naive
      BY Zenon DEF DecrementMountCount, Go, StateInv, TypeOK, CallInv, CallAt, history, mounts, Naive
    <2>2. Critical(c) /\ ~Critical(c)' /\ \A d \in Client : d # c => ~Critical(d) /\ ~Critical(d)'
      <3>1. Critical(c) /\ ~Critical(c)'
        BY <2>1, Zenon DEF Critical
      <3>2. \A d \in Client : d # c => (Critical(d)' <=> Critical(d))
        BY <2>1, Zenon DEF Critical
      <3> QED BY <3>1, <3>2, Alone, Zenon
    <2>3. Users' = Users
      <3>1. c \notin Users /\ c \notin Users'
        BY <2>1, Zenon DEF Users
      <3> QED BY <2>1, <3>1, UsersOthers, Zenon
    <2>4. happened = {} /\ count' = 0 => count <= 1
      <3> SUFFICES ASSUME happened = {} PROVE count' = 0 => count <= 1
        BY Zenon
      <3>1. call[c] # "Shutdown"
        BY <2>1, Zenon DEF StateInv, CallInv, CallAt
      <3>2. MountCount[rlstore[c]] = count /\ count \in Nat
        BY <2>2, <3>1, Zenon DEF KnownInv, FreshInv, FreshAt, StateInv, TypeOK
      <3>3. saveMounts(c, IF count > 1 THEN count - 1 ELSE 0)
        BY <3>2, Zenon DEF DecrementMountCount
      <3>4. (IF count > 1 THEN count - 1 ELSE 0) \in Nat
        BY <3>2
      <3>5. count' = IF count > 1 THEN count - 1 ELSE 0
        BY <2>1, <3>3, <3>4, Saved, Zenon
      <3> QED BY <3>2, <3>5
    <2>7. LowerInv'
      <3>2. \A d \in Client : pc'[d] = "count" => pc[d] = "count" /\ d # c
        BY <2>1, Zenon
      <3>3. \A d \in Client : pc'[d] = "mount" => pc[d] = "mount"
        BY <2>1, Zenon
      <3> QED BY <2>1, <2>2, <2>3, <3>2, <3>3, Zenon DEF LowerInv
    <2>8. UpperInv'
      <3>1. CounterBound => CounterBound'
        BY <2>1, KeepBound, Zenon
      <3> QED BY <2>1, <2>2, <2>3, <2>4, <3>1, Zenon DEF UpperInv
    <2> QED BY <2>7, <2>8, Zenon
  <1>11. CASE Get(c)
    <2> USE <1>11
    <2> DEFINE o == rlstore[c]
               n == Checked(o) + 1
    <2>0. pc[c] # "idle" /\ Counted(o, n) /\ rlstore[c] \in Object
      BY Working, Zenon DEF Get
    <2>1. /\ (pc[c] = "Get" /\ call[c] \in {"Mount", "DiffTarSplit"}) \/ (pc[c] = "ready" /\ call[c] \in Naive)
          /\ \A d \in Client : d # c => pc'[d] = pc[d]
          /\ UNCHANGED <<call, rlstore, mounted, count, holds>>
          /\ pc'[c] = IF n > 1 THEN (IF call[c] \in {"Mount", "DiffTarSplit"} THEN "count" ELSE "open") ELSE "mount"
          /\ happened \subseteq happened' /\ (n > 1 /\ call[c] = "DiffTarSplit" => happened' # {})
      <3>1. (pc[c] = "Get" /\ call[c] \in {"Mount", "DiffTarSplit"}) \/ (pc[c] = "ready" /\ call[c] \in Naive)
        BY Zenon DEF Get, StateInv, CallInv, CallAt
      <3>2. pc \in [Client -> PC] /\ UNCHANGED <<call, rlstore, mounted, count, holds>>
        BY Zenon DEF Get, StateInv, TypeOK, counts
      <3>3. happened \subseteq happened' /\ (n > 1 /\ call[c] = "DiffTarSplit" => happened' # {})
        BY Zenon DEF Get
      <3>4. n > 1 => Got(c)
        BY Zenon DEF Get
      <3>5. ~(n > 1) => Go(c, "mount")
        BY Zenon DEF Get
      <3> HIDE DEF n
      <3>6. Go(c, IF n > 1 THEN (IF call[c] \in {"Mount", "DiffTarSplit"} THEN "count" ELSE "open") ELSE "mount")
        BY <3>1, <3>4, <3>5, Zenon DEF Got, Opened, Naive
      <3> QED BY <3>1, <3>2, <3>3, <3>6, Zenon DEF Go
    <2>2. /\ Checked(o) \in Int /\ n \in Int /\ mounted \in Nat
          /\ mounted = 0 => Checked(o) = 0
          /\ ctr[o].count <= 1 => Checked(o) <= 1
          /\ CounterBound => ctr[o].count <= 1
      BY <2>0, <2>1, CheckedFacts DEF StateInv, TypeOK
    <2>3. /\ ctr'[o].check /\ ctr'[o].count = n
          /\ \A x \in Object : x # o => ctr'[x] = ctr[x]
          /\ \A d \in Client : d # c /\ rlstore[d] \in Object => ctr'[rlstore[d]] = ctr[rlstore[d]]
      BY <2>0, <2>2, CountedFacts, Zenon
    <2>a. n > 1 => mounted > 0
      BY <2>2
    <2> HIDE DEF n, o
    <2>4. Users' = Users
      <3>1. c \notin Users
        BY <2>1, Zenon DEF Users, Naive
      <3>2. c \notin Users'
        BY <2>1, <2>2, <2>3 DEF Users, o
      <3> QED BY <2>1, <2>3, <3>1, <3>2, UsersOthers, Zenon
    <2>5. \A d \in Client : d # c => (Critical(d)' <=> Critical(d))
      BY <2>1, Zenon DEF Critical
    <2>6. \A d \in Client : pc[d] # "idle" => rlstore[d] \in Object
      BY Working, Zenon
    <2>7. LowerInv'
      <3>1. \A d \in Client :
              /\ pc'[d] = "mount" /\ call'[d] \in Naive => ctr'[rlstore'[d]].count <= 1
              /\ pc'[d] = "count" => (pc[d] = "count" /\ call'[d] = call[d]) \/ mounted > 0
              /\ Critical(d)' /\ pc'[d] \in {"Put", "unmount"} => Critical(d) /\ pc[d] \in {"Put", "unmount"}
        <4>1. ASSUME NEW d \in Client, d # c
              PROVE  /\ pc'[d] = "mount" /\ call'[d] \in Naive => ctr'[rlstore'[d]].count <= 1
                     /\ pc'[d] = "count" => pc[d] = "count" /\ call'[d] = call[d]
                     /\ Critical(d)' /\ pc'[d] \in {"Put", "unmount"} => Critical(d) /\ pc[d] \in {"Put", "unmount"}
          BY <4>1, <2>1, <2>3, <2>5, <2>6 DEF LowerInv
        <4>2. /\ pc'[c] = "mount" => ctr'[rlstore'[c]].count <= 1
              /\ pc'[c] = "count" => mounted > 0
              /\ pc'[c] \notin {"Put", "unmount"}
          BY <2>1, <2>2, <2>3, <2>a DEF o
        <4> QED BY <4>1, <4>2, Zenon
      <3>2. \A x \in Object : ctr'[x] = ctr[x] \/ ctr'[x].check
        BY <2>3, Zenon
      <3> QED BY <2>1, <2>4, <3>1, <3>2, KeepLower, Zenon
    <2>8. UpperInv'
      <3>1. ASSUME happened' = {}
            PROVE  /\ CounterBound'
                   /\ \A d \in Client :
                      /\ pc[d] = "count" => pc'[d] = "count"
                      /\ Critical(d)' /\ pc'[d] \in {"Get", "mount", "uncount"} =>
                            \/ Critical(d) /\ pc[d] = pc'[d]
                            \/ mounted <= Cardinality(Users)
        <4>1. happened = {} /\ CounterBound
          BY <2>1, <3>1, Zenon DEF UpperInv
        <4>2. pc[c] = "Get" => mounted <= Cardinality(Users)
          BY <4>1, Zenon DEF UpperInv, Critical
        <4>3. ~(pc[c] = "Get" /\ call[c] = "Mount" /\ n > 1)
          <5>1. pc[c] = "Get" /\ call[c] = "Mount" => Cardinality(Users) = 0
            BY Alone, Zenon DEF Outside, Write
          <5> QED BY <4>2, <5>1, <2>2, <2>a
        <4>4. n <= 2 /\ (n > 1 => pc'[c] = "open" /\ call'[c] \in Naive)
          BY <2>1, <2>2, <3>1, <4>1, <4>3 DEF n, Naive
        <4>5. CounterBound'
          <5>1. \A d \in Client : pc[d] = "open" => pc'[d] = "open" /\ rlstore'[d] = rlstore[d] /\ call'[d] = call[d]
            BY <2>1, Zenon
          <5>2. ASSUME NEW x \in Object PROVE \/ ctr'[x].count <= 1
                                              \/ /\ ctr'[x].count <= 2
                                                 /\ \E d \in Client : rlstore'[d] = x /\ pc'[d] = "open" /\ call'[d] \in Naive
            <6>1. CASE x = o
              BY <6>1, <2>1, <2>2, <2>3, <4>4 DEF o
            <6>2. CASE x # o
              BY <6>2, <2>1, <2>3, <4>1, <5>1 DEF CounterBound
            <6> QED BY <6>1, <6>2, Zenon
          <5> QED BY <5>2, Zenon DEF CounterBound
        <4>6. Critical(c)' /\ pc'[c] = "mount" => pc[c] = "Get"
          BY <2>1, Zenon DEF Critical
        <4> QED BY <2>1, <2>5, <4>2, <4>5, <4>6, Zenon
      <3> QED BY <2>1, <2>4, <3>1, KeepUpper, Zenon
    <2> QED BY <2>7, <2>8, Zenon
  <1>12. CASE mountFunc(c)
    <2> USE <1>12
    <2>1. /\ pc[c] = "mount" /\ call[c] \in Naive \cup {"Mount", "DiffTarSplit"}
          /\ \A d \in Client : d # c => pc'[d] = pc[d]
          /\ UNCHANGED <<call, rlstore, ctr, count, holds, happened>> /\ mounted' = mounted + 1
          /\ pc'[c] = IF call[c] \in {"Mount", "DiffTarSplit"} THEN "count" ELSE "open"
      BY Zenon DEF mountFunc, Got, Opened, Go, StateInv, TypeOK, CallInv, CallAt, counts, history, Naive
    <2>2. mounted \in Nat /\ count \in Nat /\ holds \in Nat
      BY Zenon DEF StateInv, TypeOK
    <2>3. /\ IsFiniteSet(Users') /\ Cardinality(Users) \in Nat /\ Cardinality(Users') \in Nat
          /\ call[c] \in Naive => Cardinality(Users') = Cardinality(Users) + 1
          /\ call[c] \notin Naive => Cardinality(Users') = Cardinality(Users)
      <3>1. c \notin Users
        BY <2>1, Zenon DEF Users
      <3>2. c \in Users' <=> call[c] \in Naive
        BY <2>1, Zenon DEF Users, LowerInv, Naive
      <3>3. Users' = IF call[c] \in Naive THEN Users \cup {c} ELSE Users
        BY <2>1, <3>1, <3>2, UsersOthers, Zenon
      <3>4. IsFiniteSet(Users)
        BY Zenon DEF LowerInv
      <3>5. CASE call[c] \in Naive
        <4>1. Users' = Users \cup {c} /\ c \notin Users
          BY <3>1, <3>3, <3>5, Zenon
        <4>2. /\ IsFiniteSet(Users') /\ Cardinality(Users) \in Nat
              /\ Cardinality(Users') = Cardinality(Users) + 1
          BY <3>4, <4>1, UsersSize, Zenon
        <4> QED BY <3>5, <4>2
      <3>6. CASE call[c] \notin Naive
        BY <3>3, <3>4, <3>6, UsersSize, Zenon
      <3> QED BY <3>5, <3>6, Zenon
    <2>4. \A d \in Client : d # c => (Critical(d)' <=> Critical(d))
      BY <2>1, Zenon DEF Critical
    <2>5. LowerInv'
      <3>1. \A o \in Object : ~ctr'[o].check => ctr'[o].count = 0
        BY <2>1, Zenon DEF LowerInv
      <3>2. \A d \in Client : pc'[d] = "mount" /\ call'[d] \in Naive => ctr'[rlstore'[d]].count <= 1
        BY <2>1, Zenon DEF LowerInv
      <3>3. ASSUME happened' \subseteq {"crash", "shared", "unmount"}
            PROVE  /\ holds' > 0 => mounted' >= 1 + Cardinality(Users')
                   /\ mounted' >= 1
                   /\ \A d \in Client : Critical(d)' /\ pc'[d] \in {"Put", "unmount"} => count' <= 1
        <4>1. holds > 0 => mounted >= 1 + Cardinality(Users)
          BY <2>1, <3>3, Zenon DEF LowerInv
        <4>2. \A d \in Client : Critical(d)' /\ pc'[d] \in {"Put", "unmount"} => count' <= 1
          BY <2>1, <2>4, <3>3, Zenon DEF LowerInv
        <4> QED BY <2>1, <2>2, <2>3, <4>1, <4>2
      <3> QED BY <2>3, <3>1, <3>2, <3>3, Zenon DEF LowerInv
    <2>6. UpperInv'
      <3> SUFFICES ASSUME happened' = {} PROVE UpperInv'
        BY Zenon DEF UpperInv
      <3>1. happened = {}
        BY <2>1, Zenon
      <3>2. CounterBound'
        <4>1. CounterBound
          BY <3>1, Zenon DEF UpperInv
        <4>2. \A d \in Client : pc[d] = "open" => pc'[d] = "open"
          BY <2>1, Zenon
        <4> QED BY <2>1, <4>1, <4>2, KeepBound, Zenon
      <3>3. CASE call[c] \in Naive
        <4>1. Cardinality(Users') = Cardinality(Users) + 1 /\ pc'[c] = "open" /\ ~Critical(c)'
          BY <2>1, <2>3, <3>3, Zenon DEF Critical, Naive
        <4>2. mounted' <= 1 + Cardinality(Users')
          BY <2>1, <2>2, <2>3, <3>1, <4>1 DEF UpperInv
        <4>3. ASSUME NEW d \in Client,
                     Critical(d)', pc'[d] \in {"Get", "mount"} \/ (pc'[d] = "uncount" /\ count' <= 1)
              PROVE  mounted' <= Cardinality(Users')
          <5>1. d # c
            BY <4>1, <4>3, Zenon
          <5>2. mounted <= Cardinality(Users)
            BY <2>1, <2>4, <3>1, <4>3, <5>1, Zenon DEF UpperInv
          <5> QED BY <2>1, <2>2, <2>3, <4>1, <5>2
        <4>4. ASSUME count' = 0, \A d \in Client : pc'[d] # "count" PROVE mounted' <= Cardinality(Users')
          <5>1. \A d \in Client : pc[d] # "count"
            BY <2>1, <4>4, Zenon
          <5>2. mounted <= Cardinality(Users)
            BY <2>1, <3>1, <4>4, <5>1, Zenon DEF UpperInv
          <5> QED BY <2>1, <2>2, <2>3, <4>1, <5>2
        <4> QED BY <3>2, <4>2, <4>3, <4>4, Zenon DEF UpperInv
      <3>4. CASE call[c] \notin Naive
        <4>1. Cardinality(Users') = Cardinality(Users) /\ pc'[c] = "count" /\ Critical(c)
          BY <2>1, <2>3, <3>4, Zenon DEF Critical
        <4>2. mounted <= Cardinality(Users)
          BY <2>1, <3>1, <4>1, Zenon DEF UpperInv
        <4>3. mounted' <= 1 + Cardinality(Users')
          BY <2>1, <2>2, <2>3, <4>1, <4>2
        <4>4. \A d \in Client : Critical(d)' => d = c
          BY <2>4, <4>1, Alone, Zenon
        <4> QED BY <3>2, <4>1, <4>3, <4>4, Zenon DEF UpperInv
      <3> QED BY <3>3, <3>4, Zenon
    <2> QED BY <2>5, <2>6, Zenon
  <1>13. CASE mountFails(c)
    <2> USE <1>13
    <2> DEFINE n == Checked(rlstore[c]) - 1
    <2>1. /\ \A d \in Client : d # c => pc'[d] = pc[d]
          /\ UNCHANGED <<call, rlstore>> /\ pc[c] = "mount" /\ pc'[c] = "return"
          /\ "mount" \in happened' /\ Counted(rlstore[c], n)
      BY Zenon DEF mountFails, Go, StateInv, TypeOK
    <2>2. n \in Int
      BY <2>1, CheckedFacts
    <2>3. /\ ctr'[rlstore[c]].check
          /\ \A x \in Object : x # rlstore[c] => ctr'[x] = ctr[x]
          /\ \A d \in Client : d # c /\ rlstore[d] \in Object => ctr'[rlstore[d]] = ctr[rlstore[d]]
      BY <2>1, <2>2, CountedFacts, Zenon
    <2>4. Users' = Users
      <3>1. c \notin Users /\ c \notin Users'
        BY <2>1, Zenon DEF Users
      <3> QED BY <2>1, <2>3, <3>1, UsersOthers, Zenon
    <2>5. \A d \in Client : pc[d] # "idle" => rlstore[d] \in Object
      BY Working, Zenon
    <2>6. \A d \in Client : pc'[d] = "mount" /\ call'[d] \in Naive => ctr'[rlstore'[d]].count <= 1
      BY <2>1, <2>3, <2>5, Zenon DEF LowerInv
    <2>7. \A x \in Object : ~ctr'[x].check => ctr'[x].count = 0
      BY <2>3, Zenon DEF LowerInv
    <2> QED BY <2>1, <2>4, <2>6, <2>7, Zenon DEF LowerInv, UpperInv
  <1>14. CASE Put(c)
    <2> USE <1>14
    <2> DEFINE o == rlstore[c]
               n == Checked(o) - 1
               naive == pc[c] = "open" /\ call[c] \in Naive
    <2>0. pc[c] # "idle" /\ Counted(o, n) /\ rlstore[c] \in Object
      BY Working, Zenon DEF Put
    <2>1. /\ naive \/ (pc[c] = "Put" /\ call[c] \notin Naive)
          /\ \A d \in Client : d # c => pc'[d] = pc[d]
          /\ UNCHANGED <<call, rlstore, mounted, count, holds, happened>>
          /\ pc'[c] = IF n > 0 THEN (IF naive THEN "return" ELSE "uncount") ELSE "unmount"
      <3>1. naive \/ (pc[c] = "Put" /\ call[c] \notin Naive)
        BY Zenon DEF Put, StateInv, CallInv, CallAt, Naive
      <3>2. pc \in [Client -> PC] /\ UNCHANGED <<call, rlstore, mounted, count, holds, happened>>
        BY Zenon DEF Put, StateInv, TypeOK, counts, history
      <3>3. n > 0 => HasPut(c)
        BY Zenon DEF Put
      <3>4. ~(n > 0) => Go(c, "unmount")
        BY Zenon DEF Put
      <3> HIDE DEF n
      <3>5. Go(c, IF n > 0 THEN (IF naive THEN "return" ELSE "uncount") ELSE "unmount")
        BY <3>1, <3>3, <3>4, Zenon DEF HasPut
      <3> QED BY <3>1, <3>2, <3>5, Zenon DEF Go
    <2>2. /\ Checked(o) \in Int /\ n \in Int /\ mounted \in Nat /\ ctr[o].count \in Int
          /\ mounted = 0 => n < 0
          /\ ctr[o].count <= 1 => n <= 0
          /\ ctr[o].count > 1 /\ mounted > 0 => n > 0 /\ n = ctr[o].count - 1
          /\ ~naive /\ CounterBound => ctr[o].count <= 1
      BY <2>0, CheckedFacts DEF StateInv, TypeOK
    <2>3. /\ ctr'[o].check /\ ctr'[o].count = n
          /\ \A x \in Object : x # o => ctr'[x] = ctr[x]
          /\ \A d \in Client : d # c /\ rlstore[d] \in Object => ctr'[rlstore[d]] = ctr[rlstore[d]]
      BY <2>0, <2>2, CountedFacts, Zenon
    <2>a. CounterBound => n <= 1
      <3>1. CounterBound => ctr[o].count <= 2
        BY <2>0, <2>2 DEF CounterBound
      <3> HIDE DEF n, o
      <3> QED BY <2>2, <3>1
    <2> HIDE DEF n, o, naive
    <2>4. \A d \in Client : d # c => (Critical(d)' <=> Critical(d))
      BY <2>1, Zenon DEF Critical
    <2>5. \A d \in Client : pc[d] # "idle" => rlstore[d] \in Object
      BY Working, Zenon
    <2>6. /\ \A d \in Client : pc'[d] = "mount" /\ call'[d] \in Naive => ctr'[rlstore'[d]].count <= 1
          /\ \A d \in Client : pc'[d] = "count" => pc[d] = "count" /\ call'[d] = call[d]
          /\ \A d \in Client : Critical(d)' /\ pc'[d] \in {"Put", "unmount"} => Critical(d) /\ pc[d] \in {"Put", "unmount"}
      <3>1. \A d \in Client : pc'[d] = "mount" /\ call'[d] \in Naive => ctr'[rlstore'[d]].count <= 1
        BY <2>1, <2>3, <2>5, Zenon DEF LowerInv
      <3>2. \A d \in Client : pc'[d] = "count" => pc[d] = "count" /\ call'[d] = call[d]
        BY <2>1, Zenon
      <3>3. Critical(c)' => Critical(c) /\ pc[c] = "Put"
        BY <2>1, Zenon DEF Critical, naive
      <3> QED BY <2>1, <2>4, <3>1, <3>2, <3>3, Zenon
    <2>7. \A x \in Object : ctr'[x] = ctr[x] \/ ctr'[x].check
      BY <2>3, Zenon
    <2>8. ASSUME happened' = {}
          PROVE  /\ CounterBound' /\ happened = {}
                 /\ \A d \in Client :
                      /\ pc[d] = "count" => pc'[d] = "count"
                      /\ Critical(d)' /\ pc'[d] \in {"Get", "mount", "uncount"} => d # c /\ Critical(d) /\ pc[d] = pc'[d]
      <3>1. happened = {} /\ CounterBound
        BY <2>1, <2>8, Zenon DEF UpperInv
      <3>2. CounterBound'
        <4>1. \A x \in Object : ctr'[x] = ctr[x] \/ ctr'[x].count <= 1
          BY <2>a, <2>3, <3>1, Zenon
        <4>2. \A d \in Client : \/ pc'[d] = pc[d] /\ call'[d] = call[d] /\ rlstore'[d] = rlstore[d]
                                \/ ctr'[rlstore[d]].count <= 1
          BY <2>a, <2>1, <2>3, <3>1, Zenon DEF o
        <4> QED BY <3>1, <4>1, <4>2, KeepBound, Zenon
      <3>3. pc'[c] \in {"return", "unmount"} /\ pc[c] # "count"
        BY <2>1, <2>2, <3>1 DEF naive
      <3> QED BY <2>1, <2>4, <3>1, <3>2, <3>3, Zenon
    <2>9. c \in Users <=> naive /\ ctr[o].count <= 1
      BY <2>1, Zenon DEF Users, naive, o
    <2>10. c \in Users' <=> naive /\ ~(n > 0)
      BY <2>1, Zenon DEF Users, naive
    <2>11. CASE naive /\ mounted = 0
      <3>0. IsFiniteSet(Users)
        BY Zenon DEF LowerInv
      <3>1. Users' = Users \/ (Users' = Users \cup {c} /\ c \notin Users)
        <4>1. c \in Users'
          BY <2>2, <2>10, <2>11
        <4>2. Users' = Users \cup {c}
          BY <2>1, <2>3, <4>1, UsersOthers, Zenon
        <4>3. c \in Users => Users \cup {c} = Users
          BY Zenon
        <4> QED BY <4>2, <4>3, Zenon
      <3>2. /\ IsFiniteSet(Users') /\ Cardinality(Users) \in Nat /\ Cardinality(Users') \in Nat
            /\ Cardinality(Users') >= Cardinality(Users)
        <4>1. Cardinality(Users) \in Nat
          BY <3>0, FS_CardinalityType, Zenon
        <4>2. IsFiniteSet(Users \cup {c}) /\ (c \notin Users => Cardinality(Users \cup {c}) = Cardinality(Users) + 1)
          BY <3>0, UsersSize, Zenon
        <4>3. CASE Users' = Users
          BY <3>0, <4>1, <4>3
        <4>4. CASE Users' = Users \cup {c} /\ c \notin Users
          BY <4>1, <4>2, <4>4
        <4> QED BY <3>1, <4>3, <4>4, Zenon
      <3>3. LowerInv'
        <4>1. \A x \in Object : ~ctr'[x].check => ctr'[x].count = 0
          BY <2>7, Zenon DEF LowerInv
        <4>2. ASSUME happened' \subseteq {"crash", "shared", "unmount"}
              PROVE  /\ holds' > 0 => mounted' >= 1 + Cardinality(Users')
                     /\ \A d \in Client : pc'[d] = "count" /\ call'[d] = "Mount" => mounted' >= 1
                     /\ \A d \in Client : Critical(d)' /\ pc'[d] \in {"Put", "unmount"} => count' <= 1
          <5>1. ~(holds > 0)
            <6>1. holds > 0 => mounted >= 1 + Cardinality(Users)
              BY <2>1, <4>2, Zenon DEF LowerInv
            <6> QED BY <6>1, <2>11, <3>2
          <5>2. \A d \in Client : pc'[d] = "count" /\ call'[d] = "Mount" => mounted' >= 1
            BY <2>1, <2>6, <4>2, Zenon DEF LowerInv
          <5>3. \A d \in Client : Critical(d)' /\ pc'[d] \in {"Put", "unmount"} => count' <= 1
            BY <2>1, <2>6, <4>2, Zenon DEF LowerInv
          <5> QED BY <2>1, <5>1, <5>2, <5>3, Zenon
        <4> QED BY <2>6, <3>2, <4>1, <4>2, Zenon DEF LowerInv
      <3>4. UpperInv'
        <4>1. mounted' = 0
          BY <2>1, <2>11, Zenon
        <4>2. mounted' <= Cardinality(Users') /\ mounted' <= 1 + Cardinality(Users')
          BY <3>2, <4>1
        <4> QED BY <2>8, <4>2, Zenon DEF UpperInv
      <3> QED BY <3>3, <3>4, Zenon
    <2>12. CASE ~naive \/ mounted # 0
      <3>1. c \in Users' <=> c \in Users
        BY <2>2, <2>9, <2>10, <2>12
      <3>2. Users' = Users
        BY <2>1, <2>3, <3>1, UsersOthers, Zenon
      <3>3. LowerInv'
        BY <2>1, <2>6, <2>7, <3>2, KeepLower, Zenon
      <3>4. UpperInv'
        BY <2>1, <2>8, <3>2, KeepUpper, Zenon
      <3> QED BY <3>3, <3>4, Zenon
    <2> QED BY <2>11, <2>12, Zenon
  <1>15. CASE unmountFunc(c)
    <2> USE <1>15
    <2>1. /\ pc[c] = "unmount" /\ call[c] \in Naive \cup {"Unmount", "DiffTarSplit", "Shutdown"}
          /\ \A d \in Client : d # c => pc'[d] = pc[d]
          /\ UNCHANGED <<call, rlstore, ctr, count, holds, happened>>
          /\ mounted' = IF mounted > 0 THEN mounted - 1 ELSE 0
          /\ pc'[c] = IF call[c] \in Naive THEN "return" ELSE "uncount"
      BY Zenon DEF unmountFunc, HasPut, Go, StateInv, TypeOK, CallInv, CallAt, counts, history
    <2>2. mounted \in Nat /\ count \in Nat /\ holds \in Nat
      BY Zenon DEF StateInv, TypeOK
    <2>3. /\ IsFiniteSet(Users') /\ Cardinality(Users) \in Nat /\ Cardinality(Users') \in Nat
          /\ call[c] \in Naive => Cardinality(Users) = Cardinality(Users') + 1
          /\ call[c] \notin Naive => Cardinality(Users') = Cardinality(Users)
      <3>1. c \in Users <=> call[c] \in Naive
        BY <2>1, Zenon DEF Users
      <3>2. c \notin Users'
        BY <2>1, Zenon DEF Users
      <3>3. Users' = IF call[c] \in Naive THEN Users \ {c} ELSE Users
        BY <2>1, <3>1, <3>2, UsersOthers, Zenon
      <3>4. IsFiniteSet(Users)
        BY Zenon DEF LowerInv
      <3>5. CASE call[c] \in Naive
        <4>1. Users' = Users \ {c} /\ c \in Users
          BY <3>1, <3>3, <3>5, Zenon
        <4>2. /\ IsFiniteSet(Users') /\ Cardinality(Users) \in Nat /\ Cardinality(Users) > 0
              /\ Cardinality(Users') = Cardinality(Users) - 1
          BY <3>4, <4>1, UsersSize, Zenon
        <4> QED BY <3>5, <4>2
      <3>6. CASE call[c] \notin Naive
        BY <3>3, <3>4, <3>6, UsersSize, Zenon
      <3> QED BY <3>5, <3>6, Zenon
    <2>4. \A d \in Client : d # c => (Critical(d)' <=> Critical(d))
      BY <2>1, Zenon DEF Critical
    <2>5. \A d \in Client : pc'[d] = "count" => d # c /\ pc[d] = "count" /\ call[d] # "Mount"
      <3>1. ASSUME NEW d \in Client, pc'[d] = "count", call[d] = "Mount" PROVE FALSE
        <4>1. d # c /\ pc[d] = "count"
          BY <2>1, <3>1, Zenon
        <4>2. pc[c] \in Outside
          BY <3>1, <4>1, Alone, Zenon DEF Outside, Write
        <4> QED BY <2>1, <4>2, Zenon DEF Outside
      <3> QED BY <2>1, <3>1, Zenon
    <2>6. call[c] \notin Naive => Critical(c) /\ \A d \in Client : Critical(d)' => d = c
      BY <2>1, <2>4, Alone, Zenon DEF Critical
    <2>7. LowerInv'
      <3>1. \A o \in Object : ~ctr'[o].check => ctr'[o].count = 0
        BY <2>1, Zenon DEF LowerInv
      <3>2. \A d \in Client : pc'[d] = "mount" /\ call'[d] \in Naive => ctr'[rlstore'[d]].count <= 1
        BY <2>1, Zenon DEF LowerInv
      <3>3. ASSUME happened' \subseteq {"crash", "shared", "unmount"}
            PROVE  /\ holds' > 0 => mounted' >= 1 + Cardinality(Users')
                   /\ \A d \in Client : Critical(d)' /\ pc'[d] \in {"Put", "unmount"} => count' <= 1
        <4>1. holds > 0 => mounted >= 1 + Cardinality(Users)
          BY <2>1, <3>3, Zenon DEF LowerInv
        <4>2. \A d \in Client : Critical(d)' /\ pc'[d] \in {"Put", "unmount"} => count' <= 1
          BY <2>1, <2>4, <3>3, Zenon DEF LowerInv
        <4>3. call[c] \notin Naive => holds = 0
          <5>1. SUFFICES ASSUME call[c] \notin Naive PROVE holds = 0
            BY Zenon
          <5>2. count <= 1
            BY <2>1, <2>6, <3>3, <5>1, Zenon DEF LowerInv
          <5>3. "forced" \notin happened
            BY <2>1, <3>3, Zenon
          <5>4. call[c] \in {"Unmount", "DiffTarSplit"}
            BY <2>1, <5>1, <5>3, Zenon DEF StateInv, CallInv, CallAt
          <5>5. c \in Counting
            BY <2>1, <5>4, CountingMember, Zenon
          <5>6. count >= holds + Cardinality(Counting)
            BY <2>1, <3>3, Zenon DEF CountInv
          <5>7. Cardinality(Counting) \in Nat /\ Cardinality(Counting) > 0
            BY <5>5, CountingSize, Zenon
          <5> QED BY <2>2, <5>2, <5>6, <5>7
        <4> QED BY <2>1, <2>2, <2>3, <4>1, <4>2, <4>3
      <3>4. \A d \in Client : ~(pc'[d] = "count" /\ call'[d] = "Mount")
        BY <2>1, <2>5, Zenon
      <3> QED BY <2>3, <3>1, <3>2, <3>3, <3>4, Zenon DEF LowerInv
    <2>8. UpperInv'
      <3> SUFFICES ASSUME happened' = {} PROVE UpperInv'
        BY Zenon DEF UpperInv
      <3>1. happened = {} /\ mounted <= 1 + Cardinality(Users)
        BY <2>1, Zenon DEF UpperInv
      <3>2. CounterBound'
        <4>1. CounterBound
          BY <3>1, Zenon DEF UpperInv
        <4>2. \A d \in Client : pc[d] = "open" => pc'[d] = "open"
          BY <2>1, Zenon
        <4> QED BY <2>1, <4>1, <4>2, KeepBound, Zenon
      <3>3. CASE call[c] \in Naive
        <4>1. Cardinality(Users) = Cardinality(Users') + 1 /\ pc'[c] = "return" /\ ~Critical(c)'
          BY <2>1, <2>3, <3>3, Zenon DEF Critical
        <4>2. mounted' <= 1 + Cardinality(Users')
          BY <2>1, <2>2, <2>3, <3>1, <4>1
        <4>3. ASSUME NEW d \in Client,
                     Critical(d)', pc'[d] \in {"Get", "mount"} \/ (pc'[d] = "uncount" /\ count' <= 1)
              PROVE  mounted' <= Cardinality(Users')
          <5>1. d # c
            BY <4>1, <4>3, Zenon
          <5>2. mounted <= Cardinality(Users)
            BY <2>1, <2>4, <3>1, <4>3, <5>1, Zenon DEF UpperInv
          <5> QED BY <2>1, <2>2, <2>3, <4>1, <5>2
        <4>4. ASSUME count' = 0, \A d \in Client : pc'[d] # "count" PROVE mounted' <= Cardinality(Users')
          <5>1. \A d \in Client : pc[d] # "count"
            BY <2>1, <4>4, Zenon
          <5>2. mounted <= Cardinality(Users)
            BY <2>1, <3>1, <4>4, <5>1, Zenon DEF UpperInv
          <5> QED BY <2>1, <2>2, <2>3, <4>1, <5>2
        <4> QED BY <3>2, <4>2, <4>3, <4>4, Zenon DEF UpperInv
      <3>4. CASE call[c] \notin Naive
        <4>1. mounted' <= Cardinality(Users') /\ mounted' <= 1 + Cardinality(Users')
          BY <2>1, <2>2, <2>3, <3>1, <3>4
        <4> QED BY <3>2, <4>1, Zenon DEF UpperInv
      <3> QED BY <3>3, <3>4, Zenon
    <2> QED BY <2>7, <2>8, Zenon
  <1>16. ASSUME NEW force \in BOOLEAN, Shutdown(c, force) PROVE LowerInv' /\ UpperInv'
    <2> USE <1>16
    <2>1. /\ \A d \in Client : d # c => pc'[d] = pc[d]
          /\ UNCHANGED <<call, rlstore, ctr, mounted, count, holds>> /\ happened \subseteq happened'
      BY Zenon DEF Shutdown, Go, StateInv, TypeOK, counts, mounts, history
    <2>2. /\ pc[c] \notin {"open", "count", "unmount"}
          /\ \/ pc'[c] \notin {"open", "mount", "count", "Get", "uncount", "unmount", "Put"}
             \/ pc'[c] = "Put" /\ "forced" \in happened
      BY Zenon DEF Shutdown, Go, StateInv, TypeOK, CallInv, CallAt
    <2> QED BY <2>1, <2>2, Quiet, Zenon
  <1>17. CASE UnmountForced(c)
    <2> USE <1>17
    <2>1. /\ \A d \in Client : d # c => pc'[d] = pc[d]
          /\ UNCHANGED <<call, rlstore, ctr, mounted, count, holds>> /\ happened \subseteq happened'
      BY Zenon DEF UnmountForced, Go, StateInv, TypeOK, counts, mounts, history
    <2>2. /\ pc[c] \notin {"open", "count", "unmount"}
          /\ \/ pc'[c] \notin {"open", "mount", "count", "Get", "uncount", "unmount", "Put"}
             \/ pc'[c] = "Put" /\ "forced" \in happened
      BY Zenon DEF UnmountForced, Go, StateInv, TypeOK, CallInv, CallAt
    <2> QED BY <2>1, <2>2, Quiet, Zenon
  <1>18. CASE Return(c)
    <2> USE <1>18
    <2>1. /\ \A d \in Client : d # c => pc'[d] = pc[d] /\ call'[d] = call[d] /\ rlstore'[d] = rlstore[d]
          /\ UNCHANGED <<mounted, count, holds, happened>>
          /\ pc[c] = "return" /\ pc'[c] = "idle" /\ Collect(MountCount, ctr)
      BY Zenon DEF Return, Go, StateInv, TypeOK, history
    <2>2. MountCount \in [Object -> Nat] /\ ctr \in [Object -> Counter]
      BY Zenon DEF StateInv, TypeOK
    <2>3. /\ \A d \in Client : rlstore'[d] \in Object => ctr'[rlstore'[d]] = ctr[rlstore'[d]]
          /\ \A o \in Object : ctr'[o] = NewCounter \/ ctr'[o] = ctr[o]
      BY <2>1, <2>2, CollectCounters, Zenon
    <2>4. \A d \in Client : d # c /\ rlstore[d] \in Object => ctr'[rlstore[d]] = ctr[rlstore[d]]
      BY <2>1, <2>3, Zenon
    <2> QED BY <2>1, <2>3, <2>4, Quiet, Zenon
  <1>19. CASE Save(c)
    <2> USE <1>19
    <2>1. /\ \A d \in Client : d # c => pc'[d] = pc[d]
          /\ UNCHANGED <<call, rlstore, mounted, happened, ctr, holds>>
          /\ pc[c] = "ready" /\ pc'[c] = "return" /\ call[c] = "Save"
      BY Zenon DEF Save, Go, StateInv, TypeOK, history, mounts
    <2>2. CASE "skewed" \notin happened
      <3>1. MountCount[rlstore[c]] = count /\ count \in Nat
        BY <2>1, <2>2, Zenon DEF KnownInv, FreshInv, FreshAt, Saving, StateInv, TypeOK
      <3>2. count' = count
        BY <2>1, <3>1, Saved, Zenon DEF Save
      <3> QED BY <2>1, <3>2, Quiet, Zenon
    <2>3. CASE "skewed" \in happened
      <3>1. c \notin Users /\ c \notin Users'
        BY <2>1, Zenon DEF Users
      <3>2. Users' = Users
        BY <2>1, <3>1, UsersOthers, Zenon
      <3>3. LowerInv'
        BY <2>1, <2>3, <3>2, Zenon DEF LowerInv
      <3>4. UpperInv'
        BY <2>1, <2>3, Zenon DEF UpperInv
      <3> QED BY <3>3, <3>4, Zenon
    <2> QED BY <2>2, <2>3, Zenon
  <1>20. ASSUME NEW logged \in BOOLEAN, unmountFails(c, logged) PROVE LowerInv' /\ UpperInv'
    <2> USE <1>20
    <2>1. /\ \A d \in Client : d # c => pc'[d] = pc[d]
          /\ UNCHANGED <<call, rlstore, mounted, count, holds, ctr>>
          /\ happened \subseteq happened' /\ "unmount" \in happened'
          /\ pc[c] = "unmount" /\ pc'[c] \in {"uncount", "return"}
      BY Zenon DEF unmountFails, HasPut, Go, StateInv, TypeOK, mounts
    <2>2. Users' \subseteq Users
      <3>1. c \notin Users'
        BY <2>1, Zenon DEF Users
      <3> QED BY <2>1, <3>1, UsersOthers, Zenon
    <2>3. \A d \in Client : d # c => (Critical(d)' <=> Critical(d))
      BY <2>1, Zenon DEF Critical
    <2>4. \A d \in Client :
            /\ pc'[d] = "mount" /\ call'[d] \in Naive => ctr'[rlstore'[d]].count <= 1
            /\ pc'[d] = "count" => pc[d] = "count" /\ call'[d] = call[d]
            /\ Critical(d)' /\ pc'[d] \in {"Put", "unmount"} => Critical(d) /\ pc[d] \in {"Put", "unmount"}
      BY <2>1, <2>3, Zenon DEF LowerInv
    <2>5. LowerInv'
      BY <2>1, <2>2, <2>4, KeepLower, Zenon
    <2>6. UpperInv'
      BY <2>1, Zenon DEF UpperInv
    <2> QED BY <2>5, <2>6, Zenon
  <1> QED BY <1>1, <1>2, <1>3, <1>4, <1>5, <1>6, <1>7, <1>8, <1>9, <1>10, <1>11, <1>12, <1>13, <1>14, <1>15,
             <1>16, <1>17, <1>18, <1>19, <1>20, Zenon DEF Step

LEMMA InitMounts == Init => LowerInv /\ UpperInv
  <1> SUFFICES ASSUME Init PROVE LowerInv /\ UpperInv
    BY Zenon
  <1>1. \A c \in Client : pc[c] = "idle" /\ ~Critical(c)
    BY Zenon DEF Init, Critical
  <1>2. Users = {}
    BY <1>1, Zenon DEF Users
  <1>3. IsFiniteSet(Users) /\ Cardinality(Users) = 0
    BY <1>2, FS_EmptySet, Zenon
  <1>4. mounted = 0 /\ holds = 0 /\ \A o \in Object : ctr[o].count = 0
    BY Zenon DEF Init, NewCounter
  <1> QED BY <1>1, <1>3, <1>4 DEF LowerInv, UpperInv, CounterBound

-----------------------------------------------------------------------------
(* The invariant. *)

LEMMA InitIInv == Init => IInv
  BY InitState, InitFresh, InitCounted, InitMounts, Zenon DEF IInv, KnownInv

\* What happened is not forgotten.
LEMMA StepHappened ==
  ASSUME NEW c \in Client, Step(c)
  PROVE  happened \subseteq happened'
  <1>1. ASSUME NEW changed \in BOOLEAN, ReloadIfChanged(c, changed) PROVE happened \subseteq happened'
    BY <1>1, Zenon DEF ReloadIfChanged, history
  <1>2. ASSUME NEW logged \in BOOLEAN, unmountFails(c, logged) PROVE happened \subseteq happened'
    BY <1>2, Zenon DEF unmountFails
  <1>3. ASSUME NEW force \in BOOLEAN, Shutdown(c, force) PROVE happened \subseteq happened'
    BY <1>3, Zenon DEF Shutdown, history
  <1>4. CASE Get(c) \/ mountFunc(c) \/ mountFails(c) \/ Put(c) \/ unmountFunc(c) \/ UnmountForced(c)
    BY <1>4, Zenon DEF Get, mountFunc, mountFails, Put, unmountFunc, UnmountForced, history
  <1>5. CASE Lock_graphLock(c) \/ Lock(c) \/ Load(c) \/ loadMounts(c) \/ Mounted(c) \/ Mount(c) \/ Unmount(c)
    BY <1>5, Zenon DEF Lock_graphLock, Lock, Load, loadMounts, Mounted, Mount, Unmount, history
  <1>6. CASE IncrementMountCount(c) \/ DecrementMountCount(c) \/ Save(c) \/ Return(c)
    BY <1>6, Zenon DEF IncrementMountCount, DecrementMountCount, Save, Return, history
  <1> QED BY <1>1, <1>2, <1>3, <1>4, <1>5, <1>6, Zenon DEF Step

LEMMA StepIInv ==
  ASSUME OneGoroutine, IInv, NEW c \in Client, Step(c)
  PROVE  IInv'
  <1>1. StateInv'
    BY StepState, Zenon DEF IInv
  <1>2. KnownInv' /\ CountInv'
    BY <1>1, StepHappened, StepFresh, StepCounted, Zenon DEF IInv, KnownInv
  <1>3. LowerInv' /\ UpperInv'
    BY StepMounts, Zenon DEF IInv
  <1> QED BY <1>1, <1>2, <1>3, Zenon DEF IInv

LEMMA NextIInv ==
  ASSUME OneGoroutine, IInv, [Next]_vars
  PROVE  IInv'
  <1>1. ASSUME NEW c \in Client, Step(c) PROVE IInv'
    BY <1>1, StepIInv, Zenon
  <1>2. ASSUME NEW c \in Client, NEW m \in Call, LayerStore(c, m) PROVE IInv'
    <2>1. StateInv' /\ KnownInv'
      <3>1. happened' = happened
        BY <1>2, Zenon DEF LayerStore
      <3> QED BY <1>2, <3>1, LayerStoreState, LayerStoreFresh, Zenon DEF IInv, KnownInv
    <2> QED BY <1>2, <2>1, LayerStoreCounted, LayerStoreMounts, Zenon DEF IInv
  <1>3. ASSUME NEW p \in Proc, Exit(p) PROVE IInv'
    <2>1. StateInv' /\ KnownInv'
      <3>1. happened \subseteq happened'
        BY <1>3, Zenon DEF Exit
      <3> QED BY <1>3, <3>1, ExitState, ExitFresh, Zenon DEF IInv, KnownInv
    <2> QED BY <1>3, <2>1, ExitCounted, ExitMounts, Zenon DEF IInv
  <1>4. CASE UNCHANGED vars
    <2>1. UNCHANGED <<pc, call, rlstore, layerStore, shutdown, known, loaded, readers, writers, graphLock, mountsLock,
                      loadMut, locker, count, touched, lw, MountCount, replaced, ctr, mounted, holds, happened, events>>
      BY <1>4, Zenon DEF vars, graph, locks, counts, mounts, history
    <2>2. \A d \in Client : Critical(d)' <=> Critical(d)
      BY <2>1, Zenon DEF Critical
    <2>3. StateInv'
      BY <2>1, <2>2, Zenon DEF IInv, StateInv, TypeOK, CallInv, CallAt, ObjectInv, LockInv
    <2>4. KnownInv'
      BY <2>1, <2>2, Zenon DEF IInv, KnownInv, FreshInv, FreshAt, Saving
    <2>5. Counting' = Counting /\ Users' = Users
      BY <2>1, Zenon DEF Counting, TarSplitReaders, Leaving, Users
    <2>6. CountInv'
      BY <2>1, <2>5, Zenon DEF IInv, CountInv
    <2>7. LowerInv'
      BY <2>1, <2>2, <2>5, Zenon DEF IInv, LowerInv
    <2>8. UpperInv'
      BY <2>1, <2>2, <2>5, Zenon DEF IInv, UpperInv, CounterBound
    <2> QED BY <2>3, <2>4, <2>6, <2>7, <2>8, Zenon DEF IInv
  <1> QED BY <1>1, <1>2, <1>3, <1>4, Zenon DEF Next

\* The inductive invariant, of processes that call the store from one goroutine.
THEOREM MountsCorrect == ASSUME OneGoroutine PROVE Spec => []IInv
  <1>1. Init => IInv
    BY InitIInv, Zenon
  <1>2. IInv /\ [Next]_vars => IInv'
    BY NextIInv, Zenon
  <1> QED BY <1>1, <1>2, PTL DEF Spec

\* Whatever calls the processes make and wherever they end, the layer is
\* mounted as long as a client that called Mount needs it (unless a mount
\* failed or Shutdown was told to unmount), and when no call is running and
\* nothing has failed it is mounted at most once, and only if one needs it:
\* Mount and Unmount of layers.go, Get, Put and the reference counter of the
\* driver.
THEOREM MountedAsHeldAlways == ASSUME OneGoroutine PROVE Spec => []MountedAsHeld
  <1>1. IInv => MountedWhileHeld
    <2> SUFFICES ASSUME IInv, happened \subseteq {"crash", "shared", "unmount"}, holds > 0 PROVE mounted > 0
      BY Zenon DEF MountedWhileHeld
    <2>1. mounted >= 1 + Cardinality(Users) /\ mounted \in Nat
      BY Zenon DEF IInv, LowerInv, StateInv, TypeOK
    <2>2. Cardinality(Users) \in Nat
      BY FS_CardinalityType, Zenon DEF IInv, LowerInv
    <2> QED BY <2>1, <2>2
  <1>2. IInv => NoMountLeft
    <2> SUFFICES ASSUME IInv, happened = {}, \A c \in Client : pc[c] = "idle"
                 PROVE  mounted = IF holds > 0 THEN 1 ELSE 0
      BY Zenon DEF NoMountLeft
    <2>1. mounted \in Nat /\ holds \in Nat /\ count \in Nat /\ \A c \in Client : call[c] = None
      BY Zenon DEF IInv, StateInv, TypeOK, CallInv, CallAt
    <2>2. Users = {} /\ Counting = {}
      BY <2>1, NoneAssumption, Zenon DEF Users, Counting, TarSplitReaders, Leaving, Calls
    <2>3. Cardinality(Users) = 0 /\ Cardinality(Counting) = 0
      BY <2>2, FS_EmptySet, Zenon
    <2>4. count = holds
      BY <2>1, <2>3 DEF IInv, CountInv
    <2>5. mounted <= 1 /\ (holds = 0 => mounted <= 0)
      BY <2>1, <2>3, <2>4 DEF IInv, UpperInv
    <2>6. holds > 0 => mounted >= 1
      BY <2>1, <2>3 DEF IInv, LowerInv
    <2> QED BY <2>1, <2>5, <2>6
  <1>3. IInv => MountedAsHeld
    BY <1>1, <1>2, Zenon DEF MountedAsHeld
  <1> QED BY <1>3, MountsCorrect, PTL

\* mountpoints.json counts the mounts that clients need (unless a process died
\* in the middle of a call, Shutdown unmounted or unmounting failed), and a
\* process that may enter the critical section of mountpoints.lock without
\* reloading has the count of the file (unless a Shutdown that was to unmount
\* failed): loadMounts, saveMounts and ReloadIfChanged of layers.go.
THEOREM CountsAgreeAlways == ASSUME OneGoroutine PROVE Spec => []CountsAgree
  <1>1. IInv => TypeOK
    BY Zenon DEF IInv, StateInv
  <1>2. IInv => CountsHolds
    BY Zenon DEF IInv, CountInv, CountsHolds, Counting
  <1>3. IInv => CountFresh
    <2> SUFFICES ASSUME IInv, "skewed" \notin happened, NEW c \in Client, pc[c] = "ready", ~Modified(ProcOf[c])
                 PROVE  MountCount[rlstore[c]] = count
      BY Zenon DEF CountFresh
    <2>1. ~Critical(c)
      BY Zenon DEF Critical
    <2>2. touched /\ ProcOf[c] \in lw
      BY Zenon DEF Modified
    <2> QED BY <2>1, <2>2, Zenon DEF IInv, KnownInv, FreshInv, FreshAt
  <1>4. IInv => CountsAgree
    BY <1>1, <1>2, <1>3, Zenon DEF CountsAgree
  <1> QED BY <1>4, MountsCorrect, PTL

=============================================================================
