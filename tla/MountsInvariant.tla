-------------------------- MODULE MountsInvariant ---------------------------
(***************************************************************************)
(* The inductive invariant of Mounts, for processes with one goroutine     *)
(* each, and the proof that every step preserves its first parts: where    *)
(* clients are in their calls, which layerStores and locks they have       *)
(* (StateInv), the copies that processes have of the count in              *)
(* mountpoints.json (FreshInv), and the count itself (CountInv).           *)
(* MountsProofs has the other parts.                                       *)
(***************************************************************************)
EXTENDS Mounts, FiniteSetTheorems, TLAPS

\* Every process calls its store from one goroutine.
OneGoroutine == \A c, d \in Client : ProcOf[c] = ProcOf[d] => c = d

\* The clients that hold layers.lock, and those that hold mountpoints.lock.
Outside == {"idle", "graphLock", "lock"}
Critical(c) ==
    \/ pc[c] \in {"Get", "count", "Put", "uncount"}
    \/ pc[c] \in {"mount", "unmount"} /\ call[c] \notin Naive

\* TypeOK, by the groups of variables that actions leave alone together.
ClientTypes ==
    /\ pc \in [Client -> PC] /\ call \in [Client -> Calls \cup {None}]
    /\ rlstore \in [Client -> Object \cup {None}]
GraphTypes ==
    /\ layerStore \in [Proc -> Object \cup {None}]
    /\ shutdown \in BOOLEAN /\ known \subseteq Proc /\ loaded \subseteq Proc
LockTypes ==
    /\ readers \subseteq Client /\ writers \subseteq Client
    /\ graphLock \in Client \cup {None} /\ mountsLock \in Client \cup {None}
    /\ loadMut \in [Object -> Client \cup {None}] /\ locker \in [Object -> Client \cup {None}]
CountTypes ==
    /\ count \in Nat /\ touched \in BOOLEAN /\ lw \subseteq Proc
    /\ MountCount \in [Object -> Nat] /\ replaced \in BOOLEAN
MountTypes == ctr \in [Object -> Counter] /\ mounted \in Nat /\ holds \in Nat
HistoryTypes == happened \subseteq Faults \cup {"forced", "skewed", "shared"} /\ events \in 0..MaxEvents

\* Where a call can be.
CallAt(c) ==
    /\ call[c] = None <=> pc[c] = "idle"
    /\ pc[c] \in {"Get", "count"} => call[c] \in {"Mount", "DiffTarSplit"}
    /\ pc[c] \in {"Put", "uncount"} => call[c] \in {"Unmount", "DiffTarSplit", "Shutdown"}
    /\ pc[c] = "mount" => call[c] \in Naive \cup {"Mount", "DiffTarSplit"}
    /\ pc[c] = "unmount" => call[c] \in Naive \cup {"Unmount", "DiffTarSplit", "Shutdown"}
    /\ pc[c] = "open" => call[c] \in Naive \cup {"DiffTarSplit"}
    /\ pc[c] = "loop" => call[c] = "Shutdown"
    /\ call[c] = "Shutdown" /\ pc[c] \in {"Put", "unmount", "uncount", "loop"} => "forced" \in happened

CallInv == \A c \in Client : CallAt(c)

\* No two processes share a layerStore, so that no Load replaces a Layer that is in use.
ObjectInv ==
    /\ \A c \in Client : rlstore[c] = None <=> pc[c] = "idle"
    /\ \A c, d \in Client : rlstore[c] = rlstore[d] /\ rlstore[c] # None => c = d
    /\ \A p, q \in Proc : layerStore[p] = layerStore[q] /\ layerStore[p] # None => p = q
    /\ \A c \in Client, p \in Proc : rlstore[c] = layerStore[p] /\ rlstore[c] # None => p = ProcOf[c]
    /\ \A c \in Client : rlstore[c] # None => layerStore[ProcOf[c]] \in {None, rlstore[c]}
    /\ ~replaced

\* Who holds layers.lock, as a reader or as a writer, and mountpoints.lock.
LockInv ==
    /\ readers = {c \in Client : pc[c] \notin Outside /\ call[c] \notin Write}
    /\ writers = {c \in Client : pc[c] \notin Outside /\ call[c] \in Write}
    /\ \A c \in writers : writers = {c} /\ readers = {}
    /\ \A c \in Client : mountsLock = c <=> Critical(c)

StateInv == TypeOK /\ CallInv /\ ObjectInv /\ LockInv

\* The clients that are about to write the counts without another look at mountpoints.json.
Saving(c) == pc[c] = "ready" /\ call[c] = "Save"

\* They have its count, and so has a process that knows the last writer.
FreshAt(c) ==
    /\ Saving(c) => MountCount[rlstore[c]] = count
    /\ Critical(c) /\ call[c] # "Shutdown" => MountCount[rlstore[c]] = count
    /\ touched /\ ProcOf[c] \in lw =>
          /\ pc[c] \notin {"idle", "Load", "loadMounts"} /\ ~Critical(c) => MountCount[rlstore[c]] = count
          /\ pc[c] = "idle" /\ layerStore[ProcOf[c]] # None => MountCount[layerStore[ProcOf[c]]] = count

FreshInv == \A c \in Client : FreshAt(c)

\* The clients that are counted in mountpoints.json but no longer, or not only, in holds.
Counting == TarSplitReaders \cup Leaving

\* mountpoints.json counts them and holds, and after a crash, or if unmounting failed, it may count more.
CountInv ==
    /\ IsFiniteSet(Counting)
    /\ happened \subseteq {"crash", "mount", "shared", "unmount"} => count >= holds + Cardinality(Counting)
    /\ happened \subseteq {"mount", "shared"} => count = holds + Cardinality(Counting)

\* The clients that mounted for themselves what they will unmount.
Users ==
    {c \in Client : call[c] \in Naive /\ (pc[c] = "unmount" \/ (pc[c] = "open" /\ ctr[rlstore[c]].count <= 1))}

\* Beside their mounts there is one for those that are counted.
LowerInv ==
    /\ IsFiniteSet(Users)
    /\ \A o \in Object : ~ctr[o].check => ctr[o].count = 0
    /\ \A c \in Client : pc[c] = "mount" /\ call[c] \in Naive => ctr[rlstore[c]].count <= 1
    /\ happened \subseteq {"crash", "shared", "unmount"} =>
          /\ holds > 0 => mounted >= 1 + Cardinality(Users)
          /\ \A c \in Client : pc[c] = "count" /\ call[c] = "Mount" => mounted >= 1
          /\ \A c \in Client : Critical(c) /\ pc[c] \in {"Put", "unmount"} => count <= 1

\* What a driver has counted beyond one are its process's own reads.
CounterBound ==
    \A o \in Object :
        \/ ctr[o].count <= 1
        \/ ctr[o].count <= 2 /\ \E c \in Client : rlstore[c] = o /\ pc[c] = "open" /\ call[c] \in Naive

\* And at most one, and none when nobody is counted.
UpperInv ==
    happened = {} =>
        /\ CounterBound
        /\ mounted <= 1 + Cardinality(Users)
        /\ \A c \in Client :
              Critical(c) /\ (pc[c] \in {"Get", "mount"} \/ (pc[c] = "uncount" /\ count <= 1)) =>
                  mounted <= Cardinality(Users)
        /\ count = 0 /\ (\A c \in Client : pc[c] # "count") => mounted <= Cardinality(Users)

KnownInv == "skewed" \notin happened => FreshInv

IInv == StateInv /\ KnownInv /\ CountInv /\ LowerInv /\ UpperInv

-----------------------------------------------------------------------------
(* What StateInv says of the variables, in the pieces that the proofs use. *)

LEMMA Groups == StateInv => ClientTypes /\ GraphTypes /\ LockTypes /\ CountTypes /\ MountTypes /\ HistoryTypes
  BY Zenon DEF StateInv, TypeOK, ClientTypes, GraphTypes, LockTypes, CountTypes, MountTypes, HistoryTypes

LEMMA NextTypes ==
  ASSUME ClientTypes', GraphTypes', LockTypes', CountTypes', MountTypes', HistoryTypes'
  PROVE  TypeOK'
  BY Zenon DEF TypeOK, ClientTypes, GraphTypes, LockTypes, CountTypes, MountTypes, HistoryTypes

LEMMA PcType == StateInv => pc \in [Client -> PC]
  BY Groups, Zenon DEF ClientTypes

LEMMA CallType == StateInv => call \in [Client -> Calls \cup {None}]
  BY Groups, Zenon DEF ClientTypes

LEMMA StoreTypes ==
  StateInv => rlstore \in [Client -> Object \cup {None}] /\ layerStore \in [Proc -> Object \cup {None}]
  BY Groups, Zenon DEF ClientTypes, GraphTypes

LEMMA CopyType == StateInv => MountCount \in [Object -> Nat] /\ count \in Nat /\ lw \subseteq Proc /\ ~replaced
  BY Groups, Zenon DEF StateInv, CountTypes, ObjectInv

LEMMA CounterType == StateInv => ctr \in [Object -> Counter]
  BY Groups, Zenon DEF MountTypes

LEMMA NumberTypes == StateInv => count \in Nat /\ mounted \in Nat /\ holds \in Nat
  BY Groups, Zenon DEF CountTypes, MountTypes

\* A group of variables that a step leaves alone keeps its types.
LEMMA KeepTypes ==
  ASSUME StateInv
  PROVE  /\ UNCHANGED graph => GraphTypes'
         /\ UNCHANGED locks => LockTypes'
         /\ UNCHANGED counts => CountTypes'
         /\ UNCHANGED mounts => MountTypes'
         /\ UNCHANGED history => HistoryTypes'
  <1>0. GraphTypes /\ LockTypes /\ CountTypes /\ MountTypes /\ HistoryTypes
    BY Groups, Zenon
  <1>1. UNCHANGED graph => GraphTypes'
    BY <1>0, Zenon DEF GraphTypes, graph
  <1>2. UNCHANGED locks => LockTypes'
    BY <1>0, Zenon DEF LockTypes, locks
  <1>3. UNCHANGED counts => CountTypes'
    BY <1>0, Zenon DEF CountTypes, counts
  <1>4. UNCHANGED mounts => MountTypes'
    BY <1>0, Zenon DEF MountTypes, mounts
  <1>5. UNCHANGED history => HistoryTypes'
    BY <1>0, Zenon DEF HistoryTypes, history
  <1> QED BY <1>1, <1>2, <1>3, <1>4, <1>5, Zenon

\* A layerStore that somebody uses is not forgotten.
LEMMA CollectFacts ==
  ASSUME NEW copies \in [Object -> Nat], NEW counters \in [Object -> Counter], Collect(copies, counters)
  PROVE  /\ MountCount' \in [Object -> Nat] /\ ctr' \in [Object -> Counter]
         /\ \A p \in Proc : layerStore'[p] \in Object =>
               MountCount'[layerStore'[p]] = copies[layerStore'[p]] /\ ctr'[layerStore'[p]] = counters[layerStore'[p]]
         /\ \A c \in Client : rlstore'[c] \in Object =>
               MountCount'[rlstore'[c]] = copies[rlstore'[c]] /\ ctr'[rlstore'[c]] = counters[rlstore'[c]]
         /\ \A o \in Object : ctr'[o] = NewCounter \/ ctr'[o] = counters[o]
  <1>1. NewCounter \in Counter
    BY DEF NewCounter, Counter
  <1>2. MountCount' \in [Object -> Nat] /\ ctr' \in [Object -> Counter]
    BY <1>1, Zenon DEF Collect
  <1>3. \A p \in Proc : layerStore'[p] \in Object => layerStore'[p] \notin Unreferenced'
    BY Zenon DEF Unreferenced
  <1>4. \A c \in Client : rlstore'[c] \in Object => rlstore'[c] \notin Unreferenced'
    BY Zenon DEF Unreferenced
  <1> QED BY <1>2, <1>3, <1>4, Zenon DEF Collect

\* LayerStore returns the process's layerStore, or a new one that nobody else uses.
LEMMA LayerStoreFacts ==
  ASSUME TypeOK, NEW c \in Client, NEW m \in Call, LayerStore(c, m)
  PROVE  \E o \in Object :
            /\ rlstore' = [rlstore EXCEPT ![c] = o] /\ layerStore' = [layerStore EXCEPT ![ProcOf[c]] = o]
            /\ \/ layerStore[ProcOf[c]] = o /\ UNCHANGED <<MountCount, ctr>>
               \/ /\ \A q \in Proc \ {ProcOf[c]} : layerStore[q] # o
                  /\ \A d \in Client : rlstore[d] # o
                  /\ mountsLock = None
                  /\ Collect([MountCount EXCEPT ![o] = count], [ctr EXCEPT ![o] = NewCounter])
  <1> DEFINE p == ProcOf[c]
             current == IF p \in loaded THEN layerStore[p] ELSE None
             free == {o \in Object : (\A q \in Proc \ {p} : layerStore[q] # o) /\ \A d \in Client : rlstore[d] # o}
             chosen == CHOOSE o \in free : TRUE
  <1>p. p \in Proc
    BY ProcOfAssumption, Zenon
  <1>1. CASE current # None
    <2>1. current \in Object /\ layerStore[p] = current
      BY <1>1, <1>p, Zenon DEF TypeOK
    <2>2. rlstore' = [rlstore EXCEPT ![c] = current] /\ layerStore' = [layerStore EXCEPT ![p] = current]
      BY <1>1, Zenon DEF LayerStore
    <2>3. UNCHANGED <<MountCount, ctr>>
      BY <1>1, Zenon DEF LayerStore
    <2> QED BY <2>1, <2>2, <2>3, Zenon
  <1>2. CASE current = None
    <2>1. free # {} /\ mountsLock = None
      BY <1>2, Zenon DEF LayerStore
    <2> HIDE DEF free
    <2>2. chosen \in free
      BY <2>1, Zenon
    <2> USE DEF free
    <2>3. rlstore' = [rlstore EXCEPT ![c] = chosen] /\ layerStore' = [layerStore EXCEPT ![p] = chosen]
      BY <1>2, Zenon DEF LayerStore
    <2>4. Collect([MountCount EXCEPT ![chosen] = count], [ctr EXCEPT ![chosen] = NewCounter])
      BY <1>2, Zenon DEF LayerStore
    <2> HIDE DEF chosen
    <2> QED BY <2>1, <2>2, <2>3, <2>4, Zenon
  <1> QED BY <1>1, <1>2, Zenon

\* A client in a call has a layerStore.
LEMMA Working ==
  ASSUME StateInv, NEW c \in Client, pc[c] # "idle"
  PROVE  ProcOf[c] \in Proc /\ rlstore[c] \in Object /\ MountCount[rlstore[c]] \in Nat
  <1>1. ProcOf[c] \in Proc
    BY ProcOfAssumption, Zenon
  <1>2. rlstore[c] \in Object
    BY StoreTypes, Zenon DEF StateInv, ObjectInv
  <1>3. MountCount[rlstore[c]] \in Nat
    BY <1>2, CopyType, Zenon
  <1> QED BY <1>1, <1>2, <1>3, Zenon

\* What Get and Put do to the counters.
LEMMA CountedFacts ==
  ASSUME StateInv, NEW c \in Client, pc[c] # "idle", NEW n \in Int, Counted(rlstore[c], n)
  PROVE  /\ ctr'[rlstore[c]].check /\ ctr'[rlstore[c]].count = n
         /\ \A o \in Object : o # rlstore[c] => ctr'[o] = ctr[o]
         /\ \A d \in Client : d # c /\ rlstore[d] \in Object => ctr'[rlstore[d]] = ctr[rlstore[d]]
         /\ ctr' \in [Object -> Counter]
  <1> DEFINE new == [check |-> TRUE, count |-> n]
  <1>1. rlstore[c] \in Object /\ ctr \in [Object -> Counter]
    BY Working, CounterType, Zenon
  <1>2. new \in Counter /\ new.check /\ new.count = n
    BY Zenon DEF Counter
  <1>3. ctr' = [ctr EXCEPT ![rlstore[c]] = new]
    BY Zenon DEF Counted
  <1> HIDE DEF new
  <1>4. ctr' \in [Object -> Counter] /\ ctr'[rlstore[c]] = new /\ \A o \in Object : o # rlstore[c] => ctr'[o] = ctr[o]
    BY <1>1, <1>2, <1>3, Zenon
  <1>5. \A d \in Client : d # c => rlstore[d] # rlstore[c]
    BY <1>1, NoneAssumption, Zenon DEF StateInv, ObjectInv
  <1> QED BY <1>2, <1>4, <1>5, Zenon

LEMMA CheckedType ==
  ASSUME StateInv, NEW c \in Client, pc[c] # "idle"
  PROVE  Checked(rlstore[c]) \in Int
  <1>1. ctr[rlstore[c]] \in Counter
    BY Working, CounterType, Zenon
  <1>2. ctr[rlstore[c]].count \in Int
    BY <1>1, Zenon DEF Counter
  <1> QED BY <1>2 DEF Checked

\* A step of a client that holds layers.lock before and after it.
Moves(c) ==
    /\ pc' \in [Client -> PC] /\ UNCHANGED <<call, rlstore>>
    /\ \A d \in Client : d # c => pc'[d] = pc[d]
    /\ pc[c] \notin Outside /\ pc'[c] \notin Outside

\* What it does with mountpoints.lock: nothing, or it locks or unlocks it.
LEMMA MovesLock ==
  ASSUME StateInv, NEW c \in Client, Moves(c), UNCHANGED <<readers, writers>>,
         \/ UNCHANGED mountsLock /\ (Critical(c)' <=> Critical(c))
         \/ mountsLock = None /\ mountsLock' = c /\ Critical(c)'
         \/ Critical(c) /\ mountsLock' = None /\ ~Critical(c)'
  PROVE  LockInv'
  <1>0. LockInv /\ call' = call
    BY Zenon DEF StateInv, Moves
  <1>1. \A d \in Client : (pc'[d] \notin Outside <=> pc[d] \notin Outside) /\ (d # c => (Critical(d)' <=> Critical(d)))
    BY Zenon DEF Moves, Critical
  <1>2. readers' = {d \in Client : pc'[d] \notin Outside /\ call'[d] \notin Write}
    BY <1>0, <1>1, Zenon DEF LockInv
  <1>3. writers' = {d \in Client : pc'[d] \notin Outside /\ call'[d] \in Write}
    BY <1>0, <1>1, Zenon DEF LockInv
  <1>4. \A d \in writers' : writers' = {d} /\ readers' = {}
    BY <1>0, Zenon DEF LockInv
  <1>5. \A d \in Client : mountsLock' = d <=> Critical(d)'
    <2>1. \A d \in Client : mountsLock = d <=> Critical(d)
      BY <1>0, Zenon DEF LockInv
    <2> HIDE DEF Critical
    <2> QED BY <1>1, <2>1, NoneAssumption
  <1> QED BY <1>2, <1>3, <1>4, <1>5, Zenon DEF LockInv

\* It leaves alone what other clients do and which layerStores there are.
LEMMA MovesState ==
  ASSUME StateInv, NEW c \in Client, Moves(c), UNCHANGED layerStore, ~replaced', happened \subseteq happened', CallAt(c)'
  PROVE  ClientTypes' /\ CallInv' /\ ObjectInv'
  <1>0. UNCHANGED <<call, rlstore>> /\ pc' \in [Client -> PC]
    BY Zenon DEF Moves
  <1>1. ClientTypes'
    BY <1>0, Groups, Zenon DEF ClientTypes
  <1>2. CallInv'
    <2> SUFFICES ASSUME NEW d \in Client, d # c PROVE CallAt(d)'
      BY Zenon DEF CallInv
    <2>1. CallAt(d) /\ pc'[d] = pc[d] /\ call'[d] = call[d]
      BY Zenon DEF StateInv, CallInv, Moves
    <2> QED BY <2>1, Zenon DEF CallAt
  <1>3. \A d \in Client : pc'[d] = "idle" <=> pc[d] = "idle"
    BY Zenon DEF Moves, Outside
  <1>4. ObjectInv'
    BY <1>0, <1>3, Zenon DEF StateInv, ObjectInv
  <1> QED BY <1>1, <1>2, <1>4, Zenon

\* No Layer is replaced under whoever holds mountpoints.lock, so what it saves is the count that it
\* has changed.
LEMMA Saved ==
  ASSUME StateInv, NEW c \in Client, pc[c] # "idle", NEW n \in Nat, saveMounts(c, n)
  PROVE  /\ count' = n /\ MountCount' = [MountCount EXCEPT ![rlstore[c]] = n] /\ touched' = TRUE
         /\ lw' = {ProcOf[c]} /\ mountsLock' = None /\ replaced' = FALSE
         /\ MountCount' \in [Object -> Nat] /\ MountCount'[rlstore[c]] = n
         /\ \A o \in Object : o # rlstore[c] => MountCount'[o] = MountCount[o]
         /\ CountTypes'
  <1>1. rlstore[c] \in Object /\ ProcOf[c] \in Proc /\ MountCount \in [Object -> Nat] /\ ~replaced
    BY Working, CopyType, Zenon
  <1>2. /\ count' = n /\ MountCount' = [MountCount EXCEPT ![rlstore[c]] = n] /\ touched' = TRUE
        /\ lw' = {ProcOf[c]} /\ mountsLock' = None /\ replaced' = FALSE
    BY <1>1, Zenon DEF saveMounts
  <1>3. /\ MountCount' \in [Object -> Nat] /\ MountCount'[rlstore[c]] = n
        /\ \A o \in Object : o # rlstore[c] => MountCount'[o] = MountCount[o]
    BY <1>1, <1>2, Zenon
  <1>4. CountTypes'
    BY <1>1, <1>2, <1>3, Zenon DEF CountTypes
  <1> QED BY <1>2, <1>3, <1>4, Zenon

\* Where a client goes when its Get is done.
LEMMA GotFacts ==
  ASSUME StateInv, NEW c \in Client, Got(c)
  PROVE  /\ Go(c, IF call[c] \in {"Mount", "DiffTarSplit"} THEN "count" ELSE "open")
         /\ graphLock' \in {graphLock, None}
  BY Zenon DEF Got, Opened

\* A call begins: LayerStore gives the process its layerStore, or a new one.
LEMMA LayerStoreState ==
  ASSUME OneGoroutine, StateInv, NEW c \in Client, NEW m \in Call, LayerStore(c, m)
  PROVE  StateInv'
  <1> USE DEF StateInv
  <1>0. ProcOf[c] \in Proc /\ pc[c] = "idle" /\ rlstore[c] = None /\ m \in Calls
    BY ProcOfAssumption, CallAssumption, Zenon DEF LayerStore, ObjectInv
  <1>a. /\ pc' = [pc EXCEPT ![c] = IF m \in TakeGraphLock THEN "graphLock" ELSE "lock"]
        /\ call' = [call EXCEPT ![c] = m]
        /\ loaded' = loaded \cup {ProcOf[c]}
        /\ UNCHANGED <<shutdown, known, locks, count, touched, lw, replaced, mounted, happened>>
    BY Zenon DEF LayerStore, Go
  <1>b. holds' \in Nat /\ events' \in 0..MaxEvents
    <2>1. IF m = "Unmount" THEN holds > 0 /\ holds' = holds - 1 ELSE UNCHANGED holds
      BY Zenon DEF LayerStore
    <2>2. IF m = "Shutdown" THEN Event ELSE UNCHANGED events
      BY Zenon DEF LayerStore
    <2> QED BY <2>1, <2>2, BoundAssumption DEF Event, TypeOK
  <1>1. PICK o \in Object :
            /\ rlstore' = [rlstore EXCEPT ![c] = o] /\ layerStore' = [layerStore EXCEPT ![ProcOf[c]] = o]
            /\ \/ layerStore[ProcOf[c]] = o /\ UNCHANGED <<MountCount, ctr>>
               \/ /\ \A q \in Proc \ {ProcOf[c]} : layerStore[q] # o
                  /\ \A d \in Client : rlstore[d] # o
                  /\ mountsLock = None
                  /\ Collect([MountCount EXCEPT ![o] = count], [ctr EXCEPT ![o] = NewCounter])
    BY LayerStoreFacts, Zenon
  <1>2. MountCount' \in [Object -> Nat] /\ ctr' \in [Object -> Counter]
    <2>1. [MountCount EXCEPT ![o] = count] \in [Object -> Nat] /\ [ctr EXCEPT ![o] = NewCounter] \in [Object -> Counter]
      BY DEF TypeOK, NewCounter, Counter
    <2> QED BY <1>1, <2>1, CollectFacts, Zenon DEF TypeOK
  <1>3. TypeOK'
    BY <1>0, <1>a, <1>b, <1>1, <1>2, Zenon DEF TypeOK, PC, locks
  <1>4. CallInv'
    BY <1>0, <1>a, NoneAssumption DEF TypeOK, CallInv, CallAt, Naive
  <1>5. /\ \A d \in Client : rlstore[d] # o
        /\ \A q \in Proc \ {ProcOf[c]} : layerStore[q] # o
    <2>1. CASE layerStore[ProcOf[c]] = o
      BY <2>1, <1>0, NoneAssumption, Zenon DEF ObjectInv, OneGoroutine
    <2> QED BY <1>1, <2>1, Zenon
  <1>6. ObjectInv'
    BY <1>0, <1>a, <1>1, <1>5, NoneAssumption, ProcOfAssumption DEF TypeOK, ObjectInv, OneGoroutine
  <1>7. LockInv'
    BY <1>0, <1>a DEF TypeOK, LockInv, Outside, Critical, locks
  <1> QED BY <1>3, <1>4, <1>6, <1>7, Zenon

\* The layerStore of a process is dropped, or stays.
LEMMA DropFacts ==
  ASSUME StateInv, NEW c \in Client, DropIfModified(c)
  PROVE  /\ known' \subseteq Proc /\ loaded' \subseteq Proc
         /\ layerStore' = layerStore \/ layerStore' = [layerStore EXCEPT ![ProcOf[c]] = None]
  BY ProcOfAssumption, Zenon DEF DropIfModified, StateInv, TypeOK

\* Every step of a client in a call keeps StateInv.
LEMMA StepState ==
  ASSUME OneGoroutine, StateInv, NEW c \in Client, Step(c)
  PROVE  StateInv'
  <1>1. CASE Lock_graphLock(c)
    <2> USE <1>1
    <2>0. ProcOf[c] \in Proc /\ rlstore[c] \in Object
      BY Working, Zenon DEF Lock_graphLock
    <2>1. /\ pc[c] = "graphLock" /\ pc' = [pc EXCEPT ![c] = "lock"] /\ graphLock' = c /\ Collect(MountCount, ctr)
          /\ UNCHANGED <<rlstore, call, shutdown, readers, writers, mountsLock, loadMut, locker,
                         count, touched, lw, replaced, mounted, holds, happened, events>>
      BY Zenon DEF Lock_graphLock, Go, history
    <2>2. /\ known' \subseteq Proc /\ loaded' \subseteq Proc
          /\ layerStore' = layerStore \/ layerStore' = [layerStore EXCEPT ![ProcOf[c]] = None]
      BY DropFacts, Zenon DEF Lock_graphLock, StateInv, TypeOK
    <2> USE DEF StateInv
    <2>3. MountCount' \in [Object -> Nat] /\ ctr' \in [Object -> Counter]
      BY <2>1, CollectFacts, Zenon DEF TypeOK
    <2>4. TypeOK'
      BY <2>0, <2>1, <2>2, <2>3, Zenon DEF TypeOK, PC
    <2>5. CallInv'
      BY <2>1, Zenon DEF TypeOK, CallInv, CallAt, Naive
    <2>6. ObjectInv'
      <3>1. \A q \in Proc : layerStore'[q] \in {None, layerStore[q]}
        BY <2>0, <2>2, Zenon DEF TypeOK
      <3>2. /\ \A d \in Client : rlstore'[d] = None <=> pc'[d] = "idle"
            /\ \A d, e \in Client : rlstore'[d] = rlstore'[e] /\ rlstore'[d] # None => d = e
            /\ ~replaced'
        BY <2>1, Zenon DEF TypeOK, ObjectInv
      <3>3. \A q, r \in Proc : layerStore'[q] = layerStore'[r] /\ layerStore'[q] # None => q = r
        BY <3>1 DEF ObjectInv
      <3>4. \A d \in Client, q \in Proc : rlstore'[d] = layerStore'[q] /\ rlstore'[d] # None => q = ProcOf[d]
        BY <2>1, <3>1 DEF ObjectInv
      <3>5. \A d \in Client : rlstore'[d] # None => layerStore'[ProcOf[d]] \in {None, rlstore'[d]}
        BY <2>1, <3>1, ProcOfAssumption, Zenon DEF ObjectInv
      <3> QED BY <3>2, <3>3, <3>4, <3>5, Zenon DEF ObjectInv
    <2>7. LockInv'
      BY <2>1, Zenon DEF TypeOK, LockInv, Outside, Critical
    <2> QED BY <2>4, <2>5, <2>6, <2>7, Zenon
  <1>2. CASE Lock(c)
    <2> USE <1>2
    <2>1. /\ pc[c] = "lock" /\ pc'[c] = "reload" /\ (\A d \in Client : d # c => pc'[d] = pc[d])
          /\ pc' \in [Client -> PC] /\ UNCHANGED <<call, rlstore>>
      BY PcType, Zenon DEF Lock, Go, PC
    <2>2. /\ UNCHANGED <<layerStore, mountsLock, replaced, happened>>
          /\ GraphTypes' /\ CountTypes' /\ MountTypes' /\ HistoryTypes'
      BY KeepTypes, Zenon DEF Lock, graph, counts, history
    <2>3. IF call[c] \in Write THEN readers = {} /\ writers = {} /\ writers' = {c} /\ readers' = {}
                               ELSE writers = {} /\ readers' = readers \cup {c} /\ writers' = {}
      BY Zenon DEF Lock, L!Lock, L!RLock
    <2>4. ClientTypes' /\ LockTypes'
      BY <2>1, <2>3, Groups, Zenon DEF ClientTypes, LockTypes, Lock
    <2>5. CallInv'
      <3> SUFFICES ASSUME NEW d \in Client PROVE CallAt(d)'
        BY Zenon DEF CallInv
      <3>1. CallAt(d) /\ call'[d] = call[d] /\ (pc'[d] = pc[d] \/ (pc[d] = "lock" /\ pc'[d] = "reload"))
        BY <2>1, Zenon DEF StateInv, CallInv
      <3> QED BY <3>1, <2>2, Zenon DEF CallAt
    <2>6. ObjectInv'
      <3>1. \A d \in Client : pc'[d] = "idle" <=> pc[d] = "idle"
        BY <2>1, Zenon
      <3> QED BY <3>1, <2>1, <2>2, Zenon DEF StateInv, ObjectInv
    <2>7. LockInv'
      <3>1. /\ readers = {d \in Client : pc[d] \notin Outside /\ call[d] \notin Write}
            /\ writers = {d \in Client : pc[d] \notin Outside /\ call[d] \in Write}
            /\ \A d \in Client : mountsLock = d <=> Critical(d)
        BY Zenon DEF StateInv, LockInv
      <3>2. /\ pc[c] \in Outside /\ pc'[c] \notin Outside
            /\ \A d \in Client : d # c => (pc'[d] \in Outside <=> pc[d] \in Outside)
        BY <2>1, Zenon DEF Outside
      <3>3. \A d \in Client : Critical(d)' <=> Critical(d)
        BY <2>1, Zenon DEF Critical
      <3>4. readers' = {d \in Client : pc'[d] \notin Outside /\ call'[d] \notin Write}
        BY <2>1, <2>3, <3>1, <3>2, Zenon
      <3>5. writers' = {d \in Client : pc'[d] \notin Outside /\ call'[d] \in Write}
        BY <2>1, <2>3, <3>1, <3>2, Zenon
      <3>6. \A d \in writers' : writers' = {d} /\ readers' = {}
        BY <2>3, Zenon
      <3> QED BY <2>2, <3>1, <3>3, <3>4, <3>5, <3>6, Zenon DEF LockInv
    <2> QED BY <2>2, <2>4, <2>5, <2>6, <2>7, NextTypes, Zenon DEF StateInv
  <1>3. ASSUME NEW changed \in BOOLEAN, ReloadIfChanged(c, changed) PROVE StateInv'
    <2> USE <1>3
    <2>1. Moves(c) /\ pc[c] = "reload" /\ pc'[c] \in {"Load", "ready"}
      BY PcType, Zenon DEF ReloadIfChanged, Go, Moves, Outside, PC
    <2>2. /\ UNCHANGED <<layerStore, readers, writers, mountsLock, replaced, happened>>
          /\ GraphTypes' /\ MountTypes' /\ HistoryTypes'
      BY KeepTypes, Zenon DEF ReloadIfChanged, graph, history
    <2>3. CallAt(c) /\ call'[c] = call[c] /\ rlstore[c] \in Object /\ ProcOf[c] \in Proc
      BY <2>1, Working, Zenon DEF StateInv, CallInv, Moves
    <2>4. LockTypes'
      BY <2>3, Groups, Zenon DEF LockTypes, ReloadIfChanged
    <2>5. CountTypes'
      BY <2>3, Groups, Zenon DEF CountTypes, ReloadIfChanged, Recorded
    <2>6. CallAt(c)' /\ Critical(c)' = Critical(c)
      BY <2>1, <2>2, <2>3, Zenon DEF CallAt, Critical
    <2>7. LockInv'
      BY <2>1, <2>2, <2>6, MovesLock, Zenon
    <2>8. ClientTypes' /\ CallInv' /\ ObjectInv'
      BY <2>1, <2>2, <2>6, MovesState, CopyType, Zenon
    <2> QED BY <2>2, <2>4, <2>5, <2>7, <2>8, NextTypes, Zenon DEF StateInv
  <1>4. CASE Load(c)
    <2> USE <1>4
    <2>1. Moves(c) /\ pc[c] = "Load" /\ pc'[c] = "loadMounts"
      BY PcType, Zenon DEF Load, Go, Moves, Outside, PC
    <2>2. /\ UNCHANGED <<layerStore, readers, writers, mountsLock, happened>>
          /\ GraphTypes' /\ LockTypes' /\ MountTypes' /\ HistoryTypes'
      BY KeepTypes, Zenon DEF Load, graph, locks, history
    <2>3. CallAt(c) /\ call'[c] = call[c] /\ rlstore[c] \in Object
      BY <2>1, Working, Zenon DEF StateInv, CallInv, Moves
    <2>4. ~replaced'
      <3>1. mountsLock # None => mountsLock \in Client /\ Critical(mountsLock)
        BY Groups, Zenon DEF StateInv, LockTypes, LockInv
      <3>2. mountsLock # c
        BY <2>1, Zenon DEF StateInv, LockInv, Critical
      <3>3. ~(mountsLock # None /\ rlstore[mountsLock] = rlstore[c])
        BY <3>1, <3>2, <2>3, NoneAssumption, Zenon DEF StateInv, ObjectInv
      <3> QED BY <3>3, CopyType, Zenon DEF Load
    <2>5. CountTypes'
      BY <2>3, <2>4, CopyType, Groups, Zenon DEF CountTypes, Load
    <2>6. CallAt(c)' /\ Critical(c)' = Critical(c)
      BY <2>1, <2>2, <2>3, Zenon DEF CallAt, Critical
    <2>7. LockInv'
      BY <2>1, <2>2, <2>6, MovesLock, Zenon
    <2>8. ClientTypes' /\ CallInv' /\ ObjectInv'
      BY <2>1, <2>2, <2>4, <2>6, MovesState, Zenon
    <2> QED BY <2>2, <2>5, <2>7, <2>8, NextTypes, Zenon DEF StateInv
  <1>5. CASE loadMounts(c)
    <2> USE <1>5
    <2>1. Moves(c) /\ pc[c] = "loadMounts" /\ pc'[c] = "ready"
      BY PcType, Zenon DEF loadMounts, Go, Moves, Outside, PC
    <2>2. /\ UNCHANGED <<layerStore, readers, writers, mountsLock, replaced, happened>>
          /\ GraphTypes' /\ MountTypes' /\ HistoryTypes'
      BY KeepTypes, Zenon DEF loadMounts, graph, history
    <2>3. CallAt(c) /\ call'[c] = call[c] /\ rlstore[c] \in Object
      BY <2>1, Working, Zenon DEF StateInv, CallInv, Moves
    <2>4. LockTypes'
      BY <2>3, Groups, Zenon DEF LockTypes, loadMounts
    <2>5. CountTypes'
      BY <2>3, CopyType, Groups, Zenon DEF CountTypes, loadMounts
    <2>6. CallAt(c)' /\ Critical(c)' = Critical(c)
      BY <2>1, <2>2, <2>3, Zenon DEF CallAt, Critical
    <2>7. LockInv'
      BY <2>1, <2>2, <2>6, MovesLock, Zenon
    <2>8. ClientTypes' /\ CallInv' /\ ObjectInv'
      BY <2>1, <2>2, <2>6, MovesState, CopyType, Zenon
    <2> QED BY <2>2, <2>4, <2>5, <2>7, <2>8, NextTypes, Zenon DEF StateInv
  <1>6. CASE Mounted(c)
    <2> USE <1>6
    <2>1. Moves(c) /\ pc[c] = "ready" /\ pc'[c] = "return"
      BY PcType, Zenon DEF Mounted, Go, Moves, Outside, PC
    <2>2. /\ UNCHANGED <<layerStore, readers, writers, mountsLock, replaced, happened>>
          /\ GraphTypes' /\ LockTypes' /\ MountTypes' /\ HistoryTypes'
      BY KeepTypes, Zenon DEF Mounted, graph, locks, history
    <2>3. CallAt(c) /\ call'[c] = call[c] /\ rlstore[c] \in Object /\ ProcOf[c] \in Proc /\ Current(c) \in Nat
      BY <2>1, Working, CopyType, Zenon DEF StateInv, CallInv, Moves, Current
    <2>5. CountTypes'
      BY <2>3, Groups, Zenon DEF CountTypes, Mounted, Recorded
    <2>6. CallAt(c)' /\ Critical(c)' = Critical(c)
      BY <2>1, <2>2, <2>3, Zenon DEF CallAt, Critical
    <2>7. LockInv'
      BY <2>1, <2>2, <2>6, MovesLock, Zenon
    <2>8. ClientTypes' /\ CallInv' /\ ObjectInv'
      BY <2>1, <2>2, <2>6, MovesState, CopyType, Zenon
    <2> QED BY <2>2, <2>5, <2>7, <2>8, NextTypes, Zenon DEF StateInv
  <1>7. CASE Mount(c)
    <2> USE <1>7
    <2>0. ProcOf[c] \in Proc /\ rlstore[c] \in Object
      BY Working, Zenon DEF Mount
    <2>1. /\ pc[c] = "ready" /\ call[c] \in {"Mount", "DiffTarSplit"} /\ mountsLock = None
          /\ pc' = [pc EXCEPT ![c] = IF Current(c) > 0 /\ mounted > 0 THEN "count" ELSE "Get"]
          /\ mountsLock' = c /\ replaced' = FALSE /\ lw' = IF touched THEN lw \cup {ProcOf[c]} ELSE lw
          /\ Collect([MountCount EXCEPT ![rlstore[c]] = Current(c)], ctr)
          /\ UNCHANGED <<rlstore, call, shutdown, readers, writers, graphLock, loadMut, locker,
                         count, touched, mounted, holds, happened, events>>
      BY Zenon DEF Mount, Go, history, Recorded
    <2>2. /\ known' \subseteq Proc /\ loaded' \subseteq Proc
          /\ layerStore' = layerStore \/ layerStore' = [layerStore EXCEPT ![ProcOf[c]] = None]
      BY DropFacts, Zenon DEF Mount, StateInv, TypeOK
    <2> USE DEF StateInv
    <2>3. MountCount' \in [Object -> Nat] /\ ctr' \in [Object -> Counter]
      <3>1. [MountCount EXCEPT ![rlstore[c]] = Current(c)] \in [Object -> Nat]
        BY <2>0, Zenon DEF TypeOK, Current
      <3> QED BY <2>1, <3>1, CollectFacts, Zenon DEF TypeOK
    <2>4. TypeOK'
      BY <2>0, <2>1, <2>2, <2>3, Zenon DEF TypeOK, PC
    <2>5. CallInv'
      BY <2>1, Zenon DEF TypeOK, CallInv, CallAt, Naive
    <2>6. ObjectInv'
      <3>1. \A q \in Proc : layerStore'[q] \in {None, layerStore[q]}
        BY <2>0, <2>2, Zenon DEF TypeOK
      <3>2. /\ \A d \in Client : rlstore'[d] = None <=> pc'[d] = "idle"
            /\ \A d, e \in Client : rlstore'[d] = rlstore'[e] /\ rlstore'[d] # None => d = e
            /\ ~replaced'
        BY <2>1, Zenon DEF TypeOK, ObjectInv
      <3>3. \A q, r \in Proc : layerStore'[q] = layerStore'[r] /\ layerStore'[q] # None => q = r
        BY <3>1 DEF ObjectInv
      <3>4. \A d \in Client, q \in Proc : rlstore'[d] = layerStore'[q] /\ rlstore'[d] # None => q = ProcOf[d]
        BY <2>1, <3>1 DEF ObjectInv
      <3>5. \A d \in Client : rlstore'[d] # None => layerStore'[ProcOf[d]] \in {None, rlstore'[d]}
        BY <2>1, <3>1, ProcOfAssumption, Zenon DEF ObjectInv
      <3> QED BY <3>2, <3>3, <3>4, <3>5, Zenon DEF ObjectInv
    <2>7. LockInv'
      BY <2>1, NoneAssumption DEF TypeOK, LockInv, Outside, Critical, Naive
    <2> QED BY <2>4, <2>5, <2>6, <2>7, Zenon
  <1>8. CASE IncrementMountCount(c)
    <2> USE <1>8
    <2>1. Moves(c) /\ pc[c] = "count" /\ pc'[c] \in {"return", "open"} /\ (pc'[c] = "open" => call[c] # "Mount")
      BY PcType, Zenon DEF IncrementMountCount, Opened, Go, Moves, Outside, PC
    <2>2. UNCHANGED <<layerStore, readers, writers, happened>> /\ GraphTypes' /\ HistoryTypes'
      BY KeepTypes, Zenon DEF IncrementMountCount, graph, history
    <2>3. CallAt(c) /\ call'[c] = call[c] /\ MountCount[rlstore[c]] + 1 \in Nat
      BY <2>1, Working DEF StateInv, CallInv, Moves
    <2>s. mountsLock' = None /\ ~replaced' /\ CountTypes'
      <3> DEFINE n == MountCount[rlstore[c]] + 1
      <3>1. n \in Nat /\ saveMounts(c, n) /\ pc[c] # "idle"
        BY <2>1, <2>3, Zenon DEF IncrementMountCount
      <3> HIDE DEF n
      <3> QED BY <3>1, Saved, Zenon
    <2>4. LockTypes'
      BY <2>s, Groups, Zenon DEF LockTypes, IncrementMountCount, Opened
    <2>5. MountTypes'
      BY Groups DEF MountTypes, IncrementMountCount
    <2>6. CallAt(c)' /\ Critical(c) /\ ~Critical(c)'
      BY <2>1, <2>2, <2>3, Zenon DEF CallAt, Critical
    <2>7. LockInv'
      BY <2>1, <2>2, <2>s, <2>6, MovesLock, Zenon
    <2>8. ClientTypes' /\ CallInv' /\ ObjectInv'
      BY <2>1, <2>2, <2>s, <2>6, MovesState, Zenon
    <2> QED BY <2>2, <2>s, <2>4, <2>5, <2>7, <2>8, NextTypes, Zenon DEF StateInv
  <1>9. CASE Unmount(c)
    <2> USE <1>9
    <2>1. Moves(c) /\ pc[c] \in {"ready", "open"} /\ pc'[c] \in {"Put", "uncount"} /\ call[c] \in {"Unmount", "DiffTarSplit"}
      BY PcType, Zenon DEF Unmount, Go, Moves, Outside, PC
    <2>2. /\ UNCHANGED <<layerStore, readers, writers, happened>> /\ mountsLock = None /\ mountsLock' = c /\ ~replaced'
          /\ GraphTypes' /\ MountTypes' /\ HistoryTypes'
      BY KeepTypes, Zenon DEF Unmount, graph, history
    <2>3. CallAt(c) /\ call'[c] = call[c] /\ rlstore[c] \in Object /\ ProcOf[c] \in Proc /\ Current(c) \in Nat
      BY <2>1, Working, CopyType, Zenon DEF StateInv, CallInv, Moves, Current
    <2>4. LockTypes'
      BY Groups, Zenon DEF LockTypes, Unmount
    <2>5. CountTypes'
      BY <2>3, Groups, Zenon DEF CountTypes, Unmount, Recorded
    <2>6. CallAt(c)' /\ Critical(c)'
      BY <2>1, <2>2, <2>3, Zenon DEF CallAt, Critical
    <2>7. LockInv'
      BY <2>1, <2>2, <2>6, MovesLock, Zenon
    <2>8. ClientTypes' /\ CallInv' /\ ObjectInv'
      BY <2>1, <2>2, <2>6, MovesState, Zenon
    <2> QED BY <2>2, <2>4, <2>5, <2>7, <2>8, NextTypes, Zenon DEF StateInv
  <1>10. CASE DecrementMountCount(c)
    <2> USE <1>10
    <2>1. Moves(c) /\ pc[c] = "uncount" /\ pc'[c] = IF call[c] = "Shutdown" THEN "loop" ELSE "return"
      BY PcType, Zenon DEF DecrementMountCount, Go, Moves, Outside, PC
    <2>2. UNCHANGED <<layerStore, readers, writers, happened>> /\ GraphTypes' /\ MountTypes' /\ HistoryTypes'
      BY KeepTypes, Zenon DEF DecrementMountCount, graph, history
    <2>3. CallAt(c) /\ call'[c] = call[c] /\ MountCount[rlstore[c]] \in Nat
      BY <2>1, Working, Zenon DEF StateInv, CallInv, Moves
    <2>s. mountsLock' = None /\ ~replaced' /\ CountTypes'
      <3> DEFINE n == IF MountCount[rlstore[c]] > 1 THEN MountCount[rlstore[c]] - 1 ELSE 0
      <3>1. n \in Nat /\ saveMounts(c, n) /\ pc[c] # "idle"
        BY <2>1, <2>3 DEF DecrementMountCount
      <3> HIDE DEF n
      <3> QED BY <3>1, Saved, Zenon
    <2>4. LockTypes'
      BY <2>s, Groups, Zenon DEF LockTypes, DecrementMountCount
    <2>6. CallAt(c)' /\ Critical(c) /\ ~Critical(c)'
      BY <2>1, <2>2, <2>3, Zenon DEF CallAt, Critical
    <2>7. LockInv'
      BY <2>1, <2>2, <2>s, <2>6, MovesLock, Zenon
    <2>8. ClientTypes' /\ CallInv' /\ ObjectInv'
      BY <2>1, <2>2, <2>s, <2>6, MovesState, Zenon
    <2> QED BY <2>2, <2>s, <2>4, <2>7, <2>8, NextTypes, Zenon DEF StateInv
  <1>11. CASE Get(c)
    <2> USE <1>11
    <2> DEFINE where == IF call[c] \in {"Mount", "DiffTarSplit"} THEN "count" ELSE "open"
    <2>0. pc[c] = "Get" \/ (pc[c] = "ready" /\ call[c] \in Naive)
      BY Zenon DEF Get
    <2>g. /\ Go(c, where) \/ Go(c, "mount")
          /\ graphLock' \in {graphLock, None} /\ (locker' = locker \/ locker' = [locker EXCEPT ![rlstore[c]] = c])
      BY GotFacts, Zenon DEF Get
    <2>1. Moves(c) /\ pc'[c] \in {where, "mount"}
      BY <2>0, <2>g, PcType, Zenon DEF Get, Go, Moves, Outside, PC
    <2>2. UNCHANGED <<layerStore, readers, writers, mountsLock, replaced>> /\ GraphTypes' /\ CountTypes'
      BY KeepTypes, Zenon DEF Get, graph, counts
    <2>3. CallAt(c) /\ call'[c] = call[c] /\ rlstore[c] \in Object
      BY <2>0, Working, Zenon DEF StateInv, CallInv, Moves, Get
    <2>4. LockTypes'
      BY <2>3, <2>g, Groups, Zenon DEF LockTypes, Get
    <2>5. MountTypes'
      <3> DEFINE n == Checked(rlstore[c]) + 1
      <3>1. n \in Int /\ Counted(rlstore[c], n) /\ pc[c] # "idle"
        BY <2>0, CheckedType DEF Get
      <3> HIDE DEF n
      <3>2. ctr' \in [Object -> Counter]
        BY <3>1, CountedFacts, Zenon
      <3> QED BY <3>2, Groups, Zenon DEF MountTypes, Get
    <2>6. happened \subseteq happened' /\ HistoryTypes'
      BY Groups, Zenon DEF HistoryTypes, Get
    <2>7. CallAt(c)' /\ Critical(c)' = Critical(c)
      BY <2>0, <2>1, <2>3, <2>6, Zenon DEF CallAt, Critical, Naive
    <2>8. LockInv'
      BY <2>1, <2>2, <2>7, MovesLock, Zenon
    <2>9. ClientTypes' /\ CallInv' /\ ObjectInv'
      BY <2>1, <2>2, <2>6, <2>7, MovesState, CopyType, Zenon
    <2> QED BY <2>2, <2>4, <2>5, <2>6, <2>8, <2>9, NextTypes, Zenon DEF StateInv
  <1>12. CASE mountFunc(c)
    <2> USE <1>12
    <2> DEFINE where == IF call[c] \in {"Mount", "DiffTarSplit"} THEN "count" ELSE "open"
    <2>0. pc[c] = "mount" /\ Go(c, where) /\ graphLock' \in {graphLock, None}
      BY GotFacts, Zenon DEF mountFunc
    <2>1. Moves(c) /\ pc'[c] = where
      BY <2>0, PcType, Zenon DEF mountFunc, Go, Moves, Outside, PC
    <2>2. /\ UNCHANGED <<layerStore, readers, writers, mountsLock, replaced, happened>>
          /\ GraphTypes' /\ CountTypes' /\ HistoryTypes'
      BY KeepTypes, Zenon DEF mountFunc, graph, counts, history
    <2>3. CallAt(c) /\ call'[c] = call[c] /\ rlstore[c] \in Object
      BY <2>0, Working, Zenon DEF StateInv, CallInv, Moves, mountFunc
    <2>4. LockTypes'
      BY <2>3, <2>0, Groups, Zenon DEF LockTypes, mountFunc
    <2>5. MountTypes'
      BY Groups DEF MountTypes, mountFunc
    <2>7. CallAt(c)' /\ Critical(c)' = Critical(c)
      BY <2>0, <2>1, <2>2, <2>3, Zenon DEF CallAt, Critical, Naive
    <2>8. LockInv'
      BY <2>1, <2>2, <2>7, MovesLock, Zenon
    <2>9. ClientTypes' /\ CallInv' /\ ObjectInv'
      BY <2>1, <2>2, <2>7, MovesState, CopyType, Zenon
    <2> QED BY <2>2, <2>4, <2>5, <2>8, <2>9, NextTypes, Zenon DEF StateInv
  <1>13. CASE mountFails(c)
    <2> USE <1>13
    <2>1. Moves(c) /\ pc[c] = "mount" /\ pc'[c] = "return"
      BY PcType, Zenon DEF mountFails, Go, Moves, Outside, PC
    <2>2. UNCHANGED <<layerStore, readers, writers>> /\ happened \subseteq happened' /\ GraphTypes'
      BY KeepTypes, Zenon DEF mountFails, graph
    <2>3. CallAt(c) /\ call'[c] = call[c] /\ rlstore[c] \in Object /\ ProcOf[c] \in Proc
      BY <2>1, Working, Zenon DEF StateInv, CallInv, Moves
    <2>s. IF mountsLock = c
          THEN mountsLock' = None /\ replaced' = FALSE /\ touched' = TRUE /\ lw' = {ProcOf[c]}
          ELSE UNCHANGED <<mountsLock, replaced, touched, lw>>
      BY Zenon DEF mountFails
    <2>4. LockTypes'
      BY <2>3, <2>s, Groups, Zenon DEF LockTypes, mountFails
    <2>c. UNCHANGED <<count, MountCount, holds>>
      BY Zenon DEF mountFails
    <2>5. CountTypes' /\ ~replaced'
      BY <2>3, <2>s, <2>c, CopyType, Groups, Zenon DEF CountTypes
    <2>m. MountTypes'
      <3> DEFINE n == Checked(rlstore[c]) - 1
      <3>1. n \in Int /\ Counted(rlstore[c], n) /\ pc[c] # "idle"
        BY <2>1, CheckedType DEF mountFails
      <3>2. mounted' \in Nat
        BY <3>1, NumberTypes DEF mountFails
      <3> HIDE DEF n
      <3>3. ctr' \in [Object -> Counter]
        BY <3>1, CountedFacts, Zenon
      <3> QED BY <3>2, <3>3, <2>c, Groups, Zenon DEF MountTypes
    <2>h. HistoryTypes'
      BY BoundAssumption, Groups DEF HistoryTypes, mountFails, Event
    <2>6. CallAt(c)' /\ ~Critical(c)' /\ (mountsLock = c <=> Critical(c))
      BY <2>1, <2>2, <2>3, Zenon DEF CallAt, Critical, StateInv, LockInv
    <2>7. LockInv'
      BY <2>1, <2>2, <2>s, <2>6, MovesLock, Zenon
    <2>8. ClientTypes' /\ CallInv' /\ ObjectInv'
      BY <2>1, <2>2, <2>5, <2>6, MovesState, Zenon
    <2> QED BY <2>2, <2>4, <2>5, <2>m, <2>h, <2>7, <2>8, NextTypes, Zenon DEF StateInv
  <1>14. CASE Put(c)
    <2> USE <1>14
    <2> DEFINE where == IF call[c] \in Naive THEN "return" ELSE "uncount"
    <2>0. pc[c] = "Put" \/ (pc[c] = "open" /\ call[c] \in Naive)
      BY Zenon DEF Put
    <2>g. (Go(c, where) \/ Go(c, "unmount")) /\ (locker' = locker \/ locker' = [locker EXCEPT ![rlstore[c]] = c])
      BY Zenon DEF Put, HasPut
    <2>1. Moves(c) /\ pc'[c] \in {where, "unmount"}
      BY <2>0, <2>g, PcType, Zenon DEF Put, Go, Moves, Outside, PC
    <2>2. /\ UNCHANGED <<layerStore, readers, writers, mountsLock, replaced, happened>>
          /\ GraphTypes' /\ CountTypes' /\ HistoryTypes'
      BY KeepTypes, Zenon DEF Put, graph, counts, history
    <2>3. CallAt(c) /\ call'[c] = call[c] /\ rlstore[c] \in Object
      BY <2>0, <2>1, Working, Zenon DEF StateInv, CallInv, Moves
    <2>4. LockTypes'
      BY <2>3, <2>g, Groups, Zenon DEF LockTypes, Put
    <2>5. MountTypes'
      <3> DEFINE n == Checked(rlstore[c]) - 1
      <3>1. n \in Int /\ Counted(rlstore[c], n) /\ pc[c] # "idle"
        BY <2>0, CheckedType DEF Put
      <3> HIDE DEF n
      <3>2. ctr' \in [Object -> Counter]
        BY <3>1, CountedFacts, Zenon
      <3> QED BY <3>2, Groups, Zenon DEF MountTypes, Put
    <2>7. CallAt(c)' /\ Critical(c)' = Critical(c)
      BY <2>0, <2>1, <2>2, <2>3, Zenon DEF CallAt, Critical, Naive
    <2>8. LockInv'
      BY <2>1, <2>2, <2>7, MovesLock, Zenon
    <2>9. ClientTypes' /\ CallInv' /\ ObjectInv'
      BY <2>1, <2>2, <2>7, MovesState, CopyType, Zenon
    <2> QED BY <2>2, <2>4, <2>5, <2>8, <2>9, NextTypes, Zenon DEF StateInv
  <1>15. CASE unmountFunc(c)
    <2> USE <1>15
    <2>1. Moves(c) /\ pc[c] = "unmount" /\ pc'[c] = IF call[c] \in Naive THEN "return" ELSE "uncount"
      BY PcType, Zenon DEF unmountFunc, HasPut, Go, Moves, Outside, PC
    <2>2. /\ UNCHANGED <<layerStore, readers, writers, mountsLock, replaced, happened>>
          /\ GraphTypes' /\ CountTypes' /\ HistoryTypes'
      BY KeepTypes, Zenon DEF unmountFunc, graph, counts, history
    <2>3. CallAt(c) /\ call'[c] = call[c] /\ rlstore[c] \in Object
      BY <2>1, Working, Zenon DEF StateInv, CallInv, Moves
    <2>4. LockTypes'
      BY <2>3, Groups, Zenon DEF LockTypes, unmountFunc
    <2>5. MountTypes'
      BY Groups DEF MountTypes, unmountFunc
    <2>7. CallAt(c)' /\ Critical(c)' = Critical(c)
      BY <2>1, <2>2, <2>3, Zenon DEF CallAt, Critical, Naive
    <2>8. LockInv'
      BY <2>1, <2>2, <2>7, MovesLock, Zenon
    <2>9. ClientTypes' /\ CallInv' /\ ObjectInv'
      BY <2>1, <2>2, <2>7, MovesState, CopyType, Zenon
    <2> QED BY <2>2, <2>4, <2>5, <2>8, <2>9, NextTypes, Zenon DEF StateInv
  <1>16. ASSUME NEW force \in BOOLEAN, Shutdown(c, force) PROVE StateInv'
    <2> USE <1>16
    <2>1. Moves(c) /\ pc[c] = "ready" /\ call[c] = "Shutdown" /\ pc'[c] \in {"loop", "return"}
      BY PcType, Zenon DEF Shutdown, Go, Moves, Outside, PC
    <2>2. /\ UNCHANGED <<layerStore, readers, writers, mountsLock, replaced>>
          /\ LockTypes' /\ CountTypes' /\ MountTypes'
      BY KeepTypes, Zenon DEF Shutdown, locks, counts
    <2>3. CallAt(c) /\ call'[c] = call[c] /\ ProcOf[c] \in Proc
      BY <2>1, Working, Zenon DEF StateInv, CallInv, Moves
    <2>4. GraphTypes'
      BY <2>3, Groups, Zenon DEF GraphTypes, Shutdown
    <2>5. happened \subseteq happened' /\ (pc'[c] = "loop" => "forced" \in happened') /\ HistoryTypes'
      BY PcType, Groups, Zenon DEF HistoryTypes, Shutdown, Go
    <2>7. CallAt(c)' /\ Critical(c)' = Critical(c)
      BY <2>1, <2>3, <2>5, Zenon DEF CallAt, Critical
    <2>8. LockInv'
      BY <2>1, <2>2, <2>7, MovesLock, Zenon
    <2>9. ClientTypes' /\ CallInv' /\ ObjectInv'
      BY <2>1, <2>2, <2>5, <2>7, MovesState, CopyType, Zenon
    <2> QED BY <2>2, <2>4, <2>5, <2>8, <2>9, NextTypes, Zenon DEF StateInv
  <1>17. CASE UnmountForced(c)
    <2> USE <1>17
    <2>1. Moves(c) /\ pc[c] = "loop" /\ pc'[c] = "Put"
      BY PcType, Zenon DEF UnmountForced, Go, Moves, Outside, PC
    <2>2. /\ UNCHANGED <<layerStore, readers, writers, happened>> /\ mountsLock = None /\ mountsLock' = c /\ ~replaced'
          /\ GraphTypes' /\ MountTypes' /\ HistoryTypes'
      BY KeepTypes, Zenon DEF UnmountForced, graph, history
    <2>3. CallAt(c) /\ call'[c] = call[c] /\ rlstore[c] \in Object
      BY <2>1, Working, Zenon DEF StateInv, CallInv, Moves
    <2>4. LockTypes'
      BY Groups, Zenon DEF LockTypes, UnmountForced
    <2>5. CountTypes'
      <3>1. MountCount' \in [Object -> Nat]
        BY <2>3, CopyType, Zenon DEF UnmountForced
      <3> QED BY <3>1, Groups, Zenon DEF CountTypes, UnmountForced
    <2>6. CallAt(c)' /\ Critical(c)'
      BY <2>1, <2>2, <2>3, Zenon DEF CallAt, Critical
    <2>7. LockInv'
      BY <2>1, <2>2, <2>6, MovesLock, Zenon
    <2>8. ClientTypes' /\ CallInv' /\ ObjectInv'
      BY <2>1, <2>2, <2>6, MovesState, Zenon
    <2> QED BY <2>2, <2>4, <2>5, <2>7, <2>8, NextTypes, Zenon DEF StateInv
  <1>18. CASE Return(c)
    <2> USE <1>18
    <2>0. ProcOf[c] \in Proc /\ rlstore[c] \in Object
      BY Working, Zenon DEF Return
    <2>1. /\ pc[c] = "return" /\ pc' = [pc EXCEPT ![c] = "idle"] /\ Collect(MountCount, ctr)
          /\ readers' = readers \ {c} /\ writers' = writers \ {c}
          /\ rlstore' = [rlstore EXCEPT ![c] = None] /\ call' = [call EXCEPT ![c] = None]
          /\ graphLock' \in {graphLock, None}
          /\ UNCHANGED <<layerStore, shutdown, known, loaded, mountsLock, loadMut, locker,
                         count, touched, lw, replaced, mounted, holds, happened, events>>
      BY Zenon DEF Return, Go, history, graph, L!Unlock
    <2> USE DEF StateInv
    <2>3. MountCount' \in [Object -> Nat] /\ ctr' \in [Object -> Counter]
      BY <2>1, CollectFacts, Zenon DEF TypeOK
    <2>4. TypeOK'
      BY <2>0, <2>1, <2>3, Zenon DEF TypeOK, PC
    <2>5. CallInv'
      BY <2>1, Zenon DEF TypeOK, CallInv, CallAt, Naive
    <2>6. ObjectInv'
      BY <2>0, <2>1 DEF TypeOK, ObjectInv
    <2>7. LockInv'
      BY <2>1 DEF TypeOK, LockInv, Outside, Critical
    <2> QED BY <2>4, <2>5, <2>6, <2>7, Zenon
  <1>19. CASE Save(c)
    <2> USE <1>19
    <2>1. Moves(c) /\ pc[c] = "ready" /\ call[c] = "Save" /\ pc'[c] = "return" /\ mountsLock = None
      BY PcType, Zenon DEF Save, Go, Moves, Outside, PC
    <2>2. UNCHANGED <<layerStore, readers, writers, happened>> /\ GraphTypes' /\ MountTypes' /\ HistoryTypes'
      BY KeepTypes, Zenon DEF Save, graph, history
    <2>3. CallAt(c) /\ call'[c] = call[c] /\ MountCount[rlstore[c]] \in Nat
      BY <2>1, Working, Zenon DEF StateInv, CallInv, Moves
    <2>s. mountsLock' = None /\ ~replaced' /\ CountTypes'
      BY <2>1, <2>3, Saved, Zenon DEF Save
    <2>4. LockTypes'
      BY <2>s, Groups, Zenon DEF LockTypes, Save
    <2>6. CallAt(c)' /\ ~Critical(c) /\ ~Critical(c)'
      BY <2>1, <2>2, <2>3, Zenon DEF CallAt, Critical
    <2>7. LockInv'
      BY <2>1, <2>2, <2>s, <2>6, MovesLock, Zenon
    <2>8. ClientTypes' /\ CallInv' /\ ObjectInv'
      BY <2>1, <2>2, <2>s, <2>6, MovesState, Zenon
    <2> QED BY <2>2, <2>s, <2>4, <2>7, <2>8, NextTypes, Zenon DEF StateInv
  <1>20. ASSUME NEW logged \in BOOLEAN, unmountFails(c, logged) PROVE StateInv'
    <2> USE <1>20
    <2> DEFINE goes == logged \/ call[c] \in Naive
    <2>1. /\ Moves(c) /\ pc[c] = "unmount"
          /\ pc'[c] = IF goes /\ call[c] \notin Naive THEN "uncount" ELSE "return"
      BY PcType, Zenon DEF unmountFails, HasPut, Go, Moves, Outside, PC
    <2>2. UNCHANGED <<layerStore, readers, writers>> /\ happened \subseteq happened' /\ GraphTypes' /\ MountTypes'
      BY KeepTypes, Zenon DEF unmountFails, graph
    <2>3. CallAt(c) /\ call'[c] = call[c] /\ rlstore[c] \in Object /\ ProcOf[c] \in Proc
      BY <2>1, Working, Zenon DEF StateInv, CallInv, Moves
    <2>s. IF goes
          THEN UNCHANGED <<mountsLock, replaced, touched, lw>>
          ELSE mountsLock' = None /\ replaced' = FALSE /\ touched' = TRUE /\ lw' = {ProcOf[c]}
      BY Zenon DEF unmountFails
    <2>4. LockTypes'
      BY <2>3, <2>s, Groups, Zenon DEF LockTypes, unmountFails
    <2>c. UNCHANGED <<count, MountCount>>
      BY Zenon DEF unmountFails
    <2>5. CountTypes' /\ ~replaced'
      BY <2>3, <2>s, <2>c, CopyType, Groups, Zenon DEF CountTypes
    <2>h. HistoryTypes'
      BY BoundAssumption, Groups DEF HistoryTypes, unmountFails, Event
    <2>6. CallAt(c)' /\ (IF goes THEN Critical(c)' = Critical(c) ELSE Critical(c) /\ ~Critical(c)')
      BY <2>1, <2>2, <2>3, Zenon DEF CallAt, Critical, Naive
    <2>7. LockInv'
      BY <2>1, <2>2, <2>s, <2>6, MovesLock, Zenon
    <2>8. ClientTypes' /\ CallInv' /\ ObjectInv'
      BY <2>1, <2>2, <2>5, <2>6, MovesState, Zenon
    <2> QED BY <2>2, <2>4, <2>5, <2>h, <2>7, <2>8, NextTypes, Zenon DEF StateInv
  <1> QED BY <1>1, <1>2, <1>3, <1>4, <1>5, <1>6, <1>7, <1>8, <1>9, <1>10, <1>11, <1>12, <1>13, <1>14, <1>15,
             <1>16, <1>17, <1>18, <1>19, <1>20, Zenon DEF Step

\* A process that ends gives up its locks and its layerStores.
LEMMA ExitState ==
  ASSUME OneGoroutine, StateInv, NEW p \in Proc, Exit(p)
  PROVE  StateInv'
  <1>1. /\ pc' = [c \in Client |-> IF c \in Of(p) THEN "idle" ELSE pc[c]]
        /\ call' = [c \in Client |-> IF c \in Of(p) THEN None ELSE call[c]]
        /\ rlstore' = [c \in Client |-> IF c \in Of(p) THEN None ELSE rlstore[c]]
        /\ layerStore' = [layerStore EXCEPT ![p] = None] /\ Collect(MountCount, ctr)
        /\ known' = known \ {p} /\ loaded' = loaded \cup {p}
        /\ mountsLock' = IF mountsLock \in Of(p) THEN None ELSE mountsLock
        /\ replaced' = (replaced /\ mountsLock \notin Of(p))
        /\ lw' = lw \ {p}
        /\ readers' = {g \in readers : ProcOf[g] # p} /\ writers' = {g \in writers : ProcOf[g] # p}
        /\ happened \subseteq happened' /\ happened' \subseteq Faults \cup {"forced", "skewed", "shared"}
        /\ UNCHANGED <<shutdown, count, touched, mounted, holds>>
    BY Zenon DEF Exit, L!Crash, StateInv, TypeOK
  <1>2. /\ graphLock' \in Client \cup {None}
        /\ loadMut' \in [Object -> Client \cup {None}] /\ locker' \in [Object -> Client \cup {None}]
    BY Zenon DEF Exit, StateInv, TypeOK
  <1>e. events' \in 0..MaxEvents
    BY BoundAssumption DEF Exit, StateInv, TypeOK, Event
  <1> USE DEF StateInv
  <1>3. MountCount' \in [Object -> Nat] /\ ctr' \in [Object -> Counter]
    BY <1>1, CollectFacts, Zenon DEF TypeOK
  <1>4. TypeOK'
    BY <1>1, <1>2, <1>3, <1>e, Zenon DEF TypeOK, PC
  <1>5. CallInv'
    BY <1>1, Zenon DEF TypeOK, CallInv, CallAt, Naive
  <1>6. ObjectInv'
    BY <1>1 DEF TypeOK, ObjectInv, Of
  <1>7. LockInv'
    BY <1>1, NoneAssumption DEF TypeOK, LockInv, Outside, Critical, Naive, Of
  <1> QED BY <1>4, <1>5, <1>6, <1>7, Zenon

LEMMA InitState == Init => StateInv
  <1> SUFFICES ASSUME Init PROVE StateInv
    BY Zenon
  <1>1. TypeOK
    <2>1. NewCounter \in Counter
      BY DEF NewCounter, Counter
    <2>2. /\ pc \in [Client -> PC] /\ call \in [Client -> Calls \cup {None}]
          /\ rlstore \in [Client -> Object \cup {None}] /\ layerStore \in [Proc -> Object \cup {None}]
          /\ loadMut \in [Object -> Client \cup {None}] /\ locker \in [Object -> Client \cup {None}]
          /\ MountCount \in [Object -> Nat] /\ ctr \in [Object -> Counter]
      BY <2>1, Zenon DEF Init, PC
    <2>3. /\ shutdown \in BOOLEAN /\ known = {} /\ loaded = Proc
          /\ readers = {} /\ writers = {} /\ graphLock = None /\ mountsLock = None
      BY Zenon DEF Init, L!Init
    <2>4. /\ count = 0 /\ touched \in BOOLEAN /\ lw = {} /\ replaced \in BOOLEAN
          /\ mounted = 0 /\ holds = 0 /\ happened = {} /\ events = 0
      BY Zenon DEF Init
    <2> QED BY <2>2, <2>3, <2>4, BoundAssumption DEF TypeOK
  <1>2. CallInv /\ ObjectInv
    BY NoneAssumption, ProcOfAssumption, Zenon DEF Init, CallInv, CallAt, ObjectInv
  <1>3. LockInv
    BY NoneAssumption, Zenon DEF Init, L!Init, LockInv, Outside, Critical
  <1> QED BY <1>1, <1>2, <1>3, Zenon DEF StateInv

-----------------------------------------------------------------------------
(* The copies of the count. *)

\* What one client does leaves the copies of others as they are, or makes them reload.
LEMMA FreshOthers ==
  ASSUME OneGoroutine, StateInv, FreshInv, NEW d \in Client,
         pc'[d] = pc[d], call'[d] = call[d], rlstore'[d] = rlstore[d],
         layerStore'[ProcOf[d]] = layerStore[ProcOf[d]],
         rlstore[d] \in Object => MountCount'[rlstore[d]] = MountCount[rlstore[d]],
         layerStore[ProcOf[d]] \in Object => MountCount'[layerStore[ProcOf[d]]] = MountCount[layerStore[ProcOf[d]]],
         \/ UNCHANGED <<count, touched>> /\ (ProcOf[d] \in lw' => ProcOf[d] \in lw)
         \/ ProcOf[d] \notin lw' /\ ~Critical(d) /\ ~Saving(d)
  PROVE  FreshAt(d)'
  <1>1. ProcOf[d] \in Proc /\ layerStore[ProcOf[d]] \in Object \cup {None}
    BY ProcOfAssumption, StoreTypes, Zenon
  <1>2. pc[d] # "idle" => rlstore[d] \in Object
    BY Working, Zenon
  <1>3. Critical(d) => pc[d] # "idle"
    BY Zenon DEF Critical
  <1>4. FreshAt(d) /\ (Critical(d)' <=> Critical(d)) /\ (Saving(d)' <=> Saving(d)) /\ (Saving(d) => pc[d] # "idle")
    BY Zenon DEF FreshInv, Critical, Saving
  <1> QED BY <1>1, <1>2, <1>3, <1>4 DEF FreshAt

\* So FreshInv holds after a step if it does for the client that makes it.
LEMMA FreshAlone ==
  ASSUME OneGoroutine, StateInv, FreshInv, NEW c \in Client, pc[c] # "idle",
         \A d \in Client : d # c => pc'[d] = pc[d], UNCHANGED <<call, rlstore, layerStore>>,
         \A o \in Object : o # rlstore[c] => MountCount'[o] = MountCount[o],
         \/ UNCHANGED <<count, touched>> /\ lw' \subseteq lw \cup {ProcOf[c]}
         \/ (Critical(c) \/ mountsLock = None) /\ pc[c] \notin Outside /\ lw' = {ProcOf[c]},
         FreshAt(c)'
  PROVE  FreshInv'
  <1> SUFFICES ASSUME NEW d \in Client, d # c PROVE FreshAt(d)'
    BY Zenon DEF FreshInv
  <1>0. rlstore[c] \in Object /\ ProcOf[c] \in Proc
    BY Working, Zenon
  <1>1. rlstore[c] # rlstore[d] /\ rlstore[c] # layerStore[ProcOf[d]] /\ ProcOf[c] # ProcOf[d] /\ ProcOf[d] \in Proc
    BY <1>0, ProcOfAssumption, NoneAssumption DEF StateInv, ObjectInv, OneGoroutine
  <1>2. /\ Critical(c) \/ mountsLock = None => ~Critical(d)
        /\ pc[c] \notin Outside => ~Saving(d)
    <2>1. Critical(c) \/ mountsLock = None => ~Critical(d)
      BY NoneAssumption, Zenon DEF StateInv, LockInv
    <2>2. ASSUME Saving(d), pc[c] \notin Outside PROVE FALSE
      <3>1. d \in writers
        BY <2>2, Zenon DEF Saving, Outside, Write, StateInv, LockInv
      <3>2. writers = {d} /\ readers = {}
        BY <3>1, Zenon DEF StateInv, LockInv
      <3>3. c \in readers \/ c \in writers
        BY <2>2, Zenon DEF StateInv, LockInv
      <3> QED BY <3>2, <3>3, Zenon
    <2> QED BY <2>1, <2>2, Zenon
  <1>3. \/ UNCHANGED <<count, touched>> /\ (ProcOf[d] \in lw' => ProcOf[d] \in lw)
        \/ ProcOf[d] \notin lw' /\ ~Critical(d) /\ ~Saving(d)
    BY <1>1, <1>2, Zenon
  <1>4. /\ rlstore[d] \in Object => MountCount'[rlstore[d]] = MountCount[rlstore[d]]
        /\ layerStore[ProcOf[d]] \in Object => MountCount'[layerStore[ProcOf[d]]] = MountCount[layerStore[ProcOf[d]]]
    BY <1>1, Zenon
  <1> QED BY <1>3, <1>4, FreshOthers, Zenon

\* A client keeps what it knows as long as it does not touch the count, ...
LEMMA FreshKept ==
  ASSUME FreshInv, NEW c \in Client, pc[c] \notin {"idle", "Load", "loadMounts"}, pc'[c] \notin {"idle", "ready"},
         Critical(c)' <=> Critical(c), UNCHANGED <<call, rlstore, count, touched, lw, MountCount>>
  PROVE  FreshAt(c)'
  BY Zenon DEF FreshInv, FreshAt, Saving

\* ... and when it takes the count over.
LEMMA FreshCopy ==
  ASSUME NEW c \in Client, pc'[c] # "idle", MountCount'[rlstore'[c]] = count'
  PROVE  FreshAt(c)'
  BY Zenon DEF FreshAt

\* Whoever enters mountpoints.lock has the count in mountpoints.json, read now or known already.
LEMMA CurrentCount ==
  ASSUME StateInv, FreshInv, NEW c \in Client, pc[c] \in {"ready", "open"}
  PROVE  Current(c) = count
  <1>1. FreshAt(c) /\ ~Critical(c)
    BY Zenon DEF FreshInv, Critical
  <1> QED BY <1>1, Zenon DEF Current, Modified, FreshAt

\* A new layerStore has read the count.
LEMMA LayerStoreFresh ==
  ASSUME OneGoroutine, StateInv, FreshInv, NEW c \in Client, NEW m \in Call, LayerStore(c, m)
  PROVE  FreshInv'
  <1>0. ProcOf[c] \in Proc /\ pc[c] = "idle"
    BY ProcOfAssumption, Zenon DEF LayerStore
  <1>a. /\ pc'[c] \in {"graphLock", "lock"} /\ \A d \in Client : d # c => pc'[d] = pc[d] /\ call'[d] = call[d]
        /\ UNCHANGED <<count, touched, lw>>
    BY Zenon DEF LayerStore, Go, StateInv, TypeOK
  <1>1. PICK o \in Object :
            /\ rlstore' = [rlstore EXCEPT ![c] = o] /\ layerStore' = [layerStore EXCEPT ![ProcOf[c]] = o]
            /\ \/ layerStore[ProcOf[c]] = o /\ UNCHANGED <<MountCount, ctr>>
               \/ /\ \A q \in Proc \ {ProcOf[c]} : layerStore[q] # o
                  /\ \A d \in Client : rlstore[d] # o
                  /\ mountsLock = None
                  /\ Collect([MountCount EXCEPT ![o] = count], [ctr EXCEPT ![o] = NewCounter])
    BY LayerStoreFacts, Zenon DEF StateInv
  <1>b. /\ rlstore'[c] = o /\ \A d \in Client : d # c => rlstore'[d] = rlstore[d]
        /\ layerStore'[ProcOf[c]] = o /\ \A q \in Proc : q # ProcOf[c] => layerStore'[q] = layerStore[q]
    BY <1>0, <1>1, Zenon DEF StateInv, TypeOK
  <1>2. CASE layerStore[ProcOf[c]] = o /\ UNCHANGED <<MountCount, ctr>>
    <2>1. ASSUME NEW d \in Client, d # c PROVE FreshAt(d)'
      <3>1. ProcOf[c] # ProcOf[d] /\ ProcOf[d] \in Proc
        BY <2>1, ProcOfAssumption, Zenon DEF OneGoroutine
      <3> QED BY <3>1, <1>2, <1>a, <1>b, <2>1, FreshOthers, Zenon
    <2>2. FreshAt(c)'
      BY <1>0, <1>a, <1>b, <1>2, NoneAssumption, Zenon DEF FreshInv, FreshAt, Critical, Saving
    <2> QED BY <2>1, <2>2, Zenon DEF FreshInv
  <1>3. CASE /\ \A q \in Proc \ {ProcOf[c]} : layerStore[q] # o
             /\ \A d \in Client : rlstore[d] # o
             /\ Collect([MountCount EXCEPT ![o] = count], [ctr EXCEPT ![o] = NewCounter])
    <2> DEFINE copies == [MountCount EXCEPT ![o] = count]
    <2>0. copies \in [Object -> Nat] /\ [ctr EXCEPT ![o] = NewCounter] \in [Object -> Counter]
      BY DEF StateInv, TypeOK, NewCounter, Counter
    <2>a. copies[o] = count /\ \A x \in Object : x # o => copies[x] = MountCount[x]
      BY Zenon DEF StateInv, TypeOK
    <2> HIDE DEF copies
    <2>b. /\ \A p \in Proc : layerStore'[p] \in Object => MountCount'[layerStore'[p]] = copies[layerStore'[p]]
          /\ \A d \in Client : rlstore'[d] \in Object => MountCount'[rlstore'[d]] = copies[rlstore'[d]]
      BY <1>3, <2>0, CollectFacts, Zenon DEF copies
    <2>1. ASSUME NEW d \in Client, d # c PROVE FreshAt(d)'
      <3>1. ProcOf[c] # ProcOf[d] /\ ProcOf[d] \in Proc
        BY <2>1, ProcOfAssumption, Zenon DEF OneGoroutine
      <3>2. rlstore[d] # o /\ layerStore[ProcOf[d]] # o
        BY <1>3, <3>1, Zenon
      <3>3. /\ rlstore[d] \in Object => MountCount'[rlstore[d]] = MountCount[rlstore[d]]
            /\ layerStore[ProcOf[d]] \in Object => MountCount'[layerStore[ProcOf[d]]] = MountCount[layerStore[ProcOf[d]]]
        BY <3>1, <3>2, <2>a, <2>b, <1>b, <2>1
      <3> QED BY <3>1, <3>3, <1>a, <1>b, <2>1, FreshOthers, Zenon
    <2>2. FreshAt(c)'
      BY <1>a, <1>b, <2>a, <2>b, Zenon DEF FreshAt, Critical, Saving
    <2> QED BY <2>1, <2>2, Zenon DEF FreshInv
  <1> QED BY <1>1, <1>2, <1>3, Zenon

\* Dropping a process's layerStore, or forgetting unused ones, leaves the copies that are in use.
LEMMA CollectFresh ==
  ASSUME OneGoroutine, StateInv, FreshInv, NEW c \in Client, NEW copies \in [Object -> Nat], Collect(copies, ctr),
         \A o \in Object : o # rlstore[c] => copies[o] = MountCount[o], rlstore[c] \in Object,
         \A d \in Client : d # c => pc'[d] = pc[d] /\ call'[d] = call[d] /\ rlstore'[d] = rlstore[d],
         \A q \in Proc : q # ProcOf[c] => layerStore'[q] = layerStore[q],
         UNCHANGED <<count, touched>>, \A q \in Proc : q # ProcOf[c] => (q \in lw' => q \in lw)
  PROVE  \A d \in Client : d # c => FreshAt(d)'
  <1> SUFFICES ASSUME NEW d \in Client, d # c PROVE FreshAt(d)'
    BY Zenon
  <1>1. ProcOf[c] # ProcOf[d] /\ ProcOf[d] \in Proc /\ ProcOf[c] \in Proc
    BY ProcOfAssumption, Zenon DEF OneGoroutine
  <1>2. rlstore[d] # rlstore[c] /\ layerStore[ProcOf[d]] # rlstore[c]
    BY <1>1, NoneAssumption, Zenon DEF StateInv, ObjectInv
  <1>3. /\ layerStore'[ProcOf[d]] \in Object => MountCount'[layerStore'[ProcOf[d]]] = copies[layerStore'[ProcOf[d]]]
        /\ rlstore'[d] \in Object => MountCount'[rlstore'[d]] = copies[rlstore'[d]]
    BY <1>1, CollectFacts DEF StateInv, TypeOK
  <1>4. /\ rlstore[d] \in Object => MountCount'[rlstore[d]] = MountCount[rlstore[d]]
        /\ layerStore[ProcOf[d]] \in Object => MountCount'[layerStore[ProcOf[d]]] = MountCount[layerStore[ProcOf[d]]]
    BY <1>1, <1>2, <1>3
  <1> QED BY <1>1, <1>4, FreshOthers, Zenon

\* Every step of a call keeps the copies that a process relies on as fresh as FreshInv says.
LEMMA StepFresh ==
  ASSUME OneGoroutine, StateInv, FreshInv, StateInv', "skewed" \notin happened', NEW c \in Client, Step(c)
  PROVE  FreshInv'
  <1>1. CASE Lock_graphLock(c)
    <2> USE <1>1
    <2>0. ProcOf[c] \in Proc /\ rlstore[c] \in Object /\ MountCount \in [Object -> Nat] /\ ctr \in [Object -> Counter]
      BY Working, Zenon DEF Lock_graphLock, StateInv, TypeOK
    <2>1. /\ pc[c] = "graphLock" /\ pc'[c] = "lock" /\ rlstore' = rlstore /\ call' = call
          /\ \A d \in Client : d # c => pc'[d] = pc[d]
          /\ UNCHANGED <<count, touched, lw>> /\ Collect(MountCount, ctr)
      BY Zenon DEF Lock_graphLock, Go, StateInv, TypeOK
    <2>2. \A q \in Proc : q # ProcOf[c] => layerStore'[q] = layerStore[q]
      BY DropFacts, Zenon DEF Lock_graphLock, StateInv, TypeOK
    <2>3. \A d \in Client : d # c => FreshAt(d)'
      BY <2>0, <2>1, <2>2, CollectFresh, Zenon
    <2>4. MountCount'[rlstore[c]] = MountCount[rlstore[c]]
      BY <2>0, <2>1, CollectFacts, Zenon
    <2>5. FreshAt(c)'
      BY <2>1, <2>4, Zenon DEF FreshInv, FreshAt, Critical, Saving
    <2> QED BY <2>3, <2>5, Zenon DEF FreshInv
  <1>2. CASE Lock(c)
    <2> USE <1>2
    <2>1. /\ pc[c] = "lock" /\ pc'[c] = "reload" /\ \A d \in Client : d # c => pc'[d] = pc[d]
          /\ UNCHANGED <<call, rlstore, layerStore, count, touched, lw, MountCount>>
      BY PcType, Zenon DEF Lock, Go, graph, counts
    <2>2. FreshAt(c)'
      BY <2>1, FreshKept, Zenon DEF Critical
    <2> QED BY <2>1, <2>2, FreshAlone, Zenon
  <1>3. ASSUME NEW changed \in BOOLEAN, ReloadIfChanged(c, changed) PROVE FreshInv'
    <2> USE <1>3
    <2>1. /\ pc[c] = "reload" /\ \A d \in Client : d # c => pc'[d] = pc[d]
          /\ UNCHANGED <<call, rlstore, layerStore, count, touched, MountCount>> /\ lw' \subseteq lw \cup {ProcOf[c]}
          /\ pc'[c] = "Load" \/ (pc'[c] = "ready" /\ touched /\ ProcOf[c] \in lw)
      BY PcType, Zenon DEF ReloadIfChanged, Recorded, Modified, Go, graph
    <2>2. FreshAt(c)'
      BY <2>1, Zenon DEF FreshInv, FreshAt, Critical, Saving
    <2> QED BY <2>1, <2>2, FreshAlone, Zenon
  <1>4. CASE Load(c)
    <2> USE <1>4
    <2>1. /\ pc[c] = "Load" /\ pc'[c] = "loadMounts" /\ \A d \in Client : d # c => pc'[d] = pc[d]
          /\ UNCHANGED <<call, rlstore, layerStore, count, touched, lw>>
      BY PcType, Zenon DEF Load, Go, graph
    <2>2. \A o \in Object : o # rlstore[c] => MountCount'[o] = MountCount[o]
      BY CopyType, Zenon DEF Load
    <2>3. FreshAt(c)'
      BY <2>1, Zenon DEF FreshAt, Critical, Saving
    <2> QED BY <2>1, <2>2, <2>3, FreshAlone, Zenon
  <1>5. CASE loadMounts(c)
    <2> USE <1>5
    <2>1. /\ pc[c] = "loadMounts" /\ pc'[c] = "ready" /\ \A d \in Client : d # c => pc'[d] = pc[d]
          /\ UNCHANGED <<call, rlstore, layerStore, count, touched, lw>>
      BY PcType, Zenon DEF loadMounts, Go, graph
    <2>2. MountCount'[rlstore[c]] = count /\ \A o \in Object : o # rlstore[c] => MountCount'[o] = MountCount[o]
      BY <2>1, CopyType, Working, Zenon DEF loadMounts
    <2> QED BY <2>1, <2>2, FreshCopy, FreshAlone, Zenon
  <1>6. CASE Mounted(c)
    <2> USE <1>6
    <2>1. /\ pc[c] = "ready" /\ pc'[c] = "return" /\ \A d \in Client : d # c => pc'[d] = pc[d]
          /\ UNCHANGED <<call, rlstore, layerStore, count, touched>> /\ lw' \subseteq lw \cup {ProcOf[c]}
      BY PcType, Zenon DEF Mounted, Recorded, Go, graph
    <2>2. MountCount'[rlstore[c]] = count /\ \A o \in Object : o # rlstore[c] => MountCount'[o] = MountCount[o]
      BY <2>1, CopyType, Working, CurrentCount, Zenon DEF Mounted
    <2> QED BY <2>1, <2>2, FreshCopy, FreshAlone, Zenon
  <1>7. CASE Mount(c)
    <2> USE <1>7
    <2> DEFINE copies == [MountCount EXCEPT ![rlstore[c]] = Current(c)]
    <2>0. /\ ProcOf[c] \in Proc /\ rlstore[c] \in Object
          /\ MountCount \in [Object -> Nat] /\ ctr \in [Object -> Counter] /\ count \in Nat
      BY Working, Zenon DEF Mount, StateInv, TypeOK
    <2>1. /\ pc[c] = "ready" /\ pc'[c] \in {"count", "Get"} /\ rlstore' = rlstore /\ call' = call
          /\ \A d \in Client : d # c => pc'[d] = pc[d]
          /\ UNCHANGED <<count, touched>> /\ Collect(copies, ctr)
          /\ \A q \in Proc : q # ProcOf[c] => (q \in lw' => q \in lw)
      BY Zenon DEF Mount, Go, Recorded, StateInv, TypeOK
    <2>2. \A q \in Proc : q # ProcOf[c] => layerStore'[q] = layerStore[q]
      BY DropFacts, Zenon DEF Mount, StateInv, TypeOK
    <2>3. Current(c) = count
      BY <2>1, CurrentCount, Zenon
    <2>4. /\ copies \in [Object -> Nat] /\ copies[rlstore[c]] = count
          /\ \A o \in Object : o # rlstore[c] => copies[o] = MountCount[o]
      BY <2>0, <2>3, Zenon
    <2> HIDE DEF copies
    <2>5. \A d \in Client : d # c => FreshAt(d)'
      BY <2>0, <2>1, <2>2, <2>4, CollectFresh, Zenon
    <2>6. MountCount'[rlstore[c]] = count
      BY <2>0, <2>1, <2>4, CollectFacts, Zenon
    <2>7. FreshAt(c)'
      BY <2>1, <2>6, Zenon DEF FreshAt, Critical, Saving
    <2> QED BY <2>5, <2>7, Zenon DEF FreshInv
  <1>8. CASE IncrementMountCount(c)
    <2> USE <1>8
    <2>1. /\ pc[c] = "count" /\ pc'[c] \in {"return", "open"} /\ \A d \in Client : d # c => pc'[d] = pc[d]
          /\ UNCHANGED <<call, rlstore, layerStore>>
      BY PcType, Zenon DEF IncrementMountCount, Opened, Go, graph
    <2>2. /\ MountCount'[rlstore[c]] = count' /\ lw' = {ProcOf[c]}
          /\ \A o \in Object : o # rlstore[c] => MountCount'[o] = MountCount[o]
      <3> DEFINE n == MountCount[rlstore[c]] + 1
      <3>1. MountCount[rlstore[c]] \in Nat
        BY <2>1, Working, Zenon
      <3>2. n \in Nat /\ saveMounts(c, n)
        BY <3>1 DEF IncrementMountCount
      <3> HIDE DEF n
      <3> QED BY <2>1, <3>2, Saved, Zenon
    <2>3. Critical(c) /\ pc[c] \notin Outside
      BY <2>1, Zenon DEF Critical, Outside
    <2> QED BY <2>1, <2>2, <2>3, FreshCopy, FreshAlone, Zenon
  <1>9. CASE Unmount(c)
    <2> USE <1>9
    <2>1. /\ pc[c] \in {"ready", "open"} /\ pc'[c] \in {"Put", "uncount"} /\ \A d \in Client : d # c => pc'[d] = pc[d]
          /\ UNCHANGED <<call, rlstore, layerStore, count, touched>> /\ lw' \subseteq lw \cup {ProcOf[c]}
      BY PcType, Zenon DEF Unmount, Recorded, Go, graph
    <2>2. MountCount'[rlstore[c]] = count /\ \A o \in Object : o # rlstore[c] => MountCount'[o] = MountCount[o]
      BY <2>1, CopyType, Working, CurrentCount, Zenon DEF Unmount
    <2> QED BY <2>1, <2>2, FreshCopy, FreshAlone, Zenon
  <1>10. CASE DecrementMountCount(c)
    <2> USE <1>10
    <2>1. /\ pc[c] = "uncount" /\ pc'[c] \in {"return", "loop"} /\ \A d \in Client : d # c => pc'[d] = pc[d]
          /\ UNCHANGED <<call, rlstore, layerStore>>
      BY PcType, Zenon DEF DecrementMountCount, Go, graph
    <2>2. /\ MountCount'[rlstore[c]] = count' /\ lw' = {ProcOf[c]}
          /\ \A o \in Object : o # rlstore[c] => MountCount'[o] = MountCount[o]
      <3> DEFINE n == IF MountCount[rlstore[c]] > 1 THEN MountCount[rlstore[c]] - 1 ELSE 0
      <3>1. MountCount[rlstore[c]] \in Nat
        BY <2>1, Working, Zenon
      <3>2. n \in Nat /\ saveMounts(c, n)
        BY <3>1 DEF DecrementMountCount
      <3> HIDE DEF n
      <3> QED BY <2>1, <3>2, Saved, Zenon
    <2>3. Critical(c) /\ pc[c] \notin Outside
      BY <2>1, Zenon DEF Critical, Outside
    <2> QED BY <2>1, <2>2, <2>3, FreshCopy, FreshAlone, Zenon
  <1>11. CASE Get(c)
    <2> USE <1>11
    <2>1. /\ pc[c] \in {"Get", "ready"} /\ pc'[c] \in {"mount", "count", "open", "return"}
          /\ \A d \in Client : d # c => pc'[d] = pc[d]
          /\ UNCHANGED <<call, rlstore, layerStore, mountsLock, count, touched, lw, MountCount>>
      BY PcType, Zenon DEF Get, Got, Opened, Go, graph, counts
    <2>2. Critical(c)' <=> Critical(c)
      BY <2>1, Zenon DEF StateInv, LockInv
    <2>3. FreshAt(c)'
      BY <2>1, <2>2, FreshKept, Zenon
    <2> QED BY <2>1, <2>3, FreshAlone, Zenon
  <1>12. CASE mountFunc(c)
    <2> USE <1>12
    <2>1. /\ pc[c] = "mount" /\ pc'[c] \in {"count", "open", "return"}
          /\ \A d \in Client : d # c => pc'[d] = pc[d]
          /\ UNCHANGED <<call, rlstore, layerStore, mountsLock, count, touched, lw, MountCount>>
      BY PcType, Zenon DEF mountFunc, Got, Opened, Go, graph, counts
    <2>2. Critical(c)' <=> Critical(c)
      BY <2>1, Zenon DEF StateInv, LockInv
    <2>3. FreshAt(c)'
      BY <2>1, <2>2, FreshKept, Zenon
    <2> QED BY <2>1, <2>3, FreshAlone, Zenon
  <1>13. CASE mountFails(c)
    <2> USE <1>13
    <2>1. /\ pc[c] = "mount" /\ pc'[c] = "return" /\ \A d \in Client : d # c => pc'[d] = pc[d]
          /\ UNCHANGED <<call, rlstore, layerStore, count, MountCount>>
          /\ IF mountsLock = c THEN lw' = {ProcOf[c]} ELSE UNCHANGED <<touched, lw>>
      BY PcType, Zenon DEF mountFails, Go, graph
    <2>2. FreshAt(c) /\ (mountsLock = c <=> Critical(c)) /\ (Critical(c) => call[c] # "Shutdown") /\ pc[c] \notin Outside
      BY <2>1, Zenon DEF FreshInv, StateInv, LockInv, CallInv, CallAt, Naive, Critical, Outside
    <2>3. FreshAt(c)'
      BY <2>1, <2>2, Zenon DEF FreshAt, Critical, Saving
    <2> QED BY <2>1, <2>2, <2>3, FreshAlone, Zenon
  <1>14. CASE Put(c)
    <2> USE <1>14
    <2>1. /\ pc[c] \in {"Put", "open"} /\ pc'[c] \in {"unmount", "uncount", "return"}
          /\ \A d \in Client : d # c => pc'[d] = pc[d]
          /\ UNCHANGED <<call, rlstore, layerStore, mountsLock, count, touched, lw, MountCount>>
      BY PcType, Zenon DEF Put, HasPut, Go, graph, counts
    <2>2. Critical(c)' <=> Critical(c)
      BY <2>1, Zenon DEF StateInv, LockInv
    <2>3. FreshAt(c)'
      BY <2>1, <2>2, FreshKept, Zenon
    <2> QED BY <2>1, <2>3, FreshAlone, Zenon
  <1>15. CASE unmountFunc(c)
    <2> USE <1>15
    <2>1. /\ pc[c] = "unmount" /\ pc'[c] \in {"uncount", "return"}
          /\ \A d \in Client : d # c => pc'[d] = pc[d]
          /\ UNCHANGED <<call, rlstore, layerStore, mountsLock, count, touched, lw, MountCount>>
      BY PcType, Zenon DEF unmountFunc, HasPut, Go, graph, counts
    <2>2. Critical(c)' <=> Critical(c)
      BY <2>1, Zenon DEF StateInv, LockInv
    <2>3. FreshAt(c)'
      BY <2>1, <2>2, FreshKept, Zenon
    <2> QED BY <2>1, <2>3, FreshAlone, Zenon
  <1>16. ASSUME NEW force \in BOOLEAN, Shutdown(c, force) PROVE FreshInv'
    <2> USE <1>16
    <2>1. /\ pc[c] = "ready" /\ pc'[c] \in {"loop", "return"}
          /\ \A d \in Client : d # c => pc'[d] = pc[d]
          /\ UNCHANGED <<call, rlstore, layerStore, count, touched, lw, MountCount>>
      BY PcType, Zenon DEF Shutdown, Go, counts
    <2>2. FreshAt(c)'
      BY <2>1, FreshKept, Zenon DEF Critical
    <2> QED BY <2>1, <2>2, FreshAlone, Zenon
  <1>17. CASE UnmountForced(c)
    <2> USE <1>17
    <2>1. /\ pc[c] = "loop" /\ pc'[c] = "Put" /\ \A d \in Client : d # c => pc'[d] = pc[d]
          /\ UNCHANGED <<call, rlstore, layerStore, count, touched, lw>>
      BY PcType, Zenon DEF UnmountForced, Go, graph
    <2>2. \A o \in Object : o # rlstore[c] => MountCount'[o] = MountCount[o]
      BY CopyType, Zenon DEF UnmountForced
    <2>3. call[c] = "Shutdown"
      BY <2>1, Zenon DEF StateInv, CallInv, CallAt
    <2>4. FreshAt(c)'
      BY <2>1, <2>3, Zenon DEF FreshAt, Critical, Saving
    <2> QED BY <2>1, <2>2, <2>4, FreshAlone, Zenon
  <1>18. CASE Return(c)
    <2> USE <1>18
    <2>0. ProcOf[c] \in Proc /\ rlstore[c] \in Object /\ MountCount \in [Object -> Nat] /\ ctr \in [Object -> Counter]
      BY Working, Zenon DEF Return, StateInv, TypeOK
    <2>1. /\ pc[c] = "return" /\ pc'[c] = "idle"
          /\ \A d \in Client : d # c => pc'[d] = pc[d] /\ call'[d] = call[d] /\ rlstore'[d] = rlstore[d]
          /\ UNCHANGED <<count, touched, lw, layerStore>> /\ Collect(MountCount, ctr)
      BY Zenon DEF Return, Go, StateInv, TypeOK, graph
    <2>3. \A d \in Client : d # c => FreshAt(d)'
      BY <2>0, <2>1, CollectFresh, Zenon
    <2>4. layerStore[ProcOf[c]] \in Object => MountCount'[layerStore[ProcOf[c]]] = MountCount[layerStore[ProcOf[c]]]
      BY <2>0, <2>1, CollectFacts, Zenon
    <2>5. layerStore[ProcOf[c]] \in {None, rlstore[c]}
      BY <2>0, NoneAssumption, Zenon DEF StateInv, ObjectInv
    <2>6. FreshAt(c)'
      BY <2>0, <2>1, <2>4, <2>5, Zenon DEF FreshInv, FreshAt, Critical, Saving
    <2> QED BY <2>3, <2>6, Zenon DEF FreshInv
  <1>19. CASE Save(c)
    <2> USE <1>19
    <2>1. /\ pc[c] = "ready" /\ call[c] = "Save" /\ pc'[c] = "return" /\ mountsLock = None
          /\ \A d \in Client : d # c => pc'[d] = pc[d]
          /\ UNCHANGED <<call, rlstore, layerStore>>
      BY PcType, Zenon DEF Save, Go, graph
    <2>2. /\ MountCount'[rlstore[c]] = count' /\ lw' = {ProcOf[c]}
          /\ \A o \in Object : o # rlstore[c] => MountCount'[o] = MountCount[o]
      <3>1. MountCount[rlstore[c]] \in Nat /\ saveMounts(c, MountCount[rlstore[c]])
        BY <2>1, Working, Zenon DEF Save
      <3> QED BY <2>1, <3>1, Saved, Zenon
    <2>3. pc[c] \notin Outside
      BY <2>1, Zenon DEF Outside
    <2> QED BY <2>1, <2>2, <2>3, FreshCopy, FreshAlone, Zenon
  <1>20. ASSUME NEW logged \in BOOLEAN, unmountFails(c, logged) PROVE FreshInv'
    <2> USE <1>20
    <2>1. /\ pc[c] = "unmount" /\ pc'[c] \in {"uncount", "return"}
          /\ \A d \in Client : d # c => pc'[d] = pc[d]
          /\ UNCHANGED <<call, rlstore, layerStore, count, MountCount>>
      BY PcType, Zenon DEF unmountFails, HasPut, Go, graph
    <2>2. CASE logged \/ call[c] \in Naive
      <3>1. UNCHANGED <<mountsLock, touched, lw>>
        BY <2>2, Zenon DEF unmountFails
      <3>2. Critical(c)' <=> Critical(c)
        BY <3>1, Zenon DEF StateInv, LockInv
      <3>3. FreshAt(c)'
        BY <2>1, <3>1, <3>2, FreshKept, Zenon
      <3> QED BY <2>1, <3>1, <3>3, FreshAlone, Zenon
    <2>3. CASE ~logged /\ call[c] \notin Naive
      <3>1. lw' = {ProcOf[c]} /\ pc'[c] = "return" /\ call[c] # "Shutdown"
        BY <2>3, PcType, Zenon DEF unmountFails, Go
      <3>2. FreshAt(c) /\ Critical(c) /\ pc[c] \notin Outside
        BY <2>1, <2>3, Zenon DEF FreshInv, Critical, Outside
      <3>3. FreshAt(c)'
        BY <2>1, <3>1, <3>2, Zenon DEF FreshAt, Critical, Saving
      <3> QED BY <2>1, <3>1, <3>2, <3>3, FreshAlone, Zenon
    <2> QED BY <2>2, <2>3, Zenon
  <1> QED BY <1>1, <1>2, <1>3, <1>4, <1>5, <1>6, <1>7, <1>8, <1>9, <1>10, <1>11, <1>12, <1>13, <1>14, <1>15,
             <1>16, <1>17, <1>18, <1>19, <1>20, Zenon DEF Step

\* The next process knows no writer of mountpoints.json.
LEMMA ExitFresh ==
  ASSUME OneGoroutine, StateInv, FreshInv, NEW p \in Proc, Exit(p)
  PROVE  FreshInv'
  <1>0. MountCount \in [Object -> Nat] /\ ctr \in [Object -> Counter]
    BY Zenon DEF StateInv, TypeOK
  <1>1. /\ \A d \in Client : ProcOf[d] # p => pc'[d] = pc[d] /\ call'[d] = call[d] /\ rlstore'[d] = rlstore[d]
        /\ \A d \in Client : ProcOf[d] = p => pc'[d] = "idle"
        /\ \A q \in Proc : q # p => layerStore'[q] = layerStore[q]
        /\ UNCHANGED <<count, touched>> /\ Collect(MountCount, ctr) /\ lw' = lw \ {p}
    BY Zenon DEF Exit, StateInv, TypeOK, Of
  <1>2. ASSUME NEW d \in Client PROVE FreshAt(d)'
    <2>1. CASE ProcOf[d] = p
      BY <2>1, <1>1, Zenon DEF FreshAt, Critical, Saving
    <2>2. CASE ProcOf[d] # p
      <3>1. ProcOf[d] \in Proc
        BY ProcOfAssumption, Zenon
      <3>2. /\ rlstore[d] \in Object => MountCount'[rlstore[d]] = MountCount[rlstore[d]]
            /\ layerStore[ProcOf[d]] \in Object => MountCount'[layerStore[ProcOf[d]]] = MountCount[layerStore[ProcOf[d]]]
        BY <1>0, <1>1, <2>2, <3>1, CollectFacts
      <3> QED BY <1>1, <2>2, <3>1, <3>2, FreshOthers, Zenon
    <2> QED BY <2>1, <2>2, Zenon
  <1> QED BY <1>2, Zenon DEF FreshInv

LEMMA InitFresh == Init => FreshInv
  BY Zenon DEF Init, FreshInv, FreshAt, Critical, Saving

-----------------------------------------------------------------------------
(* The count. *)

LEMMA CountingMember ==
  ASSUME NEW c \in Client
  PROVE  c \in Counting <=> \/ call[c] = "DiffTarSplit" /\ pc[c] \in {"open", "Put", "unmount", "uncount"}
                            \/ call[c] = "Unmount" /\ pc[c] # "return"
  BY Zenon DEF Counting, TarSplitReaders, Leaving

LEMMA CountingMemberNext ==
  ASSUME NEW c \in Client
  PROVE  c \in Counting' <=> \/ call'[c] = "DiffTarSplit" /\ pc'[c] \in {"open", "Put", "unmount", "uncount"}
                             \/ call'[c] = "Unmount" /\ pc'[c] # "return"
  BY Zenon DEF Counting, TarSplitReaders, Leaving

\* A step of one client changes its own membership only.
LEMMA CountingOthers ==
  ASSUME NEW c \in Client, \A d \in Client : d # c => pc'[d] = pc[d] /\ call'[d] = call[d]
  PROVE  /\ (c \in Counting' <=> c \in Counting) => Counting' = Counting
         /\ c \in Counting' => Counting' = Counting \cup {c}
         /\ c \notin Counting' => Counting' = Counting \ {c}
  <1>1. \A d \in Client : d # c => (d \in Counting' <=> d \in Counting)
    BY CountingMember, CountingMemberNext, Zenon
  <1>2. Counting \subseteq Client /\ Counting' \subseteq Client
    BY Zenon DEF Counting, TarSplitReaders, Leaving
  <1> QED BY <1>1, <1>2

\* What adding and taking away a client does to the size of Counting.
LEMMA CountingSize ==
  ASSUME CountInv, NEW c
  PROVE  /\ Cardinality(Counting) \in Nat
         /\ IsFiniteSet(Counting \cup {c}) /\ IsFiniteSet(Counting \ {c})
         /\ c \notin Counting => Cardinality(Counting \cup {c}) = Cardinality(Counting) + 1
         /\ c \in Counting => Cardinality(Counting \ {c}) = Cardinality(Counting) - 1 /\ Cardinality(Counting) > 0
  <1>1. IsFiniteSet(Counting)
    BY Zenon DEF CountInv
  <1>2. Cardinality(Counting) \in Nat
    BY <1>1, FS_CardinalityType, Zenon
  <1>3. /\ IsFiniteSet(Counting \cup {c})
        /\ (c \notin Counting => Cardinality(Counting \cup {c}) = Cardinality(Counting) + 1)
    BY <1>1, FS_AddElement, Zenon
  <1>4. IsFiniteSet(Counting \ {c}) /\ (c \in Counting => Cardinality(Counting \ {c}) = Cardinality(Counting) - 1)
    BY <1>1, FS_RemoveElement, Zenon
  <1>5. c \in Counting => Cardinality(Counting) # 0
    BY <1>1, FS_EmptySet, Zenon
  <1> QED BY <1>2, <1>3, <1>4, <1>5

LEMMA KeepCounted ==
  ASSUME CountInv, UNCHANGED <<count, holds>>, Counting' = Counting, happened \subseteq happened'
  PROVE  CountInv'
  BY Zenon DEF CountInv

\* A client that calls Unmount is no longer a holder, but still counted.
LEMMA LayerStoreCounted ==
  ASSUME StateInv, CountInv, NEW c \in Client, NEW m \in Call, LayerStore(c, m)
  PROVE  CountInv'
  <1>1. /\ pc[c] = "idle" /\ pc'[c] \in {"graphLock", "lock"} /\ call'[c] = m /\ UNCHANGED <<count, happened>>
        /\ \A d \in Client : d # c => pc'[d] = pc[d] /\ call'[d] = call[d]
    BY Zenon DEF LayerStore, Go, StateInv, TypeOK
  <1>2. IF m = "Unmount" THEN holds > 0 /\ holds' = holds - 1 ELSE UNCHANGED holds
    BY Zenon DEF LayerStore
  <1>3. c \notin Counting
    BY <1>1, CountingMember, NoneAssumption, Zenon DEF StateInv, CallInv, CallAt, Calls
  <1>4. CASE m = "Unmount"
    <2>1. Counting' = Counting \cup {c}
      BY <1>1, <1>4, CountingMemberNext, CountingOthers, Zenon
    <2>2. holds \in Nat /\ count \in Nat
      BY Zenon DEF StateInv, TypeOK
    <2>3. Cardinality(Counting) \in Nat /\ IsFiniteSet(Counting') /\ Cardinality(Counting') = Cardinality(Counting) + 1
      BY <1>3, <2>1, CountingSize, Zenon
    <2> QED BY <1>1, <1>2, <1>4, <2>2, <2>3 DEF CountInv
  <1>5. CASE m # "Unmount"
    <2>1. c \notin Counting'
      BY <1>1, <1>5, CountingMemberNext, Zenon
    <2>2. Counting' = Counting
      BY <1>1, <1>3, <2>1, CountingOthers, Zenon
    <2> QED BY <1>1, <1>2, <1>5, <2>2, KeepCounted, Zenon
  <1> QED BY <1>4, <1>5, Zenon

\* Only what Mount, Unmount and a tar-split read save changes the count, and what each adds or takes away
\* is a holder, or a client in Counting.
LEMMA StepCounted ==
  ASSUME StateInv, KnownInv, CountInv, NEW c \in Client, Step(c)
  PROVE  CountInv'
  <1>1. CASE Lock_graphLock(c)
    <2> USE <1>1
    <2>1. /\ \A d \in Client : d # c => pc'[d] = pc[d] /\ call'[d] = call[d]
          /\ UNCHANGED <<count, holds>> /\ happened \subseteq happened'
      BY Zenon DEF Lock_graphLock, Go, StateInv, TypeOK, counts, mounts, history
    <2>2. c \in Counting' <=> c \in Counting
      BY CountingMember, CountingMemberNext, NoneAssumption, Zenon DEF Lock_graphLock, Go, StateInv, TypeOK,
         CallInv, CallAt, Calls
    <2> QED BY <2>1, <2>2, CountingOthers, KeepCounted, Zenon
  <1>2. CASE Lock(c)
    <2> USE <1>2
    <2>1. /\ \A d \in Client : d # c => pc'[d] = pc[d] /\ call'[d] = call[d]
          /\ UNCHANGED <<count, holds>> /\ happened \subseteq happened'
      BY Zenon DEF Lock, Go, L!Lock, L!RLock, StateInv, TypeOK, counts, mounts, history
    <2>2. c \in Counting' <=> c \in Counting
      <3>1. pc[c] = "lock" /\ pc'[c] = "reload" /\ call'[c] = call[c]
        BY PcType, Zenon DEF Lock, Go
      <3> QED BY <3>1, CountingMember, CountingMemberNext, NoneAssumption, Zenon DEF StateInv, CallInv, CallAt
    <2> QED BY <2>1, <2>2, CountingOthers, KeepCounted, Zenon
  <1>3. ASSUME NEW changed \in BOOLEAN, ReloadIfChanged(c, changed) PROVE CountInv'
    <2> USE <1>3
    <2>1. /\ \A d \in Client : d # c => pc'[d] = pc[d] /\ call'[d] = call[d]
          /\ UNCHANGED <<count, holds>> /\ happened \subseteq happened'
      BY Zenon DEF ReloadIfChanged, Go, StateInv, TypeOK, counts, mounts, history
    <2>2. c \in Counting' <=> c \in Counting
      <3>1. pc[c] = "reload" /\ pc'[c] \in {"Load", "ready"} /\ call'[c] = call[c]
        BY PcType, Zenon DEF ReloadIfChanged, Go
      <3> QED BY <3>1, CountingMember, CountingMemberNext, NoneAssumption, Zenon DEF StateInv, CallInv, CallAt
    <2> QED BY <2>1, <2>2, CountingOthers, KeepCounted, Zenon
  <1>4. CASE Load(c)
    <2> USE <1>4
    <2>1. /\ \A d \in Client : d # c => pc'[d] = pc[d] /\ call'[d] = call[d]
          /\ UNCHANGED <<count, holds>> /\ happened \subseteq happened'
      BY Zenon DEF Load, Go, StateInv, TypeOK, counts, mounts, history
    <2>2. c \in Counting' <=> c \in Counting
      BY CountingMember, CountingMemberNext, NoneAssumption, Zenon DEF Load, Go, StateInv, TypeOK, CallInv,
         CallAt, Calls
    <2> QED BY <2>1, <2>2, CountingOthers, KeepCounted, Zenon
  <1>5. CASE loadMounts(c)
    <2> USE <1>5
    <2>1. /\ \A d \in Client : d # c => pc'[d] = pc[d] /\ call'[d] = call[d]
          /\ UNCHANGED <<count, holds>> /\ happened \subseteq happened'
      BY Zenon DEF loadMounts, Go, StateInv, TypeOK, counts, mounts, history
    <2>2. c \in Counting' <=> c \in Counting
      BY CountingMember, CountingMemberNext, NoneAssumption, Zenon DEF loadMounts, Go, StateInv, TypeOK,
         CallInv, CallAt, Calls
    <2> QED BY <2>1, <2>2, CountingOthers, KeepCounted, Zenon
  <1>6. CASE Mounted(c)
    <2> USE <1>6
    <2>1. /\ \A d \in Client : d # c => pc'[d] = pc[d] /\ call'[d] = call[d]
          /\ UNCHANGED <<count, holds>> /\ happened \subseteq happened'
      BY Zenon DEF Mounted, Go, StateInv, TypeOK, counts, mounts, history
    <2>2. c \in Counting' <=> c \in Counting
      BY CountingMember, CountingMemberNext, NoneAssumption, Zenon DEF Mounted, Go, StateInv, TypeOK, CallInv,
         CallAt, Calls
    <2> QED BY <2>1, <2>2, CountingOthers, KeepCounted, Zenon
  <1>7. CASE Mount(c)
    <2> USE <1>7
    <2>1. /\ \A d \in Client : d # c => pc'[d] = pc[d] /\ call'[d] = call[d]
          /\ UNCHANGED <<count, holds>> /\ happened \subseteq happened'
      BY Zenon DEF Mount, Go, StateInv, TypeOK, counts, mounts, history
    <2>2. c \in Counting' <=> c \in Counting
      BY CountingMember, CountingMemberNext, NoneAssumption, Zenon DEF Mount, Go, StateInv, TypeOK, CallInv,
         CallAt, Calls
    <2> QED BY <2>1, <2>2, CountingOthers, KeepCounted, Zenon
  <1>8. CASE IncrementMountCount(c)
    <2> USE <1>8
    <2>1. /\ pc[c] = "count" /\ call[c] \in {"Mount", "DiffTarSplit"} /\ Critical(c)
          /\ holds' = (IF call[c] = "Mount" THEN holds + 1 ELSE holds) /\ happened' = happened
          /\ pc'[c] = (IF call[c] = "Mount" THEN "return" ELSE "open") /\ call'[c] = call[c]
          /\ \A d \in Client : d # c => pc'[d] = pc[d] /\ call'[d] = call[d]
      BY Zenon DEF IncrementMountCount, Opened, Go, StateInv, TypeOK, CallInv, CallAt, Critical, history
    <2>a. CASE "skewed" \in happened
      <3>1. IsFiniteSet(Counting')
        BY <2>1, CountingOthers, CountingSize, Zenon DEF CountInv
      <3> QED BY <2>1, <2>a, <3>1, Zenon DEF CountInv
    <2> SUFFICES ASSUME "skewed" \notin happened PROVE CountInv'
      BY <2>a, Zenon
    <2>2. MountCount[rlstore[c]] = count /\ count \in Nat /\ holds \in Nat
      BY <2>1, Zenon DEF KnownInv, FreshInv, FreshAt, StateInv, TypeOK
    <2>3. count' = count + 1
      <3>1. saveMounts(c, count + 1) /\ count + 1 \in Nat
        BY <2>2 DEF IncrementMountCount
      <3> QED BY <2>1, <3>1, Saved, Zenon
    <2>4. c \notin Counting
      BY <2>1, CountingMember, Zenon
    <2>5. CASE call[c] = "Mount"
      <3>1. Counting' = Counting
        BY <2>1, <2>4, <2>5, CountingMemberNext, CountingOthers, Zenon
      <3>2. Cardinality(Counting) \in Nat
        BY CountingSize, Zenon
      <3> QED BY <2>1, <2>2, <2>3, <2>5, <3>1, <3>2 DEF CountInv
    <2>6. CASE call[c] = "DiffTarSplit"
      <3>1. Counting' = Counting \cup {c}
        BY <2>1, <2>6, CountingMemberNext, CountingOthers, Zenon
      <3>2. Cardinality(Counting) \in Nat /\ IsFiniteSet(Counting') /\ Cardinality(Counting') = Cardinality(Counting) + 1
        BY <2>4, <3>1, CountingSize, Zenon
      <3> QED BY <2>1, <2>2, <2>3, <2>6, <3>2 DEF CountInv
    <2> QED BY <2>1, <2>5, <2>6, Zenon
  <1>9. CASE Unmount(c)
    <2> USE <1>9
    <2>1. /\ \A d \in Client : d # c => pc'[d] = pc[d] /\ call'[d] = call[d]
          /\ UNCHANGED <<count, holds>> /\ happened \subseteq happened'
      BY Zenon DEF Unmount, Go, StateInv, TypeOK, counts, mounts, history
    <2>2. c \in Counting' <=> c \in Counting
      BY CountingMember, CountingMemberNext, NoneAssumption, Zenon DEF Unmount, Go, StateInv, TypeOK, CallInv,
         CallAt, Calls
    <2> QED BY <2>1, <2>2, CountingOthers, KeepCounted, Zenon
  <1>10. CASE DecrementMountCount(c)
    <2> USE <1>10
    <2>1. /\ pc[c] = "uncount" /\ call[c] \in {"Unmount", "DiffTarSplit", "Shutdown"} /\ Critical(c)
          /\ holds' = holds /\ happened' = happened /\ call'[c] = call[c]
          /\ call[c] # "Shutdown" => pc'[c] = "return"
          /\ \A d \in Client : d # c => pc'[d] = pc[d] /\ call'[d] = call[d]
      BY Zenon DEF DecrementMountCount, Go, StateInv, TypeOK, CallInv, CallAt, Critical, history, mounts
    <2>a. CASE "skewed" \in happened
      <3>1. IsFiniteSet(Counting')
        BY <2>1, CountingOthers, CountingSize, Zenon DEF CountInv
      <3> QED BY <2>1, <2>a, <3>1, Zenon DEF CountInv
    <2> SUFFICES ASSUME "skewed" \notin happened PROVE CountInv'
      BY <2>a, Zenon
    <2>2. CASE call[c] = "Shutdown"
      <3>1. "forced" \in happened
        BY <2>1, <2>2, Zenon DEF StateInv, CallInv, CallAt
      <3>2. Counting' = Counting
        BY <2>1, <2>2, CountingMember, CountingMemberNext, CountingOthers, Zenon
      <3> QED BY <2>1, <3>1, <3>2, Zenon DEF CountInv
    <2>3. CASE call[c] # "Shutdown"
      <3>1. MountCount[rlstore[c]] = count /\ count \in Nat /\ holds \in Nat
        BY <2>1, <2>3, Zenon DEF KnownInv, FreshInv, FreshAt, StateInv, TypeOK
      <3>2. count' = IF count > 1 THEN count - 1 ELSE 0
        <4> DEFINE n == IF count > 1 THEN count - 1 ELSE 0
        <4>1. saveMounts(c, n) /\ n \in Nat
          BY <3>1 DEF DecrementMountCount
        <4> HIDE DEF n
        <4>2. count' = n
          BY <2>1, <4>1, Saved, Zenon
        <4> QED BY <4>2, Zenon DEF n
      <3>3. c \in Counting /\ c \notin Counting'
        BY <2>1, <2>3, CountingMember, CountingMemberNext, Zenon
      <3>4. Counting' = Counting \ {c}
        BY <2>1, <3>3, CountingOthers, Zenon
      <3>5. /\ Cardinality(Counting) \in Nat /\ IsFiniteSet(Counting')
            /\ Cardinality(Counting') = Cardinality(Counting) - 1 /\ Cardinality(Counting) > 0
        BY <3>3, <3>4, CountingSize, Zenon
      <3> QED BY <2>1, <3>1, <3>2, <3>5 DEF CountInv
    <2> QED BY <2>2, <2>3, Zenon
  <1>11. CASE Get(c)
    <2> USE <1>11
    <2>1. /\ \A d \in Client : d # c => pc'[d] = pc[d] /\ call'[d] = call[d]
          /\ UNCHANGED <<count, holds>> /\ happened \subseteq happened'
      BY Zenon DEF Get, Go, Got, Opened, Naive, StateInv, TypeOK, counts, mounts, history
    <2>2. c \in Counting' <=> c \in Counting
      <3>1. /\ pc[c] = "Get" \/ (pc[c] = "ready" /\ call[c] \in Naive)
            /\ pc'[c] \in {"mount", "count"} \/ call[c] \notin {"Mount", "DiffTarSplit"}
            /\ call'[c] = call[c]
        BY PcType, Zenon DEF Get, Got, Opened, Go
      <3> QED BY <3>1, CountingMember, CountingMemberNext, NoneAssumption, Zenon DEF StateInv, CallInv, CallAt,
                 Naive
    <2> QED BY <2>1, <2>2, CountingOthers, KeepCounted, Zenon
  <1>12. CASE mountFunc(c)
    <2> USE <1>12
    <2>1. /\ \A d \in Client : d # c => pc'[d] = pc[d] /\ call'[d] = call[d]
          /\ UNCHANGED <<count, holds>> /\ happened \subseteq happened'
      BY Zenon DEF mountFunc, Go, Got, Opened, Naive, StateInv, TypeOK, counts, mounts, history
    <2>2. c \in Counting' <=> c \in Counting
      <3>1. /\ pc[c] = "mount" /\ call'[c] = call[c]
            /\ pc'[c] \in {"mount", "count"} \/ call[c] \notin {"Mount", "DiffTarSplit"}
        BY PcType, Zenon DEF mountFunc, Got, Opened, Go
      <3> QED BY <3>1, CountingMember, CountingMemberNext, NoneAssumption, Zenon DEF StateInv, CallInv, CallAt,
                 Naive
    <2> QED BY <2>1, <2>2, CountingOthers, KeepCounted, Zenon
  <1>13. CASE mountFails(c)
    <2> USE <1>13
    <2>1. /\ \A d \in Client : d # c => pc'[d] = pc[d] /\ call'[d] = call[d]
          /\ UNCHANGED <<count, holds>> /\ happened \subseteq happened'
      BY Zenon DEF mountFails, Go, Naive, StateInv, TypeOK, counts, mounts, history
    <2>2. c \in Counting' <=> c \in Counting
      BY CountingMember, CountingMemberNext, NoneAssumption, Zenon DEF mountFails, Go, Naive, StateInv, TypeOK,
         CallInv, CallAt, Calls
    <2> QED BY <2>1, <2>2, CountingOthers, KeepCounted, Zenon
  <1>14. CASE Put(c)
    <2> USE <1>14
    <2>1. /\ \A d \in Client : d # c => pc'[d] = pc[d] /\ call'[d] = call[d]
          /\ UNCHANGED <<count, holds>> /\ happened \subseteq happened'
      BY Zenon DEF Put, Go, HasPut, Naive, StateInv, TypeOK, counts, mounts, history
    <2>2. c \in Counting' <=> c \in Counting
      <3>1. /\ pc[c] = "Put" \/ (pc[c] = "open" /\ call[c] \in Naive)
            /\ pc'[c] \in {"unmount", "uncount"} \/ call[c] \in Naive
            /\ call'[c] = call[c]
        BY PcType, Zenon DEF Put, HasPut, Go
      <3> QED BY <3>1, CountingMember, CountingMemberNext, NoneAssumption, Zenon DEF StateInv, CallInv, CallAt,
                 Naive
    <2> QED BY <2>1, <2>2, CountingOthers, KeepCounted, Zenon
  <1>15. CASE unmountFunc(c)
    <2> USE <1>15
    <2>1. /\ \A d \in Client : d # c => pc'[d] = pc[d] /\ call'[d] = call[d]
          /\ UNCHANGED <<count, holds>> /\ happened \subseteq happened'
      BY Zenon DEF unmountFunc, Go, HasPut, Naive, StateInv, TypeOK, counts, mounts, history
    <2>2. c \in Counting' <=> c \in Counting
      <3>1. /\ pc[c] = "unmount" /\ call'[c] = call[c]
            /\ pc'[c] = "uncount" \/ call[c] \in Naive
        BY PcType, Zenon DEF unmountFunc, HasPut, Go
      <3> QED BY <3>1, CountingMember, CountingMemberNext, NoneAssumption, Zenon DEF StateInv, CallInv, CallAt,
                 Naive
    <2> QED BY <2>1, <2>2, CountingOthers, KeepCounted, Zenon
  <1>16. ASSUME NEW force \in BOOLEAN, Shutdown(c, force) PROVE CountInv'
    <2> USE <1>16
    <2>1. /\ \A d \in Client : d # c => pc'[d] = pc[d] /\ call'[d] = call[d]
          /\ UNCHANGED <<count, holds>> /\ happened \subseteq happened'
      BY Zenon DEF Shutdown, Go, StateInv, TypeOK, counts, mounts, history
    <2>2. c \in Counting' <=> c \in Counting
      <3>1. call[c] = "Shutdown" /\ call'[c] = call[c]
        BY PcType, Zenon DEF Shutdown
      <3> QED BY <3>1, CountingMember, CountingMemberNext, NoneAssumption, Zenon DEF StateInv, CallInv, CallAt
    <2> QED BY <2>1, <2>2, CountingOthers, KeepCounted, Zenon
  <1>17. CASE UnmountForced(c)
    <2> USE <1>17
    <2>1. /\ \A d \in Client : d # c => pc'[d] = pc[d] /\ call'[d] = call[d]
          /\ UNCHANGED <<count, holds>> /\ happened \subseteq happened'
      BY Zenon DEF UnmountForced, Go, StateInv, TypeOK, counts, mounts, history
    <2>2. c \in Counting' <=> c \in Counting
      <3>1. pc[c] = "loop" /\ call'[c] = call[c]
        BY PcType, Zenon DEF UnmountForced
      <3> QED BY <3>1, CountingMember, CountingMemberNext, NoneAssumption, Zenon DEF StateInv, CallInv, CallAt
    <2> QED BY <2>1, <2>2, CountingOthers, KeepCounted, Zenon
  <1>18. CASE Return(c)
    <2> USE <1>18
    <2>1. /\ \A d \in Client : d # c => pc'[d] = pc[d] /\ call'[d] = call[d]
          /\ UNCHANGED <<count, holds>> /\ happened \subseteq happened'
      BY Zenon DEF Return, Go, StateInv, TypeOK, counts, mounts, history
    <2>2. c \in Counting' <=> c \in Counting
      <3>1. pc[c] = "return" /\ pc'[c] = "idle" /\ call'[c] = None
        BY PcType, Zenon DEF Return, Go, StateInv, TypeOK
      <3> QED BY <3>1, CountingMember, CountingMemberNext, NoneAssumption, Zenon DEF StateInv, CallInv, CallAt,
                 Calls
    <2> QED BY <2>1, <2>2, CountingOthers, KeepCounted, Zenon
  <1>19. CASE Save(c)
    <2> USE <1>19
    <2>1. /\ pc[c] = "ready" /\ call[c] = "Save" /\ call'[c] = call[c]
          /\ \A d \in Client : d # c => pc'[d] = pc[d] /\ call'[d] = call[d]
          /\ UNCHANGED <<holds, happened>>
      BY Zenon DEF Save, Go, StateInv, TypeOK, mounts, history
    <2>2. Counting' = Counting
      BY <2>1, CountingMember, CountingMemberNext, CountingOthers, Zenon
    <2>3. CASE "skewed" \in happened
      BY <2>1, <2>2, <2>3, Zenon DEF CountInv
    <2>4. CASE "skewed" \notin happened
      <3>1. MountCount[rlstore[c]] = count /\ count \in Nat
        BY <2>1, <2>4, Zenon DEF KnownInv, FreshInv, FreshAt, Saving, StateInv, TypeOK
      <3>2. count' = count
        BY <2>1, <3>1, Saved, Zenon DEF Save
      <3> QED BY <2>1, <2>2, <3>2, KeepCounted, Zenon
    <2> QED BY <2>3, <2>4, Zenon
  <1>20. ASSUME NEW logged \in BOOLEAN, unmountFails(c, logged) PROVE CountInv'
    <2> USE <1>20
    <2>1. /\ pc[c] = "unmount" /\ pc'[c] \in {"uncount", "return"} /\ call'[c] = call[c]
          /\ \A d \in Client : d # c => pc'[d] = pc[d] /\ call'[d] = call[d]
          /\ UNCHANGED <<count, holds>> /\ happened \subseteq happened' /\ "unmount" \in happened'
      BY Zenon DEF unmountFails, Go, HasPut, StateInv, TypeOK, mounts
    <2>2. Counting' \subseteq Counting
      <3>1. c \in Counting' => c \in Counting
        BY <2>1, CountingMember, CountingMemberNext, Zenon
      <3> QED BY <2>1, <3>1, CountingOthers, Zenon
    <2>3. IsFiniteSet(Counting') /\ Cardinality(Counting') <= Cardinality(Counting)
      BY <2>2, FS_Subset, Zenon DEF CountInv
    <2>4. Cardinality(Counting) \in Nat /\ Cardinality(Counting') \in Nat /\ count \in Nat /\ holds \in Nat
      BY <2>3, CountingSize, FS_CardinalityType, Zenon DEF StateInv, TypeOK
    <2> QED BY <2>1, <2>3, <2>4 DEF CountInv
  <1> QED BY <1>1, <1>2, <1>3, <1>4, <1>5, <1>6, <1>7, <1>8, <1>9, <1>10, <1>11, <1>12, <1>13, <1>14, <1>15,
             <1>16, <1>17, <1>18, <1>19, <1>20, Zenon DEF Step

\* What a process that ends in a call has counted stays in mountpoints.json.
LEMMA ExitCounted ==
  ASSUME StateInv, CountInv, NEW p \in Proc, Exit(p)
  PROVE  CountInv'
  <1>1. /\ \A d \in Client : ProcOf[d] # p => pc'[d] = pc[d] /\ call'[d] = call[d]
        /\ \A d \in Client : ProcOf[d] = p => pc'[d] = "idle" /\ call'[d] = None
        /\ UNCHANGED <<count, holds>> /\ happened \subseteq happened'
        /\ "crash" \notin happened' => \A d \in Client : ProcOf[d] = p => pc[d] = "idle"
    BY Zenon DEF Exit, Of, StateInv, TypeOK
  <1>2. \A d \in Client : ProcOf[d] = p => d \notin Counting'
    BY <1>1, CountingMemberNext, NoneAssumption, Zenon DEF Calls
  <1>3. \A d \in Client : ProcOf[d] # p => (d \in Counting' <=> d \in Counting)
    BY <1>1, CountingMember, CountingMemberNext, Zenon
  <1>4. Counting \subseteq Client /\ Counting' \subseteq Client
    BY Zenon DEF Counting, TarSplitReaders, Leaving
  <1>5. CASE "crash" \in happened'
    <2>1. Counting' \subseteq Counting
      BY <1>2, <1>3, <1>4, Zenon
    <2>2. IsFiniteSet(Counting') /\ Cardinality(Counting') <= Cardinality(Counting)
      BY <2>1, FS_Subset, Zenon DEF CountInv
    <2>3. Cardinality(Counting) \in Nat /\ Cardinality(Counting') \in Nat /\ count \in Nat /\ holds \in Nat
      BY <2>2, CountingSize, FS_CardinalityType, Zenon DEF StateInv, TypeOK
    <2> QED BY <1>1, <1>5, <2>2, <2>3 DEF CountInv
  <1>6. CASE "crash" \notin happened'
    <2>1. \A d \in Client : ProcOf[d] = p => d \notin Counting
      BY <1>1, <1>6, CountingMember, NoneAssumption, Zenon DEF StateInv, CallInv, CallAt, Calls
    <2>2. Counting' = Counting
      BY <1>2, <1>3, <1>4, <2>1, Zenon
    <2> QED BY <1>1, <2>2, KeepCounted, Zenon
  <1> QED BY <1>5, <1>6, Zenon

LEMMA InitCounted == Init => CountInv
  <1> SUFFICES ASSUME Init PROVE CountInv
    BY Zenon
  <1>1. \A c \in Client : c \notin Counting
    BY CountingMember, NoneAssumption, Zenon DEF Init, Calls
  <1>2. Counting = {}
    BY <1>1, Zenon DEF Counting, TarSplitReaders, Leaving
  <1>3. IsFiniteSet(Counting) /\ Cardinality(Counting) = 0
    BY <1>2, FS_EmptySet, Zenon
  <1> QED BY <1>3 DEF Init, CountInv

=============================================================================
