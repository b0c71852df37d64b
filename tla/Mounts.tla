------------------------------- MODULE Mounts -------------------------------
(***************************************************************************)
(* Mounting a layer: the mount count that layerStore keeps for it in       *)
(* mountpoints.json, the reference count that a driver keeps for it in     *)
(* memory (overlay and zfs), and the file systems that are mounted on its  *)
(* mount point.  The module follows one layer.                             *)
(*                                                                         *)
(* The locks are layers.lock (L), storage.lock (graphLock), mountpoints.   *)
(* lock (mountsLock), layerStore.loadMut and the driver's locker.  mount   *)
(* and Diff make a new driver and, on the next call of LayerStore, a new   *)
(* layerStore whenever storage.lock is modified, which it always is until  *)
(* a Shutdown has written to it: a process may have several layerStores,   *)
(* each with a copy of the count and a reference counter of its own.       *)
(***************************************************************************)
EXTENDS Integers, FiniteSets

CONSTANTS
    Proc, Client, ProcOf,   \* a client is a goroutine
    Object,                 \* layerStores, each with its driver (bounded)
    Call,                   \* the calls that clients make, a subset of Calls
    Faults,                 \* a subset of FaultKinds
    MaxHolds,               \* bound on the mounts that clients hold
    MaxEvents,              \* bound on the number of faults and Shutdowns
    MaxCtr,                 \* bound on a reference counter, which drifts when others
                            \* unmount what its process mounted and vice versa
    None

\* Diff reads the layer through a mount of the driver (without tar-split data)
\* or through one that is counted ("DiffTarSplit", with a driver that has no
\* DiffGetter: zfs, but not overlay).  DiffSize is like Changes.  "Save" is any
\* call that changes the record of a layer and ends with layerStore.Save.
Calls == {"Mount", "Unmount", "Mounted", "Changes", "Diff", "DiffTarSplit", "Save", "Shutdown"}
FaultKinds == {"crash", "mount", "unmount"}

ASSUME ProcOfAssumption == ProcOf \in [Client -> Proc]
ASSUME CallAssumption == Call \subseteq Calls /\ Faults \subseteq FaultKinds
ASSUME NoneAssumption == None \notin Client \cup Object /\ None \notin Calls
ASSUME BoundAssumption == MaxHolds \in Nat /\ MaxCtr \in Nat /\ MaxEvents \in Nat

VARIABLES
    pc, call,               \* a client's position and call
    rlstore,                \* the layerStore that a client's call works on
    layerStore,             \* a process's current one
    shutdown,               \* a Shutdown has written to storage.lock
    known, loaded,          \* the processes that know its writer ID, and those whose
                            \* lastLoaded is later
    readers, writers,       \* layers.lock
    graphLock, mountsLock,  \* the client that holds it
    loadMut, locker,        \* the client that holds it, per layerStore
    count,                  \* mountpoints.json: the layer's mount count
    touched,                \* mountpoints.lock is not empty
    lw,                     \* the processes that know its writer ID
    MountCount,             \* a layerStore's copy of count
    replaced,               \* Load has replaced the Layer that mountsLock's holder uses
    ctr,                    \* a driver's reference counter
    mounted,                \* number of file systems on the mount point
    holds,                  \* number of mounts that clients have asked Mount for and
                            \* have not called Unmount for yet
    happened,               \* the kinds of faults, "forced" if Shutdown has unmounted,
                            \* "skewed" if it could not and kept the count it made up, and
                            \* "shared" if a counted reader got a mount of others
    events                  \* number of faults and Shutdowns

locks == <<readers, writers, graphLock, mountsLock, loadMut, locker>>
counts == <<count, touched, lw, MountCount, replaced>>
mounts == <<ctr, mounted, holds>>
history == <<happened, events>>
graph == <<layerStore, shutdown, known, loaded>>
vars == <<pc, call, rlstore, graph, locks, counts, mounts, history>>

L == INSTANCE ReaderWriterLock WITH Goroutine <- Client

Counter == [check : BOOLEAN, count : Int]
NewCounter == [check |-> FALSE, count |-> 0]

Init ==
    /\ pc = [c \in Client |-> "idle"] /\ call = [c \in Client |-> None]
    /\ rlstore = [c \in Client |-> None] /\ layerStore = [p \in Proc |-> None]
    /\ shutdown = FALSE /\ known = {} /\ loaded = Proc
    /\ L!Init /\ graphLock = None /\ mountsLock = None
    /\ loadMut = [o \in Object |-> None] /\ locker = [o \in Object |-> None]
    /\ count = 0 /\ touched = FALSE /\ lw = {}
    /\ MountCount = [o \in Object |-> 0] /\ replaced = FALSE
    /\ ctr = [o \in Object |-> NewCounter]
    /\ mounted = 0 /\ holds = 0 /\ happened = {} /\ events = 0

Event == events < MaxEvents /\ events' = events + 1

Go(c, l) == pc' = [pc EXCEPT ![c] = l]

-----------------------------------------------------------------------------
(* Entering the store. *)

TakeGraphLock == {"Mount", "Diff", "DiffTarSplit", "Shutdown"}
Write == {"Mount", "Unmount", "Save", "Shutdown"}

Unreferenced ==
    {o \in Object : (\A p \in Proc : layerStore[p] # o) /\ \A c \in Client : rlstore[c] # o}

\* layerStores that nobody uses any more are forgotten.
Collect(copies, counters) ==
    /\ MountCount' = [o \in Object |-> IF o \in Unreferenced' THEN 0 ELSE copies[o]]
    /\ ctr' = [o \in Object |-> IF o \in Unreferenced' THEN NewCounter ELSE counters[o]]

\* LayerStore, under graphLock: the current layerStore or a new one, whose
\* Load reads mountpoints.json.  A client unmounts what somebody mounted, and
\* gives up its claim to the mount when it calls.
LayerStore(c, m) ==
    LET p == ProcOf[c]
        current == IF p \in loaded THEN layerStore[p] ELSE None
        free == {o \in Object : (\A q \in Proc \ {p} : layerStore[q] # o)
                                    /\ \A d \in Client : rlstore[d] # o}
        o == IF current # None THEN current ELSE CHOOSE o \in free : TRUE
    IN
    /\ pc[c] = "idle" /\ graphLock = None
    /\ IF m = "Unmount" THEN holds > 0 /\ holds' = holds - 1 ELSE UNCHANGED holds
    /\ m = "Mount" => holds < MaxHolds
    /\ IF m = "Shutdown" THEN Event ELSE UNCHANGED events
    /\ current # None => ctr[current].count \in -MaxCtr..MaxCtr
    /\ current = None => mountsLock = None /\ free # {}
    /\ rlstore' = [rlstore EXCEPT ![c] = o]
    /\ layerStore' = [layerStore EXCEPT ![p] = o]
    /\ loaded' = loaded \cup {p}
    /\ IF current # None
       THEN UNCHANGED <<MountCount, ctr>>
       ELSE Collect([MountCount EXCEPT ![o] = count], [ctr EXCEPT ![o] = NewCounter])
    /\ call' = [call EXCEPT ![c] = m]
    /\ Go(c, IF m \in TakeGraphLock THEN "graphLock" ELSE "lock")
    /\ UNCHANGED <<shutdown, known, locks, count, touched, lw, replaced, mounted, happened>>

\* "if modified" in mount and Diff: the layerStore is dropped.
DropIfModified(c) ==
    LET p == ProcOf[c]
        modified == ~shutdown \/ p \notin known
    IN
    /\ known' = IF shutdown THEN known \cup {p} ELSE known
    /\ layerStore' = [layerStore EXCEPT ![p] = IF modified THEN None ELSE @]
    /\ loaded' = IF modified THEN loaded \cup {p} ELSE loaded

\* Diff looks at graphLock before it locks the layerStore, mount afterwards.
Lock_graphLock(c) ==
    /\ pc[c] = "graphLock" /\ graphLock = None
    /\ graphLock' = c
    /\ IF call[c] \in {"Diff", "DiffTarSplit"}
       THEN DropIfModified(c)
       ELSE UNCHANGED <<layerStore, known, loaded>>
    /\ Go(c, "lock") /\ UNCHANGED rlstore /\ Collect(MountCount, ctr)
    /\ UNCHANGED <<call, shutdown, readers, writers, mountsLock, loadMut, locker,
                   count, touched, lw, replaced, mounted, holds, history>>

Lock(c) ==
    /\ pc[c] = "lock"
    /\ IF call[c] \in Write THEN L!Lock(c) ELSE L!RLock(c)
    /\ Go(c, "reload")
    /\ UNCHANGED <<call, rlstore, graph, graphLock, mountsLock, loadMut, locker,
                   counts, mounts, history>>

\* mountsLockfile.Modified, and what it stores.
Modified(p) == ~touched \/ p \notin lw
Recorded(p) == lw' = IF touched THEN lw \cup {p} ELSE lw

\* ReloadIfChanged.  It also reloads if anything else has changed layers.json.
ReloadIfChanged(c, changed) ==
    LET o == rlstore[c] IN
    /\ pc[c] = "reload"
    /\ loadMut[o] = None /\ mountsLock = None
    /\ Recorded(ProcOf[c])
    /\ IF changed \/ Modified(ProcOf[c])
       THEN Go(c, "Load") /\ loadMut' = [loadMut EXCEPT ![o] = c]
       ELSE Go(c, "ready") /\ UNCHANGED loadMut
    /\ UNCHANGED <<call, rlstore, graph, readers, writers, graphLock, mountsLock,
                   locker, count, touched, MountCount, replaced, mounts, history>>

\* Load replaces all Layers, without locking mountpoints.lock, by new ones
\* that are not mounted, ...
Load(c) ==
    LET o == rlstore[c] IN
    /\ pc[c] = "Load"
    /\ MountCount' = [MountCount EXCEPT ![o] = 0]
    /\ replaced' = (replaced \/ (mountsLock # None /\ rlstore[mountsLock] = o))
    /\ Go(c, "loadMounts")
    /\ UNCHANGED <<call, rlstore, graph, locks, count, touched, lw, mounts, history>>

\* ... and then merges the mount counts.
loadMounts(c) ==
    LET o == rlstore[c] IN
    /\ pc[c] = "loadMounts" /\ mountsLock = None
    /\ MountCount' = [MountCount EXCEPT ![o] = count]
    /\ loadMut' = [loadMut EXCEPT ![o] = None]
    /\ Go(c, "ready")
    /\ UNCHANGED <<call, rlstore, graph, readers, writers, graphLock, mountsLock,
                   locker, count, touched, lw, replaced, mounts, history>>

\* Mutant of Return: graphLock stays locked.
ReturnWithGraphLock(c) ==
    /\ pc[c] = "return"
    /\ L!Unlock(c)
    /\ rlstore' = [rlstore EXCEPT ![c] = None] /\ UNCHANGED graph /\ Collect(MountCount, ctr)
    /\ Go(c, "idle") /\ call' = [call EXCEPT ![c] = None]
    /\ UNCHANGED <<graphLock, mountsLock, loadMut, locker, count, touched, lw, replaced,
                   mounted, holds, history>>

\* The deferred unlocking of a call.
Return(c) ==
    /\ pc[c] = "return"
    /\ L!Unlock(c)
    /\ graphLock' = IF graphLock = c THEN None ELSE graphLock
    /\ rlstore' = [rlstore EXCEPT ![c] = None] /\ UNCHANGED graph /\ Collect(MountCount, ctr)
    /\ Go(c, "idle") /\ call' = [call EXCEPT ![c] = None]
    /\ UNCHANGED <<mountsLock, loadMut, locker, count, touched, lw, replaced,
                   mounted, holds, history>>

-----------------------------------------------------------------------------
(* layerStore.Mounted, Mount and Unmount, which hold mountsLock. *)

\* Mutant of Current: the count that was loaded when the call began.
CurrentStale(c) == MountCount[rlstore[c]]

\* The count after "if modified { loadMounts }".
Current(c) == IF Modified(ProcOf[c]) THEN count ELSE MountCount[rlstore[c]]

Mounted(c) ==
    /\ pc[c] = "ready" /\ call[c] = "Mounted" /\ mountsLock = None
    /\ Recorded(ProcOf[c])
    /\ MountCount' = [MountCount EXCEPT ![rlstore[c]] = Current(c)]
    /\ Go(c, "return")
    /\ UNCHANGED <<call, rlstore, graph, locks, count, touched, replaced, mounts, history>>

\* Mount counts up if the layer is mounted, and otherwise mounts it first.
Mount(c) ==
    /\ pc[c] = "ready" /\ call[c] \in {"Mount", "DiffTarSplit"} /\ mountsLock = None
    /\ IF call[c] = "Mount" THEN DropIfModified(c) ELSE UNCHANGED <<layerStore, known, loaded>>
    /\ mountsLock' = c /\ replaced' = FALSE
    /\ Recorded(ProcOf[c])
    /\ UNCHANGED rlstore
    /\ Collect([MountCount EXCEPT ![rlstore[c]] = Current(c)], ctr)
    /\ Go(c, IF Current(c) > 0 /\ mounted > 0 THEN "count" ELSE "Get")
    /\ UNCHANGED <<call, shutdown, readers, writers, graphLock, loadMut, locker,
                   count, touched, mounted, holds, history>>

\* Mutant of saveMounts: without Touch.
saveMountsUntouched(c, changed) ==
    LET o == rlstore[c]
        n == IF replaced THEN MountCount[o] ELSE changed
    IN
    /\ count' = n
    /\ MountCount' = [MountCount EXCEPT ![o] = n]
    /\ UNCHANGED <<touched, lw>>
    /\ mountsLock' = None /\ replaced' = FALSE

\* saveMounts writes the counts of all Layers, which are no longer the one
\* that was changed if this one was replaced; and Touch.
saveMounts(c, changed) ==
    LET o == rlstore[c]
        n == IF replaced THEN MountCount[o] ELSE changed
    IN
    /\ count' = n
    /\ MountCount' = [MountCount EXCEPT ![o] = n]
    /\ touched' = TRUE /\ lw' = {ProcOf[c]}
    /\ mountsLock' = None /\ replaced' = FALSE

\* Diff returns, without layers.lock being unlocked, and its reader is open.
\* Mount returns.
Opened(c) ==
    /\ Go(c, IF call[c] = "Mount" THEN "return" ELSE "open")
    /\ graphLock' = IF graphLock = c /\ call[c] # "Mount" THEN None ELSE graphLock

IncrementMountCount(c) ==
    /\ pc[c] = "count"
    /\ saveMounts(c, MountCount[rlstore[c]] + 1)
    /\ holds' = IF call[c] = "Mount" THEN holds + 1 ELSE holds
    /\ Opened(c)
    /\ UNCHANGED <<call, rlstore, graph, readers, writers, loadMut, locker,
                   ctr, mounted, history>>

\* Unmount counts down, and unmounts the layer if nobody else uses it.
Unmount(c) ==
    /\ \/ pc[c] = "ready" /\ call[c] = "Unmount"
       \/ pc[c] = "open" /\ call[c] = "DiffTarSplit"
    /\ mountsLock = None
    /\ mountsLock' = c /\ replaced' = FALSE
    /\ Recorded(ProcOf[c])
    /\ MountCount' = [MountCount EXCEPT ![rlstore[c]] = Current(c)]
    /\ Go(c, IF Current(c) > 1 THEN "uncount" ELSE "Put")
    /\ UNCHANGED <<call, rlstore, graph, readers, writers, graphLock, loadMut, locker,
                   count, touched, mounts, history>>

\* Mutant of DecrementMountCount: the last user is counted down twice.
DecrementTwice(c) ==
    /\ pc[c] = "uncount"
    /\ saveMounts(c, MountCount[rlstore[c]] - 2)
    /\ Go(c, IF call[c] = "Shutdown" THEN "loop" ELSE "return")
    /\ UNCHANGED <<call, rlstore, graph, readers, writers, graphLock, loadMut, locker,
                   mounts, history>>

DecrementMountCount(c) ==
    LET n == MountCount[rlstore[c]] IN
    /\ pc[c] = "uncount"
    /\ saveMounts(c, IF n > 1 THEN n - 1 ELSE 0)
    /\ Go(c, IF call[c] = "Shutdown" THEN "loop" ELSE "return")
    /\ UNCHANGED <<call, rlstore, graph, readers, writers, graphLock, loadMut, locker,
                   mounts, history>>

\* layerStore.Save also writes the counts, as they were loaded when the call began.
Save(c) ==
    /\ pc[c] = "ready" /\ call[c] = "Save" /\ mountsLock = None
    /\ saveMounts(c, MountCount[rlstore[c]])
    /\ Go(c, "return")
    /\ UNCHANGED <<call, rlstore, graph, readers, writers, graphLock, loadMut, locker,
                   mounts, history>>

-----------------------------------------------------------------------------
(* The driver. *)

\* Mutant of Checked: a layer that was unmounted by others is not noticed.
CheckedOnce(o) ==
    IF ~ctr[o].check THEN ctr[o].count + (IF mounted > 0 THEN 1 ELSE 0) ELSE ctr[o].count

\* RefCounter.incdec, before it counts.
Checked(o) ==
    IF ~ctr[o].check THEN ctr[o].count + (IF mounted > 0 THEN 1 ELSE 0)
    ELSE IF mounted > 0 THEN ctr[o].count ELSE 0

Counted(o, n) == ctr' = [ctr EXCEPT ![o] = [check |-> TRUE, count |-> n]]

\* Changes and Diff of the NaiveDiffDriver call Get and, when the reader is
\* closed or Changes is done, Put.
Naive == {"Changes", "Diff"}

Got(c) ==
    IF call[c] \in {"Mount", "DiffTarSplit"}
    THEN Go(c, "count") /\ UNCHANGED graphLock
    ELSE Opened(c)

\* Driver.Get: counts up, and mounts the file system if it is the first user.
Get(c) ==
    LET o == rlstore[c]
        n == Checked(o) + 1
    IN
    /\ pc[c] = "Get" \/ (pc[c] = "ready" /\ call[c] \in Naive)
    /\ locker[o] = None
    /\ Counted(o, n)
    /\ IF n > 1
       THEN Got(c) /\ UNCHANGED locker
       ELSE /\ Go(c, "mount") /\ locker' = [locker EXCEPT ![o] = c]
            /\ UNCHANGED graphLock
    /\ happened' = happened \cup {e \in {"shared"} : n > 1 /\ call[c] = "DiffTarSplit"}
    /\ UNCHANGED <<events, call, rlstore, graph, readers, writers, mountsLock, loadMut,
                   counts, mounted, holds>>

mountFunc(c) ==
    /\ pc[c] = "mount"
    /\ mounted' = mounted + 1
    /\ locker' = [locker EXCEPT ![rlstore[c]] = None]
    /\ Got(c)
    /\ UNCHANGED <<call, rlstore, graph, readers, writers, mountsLock, loadMut,
                   counts, ctr, holds, history>>

\* The mount fails: Get counts down and unmounts what is there if it was the
\* only user; Mount, if it was the caller, touches mountpoints.lock.
mountFails(c) ==
    LET o == rlstore[c]
        n == Checked(o) - 1
    IN
    /\ pc[c] = "mount" /\ "mount" \in Faults /\ Event
    /\ happened' = happened \cup {"mount"}
    /\ Counted(o, n)
    /\ mounted' = IF n <= 0 /\ mounted > 0 THEN mounted - 1 ELSE mounted
    /\ locker' = [locker EXCEPT ![o] = None]
    /\ IF mountsLock = c
       THEN /\ mountsLock' = None /\ replaced' = FALSE
            /\ touched' = TRUE /\ lw' = {ProcOf[c]}
       ELSE UNCHANGED <<mountsLock, replaced, touched, lw>>
    /\ Go(c, "return")
    /\ UNCHANGED <<call, rlstore, graph, readers, writers, graphLock, loadMut,
                   count, MountCount, holds>>

HasPut(c) == Go(c, IF call[c] \in Naive THEN "return" ELSE "uncount")

\* Mutant of Put: the last user does not unmount.
PutOffByOne(c) ==
    LET o == rlstore[c]
        n == Checked(o) - 1
    IN
    /\ pc[c] = "Put" \/ (pc[c] = "open" /\ call[c] \in Naive)
    /\ locker[o] = None
    /\ Counted(o, n)
    /\ IF n >= 0
       THEN HasPut(c) /\ UNCHANGED locker
       ELSE Go(c, "unmount") /\ locker' = [locker EXCEPT ![o] = c]
    /\ UNCHANGED <<call, rlstore, graph, readers, writers, graphLock, mountsLock,
                   loadMut, counts, mounted, holds, history>>

\* Driver.Put: counts down, and unmounts if nobody else is known to use it.
Put(c) ==
    LET o == rlstore[c]
        n == Checked(o) - 1
    IN
    /\ pc[c] = "Put" \/ (pc[c] = "open" /\ call[c] \in Naive)
    /\ locker[o] = None
    /\ Counted(o, n)
    /\ IF n > 0
       THEN HasPut(c) /\ UNCHANGED locker
       ELSE Go(c, "unmount") /\ locker' = [locker EXCEPT ![o] = c]
    /\ UNCHANGED <<call, rlstore, graph, readers, writers, graphLock, mountsLock,
                   loadMut, counts, mounted, holds, history>>

unmountFunc(c) ==
    /\ pc[c] = "unmount"
    /\ mounted' = IF mounted > 0 THEN mounted - 1 ELSE 0
    /\ locker' = [locker EXCEPT ![rlstore[c]] = None]
    /\ HasPut(c)
    /\ UNCHANGED <<call, rlstore, graph, readers, writers, graphLock, mountsLock,
                   loadMut, counts, ctr, holds, history>>

\* The file system stays mounted: the driver only logs that unmounting failed,
\* or it cannot read the layer's directory and Put fails before it unmounts.
\* Unmount then returns without counting down, and touches mountpoints.lock.
unmountFails(c, logged) ==
    /\ pc[c] = "unmount" /\ "unmount" \in Faults /\ Event
    /\ happened' = happened \cup {"unmount"} \cup {e \in {"skewed"} : ~logged /\ call[c] = "Shutdown"}
    /\ locker' = [locker EXCEPT ![rlstore[c]] = None]
    /\ IF logged \/ call[c] \in Naive
       THEN HasPut(c) /\ UNCHANGED <<mountsLock, replaced, touched, lw>>
       ELSE /\ Go(c, "return")
            /\ mountsLock' = None /\ replaced' = FALSE
            /\ touched' = TRUE /\ lw' = {ProcOf[c]}
    /\ UNCHANGED <<call, rlstore, graph, readers, writers, graphLock, loadMut,
                   count, MountCount, mounts>>

-----------------------------------------------------------------------------
\* Shutdown writes to storage.lock if nothing is mounted.  If it is told to
\* unmount, it does so as long as the copy that it has of the Layer has a
\* positive count.
Shutdown(c, force) ==
    LET copy == MountCount[rlstore[c]] IN
    /\ pc[c] = "ready" /\ call[c] = "Shutdown"
    /\ IF copy = 0
       THEN shutdown' = TRUE /\ known' = {ProcOf[c]} /\ loaded' = {}
       ELSE UNCHANGED <<shutdown, known, loaded>>
    /\ IF force /\ copy > 0
       THEN Go(c, "loop") /\ happened' = happened \cup {"forced"}
       ELSE Go(c, "return") /\ UNCHANGED happened
    /\ UNCHANGED <<call, rlstore, layerStore, locks, counts, mounts, events>>

UnmountForced(c) ==
    /\ pc[c] = "loop" /\ mountsLock = None
    /\ mountsLock' = c /\ replaced' = FALSE
    /\ MountCount' = [MountCount EXCEPT ![rlstore[c]] = 1]
    /\ Go(c, "Put")
    /\ UNCHANGED <<call, rlstore, graph, readers, writers, graphLock, loadMut, locker,
                   count, touched, lw, mounts, history>>

Of(p) == {c \in Client : ProcOf[c] = p}

\* A process ends, in the middle of a call or between calls, and another one
\* takes its place.
Exit(p) ==
    LET freed(holder) == IF holder \in Of(p) THEN None ELSE holder
        inCall == \E c \in Of(p) : pc[c] # "idle"
    IN
    /\ IF inCall THEN "crash" \in Faults /\ Event ELSE UNCHANGED events
    /\ L!Crash(p)
    /\ pc' = [c \in Client |-> IF c \in Of(p) THEN "idle" ELSE pc[c]]
    /\ call' = [c \in Client |-> IF c \in Of(p) THEN None ELSE call[c]]
    /\ rlstore' = [c \in Client |-> IF c \in Of(p) THEN None ELSE rlstore[c]]
    /\ layerStore' = [layerStore EXCEPT ![p] = None] /\ Collect(MountCount, ctr)
    /\ known' = known \ {p} /\ loaded' = loaded \cup {p}
    /\ graphLock' = freed(graphLock) /\ mountsLock' = freed(mountsLock)
    /\ loadMut' = [o \in Object |-> freed(loadMut[o])]
    /\ locker' = [o \in Object |-> freed(locker[o])]
    /\ replaced' = (replaced /\ mountsLock \notin Of(p))
    /\ lw' = lw \ {p}
    /\ happened' = happened \cup {f \in {"crash"} : inCall}
    /\ UNCHANGED <<shutdown, count, touched, mounted, holds>>

Step(c) ==
    \/ Lock_graphLock(c) \/ Lock(c)
    \/ \E changed \in BOOLEAN : ReloadIfChanged(c, changed)
    \/ Load(c) \/ loadMounts(c)
    \/ Mounted(c) \/ Mount(c) \/ IncrementMountCount(c) \/ Unmount(c) \/ DecrementMountCount(c)
    \/ Save(c)
    \/ Get(c) \/ mountFunc(c) \/ mountFails(c)
    \/ Put(c) \/ unmountFunc(c) \/ \E logged \in BOOLEAN : unmountFails(c, logged)
    \/ \E force \in BOOLEAN : Shutdown(c, force)
    \/ UnmountForced(c) \/ Return(c)

Next ==
    \/ \E c \in Client : Step(c) \/ \E m \in Call : LayerStore(c, m)
    \/ \E p \in Proc : Exit(p)

Spec == Init /\ [][Next]_vars

\* Goroutines that can run are run, and readers are closed.
FairSpec == Spec /\ \A c \in Client : WF_vars(Step(c))

-----------------------------------------------------------------------------
PC == {"idle", "graphLock", "lock", "reload", "Load", "loadMounts", "ready", "Get", "mount",
       "count", "open", "uncount", "Put", "unmount", "loop", "return"}

\* Type invariant.
TypeOK ==
    /\ pc \in [Client -> PC] /\ call \in [Client -> Calls \cup {None}]
    /\ rlstore \in [Client -> Object \cup {None}]
    /\ layerStore \in [Proc -> Object \cup {None}]
    /\ shutdown \in BOOLEAN /\ known \subseteq Proc /\ loaded \subseteq Proc
    /\ readers \subseteq Client /\ writers \subseteq Client
    /\ graphLock \in Client \cup {None} /\ mountsLock \in Client \cup {None}
    /\ loadMut \in [Object -> Client \cup {None}] /\ locker \in [Object -> Client \cup {None}]
    /\ count \in Nat /\ touched \in BOOLEAN /\ lw \subseteq Proc
    /\ MountCount \in [Object -> Nat] /\ replaced \in BOOLEAN
    /\ ctr \in [Object -> Counter]
    /\ mounted \in Nat /\ holds \in Nat
    /\ happened \subseteq Faults \cup {"forced", "skewed", "shared"} /\ events \in 0..MaxEvents

\* The readers that have a counted mount.
TarSplitReaders == {c \in Client : call[c] = "DiffTarSplit" /\ pc[c] = "open"}

\* As long as a client needs a mount that it asked for, the layer is mounted:
\* no Unmount, Changes or Diff of another process unmounts it, even if
\* processes end in the middle of their calls or cannot unmount.  (A Get whose
\* mount fails and a Shutdown that is told to may unmount it.)
MountedWhileHeld == happened \subseteq {"crash", "shared", "unmount"} /\ holds > 0 => mounted > 0

\* The clients whose Unmount has not reached mountpoints.json yet.
Leaving ==
    {c \in Client :
        \/ call[c] = "Unmount" /\ pc[c] # "return"
        \/ call[c] = "DiffTarSplit" /\ pc[c] \in {"Put", "unmount", "uncount"}}

\* mountpoints.json counts the mounts that clients asked for and still need,
\* unless a process died in the middle of a call, Shutdown unmounted or
\* unmounting failed (layers.go:957, where the count stays).
CountsHolds ==
    happened \subseteq {"mount", "shared"} =>
        count = holds + Cardinality(TarSplitReaders \cup Leaving)

\* When no call is running, the layer is mounted once if a client needs it
\* and otherwise not at all, unless a process died in the middle of a call or
\* mounting or unmounting failed.  (A Diff whose reader is counted may find the layer mounted
\* by one whose reader is not, and not notice that this one unmounts it.)
NoMountLeft ==
    happened = {} /\ (\A c \in Client : pc[c] = "idle") =>
        mounted = IF holds > 0 THEN 1 ELSE 0

\* A client that may enter the critical section of mountpoints.lock and will
\* not reload has the right count, unless a Shutdown that was to unmount has
\* set its copy to 1 and failed (layers.go:950-957).
CountFresh ==
    "skewed" \notin happened => \A c \in Client :
        pc[c] = "ready" /\ mountsLock = None /\ ~Modified(ProcOf[c])
            => MountCount[rlstore[c]] = count

\* No calls wait for one another forever: as long as one is running, one can
\* take a step.
NoDeadlock ==
    (\E c \in Client : pc[c] # "idle") => ENABLED (\E c \in Client : Step(c))

\* While the reader that Diff returned is open, or Changes reads, the layer is
\* mounted ("be safe and treat the .Diff operation as a Mount").
MountedWhileRead == \A c \in Client : pc[c] = "open" => mounted > 0

\* Shutdown, told to unmount what is mounted, returns.
ShutdownReturns ==
    \A c \in Client : (pc[c] = "loop") ~> (pc[c] = "idle")

\* The layer is mounted as long as it is needed and not longer.
MountedAsHeld == MountedWhileHeld /\ NoMountLeft

\* The count of mounts is right, on disk and in the copy of whoever is about to change it.
CountsAgree == TypeOK /\ CountsHolds /\ CountFresh

=============================================================================
