----------------------------- MODULE LayerStore -----------------------------
(***************************************************************************)
(* How layerStore adds and removes a layer (layers.go): the record in      *)
(* layers.json, with its "incomplete" flag, and the contents that the      *)
(* driver keeps.  Put records an incomplete layer, fills it, and records   *)
(* it again; Load, whenever the process has the write lock, removes the    *)
(* incomplete layers that it finds.                                        *)
(*                                                                         *)
(* A process may have several layerStores (see Mounts): mount drops the    *)
(* current one, and the next call of LayerStore makes a new one, whose     *)
(* Load runs without layers.lock.  All share the process's lock files.     *)
(* A write of layers.json and the Touch that follows are one step here;    *)
(* FileStore has them apart.                                               *)
(***************************************************************************)
EXTENDS Naturals, Sequences, FiniteSets, Functions

CONSTANTS
    Proc, Client, ProcOf,   \* a client is a goroutine
    Object,                 \* layerStores (bounded)
    Layer,                  \* IDs
    Calls,                  \* the kinds of calls, a subset of CallKind
    Faults,                 \* a subset of FaultKind
    MaxFaults,              \* bound on the number of faults
    None

\* "Put" stands for Put and Delete, "Get" for all calls that only read.
CallKind == {"Put", "Get", "mount"}

\* "apply", "remove": the driver fails to make or fill a layer, or to remove
\* one.  "write": a file cannot be written.  "crash": a process dies.
FaultKind == {"apply", "remove", "write", "crash"}

ASSUME ProcOfAssumption == ProcOf \in [Client -> Proc]
ASSUME KindAssumption == Calls \subseteq CallKind /\ Faults \subseteq FaultKind
ASSUME NoneAssumption == None \notin Client \cup Object \cup Layer
ASSUME BoundAssumption == MaxFaults \in Nat

VARIABLES
    file,             \* layers.json: a sequence of records
    data,             \* what the driver has of a layer
    lw,               \* the processes that know the last writer of layers.lock
    layers,           \* a layerStore's copy of file
    seen,             \* the layerStores that know the modification time of file
    readers, writers, \* layers.lock
    graphLock,        \* the client that holds storage.lock
    layerStore,       \* a process's current one
    pc, call, rlstore,\* a client's position, kind of call, and layerStore
    layer,            \* the layer that a client's Put or Delete is about
    loop,             \* the locals of Load's loop
    faults,           \* number of faults
    happened          \* what has gone wrong so far

lock == <<readers, writers>>
disk == <<file, data>>
known == <<lw, seen>>
local == <<pc, call, rlstore, layer, loop>>
history == <<faults, happened>>
vars == <<disk, known, layers, lock, graphLock, layerStore, local, history>>

Record == [id : Layer, parent : Layer \cup {None}, incomplete : BOOLEAN]
NoLoop == [array |-> <<>>, len |-> 0, i |-> 0, shouldSave |-> FALSE]

L == INSTANCE ReaderWriterLock WITH Goroutine <- Client

ids(s) == {r.id : r \in Range(s)}
Children(s, l) == {r \in Range(s) : r.parent = l}
Incomplete(s) == {r.id : r \in {x \in Range(s) : x.incomplete}}
\* deleteInternal closes the gap in the array of the layers; the last place keeps its old value.
Shift(array, len, j) ==
    [k \in DOMAIN array |-> IF k \in j..(len - 1) THEN array[k + 1] ELSE array[k]]

Without(s, l) ==
    IF l \notin ids(s) THEN s
    ELSE LET toDeleteIndex == CHOOSE j \in DOMAIN s : s[j].id = l
         IN  SubSeq(Shift(s, Len(s), toDeleteIndex), 1, Len(s) - 1)

IsFirst(k, S) == k \in S /\ \A m \in S : k <= m

Go(c, l) == pc' = [pc EXCEPT ![c] = l]

\* lockfile.Locked: somebody in the process holds the write lock.
Locked(p) == \E c \in writers : ProcOf[c] = p

Fault(f) ==
    /\ f \in Faults /\ faults < MaxFaults
    /\ faults' = faults + 1
    /\ happened' = happened \cup {f}

-----------------------------------------------------------------------------
\* Some process has used the store before: both files exist.
Init ==
    /\ file = <<>> /\ data = [l \in Layer |-> "none"]
    /\ lw = {} /\ seen = {} /\ layers = [o \in Object |-> <<>>]
    /\ L!Init /\ graphLock = None /\ layerStore = [p \in Proc |-> None]
    /\ pc = [c \in Client |-> "idle"] /\ call = [c \in Client |-> None]
    /\ rlstore = [c \in Client |-> None] /\ layer = [c \in Client |-> None]
    /\ loop = [c \in Client |-> NoLoop]
    /\ faults = 0 /\ happened = {}

\* layerStores that nobody uses any more are forgotten.
Collect ==
    LET used == {layerStore'[p] : p \in Proc} \cup {rlstore'[c] : c \in Client} IN
    /\ layers' = [o \in Object |-> IF o \in used THEN layers[o] ELSE <<>>]
    /\ seen' = seen \cap used

\* Where a call waits first, once it has a layerStore.
Entry(kind) == IF kind = "mount" THEN "graphLock" ELSE "lock"

\* Load has returned to ReloadIfChanged, or to LayerStore: that returns too.
Loaded(c, o, kind) ==
    IF c \in readers \cup writers
    THEN Go(c, "ready") /\ UNCHANGED <<graphLock, layerStore>>
    ELSE /\ layerStore' = [layerStore EXCEPT ![ProcOf[c]] = o]
         /\ graphLock' = None
         /\ Go(c, Entry(kind))

\* Load reads the records; the rest of it matters only if one is incomplete.
Load(c, o, kind) ==
    /\ layers' = [layers EXCEPT ![o] = file]
    /\ IF Incomplete(file) = {}
       THEN Loaded(c, o, kind)
       ELSE /\ Go(c, "load")
            /\ graphLock' = IF c \in readers \cup writers THEN graphLock ELSE c
            /\ UNCHANGED layerStore

\* LayerStore, which holds storage.lock, returns the layerStore that there is
\* or makes one and loads it.
LayerStore(c, kind) ==
    LET p == ProcOf[c]
        free == {o \in Object : (\A q \in Proc : layerStore[q] # o)
                                    /\ \A d \in Client : rlstore[d] # o}
    IN
    /\ pc[c] = "idle" /\ graphLock = None
    /\ call' = [call EXCEPT ![c] = kind]
    /\ IF layerStore[p] # None
       THEN /\ rlstore' = [rlstore EXCEPT ![c] = layerStore[p]]
            /\ Go(c, Entry(kind))
            /\ UNCHANGED <<layers, seen, graphLock, layerStore>>
       ELSE /\ free # {}
            /\ LET o == CHOOSE x \in free : TRUE IN
                /\ rlstore' = [rlstore EXCEPT ![c] = o]
                /\ seen' = seen \ {o}
                /\ Load(c, o, kind)
    /\ UNCHANGED <<disk, lw, lock, layer, loop, history>>

\* mount takes storage.lock, and keeps it until it returns.
mount(c) ==
    /\ pc[c] = "graphLock" /\ graphLock = None
    /\ graphLock' = c
    /\ Go(c, "lock")
    /\ UNCHANGED <<disk, known, layers, lock, layerStore, call, rlstore, layer, loop, history>>

\* As long as no Shutdown has written to storage.lock, that is always
\* modified, and mount drops the layerStore.
mountModified(c) ==
    /\ pc[c] = "ready" /\ call[c] = "mount"
    /\ layerStore' = [layerStore EXCEPT ![ProcOf[c]] = None]
    /\ Go(c, "return")
    /\ UNCHANGED rlstore /\ Collect
    /\ UNCHANGED <<disk, lw, lock, graphLock, call, layer, loop, history>>

Lock(c) ==
    /\ pc[c] = "lock"
    /\ IF call[c] = "Get" THEN L!RLock(c) ELSE L!Lock(c)
    /\ Go(c, "reload")
    /\ UNCHANGED <<disk, known, layers, graphLock, layerStore, call, rlstore, layer, loop, history>>

\* Mutant of ReloadIfChanged: only mountpoints.lock is looked at.
ReloadIfMounted(c, mmodified) ==
    /\ pc[c] = "reload"
    /\ IF mmodified
       THEN Load(c, rlstore[c], call[c])
       ELSE Go(c, "ready") /\ UNCHANGED <<layers, graphLock, layerStore>>
    /\ UNCHANGED <<disk, known, lock, call, rlstore, layer, loop, history>>

\* ReloadIfChanged.  mmodified: mountpoints.lock is modified.
ReloadIfChanged(c, mmodified) ==
    LET p == ProcOf[c]
        o == rlstore[c]
        lmodified == p \notin lw
        tmodified == o \notin seen
    IN
    /\ pc[c] = "reload"
    /\ lw' = lw \cup {p}
    /\ seen' = IF lmodified \/ mmodified THEN seen ELSE seen \cup {o}
    /\ IF lmodified \/ mmodified \/ tmodified
       THEN Load(c, o, call[c])
       ELSE Go(c, "ready") /\ UNCHANGED <<layers, graphLock, layerStore>>
    /\ UNCHANGED <<disk, lock, call, rlstore, layer, loop, history>>

\* The loop needs the write lock; with it, it may be another goroutine's.
BeginLoop(c) ==
    LET s == layers[rlstore[c]] IN
    /\ pc[c] = "load"
    /\ IF Locked(ProcOf[c])
       THEN /\ loop' = [loop EXCEPT ![c] = [array |-> s, len |-> Len(s), i |-> 1,
                                            shouldSave |-> FALSE]]
            /\ Go(c, "loop")
            /\ UNCHANGED <<graphLock, layerStore>>
       ELSE Loaded(c, rlstore[c], call[c]) /\ UNCHANGED loop
    /\ UNCHANGED <<disk, known, layers, lock, call, rlstore, layer, history>>

\* The rest of Load after its loop.
AfterLoop(c, shouldSave, err) ==
    IF shouldSave THEN Go(c, "saveLoop") /\ UNCHANGED <<graphLock, layerStore>>
    ELSE IF err THEN Go(c, "return") /\ UNCHANGED <<graphLock, layerStore>>
    ELSE Loaded(c, rlstore[c], call[c])

\* The loop of Load, as far as the next incomplete layer.  It ranges over the array that
\* deleteInternal changes, as long as that was at first.  The loop ends with
\* the first error, which is forgotten if another layer was deleted before.
LoadLoop(c) ==
    LET o == rlstore[c]
        s == loop[c]
        found == {k \in s.i..Len(s.array) : s.array[k].incomplete}
        at(l) == {j \in 1..s.len : s.array[j].id = l}
    IN
    /\ pc[c] = "loop"
    /\ \/ /\ found = {}
          /\ AfterLoop(c, s.shouldSave, FALSE)
          /\ loop' = [loop EXCEPT ![c] = NoLoop]
          /\ UNCHANGED <<data, layers, history>>
       \/ \E k \in found, j \in 1..s.len :
          LET l == s.array[k].id
              removed == Shift(s.array, s.len, j)
          IN
          /\ IsFirst(k, found) /\ IsFirst(j, at(l))
          /\ data' = [data EXCEPT ![l] = "none"]
          /\ loop' = [loop EXCEPT ![c] = [array |-> removed, len |-> s.len - 1, i |-> k + 1,
                                          shouldSave |-> TRUE]]
          /\ layers' = [layers EXCEPT ![o] = SubSeq(removed, 1, s.len - 1)]
          /\ UNCHANGED <<pc, graphLock, layerStore, history>>
       \/ \E k \in found :
          /\ IsFirst(k, found)
          /\ IF at(s.array[k].id) = {} THEN UNCHANGED history ELSE Fault("remove")
          /\ AfterLoop(c, s.shouldSave, TRUE)
          /\ loop' = [loop EXCEPT ![c] = NoLoop]
          /\ UNCHANGED <<data, layers>>
    /\ UNCHANGED <<file, known, lock, call, rlstore, layer>>

\* Load has mountpoints.lock to read, which Save waits for.
Loading == {c \in Client : pc[c] \in {"loop", "saveLoop"}}

\* saveLayers: the copy becomes the file, or it is not written; either way
\* the others find the lock file modified.
saveLayers(c, written) ==
    /\ lw' = {ProcOf[c]}
    /\ IF written
       THEN file' = layers[rlstore[c]] /\ seen' = {}
       ELSE UNCHANGED <<file, seen>>

\* Load saves, if the write lock is still held by somebody in the process.
SaveLoop(c) ==
    /\ pc[c] = "saveLoop"
    /\ IF Locked(ProcOf[c])
       THEN \/ saveLayers(c, TRUE) /\ Loaded(c, rlstore[c], call[c]) /\ UNCHANGED history
            \/ /\ saveLayers(c, FALSE) /\ Fault("write")
               /\ Go(c, "return") /\ UNCHANGED <<graphLock, layerStore>>
       ELSE Go(c, "return") /\ UNCHANGED <<file, known, graphLock, layerStore, history>>
    /\ UNCHANGED <<data, layers, lock, call, rlstore, layer, loop>>

-----------------------------------------------------------------------------
(* Put. *)

\* Save, and then the call goes on at l; or at f, if layers.json cannot be
\* written, or if it has been and mountpoints.json cannot.
Save(c, l, f) ==
    /\ Loading = {}
    /\ \/ saveLayers(c, TRUE) /\ Go(c, l) /\ UNCHANGED history
       \/ \E written \in BOOLEAN : saveLayers(c, written) /\ Fault("write") /\ Go(c, f)

\* Mutant of Create: the layer is not marked.
CreateUnmarked(c, l, parent, diff) ==
    LET o == rlstore[c] IN
    /\ pc[c] = "ready" /\ call[c] = "Put"
    /\ l \notin ids(layers[o]) /\ parent \in ids(layers[o]) \cup {None}
    /\ data' = [data EXCEPT ![l] = IF ~diff THEN "full" ELSE IF @ = "none" THEN "empty" ELSE @]
    /\ layers' = [layers EXCEPT ![o] =
           Append(@, [id |-> l, parent |-> parent, incomplete |-> FALSE])]
    /\ layer' = [layer EXCEPT ![c] = l]
    /\ Go(c, IF diff THEN "saveIncomplete" ELSE "saveComplete")
    /\ UNCHANGED <<file, known, lock, graphLock, layerStore, call, rlstore, loop, history>>

\* Put makes the layer in the driver, which keeps what it may already have,
\* unless the ID is in use or the parent unknown.  Without a diff the layer
\* is complete.  The driver may fail, which leaves nothing, or fail later to
\* change the owners of what it has made, which is then removed.
Create(c, l, parent, diff) ==
    LET o == rlstore[c]
        valid == l \notin ids(layers[o]) /\ parent \in ids(layers[o]) \cup {None}
    IN
    /\ pc[c] = "ready" /\ call[c] = "Put"
    /\ \/ /\ valid
          /\ data' = [data EXCEPT ![l] =
                         IF ~diff THEN "full" ELSE IF @ = "none" THEN "empty" ELSE @]
          /\ layers' = [layers EXCEPT ![o] =
                 Append(@, [id |-> l, parent |-> parent, incomplete |-> diff])]
          /\ layer' = [layer EXCEPT ![c] = l]
          /\ happened' = happened \cup
                 {h \in {"builtOnIncomplete"} : parent \in Incomplete(layers[o])}
          /\ Go(c, IF diff THEN "saveIncomplete" ELSE "saveComplete")
          /\ UNCHANGED faults
       \/ /\ valid /\ Fault("apply")
          /\ \/ /\ data' = [data EXCEPT ![l] = IF @ = "none" THEN "empty" ELSE @]
                /\ layer' = [layer EXCEPT ![c] = l]
                /\ Go(c, "undo")
             \/ Go(c, "return") /\ UNCHANGED <<data, layer>>
          /\ UNCHANGED layers
       \/ ~valid /\ Go(c, "return") /\ UNCHANGED <<data, layers, layer, history>>
    /\ UNCHANGED <<file, known, lock, graphLock, layerStore, call, rlstore, loop>>

SaveIncomplete(c) ==
    /\ pc[c] = "saveIncomplete"
    /\ Save(c, "apply", "undo")
    /\ UNCHANGED <<data, layers, lock, graphLock, layerStore, call, rlstore, layer, loop>>

\* applyDiffWithOptions.  What somebody else has removed is made again in part.
ApplyDiff(c) ==
    LET l == layer[c] IN
    /\ pc[c] = "apply"
    /\ \/ /\ data' = [data EXCEPT ![l] = IF @ = "none" THEN "partial" ELSE "full"]
          /\ Go(c, "saveDigests")
          /\ UNCHANGED history
       \/ /\ data' = [data EXCEPT ![l] = "partial"]
          /\ Fault("apply")
          /\ Go(c, "remove")
    /\ UNCHANGED <<file, known, layers, lock, graphLock, layerStore, call, rlstore, layer, loop>>

\* applyDiffWithOptions saves; its error makes Put delete the layer.  Then the
\* flag is dropped.
SaveDigests(c) ==
    /\ pc[c] = "saveDigests"
    /\ Save(c, "complete", "remove")
    /\ UNCHANGED <<data, layers, lock, graphLock, layerStore, call, rlstore, layer, loop>>

Complete(c) ==
    LET o == rlstore[c] IN
    /\ pc[c] = "complete"
    /\ layers' = [layers EXCEPT ![o] =
           [k \in DOMAIN @ |-> IF @[k].id = layer[c]
                               THEN [@[k] EXCEPT !.incomplete = FALSE] ELSE @[k]]]
    /\ Go(c, "saveComplete")
    /\ UNCHANGED <<disk, known, lock, graphLock, layerStore, call, rlstore, layer, loop, history>>

SaveComplete(c) ==
    /\ pc[c] = "saveComplete"
    /\ Save(c, "return", "undo")
    /\ UNCHANGED <<data, layers, lock, graphLock, layerStore, call, rlstore, layer, loop>>

\* "We don't have a record of this layer": the driver removes it, or not.
Undo(c) ==
    /\ pc[c] = "undo"
    /\ \/ data' = [data EXCEPT ![layer[c]] = "none"] /\ UNCHANGED history
       \/ Fault("remove") /\ UNCHANGED data
    /\ Go(c, "return")
    /\ UNCHANGED <<file, known, layers, lock, graphLock, layerStore, call, rlstore, layer, loop>>

-----------------------------------------------------------------------------
(* Delete, of a layer without children, or by Put. *)

Delete(c, l) ==
    LET s == layers[rlstore[c]] IN
    /\ pc[c] = "ready" /\ call[c] = "Put"
    /\ IF l \in ids(s) /\ Children(s, l) = {}
       THEN Go(c, "remove") /\ layer' = [layer EXCEPT ![c] = l]
       ELSE Go(c, "return") /\ UNCHANGED layer
    /\ UNCHANGED <<disk, known, layers, lock, graphLock, layerStore, call, rlstore, loop, history>>

\* The driver removes the contents, and then the record goes.
deleteInternal(c) ==
    LET l == layer[c] IN
    /\ pc[c] = "remove"
    /\ \/ /\ data' = [data EXCEPT ![l] = "none"]
          /\ layers' = [layers EXCEPT ![rlstore[c]] = Without(@, l)]
          /\ Go(c, "saveRemoved")
          /\ UNCHANGED history
       \/ /\ Fault("remove")
          /\ Go(c, "return")
          /\ UNCHANGED <<data, layers>>
    /\ UNCHANGED <<file, known, lock, graphLock, layerStore, call, rlstore, layer, loop>>

SaveRemoved(c) ==
    /\ pc[c] = "saveRemoved"
    /\ Save(c, "return", "return")
    /\ UNCHANGED <<data, layers, lock, graphLock, layerStore, call, rlstore, layer, loop>>

\* The call returns, from anywhere in it if there is nothing more to do.
Return(c) ==
    /\ pc[c] = "return" \/ (pc[c] = "ready" /\ call[c] = "Get")
    /\ IF c \in readers \cup writers THEN L!Unlock(c) ELSE UNCHANGED lock
    /\ graphLock' = IF graphLock = c THEN None ELSE graphLock
    /\ Go(c, "idle")
    /\ call' = [call EXCEPT ![c] = None]
    /\ layer' = [layer EXCEPT ![c] = None]
    /\ rlstore' = [rlstore EXCEPT ![c] = None]
    /\ UNCHANGED layerStore /\ Collect
    /\ UNCHANGED <<disk, lw, loop, history>>

Of(p) == {c \in Client : ProcOf[c] = p}

\* The process dies in the middle of a call, and another one takes its place.
Crash(p) ==
    LET reset(f, v) == [c \in Client |-> IF c \in Of(p) THEN v ELSE f[c]] IN
    /\ \E c \in Of(p) : pc[c] # "idle"
    /\ "crash" \in Faults /\ faults < MaxFaults
    /\ faults' = faults + 1
    /\ happened' = happened \cup {"crash"}
           \cup {h \in {"halfDeleted"} : \E c \in Of(p) :
                    pc[c] = "saveRemoved" /\ layer[c] \notin Incomplete(file)}
    /\ L!Crash(p)
    /\ graphLock' = IF graphLock \in Of(p) THEN None ELSE graphLock
    /\ layerStore' = [layerStore EXCEPT ![p] = None]
    /\ lw' = lw \ {p}
    /\ pc' = reset(pc, "idle") /\ call' = reset(call, None)
    /\ rlstore' = reset(rlstore, None) /\ layer' = reset(layer, None)
    /\ loop' = reset(loop, NoLoop)
    /\ Collect
    /\ UNCHANGED disk

Step(c) ==
    \/ mount(c) \/ mountModified(c) \/ Lock(c) \/ \E m \in BOOLEAN : ReloadIfChanged(c, m)
    \/ BeginLoop(c) \/ LoadLoop(c) \/ SaveLoop(c)
    \/ \E l \in Layer :
          \/ \E parent \in (Layer \ {l}) \cup {None}, diff \in BOOLEAN : Create(c, l, parent, diff)
          \/ Delete(c, l)
    \/ SaveIncomplete(c) \/ ApplyDiff(c) \/ SaveDigests(c)
    \/ Complete(c) \/ SaveComplete(c) \/ Undo(c)
    \/ deleteInternal(c) \/ SaveRemoved(c) \/ Return(c)

Next ==
    \/ \E c \in Client : Step(c) \/ \E kind \in Calls : LayerStore(c, kind)
    \/ \E p \in Proc : Crash(p)

Spec == Init /\ [][Next]_vars

-----------------------------------------------------------------------------
PC == {"idle", "graphLock", "lock", "reload", "load", "loop", "saveLoop", "ready",
       "saveIncomplete", "apply", "saveDigests", "complete", "saveComplete", "undo",
       "remove", "saveRemoved", "return"}

\* Type invariant.
TypeOK ==
    /\ file \in Seq(Record) /\ layers \in [Object -> Seq(Record)]
    /\ data \in [Layer -> {"none", "empty", "partial", "full"}]
    /\ lw \subseteq Proc /\ seen \subseteq Object
    /\ readers \subseteq Client /\ writers \subseteq Client
    /\ graphLock \in Client \cup {None} /\ layerStore \in [Proc -> Object \cup {None}]
    /\ pc \in [Client -> PC] /\ call \in [Client -> CallKind \cup {None}]
    /\ rlstore \in [Client -> Object \cup {None}] /\ layer \in [Client -> Layer \cup {None}]
    /\ loop \in [Client -> [array : Seq(Record), len : Nat, i : Nat, shouldSave : BOOLEAN]]
    /\ faults \in 0..MaxFaults
    /\ happened \subseteq FaultKind \cup {"halfDeleted", "builtOnIncomplete"}

\* A layer that layers.json calls complete has all its contents, wherever
\* processes died in Put or in Load and whatever the driver failed to do.
\* (Delete removes the contents first, so a process that dies in Delete, or
\* that cannot write layers.json, leaves a record without contents.)
CompleteLayersHaveData ==
    happened \cap {"write", "halfDeleted"} = {} =>
        \A r \in Range(file) :
            \/ r.incomplete
            \/ data[r.id] = "full"
            \/ \E c \in Client : pc[c] = "saveRemoved" /\ layer[c] = r.id

\* An operation works on what is on disk.
Fresh ==
    "write" \notin happened =>
        \A c \in Client : pc[c] = "ready" => layers[rlstore[c]] = file

\* Only Delete, and not the loop of Load, makes a complete layer disappear.
OnlyDeleteRemoves ==
    [][\A r \in Range(file) :
           ~r.incomplete /\ r.id \notin ids(file') /\ "write" \notin happened =>
               \E c \in Client : pc[c] = "saveRemoved" /\ layer[c] = r.id]_vars

\* Every parent is recorded, unless Put was asked to build on an incomplete
\* layer that a process which died has left.
ParentsExist ==
    happened \cap {"write", "builtOnIncomplete"} = {} =>
        \A r \in Range(file) : r.parent \in ids(file) \cup {None}

\* Without a crash and with a driver that can remove layers, the driver has
\* nothing that is not recorded when no call is running.
NothingLeft ==
    happened \subseteq {"apply", "write"} /\ (\A c \in Client : pc[c] = "idle") =>
        \A l \in Layer : data[l] # "none" => l \in ids(file)

\* Load removes what "a previous user of this storage area marked for deletion
\* but didn't manage to actually delete", not what a present one is writing:
\* the layer that a Put is filling stays recorded, and the driver keeps it.
NotRemovedWhileWritten ==
    \A c \in Client :
        pc[c] = "apply" /\ "write" \notin happened =>
            layer[c] \in Incomplete(file) /\ data[layer[c]] # "none"

\* The records agree with the contents that the driver has, with each other and, in memory, with
\* the file, wherever Put, Delete and Load were interrupted.
RecordsMatchData == TypeOK /\ Fresh /\ CompleteLayersHaveData /\ ParentsExist /\ NothingLeft

=============================================================================
