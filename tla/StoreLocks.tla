----------------------------- MODULE StoreLocks -----------------------------
(***************************************************************************)
(* The calls of store.go as the locks that they take and the stores that   *)
(* they look into, in order.                                               *)
(*                                                                         *)
(* A call is a sequence of instructions.  Every method of store begins by  *)
(* asking for the stores (LayerStore and ROLayerStores take and release    *)
(* storage.lock), locks the stores one after the other, each followed by   *)
(* ReloadIfChanged, looks into each of them for what the call is about,    *)
(* and releases all of them when it returns (defer).  A store is the set   *)
(* of the keys, IDs or names, that it knows: on disk, and in the memory of *)
(* each process.                                                           *)
(*                                                                         *)
(* Processes "p" and "q" share a storage area ("main") and have the area   *)
(* of process "w" ("additional") as an additional image store, which they  *)
(* only read.  The threads of a process share a lock file's RWMutex, which *)
(* lets no reader in while a writer waits; between processes there is no   *)
(* such precedence (fcntl).  No lock is taken while mountpoints.lock is    *)
(* held, so that it is left out.                                           *)
(***************************************************************************)
EXTENDS Integers, FiniteSets, Sequences, SequencesExt

CONSTANTS
    Thread,
    ProcsOf,     \* the processes that a thread may be of
    Key,         \* IDs and names
    IDRange,     \* ranges of IDs to assign to a user namespace
    MaxCalls     \* bound on the calls that each thread makes

Proc == {"p", "q", "w"}

ASSUME ProcsOfAssumption == ProcsOf \in [Thread -> SUBSET Proc \ {{}}]
ASSUME MaxCallsAssumption == MaxCalls \in Nat

VARIABLES
    proc,        \* a thread's process
    todo,        \* what is left of a thread's call
    key,         \* the key that it was called with
    calls,       \* the number of calls that a thread has made
    held,        \* the locks that it holds, each with its mode
    saw,         \* whether the key was there, for the stores it has looked into, and
                 \* the function that looked into a store that it had not locked
    disk,        \* the keys in a store's file
    mem,         \* the keys in a process's copy of a store
    dirs,        \* the directories of containers, in the graph root and the run root
    leftover,    \* those that were made without a lock, or that Wipe or Delete has left
    range,       \* the range that getAutoUserNS has chosen
    inUse        \* the number of containers of a storage area that have a range

vars == <<proc, todo, key, calls, held, saw, disk, mem, dirs, leftover, range, inUse>>
data == <<disk, mem, dirs, leftover, inUse>>

Home(p) == IF p = "w" THEN "additional" ELSE "main"

\* The file behind a role that a store or a lock has in a process's calls.
File(p, role) ==
    CASE role = "roLayers" -> <<"additional", "layers">>
      [] role = "roImages" -> <<"additional", "images">>
      [] OTHER             -> <<Home(p), role>>

Store == {"main", "additional"} \X {"layers", "images", "containers"}
LockFile == {"main", "additional"} \X {"graph", "userns", "layers", "images", "containers"}

NoRange == 0

-----------------------------------------------------------------------------
\* Instructions.  "by" names the function where it matters, and skip is the
\* number of instructions that the answer of a look skips.
Do(op, at) == [op |-> op, at |-> at, by |-> "", skip |-> 0]

\* No one locks storage.lock or userns.lock for reading: there is no one to keep
\* out by waiting for them.
Lock(s) == (IF s \in {"graph", "userns"} THEN <<>> ELSE <<Do("ask", s)>>) \o <<Do("lock", s)>>
RLock(s) == <<Do("rlock", s)>>
Unlock(s) == <<Do("unlock", s)>>

\* The call returns if the key is there (Find), or is not there (Need).
Find(s) == <<Do("find", s)>>
Need(s) == <<Do("need", s)>>
Hit(s, n) == <<[Do("hit", s) EXCEPT !.skip = n]>>
Miss(s, n) == <<[Do("miss", s) EXCEPT !.skip = n]>>

\* If the key is there, change its record and return.
Update(s) == <<Do("find", s)>>
Put(s) == <<Do("put", s)>>
Drop(s) == <<Do("drop", s)>>

By(prog, f) == [i \in 1..Len(prog) |-> [prog[i] EXCEPT !.by = f]]

layerStores(p) == <<"layers">> \o IF p = "w" THEN <<>> ELSE <<"roLayers">>
imageStores(p) == <<"images">> \o IF p = "w" THEN <<>> ELSE <<"roImages">>

RLockAll(stores) == FlattenSeq([i \in 1..Len(stores) |-> RLock(stores[i])])
UnlockAll(stores) == FlattenSeq([i \in 1..Len(stores) |-> Unlock(stores[i])])

\* Look into the stores until one knows the key, and return.
Search(stores) == FlattenSeq([i \in 1..Len(stores) |-> RLock(stores[i]) \o Find(stores[i])])

\* Look into them until one knows the key, and go on; return if none does.
SeekFrom(first, stores) ==
    LET n == Len(stores)
        lock(i) == IF i = 1 THEN first ELSE RLock(stores[i])
    IN  FlattenSeq([i \in 1..n |->
            lock(i) \o IF i < n THEN Hit(stores[i], 2 * (n - i)) ELSE Need(stores[i])])

Seek(stores) == SeekFrom(RLock(stores[1]), stores)
SeekToWrite(stores) == SeekFrom(Lock(stores[1]), stores)

\* A call within a call: its locks are released before the caller goes on.
Within(seek, stores) == seek \o UnlockAll(stores)

-----------------------------------------------------------------------------
\* LayerStore, ROLayerStores and GraphDriver hold storage.lock while they look
\* up or make the store or the driver.  newLayerStore loads it without layers.lock.
LayerStore == Lock("graph") \o Unlock("graph")
ROLayerStores == Lock("graph") \o Unlock("graph")

\* One after the other, with no lock held in between: once stands for both.
bothLayerStores == LayerStore

\* Calls that ask every store, the layers first.
Metadata(p) ==
    bothLayerStores \o Search(layerStores(p)) \o Search(imageStores(p))
        \o Search(<<"containers">>)
Exists(p) == Metadata(p)
Names(p) == Metadata(p)
Lookup(p) == Metadata(p)

SetMetadata ==
    LayerStore \o Lock("layers") \o Lock("images") \o Lock("containers")
        \o Update("layers") \o Update("images") \o Update("containers")

\* (Mutant of copyROImage: it locks the additional store for writing.)
copyROImageLocked(p) ==
    IF p = "w" THEN <<>>
    ELSE Lock("roImages") \o Miss("roImages", 2)
             \o Put("images") \o <<Do("return", "images")>>

\* The names of an image of an additional store: they are given to a copy of the
\* image's record in the writable store.
copyROImage(p) ==
    IF p = "w" THEN <<>>
    ELSE RLock("roImages") \o Miss("roImages", 2)
             \o Put("images") \o <<Do("return", "images")>>

SetNames(p) ==
    LayerStore \o Lock("layers") \o Update("layers") \o Lock("images") \o Update("images")
        \o copyROImage(p) \o Lock("containers") \o Update("containers")

\* Calls that ask for an image.
Image(p) == Search(imageStores(p))
ListImageBigData(p) == Search(imageStores(p))
ImageBigDataSize(p) == Search(imageStores(p))
ImageBigDataDigest(p) == Search(imageStores(p))
ImageBigData(p) == Search(imageStores(p))
Images(p) == RLockAll(imageStores(p))
ImagesByDigest(p) == RLockAll(imageStores(p))
SetImageBigData == Lock("images") \o Update("images")

\* The layers are looked up in stores that are locked already.
ImageSize(p) ==
    bothLayerStores \o RLockAll(layerStores(p)) \o Seek(imageStores(p))
        \o Hit("layers", 0)

\* Calls that ask for a layer.
Layer(p) == bothLayerStores \o Search(layerStores(p))
ListLayerBigData(p) == Layer(p)
LayerBigData(p) == Layer(p)
Changes(p) == Layer(p)
DiffSize(p) == Layer(p)
LayerSize(p) == Layer(p)
layersByMappedDigest(p) == bothLayerStores \o RLockAll(layerStores(p))
LayerParentOwners == LayerStore \o RLock("layers") \o Find("layers")

\* Layers locks the writable store exclusively and releases it at once.
Layers(p) ==
    LayerStore \o Lock("layers") \o Unlock("layers") \o ROLayerStores
        \o RLockAll(Tail(layerStores(p)))

SetLayerBigData == LayerStore \o Lock("layers") \o Update("layers")
ApplyDiff == SetLayerBigData
ApplyDiffFromStagingDirectory == SetLayerBigData
CleanupStagingDirectory == SetLayerBigData
ApplyDiffWithDiffer == SetLayerBigData
DifferTarget == SetLayerBigData

\* Diff releases a store that does not know the layer; it returns with the lock
\* of the other one held, which the reader that it returns releases when closed.
Diff(p) ==
    bothLayerStores \o Lock("graph") \o RLock("layers")
        \o IF p = "w" THEN Need("layers") \o Unlock("graph")
           ELSE Hit("layers", 3) \o Unlock("layers") \o RLock("roLayers") \o Need("roLayers")
                    \o Unlock("graph")

\* Calls that ask for a container.
Container == Search(<<"containers">>)
ListContainerBigData == Container
ContainerBigDataSize == Container
ContainerBigDataDigest == Container
ContainerBigData == Container
ContainerLayerID == Container
Containers == RLock("containers")
SetContainerBigData == Lock("containers") \o Update("containers")
ContainerParentOwners ==
    LayerStore \o RLock("layers") \o RLock("containers") \o Need("containers") \o Find("layers")

\* A container's directories are made by whoever asks for them, under its lock;
\* a file is written to them after it.
ContainerDirectory ==
    RLock("containers") \o Need("containers") \o <<Do("mkdir", "graph")>> \o Unlock("containers")
ContainerRunDirectory ==
    RLock("containers") \o Need("containers") \o <<Do("mkdir", "run")>> \o Unlock("containers")
SetContainerDirectoryFile == ContainerDirectory \o <<Do("mkdir", "graph")>>
SetContainerRunDirectoryFile == ContainerRunDirectory \o <<Do("mkdir", "run")>>
FromContainerDirectory == ContainerDirectory
FromContainerRunDirectory == ContainerRunDirectory

\* (Mutant of ContainerSize: the directories are asked for under its own lock.)
ContainerSizeNested(p) ==
    bothLayerStores \o RLockAll(layerStores(p)) \o RLock("containers")
        \o ContainerDirectory \o ContainerRunDirectory \o Need("containers") \o Hit("layers", 0)

\* The directories are asked for before containers.lock is taken, which their calls
\* take, too.
ContainerSize(p) ==
    bothLayerStores \o RLockAll(layerStores(p))
        \o ContainerDirectory \o ContainerRunDirectory
        \o RLock("containers") \o Need("containers") \o Hit("layers", 0)

\* Calls that start from a layer or a container and end in another store.
ImagesByTopLayer(p) ==
    bothLayerStores \o Within(Seek(layerStores(p)), layerStores(p))
        \o RLockAll(imageStores(p))
ContainerByLayer(p) ==
    bothLayerStores \o Within(Seek(layerStores(p)), layerStores(p))
        \o RLock("containers")

layerOfContainer == Within(RLock("containers") \o Hit("containers", 0), <<"containers">>)
Mounted == layerOfContainer \o LayerStore \o RLock("layers") \o Find("layers")
Unmount == layerOfContainer \o LayerStore \o Lock("layers") \o Update("layers")
UnmountImage(p) == Within(Seek(imageStores(p)), imageStores(p)) \o Unmount
mount == LayerStore \o Lock("graph") \o Lock("layers") \o Update("layers")
Mount == layerOfContainer \o mount
MountImage(p) == Within(Seek(imageStores(p)), imageStores(p)) \o mount
Shutdown == LayerStore \o Lock("graph") \o Lock("layers")
Status == LayerStore

\* Calls that make something.  A parent is looked up in the writable store, which
\* is locked, then in the additional ones.
seekParent(p) ==
    IF p = "w" THEN Need("layers")
    ELSE Hit("layers", 2) \o RLock("roLayers") \o Need("roLayers")

PutLayer(p, parent) ==
    bothLayerStores \o Lock("layers") \o Lock("containers")
        \o (IF parent THEN seekParent(p) ELSE <<>>) \o Put("layers")

PutAs(p, parent) ==
    LayerStore \o Lock("layers") \o By(ROLayerStores, "PutAs")
        \o (IF parent THEN seekParent(p) ELSE <<>>) \o Put("layers")

CreateImage(p, layer) ==
    (IF layer THEN bothLayerStores \o SeekToWrite(layerStores(p)) ELSE <<>>)
        \o Lock("images") \o Put("images")

\* getMaxSizeFromImage asks for the layer stores again and looks into all of them:
\* the writable one is locked, the additional ones are not.  The layer that it
\* makes, mounts and deletes is gone when layers.lock is released.
getMaxSizeFromImage(p) ==
    By(bothLayerStores
           \o (IF p = "w" THEN Need("layers") ELSE Hit("layers", 1) \o Need("roLayers"))
           \o LayerStore,
       "getMaxSizeFromImage")

getAutoUserNS(p, size) ==
    RLock("containers") \o <<Do("choose", "containers")>> \o Unlock("containers")
        \o IF size THEN getMaxSizeFromImage(p) ELSE <<>>

\* The additional stores are locked one after the other, and not at all once a
\* layer whose mappings match is found.  The layer's parent is looked for in all of
\* them, those that are not locked yet included.
imageTopLayerForMapping(p, match) ==
    By(CASE p = "w" -> Need("layers")
         [] p # "w" /\ match ->
                Hit("layers", 2) \o RLock("roLayers") \o Need("roLayers") \o Hit("roLayers", 0)
         [] p # "w" /\ ~match ->
                Miss("layers", 1) \o Hit("roLayers", 0) \o RLock("roLayers") \o Hit("roLayers", 0),
       "imageTopLayerForMapping")

\* (Mutant of CreateContainer: the range is chosen without userns.lock.)
CreateContainerUnserialized(p, image, userns, match) ==
    LayerStore
        \o (IF image THEN ROLayerStores \o Lock("layers") \o SeekToWrite(imageStores(p)) ELSE <<>>)
        \o (IF userns = "auto" THEN getAutoUserNS(p, image) ELSE <<>>)
        \o (IF image THEN imageTopLayerForMapping(p, match) ELSE Lock("layers"))
        \o Lock("containers") \o <<Do("create", "containers")>>

\* A container has the host's IDs, explicit mappings or ones that are chosen here.
CreateContainer(p, image, userns, match) ==
    LayerStore \o (IF userns # "host" THEN Lock("userns") ELSE <<>>)
        \o (IF image THEN ROLayerStores \o Lock("layers") \o SeekToWrite(imageStores(p)) ELSE <<>>)
        \o (IF userns = "auto" THEN getAutoUserNS(p, image) ELSE <<>>)
        \o (IF image THEN imageTopLayerForMapping(p, match) ELSE Lock("layers"))
        \o Lock("containers") \o <<Do("create", "containers")>>

\* Calls that delete hold all three stores.
lockAll == LayerStore \o Lock("layers") \o Lock("images") \o Lock("containers")
DeleteLayer == lockAll \o Drop("layers")
DeleteImage == lockAll \o Drop("images") \o Drop("layers")

\* (Mutant of DeleteContainer: the directory in the run root is forgotten.)
DeleteContainerHalf(late) ==
    lockAll \o Need("containers") \o Drop("layers") \o Drop("containers")
        \o <<Do("rmdir", "graph")>>

\* The goroutines of DeleteContainer run in any order.
DeleteContainer(late) ==
    lockAll \o Need("containers") \o Drop("layers")
        \o (IF late THEN Drop("containers") ELSE <<>>)
        \o <<Do("rmdir", "graph"), Do("rmdir", "run")>>
        \o (IF late THEN <<>> ELSE Drop("containers"))

\* A container with its layer, or an image's record, or a layer.  containerStore's
\* Delete removes the directory in the graph root; of the one in the run root only
\* its part userdata is removed.
Delete ==
    lockAll
        \o Miss("containers", 6) \o Need("layers") \o Drop("layers") \o Drop("containers")
            \o <<Do("rmdir", "graph"), Do("leave", "run"), Do("return", "containers")>>
        \o Miss("images", 2) \o Drop("images") \o <<Do("return", "images")>>
        \o Need("layers") \o Drop("layers")

\* containerStore.Wipe deletes the directories in the graph root only.
Wipe ==
    lockAll \o Drop("containers") \o <<Do("rmdir", "graph"), Do("leave", "run")>>
        \o Drop("images") \o Drop("layers")

Calls(p) ==
    {Metadata(p), Exists(p), Names(p), Lookup(p), SetMetadata, SetNames(p)}
    \cup {Image(p), ListImageBigData(p), ImageBigDataSize(p), ImageBigDataDigest(p),
          ImageBigData(p), Images(p), ImagesByDigest(p), SetImageBigData, ImageSize(p)}
    \cup {Layer(p), ListLayerBigData(p), LayerBigData(p), Changes(p), DiffSize(p),
          LayerSize(p), layersByMappedDigest(p), LayerParentOwners, Layers(p), Diff(p)}
    \cup {SetLayerBigData, ApplyDiff, ApplyDiffFromStagingDirectory, CleanupStagingDirectory,
          ApplyDiffWithDiffer, DifferTarget}
    \cup {Container, ListContainerBigData, ContainerBigDataSize, ContainerBigDataDigest,
          ContainerBigData, ContainerLayerID, Containers, SetContainerBigData,
          ContainerParentOwners, ContainerSize(p)}
    \cup {ContainerDirectory, ContainerRunDirectory, SetContainerDirectoryFile,
          SetContainerRunDirectoryFile, FromContainerDirectory, FromContainerRunDirectory}
    \cup {ImagesByTopLayer(p), ContainerByLayer(p), Mounted, Unmount, UnmountImage(p), Mount,
          MountImage(p), Shutdown, Status}
    \cup {PutLayer(p, b) : b \in BOOLEAN} \cup {PutAs(p, b) : b \in BOOLEAN}
    \cup {CreateImage(p, b) : b \in BOOLEAN}
    \cup {CreateContainer(p, image, userns, match) :
              image \in BOOLEAN, userns \in {"host", "explicit", "auto"}, match \in BOOLEAN}
    \cup {DeleteLayer, DeleteImage, Delete, Wipe} \cup {DeleteContainer(b) : b \in BOOLEAN}

-----------------------------------------------------------------------------
\* The lock files.
next(t) == todo[t][1]
fileOf(t) == File(proc[t], next(t).at)

Busy(t) == todo[t] # <<>>

\* A thread that waits for an exclusive lock has locked the RWMutex against new
\* readers of its process.
WaitsToWrite(t) == Busy(t) /\ next(t).op = "lock"
WaitsToRead(t) == Busy(t) /\ next(t).op = "rlock"

Holds(t, f) == \E mode \in {"r", "w"} : <<f, mode>> \in held[t]

\* The threads that t waits for: those that hold the lock file in a mode that
\* excludes t, and writers of its process that wait, for a reader.
Blockers(t) ==
    CASE WaitsToWrite(t) -> {u \in Thread : Holds(u, fileOf(t))}
      [] WaitsToRead(t)  ->
            {u \in Thread : <<fileOf(t), "w">> \in held[u]}
            \cup {u \in Thread : /\ WaitsToWrite(u)
                                 /\ proc[u] = proc[t]
                                 /\ fileOf(u) = fileOf(t)}
      [] OTHER -> {}

-----------------------------------------------------------------------------
NoKey == "no key"

Init ==
    /\ proc \in [Thread -> Proc]
    /\ \A t \in Thread : proc[t] \in ProcsOf[t]
    /\ todo = [t \in Thread |-> <<>>]
    /\ key = [t \in Thread |-> NoKey]
    /\ calls = [t \in Thread |-> 0]
    /\ held = [t \in Thread |-> {}]
    /\ saw = [t \in Thread |-> {}]
    /\ disk \in [Store -> SUBSET Key]
    /\ mem = [p \in Proc |-> [f \in Store |-> {}]]
    /\ dirs = {}
    /\ leftover = {}
    /\ range = [t \in Thread |-> NoRange]
    /\ inUse = [h \in {"main", "additional"} |-> [r \in IDRange |-> 0]]

Call(t) ==
    /\ key[t] = NoKey
    /\ calls[t] < MaxCalls
    /\ calls' = [calls EXCEPT ![t] = @ + 1]
    /\ \E prog \in Calls(proc[t]) : todo' = [todo EXCEPT ![t] = prog]
    /\ \E k \in Key : key' = [key EXCEPT ![t] = k]
    /\ UNCHANGED <<proc, held, saw, range, data>>

\* The deferred calls of Unlock.
Return(t) ==
    /\ key[t] # NoKey
    /\ todo[t] = <<>>
    /\ key' = [key EXCEPT ![t] = NoKey]
    /\ held' = [held EXCEPT ![t] = {}]
    /\ saw' = [saw EXCEPT ![t] = {}]
    /\ range' = [range EXCEPT ![t] = NoRange]
    /\ UNCHANGED <<proc, todo, calls, data>>

GoOn(t, skip) == todo' = [todo EXCEPT ![t] = SubSeq(@, 2 + skip, Len(@))]
Finish(t) == todo' = [todo EXCEPT ![t] = <<>>]

Ask(t) ==
    /\ Busy(t) /\ next(t).op = "ask"
    /\ GoOn(t, 0)
    /\ UNCHANGED <<proc, key, calls, held, saw, range, data>>

\* (Mutant of ReloadIfChanged: the process keeps its copy.)
keptCopy(t, f) == mem

\* A store's memory when t has locked it.
ReloadIfChanged(t, f) ==
    IF f \in Store THEN [mem EXCEPT ![proc[t]][f] = disk[f]] ELSE mem

Acquire(t) ==
    /\ WaitsToWrite(t) \/ WaitsToRead(t)
    /\ Blockers(t) = {}
    /\ held' = [held EXCEPT ![t] = @ \cup {<<fileOf(t), IF WaitsToRead(t) THEN "r" ELSE "w">>}]
    /\ mem' = ReloadIfChanged(t, fileOf(t))
    /\ GoOn(t, 0)
    /\ UNCHANGED <<proc, key, calls, saw, range, disk, dirs, leftover, inUse>>

Release(t) ==
    /\ Busy(t) /\ next(t).op = "unlock"
    /\ held' = [held EXCEPT ![t] = @ \ ({fileOf(t)} \X {"r", "w"})]
    /\ saw' = [saw EXCEPT ![t] = {s \in @ : s[1] # fileOf(t)}]
    /\ GoOn(t, 0)
    /\ UNCHANGED <<proc, key, calls, range, data>>

\* The function that looks into a store whose lock it does not hold, if t does.
unlockedBy(t) == IF Holds(t, fileOf(t)) THEN "" ELSE next(t).by

\* Exists, Get or Lookup of a store.  Without its lock the copy that is looked into
\* is of any age, and another thread may be loading it.
Look(t) ==
    /\ Busy(t) /\ next(t).op \in {"find", "need", "hit", "miss"}
    /\ \E there \in BOOLEAN :
       /\ Holds(t, fileOf(t)) => there = (key[t] \in mem[proc[t]][fileOf(t)])
       /\ saw' = [saw EXCEPT ![t] = @ \cup {<<fileOf(t), there, unlockedBy(t)>>}]
       /\ CASE next(t).op = "find" -> IF there THEN Finish(t) ELSE GoOn(t, 0)
            [] next(t).op = "need" -> IF there THEN GoOn(t, 0) ELSE Finish(t)
            [] next(t).op = "hit"  -> GoOn(t, IF there THEN next(t).skip ELSE 0)
            [] next(t).op = "miss" -> GoOn(t, IF there THEN 0 ELSE next(t).skip)
    /\ UNCHANGED <<proc, key, calls, held, range, data>>

Stop(t) ==
    /\ Busy(t) /\ next(t).op = "return"
    /\ Finish(t)
    /\ UNCHANGED <<proc, key, calls, held, saw, range, data>>

Save(t, f, keys) ==
    /\ disk' = [disk EXCEPT ![f] = keys]
    /\ mem' = [mem EXCEPT ![proc[t]][f] = keys]
    /\ saw' = [saw EXCEPT ![t] = {s \in @ : s[1] # f}]

\* Create or Put, and Delete, of a store.
Write(t) ==
    /\ Busy(t) /\ next(t).op \in {"put", "drop"}
    /\ LET known == mem[proc[t]][fileOf(t)] IN
       Save(t, fileOf(t), IF next(t).op = "put" THEN known \cup {key[t]} ELSE known \ {key[t]})
    /\ GoOn(t, 0)
    /\ UNCHANGED <<proc, key, calls, held, range, dirs, leftover, inUse>>

\* The container of a call with AutoUserNs has a new ID.
Create(t) ==
    /\ Busy(t) /\ next(t).op = "create"
    /\ IF range[t] = NoRange
       THEN /\ Save(t, fileOf(t), mem[proc[t]][fileOf(t)] \cup {key[t]})
            /\ UNCHANGED inUse
       ELSE /\ inUse' = [inUse EXCEPT ![Home(proc[t])][range[t]] = @ + 1]
            /\ UNCHANGED <<disk, mem, saw>>
    /\ GoOn(t, 0)
    /\ UNCHANGED <<proc, key, calls, held, range, dirs, leftover>>

\* getAutoUserNSIDMappings: a range that no container has, or an error.
Choose(t) ==
    /\ Busy(t) /\ next(t).op = "choose"
    /\ LET free == {r \in IDRange : inUse[Home(proc[t])][r] = 0} IN
       IF free = {} THEN Finish(t) /\ UNCHANGED range
       ELSE /\ range' = [range EXCEPT ![t] = CHOOSE r \in free : TRUE]
            /\ GoOn(t, 0)
    /\ UNCHANGED <<proc, key, calls, held, saw, data>>

directory(t) == <<next(t).at, Home(proc[t]), key[t]>>

MakeDir(t) ==
    /\ Busy(t) /\ next(t).op = "mkdir"
    /\ dirs' = dirs \cup {directory(t)}
    /\ leftover' = IF Holds(t, File(proc[t], "containers")) THEN leftover
                   ELSE leftover \cup {directory(t)}
    /\ GoOn(t, 0)
    /\ UNCHANGED <<proc, key, calls, held, saw, range, disk, mem, inUse>>

RemoveDir(t) ==
    /\ Busy(t) /\ next(t).op \in {"rmdir", "leave"}
    /\ IF next(t).op = "rmdir"
       THEN dirs' = dirs \ {directory(t)} /\ leftover' = leftover \ {directory(t)}
       ELSE leftover' = leftover \cup {directory(t)} /\ UNCHANGED dirs
    /\ GoOn(t, 0)
    /\ UNCHANGED <<proc, key, calls, held, saw, range, disk, mem, inUse>>

Step(t) ==
    \/ Call(t) \/ Return(t) \/ Ask(t) \/ Acquire(t) \/ Release(t) \/ Look(t) \/ Stop(t)
    \/ Write(t) \/ Create(t) \/ Choose(t) \/ MakeDir(t) \/ RemoveDir(t)

Next == \E t \in Thread : Step(t)

Spec == Init /\ [][Next]_vars

-----------------------------------------------------------------------------
Instruction ==
    [op : {"ask", "lock", "rlock", "unlock", "find", "need", "hit", "miss", "return", "put",
           "drop", "create", "choose", "mkdir", "rmdir", "leave"},
     at : {"graph", "run", "userns", "layers", "images", "containers", "roLayers", "roImages"},
     by : {"", "PutAs", "getMaxSizeFromImage", "imageTopLayerForMapping"},
     skip : 0..6]

\* A thread never has a lock file locked twice, and only the owner of a storage
\* area has one of its lock files locked for writing.
TypeOK ==
    /\ proc \in [Thread -> Proc]
    /\ \A t \in Thread : \A i \in 1..Len(todo[t]) : todo[t][i] \in Instruction
    /\ key \in [Thread -> Key \cup {NoKey}]
    /\ calls \in [Thread -> 0..MaxCalls]
    /\ held \in [Thread -> SUBSET (LockFile \X {"r", "w"})]
    /\ \A t \in Thread : \A l, m \in held[t] : l[1] = m[1] => l = m
    /\ \A t \in Thread : \A l \in held[t] : l[2] = "w" => l[1][1] = Home(proc[t])
    /\ disk \in [Store -> SUBSET Key]
    /\ mem \in [Proc -> [Store -> SUBSET Key]]
    /\ dirs \cup leftover \subseteq {"graph", "run"} \X {"main", "additional"} \X Key
    /\ range \in [Thread -> IDRange \cup {NoRange}]

\* What a call has found in the stores that it has looked into, and has not
\* released, is still what their files say when it returns: the answer of Lookup,
\* Exists or Names is true of all of the stores at one moment.  Two functions look
\* into the layers of additional stores without their locks and may be told
\* anything: getMaxSizeFromImage, whose comment says "The layer stores must be
\* already locked." (userns.go:126), and imageTopLayerForMapping, which looks for a
\* layer's parent in the stores that it has yet to lock (store.go:1158-1162).
AnswersHold ==
    \A t \in Thread : \A s \in saw[t] :
        \/ s[2] = (key[t] \in disk[s[1]])
        \/ /\ s[1] = <<"additional", "layers">>
           /\ s[3] \in {"getMaxSizeFromImage", "imageTopLayerForMapping"}

\* The threads of D wait for each other.
Deadlocked(D) == D # {} /\ \A t \in D : Blockers(t) \cap D # {}

\* Calls wait for each other in a circle only if one of them takes a lock out of
\* order: storage.lock after layers.lock (PutAs, getMaxSizeFromImage) or the layers
\* of an additional store after its images (imageTopLayerForMapping).  In
\* particular no call waits for a lock that it holds, or for a writer that waits
\* for it.
NoOtherDeadlock ==
    \A D \in SUBSET Thread : Deadlocked(D) => \E t \in D : next(t).by # ""

\* Two containers whose mappings getAutoUserNS has chosen never share a range of
\* IDs: userns.lock is held from before the containers' ranges are read until the
\* container is saved.
RangesDisjoint == \A h \in {"main", "additional"} : \A r \in IDRange : inUse[h][r] <= 1

\* A directory of a container exists only while the container does, while a call
\* that holds containers.lock deletes it, or if a file was written to it without
\* the lock or Wipe or Delete has left it.
DirectoriesOwned ==
    \A d \in dirs \ leftover :
        \/ d[3] \in disk[<<d[2], "containers">>]
        \/ \E t \in Thread : <<<<d[2], "containers">>, "w">> \in held[t]

\* What a call chose or made under a lock is still right when it is saved: ranges of IDs, and the
\* directories of containers.
EffectsUnderLock == TypeOK /\ RangesDisjoint /\ DirectoriesOwned

=============================================================================
