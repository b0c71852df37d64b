------------------------------ MODULE Drivers ------------------------------
(***************************************************************************)
(* The graph drivers vfs, btrfs, zfs and aufs: what they keep for a layer, *)
(* and what creating, filling, mounting and removing layers makes of it,   *)
(* when a step of a call fails or the process dies in a call and another   *)
(* one goes on with what it left.                                          *)
(*                                                                         *)
(* The layer store above the driver is modelled by its discipline: it      *)
(* creates a layer only under an ID that it has no record of, from a       *)
(* parent that it has a record of, removes a layer only when nothing is    *)
(* recorded to depend on it and it is not mounted, and counts mounts       *)
(* across processes (layerStore.Mount and Unmount, module Mounts).  One    *)
(* process is at work at a time: zfs lists the file systems when it starts *)
(* and does not notice what another process creates or removes afterwards. *)
(* Content is a set of tokens; a parent's tokens show through in its       *)
(* children.  zfs and btrfs themselves are external: a clone keeps its     *)
(* origin from being destroyed, unless its clones are to be destroyed too. *)
(***************************************************************************)
EXTENDS Integers, FiniteSets, Sequences

CONSTANTS
    Kind,                \* the drivers to consider, of "vfs", "btrfs", "zfs", "aufs"
    Id, Token, None,
    MaxOps, MaxFaults, MaxMounts

VARIABLES
    kind,
    \* on disk
    recorded,    \* the layers that the layer store has a record of
    parentOf,    \* ... and the parent in the record
    data,        \* the layer's directory, subvolume, dataset or aufs diff directory
    origin,      \* zfs: the dataset that this one is a clone of
    quotas,      \* btrfs: the layers with a file in quotas/
    layers,      \* aufs: the file layers/<id>, the list of ancestors
    mnt,         \* aufs: the directories mnt/<id>
    removing,    \* aufs: diff directories on their way out, <id>-removing
    held,        \* mountpoints.json: the number of mounts of a layer
    path,        \* ... and where it is mounted: "mnt", "diff"
    mounted,     \* the kernel's mounts on mnt/<id>
    \* in the process
    cache,       \* zfs: filesystemsCache
    pathCache,   \* aufs: pathCache
    count,       \* zfs, aufs: the RefCounter of mnt/<id>, None if it is not checked yet
    reading,     \* layers that the naive diff has got, and has not put back yet
    \* history
    should,      \* the content that a layer should have
    damaged,     \* layers whose removal was begun and not finished
    leftover,    \* layers whose directory was there when they were created
    misled,      \* layers without parent that were Put, or measured, before they were Got
    adrift,      \* layers that a process died mounting or unmounting
    ops, faults

disk == <<recorded, parentOf, data, origin, quotas, layers, mnt, removing, held, path, mounted>>
memory == <<cache, pathCache, count, reading>>
vars == <<kind, disk, memory, should, damaged, leftover, misled, adrift, ops, faults>>

Ancestors(id) == IF layers[id] = None THEN {} ELSE {layers[id][i] : i \in 1..Len(layers[id])}
HasParents(id) == Ancestors(id) # {}
There(id) == id # None => data[id] # None

\* What a layer shows.
View(id) ==
    IF data[id] = None THEN None
    ELSE IF kind # "aufs" THEN data[id]
    ELSE data[id] \cup UNION {IF data[a] = None THEN {} ELSE data[a] : a \in Ancestors(id)}

Inherited(parent) == IF parent = None THEN {} ELSE data[parent]
Leftover(id) == IF data[id] = None THEN {} ELSE data[id]

Op == ops < MaxOps /\ ops' = ops + 1 /\ UNCHANGED kind
Fault == faults < MaxFaults /\ faults' = faults + 1

-----------------------------------------------------------------------------
\* The start of a process: Init.  zfs lists the file systems, aufs removes the
\* directories that an earlier process was about to remove.
zfsInit(d) == cache' = {id \in Id : d[id] # None}
aufsInit == removing' = {}

Started(d) ==
    /\ zfsInit(d) /\ aufsInit
    /\ pathCache' = [id \in Id |-> None]
    /\ count' = [id \in Id |-> None]
    /\ reading' = {}
    /\ misled' = {id \in misled : held[id] > 0}

\* The process dies at any time, and another one starts; or the machine does, and the
\* mounts are gone, and with them mountpoints.json, which is kept in the run directory.
Restart ==
    /\ Fault
    /\ Started(data)
    /\ \/ UNCHANGED <<held, path, mounted, adrift>>
       \/ /\ adrift' = {}
          /\ held' = [id \in Id |-> 0] /\ path' = [id \in Id |-> None]
          /\ mounted' = {}
    /\ UNCHANGED <<kind, recorded, parentOf, data, origin, quotas, layers, mnt, should, damaged, leftover,
                   ops>>

-----------------------------------------------------------------------------
\* How a creation ends: the layer is recorded; or the driver fails; or the process
\* dies before the layer is recorded.
Recorded(id) ==
    /\ recorded' = recorded \cup {id}
    /\ UNCHANGED <<removing, pathCache, count, reading, misled, faults>>

Refused ==
    /\ UNCHANGED <<recorded, removing, pathCache, count, reading, misled, faults>>

Failed ==
    /\ Fault
    /\ UNCHANGED <<recorded, removing, pathCache, count, reading, misled>>

Died ==
    /\ Fault
    /\ Started(data')
    /\ UNCHANGED recorded

\* vfs: the directory is made, if it is not there, and the parent's is copied into it;
\* an error removes it, but for one in making the directory above it.
vfsCreate(id, parent) ==
    /\ \/ /\ There(parent)
          /\ data' = [data EXCEPT ![id] = Leftover(id) \cup Inherited(parent)]
          /\ Recorded(id)
          /\ UNCHANGED cache
       \/ /\ ~There(parent)
          /\ data' = [data EXCEPT ![id] = None]
          /\ Refused
          /\ UNCHANGED cache
       \/ /\ data' = [data EXCEPT ![id] = None] \/ UNCHANGED data
          /\ Failed
          /\ UNCHANGED cache
       \/ /\ There(parent)
          /\ \E copied \in SUBSET Inherited(parent) :
                data' = [data EXCEPT ![id] = Leftover(id) \cup copied]
          /\ Died
    /\ UNCHANGED <<origin, quotas, layers, mnt>>

\* btrfs: a subvolume, or a snapshot of the parent's, and a file with its quota.  One
\* that exists is an error, and an error leaves what there is.
btrfsCreate(id, parent, limited) ==
    /\ \/ /\ ~(data[id] = None /\ There(parent))
          /\ Refused
          /\ UNCHANGED <<data, quotas, cache>>
       \/ /\ data[id] = None /\ There(parent)
          /\ data' = [data EXCEPT ![id] = Inherited(parent)]
          /\ \/ /\ quotas' = IF limited THEN quotas \cup {id} ELSE quotas
                /\ Recorded(id)
                /\ UNCHANGED cache
             \/ /\ quotas' \in {quotas, IF limited THEN quotas \cup {id} ELSE quotas}
                /\ Failed
                /\ UNCHANGED cache
             \/ /\ quotas' \in {quotas, IF limited THEN quotas \cup {id} ELSE quotas}
                /\ Died
    /\ UNCHANGED <<origin, layers, mnt>>

\* zfs: the datasets that destroying one with its clones destroys.
Clones(id) == {c \in Id : origin[c] = id}
WithClones(id) == {id} \cup Clones(id) \cup UNION {Clones(c) : c \in Clones(id)}

cloneUncached(id) == cache

cached(id) == cache \cup {id}

\* A file system, or a clone of the parent's.  One that exists already is destroyed
\* with all clones, and the creation is tried again.
zfsCreate(id, parent) ==
    LET gone   == IF data[id] # None THEN WithClones(id) ELSE {}
        clean  == [i \in Id |-> IF i \in gone THEN None ELSE data[i]]
        roots  == [i \in Id |-> IF i \in gone THEN None ELSE origin[i]]
        source == IF parent = None THEN {} ELSE clean[parent] IN
    /\ \/ /\ parent # None /\ source = None
          /\ Refused
          /\ UNCHANGED <<data, origin, cache>>
       \/ /\ source # None
          /\ gone \cap mounted = {}
          /\ data' = [clean EXCEPT ![id] = source]
          /\ origin' = [roots EXCEPT ![id] = parent]
          /\ \/ Recorded(id) /\ cache' = cached(id)
             \/ Failed /\ cache' \in {cache, cached(id)}
             \/ Died
       \/ /\ gone # {} /\ gone \cap mounted = {}
          /\ data' = clean /\ origin' = roots
          /\ (Failed /\ UNCHANGED cache) \/ Died
    /\ UNCHANGED <<quotas, layers, mnt>>

\* aufs: the directories of mnt and diff, and then the list of ancestors.  A layer like
\* another one is created from that one's parent, and the difference applied to it; if
\* that fails the layer is removed again.
aufsCreate(id, parent, template) ==
    LET list == IF parent = None \/ layers[parent] = None THEN <<>>
                ELSE <<parent>> \o layers[parent]
        diff == IF template = None THEN {} ELSE Leftover(template) IN
    /\ \/ /\ parent # None /\ ~(data[parent] # None /\ parent \in mnt)
          /\ Refused
          /\ UNCHANGED <<data, mnt, layers, cache>>
       \/ /\ parent # None => data[parent] # None /\ parent \in mnt
          /\ mnt' = mnt \cup {id}
          /\ \/ /\ parent # None => layers[parent] # None
                /\ data' = [data EXCEPT ![id] = Leftover(id) \cup diff]
                /\ layers' = [layers EXCEPT ![id] = list]
                /\ (Recorded(id) /\ UNCHANGED cache) \/ Died
             \/ /\ data' = [data EXCEPT ![id] = Leftover(id)]
                /\ \/ /\ parent # None /\ layers[parent] = None
                      /\ layers' = [layers EXCEPT ![id] = <<>>]
                      /\ Refused
                      /\ UNCHANGED cache
                   \/ /\ \/ UNCHANGED layers
                         \/ \E n \in 0..Len(list) : layers' = [layers EXCEPT ![id] = SubSeq(list, 1, n)]
                      /\ (Failed /\ UNCHANGED cache) \/ Died
       \/ /\ template # None
          /\ mnt' = mnt \ {id}
          /\ data' = [data EXCEPT ![id] = None]
          /\ layers' = [layers EXCEPT ![id] = None]
          /\ Failed
          /\ UNCHANGED cache
    /\ UNCHANGED <<origin, quotas>>

\* A layer on a parent, or with the same parent and content as another layer.
Create(id, parent, template) ==
    LET source == IF template # None THEN template ELSE parent IN
    /\ Op
    /\ id \notin recorded
    /\ parent = None \/ parent \in recorded
    /\ template # None => template \in recorded /\ parent = parentOf[template]
    /\ CASE kind = "vfs"   -> vfsCreate(id, source)
         [] kind = "btrfs" -> \E limited \in BOOLEAN : btrfsCreate(id, source, limited)
         [] kind = "zfs"   -> zfsCreate(id, source)
         [] kind = "aufs"  -> aufsCreate(id, parent, template)
    /\ parentOf' = IF id \in recorded' THEN [parentOf EXCEPT ![id] = parent] ELSE parentOf
    /\ should' = IF id \in recorded' /\ source # None THEN [should EXCEPT ![id] = should[source]] ELSE should
    /\ damaged' = IF id \in recorded' /\ source \in damaged THEN damaged \cup {id} ELSE damaged
    /\ leftover' = IF /\ id \in recorded'
                      /\ \/ source \in leftover
                         \/ kind \in {"vfs", "aufs"} /\ data[id] # None
                   THEN leftover \cup {id} ELSE leftover
    /\ UNCHANGED <<held, path, mounted, adrift>>

Children(id) == {c \in recorded : parentOf[c] = id}
Below(id) == Children(id) \cup UNION {Children(c) : c \in Children(id)}

\* Something is written into a layer: a diff, or what a container writes.  Of aufs the
\* layers built on it show it too; the other drivers have copied it before.
ApplyDiff(id, token) ==
    /\ Op
    /\ id \in recorded /\ data[id] # None
    /\ data' = [data EXCEPT ![id] = @ \cup {token}]
    /\ should' = [i \in Id |-> IF i = id \/ (kind = "aufs" /\ i \in Below(id))
                               THEN should[i] \cup {token} ELSE should[i]]
    /\ UNCHANGED <<recorded, parentOf, origin, quotas, layers, mnt, removing, held, path, mounted, memory,
                   damaged, leftover, misled, adrift, faults>>

-----------------------------------------------------------------------------
\* How a removal ends: the record goes as well; or the driver fails, and the layer
\* stays recorded; or the process dies before the record is gone.
Erased(id) ==
    /\ recorded' = recorded \ {id}
    /\ parentOf' = [parentOf EXCEPT ![id] = None]
    /\ should' = [should EXCEPT ![id] = {}]
    /\ damaged' = damaged \ {id} /\ leftover' = leftover \ {id}
    /\ UNCHANGED faults

Kept(id) ==
    /\ damaged' = IF data'[id] = data[id] /\ layers'[id] = layers[id] THEN damaged ELSE damaged \cup {id}
    /\ UNCHANGED <<recorded, parentOf, should, leftover>>

Broken(id) == Fault /\ Kept(id) /\ UNCHANGED <<removing, pathCache, count, reading, misled>>
Cut(id) == Fault /\ Kept(id) /\ Started(data')

\* vfs: the directory is removed, file by file.
vfsRemove(id) ==
    /\ UNCHANGED <<origin, quotas, layers, mnt, mounted>>
    /\ \/ /\ data' = [data EXCEPT ![id] = None]
          /\ Erased(id)
          /\ UNCHANGED <<removing, memory, misled>>
       \/ /\ data[id] # None
          /\ \E rest \in SUBSET data[id] : data' = [data EXCEPT ![id] = rest]
          /\ (Broken(id) /\ UNCHANGED cache) \/ Cut(id)
       \/ /\ data' = [data EXCEPT ![id] = None]
          /\ Cut(id)

quotaStays(id) == quotas

quotaGone(id) == quotas \ {id}

\* btrfs: a layer without subvolume is an error; the quota's file goes before the
\* subvolume, which may go in part, and then the quotas are computed anew.
btrfsRemove(id) ==
    /\ UNCHANGED <<origin, layers, mnt, mounted>>
    /\ \/ /\ data[id] = None
          /\ UNCHANGED <<data, quotas, recorded, parentOf, should, damaged, leftover, removing, memory, misled,
                         faults>>
       \/ /\ data[id] # None
          /\ quotas' = quotaGone(id)
          /\ data' = [data EXCEPT ![id] = None]
          /\ Erased(id)
          /\ UNCHANGED <<removing, memory, misled>>
       \/ /\ data[id] # None
          /\ \/ UNCHANGED <<quotas, data>>
             \/ /\ quotas' = quotaGone(id)
                /\ \E rest \in SUBSET data[id] \cup {None} : data' = [data EXCEPT ![id] = rest]
          /\ (Broken(id) /\ UNCHANGED cache) \/ Cut(id)

\* zfs: destroy -r, which fails for a dataset that is not there, is mounted, or has
\* clones.
destroyedWithClones(id) == WithClones(id)

Destroyed(id) == {id}

zfsRemove(id) ==
    LET gone == Destroyed(id) IN
    /\ UNCHANGED <<quotas, layers, mnt, mounted>>
    /\ \/ /\ data[id] = None \/ id \in mounted \/ Clones(id) \ gone # {}
          /\ UNCHANGED <<data, origin, recorded, parentOf, should, damaged, leftover, removing, memory, misled,
                         faults>>
       \/ /\ data[id] # None /\ id \notin mounted /\ Clones(id) \subseteq gone
          /\ data' = [i \in Id |-> IF i \in gone THEN None ELSE data[i]]
          /\ origin' = [i \in Id |-> IF i \in gone THEN None ELSE origin[i]]
          /\ \/ /\ Erased(id)
                /\ cache' = cache \ {id}
                /\ UNCHANGED <<removing, pathCache, count, reading, misled>>
             \/ Cut(id)

\* aufs: unmounted; then the list of ancestors, the diff directory (renamed first, so
\* that it is there or not), and the directory that the cache has for the layer.
mountpoint(id) == IF pathCache[id] # None THEN pathCache[id] ELSE "mnt"

atomicRemove(id) == [data EXCEPT ![id] = None]

aufsRemove(id) ==
    LET noList == [layers EXCEPT ![id] = None] IN
    /\ mounted' = IF mountpoint(id) = "mnt" THEN mounted \ {id} ELSE mounted
    /\ \/ /\ layers' = noList /\ data' = atomicRemove(id)
          /\ mnt' = IF mountpoint(id) = "mnt" THEN mnt \ {id} ELSE mnt
          /\ pathCache' = [pathCache EXCEPT ![id] = None]
          /\ removing' = removing \ {id}
          /\ Erased(id)
          /\ UNCHANGED <<cache, count, reading, misled>>
       \/ /\ UNCHANGED <<layers, data, mnt>>
          /\ (Broken(id) /\ UNCHANGED cache) \/ Cut(id)
       \/ /\ layers' = noList /\ UNCHANGED <<data, mnt>>
          /\ (Broken(id) /\ UNCHANGED cache) \/ Cut(id)
       \/ /\ layers' = noList /\ data' = atomicRemove(id) /\ UNCHANGED mnt
          /\ \/ /\ Fault /\ Kept(id)
                /\ removing' = removing \cup {id}
                /\ UNCHANGED <<memory, misled>>
             \/ Cut(id)
    /\ UNCHANGED <<origin, quotas>>

Remove(id) ==
    /\ Op
    /\ id \in recorded /\ Children(id) = {} /\ held[id] = 0 /\ id \notin reading
    /\ CASE kind = "vfs"   -> vfsRemove(id)
         [] kind = "btrfs" -> btrfsRemove(id)
         [] kind = "zfs"   -> zfsRemove(id)
         [] kind = "aufs"  -> aufsRemove(id)
    /\ UNCHANGED <<held, path, adrift>>

-----------------------------------------------------------------------------
incdecTrusting(id, by) ==
    by + IF count[id] # None THEN count[id] ELSE IF id \in mounted THEN 1 ELSE 0

\* RefCounter.incdec: what is known of a path that is looked at for the first time, or
\* was unmounted by somebody else, is whether it is mounted.
incdec(id, by) ==
    by + CASE id \notin mounted -> 0
           [] id \in mounted /\ count[id] = None -> 1
           [] OTHER -> count[id]

counted(id, by) == count' = [count EXCEPT ![id] = incdec(id, by)]

\* Get, and where it finds the layer: vfs and btrfs return the directory.
vfsGet(id, at) == data[id] # None /\ at = "diff" /\ UNCHANGED <<mounted, count, pathCache>>
btrfsGet(id, at) == data[id] # None /\ at = "diff" /\ UNCHANGED <<mounted, count, pathCache>>

zfsGet(id, at) ==
    /\ at = "mnt"
    /\ counted(id, 1)
    /\ \/ incdec(id, 1) > 1 /\ UNCHANGED mounted
       \/ incdec(id, 1) <= 1 /\ data[id] # None /\ mounted' = mounted \cup {id}
    /\ UNCHANGED pathCache

\* aufs mounts a layer with ancestors; one without is its diff directory.
aufsGet(id, at) ==
    /\ HasParents(id) => data[id] # None
    /\ at = IF pathCache[id] # None THEN pathCache[id] ELSE IF HasParents(id) THEN "mnt" ELSE "diff"
    /\ IF at = "mnt" THEN counted(id, 1) ELSE UNCHANGED count
    /\ IF at = "mnt" /\ incdec(id, 1) > 1 THEN UNCHANGED <<mounted, pathCache>>
       ELSE /\ mounted' = IF HasParents(id) THEN mounted \cup {id} ELSE mounted
            /\ pathCache' = [pathCache EXCEPT ![id] = at]

gets(id, at) ==
    \/ kind = "vfs" /\ vfsGet(id, at)
    \/ kind = "btrfs" /\ btrfsGet(id, at)
    \/ kind = "zfs" /\ zfsGet(id, at)
    \/ kind = "aufs" /\ aufsGet(id, at)

\* A Get that fails to mount: zfs takes its count back, aufs does not.
getFails(id) ==
    /\ Fault
    /\ kind = "zfs" \/ HasParents(id)
    /\ id \notin mounted /\ incdec(id, 1) <= 1
    /\ count' = [count EXCEPT ![id] = IF kind = "zfs" THEN -1 ELSE incdec(id, 1)]

unmountRegardless(id) == mounted' = mounted \ {id}

\* Put: the last one unmounts.
unmount(id) == mounted' = IF incdec(id, -1) > 0 THEN mounted ELSE mounted \ {id}

zfsPut(id) == counted(id, -1) /\ unmount(id) /\ UNCHANGED <<pathCache, misled>>

\* aufs takes a layer that is not in its cache to be at mnt.
aufsPut(id) ==
    /\ pathCache' = [pathCache EXCEPT ![id] = mountpoint(id)]
    /\ misled' = IF pathCache[id] = None /\ ~HasParents(id) THEN misled \cup {id} ELSE misled
    /\ IF mountpoint(id) = "mnt" THEN counted(id, -1) /\ unmount(id) ELSE UNCHANGED <<count, mounted>>

puts(id) ==
    \/ kind \in {"vfs", "btrfs"} /\ UNCHANGED <<mounted, count, pathCache, misled>>
    \/ kind = "zfs" /\ zfsPut(id)
    \/ kind = "aufs" /\ aufsPut(id)

storage == <<recorded, parentOf, data, origin, quotas, layers, mnt, removing>>

\* layerStore.Mount and Unmount.  The process may die before mountpoints.json is written.
Mount(id) ==
    /\ Op
    /\ id \in recorded /\ held[id] < MaxMounts
    /\ \/ /\ held[id] > 0 /\ path[id] = "mnt" /\ id \in mounted
          /\ held' = [held EXCEPT ![id] = @ + 1]
          /\ UNCHANGED <<mounted, memory, path, removing, misled, adrift, faults>>
       \/ /\ ~(held[id] > 0 /\ path[id] = "mnt" /\ id \in mounted)
          /\ \/ \E at \in {"mnt", "diff"} :
                   /\ gets(id, at)
                   /\ held' = [held EXCEPT ![id] = @ + 1]
                   /\ path' = [path EXCEPT ![id] = at]
                   /\ UNCHANGED <<cache, reading, removing, misled, adrift, faults>>
             \/ /\ getFails(id)
                /\ UNCHANGED <<held, path, mounted, cache, pathCache, reading, removing, misled, adrift>>
             \/ /\ Fault
                /\ data[id] # None
                /\ mounted' = IF kind = "zfs" \/ (kind = "aufs" /\ HasParents(id)) THEN mounted \cup {id} ELSE mounted
                /\ adrift' = adrift \cup {id}
                /\ Started(data)
                /\ UNCHANGED <<held, path>>
    /\ UNCHANGED <<recorded, parentOf, data, origin, quotas, layers, mnt, should, damaged, leftover>>

Unmount(id) ==
    /\ Op
    /\ id \in recorded /\ held[id] > 0
    /\ \/ /\ held[id] > 1
          /\ held' = [held EXCEPT ![id] = @ - 1]
          /\ UNCHANGED <<path, mounted, memory, removing, misled, adrift, faults>>
       \/ /\ held[id] = 1
          /\ puts(id)
          /\ held' = [held EXCEPT ![id] = 0]
          /\ path' = [path EXCEPT ![id] = None]
          /\ UNCHANGED <<cache, reading, removing, adrift, faults>>
       \/ /\ held[id] = 1
          /\ Fault
          /\ mounted' = mounted \ {id}
          /\ adrift' = adrift \cup {id}
          /\ Started(data)
          /\ UNCHANGED <<held, path>>
    /\ UNCHANGED <<recorded, parentOf, data, origin, quotas, layers, mnt, should, damaged, leftover>>

\* The naive diff gets the layer while it reads it, whether it is mounted or not.  The
\* parent is got and put back before the call returns, which leaves it as it was.
Read(id) ==
    /\ Op
    /\ id \in recorded /\ id \notin reading
    /\ \E at \in {"mnt", "diff"} : gets(id, at)
    /\ reading' = reading \cup {id}
    /\ UNCHANGED <<storage, held, path, cache, should, damaged, leftover, misled, adrift, faults>>

ReadEnds(id) ==
    /\ id \in reading
    /\ puts(id)
    /\ reading' = reading \ {id}
    /\ UNCHANGED <<kind, storage, held, path, cache, should, damaged, leftover, adrift, ops, faults>>

\* aufs: the size of a layer is that of the directory in the cache, or else of mnt/<id>.
ReadWriteDiskUsage(id) ==
    /\ Op
    /\ id \in recorded /\ kind = "aufs" /\ pathCache[id] = None
    /\ pathCache' = [pathCache EXCEPT ![id] = "mnt"]
    /\ misled' = IF HasParents(id) THEN misled ELSE misled \cup {id}
    /\ UNCHANGED <<disk, cache, count, reading, should, damaged, leftover, adrift, faults>>

-----------------------------------------------------------------------------
Init ==
    /\ kind \in Kind
    /\ recorded = {} /\ parentOf = [id \in Id |-> None]
    /\ data = [id \in Id |-> None] /\ origin = [id \in Id |-> None]
    /\ quotas = {} /\ layers = [id \in Id |-> None] /\ mnt = {} /\ removing = {}
    /\ held = [id \in Id |-> 0] /\ path = [id \in Id |-> None] /\ mounted = {}
    /\ cache = {} /\ pathCache = [id \in Id |-> None] /\ count = [id \in Id |-> None] /\ reading = {}
    /\ should = [id \in Id |-> {}] /\ damaged = {} /\ leftover = {} /\ misled = {} /\ adrift = {}
    /\ ops = 0 /\ faults = 0

Next ==
    \/ Restart
    \/ \E id \in Id :
          \/ \E parent, template \in Id \cup {None} : Create(id, parent, template)
          \/ \E token \in Token : ApplyDiff(id, token)
          \/ Remove(id)
          \/ Mount(id) \/ Unmount(id)
          \/ Read(id) \/ ReadEnds(id)
          \/ ReadWriteDiskUsage(id)

Spec == Init /\ [][Next]_vars

-----------------------------------------------------------------------------
TypeOK ==
    /\ kind \in Kind
    /\ recorded \subseteq Id /\ parentOf \in [Id -> Id \cup {None}]
    /\ data \in [Id -> SUBSET Token \cup {None}] /\ origin \in [Id -> Id \cup {None}]
    /\ quotas \subseteq Id /\ mnt \subseteq Id /\ removing \subseteq Id
    /\ \A id \in Id : layers[id] # None => Ancestors(id) \subseteq Id
    /\ held \in [Id -> 0..MaxMounts] /\ path \in [Id -> {"mnt", "diff", None}] /\ mounted \subseteq Id
    /\ cache \subseteq Id /\ pathCache \in [Id -> {"mnt", "diff", None}]
    /\ count \in [Id -> (-1..3) \cup {None}] /\ reading \subseteq Id
    /\ should \in [Id -> SUBSET Token]
    /\ damaged \cup leftover \cup misled \cup adrift \subseteq Id
    /\ ops \in 0..MaxOps /\ faults \in 0..MaxFaults

\* A layer that the store has a record of shows what was in its parent, or in the layer
\* that it was made like, and what was written into it, whatever is created and removed
\* and wherever a process fails or dies; and nothing else, unless its directory was there
\* before it (drivers/*/Create and Remove; zfs's Create destroys clones, Remove must not).
ContentAsWritten ==
    \A id \in recorded \ damaged :
        /\ View(id) # None
        /\ should[id] \subseteq View(id)
        /\ id \notin leftover => View(id) = should[id]

\* Exists of the driver agrees with the layer store: what zfs answers from its cache,
\* and the others from the file system.
Exists(id) ==
    CASE kind = "zfs"  -> id \in cache
      [] kind = "aufs" -> layers[id] # None
      [] OTHER         -> data[id] # None
ExistsAgrees ==
    \A id \in Id :
        /\ id \in recorded \ damaged => Exists(id)
        /\ faults = 0 /\ id \notin recorded => ~Exists(id)

\* Whoever has mounted a layer, or reads it, sees the layer there, and not an empty
\* directory or the layer without its ancestors (drivers/counter.go, Get and Put of aufs
\* and zfs, layerStore.Mount and Unmount), except after aufs was asked first for the
\* size of a layer without parent, or to put it back, or a process died in the call.
MountShows ==
    \A id \in recorded \ (damaged \cup misled \cup adrift) :
        /\ held[id] > 0 =>
             IF path[id] = "mnt" THEN id \in mounted ELSE kind = "aufs" => ~HasParents(id)
        /\ id \in reading /\ (kind = "zfs" \/ HasParents(id)) => id \in mounted

\* If no call failed and no process died, nothing is left of a layer that was removed (of
\* aufs, mnt/<id> may be), and nothing is mounted that nobody uses.
NothingLeft ==
    faults = 0 =>
        /\ \A id \in Id \ recorded :
              /\ data[id] = None /\ layers[id] = None /\ origin[id] = None
              /\ id \notin quotas \cup removing \cup mounted
        /\ \A id \in mounted : held[id] > 0 \/ id \in reading

=============================================================================
