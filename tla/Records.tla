------------------------------ MODULE Records ------------------------------
(***************************************************************************)
(* The records of a layer, an image or a container store: their names,     *)
(* digests and data items, the file that holds them, the copy that each    *)
(* process keeps of it, and the indexes that it keeps with the copy.       *)
(*                                                                         *)
(* A caller locks the store and reloads the copy if another process has    *)
(* touched the lock file (ReloadIfChanged); then it makes calls, each of   *)
(* which changes records and indexes in memory and data files on disk, and *)
(* saves all records.  The save may fail, which leaves the memory changed  *)
(* and the file as it was; Save touches the lock file all the same         *)
(* (defer).  A process may die before or after the save, and starts again  *)
(* with no copy.  (That it dies between the two halves of Save, the rename *)
(* and the touch, is the subject of module FileStore.)                     *)
(*                                                                         *)
(* A record's digest is what it is indexed by: an image's Digest, a        *)
(* layer's UncompressedDigest (CompressedDigest is treated alike).  Items  *)
(* are the big data items with their recorded digest; the content of a     *)
(* file is its digest.  Metadata, flags and MappedTopLayers are in no      *)
(* index: they are one value, meta.                                        *)
(* Two indexes are left out: bylayer of the containers, which holds one    *)
(* entry for the life of a record, and bymount of the layers (in Mounts).  *)
(***************************************************************************)
EXTENDS Integers, FiniteSets, Sequences, SequencesExt

CONSTANTS
    Kind,        \* the kinds of stores to consider
    Proc,
    Id, Name, Digest,
    Key, Manifest,   \* names of data items, and the one that names a manifest
    MaxLocks, MaxCalls, MaxFaults,
    None

ASSUME KindAssumption == Kind \subseteq {"layer", "image", "container"}
ASSUME NoneAssumption == None \notin Digest /\ None \notin Id
ASSUME BoundAssumption == MaxLocks \in Nat /\ MaxCalls \in Nat /\ MaxFaults \in Nat

VARIABLES
    kind,
    lock,        \* who has locked the store, and how: "w" for Lock, "r" for RLock
    disk,        \* the records in the store's file, in order
    mem,         \* a process's copy of them, with its indexes
    files,       \* the content of the data items' files
    modified,    \* what Modified of the lock file will say to a process
    seen,        \* the process has seen the modification time of layers.json
    broken,      \* the items whose file and record a call left apart that failed, was
                 \* interrupted or saved a stale copy
    locks, calls, faults

vars == <<kind, lock, disk, mem, files, modified, seen, broken, locks, calls, faults>>

Ids(recs) == {recs[i].id : i \in 1..Len(recs)}
Get(recs, id) == recs[CHOOSE i \in 1..Len(recs) : recs[i].id = id]

\* All records, with the one that has this ID replaced.
With(recs, r) == [i \in 1..Len(recs) |-> IF recs[i].id = r.id THEN r ELSE recs[i]]
Without(recs, id) == SelectSeq(recs, LAMBDA r : r.id # id)

NoItems == [k \in Key |-> None]

\* Three notes on a copy, which the code does not keep: unsaved has the IDs of the
\* records whose change could not be saved; stale says that a Load failed after
\* Modified had noted the change, so that the copy is an old one; skewed, that an
\* index has not what Load would put there.
Empty == [recs |-> <<>>, byname |-> [n \in Name |-> None], bydigest |-> [d \in Digest |-> {}],
          unsaved |-> {}, stale |-> FALSE, skewed |-> FALSE]

\* The IDs of the records that the two do not have in common.
Changed(recs, other) ==
    {id \in Id : \/ (id \in Ids(recs)) # (id \in Ids(other))
                 \/ id \in Ids(recs) /\ Get(recs, id) # Get(other, id)}

-----------------------------------------------------------------------------
\* The digests that an image is known by: its Digest, and that of its manifest.
\* The first manifest's digest becomes the Digest of an image that has none.
recomputeDigests(r) ==
    IF kind = "image" /\ r.digest = None THEN [r EXCEPT !.digest = r.items[Manifest]] ELSE r

digests(r) ==
    CASE kind = "image"     -> {r.digest, r.items[Manifest]} \ {None}
      [] kind = "layer"     -> {r.digest} \ {None}
      [] kind = "container" -> {}

\* A name that a later record has, too, is taken from the earlier one.
removeNames(recs) ==
    [i \in 1..Len(recs) |->
        [recs[i] EXCEPT !.names = {n \in @ : \A j \in i + 1..Len(recs) : n \notin recs[j].names}]]

Duplicates(recs) == removeNames(recs) # recs

NameIndex(recs) ==
    [n \in Name |-> IF \E i \in 1..Len(recs) : n \in recs[i].names
                    THEN recs[CHOOSE i \in 1..Len(recs) : n \in recs[i].names].id
                    ELSE None]

DigestIndex(recs) ==
    [d \in Digest |-> {recs[i].id : i \in {j \in 1..Len(recs) : d \in digests(recs[j])}}]

Load(recs) ==
    LET loaded == [i \in 1..Len(recs) |-> recomputeDigests(removeNames(recs)[i])] IN
    [recs |-> loaded, byname |-> NameIndex(loaded), bydigest |-> DigestIndex(loaded),
     unsaved |-> {}, stale |-> FALSE, skewed |-> FALSE]

\* Load with the names taken away and not saved.
LoadedOnly(recs) == [Load(recs) EXCEPT !.unsaved = Changed(recs, Load(recs).recs)]

NeverModified(p) == FALSE

\* A layer store also looks at the time of layers.json, if the lock files say that
\* nothing has changed: a process reloads what it has saved itself.
Modified(p) == modified[p] \/ (kind = "layer" /\ ~seen[p])

\* Modified notes what it has seen, whatever becomes of the reload.
Noted(p) ==
    /\ modified' = [modified EXCEPT ![p] = FALSE]
    /\ seen' = [seen EXCEPT ![p] = @ \/ ~modified[p]]

-----------------------------------------------------------------------------
\* The ways in which a call that saves the records ends.
SavedUntouched(p, m) ==
    /\ disk' = m.recs
    /\ mem' = [mem EXCEPT ![p] = [m EXCEPT !.unsaved = {}, !.stale = FALSE]]
    /\ modified' = modified
    /\ seen' = [q \in Proc |-> FALSE]
    /\ UNCHANGED <<lock, faults>>

Saved(p, m) ==
    /\ disk' = m.recs
    /\ mem' = [mem EXCEPT ![p] = [m EXCEPT !.unsaved = {}, !.stale = FALSE]]
    /\ modified' = [q \in Proc |-> modified[q] \/ q # p]
    /\ seen' = [q \in Proc |-> FALSE]
    /\ UNCHANGED <<lock, faults>>

NotSaved(p, m) ==
    /\ faults < MaxFaults /\ faults' = faults + 1
    /\ mem' = [mem EXCEPT ![p] = [m EXCEPT !.unsaved = @ \cup Changed(mem[p].recs, m.recs)]]
    /\ modified' = [q \in Proc |-> modified[q] \/ q # p]
    /\ UNCHANGED <<lock, disk, seen>>

\* The process dies, with these records in the file, and its lock is released.
Killed(p, recs) ==
    /\ faults < MaxFaults /\ faults' = faults + 1
    /\ lock' = None
    /\ disk' = recs
    /\ mem' = [mem EXCEPT ![p] = Empty]
    /\ modified' = [q \in Proc |-> modified[q] \/ q = p \/ recs # disk]
    /\ seen' = [q \in Proc |-> seen[q] /\ q # p /\ recs = disk]

Save(p, m) == Saved(p, m) \/ NotSaved(p, m) \/ Killed(p, disk)

\* Besides what a call leaves apart (items), a save of a stale copy may do so anywhere.
LeavesApart(p, items) ==
    broken' = IF mem[p].stale /\ disk' # disk THEN Id \X Key ELSE items

Call(p) ==
    /\ lock = <<p, "w">>
    /\ calls < MaxCalls /\ calls' = calls + 1
    /\ UNCHANGED <<kind, locks>>

-----------------------------------------------------------------------------
\* The file cannot be read.
NotLoaded(p) ==
    /\ faults < MaxFaults /\ faults' = faults + 1
    /\ mem' = [mem EXCEPT ![p].stale = TRUE]

\* Lock and ReloadIfChanged.  A Load that has taken names away saves the records;
\* when it cannot, the caller gives up.
Lock(p) ==
    /\ lock = None
    /\ locks < MaxLocks /\ locks' = locks + 1
    /\ \/ /\ ~Modified(p)
          /\ lock' = <<p, "w">>
          /\ Noted(p)
          /\ UNCHANGED <<disk, mem, faults>>
       \/ /\ Modified(p) /\ ~Duplicates(disk)
          /\ lock' = <<p, "w">>
          /\ mem' = [mem EXCEPT ![p] = Load(disk)]
          /\ Noted(p)
          /\ UNCHANGED <<disk, faults>>
       \/ /\ Modified(p) /\ Duplicates(disk)
          /\ disk' = Load(disk).recs
          /\ lock' = <<p, "w">>
          /\ mem' = [mem EXCEPT ![p] = Load(disk)]
          /\ modified' = [q \in Proc |-> q # p]
          /\ seen' = [q \in Proc |-> FALSE]
          /\ UNCHANGED faults
       \/ /\ Modified(p) /\ Duplicates(disk)
          /\ faults < MaxFaults /\ faults' = faults + 1
          /\ mem' = [mem EXCEPT ![p] = LoadedOnly(disk)]
          /\ modified' = [q \in Proc |-> q # p]
          /\ UNCHANGED <<lock, disk, seen>>
       \/ /\ Modified(p)
          /\ NotLoaded(p)
          /\ Noted(p)
          /\ UNCHANGED <<lock, disk>>
    /\ UNCHANGED <<kind, files, broken, calls>>

\* RLock and ReloadIfChanged.  Under this lock nothing can be saved: a Load that
\* finds a name twice fails, and leaves the layers or images as they were, but the
\* containers as it has changed them; Modified has noted the change all the same.
RLock(p) ==
    /\ lock = None
    /\ locks < MaxLocks /\ locks' = locks + 1
    /\ Noted(p)
    /\ \/ /\ ~Modified(p)
          /\ lock' = <<p, "r">>
          /\ UNCHANGED <<mem, faults>>
       \/ /\ Modified(p) /\ ~Duplicates(disk)
          /\ lock' = <<p, "r">>
          /\ mem' = [mem EXCEPT ![p] = Load(disk)]
          /\ UNCHANGED faults
       \/ /\ Modified(p) /\ Duplicates(disk)
          /\ mem' = [mem EXCEPT ![p] = IF kind = "container" THEN LoadedOnly(disk)
                                       ELSE [@ EXCEPT !.stale = TRUE]]
          /\ UNCHANGED <<lock, faults>>
       \/ /\ Modified(p)
          /\ NotLoaded(p)
          /\ UNCHANGED lock
    /\ UNCHANGED <<kind, disk, files, broken, calls>>

Unlock(p) ==
    /\ lock \in {<<p, "w">>, <<p, "r">>}
    /\ lock' = None
    /\ UNCHANGED <<kind, disk, mem, files, modified, seen, broken, locks, calls, faults>>

-----------------------------------------------------------------------------
\* Create: an ID or a name that is in use is refused.
Added(m, r) ==
    [m EXCEPT !.recs = Append(@, r),
              !.byname = [n \in Name |-> IF n \in r.names THEN r.id ELSE @[n]],
              !.bydigest = [d \in Digest |-> IF d \in digests(r) THEN @[d] \cup {r.id} ELSE @[d]]]

\* The check for an ID that is in use left out.
CreateAgain(p, id, names, digest) ==
    LET m == mem[p]
        r == [id |-> id, names |-> names, digest |-> digest, items |-> NoItems, meta |-> 0] IN
    /\ Call(p)
    /\ \A n \in names : m.byname[n] = None
    /\ kind # "image" => digest = None
    /\ Save(p, Added(m, r))
    /\ LeavesApart(p, broken)
    /\ UNCHANGED files

Create(p, id, names, digest) ==
    LET m == mem[p]
        r == [id |-> id, names |-> names, digest |-> digest, items |-> NoItems, meta |-> 0] IN
    /\ Call(p)
    /\ id \notin Ids(m.recs)
    /\ \A n \in names : m.byname[n] = None
    /\ kind # "image" => digest = None
    /\ Save(p, Added(m, r))
    /\ LeavesApart(p, broken)
    /\ UNCHANGED files

\* PutAdditionalLayer: the names go into the index and not into the record, and the
\* uncompressed digest's entry is made under the compressed one.
PutAdditionalLayer(p, id, names, uncompressed, compressed) ==
    LET m == mem[p]
        r == [id |-> id, names |-> {}, digest |-> uncompressed, items |-> NoItems, meta |-> 0] IN
    /\ Call(p)
    /\ kind = "layer"
    /\ id \notin Ids(m.recs)
    /\ \A n \in names : m.byname[n] = None
    /\ Save(p, [m EXCEPT !.recs = Append(@, r),
                         !.byname = [n \in Name |-> IF n \in names THEN id ELSE @[n]],
                         !.bydigest = [d \in Digest |-> IF d = compressed /\ uncompressed # None
                                                        THEN @[d] \cup {id} ELSE @[d]],
                         !.skewed = TRUE])
    /\ LeavesApart(p, broken)
    /\ UNCHANGED files

\* SetNames: another record that has one of the names loses it.
renamed(m, id, names) ==
    [m EXCEPT !.recs = [i \in 1..Len(@) |->
                            IF @[i].id = id THEN [@[i] EXCEPT !.names = names]
                            ELSE [@[i] EXCEPT !.names = @ \ names]],
              !.byname = [n \in Name |-> IF n \in names THEN id
                                         ELSE IF n \in Get(m.recs, id).names THEN None ELSE @[n]]]

SetNames(p, id, names) ==
    /\ Call(p)
    /\ id \in Ids(mem[p].recs)
    /\ Save(p, renamed(mem[p], id, names))
    /\ LeavesApart(p, broken)
    /\ UNCHANGED files

\* What is in no index: metadata, the flags, and an image's MappedTopLayers.
changed(m, id) == [m EXCEPT !.recs = With(@, [Get(@, id) EXCEPT !.meta = 1 - @])]

SetMetadata(p, id) ==
    /\ Call(p)
    /\ id \in Ids(mem[p].recs)
    /\ Save(p, changed(mem[p], id))
    /\ LeavesApart(p, broken)
    /\ UNCHANGED files

SetFlag(p, id) == SetMetadata(p, id)

\* addMappedTopLayer, and removeMappedTopLayer, which saves only if it has found one.
addMappedTopLayer(p, id) == kind = "image" /\ SetMetadata(p, id)

-----------------------------------------------------------------------------
\* The record with this content of an item.  A layer's record has only the item's
\* name.  An image's new digests replace the old ones in the index.
Mark == "named"

recorded(r, k, content) ==
    recomputeDigests([r EXCEPT !.items[k] = IF kind = "layer" THEN Mark ELSE content])

indexedUnpruned(m, old, new) ==
    [m EXCEPT !.recs = With(@, new),
              !.bydigest = [d \in Digest |-> IF d \in digests(new) THEN @[d] \cup {new.id} ELSE @[d]]]

indexed(m, old, new) ==
    [m EXCEPT !.recs = With(@, new),
              !.bydigest = [d \in Digest |->
                  IF d \in digests(new) THEN @[d] \cup {new.id}
                  ELSE IF d \in digests(old) THEN @[d] \ {new.id} ELSE @[d]]]

\* A save with an item's record: until then the item's file is ahead of it.
saveItem(p, id, k, m) ==
    \/ Saved(p, m) /\ LeavesApart(p, broken \ {<<id, k>>})
    \/ (NotSaved(p, m) \/ Killed(p, disk)) /\ broken' = broken \cup {<<id, k>>}

\* SetBigData writes the file first, and saves only what has changed.
SetBigData(p, id, k, content) ==
    LET m   == mem[p]
        old == Get(m.recs, id)
        new == recorded(old, k, content) IN
    /\ Call(p)
    /\ id \in Ids(m.recs)
    /\ files' = [files EXCEPT ![id][k] = content]
    /\ \/ /\ new = old
          /\ broken' = IF m.stale THEN broken \cup {<<id, k>>} ELSE broken
          /\ UNCHANGED <<lock, disk, mem, modified, seen, faults>>
       \/ /\ new # old
          /\ saveItem(p, id, k, indexed(m, old, new))

\* BigDataSize and BigDataDigest of a container record an item that has a file and
\* no record, under whatever lock they are called.
BigDataSize(p, id, k) ==
    LET m   == mem[p]
        old == Get(m.recs, id)
        new == recorded(old, k, files[id][k]) IN
    /\ kind = "container"
    /\ lock \in {<<p, "w">>, <<p, "r">>}
    /\ calls < MaxCalls /\ calls' = calls + 1
    /\ id \in Ids(m.recs)
    /\ old.items[k] = None /\ files[id][k] # None
    /\ \/ /\ lock = <<p, "r">>
          /\ mem' = [mem EXCEPT ![p] = [indexed(m, old, new) EXCEPT !.unsaved = @ \cup {id}]]
          /\ UNCHANGED <<lock, disk, modified, seen, broken, faults>>
       \/ /\ lock = <<p, "w">>
          /\ saveItem(p, id, k, indexed(m, old, new))
    /\ UNCHANGED <<kind, files, locks>>

\* The records' part of ApplyDiff: updateDigestMap, for the new content's digest.
ApplyDiff(p, id, digest) ==
    LET m   == mem[p]
        old == Get(m.recs, id) IN
    /\ Call(p)
    /\ kind = "layer"
    /\ id \in Ids(m.recs)
    /\ Save(p, indexed(m, old, [old EXCEPT !.digest = digest]))
    /\ LeavesApart(p, broken)
    /\ UNCHANGED files

\* ApplyDiffFromStagingDirectory sets the digest and leaves the index alone.
ApplyDiffFromStagingDirectory(p, id, digest) ==
    LET m == mem[p] IN
    /\ Call(p)
    /\ kind = "layer"
    /\ id \in Ids(m.recs)
    /\ Save(p, [m EXCEPT !.recs = With(@, [Get(@, id) EXCEPT !.digest = digest]), !.skewed = TRUE])
    /\ LeavesApart(p, broken)
    /\ UNCHANGED files

-----------------------------------------------------------------------------
\* Delete: images and containers are removed from the file before their data, layers
\* after it.
deleteInDigestMap(m, id) == [m EXCEPT !.bydigest = [d \in Digest |-> @[d] \ {id}]]

removed(m, id) ==
    LET r    == Get(m.recs, id)
        left == [m EXCEPT !.recs = Without(@, id),
                          !.byname = [n \in Name |-> IF n \in r.names THEN None ELSE @[n]]] IN
    IF kind = "layer" THEN deleteInDigestMap(left, id)
    ELSE [left EXCEPT !.bydigest = [d \in Digest |-> IF d \in digests(r) THEN @[d] \ {id} ELSE @[d]]]

Items(id) == {id} \X Key

\* The order of a layer's deletion for all kinds.
DeleteDataFirst(p, id) ==
    LET m == removed(mem[p], id) IN
    /\ Call(p)
    /\ id \in Ids(mem[p].recs)
    /\ files' = [files EXCEPT ![id] = NoItems]
    /\ \/ Saved(p, m) /\ broken' = broken \ Items(id)
       \/ Killed(p, disk) /\ UNCHANGED broken

deleteLayer(p, id, m) ==
    /\ files' = [files EXCEPT ![id] = NoItems]
    /\ \/ Saved(p, m) /\ LeavesApart(p, broken \ Items(id))
       \/ (NotSaved(p, m) \/ Killed(p, disk)) /\ broken' = broken \cup Items(id)

deleteRecord(p, id, m) ==
    \/ /\ Saved(p, m)
       /\ files' = [files EXCEPT ![id] = NoItems]
       /\ LeavesApart(p, broken \ Items(id))
    \/ /\ \/ Killed(p, disk) /\ UNCHANGED broken
          \/ (NotSaved(p, m) \/ Killed(p, m.recs)) /\ LeavesApart(p, broken \cup Items(id))
       /\ UNCHANGED files

Delete(p, id) ==
    LET m == removed(mem[p], id) IN
    /\ Call(p)
    /\ id \in Ids(mem[p].recs)
    /\ IF kind = "layer" THEN deleteLayer(p, id, m) ELSE deleteRecord(p, id, m)

-----------------------------------------------------------------------------
Init ==
    /\ kind \in Kind
    /\ lock = None
    /\ disk \in {<<>>} \cup
           {<<[id |-> i, names |-> {n}, digest |-> None, items |-> NoItems, meta |-> 0],
              [id |-> j, names |-> {n}, digest |-> None, items |-> NoItems, meta |-> 0]>> :
                i \in Id, j \in Id, n \in Name}
    /\ Cardinality(Ids(disk)) = Len(disk)
    /\ mem = [p \in Proc |-> Empty]
    /\ files = [id \in Id |-> NoItems]
    /\ modified = [p \in Proc |-> TRUE]
    /\ seen = [p \in Proc |-> FALSE]
    /\ broken = {}
    /\ locks = 0 /\ calls = 0 /\ faults = 0

Next == \E p \in Proc :
    \/ Lock(p) \/ RLock(p) \/ Unlock(p)
    \/ \E id \in Id :
        \/ \E names \in SUBSET Name :
            \/ \E digest \in Digest \cup {None} : Create(p, id, names, digest)
            \/ \E d \in Digest, c \in Digest \cup {None} : PutAdditionalLayer(p, id, names, d, c)
            \/ SetNames(p, id, names)
        \/ SetMetadata(p, id) \/ SetFlag(p, id) \/ addMappedTopLayer(p, id)
        \/ Delete(p, id)
        \/ \E k \in Key : BigDataSize(p, id, k) \/ \E d \in Digest : SetBigData(p, id, k, d)
        \/ \E d \in Digest : ApplyDiff(p, id, d) \/ ApplyDiffFromStagingDirectory(p, id, d)

Spec == Init /\ [][Next]_vars

-----------------------------------------------------------------------------
\* Every variable has its type, and no ID is in the file twice.
Record == [id : Id, names : SUBSET Name, digest : Digest \cup {None},
           items : [Key -> Digest \cup {None, Mark}], meta : {0, 1}]
TypeOK ==
    /\ kind \in Kind
    /\ lock \in {None} \cup (Proc \X {"w", "r"})
    /\ \A i \in 1..Len(disk) : disk[i] \in Record
    /\ Cardinality(Ids(disk)) = Len(disk)
    /\ \A p \in Proc :
        /\ Ids(mem[p].recs) \subseteq Id
        /\ mem[p].byname \in [Name -> Id \cup {None}]
        /\ mem[p].bydigest \in [Digest -> SUBSET Id]
    /\ files \in [Id -> [Key -> Digest \cup {None}]]
    /\ modified \in [Proc -> BOOLEAN]
    /\ seen \in [Proc -> BOOLEAN]
    /\ broken \subseteq Id \X Key
    /\ locks \in 0..MaxLocks /\ calls \in 0..MaxCalls /\ faults \in 0..MaxFaults

\* A copy that Modified lets a process go on using is the file, but for the records
\* whose change the process itself could not save: nothing that another process has
\* saved is missed.  A Load that failed is the exception (images.go:252-254 and
\* 287-288): ReloadIfChanged asks Modified only once, and the old copy stays.
MemoryMatches ==
    \A p \in Proc :
        LET others(recs) == SelectSeq(recs, LAMBDA r : r.id \notin mem[p].unsaved) IN
        ~Modified(p) /\ ~mem[p].stale => others(mem[p].recs) = others(disk)

\* Whatever was created, renamed, rewritten and deleted since the last Load, the
\* indexes are those that Load would make of the records, and no two records have a
\* name in common.
IndexesAgree ==
    \A p \in Proc :
        LET m == mem[p] IN
        /\ \A i, j \in 1..Len(m.recs) : i # j => m.recs[i].names \cap m.recs[j].names = {}
        /\ ~m.skewed => m.byname = NameIndex(m.recs) /\ m.bydigest = DigestIndex(m.recs)

\* An item that the file of records tells of has a file with the digest that is
\* recorded, and the other way round, except where a call failed or was interrupted
\* between the two.
ItemsAgree ==
    \A i \in 1..Len(disk) : \A k \in Key :
        LET r == disk[i] IN
        <<r.id, k>> \notin broken =>
            IF kind = "layer" THEN r.items[k] = None <=> files[r.id][k] = None
            ELSE r.items[k] = files[r.id][k]

\* A record of which only names were taken away.
TakesNames(r, s) == [s EXCEPT !.names = r.names] = r /\ s.names \subseteq r.names

\* The records whose earlier change the process that has locked the store could not
\* save.
Unsaved == UNION {mem[p].unsaved : p \in {q \in Proc : lock = <<q, "w">>}}

\* A save changes one record and, in others, takes away names; it also writes the
\* records that the process changed before and could not save.  Other processes'
\* changes are never written over, with one exception: a process whose Load failed
\* after Modified had noted the change (a read error, or under a read lock a name
\* that two records have, images.go:287-288) saves its old copy of all records.
OnlyOwnChange ==
    [][\/ disk' = disk
       \/ \E p \in Proc : lock = <<p, "w">> /\ mem[p].stale
       \/ \E id \in Id :
            LET own == {id} \cup Unsaved IN
            /\ Ids(disk') \ own = Ids(disk) \ own
            /\ \A other \in Ids(disk) \ own : TakesNames(Get(disk, other), Get(disk', other))]_vars

\* The records, the indexes that Load would make of them, and the files of data items agree.
RecordsAgree == TypeOK /\ IndexesAgree /\ ItemsAgree

=============================================================================
