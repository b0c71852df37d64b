# TLA+ models of containers/storage

containers/storage keeps *layers* (file system contents, stacked by a parent
relation), *images* (a name, a top layer, some data) and *containers* (a private
writable layer on top of an image) for programs such as Podman, Buildah and
CRI-O. It is a library: every process that uses it works on the same
directories, without a daemon, and coordinates with the others through lock
files and JSON files only. This directory holds models of that coordination and
of the parts below it, the configurations that check them with TLC, and proofs
that TLAPS checks.

`PROJECT.json` lists the components, the runs, the source lines behind each
definition, the hazards and the theorems.

## 1. The system

| Part | State | Operations | Module |
|------|-------|------------|--------|
| lock files, `pkg/lockfile` | an `fcntl` record lock per process; a `sync.RWMutex`, a counter and flags per process; the ID of the last writer, in the file | `Lock`, `RLock`, `RecursiveLock`, `Unlock` | `Lockfile` |
| the files of the three stores, `layers.go`, `images.go`, `containers.go` | a JSON file; a copy in memory; who was the last writer when the copy was made | `ReloadIfChanged`, `Load`, `Save`, `Modified`, `Touch` | `FileStore` |
| their records | names, digests, data items, and indexes by ID, name and digest | `Create`, `Put`, `Delete`, `SetNames`, `SetBigData`, `ApplyDiff`, ... | `Records` |
| the store, `store.go` | references between the three stores: parents, top layers, mapped top layers, a container's image and layer | `PutLayer`, `CreateImage`, `CreateContainer`, `DeleteLayer`, `DeleteImage`, `DeleteContainer`, `Delete`, `Wipe` | `Store` |
| its locks | `storage.lock`, a lock for each store, those of the additional read-only stores | every method of `store` that takes one of them | `StoreLocks` |
| the layer store | records marked incomplete, contents that the driver has | `Put`, `Delete`, `Load` with its removal of incomplete layers | `LayerStore` |
| mount counts | `mountpoints.json` under a lock of its own; copies in memory; the drivers' reference counters; the kernel's mounts | `Mount`, `Unmount`, `Mounted`, `Diff`, `Save`, `Shutdown` | `Mounts` |
| overlay driver | a directory per layer, link and lower files, symbolic links, project IDs | `Create`, `Remove`, `Get`, `Put`, `recreateSymlinks`, ... | `Overlay` |
| devicemapper driver | a thin pool, metadata files, a transaction file, a table in memory | `AddDevice`, `DeleteDevice`, `MountDevice`, the deletion worker, start and shutdown | `DeviceSet` |
| vfs, btrfs, zfs and aufs drivers | directories, subvolumes, datasets | `Create`, `Remove`, `Get`, `Put` | `Drivers` |
| opening a store, `GetStore`, `drivers.New` | the open stores, the drivers' homes on disk, cached answers of the support check | `GetStore`, `load`, `GraphDriver`, `Free`, `ROLayerStores` | `StoreOpen` |
| archives, `pkg/archive`, `drivers/fsdiff.go` | trees of files, archives with whiteouts | `Diff`, `Changes`, `UnpackLayer`, the overlay converters | `LayerDiff` |
| partial pulls, `pkg/chunked` | a blob with a table of contents, other layers' files | `ApplyDiff`, `mergeMissingChunks`, the compressor | `Chunked` |
| user namespaces, `userns.go`, `idset.go`, `pkg/idtools` | ranges of IDs | `getAutoUserNS`, `findAvailable`, `zip`, `ToHost`, `ToContainer` | `UserNS` |
| starting in namespaces, `pkg/unshare` | two processes and two pipes | `Start`, the constructor in C | `Unshare` |
| helpers, `pkg/chrootarchive`, `drivers/chown.go`, `drivers/overlay/mount.go` | a child, its pipes, the stream it reads or writes | `invokeUnpack`, `invokePack`, `ApplyLayer`, `mountFrom`, ... | `Reexec` |
| `pkg/ioutils`, `pkg/locker` | a pipe in memory, atomic files, named locks | `Read`, `Write`, `Close`, `Commit`, `Lock`, `Unlock` | `BytesPipe`, `FSWriters`, `Locker` |

How they interact. A call of the store takes `storage.lock` for a moment to find
the layer store (and makes a new one if another process has shut the storage
down), takes the locks of the stores that it needs, the layer store first, calls
`ReloadIfChanged` on each, and works on the copies. Each change of a record is
saved at once, so a call that changes several stores is a sequence of saves.
`mount` and `Diff` keep `storage.lock` as well. Mount counts live in a file of
their own under `mountpoints.lock`, because they change under a read lock of the
layer store too. The layer store calls the driver, which has no locks across
processes of its own and relies on the layer store's.

What makes it hard:

- goroutines of one process share the process's record lock, so exclusion
  between processes and between goroutines are two mechanisms that must agree;
- a process finds out that its copy is stale only through the writer ID in the
  lock file, which is written after the data; processes die between the two;
- a call is a sequence of saves and of driver operations, each a sequence of
  file operations; processes die, and operations fail, between any two of them,
  and the next process starts from what is left;
- mount counts, the driver's reference counter and the kernel's mount table are
  three accounts of the same thing, kept under three locks;
- `storage.lock` is never written until a `Shutdown` succeeds, so that until
  then it always looks modified and a process keeps making new layer stores,
  each with copies of its own, that share the process's lock file objects.

## 2. The modules

How the modules build on each other:

- `Lockfile` implements `ReaderWriterLock` (`RWSpec`, as a run and as a theorem).
  `FileStore`, `Mounts` and `LayerStore` use `ReaderWriterLock` for their locks.
- `FileStore` shows that an operation finds in memory what is on disk. `Records`
  adds what the file contains and the indexes beside it; it takes a save and its
  `Touch` to be one step, the gap between them being `FileStore`'s subject.
- `Store` has one copy of the records, which `FileStore` justifies, and shows
  which references can dangle when calls are cut short between saves.
  `StoreLocks` shows that calls hold the locks that this takes.
- `LayerStore` and `Mounts` refine the steps of `Store` that call a driver;
  `Overlay`, `DeviceSet` and `Drivers` are the drivers, each called with the
  discipline of the layer store (create only what is not recorded, remove only
  what nothing depends on).
- `MCLibraries` puts the modules that share no state with others beside each
  other for one run: each behaviour is one of one of them, chosen in the initial
  state. They are `Locker`, `Drivers`, `LayerDiff`, `Chunked`, `UserNS`,
  `BytesPipe`, `FSWriters`, `Unshare`, `Reexec`, `StoreOpen`, and `Lockfile` once
  more, with `RecursiveLock`.

The other `MC` modules instantiate the module they are named after. `LockfileProofs`,
`FileStoreProofs`, `LockerProofs` and the other `...Proofs` modules hold the proofs.

### State, steps and abstractions, module by module

In all of them an action is a whole handler, or the part of a handler between
two points at which something else may happen: where it waits, releases a lock,
or has changed the disk or the kernel's state so that a crash would leave it
there. Text, paths and log messages are left out. Bounds are constants named
`Max...`, and history variables are described as such where they are declared.

- **`Lockfile`** has one action for each point at which a goroutine may wait:
  `rwMutex`, `stateMutex`, `F_SETLKW`; `Unlock`; `Crash`.
- **`FileStore`**: the file, its modification time, the writer ID, and for each
  process the copy, `lw` and `layerspathModified`. Writer IDs are numbers that
  are never used twice (the code's are random), and the modification time changes
  with every write (the code compares time stamps, whose resolution is the file
  system's).
- **`Records`**: for each kind of store the records in the file, each process's
  copy with `byid`, `byname` and the digest indexes, the files of the data items.
  Every call that changes records is an action, with a load or a save that may
  fail and a process that may die before or after it. A copy remembers, as
  history, which of its records could not be saved and whether it could not be
  loaded. A file's content is its digest.
- **`Store`**: one action for each save or loop iteration of a call; `Crash`. The
  driver may fail to remove a layer, and the image store to save
  (`UndoMappedLayer`). The history variable `used` has the calls that
  promise nothing about what follows, and the two kinds of images (`Odd`) that
  `CreateImage` does not refuse.
  One call runs at a time because every call that changes layers holds the write
  lock of the layer store until it returns; the exception, `CreateImage` without
  a layer, may interleave with a `CreateContainer` that has no image. The two
  goroutines in `DeleteContainer` interleave. Early returns that change nothing
  are not steps.
- **`StoreLocks`**: a call is a sequence of instructions (take a lock, reload, look
  for a key, add or delete it, release), which the module's operators translate
  from the methods of `store`, one operator for each method. A store is the set
  of its keys. A look into a store without its lock may find what the file says
  or what it said.
- **`LayerStore`**: `Put` (which stands for `PutLayer` and `DeleteLayer`), `Get`
  and `mount`; each driver operation, each save, and each iteration of `Load`'s
  loop is a step. `Delete` does not unmount here, which is in `Mounts`.
- **`Mounts`** follows one layer through `mountpoints.lock`, the counter of the
  driver and the kernel. What other layers do shows as a reload at any time, and
  as a `Save`, which writes the counts too. `Put` of overlay and zfs only logs that
  unmounting failed; a `Put` that fails before it unmounts ends the `Unmount`.
- **`Overlay`**: a step is one operation on the disk of `create`, `Get`, `Put`,
  `Remove`, `UpdateLayerIDMap`, `ApplyDiff` and `recreateSymlinks`; a failure, a
  crash, or a reboot that loses a link file or a symbolic link may follow any of
  them. The layer store makes one call at a time.
- **`DeviceSet`**: a step ends at each effect on the disk or in the kernel, and
  wherever `devices.Lock` is released. Clients, the deletion worker and the
  starter (`NewDeviceSet`, `Shutdown`) interleave. The pool, which is in the
  kernel, keeps committed transactions through a crash and loses active devices
  and mounts in a reboot.
- **`Drivers`**: contents are sets of tokens, and a parent's tokens show in its
  children. What `zfs` and `btrfs` do themselves is external: a clone keeps its
  origin from being destroyed.
- **`StoreOpen`**: one graph root and run root; overlay under both of its names,
  and devicemapper, which is registered and not in the list of priorities; `btrfs`
  stands for the drivers that test the file system before they make their home.
- **`LayerDiff`**: trees map paths to nodes. What is in a file is the instant it was
  written at, and times are compared as `statDifferent` does, by the second where
  archives have seconds. All files have the same size, so that only times tell.
- **`Chunked`**: the blob is a sequence of cells; a content is a number, which is
  also its size and stands for its digest. Owner, mode and times are one of two
  attributes, which the mapping of owners swaps. An entry is a file, a directory,
  a symbolic or a hard link, or a device or fifo.
- **`UserNS`**: the intervals of `idSet` are checked against sets of numbers as the
  reference (`IntervalsSound`), then used by the allocation. User and group IDs
  are handled alike, and the module has one kind.
- **`BytesPipe`**: bytes are numbered. The mutex is held from call to return except
  in `Wait`; a step is what a call does between two waits.
- **`FSWriters`**: every system call of the writer is a step that may fail; processes
  die between them, and a power failure loses what was not synced and perhaps the
  last rename.
- **`Unshare`** and **`Reexec`**: every system call that may fail or block is a step
  of its process, either process may be killed, and pipes have ends that are open
  or closed and bounded contents.
- **`Locker`**: goroutines, names, and counters that are made and dropped.

Properties that are conjunctions collect related invariants of a module
(`NothingDangles`, `PoolMatchesMetadata`, ...). The modules define each conjunct
by itself, with a comment that states it. `PROJECT.json` names for each property
one mutated definition that breaks it; the other mutated definitions in the
modules (they are named after what they forget) break the other conjuncts.

## 3. The runs

| Run | What it shows | Instance |
|-----|---------------|----------|
| `lockfile_rw` | `RLock`, `Lock` and `Unlock` implement a reader-writer lock, never panic, and every acquisition returns | two processes, three goroutines, two acquisitions each, crashes |
| `filestore_sound` | operations see the disk and saves revert nothing, in the layer store also when processes crash | two processes, three goroutines, four operations |
| `records_calls` | no change of another process is missed, indexes are as `Load` would make them, data items and records agree, a save changes one record only | each kind of store; two processes, two records, two digests; three locks of three calls, two faults |
| `store_calls` | no parent, top layer or image dangles, containers' layers are private, whatever is cut short where | four layers, two images, two containers, two mappings; failing removals and saves, crashes |
| `store_byname` (violation) | `DeleteLayer`, given a name, skips its checks | two layers, one image, one container |
| `storelocks_calls` | what a call has found stays true until it returns, ID ranges are given once, no two calls wait for each other but the three listed in section 4 | any two calls of two threads of one process, of two processes, or of a process and the owner of its additional store |
| `mounts_processes` | a mount that somebody needs stays, counts are right, nothing stays mounted, no deadlock | two processes, crashes, failing mounts and unmounts |
| `layerstore_processes` | a layer recorded as complete has its contents, only `Delete` removes one, parents exist, nothing is left over | two processes, three layers, at most two of: failing driver, failing write, crash |
| `layerstore_goroutines` (violation) | `Load` removes a layer that another goroutine of its process is filling | one process with two goroutines, one layer, no faults |
| `overlay_recovery` | mounts are made of the right directories in the right order, lost links are made again and the search for them ends, nothing dangles, project IDs and references are accounted for | two layers on one of an additional store, four calls, a failure and a crash or reboot |
| `deviceset_once` | created layers keep device and metadata, IDs are distinct, nothing is leaked in the pool, no parent stays suspended, nobody waits forever | two clients, worker and starter, two layers, three sets of options, one failure or crash |
| `libraries` | eleven parts, each on an instance of its own: the four other drivers, whose layers show what was written into them and below and are mounted where users look (`LayersAsWritten`, `MountsAsUsed`), named locks (`Inv`), commits (`CommitsFaithful`), partial pulls (`PullsFaithful`), ID mappings (`MappingsSound`), `BytesPipe` (`PipeSound`), atomic files (`FilesWhole`), nested `RecursiveLock` (`RecursiveLocks`), namespaces (`NamespacesSetUp`), helpers (`HelpersComplete`), opening a store (`StoresOpenAlike`) | see `MCLibraries` |

### Bounds and why they are enough

- Lock files: two processes of which one has two goroutines is the smallest
  instance with contention inside a process, between processes, and both at
  once. Two acquisitions per goroutine allow an acquisition that meets what an
  earlier one left in the object's fields. The theorems of section 5 hold for
  any number.
- `FileStore`: a lost update takes two operations on different items and a
  stale copy a third; `MaxOps` is four. `Setups` are the combinations of store
  and failures that the protocol is meant to survive.
- `Records`: a stale copy takes a lock by each process and a third by the one
  that has the copy. Two records and one name are what a name that moves takes,
  two digests what a record whose digest changes takes.
- `Store`: two images that share layers need a base, two tops and a mapped copy:
  four layers. Two containers are what a layer that two of them have takes.
  `FewTogether` keeps the larger states to those in which things can meet: with
  two containers, or after a `Delete`, which checks nothing, there are at most
  three layers and one image; after one of the images in `Odd`, at most three
  layers and one container. The theorems of section 5 have none of these bounds.
- `StoreLocks`: two calls; a circle of three is not explored. One key is enough,
  since calls with different keys take the same locks, and a look may miss it. `AtOnce` leaves out
  interleavings of steps under a lock that nobody can observe, and `OneWriter`
  pairs of calls that only read.
- `Mounts`: `MaxHolds`, `MaxEvents` and `MaxCtr` are one, so each behaviour has
  at most one failure (of a mount, of an unmount, or of a process) or `Shutdown`, at
  any point of any call; after it, calls
  that read the layer run beside others only after a crash, and one at a time
  (`FewReadersAfterEvent`, which is there for time only). With two
  processes each property can be, and with the mutants is, violated.
- `LayerStore`: two layers are a parent and a child, and two faults are a failure
  and a crash while another process recovers from it. A third layer is needed for
  `Load`'s loop to go wrong: it removes elements of the array that it runs over,
  so after `[incomplete, incomplete, complete]` it skips the second, and after
  `[incomplete, complete, incomplete]` it meets the third twice and ends with
  `ErrLayerUnknown`, which is dropped because something was removed before. Both
  occur in the instance. `ThirdAlone` allows the third layer only to one process
  at a time, without parents and after no faults other than crashes.
  `MountFewLayers` lets `mount` be called with at most one layer around. After a
  failing write, which most of the properties except, no second fault is explored
  (`FewAfterWrite`), and after the second fault calls run one at a time
  (`AloneAfterFaults`). `MountFewLayers` and `AloneAfterFaults` are there for time
  only: the properties also hold without them (15 million states, 21 minutes).
- `Overlay`: a child, its parent and a parent of that in another store are what a
  lower file of two entries takes; three link names allow one that is lost and
  replaced. `OrderedLinks` uses that `ReadDir` sorts: of the free names only the
  first and the last matter. `InTurn` keeps the staging directory and the
  additional layer store, which do not meet, out of each other's way.
- `DeviceSet`: two layers are a device and its snapshot, beside the base; with
  `maxDeviceID` 1 the IDs run out and come round. Four transactions are the base,
  two devices and the deletion of one. `ReuseNames` is off: with it the leftovers
  of section 4 are met by a new layer.
- `layerstore_goroutines`: one process, two goroutines and one layer are the
  smallest instance in which one goroutine loads while another one writes.
- `MCLibraries`: each of four drivers with three layers, which are a parent, a
  child and a template, six calls and two faults; an image with nested directories over three commits; three files
  with contents of up to two cells and at most two chunks per request, so that
  chunks are merged and requests refused and tried again, `estargz` without
  owners and hard links (`PlainEstargz`), which do not meet where chunks end; four calls to open
  stores under three names or none; eight IDs; a pipe with
  buffers of one to three bytes; two writers of one file; options of two pipe
  buffers, which block. Each of the conjuncts of its properties is broken by a
  mutated definition on this instance.

### Fairness

`lockfile_rw` assumes weak fairness of the steps of every goroutine, including
`Unlock`: goroutines that can run are scheduled, `F_SETLKW` is granted when it
stays compatible, and callers give back what they hold, which all of them do in
a `defer`. Weak fairness is enough because the instance bounds the number of
acquisitions; the kernel does not promise that a stream of readers lets a writer
in.

`overlay_recovery` assumes weak fairness of the steps of the running call
(`RecoveryEnds`): it is one goroutine that never waits.

Other promises that something eventually happens are stated as invariants that
nobody waits for what has happened or for one another: `NoDeadlock`,
`NothingHeldUp`, `NoOtherDeadlock`, `WriterWoken`, `ReaderWokenAfterWrite`,
`NeitherStuck`, `ProducerFreed`, `NobodyStuck`.

TLC checks for deadlock where the model's environment can always go on
(`lockfile_rw`, the `Store`, `Mounts` and `LayerStore` runs). The other
behaviours end when the bound on calls is reached.

## 4. What the checks found

Where the code does something that a property would exclude, the property
excepts exactly that, by name, and the exception is described here. The first
item and the first of "Layers and mounts" are runs of their own (`store_byname`,
`layerstore_goroutines`) and `findings`; the others were met while modelling, most of them as counterexamples to the property without the
exception. They are statements about this code, not about later versions.

**Store and locks**

- `DeleteLayer` replaces its argument by the layer's ID only if the lookup *failed*
  (`store.go:2262`), and then compares IDs with the argument: given a name, it finds
  no child, image or container that uses the layer, and deletes it.
- Three calls take locks out of order, so that two calls can wait for each other:
  `getMaxSizeFromImage` (`userns.go:128`) and `PutAs` (`store.go:3232`) take
  `storage.lock` while they hold `layers.lock`, against `mount`, `Diff` and
  `Shutdown`; `imageTopLayerForMapping` locks an additional store's layers after its
  images. `NoOtherDeadlock` says that there are no others.
- `CreateImage` does not ask what the layer it is given is. `docs/containers-storage.md:35`
  says of containers that "their *layers* can not be directly referred to by *images*",
  but an image of a container's layer is made, a container of that image gives the layer
  a child, and `DeleteContainer` removes it from under both (`imageOfContainerLayer` in `used`).
  An image of another image's mapped copy loses its layer when that image is deleted
  (`imageOfMappedLayer`). `ParentsExist`, `TopLayersExist`, `ImagesOfContainersExist` and the
  part of `ContainerLayersPrivate` about images and children except what follows; that two
  containers never share a layer is not excepted.
- Two functions look into additional layer stores without their locks, and may be told
  what is no longer so (`AnswersHold` excepts them): `getMaxSizeFromImage`
  (`userns.go:143-144`), although `userns.go:126` says "The layer stores must be already
  locked.", and `imageTopLayerForMapping` (`store.go:1158-1162`), which asks the stores
  that it has yet to lock.
- `SetContainerDirectoryFile` and its run-directory twin write after they have
  released `containers.lock`; `Wipe` and `Delete` leave directories in the run root
  (`leftover` in `DirectoriesOwned`).
- `ImagesByTopLayer` appends the address of its loop variable;
  `SetNames` of a read-only image drops a name.

**Files and records**

- A crash between the write of `images.json` or `containers.json` and `Touch` leaves
  the copies of other processes stale. `layerStore` also compares the modification
  time, and does not have the problem.
- A failed `Save` leaves the change in memory, and its `Touch` makes the process
  believe that memory is current; a repeated `SetBigData` then sees no change and
  returns success without a save (`images.go:751`). `MemoryMatches` and `OnlyOwnChange`
  except the records that this process could not save (`unsaved`), and no others.
- `PutAdditionalLayer` and `ApplyDiffFromStagingDirectory` leave the index by digest
  without, or with the wrong, entry until the next reload (`skewed` in `IndexesAgree`);
  the former also forgets names. A call that is cut short between a data item's file and
  its record leaves one without the other (`broken` in `ItemsAgree`).
- `recomputeDigests` keeps an image's first manifest digest for good. A container's
  `BigDataSize` may write under a read lock. Data files left by a crash in `Delete`
  show in a record made again under the same ID.
- `Load` of a file with duplicate names under a read lock fails, but has consumed
  `Modified` (`images.go:287-288`), as does one that cannot read the file: the process
  goes on with its old copy and, under the write lock, saves it over what others have
  written (`stale` in `MemoryMatches` and `OnlyOwnChange`).

**Layers and mounts**

- `Load` removes incomplete layers when `Locked()`, which is also true when another
  goroutine of the process has the write lock, to fill the layer: `newLayerStore` loads
  without a lock, and is called whenever `mount` has dropped the old object. The comment
  at `layers.go:394` speaks of what "a previous user" has left (`NotRemovedWhileWritten`).
- The layer store, which compares the modification time too, can reload under a read
  lock while another goroutine of the process uses the copy; `NoReloadUnderReader` is
  about the other two stores.
- `Load`'s loop removes from the array it runs over (see the bounds of `LayerStore`).
- Goroutines of one process whose layer stores are different objects share the
  writer ID that says what they know, but not the copies: one unmounts what the
  other has mounted.
- `Diff` and `Changes` of drivers without a differ of their own mount and unmount
  without a count, so that of two processes the first unmounts for both.
- `Shutdown(true)` tests a copy of the layer that no `Unmount` changes, and loops. It sets
  its copy of the count to 1 first, and if the driver's `Put` then fails, `Unmount` touches
  `mountpoints.lock` without a save: the process takes the 1 for current (`skewed` in
  `CountFresh`). Any `Unmount` whose `Put` fails leaves the count as it was
  (`CountsHolds`). A failure of the system call itself is only logged by overlay and zfs,
  and the count goes down although the layer stays mounted (`NoMountLeft`).
- `Delete` removes contents before the record: a crash in between leaves a complete
  record without contents. A failing `Save` in `Put` may leave a record of a layer
  that the driver is told to remove.
- `RecursiveLock` and `RLock` on one lock file do not mix (`lock()` keeps the read
  lock that the process has), and a nested `RecursiveLock` can block behind a waiting
  writer. No caller in the repository mixes them; the proofs assume `NoMixing`.

**Drivers**

- devicemapper: `rollbackTransaction` frees the ID of a device but leaves its entry
  in the table, so that the deletion of the entry deletes the device that got the
  ID since (`orphaned` in `CreatedKept`); `cleanupDeletedDevices` works on names from
  a list made earlier; a crash between the deletion of an uninitialised base and
  the creation of the new one makes `checkThinPool` refuse later starts;
  `cancelDeferredRemoval` tries again when the error is *not* `EBUSY`.
- overlay: `recreateSymlinks` never ends while a layer has two symbolic links, or one that its
  link file does not name (excepted in `RecoveryEnds`), returns an error if `staging` exists although it has repaired
  everything, and may leave a dangling link; a removed layer's project ID stays in
  `q.quotas`, and two processes with one home give out equal project IDs; a `Remove`
  that is repeated releases the additional layer twice; leftovers of a broken-off
  `CreateAs` show in a layer created again; a `create` that fails before its clean-up is
  deferred (`overlay.go:889-917`) leaves the directory, and the clean-up leaves the symbolic
  link (`left` in the properties of `Overlay`).
- btrfs, zfs, aufs, vfs: `Remove` of btrfs and zfs cannot be repeated after a crash;
  a failed `Create` leaks a subvolume, or a clone that keeps its origin from being
  removed; aufs keeps `mnt/<id>` of a layer without parents, and after a `Put` without
  a `Get` shows it, empty, instead of the layer; a process that dies between the
  driver's `Get` and `saveMounts` leaves a mount. zfs reads its list of file systems once
  (`zfs.go:96-103`), and `Exists` (`zfs.go:506`) does not see what a second live process makes
  or destroys: the model has one live process at a time and leaves this out.
- choosing a driver: the answer that overlay is not supported is cached as a text
  (`overlay.go:224`) that `isDriverNotSupported` does not recognise, so that the first
  `GetStore` chooses another driver and the second fails; `ROLayerStores` keeps the
  part of the list that it had when it failed, and returns it as complete the next
  time (`store.go:908`). `overlay2` and `devicemapper` are registered and not in the list of
  priorities: `New` without a name passes over their homes, hides their layers behind the first
  driver that is supported, and then finds two homes and fails ("contains several valid
  graphdrivers"). A store that was asked for as `overlay2` calls itself `overlay`, so that a
  process opens it twice, and `GraphDriver`, after a `Shutdown`, opens it again in the home of
  `overlay`.

**Archives, partial pulls, IDs**

- `NaiveDiffDriver.Diff` without a parent does not wait for the end of the second, as
  it does with one (`fsdiff.go:109`), so a change in the same second is missed.
  `OverlayChanges` ignores opaque directories of layers in the middle, and fails where a
  lower layer has a file in the place of a directory (`changes.go:210-213` lets `ENOTDIR`
  pass for an error; `changes # None` in `ChangesComplete`).
- `mergeTocEntries` sets the end of chunks in a copy of the entry; `retrieveMissingFiles`
  does not compute the requests anew when it merges chunks to try again; a copy that
  fails leaves a file at which the later download fails; a hard-linked file shares
  its times and later changes with its source. `ApplyDiff` skips devices and fifos
  without an error (`storage_linux.go:1265-1268`) and leaves symbolic links to the user who
  makes them; `canDedupMetadataWithHardLink` believes the other layer's manifest, so that a
  file whose owners were remapped there is linked with the owners that it got
  (`Misdescribed` in `AppliedFaithful`).
- `parseMountedFiles` returns the largest ID instead of the number of IDs, and joins
  the wrong path for groups; the additional mappings of a container are not compared
  with IDs in use; `IsContiguous` sorts its argument in place.

**Pipes, files, processes**

- A `Write` to a `BytesPipe` that waits at `blockThreshold` has not woken the readers:
  reader and writer wait for each other if the reader waits already (excepted in
  `ReaderWokenAfterWrite`). `Read` may return 0 bytes and no error.
- `syncFileCloser.Close` syncs only with `NoSync` (the condition is inverted);
  `AtomicWriteSet`, which uses it, has no caller. A writer that failed to write leaves
  the old file and returns nil from `Close`. The temporary file stays when
  `filepath.Abs` fails after it was made (`fswriters.go:38-41`) or its removal does
  (`noAbs` and `noRemove` in `FailedHasNoEffect`).
- `unshare`: success is the closing of a pipe, so a child whose parent was killed goes
  on as if it had been set up, and so does one that cannot read the pipe; an error after the start leaves a zombie; the branch
  of `ExecRunnable` for a signal cannot be reached.
- `invokeUnpack` keeps the read end of the options' pipe open, so that options larger
  than a pipe, written to a child that died, block for good; on an encoding error it
  neither waits nor drains.

## 5. The proofs

The theorems hold for every value of the constants under the assumptions that the
modules state (`ASSUME`), so for any number of processes, goroutines, records and
calls. Each proof has the same shape: an inductive invariant, one lemma per action
that shows that the action preserves it, and the properties as consequences.

**`LockfileProofs`**, for any set of methods that does not hold both `RLock` and
`RecursiveLock` (`NoMixing`):

- `InvAlways`: `Inv` is an invariant. It says that `counter` is the number of
  acquisitions that the process has not released, that `rwMutex` holds exactly
  the acquisitions that have passed it, that `locktype` and `recursive`, which
  every acquirer overwrites, have one value for all holders, and that the record
  locks are compatible. Exclusion alone is not inductive: `Unlock` decides from
  the fields of the object what to release.
- `ExclusionAlways` and `HolderNeverPanicsAlways` follow from `Inv`.
- `LockfileImplementsReaderWriterLock`: with `RLock` and `Lock` only, every step
  is a step of `ReaderWriterLock` or changes nothing there.

The counting argument is about sets of pairs (goroutine, depth), so that each
step adds or removes one element; `FiniteSetTheorems` does the rest.

**`FileStoreProofs`**, if the failures are `Tolerated` (none, or, in the layer store,
crashes and failing writes of the lock file):

- `InvAlways`: `Inv` is an invariant. Its heart is `CacheInv`: the copy of a
  process is the file unless a change is under way or the next `Modified` says
  that it is not. The numbers of `NumberInv` are needed so that a new writer ID
  is different from those that processes remember.
- `FreshAlways` (`Fresh`) and `NoLostUpdate` (`OneRecordPerSave`) follow from it.
- `NoReloadUnderReaderAlways` needs `KnownInv` besides: while a goroutine that has
  been through `ReloadIfChanged` holds the lock, its process knows the last writer.

**`LockerProofs`**: `LockerInvariant` shows that a counter's number of waiters is the
number of goroutines between finding it and holding it, and that a counter in use is
the one of its name; `LockerExclusion`, `LockerNotDropped` and `LockerNothingKept` follow.

**`StoreInvariant` and `StoreProofs`** (the first has the invariant and the calls that
create records, the second those that delete them, and the theorems), for any number of
layers, images, containers and mappings, and all the ways of using the store:

- `NothingDanglesAlways` and `LayersInPlaceAlways`, from `IInv`. They hold for clients that
  also make images of containers' and of mapped layers, with the exceptions that the properties
  name; `OwnInv` says what stays true of a container's layer whatever images are made of it,
  and `PrivateInv` what is true until one is. The properties speak of
  records, and are not inductive because a call works from locals that it read several
  saves ago. `CreatingInv` says that the layer that `CreateContainer` is about to use is
  one that nothing refers to and that what it will be built on still exists; `RemovingInv`
  that what `DeleteImage` has collected in `layersToRemove` is no image's top layer and that
  the children of each member come before it in the list, so that a crash or a failure
  anywhere in the loop leaves no layer without its parent; `DeletingInv` that nobody has
  begun to use the layer that `DeleteContainer` is removing. `ReferencesInv` restates the
  properties element by element.
- `ReclaimableAlways`: parents form no cycle. The invariant is `YoungestInv`: every set of
  layers has a member that no member of the set is a child of. It is stated for sets, not
  for paths, so that no induction along a chain of parents is needed.

**`MountsInvariant` and `MountsProofs`** (the first has the invariant and the proofs for its
parts up to `CountInv`, the second the others and the theorems), for any number of processes
that call their stores from one goroutine each (`OneGoroutine`; goroutines of one process
share a `layerStore`, and there `Load` may replace a `Layer` that `Mount` is about to count in):

- `MountsCorrect`: `IInv` is an invariant. Each part needs those before it. `StateInv`: no two
  processes share a `layerStore`, layers.lock excludes as it should, and the client at the
  steps between locking and unlocking mountpoints.lock is the one that holds it. `FreshInv`: a
  process that knows the last writer of mountpoints.json has its count, also between calls
  and while its `layerStore` is dropped and made again; a call that is about to save the
  counts with the records (`Saving`) has it too. It is part of `IInv` as `KnownInv`, for as long
  as no forced `Shutdown` has failed to unmount. `CountInv`: the count is the number of
  holders and of the clients (`Counting`) that a call has counted for its own duration, and
  after a crash at least that. `LowerInv` and `UpperInv`: beside one mount for each reader
  that mounted for itself (`Users`) there is one more if somebody holds the layer, and,
  without faults, no more than one and none if nobody does; they need that a driver's counter
  is above one only for its own process's reads (`CounterBound`).
- `MountedAsHeldAlways` (`MountedAsHeld`) and `CountsAgreeAlways` (`CountsAgree`) follow.

`Counting` and `Users` are sets of clients, so that every step adds or removes one member.

**`LayerStoreProofs`**, for any number of processes that call their stores from one goroutine
each (`OneGoroutine`: with two, `Load` may remove the layer that the other one is writing, see
section 4), any number of layers and of faults:

- `LayerStoreCorrect`: `IInv` is an invariant. `StateInv` says who has which `layerStore` and
  who holds layers.lock, and that no ID is recorded twice. The rest is about every client
  (`ClientAt`): who knows the last writer of layers.json has its records (`FreshAt`); the
  array that `Load`'s loop runs over holds records of the file, begins with the copy, and
  whatever the loop skips or meets twice, the copy keeps every complete layer (`LoopAt`,
  `KeptAt`); the layer of a `Put` is marked in the file until it is complete (`PutAt`); and
  what is about to be saved has contents for its complete records (`DataAt`), complete
  parents (`ParentAt`) and a record for all that the driver has (`CoverAt`). The properties
  speak of the file, and are not inductive because the file is replaced by a copy
  that was changed several steps before.
- `RecordsMatchDataAlways` (`RecordsMatchData`) and `OnlyDeleteRemovesAlways` (the action
  property `OnlyDeleteRemoves`) follow.

There are two kinds of steps: those of the client that has the write lock (`Writes`), and
those that change neither the file nor the contents (`Quiet`), crashes among them. One lemma
for each says what a step must establish about the client that takes it; `OthersKeep`
covers the other clients once for all. TLC checked the conjuncts of `IInv` on the instance of
`layerstore_processes` before they were proved.

Only model-checked:

- `CallReturns` and `RecoveryEnds`, which are liveness properties, and `NoDeadlock`,
  `NothingHeldUp` and `NoOtherDeadlock`, which are about `ENABLED` or about who can take a
  step: TLAPS proves safety.
- The properties of `UserNS`, `Chunked` and `LayerDiff`, which compare recursive algorithms
  with a reference: they need induction over data.
- `DeviceSet`, `Overlay`, `StoreLocks`, `Records`, `Drivers`, `BytesPipe`, `FSWriters`,
  `Unshare`, `Reexec` and `StoreOpen`: no proof has been written.

## 6. What is not modelled

Components without a module:

- the Windows driver, a thin layer over `hcsshim`, which is not in the repository;
- abbreviated IDs (`pkg/truncindex`), a wrapper of a patricia trie; `Store` has deletion by
  something other than an ID as `deleteByName`;
- `pkg/mount`, `pkg/loopback`, `pkg/devicemapper`: wrappers of system calls; what they change
  is state of `Mounts`, `Overlay`, `Drivers` and `DeviceSet`;
- configuration (`types`, `pkg/config`) and the command line (`cmd`): parsing and printing;
- other utilities in `pkg`: functions on strings and wrappers without state.

Left out of components that have one:

- calls that only look records up, the reporting of sizes, and `Check`-like reports;
- how a driver mounts: options, labels and their length limits, owners, quota sizes;
- of devicemapper, `migrateOldMetaData`, `ResizePool`, the growing of the base device, and the
  set-up with the LVM tools;
- of archives, compression, hard links, devices, extended attributes, and the path rules
  of `copy.go`;
- of partial pulls, the checks of paths and the spelling of digests;
- of the records, the indexes `bylayer` and `bymount`;
- of drivers with a list in memory (zfs), two live processes;
- of lock files, those opened read-only, `TouchedSince`, the registry of `getLockfile` and the Windows variant.
