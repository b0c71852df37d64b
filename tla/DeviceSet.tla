------------------------------ MODULE DeviceSet ------------------------------
(***************************************************************************)
(* The devicemapper driver (drivers/devmapper): layers are thin devices of *)
(* a pool, each described by a metadata file.  A step here ends at each    *)
(* effect on the disk or in the kernel, and at each place where            *)
(* devices.Lock is released, so that the process may stop between any two  *)
(* effects.  Clients call the Driver; the Starter is NewDeviceSet and      *)
(* Shutdown; the Worker is startDeviceDeletionWorker.                      *)
(***************************************************************************)
EXTENDS Integers, Sequences, FiniteSets

CONSTANTS Clients,           \* goroutines that call the driver
          Worker, Starter,   \* the two goroutines of the driver itself
          Layers,            \* names ("hashes") of layers
          Base,              \* the name "" of the base device
          None,
          Modes,             \* options: records of deferredRemove, deferredDelete, thinPoolDevice,
                             \* and maxDeviceID (a constant of the code, the same in every mode)
          MaxTransactions,   \* no call begins once the pool has seen so many
          MaxFaults,         \* operations on the disk that fail
          MaxCrashes,        \* ends of the process other than by Shutdown
          ReuseNames         \* may a caller use a name again that it lost or removed?

VARIABLES mode,      \* the options of this device set
          pool,      \* kernel: device ID -> the name whose contents it holds, or None
          poolTx,    \* kernel: transaction ID of the pool
          dm,        \* kernel: name -> None or the activated device [id, deferred]
          suspended, \* kernel: names whose activated device is suspended
          mounted,   \* kernel: names mounted by the driver
          leaked,    \* kernel: names still mounted in another mount namespace
          meta,      \* disk: name -> None or the metadata file [id, init, deleted]
          txFile,    \* disk: transaction-metadata, None or [id, hash, dev]
          setFile,   \* disk: deviceset-metadata, None or [next, uuid]
          images,    \* disk: do the loopback files exist?
          mem,       \* the fields of DeviceSet and the reference counts of Driver
          lock,      \* holder of devices.Lock
          nameLock,  \* Driver.locker: name -> holder
          call,      \* the call each goroutine is in
          names,     \* what the callers know of each name
          faults, crashes,
          orphaned,  \* history: device IDs that a rollback freed and an entry of the table still names
          leftBusy   \* history: device IDs that a rollback could not delete

kernel == <<pool, poolTx, dm, suspended, mounted, leaked>>
disk == <<meta, txFile, setFile, images>>
vars == <<mode, kernel, disk, mem, lock, nameLock, call, names, faults, crashes, orphaned, leftBusy>>

Names == Layers \cup {Base}
Goroutines == Clients \cup {Worker, Starter}
DeviceIDs == 0..mode.maxDeviceID

ASSUME DeviceSetAssumption ==
  /\ MaxFaults \in Nat /\ MaxCrashes \in Nat /\ MaxTransactions \in Nat
  /\ ReuseNames \in BOOLEAN /\ Base \notin Layers
  /\ \A m \in Modes : m.maxDeviceID \in Nat /\ (m.deferredDelete => m.deferredRemove)

\* An info is an element of mem.heap: goroutines keep its index, as the code keeps a *devInfo.
Idle == [pc |-> "idle", op |-> "none", h |-> Base, base |-> Base, r |-> 0, id |-> 0,
         list |-> {}, cancel |-> FALSE, ok |-> TRUE]

EmptyMem == [devs |-> [h \in Names |-> 0], heap |-> <<>>, tx |-> 0,
             open |-> [id |-> 0, hash |-> Base, dev |-> 0],
             next |-> 0, used |-> {}, nr |-> 0, uuid |-> FALSE,
             ctr |-> [h \in Names |-> [check |-> FALSE, count |-> 0]]]

Init ==
  /\ mode \in Modes
  /\ pool = [d \in DeviceIDs |-> None] /\ poolTx = 0
  /\ dm = [h \in Names |-> None] /\ suspended = {} /\ mounted = {} /\ leaked = {}
  /\ meta = [h \in Names |-> None] /\ txFile = None /\ setFile = None /\ images = FALSE
  /\ mem = EmptyMem /\ lock = None /\ nameLock = [h \in Names |-> None]
  /\ call = [g \in Goroutines |-> [Idle EXCEPT !.pc = IF g \in Clients THEN "idle" ELSE "down"]]
  /\ names = [h \in Layers |-> "fresh"]
  /\ faults = 0 /\ crashes = 0 /\ orphaned = {} /\ leftBusy = {}

-----------------------------------------------------------------------------
(* Helpers: the kernel's view of a device, and the tables of the driver. *)

Open(h) == h \in mounted \cup leaked

\* delete and create_thin are refused while a device with that ID is activated.
BusyID(d) == \E h \in Names : dm[h] # None /\ dm[h].id = d

\* RemoveDeviceDeferred: the device goes at once, or when it is closed.
RemoveDeviceDeferred(h) ==
  IF dm[h] = None THEN dm
  ELSE [dm EXCEPT ![h] = IF Open(h) THEN [@ EXCEPT !.deferred = TRUE] ELSE None]

\* What activateDeviceIfNeeded leaves in the kernel, when it succeeds.
Activated(h, id) == [dm EXCEPT ![h] = IF @ = None THEN [id |-> id, deferred |-> FALSE]
                                      ELSE [@ EXCEPT !.deferred = IF mode.deferredRemove THEN FALSE ELSE @]]

CanActivate(h, id) == dm[h] # None \/ pool[id] # None

\* lookupDevice: the table, or else the metadata file.
lookupDevice(h) ==
  IF mem.devs[h] # 0 \/ meta[h] = None THEN mem
  ELSE [mem EXCEPT !.heap = Append(@, [hash |-> h, id |-> meta[h].id, init |-> meta[h].init,
                                       deleted |-> meta[h].deleted, lock |-> None]),
                   !.devs[h] = Len(mem.heap) + 1]

\* getNextFreeDeviceID: the first free ID after NextDeviceID, wrapping at maxDeviceID.
FreeIDs(m) == {i \in 1..(mode.maxDeviceID + 1) : ((m.next + i) % (mode.maxDeviceID + 1)) \notin m.used}

getNextFreeDeviceID(m) ==
  LET i == CHOOSE j \in FreeIDs(m) : \A k \in FreeIDs(m) : j <= k
  IN  (m.next + i) % (mode.maxDeviceID + 1)

Marked(m, d) == [m EXCEPT !.next = d, !.used = @ \cup {d}]

\* openTransaction and refreshTransaction, in memory; the file is written by the caller.
Opened(m, h, d) == [m EXCEPT !.open = [id |-> m.tx + 1, hash |-> h, dev |-> d]]

\* RefCounter.incdec: the first use looks whether the path is mounted; a later one
\* forgets the count of a path that is not.
Counted(h, delta) ==
  [mem EXCEPT !.ctr[h] = [check |-> TRUE,
     count |-> delta + (IF @.check THEN IF h \in mounted THEN @.count ELSE 0
                        ELSE IF h \in mounted THEN 1 ELSE 0)]]

Up == call[Starter].pc = "up"
At(g, pc) == call[g].pc = pc
Go(g, pc) == call' = [call EXCEPT ![g].pc = pc]
MountOps == {"Get", "Put"}
DeleteOps == {"Remove", "cleanup", "setup"}

\* devices.Lock is held; or it was released to sleep and is taken again.
Relock(g) == lock \in {g, None} /\ lock' = g

CanFail == faults < MaxFaults
Fail == CanFail /\ faults' = faults + 1
NoFault == UNCHANGED faults

\* The end of a call: every lock of the goroutine is released (the defers).
Unlocked(m, g) == [m EXCEPT !.heap = [r \in DOMAIN @ |-> IF @[r].lock = g THEN [@[r] EXCEPT !.lock = None] ELSE @[r]]]

AfterCall(g, ok) ==
  CASE g = Worker  -> [Idle EXCEPT !.pc = "next", !.list = call[g].list]
    [] g = Starter -> [Idle EXCEPT !.pc = IF ~ok THEN "failed" ELSE IF call[g].op = "setup" THEN "open" ELSE "up",
                                   !.op = IF ok /\ call[g].op = "setup" THEN "base" ELSE "none"]
    [] OTHER       -> Idle

Outcome(g, ok) ==
  CASE call[g].op = "Create" -> IF ok THEN "live" ELSE "failed"
    [] call[g].op = "Remove" -> IF ok THEN "dead" ELSE "failed"
    [] OTHER -> names[call[g].h]

Return(g, m, ok) ==
  /\ mem' = Unlocked(m, g)
  /\ lock' = IF lock = g THEN None ELSE lock
  /\ nameLock' = [h \in Names |-> IF nameLock[h] = g THEN None ELSE nameLock[h]]
  /\ call' = [call EXCEPT ![g] = AfterCall(g, ok)]
  /\ names' = IF g \in Clients THEN [names EXCEPT ![call[g].h] = Outcome(g, ok)] ELSE names

-----------------------------------------------------------------------------
(* The calls of the Driver. *)

Begin(c, op, h, base, pc) ==
  /\ Up /\ At(c, "idle") /\ poolTx < MaxTransactions
  /\ call' = [call EXCEPT ![c] = [Idle EXCEPT !.op = op, !.h = h, !.base = base, !.pc = pc]]
  /\ UNCHANGED <<mode, kernel, disk, mem, lock, nameLock, faults, crashes, orphaned, leftBusy>>

InUse(h) == \E c \in Clients : call[c].h = h /\ call[c].op \in {"Get", "Put", "Remove", "held"}

Create(c, h, base) ==
  /\ names[h] = "fresh" \/ (ReuseNames /\ names[h] = "dead")
  /\ base = Base \/ (base \in Layers /\ names[base] = "live")
  /\ Begin(c, "Create", h, base, "lookup")
  /\ names' = [names EXCEPT ![h] = "creating"]

\* "This assumes the device has been properly Get/Put:ed and thus is unmounted."
Remove(c, h) ==
  /\ names[h] \in {"live", "failed"} \/ (ReuseNames /\ names[h] = "dead")
  /\ h \notin mounted /\ ~InUse(h)
  /\ Begin(c, "Remove", h, Base, "name")
  /\ names' = [names EXCEPT ![h] = "removing"]

Get(c, h) ==
  /\ names[h] = "live"
  /\ Begin(c, "Get", h, Base, "name")
  /\ UNCHANGED names

\* A mount of this client, or one that an earlier process left.
Put(c, h) ==
  /\ h \in mounted /\ Up /\ poolTx < MaxTransactions
  /\ (At(c, "held") /\ call[c].h = h) \/ (At(c, "idle") /\ ~InUse(h) /\ names[h] = "live")
  /\ call' = [call EXCEPT ![c] = [Idle EXCEPT !.op = "Put", !.h = h, !.pc = "name"]]
  /\ UNCHANGED <<mode, kernel, disk, mem, lock, nameLock, names, faults, crashes, orphaned, leftBusy>>

\* Driver.locker, and what Get and Put do before they turn to the device set.
LockName(c) ==
  LET h == call[c].h
      count == Counted(h, IF call[c].op = "Get" THEN 1 ELSE -1)
  IN
  /\ At(c, "name") /\ nameLock[h] = None
  /\ \/ /\ call[c].op = "Remove" /\ Go(c, "has")
        /\ nameLock' = [nameLock EXCEPT ![h] = c]
        /\ UNCHANGED mem
     \/ /\ call[c].op # "Remove"
        /\ mem' = count
        /\ IF \/ call[c].op = "Get" /\ count.ctr[h].count > 1
              \/ call[c].op = "Put" /\ count.ctr[h].count > 0
           THEN /\ call' = [call EXCEPT ![c] = IF call[c].op = "Get"
                                               THEN [Idle EXCEPT !.op = "held", !.pc = "held", !.h = h] ELSE Idle]
                /\ UNCHANGED nameLock
           ELSE Go(c, "lookup") /\ nameLock' = [nameLock EXCEPT ![h] = c]
  /\ UNCHANGED <<mode, kernel, disk, lock, names, faults, crashes, orphaned, leftBusy>>

\* HasDevice: a device that does not exist is removed already.
HasDevice(c) ==
  /\ At(c, "has") /\ lock = None
  /\ IF lookupDevice(call[c].h).devs[call[c].h] = 0
     THEN Return(c, lookupDevice(call[c].h), TRUE)
     ELSE mem' = lookupDevice(call[c].h) /\ Go(c, "lookup") /\ UNCHANGED <<lock, nameLock, names>>
  /\ UNCHANGED <<mode, kernel, disk, faults, crashes, orphaned, leftBusy>>

\* A failing Get gives back its reference (d.ctr.Decrement).
Uncount(c) == IF call[c].op = "Get" THEN Counted(call[c].h, -1) ELSE mem

\* (mutant) devices.Lock is kept while waiting for the lock of the info.
LookupLocked(g) ==
  LET h == IF call[g].op = "Create" THEN call[g].base ELSE call[g].h
      m == lookupDevice(h)
      r == m.devs[h]
  IN
  /\ At(g, "lookup") /\ lock = None
  /\ IF r = 0 \/ (m.heap[r].deleted /\ call[g].op \in {"Create", "Get"})
     THEN Return(g, [m EXCEPT !.ctr = Uncount(g).ctr], FALSE)
     ELSE /\ mem' = m
          /\ call' = [call EXCEPT ![g].r = r, ![g].pc = "info"]
          /\ lock' = IF call[g].op = "Get" THEN g ELSE lock
          /\ UNCHANGED <<nameLock, names>>
  /\ UNCHANGED <<mode, kernel, disk, faults, crashes, orphaned, leftBusy>>

\* lookupDeviceWithLock, and the check of Deleted that follows it.
Lookup(g) ==
  LET h == IF call[g].op = "Create" THEN call[g].base ELSE call[g].h
      m == lookupDevice(h)
      r == m.devs[h]
  IN
  /\ At(g, "lookup") /\ lock = None
  /\ IF r = 0 \/ (m.heap[r].deleted /\ call[g].op \in {"Create", "Get"})
     THEN Return(g, [m EXCEPT !.ctr = Uncount(g).ctr], FALSE)
     ELSE /\ mem' = m
          /\ call' = [call EXCEPT ![g].r = r, ![g].pc = "info"]
          /\ UNCHANGED <<lock, nameLock, names>>
  /\ UNCHANGED <<mode, kernel, disk, faults, crashes, orphaned, leftBusy>>

LockInfo(g) ==
  /\ At(g, "info") /\ mem.heap[call[g].r].lock = None
  /\ mem' = [mem EXCEPT !.heap[call[g].r].lock = g]
  /\ Go(g, "dev")
  /\ UNCHANGED <<mode, kernel, disk, lock, nameLock, names, faults, crashes, orphaned, leftBusy>>

-----------------------------------------------------------------------------
(* cancelDeferredRemoval and removeDevice release devices.Lock to sleep. *)

\* The last user of the device closes it while its deferred removal is being cancelled:
\* ENXIO, on which the loop sleeps without the lock and tries again.
CancelRace(g, h) ==
  /\ mode.deferredRemove /\ dm[h] # None /\ dm[h].deferred
  /\ lock \in {g, None} /\ lock' = None
  /\ h \notin mounted
  /\ dm' = [dm EXCEPT ![h] = None] /\ leaked' = leaked \ {h}
  /\ suspended' = suspended \ {h}

CancelDeferredRemoval(g) ==
  /\ \/ At(g, "dev") /\ call[g].op = "Create" /\ CancelRace(g, call[g].base)
     \/ At(g, "dev") /\ call[g].op = "Get" /\ CancelRace(g, call[g].h)
     \/ At(g, "discard") /\ CancelRace(g, call[g].h)
  /\ UNCHANGED <<mode, pool, poolTx, mounted, disk, mem, nameLock, call, names, faults, crashes, orphaned, leftBusy>>

\* removeDevice: EBUSY.
RemoveBusy(g) ==
  /\ At(g, "deactivate") /\ ~(mode.deferredRemove /\ (call[g].op \in MountOps \/ mode.deferredDelete))
  /\ Open(call[g].h) /\ dm[call[g].h] # None
  /\ lock \in {g, None} /\ lock' = None
  /\ lock # None
  /\ UNCHANGED <<mode, kernel, disk, mem, nameLock, call, names, faults, crashes, orphaned, leftBusy>>

-----------------------------------------------------------------------------
(* MountDevice and UnmountDevice. *)

\* activateDeviceIfNeeded and mount.Mount, which refuses a device that is mounted there already.
\* When xfsSetNospaceRetries fails, the mount is undone (or stays, if that fails too), and the
\* device is deactivated.
MountDevice(c) ==
  LET h == call[c].h
      info == mem.heap[call[c].r]
  IN
  /\ At(c, "dev") /\ call[c].op = "Get" /\ Relock(c)
  /\ UNCHANGED <<mode, pool, poolTx, suspended, leaked, disk, crashes, orphaned, leftBusy>>
  /\ \/ /\ (info.deleted \/ ~CanActivate(h, info.id)) /\ NoFault
        /\ UNCHANGED <<dm, mounted>>
        /\ call' = [call EXCEPT ![c].pc = "end", ![c].ok = FALSE]
     \/ /\ ~info.deleted /\ CanActivate(h, info.id)
        /\ dm' = Activated(h, info.id)
        /\ \/ /\ h \notin mounted /\ NoFault
              /\ mounted' = mounted \cup {h}
              /\ Go(c, "end")
           \/ \* mount fails: the device stays activated
              /\ \/ Fail
                 \/ h \in mounted /\ NoFault
              /\ UNCHANGED mounted
              /\ call' = [call EXCEPT ![c].pc = "end", ![c].ok = FALSE]
           \/ /\ h \notin mounted /\ Fail
              /\ mounted' \in {mounted, mounted \cup {h}}
              /\ call' = [call EXCEPT ![c].pc = "deactivate", ![c].ok = FALSE]
  /\ UNCHANGED <<mem, nameLock, names>>

\* Get makes directories in the mount: if it cannot, it unmounts again.
EndGet(c) ==
  LET h == call[c].h
  IN
  /\ At(c, "end") /\ call[c].op = "Get"
  /\ lock' = None
  /\ \/ /\ call[c].ok /\ NoFault
        /\ mem' = Unlocked(mem, c) /\ nameLock' = [nameLock EXCEPT ![h] = None]
        /\ call' = [call EXCEPT ![c] = [Idle EXCEPT !.op = "held", !.pc = "held", !.h = h]]
     \/ /\ ~call[c].ok /\ NoFault
        /\ mem' = Unlocked(Uncount(c), c) /\ nameLock' = [nameLock EXCEPT ![h] = None]
        /\ call' = [call EXCEPT ![c] = Idle]
     \/ /\ call[c].ok /\ Fail
        /\ mem' = Unlocked(Uncount(c), c) /\ UNCHANGED nameLock
        /\ call' = [call EXCEPT ![c] = [Idle EXCEPT !.op = "Put", !.pc = "lookup", !.h = h]]
  /\ UNCHANGED <<mode, kernel, disk, names, crashes, orphaned, leftBusy>>

\* When the mount cannot be undone, the device stays activated, and its reference is given back.
UnmountDevice(c) ==
  /\ At(c, "dev") /\ call[c].op = "Put" /\ Relock(c)
  /\ \/ NoFault /\ mounted' = mounted \ {call[c].h} /\ Go(c, "deactivate")
     \/ Fail /\ UNCHANGED mounted /\ call' = [call EXCEPT ![c].pc = "end", ![c].ok = FALSE]
  /\ UNCHANGED <<mode, pool, poolTx, dm, suspended, leaked, disk, mem, nameLock, names, crashes, orphaned, leftBusy>>

\* deactivateDeviceMode, for Put, a failed Get and a deletion; a deletion closes its transaction in any case.
deactivateDeviceMode(g) ==
  LET h == call[g].h
      deferred == mode.deferredRemove /\ (call[g].op \in MountOps \/ mode.deferredDelete)
      busy == ~deferred /\ dm[h] # None /\ Open(h)
  IN
  /\ At(g, "deactivate") /\ Relock(g)
  /\ dm' = IF busy THEN dm ELSE IF deferred THEN RemoveDeviceDeferred(h) ELSE [dm EXCEPT ![h] = None]
  /\ suspended' = IF dm'[h] = None THEN suspended \ {h} ELSE suspended
  /\ call' = [call EXCEPT ![g].ok = @ /\ ~busy,
                          ![g].pc = IF call[g].op \in MountOps THEN "end" ELSE IF busy THEN "close" ELSE "delete"]
  /\ UNCHANGED <<mode, pool, poolTx, mounted, leaked, disk, mem, nameLock, names, faults, crashes, orphaned, leftBusy>>

EndPut(c) ==
  /\ At(c, "end") /\ call[c].op = "Put"
  /\ Return(c, mem, TRUE)
  /\ UNCHANGED <<mode, kernel, disk, faults, crashes, orphaned, leftBusy>>

-----------------------------------------------------------------------------
(* DeleteDevice, for Driver.Remove, the deletion worker and the set-up of the base device. *)

openTransaction(g) ==
  LET info == mem.heap[call[g].r]
      m == Opened(mem, info.hash, info.id)
  IN
  /\ At(g, "dev") /\ call[g].op \in DeleteOps /\ lock = None
  /\ UNCHANGED <<mode, kernel, meta, setFile, images, crashes, orphaned, leftBusy>>
  /\ \/ /\ NoFault /\ mem' = m /\ lock' = g
        /\ txFile' = m.open /\ Go(g, "discard")
        /\ UNCHANGED <<nameLock, names>>
     \/ /\ Fail /\ UNCHANGED txFile
        /\ Return(g, m, FALSE)

\* issueDiscard, done for loopback devices; its errors are ignored.
issueDiscard(g) ==
  LET h == call[g].h
      info == mem.heap[call[g].r]
  IN
  /\ At(g, "discard") /\ Relock(g)
  /\ dm' = IF ~mode.thinPoolDevice /\ CanActivate(h, info.id) THEN Activated(h, info.id) ELSE dm
  /\ Go(g, "deactivate")
  /\ UNCHANGED <<mode, pool, poolTx, suspended, mounted, leaked, disk, mem, nameLock, names, faults, crashes, orphaned, leftBusy>>

\* deleteDeviceNoLock: the kernel deletes the device, or it is busy and marked for later.
deleteDeviceNoLock(g) ==
  LET r == call[g].r
      info == mem.heap[r]
  IN
  /\ At(g, "delete")
  /\ UNCHANGED <<mode, poolTx, dm, suspended, mounted, leaked, txFile, setFile, images, lock, nameLock, names, crashes, orphaned, leftBusy>>
  /\ \/ /\ pool[info.id] # None /\ ~BusyID(info.id) /\ NoFault
        /\ pool' = [pool EXCEPT ![info.id] = None]
        /\ Go(g, "unregister") /\ UNCHANGED <<meta, mem>>
     \/ /\ BusyID(info.id) /\ mode.deferredDelete /\ call[g].op # "setup" /\ NoFault
        /\ meta' = IF info.deleted THEN meta
                   ELSE [meta EXCEPT ![info.hash] = [id |-> info.id, init |-> info.init, deleted |-> TRUE]]
        /\ mem' = IF info.deleted THEN mem
                  ELSE [mem EXCEPT !.heap[r].deleted = TRUE, !.nr = @ + 1]
        /\ Go(g, "close") /\ UNCHANGED pool
     \/ /\ \/ pool[info.id] = None /\ NoFault
           \/ BusyID(info.id) /\ ~(mode.deferredDelete /\ call[g].op # "setup") /\ NoFault
           \/ /\ BusyID(info.id) /\ mode.deferredDelete /\ call[g].op # "setup"
              /\ ~info.deleted /\ Fail  \* the metadata cannot be written
        /\ call' = [call EXCEPT ![g].ok = FALSE, ![g].pc = "close"]
        /\ UNCHANGED <<pool, meta, mem>>

\* (mutant) The count goes down for a device that was never marked.
UnregisterCounted(g) ==
  LET info == mem.heap[call[g].r]
  IN
  /\ At(g, "unregister") /\ NoFault
  /\ UNCHANGED <<mode, kernel, txFile, setFile, images, lock, nameLock, names, crashes, orphaned, leftBusy>>
  /\ meta' = [meta EXCEPT ![info.hash] = None]
  /\ mem' = [mem EXCEPT !.devs[info.hash] = 0, !.used = @ \ {info.id}, !.nr = @ - 1]
  /\ Go(g, "close")

\* (mutant) The ID is freed before the metadata file is removed.
UnregisterFreedFirst(g) ==
  LET info == mem.heap[call[g].r]
  IN
  /\ At(g, "unregister")
  /\ UNCHANGED <<mode, kernel, txFile, setFile, images, lock, nameLock, names, crashes, orphaned, leftBusy>>
  /\ mem' = [mem EXCEPT !.devs[info.hash] = 0, !.used = @ \ {info.id},
                        !.nr = IF info.deleted THEN @ - 1 ELSE @]
  /\ \/ NoFault /\ meta' = [meta EXCEPT ![info.hash] = None] /\ Go(g, "close")
     \/ Fail /\ UNCHANGED meta /\ call' = [call EXCEPT ![g].ok = FALSE, ![g].pc = "close"]

\* unregisterDevice deletes the name from the table, whichever info it stands for.
unregisterDevice(g) ==
  LET info == mem.heap[call[g].r]
  IN
  /\ At(g, "unregister")
  /\ UNCHANGED <<mode, kernel, txFile, setFile, images, lock, nameLock, names, crashes, orphaned, leftBusy>>
  /\ \/ /\ NoFault
        /\ meta' = [meta EXCEPT ![info.hash] = None]
        /\ mem' = [mem EXCEPT !.devs[info.hash] = 0, !.used = @ \ {info.id},
                              !.nr = IF info.deleted THEN @ - 1 ELSE @]
        /\ Go(g, "close")
     \/ /\ Fail
        /\ mem' = [mem EXCEPT !.devs[info.hash] = 0]
        /\ call' = [call EXCEPT ![g].ok = FALSE, ![g].pc = "close"]
        /\ UNCHANGED meta

\* closeTransaction: the kernel compares the old ID.
CanClose == poolTx = mem.tx

closeTransaction(g) ==
  /\ At(g, "close")
  /\ \/ /\ CanClose /\ NoFault
        /\ poolTx' = mem.open.id
        /\ Return(g, [mem EXCEPT !.tx = mem.open.id], call[g].ok)
     \/ /\ \/ CanClose /\ Fail
           \/ ~CanClose /\ NoFault
        /\ UNCHANGED poolTx
        /\ Return(g, mem, call[g].ok)
  /\ UNCHANGED <<mode, pool, dm, suspended, mounted, leaked, disk, crashes, orphaned, leftBusy>>

-----------------------------------------------------------------------------
(* AddDevice, and createRegisterDevice for the base device. *)

\* The checks of AddDevice and takeSnapshot, up to the suspension of the parent.
AddDevice(c) ==
  LET m == lookupDevice(call[c].h)
      b == call[c].base
      deferred == mode.deferredRemove /\ dm[b] # None /\ dm[b].deferred
  IN
  /\ At(c, "dev") /\ call[c].op = "Create" /\ Relock(c)
  /\ m.devs[call[c].h] = 0
  /\ dm' = IF deferred THEN [dm EXCEPT ![b].deferred = FALSE] ELSE dm
  /\ suspended' = IF dm[b] # None THEN suspended \cup {b} ELSE suspended
  /\ call' = [call EXCEPT ![c].cancel = deferred, ![c].pc = "open"]
  /\ mem' = m
  /\ UNCHANGED <<mode, pool, poolTx, mounted, leaked, disk, nameLock, names, faults, crashes, orphaned, leftBusy>>

\* The name exists; an unusable size, or a pool without free space.
AddDeviceRefused(c) ==
  /\ At(c, "dev") /\ call[c].op = "Create" /\ lock = None
  /\ Return(c, lookupDevice(call[c].h), FALSE)
  /\ UNCHANGED <<mode, kernel, disk, faults, crashes, orphaned, leftBusy>>

\* Where createRegisterDevice and createRegisterSnapDevice end.
Created(g, m, ok) ==
  /\ mem' = m
  /\ call' = [call EXCEPT ![g].ok = ok, ![g].pc = "resume"]

OpenCreate(g) ==
  LET d == getNextFreeDeviceID(mem)
      m == Opened(Marked(mem, d), call[g].h, d)
  IN
  /\ At(g, "open") /\ Relock(g)
  /\ \/ /\ FreeIDs(mem) = {} /\ NoFault /\ UNCHANGED txFile
        /\ Created(g, [mem EXCEPT !.next = (@ + 1) % (mode.maxDeviceID + 1)], FALSE)
     \/ /\ FreeIDs(mem) # {} /\ NoFault
        /\ mem' = m /\ txFile' = m.open
        /\ call' = [call EXCEPT ![g].id = d, ![g].pc = "thin"]
     \/ /\ FreeIDs(mem) # {} /\ Fail /\ UNCHANGED txFile
        /\ Created(g, [m EXCEPT !.used = @ \ {d}], FALSE)
  /\ UNCHANGED <<mode, kernel, meta, setFile, images, nameLock, names, crashes, orphaned, leftBusy>>

\* CreateDevice and CreateSnapDeviceRaw, whose loop goes on to the next ID if this one exists.
CreateThin(g) ==
  LET d == call[g].id
      e == getNextFreeDeviceID(mem)
      m == [Marked(mem, e) EXCEPT !.open.dev = e]
      origin == mem.heap[call[g].r].id
      snap == call[g].op = "Create"
  IN
  /\ At(g, "thin")
  /\ \/ /\ pool[d] = None /\ (snap => pool[origin] # None) /\ NoFault
        /\ pool' = [pool EXCEPT ![d] = call[g].h]
        /\ Go(g, "register") /\ UNCHANGED <<mem, txFile>>
     \/ /\ pool[d] # None /\ FreeIDs(mem) # {}
        /\ mem' = m
        /\ \/ NoFault /\ txFile' = m.open
           \/ Fail /\ UNCHANGED txFile   \* the error of refreshTransaction is dropped
        /\ call' = [call EXCEPT ![g].id = e] /\ UNCHANGED pool
     \/ /\ pool[d] # None /\ FreeIDs(mem) = {} /\ NoFault
        /\ Created(g, [mem EXCEPT !.next = (@ + 1) % (mode.maxDeviceID + 1)], FALSE)
        /\ UNCHANGED <<pool, txFile>>
     \/ /\ pool[d] = None
        /\ \/ snap /\ pool[origin] = None /\ NoFault
           \/ Fail
        /\ Created(g, [mem EXCEPT !.used = @ \ {d}], FALSE)
        /\ UNCHANGED <<pool, txFile>>
  /\ UNCHANGED <<mode, poolTx, dm, suspended, mounted, leaked, meta, setFile, images, lock, nameLock, names, crashes, orphaned, leftBusy>>

\* (mutant) A device that cannot be registered is not deleted again.
RegisterLeaking(g) ==
  LET info == [hash |-> call[g].h, id |-> call[g].id, init |-> FALSE, deleted |-> FALSE, lock |-> None]
  IN
  /\ At(g, "register")
  /\ \/ /\ NoFault
        /\ mem' = [mem EXCEPT !.heap = Append(@, info), !.devs[info.hash] = Len(mem.heap) + 1]
        /\ meta' = [meta EXCEPT ![info.hash] = [id |-> info.id, init |-> FALSE, deleted |-> FALSE]]
        /\ Go(g, "commit")
     \/ Fail /\ UNCHANGED meta /\ Created(g, mem, FALSE)
  /\ UNCHANGED <<mode, kernel, txFile, setFile, images, lock, nameLock, names, crashes, orphaned, leftBusy>>

registerDevice(g) ==
  LET d == call[g].id
      h == call[g].h
      info == [hash |-> h, id |-> d, init |-> FALSE, deleted |-> FALSE, lock |-> None]
  IN
  /\ At(g, "register")
  /\ \/ /\ NoFault
        /\ mem' = [mem EXCEPT !.heap = Append(@, info), !.devs[h] = Len(mem.heap) + 1]
        /\ meta' = [meta EXCEPT ![h] = [id |-> d, init |-> FALSE, deleted |-> FALSE]]
        /\ Go(g, "commit") /\ UNCHANGED pool
     \/ /\ Fail /\ UNCHANGED meta
        /\ pool' = [pool EXCEPT ![d] = None]
        /\ Created(g, [mem EXCEPT !.used = @ \ {d}], FALSE)
  /\ UNCHANGED <<mode, poolTx, dm, suspended, mounted, leaked, txFile, setFile, images, lock, nameLock, names, crashes, orphaned, leftBusy>>

\* closeTransaction, whose failure is undone step by step.
CloseCreate(g) ==
  /\ At(g, "commit")
  /\ \/ /\ CanClose /\ NoFault
        /\ poolTx' = mem.open.id /\ Created(g, [mem EXCEPT !.tx = mem.open.id], TRUE)
     \/ /\ (CanClose /\ Fail) \/ (~CanClose /\ NoFault)
        /\ Go(g, "undo") /\ UNCHANGED <<poolTx, mem>>
  /\ UNCHANGED <<mode, pool, dm, suspended, mounted, leaked, disk, lock, nameLock, names, crashes, orphaned, leftBusy>>

UndoRegister(g) ==
  /\ At(g, "undo")
  /\ meta' = [meta EXCEPT ![call[g].h] = None]
  /\ mem' = [mem EXCEPT !.devs[call[g].h] = 0]
  /\ Go(g, "undoThin")
  /\ UNCHANGED <<mode, kernel, txFile, setFile, images, lock, nameLock, names, faults, crashes, orphaned, leftBusy>>

UndoThin(g) ==
  /\ At(g, "undoThin")
  /\ pool' = [pool EXCEPT ![call[g].id] = None]
  /\ Created(g, [mem EXCEPT !.used = @ \ {call[g].id}], FALSE)
  /\ UNCHANGED <<mode, poolTx, dm, suspended, mounted, leaked, disk, lock, nameLock, names, faults, crashes, orphaned, leftBusy>>

\* (mutant) The parent is resumed only after a snapshot that succeeded.
EndCreateSuspended(c) ==
  LET b == call[c].base
  IN
  /\ At(c, "resume") /\ call[c].op = "Create"
  /\ suspended' = IF call[c].ok THEN suspended \ {b} ELSE suspended
  /\ dm' = IF call[c].cancel THEN RemoveDeviceDeferred(b) ELSE dm
  /\ Return(c, mem, call[c].ok) /\ NoFault
  /\ UNCHANGED <<mode, pool, poolTx, mounted, leaked, disk, crashes, orphaned, leftBusy>>

\* The deferred ResumeDevice and deactivateDevice of takeSnapshot, then growFS for a larger
\* size: if that fails, AddDevice fails and the device stays.
EndCreate(c) ==
  LET b == call[c].base
  IN
  /\ At(c, "resume") /\ call[c].op = "Create"
  /\ suspended' = suspended \ {b}
  /\ dm' = IF call[c].cancel THEN RemoveDeviceDeferred(b) ELSE dm
  /\ \/ Return(c, mem, call[c].ok) /\ NoFault
     \/ call[c].ok /\ Return(c, mem, FALSE) /\ Fail
  /\ UNCHANGED <<mode, pool, poolTx, mounted, leaked, disk, crashes, orphaned, leftBusy>>

-----------------------------------------------------------------------------
(* NewDeviceSet: recovery, and the set-up of the base device. *)

\* initMetaData: every metadata file is loaded (loadDeviceFilesOnStart), its ID marked as used
\* (constructDeviceIDMap), the deleted ones counted, and the transaction file read.
Files == {h \in Names : meta[h] # None}

Loaded(used, nr) ==
  LET order == CHOOSE f \in [1..Cardinality(Files) -> Files] : \A h \in Files : \E i \in DOMAIN f : f[i] = h
  IN [EmptyMem EXCEPT
        !.heap = [i \in 1..Cardinality(Files) |->
                    [hash |-> order[i], id |-> meta[order[i]].id, init |-> meta[order[i]].init,
                     deleted |-> meta[order[i]].deleted, lock |-> None]],
        !.devs = [h \in Names |-> IF h \in Files THEN CHOOSE i \in DOMAIN order : order[i] = h ELSE 0],
        !.used = used, !.nr = nr, !.tx = poolTx,
        !.open = IF txFile = None THEN [id |-> poolTx, hash |-> Base, dev |-> 0] ELSE txFile]

\* (mutants) The IDs of devices marked as deleted are free; the deleted devices are not counted.
LoadedReusing == Loaded({meta[h].id : h \in {k \in Files : ~meta[k].deleted}},
                        Cardinality({h \in Files : meta[h].deleted}))

LoadedUncounted == Loaded({meta[h].id : h \in Files}, 0)

LoadedMem == Loaded({meta[h].id : h \in Files}, Cardinality({h \in Files : meta[h].deleted}))

\* (mutant) A transaction that was closed is rolled back as well.
StartOffByOne ==
  /\ At(Starter, "down") /\ poolTx < MaxTransactions
  /\ images' = TRUE
  /\ IF ~images /\ ~mode.thinPoolDevice
     THEN mem' = EmptyMem /\ Go(Starter, "base")
     ELSE /\ mem' = LoadedMem
          /\ call' = [call EXCEPT
               ![Starter].pc = IF txFile # None /\ LoadedMem.open.id >= poolTx THEN "rollback" ELSE "base",
               ![Worker].pc = IF txFile # None /\ LoadedMem.open.id >= poolTx THEN @ ELSE "idle"]
  /\ UNCHANGED <<mode, kernel, meta, txFile, setFile, lock, nameLock, names, faults, crashes, orphaned, leftBusy>>

\* With new loopback files there is nothing to load, and no worker is started.
Start ==
  /\ At(Starter, "down") /\ poolTx < MaxTransactions
  /\ images' = TRUE
  /\ IF ~images /\ ~mode.thinPoolDevice
     THEN mem' = EmptyMem /\ Go(Starter, "base")
     ELSE /\ mem' = LoadedMem
          /\ call' = [call EXCEPT
               ![Starter].pc = IF LoadedMem.open.id > poolTx THEN "rollback" ELSE "base",
               ![Worker].pc = IF LoadedMem.open.id > poolTx THEN @ ELSE "idle"]
  /\ UNCHANGED <<mode, kernel, meta, txFile, setFile, lock, nameLock, names, faults, crashes, orphaned, leftBusy>>

\* rollbackTransaction: the device that the open transaction was about, ...
RollbackThin ==
  LET d == mem.open.dev
  IN
  /\ At(Starter, "rollback")
  /\ pool' = IF BusyID(d) THEN pool ELSE [pool EXCEPT ![d] = None]
  /\ leftBusy' = IF BusyID(d) THEN leftBusy \cup {d} ELSE leftBusy
  /\ Go(Starter, "rollbackMeta")
  /\ UNCHANGED <<mode, poolTx, dm, suspended, mounted, leaked, disk, mem, lock, nameLock, names, faults, crashes, orphaned>>

\* ... its metadata file (but not its entry in the table), ...
RollbackMeta ==
  /\ At(Starter, "rollbackMeta")
  /\ \/ /\ NoFault
        /\ meta' = [meta EXCEPT ![mem.open.hash] = None]
        /\ mem' = [mem EXCEPT !.used = @ \ {mem.open.dev}]
        /\ orphaned' = IF mem.devs[mem.open.hash] = 0 THEN orphaned ELSE orphaned \cup {mem.open.dev}
     \/ Fail /\ UNCHANGED <<meta, mem, orphaned, leftBusy>>
  /\ Go(Starter, "rollbackFile")
  /\ UNCHANGED <<mode, kernel, txFile, setFile, images, lock, nameLock, names, crashes, leftBusy>>

\* ... and the transaction file; the worker starts.
RollbackFile ==
  /\ At(Starter, "rollbackFile")
  /\ \/ NoFault /\ txFile' = None
     \/ Fail /\ UNCHANGED txFile
  /\ mem' = [mem EXCEPT !.open.id = mem.tx]
  /\ call' = [call EXCEPT ![Starter].pc = "base", ![Worker].pc = "idle"]
  /\ UNCHANGED <<mode, kernel, meta, setFile, images, lock, nameLock, names, crashes, orphaned, leftBusy>>

\* loadDeviceSetMetaData and setupBaseImage.  The lookup takes devices.Lock.
setupBaseImage ==
  LET m == IF setFile = None THEN mem ELSE [mem EXCEPT !.next = setFile.next, !.uuid = setFile.uuid]
      r == mem.devs[Base]
      ready == r # 0 /\ mem.heap[r].init /\ ~mem.heap[r].deleted
      base == [Idle EXCEPT !.op = "base", !.h = Base]
  IN
  /\ At(Starter, "base") /\ lock = None
  /\ mem' = m
  /\ call' = [call EXCEPT ![Starter] =
       CASE ready -> [base EXCEPT !.pc = "uuid", !.r = r]
         [] r # 0 /\ ~ready -> [Idle EXCEPT !.op = "setup", !.h = Base, !.pc = "lookup"]
         [] r = 0 -> [base EXCEPT !.pc = IF mode.thinPoolDevice /\ poolTx # 0 THEN "failed" ELSE "open"]]
  /\ UNCHANGED <<mode, kernel, disk, lock, nameLock, names, faults, crashes, orphaned, leftBusy>>

\* createBaseImage goes on without the lock: the file system, ...
createFilesystem ==
  /\ At(Starter, "resume") /\ call[Starter].ok
  /\ lock' = None
  /\ dm' = Activated(Base, call[Starter].id)
  /\ \/ /\ NoFault /\ setFile' = [next |-> mem.next, uuid |-> mem.uuid]
        /\ call' = [call EXCEPT ![Starter].r = mem.devs[Base], ![Starter].pc = "init"]
     \/ /\ Fail /\ UNCHANGED setFile
        /\ call' = [call EXCEPT ![Starter] = [Idle EXCEPT !.pc = "failed"]]
  /\ UNCHANGED <<mode, pool, poolTx, suspended, mounted, leaked, meta, txFile, images, mem, nameLock, names, crashes, orphaned, leftBusy>>

CreateBaseFailed ==
  /\ At(Starter, "resume") /\ ~call[Starter].ok
  /\ lock' = None
  /\ call' = [call EXCEPT ![Starter] = [Idle EXCEPT !.pc = "failed"]]
  /\ UNCHANGED <<mode, kernel, disk, mem, nameLock, names, faults, crashes, orphaned, leftBusy>>

\* ... the mark that it is complete, ...
InitializeBase ==
  LET r == call[Starter].r
  IN
  /\ At(Starter, "init")
  /\ \/ /\ NoFault
        /\ mem' = [mem EXCEPT !.heap[r].init = TRUE]
        /\ meta' = [meta EXCEPT ![Base] = [id |-> mem.heap[r].id, init |-> TRUE, deleted |-> mem.heap[r].deleted]]
        /\ Go(Starter, "uuid")
     \/ /\ Fail
        /\ call' = [call EXCEPT ![Starter] = [Idle EXCEPT !.pc = "failed"]]
        /\ UNCHANGED <<mem, meta>>
  /\ UNCHANGED <<mode, kernel, txFile, setFile, images, lock, nameLock, names, crashes, orphaned, leftBusy>>

\* ... and its UUID, which a later start verifies instead.  The device is deactivated.
setupVerifyBaseImageUUIDFS ==
  LET usable == CanActivate(Base, mem.heap[call[Starter].r].id)
  IN
  /\ At(Starter, "uuid") /\ lock = None
  /\ dm' = IF usable THEN [dm EXCEPT ![Base] = None] ELSE dm
  /\ suspended' = IF usable THEN suspended \ {Base} ELSE suspended
  /\ \/ /\ usable /\ NoFault
        /\ setFile' = IF mem.uuid THEN setFile ELSE [next |-> mem.next, uuid |-> TRUE]
        /\ mem' = [mem EXCEPT !.uuid = TRUE]
        /\ call' = [call EXCEPT ![Starter] = [Idle EXCEPT !.pc = "up"]]
     \/ /\ (usable /\ ~mem.uuid /\ Fail) \/ (~usable /\ NoFault)
        /\ UNCHANGED <<setFile, mem>>
        /\ call' = [call EXCEPT ![Starter] = [Idle EXCEPT !.pc = "failed"]]
  /\ UNCHANGED <<mode, pool, poolTx, mounted, leaked, meta, txFile, images, lock, nameLock, names, crashes, orphaned, leftBusy>>

-----------------------------------------------------------------------------
(* Shutdown, the end of the process, and the deletion worker. *)

\* The ticker is stopped, deviceset-metadata saved, everything unmounted and deactivated.
Shutdown ==
  /\ Up /\ lock = None /\ \A c \in Clients : call[c].pc \in {"idle", "held"}
  /\ setFile' = [next |-> mem.next, uuid |-> mem.uuid]
  /\ mounted' = {}
  /\ dm' = [h \in Names |-> IF h = Base \/ dm[h] = None THEN dm[h]
                            ELSE IF h \notin leaked THEN None
                            ELSE [dm[h] EXCEPT !.deferred = mode.deferredRemove \/ @]]
  /\ suspended' = {h \in suspended : dm'[h] # None}
  /\ call' = [call EXCEPT ![Starter].pc = "shutdown", ![Worker].pc = IF @ = "idle" THEN "down" ELSE @]
  /\ UNCHANGED <<mode, pool, poolTx, leaked, meta, txFile, images, mem, lock, nameLock, names, faults, crashes, orphaned, leftBusy>>

\* The base device and the pool are deactivated.
ShutdownBase ==
  /\ At(Starter, "shutdown") /\ lock = None
  /\ LET r == mem.devs[Base] IN r # 0 => mem.heap[r].lock = None
  /\ dm' = [dm EXCEPT ![Base] = None] /\ suspended' = suspended \ {Base}
  /\ Go(Starter, "failed")
  /\ UNCHANGED <<mode, pool, poolTx, mounted, leaked, disk, mem, lock, nameLock, names, faults, crashes, orphaned, leftBusy>>

ProcessEnds ==
  /\ mem' = EmptyMem /\ lock' = None /\ nameLock' = [h \in Names |-> None]
  /\ call' = [g \in Goroutines |-> [Idle EXCEPT !.pc = IF g \in Clients THEN "idle" ELSE "down"]]
  /\ names' = [h \in Layers |-> IF names[h] \in {"creating", "removing", "failed"} THEN "dead" ELSE names[h]]
  /\ UNCHANGED <<mode, pool, poolTx, disk, faults, orphaned, leftBusy>>

Exit ==
  /\ At(Starter, "failed")
  /\ ProcessEnds
  /\ UNCHANGED <<dm, suspended, mounted, leaked, crashes, orphaned, leftBusy>>

\* The process is killed, or the machine stops: then nothing is activated or mounted.
Crash(reboot) ==
  /\ crashes < MaxCrashes /\ ~At(Starter, "down")
  /\ crashes' = crashes + 1
  /\ ProcessEnds
  /\ IF reboot THEN dm' = [h \in Names |-> None] /\ suspended' = {} /\ mounted' = {} /\ leaked' = {}
     ELSE UNCHANGED <<dm, suspended, mounted, leaked>>

\* cleanupDeletedDevices: the list is made under the lock, which is then released.
cleanupDeletedDevices ==
  /\ At(Worker, "idle") /\ lock = None
  /\ mem.nr # 0 /\ poolTx < MaxTransactions
  /\ call' = [call EXCEPT ![Worker].pc = "next",
       ![Worker].list = {h \in Names : mem.devs[h] # 0 /\ mem.heap[mem.devs[h]].deleted}]
  /\ UNCHANGED <<mode, kernel, disk, mem, lock, nameLock, names, faults, crashes, orphaned, leftBusy>>

\* DeleteDevice is called with the name of the next one.
NextDeleted ==
  /\ At(Worker, "next")
  /\ \/ /\ call[Worker].list = {} /\ Go(Worker, IF call[Starter].pc = "shutdown" THEN "down" ELSE "idle")
     \/ \E h \in call[Worker].list :
          call' = [call EXCEPT ![Worker] = [Idle EXCEPT !.op = "cleanup", !.h = h, !.pc = "lookup",
                                                        !.list = call[Worker].list \ {h}]]
  /\ UNCHANGED <<mode, kernel, disk, mem, lock, nameLock, names, faults, crashes, orphaned, leftBusy>>

\* The kernel: a mount is copied to another mount namespace, and goes away there.
Leak(h) ==
  /\ h \in mounted \ leaked /\ leaked' = leaked \cup {h}
  /\ UNCHANGED <<mode, pool, poolTx, dm, suspended, mounted, disk, mem, lock, nameLock, call, names, faults, crashes, orphaned, leftBusy>>

CloseLeak(h) ==
  /\ h \in leaked /\ leaked' = leaked \ {h}
  /\ dm' = IF dm[h] # None /\ dm[h].deferred /\ h \notin mounted THEN [dm EXCEPT ![h] = None] ELSE dm
  /\ suspended' = {k \in suspended : dm'[k] # None}
  /\ UNCHANGED <<mode, pool, poolTx, mounted, disk, mem, lock, nameLock, call, names, faults, crashes, orphaned, leftBusy>>

-----------------------------------------------------------------------------
DeleteStep(g) == openTransaction(g) \/ issueDiscard(g) \/ deleteDeviceNoLock(g) \/ unregisterDevice(g) \/ closeTransaction(g)

CreateStep(g) == OpenCreate(g) \/ CreateThin(g) \/ registerDevice(g) \/ CloseCreate(g) \/ UndoRegister(g) \/ UndoThin(g)

ClientStep(c) ==
  \/ LockName(c) \/ HasDevice(c) \/ Lookup(c) \/ LockInfo(c) \/ CancelDeferredRemoval(c) \/ RemoveBusy(c)
  \/ MountDevice(c) \/ EndGet(c) \/ UnmountDevice(c) \/ deactivateDeviceMode(c) \/ EndPut(c)
  \/ AddDevice(c) \/ AddDeviceRefused(c) \/ CreateStep(c) \/ EndCreate(c) \/ DeleteStep(c)

WorkerStep ==
  \/ cleanupDeletedDevices \/ NextDeleted
  \/ Lookup(Worker) \/ LockInfo(Worker) \/ CancelDeferredRemoval(Worker) \/ RemoveBusy(Worker)
  \/ deactivateDeviceMode(Worker) \/ DeleteStep(Worker)

StarterStep ==
  \/ Start \/ RollbackThin \/ RollbackMeta \/ RollbackFile \/ setupBaseImage \/ createFilesystem
  \/ CreateBaseFailed \/ InitializeBase \/ setupVerifyBaseImageUUIDFS \/ Shutdown \/ ShutdownBase \/ Exit
  \/ Lookup(Starter) \/ LockInfo(Starter) \/ deactivateDeviceMode(Starter) \/ CreateStep(Starter) \/ DeleteStep(Starter)

Calls ==
  \E c \in Clients, h \in Layers :
    \/ \E base \in Names : Create(c, h, base)
    \/ Remove(c, h) \/ Get(c, h) \/ Put(c, h)

Next ==
  \/ Calls
  \/ \E c \in Clients : ClientStep(c)
  \/ WorkerStep \/ StarterStep
  \/ \E reboot \in BOOLEAN : Crash(reboot)
  \/ \E h \in Names : Leak(h) \/ CloseLeak(h)

Spec == Init /\ [][Next]_vars

-----------------------------------------------------------------------------
(* Properties. *)

TypeOK ==
  /\ mode \in Modes
  /\ pool \in [DeviceIDs -> Names \cup {None}] /\ poolTx \in Nat
  /\ \A h \in Names : dm[h] = None \/ dm[h] \in [id : DeviceIDs, deferred : BOOLEAN]
  /\ suspended \subseteq Names /\ mounted \subseteq Names /\ leaked \subseteq Names
  /\ \A h \in Names : meta[h] = None \/ meta[h] \in [id : DeviceIDs, init : BOOLEAN, deleted : BOOLEAN]
  /\ txFile = None \/ txFile \in [id : Nat, hash : Names, dev : DeviceIDs]
  /\ setFile = None \/ setFile \in [next : DeviceIDs, uuid : BOOLEAN]
  /\ mem.devs \in [Names -> 0..Len(mem.heap)] /\ mem.used \subseteq DeviceIDs /\ mem.nr \in Nat
  /\ lock \in Goroutines \cup {None}
  /\ names \in [Layers -> {"fresh", "creating", "live", "removing", "failed", "dead"}]

\* A layer whose Create succeeded and whose Remove was never called keeps its metadata file and
\* its thin device with its own contents, whatever fails or crashes: except that a rollback at
\* start leaves an entry in the table whose device ID it frees, and the removal of that entry
\* deletes the device that got the ID since.
CreatedKept ==
  \A h \in Layers : names[h] = "live" =>
    meta[h] # None /\ ~meta[h].deleted /\ (pool[meta[h].id] = h \/ meta[h].id \in orphaned)

\* Deferred deletion is for the device that was marked (docs/containers-storage.conf.5.md:176): the
\* device of a layer that was created and not removed is not deleted in its place.
OnlyMarkedDeleted == \A h \in Layers : names[h] = "live" => meta[h] # None /\ pool[meta[h].id] = h

Resting(g) == call[g].pc \in {"idle", "held", "up", "down"}
Quiet == Up /\ \A g \in Goroutines : Resting(g)

\* Between calls the pool holds no thin device that no metadata file describes (nothing would
\* ever delete it), except one that was busy when a rollback wanted to delete it.
NothingLeaked ==
  Quiet => \A d \in DeviceIDs : pool[d] # None =>
             d \in leftBusy \/ \E h \in Names : meta[h] # None /\ meta[h].id = d

\* No two metadata files name the same device ID.
DistinctIDs ==
  \A g, h \in Names : g # h /\ meta[g] # None /\ meta[h] # None => meta[g].id # meta[h].id

\* Between calls a device that is described is not handed out again: its ID is marked as used
\* (with the same exception).
DescribedIDsUsed ==
  Quiet => \A h \in Names : meta[h] # None => meta[h].id \in mem.used \cup orphaned

\* The worker looks for devices marked for deletion only if nrDeletedDevices says there are some:
\* while devices.Lock is free the count never misses one.
DeletedCounted ==
  lock = None /\ call[Starter].pc # "down" => mem.nr >= Cardinality({h \in Names : mem.devs[h] # 0 /\ mem.heap[mem.devs[h]].deleted})

\* Every way out of takeSnapshot resumes the parent: unless the process was killed in it, only
\* the parent of a snapshot in progress is suspended.
SuspendedInSnapshot ==
  crashes = 0 => \A h \in suspended : \E c \in Clients : call[c].op = "Create" /\ call[c].base = h /\ lock = c

\* Some goroutine in a call can go on: no cycle of devices.Lock, the locks of infos and of names.
Blocked(g) ==
  \/ At(g, "name") /\ nameLock[call[g].h] # None
  \/ At(g, "info") /\ mem.heap[call[g].r].lock # None
  \/ call[g].pc \notin {"name", "info", "next"} /\ lock \notin {None, g}
  \/ call[g].pc \in {"has", "lookup", "base", "uuid", "shutdown"} /\ lock # None

NoDeadlock == (\E g \in Goroutines : ~Resting(g)) => \E g \in Goroutines : ~Resting(g) /\ ~Blocked(g)

\* The pool, the metadata files and the table in memory agree: each device ID has one description
\* and is marked as used, no device is without one, and no deleted device is missed.
PoolMatchesMetadata == TypeOK /\ NothingLeaked /\ DistinctIDs /\ DescribedIDsUsed /\ DeletedCounted

\* Nothing is held up for good: neither a goroutine, behind locks, nor the parent of a snapshot,
\* which takeSnapshot suspends.
NothingHeldUp == NoDeadlock /\ SuspendedInSnapshot

=============================================================================
