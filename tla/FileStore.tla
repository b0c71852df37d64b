----------------------------- MODULE FileStore ------------------------------
(***************************************************************************)
(* How imageStore, containerStore and layerStore keep their records: a     *)
(* JSON file that all processes share, a copy of it in the memory of each  *)
(* process, and a lock file whose contents name the last writer.  Every    *)
(* operation takes the lock, calls ReloadIfChanged, works on the copy, and *)
(* if it changed the copy writes all of it back (Save).  The lock is the   *)
(* reader-writer lock that Lockfile implements.                            *)
(*                                                                         *)
(* layerStore.Modified also compares the modification time of layers.json: *)
(* ChecksMtime.                                                            *)
(***************************************************************************)
EXTENDS Naturals

CONSTANTS
    Proc, Goroutine, ProcOf,
    Item,          \* IDs of records
    Setups,        \* kinds of store and what may fail
    MaxOps         \* bound on the number of operations

\* "load": Load returns an error.  "write": AtomicWriteFile returns an error.
\* "touch": Touch cannot write the lock file.  "crash": a process dies.
Fault == {"load", "write", "touch", "crash"}

ASSUME ProcOfAssumption == ProcOf \in [Goroutine -> Proc]
\* checksMtime is TRUE for layerStore.
Setup == [checksMtime : BOOLEAN, faults : SUBSET Fault]

ASSUME SetupAssumption == Setups \subseteq Setup
ASSUME BoundAssumption == MaxOps \in Nat

VARIABLES
    setup,             \* never changes
    readers, writers,  \* the lock
    pc,                \* how far a goroutine's operation has got
    op,                \* a goroutine's operation
    ops,               \* number of operations begun
    file, mtime,       \* the JSON file: its records, its modification time
    token,             \* the lock file: the last writer, 0 when it is empty
    lastToken,         \* number of writer IDs generated so far
    mem,               \* a process's copy of the records
    lw,                \* lockfile.lw: the last writer that a process knows of
    layerspathModified \* the modification time that a process knows of

lock == <<readers, writers>>
disk == <<file, mtime, token>>
cache == <<mem, lw, layerspathModified>>
vars == <<setup, lock, pc, op, ops, disk, lastToken, cache>>

ChecksMtime == setup.checksMtime
Faults == setup.faults

L == INSTANCE ReaderWriterLock

Op == [kind : {"list"}] \cup [kind : {"create", "delete"}, item : Item]

Of(p) == {g \in Goroutine : ProcOf[g] = p}

-----------------------------------------------------------------------------
\* A process begins with a writer ID of its own in lw, which no file holds.
Init ==
    /\ setup \in Setups
    /\ L!Init
    /\ pc = [g \in Goroutine |-> "idle"]
    /\ op = [g \in Goroutine |-> [kind |-> "list"]]
    /\ ops = 0
    /\ file = {} /\ mtime = 0 /\ token = 0 /\ lastToken = 0
    /\ mem = [p \in Proc |-> {}]
    /\ lw = [p \in Proc |-> 0]
    /\ layerspathModified = [p \in Proc |-> 0]

\* Mutant of Begin: changing operations take the read lock.
BeginSharing(g, o) ==
    /\ pc[g] = "idle" /\ ops < MaxOps
    /\ L!RLock(g)
    /\ pc' = [pc EXCEPT ![g] = "locked"]
    /\ op' = [op EXCEPT ![g] = o]
    /\ ops' = ops + 1
    /\ UNCHANGED <<setup, disk, lastToken, cache>>

\* Store methods that only read take the read lock, the others the write lock.
Begin(g, o) ==
    /\ pc[g] = "idle" /\ ops < MaxOps
    /\ IF o.kind = "list" THEN L!RLock(g) ELSE L!Lock(g)
    /\ pc' = [pc EXCEPT ![g] = "locked"]
    /\ op' = [op EXCEPT ![g] = o]
    /\ ops' = ops + 1
    /\ UNCHANGED <<setup, disk, lastToken, cache>>

\* lockfile.Modified: an empty lock file (a short read) counts as modified.
lmodified(p) == token = 0 \/ lw[p] # token

\* Mutant of tmodified: the modification time is not looked at.
tmodifiedNever(p) == FALSE

tmodified(p) == ChecksMtime /\ layerspathModified[p] # mtime

Modified(p) == lmodified(p) \/ tmodified(p)

\* Mutant of Recorded: Modified does not store the writer ID.
RecordedNothing(p) == UNCHANGED <<lw, layerspathModified>>

\* What Modified leaves behind, whatever happens next: the writer ID that it
\* read and, if that one was not news, the modification time.
Recorded(p) ==
    /\ lw' = [lw EXCEPT ![p] = IF token = 0 THEN @ ELSE token]
    /\ layerspathModified' =
        [layerspathModified EXCEPT ![p] =
            IF ChecksMtime /\ ~lmodified(p) THEN mtime ELSE @]

Load(p) == mem' = [mem EXCEPT ![p] = file]

\* ReloadIfChanged, under loadMut.  If Load fails the operation returns.
ReloadIfChanged(g) ==
    LET p == ProcOf[g] IN
    /\ pc[g] = "locked"
    /\ Recorded(p)
    /\ \/ /\ IF Modified(p) THEN Load(p) ELSE UNCHANGED mem
          /\ pc' = [pc EXCEPT ![g] = "fresh"]
       \/ /\ Modified(p) /\ "load" \in Faults
          /\ UNCHANGED mem
          /\ pc' = [pc EXCEPT ![g] = "done"]
    /\ UNCHANGED <<setup, lock, op, ops, disk, lastToken>>

\* Create and Delete change the copy, or return because the ID is in use or
\* unknown.
Change(g) ==
    LET p == ProcOf[g]
        o == op[g]
    IN
    /\ pc[g] = "fresh" /\ o.kind # "list"
    /\ IF (o.kind = "create") = (o.item \in mem[p])
       THEN pc' = [pc EXCEPT ![g] = "done"] /\ UNCHANGED mem
       ELSE /\ pc' = [pc EXCEPT ![g] = "dirty"]
            /\ mem' = [mem EXCEPT ![p] =
                          IF o.kind = "create" THEN @ \cup {o.item} ELSE @ \ {o.item}]
    /\ UNCHANGED <<setup, lock, op, ops, disk, lastToken, lw, layerspathModified>>

\* Save: the whole copy replaces the file, by a rename, or the write fails.
Save(g) ==
    LET p == ProcOf[g] IN
    /\ pc[g] = "dirty"
    /\ \/ file' = mem[p] /\ mtime' = mtime + 1
       \/ "write" \in Faults /\ UNCHANGED <<file, mtime>>
    /\ pc' = [pc EXCEPT ![g] = "written"]
    /\ UNCHANGED <<setup, lock, op, ops, token, lastToken, cache>>

\* Touch, deferred by Save: it runs after the write, failed or not.
Touch(g) ==
    LET p == ProcOf[g] IN
    /\ pc[g] = "written"
    /\ lastToken' = lastToken + 1
    /\ lw' = [lw EXCEPT ![p] = lastToken + 1]
    /\ \/ token' = lastToken + 1
       \/ "touch" \in Faults /\ UNCHANGED token
    /\ pc' = [pc EXCEPT ![g] = "done"]
    /\ UNCHANGED <<setup, lock, op, ops, file, mtime, mem, layerspathModified>>

\* Mutant of Unlock: returns with the lock held.
UnlockForgotten(g) ==
    /\ \/ pc[g] = "done"
       \/ pc[g] = "fresh" /\ op[g].kind = "list"
    /\ pc' = [pc EXCEPT ![g] = "idle"]
    /\ UNCHANGED <<setup, lock, op, ops, disk, lastToken, cache>>

\* The deferred Unlock.
Unlock(g) ==
    /\ \/ pc[g] = "done"
       \/ pc[g] = "fresh" /\ op[g].kind = "list"
    /\ L!Unlock(g)
    /\ pc' = [pc EXCEPT ![g] = "idle"]
    /\ UNCHANGED <<setup, op, ops, disk, lastToken, cache>>

\* A process dies and is started again.
Crash(p) ==
    /\ "crash" \in Faults
    /\ L!Crash(p)
    /\ pc' = [g \in Goroutine |-> IF ProcOf[g] = p THEN "idle" ELSE pc[g]]
    /\ mem' = [mem EXCEPT ![p] = {}]
    /\ lw' = [lw EXCEPT ![p] = 0]
    /\ layerspathModified' = [layerspathModified EXCEPT ![p] = 0]
    /\ UNCHANGED <<setup, op, ops, disk, lastToken>>

Next ==
    \/ \E g \in Goroutine :
          \/ \E o \in Op : Begin(g, o)
          \/ ReloadIfChanged(g) \/ Change(g) \/ Save(g) \/ Touch(g) \/ Unlock(g)
    \/ \E p \in Proc : Crash(p)

Spec == Init /\ [][Next]_vars

-----------------------------------------------------------------------------
PC == {"idle", "locked", "fresh", "dirty", "written", "done"}

\* Type invariant: in particular, exactly the goroutines inside an operation
\* hold the lock.
TypeOK ==
    /\ setup \in Setups
    /\ readers \subseteq Goroutine /\ writers \subseteq Goroutine
    /\ \A g \in Goroutine : pc[g] = "idle" <=> g \notin readers \cup writers
    /\ pc \in [Goroutine -> PC]
    /\ op \in [Goroutine -> Op]
    /\ ops \in 0..MaxOps
    /\ file \subseteq Item
    /\ mtime \in Nat /\ token \in Nat /\ lastToken \in Nat
    /\ mem \in [Proc -> SUBSET Item]
    /\ lw \in [Proc -> Nat]
    /\ layerspathModified \in [Proc -> Nat]

\* After ReloadIfChanged, as long as the lock is held and nothing was changed,
\* a process works on what is on disk ("reloads the contents of the store from
\* disk if it is changed").
Fresh ==
    \A g \in Goroutine : pc[g] = "fresh" => mem[ProcOf[g]] = file

\* A save is the effect of its own operation on the records that are on disk:
\* it adds or removes that one record and reverts no other process's save.
OneRecordPerSave ==
    [][\A g \in Goroutine : pc[g] = "dirty" /\ pc'[g] = "written" /\ file' # file =>
           file' = IF op[g].kind = "create"
                   THEN file \cup {op[g].item}
                   ELSE file \ {op[g].item}]_vars

\* While a goroutine works on its process's copy, no other goroutine of the
\* process finds the store modified and replaces the copy under it.  (Before
\* the first Touch every ReloadIfChanged loads; and layerStore, which records
\* the modification time one call later than the writer ID, loads twice.)
NoReloadUnderReader ==
    ~ChecksMtime => \A g, h \in Goroutine :
        /\ g # h /\ ProcOf[g] = ProcOf[h]
        /\ pc[g] = "locked" /\ pc[h] \notin {"idle", "locked"}
        /\ token # 0
        => ~Modified(ProcOf[g])

-----------------------------------------------------------------------------
\* The inductive invariant behind Fresh and OneRecordPerSave.
LockInv ==
    /\ writers # {} => readers = {}
    /\ \A g, h \in writers : g = h
    /\ \A g \in readers : op[g].kind = "list"
    /\ \A g \in Goroutine :
        pc[g] \in {"dirty", "written"} => g \in writers /\ op[g].kind # "list"

NumberInv ==
    /\ token <= lastToken
    /\ \A p \in Proc : lw[p] <= lastToken /\ layerspathModified[p] <= mtime

\* What op[g] makes of a set of records.
Applied(g, S) ==
    IF op[g].kind = "create" THEN S \cup {op[g].item} ELSE S \ {op[g].item}

\* The copy in memory is the file, unless a change is under way or the next
\* ReloadIfChanged will notice that it is not.
CacheInv ==
    /\ \A p \in Proc :
        /\ ~Modified(p)
        /\ \A g \in Goroutine : ProcOf[g] = p => pc[g] # "dirty"
        /\ ChecksMtime \/ \A g \in Goroutine : pc[g] # "written"
        => mem[p] = file
    /\ \A g \in Goroutine :
        /\ pc[g] \in {"fresh", "written"} => mem[ProcOf[g]] = file
        /\ pc[g] = "dirty" => mem[ProcOf[g]] = Applied(g, file)

\* The copies of all processes are what the file and the lock file say.
Inv == TypeOK /\ LockInv /\ NumberInv /\ CacheInv

\* The failures that the protocol survives: none or, with the check of the
\* modification time, crashes and failing writes of the lock file.
Tolerated ==
    \A s \in Setups :
        s.faults = {} \/ (s.checksMtime /\ s.faults \subseteq {"crash", "touch"})

=============================================================================
