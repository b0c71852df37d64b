-------------------------- MODULE FileStoreProofs ---------------------------
(***************************************************************************)
(* Proofs about FileStore for any number of processes, goroutines and      *)
(* records: under the failures it tolerates, the copy that an operation    *)
(* works on is what is on disk, and no save reverts another one.           *)
(***************************************************************************)
EXTENDS FileStore, TLAPS

USE ProcOfAssumption, SetupAssumption, BoundAssumption DEF ChecksMtime, Faults, Setup

-----------------------------------------------------------------------------
LEMMA ToleratedFaults ==
    ASSUME Tolerated, TypeOK
    PROVE  /\ "load" \notin Faults /\ "write" \notin Faults
           /\ "touch" \in Faults => ChecksMtime
           /\ "crash" \in Faults => ChecksMtime
BY DEF Tolerated, TypeOK

LEMMA InitInv ==
    ASSUME Init PROVE Inv
<1>1. TypeOK /\ LockInv /\ NumberInv
  BY DEF Init, TypeOK, LockInv, NumberInv, L!Init, PC, Op
<1>2. CacheInv
  BY DEF Init, CacheInv, Modified, lmodified
<1> QED
  BY <1>1, <1>2 DEF Inv

LEMMA BeginKeepsInv ==
    ASSUME Inv, UNCHANGED setup, NEW g \in Goroutine, NEW o \in Op, Begin(g, o)
    PROVE  Inv'
<1> USE DEF Inv
<1>1. TypeOK'
  BY DEF TypeOK, Begin, PC, L!RLock, L!Lock, disk, cache
<1>2. LockInv'
  BY DEF TypeOK, LockInv, Begin, L!RLock, L!Lock
<1>3. NumberInv'
  BY DEF NumberInv, Begin, disk, cache
<1>4. CacheInv'
  BY DEF TypeOK, CacheInv, Begin, Modified, lmodified, tmodified, Applied, disk, cache
<1> QED
  BY <1>1, <1>2, <1>3, <1>4

LEMMA ReloadKeepsInv ==
    ASSUME Tolerated, Inv, UNCHANGED setup, NEW g \in Goroutine, ReloadIfChanged(g)
    PROVE  Inv'
<1> USE DEF Inv
<1> DEFINE P == ProcOf[g]
<1>1. /\ pc[g] = "locked" /\ pc' = [pc EXCEPT ![g] = "fresh"]
      /\ mem' = IF Modified(P) THEN [mem EXCEPT ![P] = file] ELSE mem
      /\ Recorded(P)
      /\ UNCHANGED <<readers, writers, op, ops, file, mtime, token, lastToken>>
  BY ToleratedFaults DEF ReloadIfChanged, Load, lock, disk
<1>2. TypeOK'
  BY <1>1 DEF TypeOK, Recorded, PC
<1>3. LockInv'
  BY <1>1 DEF TypeOK, LockInv
<1>4. NumberInv'
  BY <1>1 DEF TypeOK, NumberInv, Recorded
<1>5. mem'[P] = file
  <2>1. CASE Modified(P)
    BY <1>1, <2>1 DEF TypeOK
  <2>2. CASE ~Modified(P)
    <3>1. g \in readers \cup writers
      BY <1>1 DEF TypeOK
    <3>2. \A h \in Goroutine : pc[h] \notin {"dirty", "written"}
      BY <1>1, <3>1 DEF LockInv
    <3> QED
      BY <1>1, <2>2, <3>2 DEF CacheInv
  <2> QED
    BY <2>1, <2>2
<1>6. ASSUME NEW p \in Proc, p # P
      PROVE  mem'[p] = mem[p] /\ (Modified(p)' <=> Modified(p))
  BY <1>1, <1>6 DEF TypeOK, Recorded, Modified, lmodified, tmodified
<1>7. \A h \in Goroutine : pc'[h] \in {"dirty", "written"} <=> pc[h] \in {"dirty", "written"}
  BY <1>1 DEF TypeOK
<1>8. \A h \in Goroutine : pc[h] \notin {"dirty", "written"}
  <2>1. g \in readers \cup writers
    BY <1>1 DEF TypeOK
  <2> QED
    BY <1>1, <2>1 DEF LockInv
<1>9. CacheInv'
  <2>1. ASSUME NEW p \in Proc, ~Modified(p)' PROVE mem'[p] = file'
    BY <1>1, <1>5, <1>6, <1>8, <2>1 DEF CacheInv
  <2>2. ASSUME NEW h \in Goroutine, pc'[h] = "fresh" PROVE mem'[ProcOf[h]] = file'
    BY <1>1, <1>5, <1>6, <2>2 DEF CacheInv, TypeOK
  <2> QED
    BY <1>1, <1>7, <1>8, <2>1, <2>2 DEF CacheInv
<1> QED
  BY <1>2, <1>3, <1>4, <1>9

LEMMA ChangeKeepsInv ==
    ASSUME Inv, UNCHANGED setup, NEW g \in Goroutine, Change(g)
    PROVE  Inv'
<1> USE DEF Inv
<1> DEFINE P == ProcOf[g]
<1>1. g \in writers /\ op[g].item \in Item
  BY DEF TypeOK, Change, LockInv, Op
<1>2. ASSUME NEW h \in Goroutine, h # g
      PROVE  pc[h] = "idle" /\ pc'[h] = "idle"
  BY <1>1, <1>2 DEF TypeOK, Change, LockInv
<1>3. /\ \/ pc' = [pc EXCEPT ![g] = "done"] /\ mem' = mem
         \/ /\ pc' = [pc EXCEPT ![g] = "dirty"]
            /\ mem' = [mem EXCEPT ![P] = Applied(g, mem[P])]
      /\ pc[g] = "fresh" /\ op[g].kind # "list"
      /\ UNCHANGED <<readers, writers, op, ops, file, mtime, token, lastToken,
                     lw, layerspathModified>>
  BY DEF Change, Applied, lock, disk
<1>4. TypeOK'
  BY <1>1, <1>3 DEF TypeOK, PC, Applied
<1>5. LockInv'
  BY <1>1, <1>3 DEF TypeOK, LockInv
<1>6. NumberInv'
  BY <1>3 DEF NumberInv
<1>7. mem[P] = file
  BY <1>3 DEF CacheInv
<1>8. CacheInv'
  <2>1. ASSUME NEW p \in Proc PROVE Modified(p)' <=> Modified(p)
    BY <1>3 DEF Modified, lmodified, tmodified
  <2>2. Applied(g, file)' = Applied(g, file)
    BY <1>3 DEF Applied
  <2>3. CASE pc' = [pc EXCEPT ![g] = "done"] /\ mem' = mem
    BY <1>2, <1>3, <2>1, <2>3 DEF CacheInv, TypeOK
  <2>4. CASE /\ pc' = [pc EXCEPT ![g] = "dirty"]
             /\ mem' = [mem EXCEPT ![P] = Applied(g, mem[P])]
    <3>1. ASSUME NEW p \in Proc, ~Modified(p)', p # P PROVE mem'[p] = file'
      BY <1>2, <1>3, <2>1, <2>4, <3>1 DEF CacheInv, TypeOK
    <3>2. pc'[g] = "dirty" /\ mem'[P] = Applied(g, file)
      BY <1>7, <2>4 DEF TypeOK
    <3> QED
      BY <1>2, <2>2, <3>1, <3>2 DEF CacheInv
  <2> QED
    BY <1>3, <2>3, <2>4
<1> QED
  BY <1>4, <1>5, <1>6, <1>8

LEMMA SaveKeepsInv ==
    ASSUME Tolerated, Inv, UNCHANGED setup, NEW g \in Goroutine, Save(g)
    PROVE  Inv'
<1> USE DEF Inv
<1> DEFINE P == ProcOf[g]
<1>1. /\ pc[g] = "dirty" /\ pc' = [pc EXCEPT ![g] = "written"]
      /\ file' = mem[P] /\ mtime' = mtime + 1
      /\ UNCHANGED <<readers, writers, op, ops, token, lastToken, mem, lw,
                     layerspathModified>>
  BY ToleratedFaults DEF Save, lock, cache
<1>2. g \in writers
  BY <1>1 DEF LockInv
<1>3. ASSUME NEW h \in Goroutine, h # g
      PROVE  pc[h] = "idle" /\ pc'[h] = "idle"
  BY <1>1, <1>2, <1>3 DEF TypeOK, LockInv
<1>4. TypeOK'
  BY <1>1 DEF TypeOK, PC
<1>5. LockInv'
  BY <1>1 DEF TypeOK, LockInv
<1>6. NumberInv'
  BY <1>1 DEF NumberInv, TypeOK
<1>7. CacheInv'
  <2>1. ASSUME NEW p \in Proc, ChecksMtime PROVE Modified(p)'
    BY <1>1, <2>1 DEF Modified, tmodified, NumberInv, TypeOK
  <2>2. pc'[g] = "written" /\ mem'[P] = file'
    BY <1>1 DEF TypeOK
  <2> QED
    BY <1>3, <2>1, <2>2 DEF CacheInv
<1> QED
  BY <1>4, <1>5, <1>6, <1>7

LEMMA TouchKeepsInv ==
    ASSUME Tolerated, Inv, UNCHANGED setup, NEW g \in Goroutine, Touch(g)
    PROVE  Inv'
<1> USE DEF Inv
<1> DEFINE P == ProcOf[g]
<1>1. /\ pc[g] = "written" /\ pc' = [pc EXCEPT ![g] = "done"]
      /\ lastToken' = lastToken + 1
      /\ lw' = [lw EXCEPT ![P] = lastToken + 1]
      /\ (token' = lastToken + 1) \/ (ChecksMtime /\ token' = token)
      /\ UNCHANGED <<readers, writers, op, ops, file, mtime, mem, layerspathModified>>
  BY ToleratedFaults DEF Touch, lock
<1>2. g \in writers /\ mem[P] = file
  BY <1>1 DEF LockInv, CacheInv
<1>3. ASSUME NEW h \in Goroutine, h # g
      PROVE  pc[h] = "idle" /\ pc'[h] = "idle"
  BY <1>1, <1>2, <1>3 DEF TypeOK, LockInv
<1>4. TypeOK'
  BY <1>1 DEF TypeOK, PC
<1>5. LockInv'
  BY <1>1 DEF TypeOK, LockInv
<1>6. NumberInv'
  BY <1>1 DEF NumberInv, TypeOK
<1>7. CacheInv'
  <2>1. ASSUME NEW p \in Proc, p # P, token' = lastToken + 1 PROVE Modified(p)'
    BY <1>1, <2>1 DEF Modified, lmodified, NumberInv, TypeOK
  <2>2. ASSUME NEW p \in Proc, p # P, ChecksMtime, token' = token, ~Modified(p)'
        PROVE  mem[p] = file
    <3>1. ~Modified(p)
      BY <1>1, <2>2 DEF Modified, lmodified, tmodified, TypeOK
    <3>2. \A h \in Goroutine : ProcOf[h] = p => pc[h] # "dirty"
      BY <1>3, <2>2 DEF TypeOK
    <3> QED
      BY <2>2, <3>1, <3>2 DEF CacheInv
  <2>3. ASSUME NEW p \in Proc, ~Modified(p)' PROVE mem'[p] = file'
    BY <1>1, <1>2, <2>1, <2>2, <2>3
  <2>4. pc'[g] = "done"
    BY <1>1 DEF TypeOK
  <2> QED
    BY <1>3, <2>3, <2>4 DEF CacheInv
<1> QED
  BY <1>4, <1>5, <1>6, <1>7

LEMMA UnlockKeepsInv ==
    ASSUME Inv, UNCHANGED setup, NEW g \in Goroutine, Unlock(g)
    PROVE  Inv'
<1> USE DEF Inv
<1>1. TypeOK'
  BY DEF TypeOK, Unlock, PC, L!Unlock, disk, cache
<1>2. LockInv'
  BY DEF TypeOK, LockInv, Unlock, L!Unlock
<1>3. NumberInv'
  BY DEF NumberInv, Unlock, disk, cache
<1>4. CacheInv'
  BY DEF TypeOK, CacheInv, Unlock, Modified, lmodified, tmodified, Applied, disk, cache
<1> QED
  BY <1>1, <1>2, <1>3, <1>4

LEMMA CrashKeepsInv ==
    ASSUME Tolerated, Inv, UNCHANGED setup, NEW P \in Proc, Crash(P)
    PROVE  Inv'
<1> USE DEF Inv
<1>1. ChecksMtime
  BY ToleratedFaults DEF Crash
<1>2. TypeOK'
  BY DEF TypeOK, Crash, PC, L!Crash, disk
<1>3. LockInv'
  BY DEF TypeOK, LockInv, Crash, L!Crash
<1>4. NumberInv'
  BY DEF TypeOK, NumberInv, Crash, disk
<1>5. CacheInv'
  <2>1. Modified(P)'
    BY DEF TypeOK, Crash, Modified, lmodified, disk
  <2>2. ASSUME NEW p \in Proc, p # P
        PROVE  mem'[p] = mem[p] /\ (Modified(p)' <=> Modified(p))
    BY <2>2 DEF TypeOK, Crash, Modified, lmodified, tmodified, disk
  <2>3. ASSUME NEW h \in Goroutine
        PROVE  pc'[h] = IF ProcOf[h] = P THEN "idle" ELSE pc[h]
    BY DEF Crash
  <2>4. file' = file /\ op' = op
    BY DEF Crash, disk
  <2>5. ASSUME NEW p \in Proc, ~Modified(p)',
               \A h \in Goroutine : ProcOf[h] = p => pc'[h] # "dirty"
        PROVE  mem'[p] = file'
    <3>1. p # P /\ ~Modified(p)
      BY <2>1, <2>2, <2>5
    <3>2. \A h \in Goroutine : ProcOf[h] = p => pc[h] # "dirty"
      BY <2>3, <2>5, <3>1
    <3> QED
      BY <1>1, <2>2, <2>4, <3>1, <3>2 DEF CacheInv
  <2>6. ASSUME NEW h \in Goroutine, pc'[h] # "idle"
        PROVE  pc'[h] = pc[h] /\ mem'[ProcOf[h]] = mem[ProcOf[h]]
    BY <2>2, <2>3, <2>6
  <2>7. \A h \in Goroutine : Applied(h, file)' = Applied(h, file)
    BY <2>4 DEF Applied
  <2> QED
    BY <2>4, <2>5, <2>6, <2>7 DEF CacheInv
<1> QED
  BY <1>2, <1>3, <1>4, <1>5

LEMMA NextInv ==
    ASSUME Tolerated, Inv, [Next]_vars PROVE Inv'
<1>1. ASSUME NEW g \in Goroutine, NEW o \in Op, Begin(g, o) PROVE Inv'
  BY <1>1, BeginKeepsInv DEF Begin
<1>2. ASSUME NEW g \in Goroutine, ReloadIfChanged(g) PROVE Inv'
  BY <1>2, ReloadKeepsInv DEF ReloadIfChanged
<1>3. ASSUME NEW g \in Goroutine, Change(g) PROVE Inv'
  BY <1>3, ChangeKeepsInv DEF Change
<1>4. ASSUME NEW g \in Goroutine, Save(g) PROVE Inv'
  BY <1>4, SaveKeepsInv DEF Save
<1>5. ASSUME NEW g \in Goroutine, Touch(g) PROVE Inv'
  BY <1>5, TouchKeepsInv DEF Touch
<1>6. ASSUME NEW g \in Goroutine, Unlock(g) PROVE Inv'
  BY <1>6, UnlockKeepsInv DEF Unlock
<1>7. ASSUME NEW p \in Proc, Crash(p) PROVE Inv'
  BY <1>7, CrashKeepsInv DEF Crash
<1>8. CASE UNCHANGED vars
  BY <1>8 DEF Inv, TypeOK, LockInv, NumberInv, CacheInv, Applied, Modified,
      lmodified, tmodified, vars, lock, disk, cache
<1> QED
  BY <1>1, <1>2, <1>3, <1>4, <1>5, <1>6, <1>7, <1>8 DEF Next

\* The inductive invariant, type correctness included.
THEOREM InvAlways ==
    ASSUME Tolerated PROVE Spec => []Inv
<1>1. Init => Inv
  BY InitInv
<1>2. Inv /\ [Next]_vars => Inv'
  BY NextInv
<1> QED
  BY <1>1, <1>2, PTL DEF Spec

\* After ReloadIfChanged an operation works on what is on disk, for any
\* number of processes: without failures, and for the layer store also when
\* processes die between writing the file and the lock file.
THEOREM FreshAlways ==
    ASSUME Tolerated PROVE Spec => []Fresh
<1>1. Inv => Fresh
  BY DEF Inv, CacheInv, Fresh
<1> QED
  BY <1>1, InvAlways, PTL

\* No save reverts another process's save.
THEOREM NoLostUpdate ==
    ASSUME Tolerated PROVE Spec => OneRecordPerSave
<1> DEFINE A == \A g \in Goroutine :
                  pc[g] = "dirty" /\ pc'[g] = "written" /\ file' # file =>
                    file' = IF op[g].kind = "create"
                            THEN file \cup {op[g].item}
                            ELSE file \ {op[g].item}
<1>1. Inv /\ [Next]_vars => [A]_vars
  <2> SUFFICES ASSUME Inv, Next, NEW g \in Goroutine,
                      pc[g] = "dirty", pc'[g] = "written"
               PROVE  file' # file => file' = Applied(g, file)
    BY DEF Applied
  <2>1. mem[ProcOf[g]] = Applied(g, file)
    BY DEF Inv, CacheInv
  <2>2. Save(g)
    <3> USE DEF Inv, TypeOK
    <3>1. ASSUME NEW h \in Goroutine, NEW o \in Op, Begin(h, o) PROVE FALSE
      BY <3>1 DEF Begin
    <3>2. ASSUME NEW h \in Goroutine, ReloadIfChanged(h) PROVE FALSE
      BY <3>2 DEF ReloadIfChanged
    <3>3. ASSUME NEW h \in Goroutine, Change(h) PROVE FALSE
      BY <3>3 DEF Change
    <3>4. ASSUME NEW h \in Goroutine, Save(h) PROVE Save(g)
      BY <3>4 DEF Save
    <3>5. ASSUME NEW h \in Goroutine, Touch(h) PROVE FALSE
      BY <3>5 DEF Touch
    <3>6. ASSUME NEW h \in Goroutine, Unlock(h) PROVE FALSE
      BY <3>6 DEF Unlock
    <3>7. ASSUME NEW p \in Proc, Crash(p) PROVE FALSE
      BY <3>7 DEF Crash
    <3> QED
      BY <3>1, <3>2, <3>3, <3>4, <3>5, <3>6, <3>7 DEF Next
  <2> QED
    BY <2>1, <2>2 DEF Save
<1>2. Spec => []Inv
  BY InvAlways
<1> QED
  BY <1>1, <1>2, PTL DEF Spec, OneRecordPerSave

-----------------------------------------------------------------------------
\* A process some goroutine of which has been through ReloadIfChanged and still holds the lock knows
\* the last writer.
KnownInv ==
    ~ChecksMtime /\ token # 0 =>
        \A h \in Goroutine : pc[h] \notin {"idle", "locked"} => lw[ProcOf[h]] = token

\* Only a writer changes the writer ID, and then nobody else is inside.
LEMMA NextKnownInv ==
    ASSUME Tolerated, Inv, KnownInv, [Next]_vars PROVE KnownInv'
<1> USE DEF Inv, KnownInv
<1>1. ASSUME NEW g \in Goroutine, NEW o \in Op, Begin(g, o) PROVE KnownInv'
  BY <1>1 DEF Begin, TypeOK, disk, cache
<1>2. ASSUME NEW g \in Goroutine, ReloadIfChanged(g) PROVE KnownInv'
  BY <1>2 DEF ReloadIfChanged, Recorded, TypeOK, disk
<1>3. ASSUME NEW g \in Goroutine, Change(g) PROVE KnownInv'
  BY <1>3 DEF Change, TypeOK, disk
<1>4. ASSUME NEW g \in Goroutine, Save(g) PROVE KnownInv'
  BY <1>4 DEF Save, TypeOK, cache
<1>5. ASSUME NEW g \in Goroutine, Touch(g) PROVE KnownInv'
  <2>1. \A h \in Goroutine : h # g => pc'[h] = "idle"
    BY <1>5 DEF Touch, TypeOK, LockInv
  <2> QED
    BY <1>5, <2>1, ToleratedFaults DEF Touch, TypeOK
<1>6. ASSUME NEW g \in Goroutine, Unlock(g) PROVE KnownInv'
  BY <1>6 DEF Unlock, TypeOK, disk, cache
<1>7. ASSUME NEW p \in Proc, Crash(p) PROVE KnownInv'
  BY <1>7, ToleratedFaults DEF Crash
<1>8. CASE UNCHANGED vars
  BY <1>8 DEF vars, disk, cache
<1> QED
  BY <1>1, <1>2, <1>3, <1>4, <1>5, <1>6, <1>7, <1>8 DEF Next

\* While a goroutine works on its process's copy, no other goroutine of the process finds an image or
\* container store modified and replaces the copy under it.
THEOREM NoReloadUnderReaderAlways ==
    ASSUME Tolerated PROVE Spec => []NoReloadUnderReader
<1>1. Init => KnownInv
  BY DEF Init, KnownInv
<1>2. Inv /\ KnownInv /\ [Next]_vars => KnownInv'
  BY NextKnownInv
<1>3. KnownInv => NoReloadUnderReader
  BY DEF KnownInv, NoReloadUnderReader, Modified, lmodified, tmodified
<1> QED
  BY <1>1, <1>2, <1>3, InvAlways, PTL DEF Spec

=============================================================================
