-------------------------- MODULE ReaderWriterLock --------------------------
(***************************************************************************)
(* What pkg/lockfile promises to its callers when only Lock, RLock and     *)
(* Unlock are used: a reader-writer lock among all goroutines of all       *)
(* processes, which a dying process gives up.                              *)
(***************************************************************************)
CONSTANTS Proc, Goroutine, ProcOf

VARIABLES readers, writers

vars == <<readers, writers>>

Init == readers = {} /\ writers = {}

RLock(g) ==
    /\ writers = {}
    /\ g \notin readers
    /\ readers' = readers \cup {g}
    /\ UNCHANGED writers

Lock(g) ==
    /\ readers = {} /\ writers = {}
    /\ writers' = {g}
    /\ UNCHANGED readers

Unlock(g) ==
    /\ g \in readers \cup writers
    /\ readers' = readers \ {g}
    /\ writers' = writers \ {g}

Crash(p) ==
    /\ readers' = {g \in readers : ProcOf[g] # p}
    /\ writers' = {g \in writers : ProcOf[g] # p}

Next ==
    \/ \E g \in Goroutine : RLock(g) \/ Lock(g) \/ Unlock(g)
    \/ \E p \in Proc : Crash(p)

Spec == Init /\ [][Next]_vars

=============================================================================
