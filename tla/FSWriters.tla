----------------------------- MODULE FSWriters -----------------------------
(***************************************************************************)
(* Replacing files as a whole (pkg/ioutils/fswriters.go): by a temporary   *)
(* file that is renamed, and by a directory that is renamed.  Every step   *)
(* may fail, a process may die between two steps, and the power may fail,  *)
(* after which the part of a file that was not synced, and the last        *)
(* renames, may be lost.                                                   *)
(***************************************************************************)
EXTENDS Integers, FiniteSets

CONSTANTS
    Writer,      \* calls that replace the same file
    SetFile,     \* the files of a write set
    None, Size,  \* Size: in how many Writes a file is written
    MaxDeaths

VARIABLES
    noSync,      \* defaultWriterOptions.NoSync
    pc, tmp,     \* per call: where it is, and its temporary file
    writeErr,    \* per call: atomicFileWriter.writeErr # nil
    target,      \* the file
    recent,      \* what the file may be after the power failed
    root,        \* AtomicWriteSet: per file what is in the temporary directory
    committed,   \* the directory it became, or None
    deaths, power

vars == <<noSync, pc, tmp, writeErr, target, recent, root, committed, deaths, power>>

File(by, part, synced) == [by |-> by, part |-> part, synced |-> synced]
Absent == File(None, 0, FALSE)
Empty == [f \in SetFile |-> Absent]

Init ==
    /\ noSync \in BOOLEAN
    /\ pc = [w \in Writer |-> "idle"]
    /\ tmp = [w \in Writer |-> None]
    /\ writeErr = [w \in Writer |-> FALSE]
    /\ target = File(None, Size, TRUE) /\ recent = {target}
    /\ root = None /\ committed = None
    /\ deaths = 0 /\ power = FALSE

Step(w, to, t) == pc' = [pc EXCEPT ![w] = to] /\ tmp' = [tmp EXCEPT ![w] = t]
Elsewhere == UNCHANGED <<noSync, root, committed, deaths, power>>

-----------------------------------------------------------------------------
(* The atomic file writer. *)

\* When filepath.Abs fails the temporary file is there and nobody closes or removes it.
NewAtomicFileWriter(w) ==
    /\ pc[w] = "idle"
    /\ \/ Step(w, "open", File(w, 0, FALSE))
       \/ Step(w, "error", None)
       \/ Step(w, "noAbs", File(w, 0, FALSE))
    /\ writeErr' = [writeErr EXCEPT ![w] = FALSE]
    /\ UNCHANGED <<target, recent>> /\ Elsewhere

removeEarly(w) ==
    /\ pc[w] = "open" /\ ~writeErr[w] /\ tmp[w].part < Size
    /\ \/ Step(w, "open", File(w, tmp[w].part + 1, FALSE)) /\ UNCHANGED writeErr
       \/ Step(w, "open", None) /\ writeErr' = [writeErr EXCEPT ![w] = TRUE]
    /\ UNCHANGED <<target, recent>> /\ Elsewhere

\* A Write that fails is remembered; AtomicWriteFile does the same for a short one.
Write(w) ==
    /\ pc[w] = "open" /\ ~writeErr[w] /\ tmp[w].part < Size
    /\ \/ Step(w, "open", File(w, tmp[w].part + 1, FALSE)) /\ UNCHANGED writeErr
       \/ UNCHANGED <<pc, tmp>> /\ writeErr' = [writeErr EXCEPT ![w] = TRUE]
    /\ UNCHANGED <<target, recent>> /\ Elsewhere

\* The deferred os.Remove, whose own error is ignored.
RemoveTmp(w) == Step(w, "error", None) \/ Step(w, "noRemove", tmp[w])

\* Close: fdatasync, then os.File.Close and Chmod, then Rename; the deferred Remove when one
\* of them, or a Write before, failed.  The caller has written all, or saw a Write fail.
Close(w) ==
    /\ pc[w] = "open" /\ (writeErr[w] \/ tmp[w].part = Size)
    /\ \/ Step(w, "synced", IF noSync THEN tmp[w] ELSE [tmp[w] EXCEPT !.synced = TRUE])
       \/ ~noSync /\ RemoveTmp(w)
    /\ UNCHANGED <<writeErr, target, recent>> /\ Elsewhere

renameAnyway(w) ==
    /\ pc[w] = "synced"
    /\ Step(w, "rename", tmp[w])
    /\ UNCHANGED <<writeErr, target, recent>> /\ Elsewhere

Chmod(w) ==
    /\ pc[w] = "synced"
    /\ \/ ~writeErr[w] /\ Step(w, "rename", tmp[w])
       \/ RemoveTmp(w)
    /\ UNCHANGED <<writeErr, target, recent>> /\ Elsewhere

errorAfter(w) ==
    /\ pc[w] = "rename"
    /\ \/ Step(w, "ok", None)
       \/ Step(w, "error", None)
    /\ target' = tmp[w] /\ recent' = recent \cup {tmp[w]}
    /\ UNCHANGED writeErr /\ Elsewhere

Rename(w) ==
    /\ pc[w] = "rename"
    /\ \/ /\ Step(w, "ok", None)
          /\ target' = tmp[w] /\ recent' = recent \cup {tmp[w]}
       \/ RemoveTmp(w) /\ UNCHANGED <<target, recent>>
    /\ UNCHANGED writeErr /\ Elsewhere

-----------------------------------------------------------------------------
(* The write set. *)
FileSteps == UNCHANGED <<noSync, pc, tmp, writeErr, target, recent, deaths, power>>

NewAtomicWriteSet == root = None /\ committed = None /\ root' = Empty /\ UNCHANGED committed /\ FileSteps

\* WriteFile opens with O_TRUNC, writes and closes.  (syncFileCloser.Close)
syncFileCloserClose(f) == File(f, Size, noSync)

WriteFile(f) ==
    /\ root # None
    /\ \/ root' = [root EXCEPT ![f] = syncFileCloserClose(f)]
       \/ \E n \in 0..Size : root' = [root EXCEPT ![f] = File(None, n, FALSE)]
    /\ UNCHANGED committed /\ FileSteps

commitFileByFile ==
    /\ root # None
    /\ \E f \in SetFile :
          /\ root[f].by = f
          /\ committed' = [(IF committed = None THEN Empty ELSE committed) EXCEPT ![f] = root[f]]
          /\ root' = [root EXCEPT ![f] = Absent]
    /\ FileSteps

\* The caller commits once every WriteFile succeeded.
Commit ==
    /\ root # None /\ committed = None
    /\ \A f \in SetFile : root[f].by = f
    /\ committed' = root /\ root' = None
    /\ FileSteps

Cancel == root # None /\ root' = None /\ UNCHANGED committed /\ FileSteps

-----------------------------------------------------------------------------
(* Faults. *)

Running(w) == pc[w] \in {"open", "synced", "rename"}

\* A process that dies leaves its temporary file.
Die(w) ==
    /\ deaths < MaxDeaths /\ Running(w)
    /\ pc' = [pc EXCEPT ![w] = "dead"]
    /\ deaths' = deaths + 1
    /\ UNCHANGED <<noSync, tmp, writeErr, target, recent, root, committed, power>>

\* What is left of a file, or of the files of a set.
Left(t) == IF t.synced THEN {t} ELSE {[t EXCEPT !.part = n] : n \in 0..t.part}
PowerFailure ==
    /\ ~power /\ power' = TRUE
    /\ \E t \in recent : \E l \in Left(t) : target' = l /\ recent' = {l}
    /\ \/ committed' = None
       \/ committed # None /\ committed' \in {c \in [SetFile -> UNION {Left(committed[f]) : f \in SetFile}] :
                                                 \A f \in SetFile : c[f] \in Left(committed[f])}
    /\ root' = None
    /\ pc' = [w \in Writer |-> IF Running(w) THEN "dead" ELSE pc[w]]
    /\ UNCHANGED <<noSync, tmp, writeErr, deaths>>

Next ==
    \/ \E w \in Writer : NewAtomicFileWriter(w) \/ Write(w) \/ Close(w) \/ Chmod(w) \/ Rename(w) \/ Die(w)
    \/ NewAtomicWriteSet \/ (\E f \in SetFile : WriteFile(f)) \/ Commit \/ Cancel
    \/ PowerFailure

Spec == Init /\ [][Next]_vars

-----------------------------------------------------------------------------
IsFile(t) == t.part \in 0..Size /\ t.synced \in BOOLEAN

TypeOK ==
    /\ \A w \in Writer :
          /\ pc[w] \in {"idle", "open", "synced", "rename", "ok", "error", "noAbs", "noRemove", "dead"}
          /\ tmp[w] = None \/ IsFile(tmp[w])
          /\ Running(w) => tmp[w] # None
    /\ IsFile(target) /\ target \in recent
    /\ root = None \/ root \in [SetFile -> {File(f, n, s) : f \in SetFile \cup {None}, n \in 0..Size, s \in BOOLEAN}]

\* The file is always whole: one that a call wrote to its end.  A failure of the power changes
\* that only with NoSync (NewAtomicFileWriter: "closing it atomically changes the temporary
\* file to destination path"; NoSync: "synced to the storage ... before it is moved").
Whole == (power /\ noSync) \/ target.part = Size

\* A call that returned an error has not replaced the file.  It has left no temporary file
\* either, unless its process died, filepath.Abs failed (fswriters.go:38-41) or os.Remove did
\* (line 93).
FailedHasNoEffect ==
    \A w \in Writer :
        /\ pc[w] \in {"error", "noAbs", "noRemove"} => target.by # w
        /\ tmp[w] # None => Running(w) \/ pc[w] \in {"dead", "noAbs", "noRemove"}

\* The files of a set are seen together, and whole, while the power does not fail
\* ("ensure they are visible at the same time").
SetTogether == committed # None /\ ~power => \A f \in SetFile : committed[f].by = f /\ committed[f].part = Size

\* "WriteFile writes a file to the set, guaranteeing the file has been synced": a set that was
\* committed is whole also after the power failed.
SetDurable == committed # None /\ ~noSync => \A f \in SetFile : committed[f].part = Size

=============================================================================
