------------------------------- MODULE Reexec -------------------------------
(* The helpers the library re-executes itself for: storage-untar,             *)
(* storage-applyLayer and storage-tar (pkg/chrootarchive), storage-chown-by-  *)
(* maps (drivers/chown.go) and storage-mountfrom (drivers/overlay/mount.go).  *)
(* A call is a pipeline of a producer (a decompressor, or the child that       *)
(* packs), the goroutine of os/exec that copies, the child and the caller.    *)
(* Streams are counted in chunks.  The last chunk of an archive is the         *)
(* padding after its end.  A child may fail or be killed at any point.         *)
EXTENDS Integers

CONSTANTS
    Chunks,     \* chunks of a stream
    MaxOpt,     \* largest size of the options, in buffers of a pipe
    Kinds       \* the helpers

VARIABLES
    kind,       \* the helper
    decompress, \* the caller decompresses the archive, and closes the decompressor when it returns
    parent,     \* the function that starts the helper
    helper,     \* the child
    optLeft,    \* options still to be written to their pipe
    opt,        \* options in the pipe
    src,        \* chunks the producer has yet to write
    srcErr,     \* the decompressor failed
    p1,         \* chunks between the producer and the goroutine
    open1,      \* the reader of p1 is open
    copier,     \* the goroutine of os/exec: "run", "ok" or "err"
    p2,         \* chunks in the child's standard input
    got,        \* chunks consumed, by the child or by the reader of the packed archive
    reader,     \* the reader that invokePack returned
    root        \* where the child's root is, and what chroot() left behind

rvars == <<kind, decompress, parent, helper, optLeft, opt, src, srcErr, p1, open1, copier, p2, got, reader, root>>
streamVars == <<src, srcErr, p1, open1, copier, p2, got>>

Cap == 1                                    \* capacity of a pipe
Gone == {"exit0", "failed"}
Returned == {"ok", "error"}
TakesOptions == {"untar", "tar", "mountfrom"}
Unpacks == {"untar", "applyLayer"}

Init ==
    /\ kind \in Kinds
    /\ decompress \in BOOLEAN /\ (decompress => kind \in Unpacks)
    /\ parent = "start" /\ helper = "none"
    /\ optLeft \in (IF kind \in TakesOptions THEN 1..MaxOpt ELSE {0}) /\ opt = 0
    /\ src = (IF kind = "mountfrom" THEN 0 ELSE Chunks) /\ srcErr = FALSE
    /\ p1 = 0 /\ open1 = TRUE /\ p2 = 0 /\ got = 0 /\ reader = "none"
    /\ copier = "none"
    /\ root = [at |-> "host", pivotDir |-> FALSE, mounted |-> FALSE]

-----------------------------------------------------------------------------
\* The stream

\* The decompressor (or the caller's archive, or the configuration of chownByMaps in memory).
\* It gets EPIPE when nobody can read it any more, and a decompressor or an archive may fail.
ProducerCan == kind # "tar" /\ src > 0 /\ (p1 < Cap \/ ~open1)
Produce ==
    /\ ProducerCan /\ copier # "none"
    /\ \/ open1 /\ src' = src - 1 /\ p1' = p1 + 1 /\ UNCHANGED srcErr
       \/ open1 /\ kind \in Unpacks /\ src' = 0 /\ srcErr' = TRUE /\ UNCHANGED p1
       \/ ~open1 /\ src' = 0 /\ UNCHANGED <<p1, srcErr>>
    /\ UNCHANGED <<kind, decompress, parent, helper, optLeft, opt, open1, copier, p2, got, reader, root>>

ProducerEnded == IF kind = "tar" THEN helper \in Gone ELSE src = 0
CopierCan ==
    /\ copier = "run"
    /\ \/ p1 = 0 /\ ProducerEnded
       \/ p1 > 0 /\ IF kind = "tar" THEN reader # "none" ELSE p2 < Cap \/ helper \in Gone

\* io.Copy in os/exec: from cmd.Stdin to the child, where EPIPE is no error, or from the child
\* to the pipe that invokePack's caller reads, where a closed reader is one.
Copy ==
    /\ CopierCan
    /\ IF p1 = 0
       THEN copier' = (IF srcErr THEN "err" ELSE "ok") /\ UNCHANGED <<p1, p2, got, open1>>
       ELSE /\ p1' = p1 - 1
            /\ IF kind = "tar"
               THEN /\ UNCHANGED p2
                    /\ IF reader = "reading" THEN got' = got + 1 /\ UNCHANGED <<copier, open1>>
                                             ELSE copier' = "err" /\ open1' = FALSE /\ UNCHANGED got
               ELSE /\ UNCHANGED <<got, open1>>
                    /\ IF helper \in Gone THEN copier' = "ok" /\ UNCHANGED p2
                                         ELSE p2' = p2 + 1 /\ UNCHANGED copier
    /\ UNCHANGED <<kind, decompress, parent, helper, optLeft, opt, src, srcErr, reader, root>>

-----------------------------------------------------------------------------
\* The child

Helper(pc) == helper' = pc /\ UNCHANGED <<kind, decompress, parent, optLeft, reader>>

\* fatal(), a signal, or an error of any step.
Fatal ==
    /\ helper \notin Gone \cup {"none"}
    /\ Helper("failed") /\ UNCHANGED <<opt, root>> /\ UNCHANGED streamVars

\* The options are decoded when all of them were read.
HelperOptions ==
    /\ helper = "options" /\ opt > 0
    /\ opt' = opt - 1
    /\ Helper(IF optLeft > 0 THEN "options" ELSE IF kind = "untar" THEN "chroot" ELSE "work")
    /\ UNCHANGED root /\ UNCHANGED streamVars

Root(at, dir, mounted) == root' = [at |-> at, pivotDir |-> dir, mounted |-> mounted]

\* realChroot: the fallback of chroot(), and all that tar() does.
AfterChroot == CASE kind = "tar" -> "options" [] kind = "chown" -> "flush" [] OTHER -> "work"
realChroot == Root("path", FALSE, FALSE) /\ Helper(AfterChroot) /\ UNCHANGED opt /\ UNCHANGED streamVars

\* chroot(): without CAP_SYS_ADMIN, or when the bind mount fails, the real chroot; else the
\* directory that pivot_root moves the old root to is made.  chownByMaps, which has read its
\* configuration by then, only changes directory where it cannot chroot.
chroot ==
    /\ helper = "chroot"
    /\ \/ realChroot
       \/ /\ kind \in Unpacks
          /\ Root("host", TRUE, FALSE) /\ Helper("pivot") /\ UNCHANGED opt /\ UNCHANGED streamVars

\* "If pivot fails, fall back to the normal chroot after cleaning up temp dir"
pivot ==
    /\ helper = "pivot"
    /\ \/ realChroot
       \/ Root("path", TRUE, TRUE) /\ Helper("unmount") /\ UNCHANGED opt /\ UNCHANGED streamVars

\* Mutant: the old root stays mounted under the new one, and the directory with it.
keepOldRoot ==
    /\ helper = "unmount"
    /\ Helper(AfterChroot) /\ UNCHANGED <<opt, root>> /\ UNCHANGED streamVars

\* "Now unmount the old root so it's no longer visible from the new root"; the deferred
\* function removes the directory.
unmount ==
    /\ helper = "unmount"
    /\ Root("path", FALSE, FALSE) /\ Helper(AfterChroot) /\ UNCHANGED opt /\ UNCHANGED streamVars

StdinEOF == p2 = 0 /\ copier # "run"
HelperCan ==
    \/ helper \in {"chroot", "pivot", "unmount"}
    \/ helper = "options" /\ opt > 0
    \/ helper = "work" /\ (kind \in {"mountfrom"} \/ (kind = "tar" /\ (src = 0 \/ p1 < Cap \/ ~open1))
                              \/ (kind \in Unpacks \cup {"chown"} /\ (p2 > 0 \/ StdinEOF)))
    \/ helper = "flush" /\ (p2 > 0 \/ StdinEOF)

\* Mutant: the child ends at the end of the archive, with the padding unread.
unpackWithoutFlush ==
    /\ helper = "work" /\ kind \in Unpacks
    /\ IF p2 > 0 THEN p2' = p2 - 1 /\ got' = got + 1 /\ Helper(IF got' = Chunks - 1 THEN "exit0" ELSE "work")
                 ELSE StdinEOF /\ Helper("flush") /\ UNCHANGED <<p2, got>>
    /\ UNCHANGED <<opt, src, srcErr, p1, open1, copier, root>>

\* archive.Unpack and UnpackLayer read up to the end of the archive; a stream that ends early,
\* between two entries, ends the archive.
Unpack ==
    /\ helper = "work" /\ kind \in Unpacks
    /\ IF p2 > 0 THEN p2' = p2 - 1 /\ got' = got + 1 /\ Helper(IF got' = Chunks - 1 THEN "flush" ELSE "work")
                 ELSE StdinEOF /\ Helper("flush") /\ UNCHANGED <<p2, got>>
    /\ UNCHANGED <<opt, src, srcErr, p1, open1, copier, root>>

\* chownByMapsMain reads all of its configuration, and then works in the directory.
chownByMapsMain ==
    /\ helper = "work" /\ kind = "chown"
    /\ IF p2 > 0 THEN p2' = p2 - 1 /\ got' = got + 1 /\ Helper("work")
                 ELSE StdinEOF /\ Helper("chroot") /\ UNCHANGED <<p2, got>>
    /\ UNCHANGED <<opt, src, srcErr, p1, open1, copier, root>>

\* "fully consume stdin in case it is zero padded"
flush ==
    /\ helper = "flush"
    /\ IF p2 > 0 THEN p2' = p2 - 1 /\ got' = got + 1 /\ Helper("flush")
                 ELSE StdinEOF /\ Helper("exit0") /\ UNCHANGED <<p2, got>>
    /\ UNCHANGED <<opt, src, srcErr, p1, open1, copier, root>>

\* storage-tar copies the archive to its standard output; EPIPE ends it.
Pack ==
    /\ helper = "work" /\ kind = "tar"
    /\ \/ src > 0 /\ open1 /\ p1 < Cap /\ src' = src - 1 /\ p1' = p1 + 1 /\ Helper("work")
       \/ src > 0 /\ ~open1 /\ Helper("failed") /\ UNCHANGED <<src, p1>>
       \/ src = 0 /\ Helper("exit0") /\ UNCHANGED <<src, p1>>
    /\ UNCHANGED <<opt, srcErr, open1, copier, p2, got, root>>

\* mountFromMain
MountFrom ==
    /\ helper = "work" /\ kind = "mountfrom"
    /\ Helper("exit0") /\ UNCHANGED <<opt, root>> /\ UNCHANGED streamVars

-----------------------------------------------------------------------------
\* The function that starts the child

\* A return runs the deferred Close of the decompressor.
Return(result) ==
    /\ parent' = result
    /\ open1' = (open1 /\ ~decompress)
    /\ UNCHANGED <<kind, decompress, helper, optLeft, opt, src, srcErr, p1, copier, p2, got, root>>

\* The command is started, with a goroutine that copies to or from it, or this fails.
Starts(next, first, copies) ==
    /\ parent = "start"
    /\ \/ /\ parent' = next /\ helper' = first /\ copier' = copies
          /\ UNCHANGED <<kind, decompress, optLeft, opt, src, srcErr, p1, open1, p2, got, reader, root>>
       \/ Return("error") /\ UNCHANGED reader

invokeUnpack == kind = "untar" /\ Starts("encode", "options", "run")
applyLayerHandler == kind = "applyLayer" /\ Starts("wait", "chroot", "run")
invokePack == kind = "tar" /\ Starts("encode", "chroot", "run")
ChownPathByMaps == kind = "chown" /\ Starts("wait", "work", "run")
mountFrom == kind = "mountfrom" /\ Starts("encode", "options", "ok")
StartHelper == invokeUnpack \/ applyLayerHandler \/ invokePack \/ ChownPathByMaps \/ mountFrom

\* Mutant: the read end of every options pipe is kept open.
encodeKeepsPipe == parent = "encode" /\ (optLeft = 0 \/ opt < Cap)

\* The options to their pipe.  A pipe of os/exec breaks when the child is gone, and the call
\* returns without waiting; invokeUnpack's own pipe does not, as invokeUnpack keeps its read end.
EncodeCan == parent = "encode" /\ (optLeft = 0 \/ opt < Cap \/ (helper \in Gone /\ kind # "untar"))

Encode ==
    /\ EncodeCan
    /\ \/ /\ optLeft > 0 /\ opt < Cap /\ (helper \in Gone => kind = "untar")
          /\ optLeft' = optLeft - 1 /\ opt' = opt + 1
          /\ UNCHANGED <<kind, decompress, parent, helper, reader, root>> /\ UNCHANGED streamVars
       \/ optLeft > 0 /\ helper \in Gone /\ kind # "untar" /\ Return("error") /\ UNCHANGED reader
       \/ /\ optLeft = 0
          /\ parent' = "wait"
          /\ reader' = (IF kind = "tar" THEN "reading" ELSE reader)
          /\ UNCHANGED <<kind, decompress, helper, optLeft, opt, root>> /\ UNCHANGED streamVars

\* Mutant: what the goroutine that copied says is not looked at.
waitChildOnly ==
    /\ parent = "wait" /\ helper \in Gone /\ copier # "run"
    /\ IF helper = "exit0" THEN Return("ok")
       ELSE IF kind = "untar" THEN parent' = "drain" /\ UNCHANGED <<kind, decompress, helper, optLeft, opt, root>> /\ UNCHANGED streamVars
       ELSE Return("error")
    /\ reader' = IF reader # "reading" THEN reader ELSE IF helper = "exit0" THEN "eof" ELSE "error"

\* Mutant: the pipe to the reader is closed without the error.
waitClosesQuietly ==
    /\ parent = "wait" /\ helper \in Gone /\ copier # "run"
    /\ Return(IF helper = "exit0" /\ copier = "ok" THEN "ok" ELSE "error")
    /\ reader' = IF reader # "reading" THEN reader ELSE "eof"

\* cmd.Wait(): the child and the goroutine; the error of the goroutine counts when the child
\* succeeded.  invokePack's goroutine hands the result to the reader.
Wait ==
    /\ parent = "wait" /\ helper \in Gone /\ copier # "run"
    /\ LET good == helper = "exit0" /\ copier = "ok"
       IN  /\ IF good THEN Return("ok")
              ELSE IF kind = "untar" THEN parent' = "drain" /\ UNCHANGED <<kind, decompress, helper, optLeft, opt, root>> /\ UNCHANGED streamVars
              ELSE Return("error")
           /\ reader' = IF reader # "reading" THEN reader ELSE IF good THEN "eof" ELSE "error"

\* Mutant: the error is returned at once.
returnUndrained == parent = "drain" /\ Return("error") /\ UNCHANGED reader

\* "we need to exhaust `xz`'s output, otherwise the `xz` side will be pending on write pipe forever"
Drain ==
    /\ parent = "drain"
    /\ \/ /\ p1 > 0 /\ p1' = p1 - 1
          /\ UNCHANGED <<kind, decompress, parent, helper, optLeft, opt, src, srcErr, open1, copier, p2, got, reader, root>>
       \/ p1 = 0 /\ src = 0 /\ Return("error") /\ UNCHANGED reader

\* The reader of the packed archive may close it before its end.
CloseReader ==
    /\ reader = "reading"
    /\ reader' = "closed"
    /\ UNCHANGED <<kind, decompress, parent, helper, optLeft, opt, root>> /\ UNCHANGED streamVars

Next ==
    \/ Produce \/ Copy
    \/ HelperOptions \/ chroot \/ pivot \/ unmount \/ Unpack \/ chownByMapsMain \/ flush \/ Pack \/ MountFrom \/ Fatal
    \/ StartHelper \/ Encode \/ Wait \/ Drain \/ CloseReader

Spec == Init /\ [][Next]_rvars

-----------------------------------------------------------------------------
\* Type invariant: the pipes hold at most what they can, for every helper.
TypeOK ==
    /\ parent \in Returned \cup {"start", "encode", "wait", "drain"}
    /\ helper \in Gone \cup {"none", "options", "chroot", "pivot", "unmount", "work", "flush"}
    /\ optLeft + opt <= MaxOpt /\ opt \in 0..Cap /\ p1 \in 0..Cap /\ p2 \in 0..Cap
    /\ src + p1 + p2 + got <= Chunks
    /\ reader \in {"none", "reading", "eof", "error", "closed"}

\* untar and applyLayer report success only when the whole stream was read, padding included,
\* and its source did not fail: a stream cut short between two entries looks like an
\* archive that ends there, and only the goroutine of os/exec saw the error.
UnpackComplete == parent = "ok" /\ kind \in Unpacks => got = Chunks /\ ~srcErr

\* The reader of a packed archive sees its end only after all of it: a child that died half way
\* is an error of the last read, not a short archive.
PackComplete == reader = "eof" => got = Chunks /\ helper = "exit0"

\* Once invokeUnpack or applyLayerHandler returned, the decompressor is not left waiting on its
\* pipe; and after a failure of storage-untar it was read to its end even if it is the caller's.
ProducerFreed ==
    /\ parent \in Returned /\ decompress => src = 0 \/ ~open1
    /\ parent = "error" /\ kind = "untar" /\ optLeft = 0 /\ helper \in Gone => src = 0

\* The child unpacks only inside its directory, with the old root out of sight and the directory
\* that held it removed.
WorksInside ==
    kind \in Unpacks \cup {"tar"} /\ (helper \in {"work", "flush", "exit0"})
        => root = [at |-> "path", pivotDir |-> FALSE, mounted |-> FALSE]

\* Some party can always move until the call has returned, the child is gone and the goroutine of
\* os/exec has ended; no failure of the child leaves the others waiting for it.  The exception is
\* invokeUnpack, which writes options larger than a pipe to a child that is gone.
NobodyStuck ==
    \/ parent \in Returned /\ helper \in Gone \cup {"none"} /\ copier # "run"
    \/ parent = "start" \/ EncodeCan \/ (parent = "wait" /\ helper \in Gone /\ copier # "run")
    \/ (parent = "drain" /\ (p1 > 0 \/ src = 0))
    \/ ProducerCan \/ CopierCan \/ HelperCan
    \/ kind = "untar" /\ parent = "encode" /\ helper \in Gone /\ MaxOpt > Cap
=============================================================================
