---------------------------- MODULE MCLibraries ----------------------------
(* The components that do not share state with each other, for one run: each  *)
(* behaviour is one of one of them, which "part" names.  A component's        *)
(* variables are x1, x2, ... in the order of its VARIABLES; those it does not *)
(* need stay 0.  The named locks of pkg/locker keep their own.                *)
EXTENDS Locker, Integers, Sequences, TLC

CONSTANT DriverLayer    \* layers of the drivers, which are interchangeable

VARIABLES part, x1, x2, x3, x4, x5, x6, x7, x8, x9, x10, x11, x12, x13, x14, x15,
          x16, x17, x18, x19, x20, x21, x22, x23

Parts == {"locker", "drivers", "diff", "pull", "ids", "pipe", "files", "rec", "ns", "helper", "open"}

Symmetric == Permutations(DriverLayer)

\* An image with a directory and a file in it.
MCPath == {<<1>>, <<1, 1>>, <<1, 1, 1>>, <<1, 2>>}
MCBase == (<<1>> :> "dir") @@ (<<1, 1>> :> "dir") @@ (<<1, 2>> :> "file")

\* Lines of /etc/subuid: ranges that touch, an empty one, one of another user, one with an error.
MCLines ==
    {[owner |-> "user", Start |-> r[1], Length |-> r[2]] : r \in {<<1, 2>>, <<2, 3>>, <<6, 0>>}}
    \cup {[owner |-> "other", Start |-> 1, Length |-> 4], [owner |-> "malformed", Start |-> 1, Length |-> 1]}

\* Two processes, the first with two goroutines.
MCProcOf == "g1" :> "p1" @@ "g2" :> "p1" @@ "g3" :> "p2"

\* No subordinate IDs, or two ranges of them; a parent that itself runs in a namespace.
MCSubIDs == {<<>>, <<[host |-> 100, size |-> 3], [host |-> 200, size |-> 2]>>}
MCHostMap == <<[container |-> 0, host |-> 0, size |-> 10]>>

Driver == INSTANCE Drivers
        WITH Kind <- {"vfs", "btrfs", "zfs", "aufs"}, Id <- DriverLayer, Token <- {"t"},
             MaxOps <- 6, MaxFaults <- 2, MaxMounts <- 2,
             kind <- x1, recorded <- x2, parentOf <- x3, data <- x4, origin <- x5, quotas <- x6, layers <- x7,
             mnt <- x8, removing <- x9, held <- x10, path <- x11, mounted <- x12, cache <- x13,
             pathCache <- x14, count <- x15, reading <- x16, should <- x17, damaged <- x18,
             leftover <- x19, misled <- x20, adrift <- x21, ops <- x22, faults <- x23

Diff == INSTANCE LayerDiff
        WITH Path <- MCPath, Base <- MCBase, Differ <- {"native", "naive"}, Scratch <- {"native"},
             MaxWrites <- 4, MaxLayers <- 3,
             differ <- x1, lower <- x2, upper <- x3, plain <- x4, should <- x5, now <- x6, writes
             <- x7

Pull == INSTANCE Chunked
        WITH Format <- {"zstd", "estargz"}, MaxEntries <- 3, MaxContent <- 2, MaxChunks <- 2, MinRequest <- 2,
             MaxFaults <- 1, MaxRefusals <- 2,
             tar <- x1, format <- x2, blob <- x3, hardLinks <- x4, hostDedup <- x5, source <- x6,
             toc <- x7, dest <- x8, missing <- x9, request <- x10, pc <- x11, at <- x12,
             refusals <- x13, faults <- x14, was <- x15, idRemap <- x16

IDs == INSTANCE UserNS
        WITH Container <- {"c1", "c2"}, Lines <- MCLines, MaxID <- 8, MaxSize <- 4,
             AutoNsMinSize <- 2, AutoNsMaxSize <- 3, MaxEdits <- 1,
             rootless <- x1, subids <- x2, additional <- x3, map <- x4, asked <- x5, edits <- x6

Pipe == INSTANCE BytesPipe
        WITH Reader <- {"r1", "r2"}, MinCap <- 1, MaxCap <- 3, BlockThreshold <- 3,
             MaxWrite <- 5, MaxRead <- 2, MaxBytes <- 7,
             buf <- x1, bufLen <- x2, closed <- x3, mu <- x4, writer <- x5, reader <- x6, written
             <- x7, got <- x8

Files == INSTANCE FSWriters
        WITH Writer <- {"w1", "w2"}, SetFile <- {"f1", "f2"}, Size <- 2, MaxDeaths <- 1,
             noSync <- x1, pc <- x2, tmp <- x3, writeErr <- x4, target <- x5, recent <- x6, root
             <- x7, committed <- x8, deaths <- x9, power <- x10

Rec == INSTANCE Lockfile
        WITH Proc <- {"p1", "p2"}, Goroutine <- {"g1", "g2", "g3"}, ProcOf <- MCProcOf,
             Method <- {"Lock", "RecursiveLock"}, MaxDepth <- 2, MaxCalls <- 2,
             pc <- x1, mode <- x2, depth <- x3, calls <- x4, rwReaders <- x5, rwWriter <- x6,
             stateMutex <- x7, counter <- x8, locktype <- x9, locked <- x10,
             recursive <- x11, fileLock <- x12

Ns == INSTANCE Unshare
        WITH SubIDs <- MCSubIDs, HostMap <- MCHostMap,
             cmd <- x1, parent <- x2, child <- x3, pidEnds <- x4, pidText <- x5, continue <- x6,
             setgroups <- x7, gidMap <- x8, uidMap <- x9, faults <- x10

Helper == INSTANCE Reexec
        WITH Chunks <- 3, MaxOpt <- 2, Kinds <- {"untar", "applyLayer", "tar", "mountfrom", "chown"},
             kind <- x1, decompress <- x2, parent <- x3, helper <- x4, optLeft <- x5, opt <- x6,
             src <- x7, srcErr <- x8, p1 <- x9, open1 <- x10, copier <- x11, p2 <-
             x12, got <- x13, reader <- x14, root <- x15

Open == INSTANCE StoreOpen
        WITH Names <- {"", "overlay", "overlay2", "devicemapper"}, Additional <- 2, MaxCalls <- 4,
             dirs <- x1, used <- x2, cache <- x3, sup <- x4, stores <- x5, opened <- x6, last <-
             x7, calls <- x8

-----------------------------------------------------------------------------
\* The variables from the n-th on are not needed.
From17 == x17 = 0 /\ x18 = 0 /\ x19 = 0 /\ x20 = 0 /\ x21 = 0 /\ x22 = 0 /\ x23 = 0
From16 == x16 = 0 /\ From17
From13 == x13 = 0 /\ x14 = 0 /\ x15 = 0 /\ From16
From11 == x11 = 0 /\ x12 = 0 /\ From13
From9 == x9 = 0 /\ x10 = 0 /\ From11
From8 == x8 = 0 /\ From9
From7 == x7 = 0 /\ From8
From1 == x1 = 0 /\ x2 = 0 /\ x3 = 0 /\ x4 = 0 /\ x5 = 0 /\ x6 = 0 /\ From7

\* The formats differ in where chunks end, which does not meet owners and hard links: estargz
\* without them.
PlainEstargz == x2 = "estargz" => ~x4 /\ ~x16

InitLibraries ==
    /\ Init
    /\ part \in Parts
    /\ part # "locker" => name = [g \in Goroutine |-> CHOOSE n \in Name : TRUE]
    /\ \/ part = "locker" /\ From1
       \/ part = "drivers" /\ Driver!Init
       \/ part = "diff" /\ Diff!Init /\ From8
       \/ part = "pull" /\ Pull!Init /\ PlainEstargz /\ From17
       \/ part = "ids" /\ IDs!Init /\ From7
       \/ part = "pipe" /\ Pipe!Init /\ From9
       \/ part = "files" /\ Files!Init /\ From11
       \/ part = "rec" /\ Rec!Init /\ From13
       \/ part = "ns" /\ Ns!Init /\ From11
       \/ part = "helper" /\ Helper!Init /\ From16
       \/ part = "open" /\ Open!Init /\ From9

\* The variables from the n-th on.
last17 == <<x17, x18, x19, x20, x21, x22, x23>>
last16 == <<x16, last17>>
last13 == <<x13, x14, x15, last16>>
last11 == <<x11, x12, last13>>
last9 == <<x9, x10, last11>>
last8 == <<x8, last9>>
last7 == <<x7, last8>>
all == <<x1, x2, x3, x4, x5, x6, last7>>

\* A step of the behaviour's own component.
LockerStep == part = "locker" /\ Next /\ UNCHANGED <<part, all>>
DriverStep == part = "drivers" /\ Driver!Next /\ UNCHANGED <<part, vars>>
DiffStep == part = "diff" /\ Diff!Next /\ UNCHANGED <<part, vars, last8>>
PullStep == part = "pull" /\ Pull!Next /\ UNCHANGED <<part, vars, last17>>
IDsStep == part = "ids" /\ IDs!Next /\ UNCHANGED <<part, vars, last7>>
PipeStep == part = "pipe" /\ Pipe!Next /\ UNCHANGED <<part, vars, last9>>
FilesStep == part = "files" /\ Files!Next /\ UNCHANGED <<part, vars, last11>>
RecStep == part = "rec" /\ Rec!Next /\ UNCHANGED <<part, vars, last13>>
NsStep == part = "ns" /\ Ns!Next /\ UNCHANGED <<part, vars, last11>>
HelperStep == part = "helper" /\ Helper!Next /\ UNCHANGED <<part, vars, last16>>
OpenStep == part = "open" /\ Open!Next /\ UNCHANGED <<part, vars, last9>>

NextLibraries ==
    \/ LockerStep \/ DriverStep \/ DiffStep \/ PullStep \/ IDsStep \/ PipeStep \/ FilesStep \/ RecStep
    \/ NsStep \/ HelperStep \/ OpenStep

SpecLibraries == InitLibraries /\ [][NextLibraries]_<<part, vars, all>>

-----------------------------------------------------------------------------
\* A layer that the layer store has recorded shows what was written into it and what was in the
\* layers below it, whether vfs, btrfs, zfs or aufs keeps it, and the driver says that it exists,
\* wherever calls fail and processes die; except for layers whose removal was begun, and, of vfs
\* and aufs, that were created where something was left over (Create, Remove, Exists).
LayersAsWritten == part = "drivers" => Driver!TypeOK /\ Driver!ContentAsWritten /\ Driver!ExistsAgrees

\* A layer is mounted where its users look, except for layers that aufs was misled about or that
\* a process died mounting; and without faults nothing stays mounted or behind without users
\* (Get, Put, RefCounter, layerStore.Mount and Unmount).
MountsAsUsed == part = "drivers" => Driver!MountShows /\ Driver!NothingLeft

\* A committed layer shows what the container showed, in overlay as in plain directories:
\* no change is missed for a time that looks the same, what was deleted stays deleted and what
\* was made again shows nothing of what it was; and the changes that overlay lists leave out
\* nothing (Diff, addChanges, ConvertWrite, UnpackLayer, ConvertRead, OverlayChanges).
CommitsFaithful == part = "diff" => Diff!TypeOK /\ Diff!CommitFaithful /\ Diff!ChangesComplete

\* When chunkedDiffer.ApplyDiff returns no error, every entry is there with the content and the
\* attributes that the layer has for it, wherever it was taken from, and the files that it was
\* taken from have kept theirs; however chunks are merged, each part of a request has its files
\* one after the other; and ApplyDiff fails only for a cause from outside.  Devices and fifos are
\* not made, symbolic links are given no attributes, and a file of another layer that has not
\* the attributes of that layer's manifest is linked for what the manifest says.
PullsFaithful ==
    part = "pull" =>
        Pull!TypeOK /\ Pull!AppliedFaithful /\ Pull!OthersUntouched /\ Pull!MergeSound /\ Pull!FailsForACause

\* No two containers share an ID of the host that getAutoUserNS chose for them; the IDs are
\* among those granted to the user; each namespace has all the IDs below its size, each mapped
\* to one that is mapped back to it; and the arithmetic on intervals below this does what the set
\* library takes it to do (zip, toHost, toContainer, idSet, IsContiguous).
MappingsSound ==
    part = "ids" =>
        IDs!TypeOK /\ IDs!IntervalsSound /\ IDs!AutoDisjoint /\ IDs!WithinGranted /\ IDs!MapsAll /\ IDs!ContiguousSound

\* What was written to a BytesPipe is what was read and then what is in the buffers, in
\* order; a reader that is told of the end has missed nothing; the buffers stay bounded; and
\* nobody waits for what has happened, except a reader for the writer of more than the threshold.
PipeSound ==
    part = "pipe" =>
        Pipe!TypeOK /\ Pipe!Fifo /\ Pipe!EofAtTheEnd /\ Pipe!Bounded /\ Pipe!WriterWoken /\ Pipe!ReaderWokenAfterWrite

\* A file that AtomicFileWriter replaces is always whole, also after a crash, or a power failure
\* unless NoSync is set; a call that fails has replaced nothing and, unless filepath.Abs or
\* os.Remove failed, left nothing; and the files of an AtomicWriteSet are seen together.
FilesWhole == part = "files" => Files!TypeOK /\ Files!Whole /\ Files!FailedHasNoEffect /\ Files!SetTogether

\* With nested RecursiveLock and Lock, writers exclude other processes, no holder runs into a
\* panic of Unlock, and the invariant of the proofs holds.
RecursiveLocks == part = "rec" => Rec!Inv /\ Rec!Exclusion /\ Rec!HolderNeverPanics

\* A child that unshare starts in new namespaces runs only with both ID maps written and all
\* steps of Start done, except after a parent that died or could not read the PID, or when the
\* child cannot read the pipe it waits on; the maps are consecutive; a missing
\* newuidmap or newgidmap is no failure; and neither process waits for the other forever.
NamespacesSetUp ==
    part = "ns" =>
        Ns!TypeOK /\ Ns!RunsMapped /\ Ns!RunsSetUp /\ Ns!FallsBack /\ Ns!MapsConsecutive /\ Ns!NeitherStuck

\* A helper process that unpacks, packs, mounts or changes owners is reported to have succeeded
\* only when all of the stream was read or delivered; it works in its directory only; and
\* whatever fails, neither a decompressor nor the caller is left waiting, except for options
\* larger than a pipe.  (What applyLayer does not read of the caller's own archive stays unread.)
HelpersComplete ==
    part = "helper" =>
        /\ Helper!TypeOK /\ Helper!UnpackComplete /\ Helper!PackComplete
        /\ Helper!ProducerFreed /\ Helper!WorksInside /\ Helper!NobodyStuck

\* Opening a store never chooses a driver that hides layers on disk, gives one store object per
\* driver, works again where it worked before, and returns all additional stores or an
\* error; the exceptions are the layers of names that are not in the list of priorities, the
\* second name of overlay, an answer that overlay is not supported, which is kept as a text,
\* and a list of additional stores that was broken off (GetStore, New, ROLayerStores).
StoresOpenAlike ==
    part = "open" =>
        /\ Open!TypeOK /\ Open!ChoosesPrior /\ Open!OneStorePerDriver /\ Open!KeepsHome
        /\ Open!OpensAgain /\ Open!AdditionalComplete

=============================================================================
