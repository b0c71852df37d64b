----------------------------- MODULE LayerDiff -----------------------------
(***************************************************************************)
(* From a container's changes to a layer and back: the differences of two  *)
(* trees (pkg/archive), their form as an archive, and what unpacking the   *)
(* archive makes of a tree, for a store of the overlay driver and for one  *)
(* of a driver with plain directories.                                     *)
(*                                                                         *)
(* A container writes into the upper directory of an overlay mount.  Each  *)
(* commit takes the difference between the container and its image, either *)
(* from the upper directory (Driver.Diff of overlay) or by comparing the   *)
(* two trees (NaiveDiffDriver.Diff), and applies it to both stores, where  *)
(* it becomes a new layer.  The two stores must then show what the         *)
(* container showed.                                                       *)
(*                                                                         *)
(* A tree maps paths to nodes.  What is in a file is the instant it was    *)
(* written at; all files have the same size, so that only their times tell *)
(* a change.  Owners, links, extended attributes other than the opaque     *)
(* mark, and devices other than whiteouts are left out.                    *)
(***************************************************************************)
EXTENDS Integers, Sequences, FiniteSets, SequencesExt

CONSTANTS
    Path,        \* sequences of names; every prefix of a path but <<>> is a path
    Differ,      \* "native", "naive"
    Scratch,     \* the ways for which a container may start without an image
    Base,        \* the tree of the image's first layer: a set of directories and files
    None,
    MaxWrites, MaxLayers

VARIABLES
    differ,      \* how this store computes differences: useNaiveDiff
    lower,       \* overlay: the directories of the image's layers, topmost first
    upper,       \* overlay: the container's directory
    plain,       \* the same image in a store with plain directories
    should,      \* what the container showed when it was committed last
    now,         \* the second, and the instant within it
    writes

vars == <<differ, lower, upper, plain, should, now, writes>>

-----------------------------------------------------------------------------
(* Trees. *)
Ancestors(p) == {SubSeq(p, 1, i) : i \in 1..Len(p) - 1}
Below(p) == {q \in Path : p \in Ancestors(q)}
Dir(p) == SubSeq(p, 1, Len(p) - 1)
Empty == [p \in Path |-> None]
IsDir(tree, p) == p = <<>> \/ (p \in Path /\ tree[p] # None /\ tree[p].type = "dir")
IsWhiteOut(tree, p) == tree[p] # None /\ tree[p].type = "whiteout"
RemoveAll(tree, p) == [q \in Path |-> IF q = p \/ q \in Below(p) THEN None ELSE tree[q]]

dir(mode, time, opaque) == [type |-> "dir", mode |-> mode, time |-> time, opaque |-> opaque]
file(mode, data, time) == [type |-> "file", mode |-> mode, data |-> data, time |-> time]
whiteout == [type |-> "whiteout"]

\* The order of filepath.Walk, and of sort.Sort on changesByPath.
Before(p, q) ==
    \/ p \in Ancestors(q)
    \/ \E i \in 1..Len(p) : i <= Len(q) /\ SubSeq(p, 1, i - 1) = SubSeq(q, 1, i - 1) /\ p[i] < q[i]
InOrder(paths) == SetToSortSeq(paths, Before)

\* What the kernel shows of a directory over a tree, and of a stack of them.
Hidden(above, p) ==
    \E q \in Ancestors(p) : above[q] # None /\ (above[q].type # "dir" \/ above[q].opaque)
Over(above, below) ==
    [p \in Path |->
        IF above[p] = None THEN IF Hidden(above, p) THEN None ELSE below[p]
        ELSE IF above[p].type = "whiteout" THEN None
        ELSE IF above[p].type = "dir" THEN [above[p] EXCEPT !.opaque = FALSE] ELSE above[p]]
Merged(layers) ==
    LET from[i \in 1..Len(layers) + 1] == IF i > Len(layers) THEN Empty ELSE Over(layers[i], from[i + 1])
    IN from[1]
View == Over(upper, Merged(lower))

\* Two trees that a program could not tell apart.
Content(tree) ==
    [p \in Path |-> IF tree[p] = None THEN None
                    ELSE IF tree[p].type = "dir" THEN <<"dir", tree[p].mode>>
                    ELSE <<tree[p].type, tree[p].mode, tree[p].data>>]

-----------------------------------------------------------------------------
(* The changes between two trees: ChangesDirs. *)

\* Archives keep times in seconds: a time without a part of a second may be any in it.
sameFsTimeSpec(a, b) == a[1] = b[1] /\ (a[2] = b[2] \/ a[2] = 0 \/ b[2] = 0)

statDifferent(old, new) ==
    \/ old.type # new.type
    \/ old.mode # new.mode
    \/ old.type # "dir" /\ ~sameFsTimeSpec(old.time, new.time)

\* The names in a directory, and the paths that the walk of both trees meets: it leaves out
\* what is the same inode of the same device in both, which nothing is here.
readdirnames(tree, d) == {p \in Path : Dir(p) = d /\ tree[p] # None}
walk(old, new) == {p \in Path : p \in readdirnames(old, Dir(p)) \cup readdirnames(new, Dir(p))}

Added(old, new) == {p \in walk(old, new) : old[p] = None}
Modified(old, new) == {p \in walk(old, new) : old[p] # None /\ new[p] # None /\ statDifferent(old[p], new[p])}
\* Of a directory that is gone only the directory is listed, and nothing of one that is
\* a file now.
Deleted(old, new) == {p \in walk(old, new) : new[p] = None /\ IsDir(new, Dir(p))}

changesOnly(old, new) ==
    [add |-> Added(old, new), modify |-> Modified(old, new), delete |-> Deleted(old, new)]

addChanges(old, new) ==
    LET changed == Added(old, new) \cup Modified(old, new) \cup Deleted(old, new)
        around  == {p \in Path : IsDir(new, p) /\ p \notin changed /\ changed \cap Below(p) # {}}
    IN [add |-> Added(old, new), modify |-> Modified(old, new) \cup around, delete |-> Deleted(old, new)]

-----------------------------------------------------------------------------
(* Archives: sequences of entries. *)
Truncated(time) == <<time[1], 0>>
Entry(p, n) ==
    [path |-> p, kind |-> n.type,
     node |-> IF n.type = "whiteout" THEN n ELSE [n EXCEPT !.time = Truncated(@)]]
WhiteoutEntry(p) == [path |-> p, kind |-> "whiteout", node |-> whiteout]
OpaqueEntry(p) == [path |-> p, kind |-> "opaque", node |-> whiteout]

\* ExportChanges: whiteouts for what is deleted, and the files of the tree.
ExportChanges(new, changes) ==
    LET order == InOrder(changes.add \cup changes.modify \cup changes.delete) IN
    [i \in 1..Len(order) |-> IF order[i] \in changes.delete THEN WhiteoutEntry(order[i])
                             ELSE Entry(order[i], new[order[i]])]

\* ConvertWrite, for an opaque directory: whether a layer below has something of that
\* name, which was deleted then.  A whiteout of it, or of a directory around it, ends
\* the search.
LowerHas(layers, p) ==
    \E i \in 1..Len(layers) :
        /\ layers[i][p] # None /\ ~IsWhiteOut(layers[i], p)
        /\ \A j \in 1..i - 1 : \A q \in Ancestors(p) \cup {p} : ~IsWhiteOut(layers[j], q)

ConvertWrite(layers, tree, p) ==
    IF tree[p].type = "dir" /\ tree[p].opaque /\ LowerHas(layers, p)
    THEN <<Entry(p, tree[p]), OpaqueEntry(p)>>
    ELSE <<Entry(p, tree[p])>>

\* TarWithOptions of a directory of overlay.
TarWithOptions(layers, tree) ==
    LET order == InOrder({p \in Path : tree[p] # None}) IN
    FlattenSeq([i \in 1..Len(order) |-> ConvertWrite(layers, tree, order[i])])

-----------------------------------------------------------------------------
(* Unpacking.  An archive that cannot be unpacked yields None. *)

\* The directory around an entry is made if it is missing.
MkdirAll(tree, p) ==
    [q \in Path |-> IF q \in Ancestors(p) /\ tree[q] = None THEN dir(0, <<0, 0>>, FALSE) ELSE tree[q]]

\* createTarFile, after what was there is removed, unless both are directories.
createTarFile(tree, e) ==
    LET p == e.path IN
    IF e.kind = "dir"
    THEN LET opaque == IsDir(tree, p) /\ tree[p].opaque IN
         [IF IsDir(tree, p) THEN tree ELSE RemoveAll(tree, p)
            EXCEPT ![p] = dir(e.node.mode, e.node.time, opaque)]
    ELSE [RemoveAll(tree, p) EXCEPT ![p] = e.node]

\* UnpackLayer: a whiteout removes, an opaque mark removes what this archive did not unpack.
UnpackEntry(s, e) ==
    LET p    == e.path
        tree == MkdirAll(s.tree, p) IN
    CASE s.tree = None -> s
      [] e.kind = "whiteout" -> [s EXCEPT !.tree = RemoveAll(tree, p)]
      [] e.kind = "opaque" /\ tree[p] = None -> [s EXCEPT !.tree = None]
      [] e.kind = "opaque" /\ tree[p] # None ->
            [s EXCEPT !.tree = [q \in Path |->
                IF q \in Below(p) /\ \E r \in (Ancestors(q) \cup {q}) \cap Below(p) : r \notin s.unpacked
                THEN None ELSE tree[q]]]
      [] OTHER -> [tree |-> createTarFile(tree, e), unpacked |-> s.unpacked \cup {p}]

UnpackLayer(dest, archive) ==
    LET s[i \in 0..Len(archive)] ==
            IF i = 0 THEN [tree |-> dest, unpacked |-> {}] ELSE UnpackEntry(s[i - 1], archive[i])
    IN s[Len(archive)].tree

\* ConvertRead: a whiteout becomes a device, unless the directory around it is one, and
\* an opaque mark an attribute of its directory.
ConvertRead(tree, e) ==
    LET p == e.path IN
    IF e.kind = "opaque" THEN IF IsDir(tree, p) THEN [tree EXCEPT ![p].opaque = TRUE] ELSE None
    ELSE IF \E q \in Ancestors(p) : tree[q] # None /\ ~IsDir(tree, q) THEN tree
    ELSE IF tree[p] # None THEN None
    ELSE [tree EXCEPT ![p] = whiteout]

\* Unpack, with the whiteouts of overlay.
Unpack(archive) ==
    LET tree[i \in 0..Len(archive)] ==
            IF i = 0 THEN Empty
            ELSE IF tree[i - 1] = None THEN None
            ELSE LET e == archive[i]
                     t == MkdirAll(tree[i - 1], e.path) IN
                 IF e.kind \in {"whiteout", "opaque"} THEN ConvertRead(t, e) ELSE createTarFile(t, e)
    IN tree[Len(archive)]

-----------------------------------------------------------------------------
(* The changes in a directory of overlay: OverlayChanges. *)

overlayDeletedFileNotOpaque(layers, tree, p) == IsWhiteOut(tree, p)

overlayDeletedFile(layers, tree, p) ==
    IsWhiteOut(tree, p) \/ (IsDir(tree, p) /\ tree[p].opaque /\ LowerHas(layers, p))

overlayLowerContainsWhiteout(layer, p) == \E q \in Ancestors(p) \cup {p} : IsWhiteOut(layer, q)

sameFsTime(a, b) == sameFsTimeSpec(a, b)

\* What the scan of the layers finds of an item: a whiteout, a file where a directory on
\* the way should be, which os.Stat reports as an error of another kind, or the item.
LayerScan(layers, tree, p) ==
    LET Seen(i) ==
            CASE overlayLowerContainsWhiteout(layers[i], p) -> "add"
              [] layers[i][p] # None ->
                    IF IsDir(layers[i], p) /\ IsDir(tree, p) /\ layers[i][p].mode = tree[p].mode
                       /\ sameFsTime(layers[i][p].time, tree[p].time)
                    THEN "same" ELSE "modify"
              [] \E q \in Ancestors(p) : layers[i][q] # None /\ ~IsDir(layers[i], q) -> "error"
              [] OTHER -> "next"
        from[i \in 1..Len(layers) + 1] ==
            IF i > Len(layers) THEN "add" ELSE IF Seen(i) # "next" THEN Seen(i) ELSE from[i + 1]
    IN from[1]

OverlayChanges(layers, tree) ==
    LET items    == {p \in Path : tree[p] # None}
        Kind(p)  == IF overlayDeletedFile(layers, tree, p) THEN "delete" ELSE LayerScan(layers, tree, p)
        recorded == {<<p, Kind(p)>> : p \in {q \in items : Kind(q) # "same"}}
        around   == UNION {Ancestors(c[1]) : c \in {d \in recorded : d[2] \in {"add", "delete"}}}
    IN IF \E p \in items : Kind(p) = "error" THEN None
       ELSE recorded \cup {<<q, "modify">> : q \in {r \in around : Kind(r) = "same"}}

-----------------------------------------------------------------------------
(* The container, through the overlay file system of the kernel. *)
Tick == now' = <<now[1], now[2] + 1>>

\* The directories around a changed item are copied up.
CopyUp(p) == [q \in Path |-> IF q \in Ancestors(p) /\ upper[q] = None THEN View[q] ELSE upper[q]]
\* ... and the one that it is in has a new entry, or one less.
Touched(tree, p) == IF Dir(p) = <<>> THEN tree ELSE [tree EXCEPT ![Dir(p)].time = now]

Writing ==
    /\ writes < MaxWrites
    /\ writes' = writes + 1
    /\ Tick
    /\ UNCHANGED <<differ, lower, plain, should>>

WriteFile(p) ==
    /\ IsDir(View, Dir(p))
    /\ View[p] = None
    /\ Writing
    /\ upper' = [Touched(CopyUp(p), p) EXCEPT ![p] = file(1, now, now)]

Overwrite(p) ==
    /\ View[p] # None /\ View[p].type = "file"
    /\ Writing
    /\ upper' = [CopyUp(p) EXCEPT ![p] = file(View[p].mode, now, now)]

\* A directory over a whiteout is opaque, and others may be.
Mkdir(p) ==
    /\ IsDir(View, Dir(p))
    /\ View[p] = None
    /\ \E opaque \in BOOLEAN :
          /\ IsWhiteOut(upper, p) => opaque
          /\ upper' = [Touched(CopyUp(p), p) EXCEPT ![p] = dir(1, now, opaque)]
    /\ Writing

\* The mode changes and the times stay.
Chmod(p) ==
    /\ View[p] # None
    /\ Writing
    /\ upper' = [CopyUp(p) EXCEPT ![p] = [(IF upper[p] = None THEN View[p] ELSE upper[p])
                                            EXCEPT !.mode = 3 - @]]

\* A whiteout stays where a layer below has something to hide.
Delete(p) ==
    /\ View[p] # None
    /\ \A q \in Below(p) : View[q] = None
    /\ Writing
    /\ LET hides == ~Hidden(upper, p) /\ Merged(lower)[p] # None IN
       upper' = [RemoveAll(Touched(CopyUp(p), p), p) EXCEPT ![p] = IF hides THEN whiteout ELSE None]

-----------------------------------------------------------------------------
(* The layer. *)

\* NaiveDiffDriver.Diff: without a parent it archives all.
NaiveDiff ==
    IF lower = <<>> THEN TarWithOptions(<<>>, View)
    ELSE ExportChanges(View, addChanges(Merged(lower), View))

useNaiveDiff == differ = "naive"

\* Driver.Diff of overlay: the container's directory is the difference.
Diff == IF useNaiveDiff THEN NaiveDiff ELSE TarWithOptions(lower, upper)

\* DirCopy: a layer with plain directories begins as a copy of its parent.
DirCopy(src) ==
    [p \in Path |-> IF src[p] = None THEN None
                    ELSE IF src[p].type = "dir" THEN dir(src[p].mode, src[p].time, src[p].opaque)
                    ELSE file(src[p].mode, src[p].data, src[p].time)]

\* Driver.ApplyDiff of overlay, into the directory of a new layer, and
\* NaiveDiffDriver.ApplyDiff, into the mounted layer.
ApplyDiff(diff) == lower' = <<Unpack(diff)>> \o lower
NaiveApplyDiff(diff) == plain' = UnpackLayer(DirCopy(plain), diff)

\* Closing a naive difference sleeps to the end of the second that it began in, if there is
\* a parent.
closeAtOnce(s) == s

Close(s) == IF useNaiveDiff /\ lower # <<>> THEN <<s[1] + 1, 1>> ELSE s

Commit ==
    /\ Len(lower) < MaxLayers
    /\ View # Merged(lower)
    /\ ApplyDiff(Diff)
    /\ NaiveApplyDiff(Diff)
    /\ should' = View
    /\ upper' = Empty
    /\ now' = Close(now)
    /\ UNCHANGED <<differ, writes>>

-----------------------------------------------------------------------------
BaseLayer == [p \in Path |-> IF p \notin DOMAIN Base THEN None
                             ELSE IF Base[p] = "dir" THEN dir(1, <<0, 0>>, FALSE)
                             ELSE file(1, <<0, 0>>, <<0, 0>>)]

Init ==
    /\ differ \in Differ
    /\ \/ lower = <<BaseLayer>> /\ plain = BaseLayer
       \/ differ \in Scratch /\ lower = <<>> /\ plain = Empty
    /\ upper = Empty
    /\ should = plain
    /\ now = <<1, 1>>
    /\ writes = 0

Next ==
    \/ \E p \in Path : WriteFile(p) \/ Overwrite(p) \/ Mkdir(p) \/ Chmod(p) \/ Delete(p)
    \/ Commit

Spec == Init /\ [][Next]_vars

-----------------------------------------------------------------------------
IsTree(tree) ==
    /\ DOMAIN tree = Path
    /\ \A p \in Path : tree[p] # None =>
          /\ tree[p].type \in {"dir", "file", "whiteout"}
          /\ tree[p].type # "whiteout" => tree[p].mode \in 1..2
          /\ IsDir(tree, Dir(p))

\* Every tree is one: what unpacking an archive leaves in a directory of either store is in
\* directories, which have the modes that the archive gives them.
TypeOK ==
    /\ differ \in Differ
    /\ \A i \in 1..Len(lower) : lower[i] # None /\ IsTree(lower[i])
    /\ IsTree(upper)
    /\ plain # None /\ IsTree(plain)
    /\ IsTree(should)
    /\ now \in Nat \X Nat
    /\ writes \in 0..MaxWrites

\* A committed layer shows what the container showed, in the store it was committed to and in
\* the one with plain directories: no change is missed for a time or a mode that
\* looks the same, what was deleted stays deleted, what was deleted and made again shows
\* nothing of what it was, and nothing else goes (Diff, addChanges, ConvertWrite,
\* UnpackLayer, ConvertRead).
CommitFaithful ==
    /\ Content(Merged(lower)) = Content(should)
    /\ Content(plain) = Content(should)

\* The changes that overlay lists of a container leave out nothing: an item that is new,
\* gone or different is listed, or is in a directory that is listed as deleted
\* or that is a file now; a new directory may be taken for one of a layer below that an
\* opaque directory hides, if they are of the same second (OverlayChanges).  There may be no list:
\* OverlayChanges fails when a lower layer has a file where it looks below a directory (os.Stat says
\* ENOTDIR, changes.go:210-213).
ChangesComplete ==
    LET changes == OverlayChanges(lower, upper)
        old     == Content(Merged(lower))
        new     == Content(View) IN
    changes # None =>
        \A p \in Path : old[p] # new[p] =>
            \/ \E c \in changes : c[1] = p
            \/ \E c \in changes : c[1] \in Ancestors(p) /\ (c[2] = "delete" \/ ~IsDir(View, c[1]))
            \/ old[p] = None /\ IsDir(View, p) /\ LowerHas(lower, p)

=============================================================================
