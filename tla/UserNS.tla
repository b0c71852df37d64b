------------------------------ MODULE UserNS ------------------------------
(***************************************************************************)
(* The IDs that containers with automatic user namespaces get: the ranges  *)
(* of /etc/subuid, what of them is free, and the mapping that is made of   *)
(* it (userns.go, idset.go, pkg/idtools).  User and group IDs are handled  *)
(* alike; the model has one kind.                                          *)
(*                                                                         *)
(* An interval is [start, end).  A set of IDs is kept as its intervals, in *)
(* order, as the interval set of the code keeps it.                        *)
(***************************************************************************)
EXTENDS Integers, Sequences, FiniteSets, SequencesExt

CONSTANTS
    Container, None,
    Lines,           \* of /etc/subuid: whose it is, the start and the length of the range
    MaxID,           \* the IDs of the host are below
    MaxSize,         \* of a namespace
    AutoNsMinSize, AutoNsMaxSize,
    MaxEdits         \* of /etc/subuid

VARIABLES
    rootless,
    subids,          \* the lines of /etc/subuid, in any order
    additional,      \* store.additionalUIDs, once it was looked up
    map,             \* per container: its ID map, or None
    asked,           \* per container: what it was created with
    edits

vars == <<rootless, subids, additional, map, asked, edits>>

-----------------------------------------------------------------------------
(* Intervals. *)
minInt(a, b) == IF a < b THEN a ELSE b
maxInt(a, b) == IF a < b THEN b ELSE a
length(i) == maxInt(0, i.end - i.start)
IsZero(i) == length(i) <= 0
interval(start, end) == [start |-> start, end |-> end]
zero == interval(0, 0)

Intersect(i, j) == interval(maxInt(i.start, j.start), minInt(i.end, j.end))
Before(i, j) == ~IsZero(i) /\ ~IsZero(j) /\ i.end < j.start
Bisect(i, j) ==
    IF IsZero(j) THEN <<i, zero>>
    ELSE <<interval(i.start, minInt(i.end, j.start)), interval(maxInt(i.start, j.end), i.end)>>

adjoinInOrder(i, j) ==
    IF ~IsZero(i) /\ ~IsZero(j) /\ (i.end = j.start \/ j.end = i.start)
    THEN interval(i.start, j.end) ELSE zero

Adjoin(i, j) ==
    IF ~IsZero(i) /\ ~IsZero(j) /\ (i.end = j.start \/ j.end = i.start)
    THEN interval(minInt(i.start, j.start), maxInt(i.end, j.end)) ELSE zero

Encompass(i, j) ==
    IF IsZero(i) THEN j ELSE IF IsZero(j) THEN i
    ELSE interval(minInt(i.start, j.start), maxInt(i.end, j.end))

-----------------------------------------------------------------------------
(* Sets of IDs: their members, and their intervals in order (the interval  *)
(* set of the library).                                                    *)
IDs(intervals) == UNION {i.start..i.end - 1 : i \in ToSet(intervals)}
Intervals(ids) ==
    LET starts == {n \in ids : n - 1 \notin ids}
        End(n) == CHOOSE e \in n..MaxID + MaxSize : e \notin ids /\ \A k \in n..e - 1 : k \in ids
    IN SetToSortSeq({interval(n, End(n)) : n \in starts}, LAMBDA i, j : i.start < j.start)

addUnmerged(intervals) == intervals

newIDSet(intervals) == Intervals(IDs(intervals))

getHostIDs(idMaps) == newIDSet([k \in 1..Len(idMaps) |-> interval(idMaps[k].HostID, idMaps[k].HostID + idMaps[k].Size)])
getContainerIDs(idMaps) ==
    newIDSet([k \in 1..Len(idMaps) |-> interval(idMaps[k].ContainerID, idMaps[k].ContainerID + idMaps[k].Size)])
subtract(s, t) == Intervals(IDs(s) \ IDs(t))
size(s) == SumFunction([k \in 1..Len(s) |-> length(s[k])])

\* findAvailable: the first n IDs, or None.
findAvailable(s, n) ==
    LET take[k \in 0..Len(s)] ==
            IF k = 0 THEN [left |-> n, got |-> <<>>]
            ELSE LET t == take[k - 1]
                     i == interval(s[k].start, minInt(s[k].end, s[k].start + t.left)) IN
                 IF t.left <= 0 THEN t ELSE [left |-> t.left - length(i), got |-> Append(t.got, i)]
    IN IF take[Len(s)].left > 0 THEN None ELSE take[Len(s)].got

\* zip: both are walked at once, in pieces as long as the shorter of the two.
zip(host, container) ==
    LET Head1(s) == IF IsZero(s[1]) THEN Tail(s) ELSE s
        Drop(s, n) == Head1(<<interval(s[1].start + n, s[1].end)>> \o Tail(s))
        step[k \in 0..Len(host) + Len(container)] ==
            IF k = 0 THEN [h |-> host, c |-> container, out |-> <<>>]
            ELSE LET t == step[k - 1] IN
                 IF t.h = <<>> \/ t.c = <<>> THEN t
                 ELSE LET n == minInt(length(t.h[1]), length(t.c[1])) IN
                      [h |-> Drop(t.h, n), c |-> Drop(t.c, n),
                       out |-> Append(t.out, [ContainerID |-> t.c[1].start, HostID |-> t.h[1].start, Size |-> n])]
    IN step[Len(host) + Len(container)].out

-----------------------------------------------------------------------------
(* ID maps. *)
toContainer(hostID, idMap) ==
    LET in == {k \in 1..Len(idMap) : hostID >= idMap[k].HostID /\ hostID <= idMap[k].HostID + idMap[k].Size - 1}
    IN IF in = {} THEN None ELSE LET m == idMap[Min(in)] IN m.ContainerID + (hostID - m.HostID)

toHostInclusive(contID, idMap) ==
    LET in == {k \in 1..Len(idMap) : contID >= idMap[k].ContainerID /\ contID <= idMap[k].ContainerID + idMap[k].Size}
    IN IF in = {} THEN None ELSE LET m == idMap[Min(in)] IN m.HostID + (contID - m.ContainerID)

toHost(contID, idMap) ==
    LET in == {k \in 1..Len(idMap) : contID >= idMap[k].ContainerID
                                     /\ contID <= idMap[k].ContainerID + idMap[k].Size - 1}
    IN IF in = {} THEN None ELSE LET m == idMap[Min(in)] IN m.HostID + (contID - m.ContainerID)

\* createIDMap: the ranges one after the other, the lowest first.
createIDMap(ranges) ==
    LET sorted == SortSeq(ranges, LAMBDA a, b : a.Start < b.Start) IN
    [k \in 1..Len(sorted) |->
        [ContainerID |-> SumFunction([j \in 1..k - 1 |-> sorted[j].Length]),
         HostID |-> sorted[k].Start, Size |-> sorted[k].Length]]

contiguousOnHost(mappings) ==
    LET mh == SortSeq(mappings, LAMBDA a, b : a.HostID < b.HostID) IN
    \A k \in 2..Len(mappings) : mh[k].HostID = mh[k - 1].HostID + mh[k - 1].Size

IsContiguous(mappings) ==
    LET mh == SortSeq(mappings, LAMBDA a, b : a.HostID < b.HostID)
        mc == SortSeq(mappings, LAMBDA a, b : a.ContainerID < b.ContainerID) IN
    \A k \in 2..Len(mappings) : /\ mh[k].HostID = mh[k - 1].HostID + mh[k - 1].Size
                                /\ mc[k].ContainerID = mc[k - 1].ContainerID + mc[k - 1].Size

\* GetRootUIDGID: a map of a single ID is root's, whatever it maps.
GetRootUIDGID(idMap) == IF Len(idMap) = 1 /\ idMap[1].Size = 1 THEN idMap[1].HostID ELSE toHost(0, idMap)

\* parseSubidFile: one line that does not parse spoils the file.
parseSubidFile(file) ==
    IF \E k \in 1..Len(file) : file[k].owner = "malformed" THEN None
    ELSE SelectSeq(file, LAMBDA l : l.owner = "user")

-----------------------------------------------------------------------------
(* The store. *)

\* getAdditionalSubIDs: without a range for the user there is no mapping, and no set.
getAdditionalSubIDs ==
    LET found == parseSubidFile(subids) IN
    IF found \in {None, <<>>} THEN None ELSE getHostIDs(createIDMap(found))

\* getAvailableIDs: looked up once; in a rootless namespace the IDs are numbered from 1.
AdditionalIDs == IF additional = None THEN getAdditionalSubIDs ELSE additional
Granted(ids) == IF ids = None THEN <<>> ELSE ids

availableFromZero ==
    IF rootless THEN newIDSet(<<interval(0, size(Granted(AdditionalIDs)) + 1)>>) ELSE Granted(AdditionalIDs)

getAvailableIDs ==
    IF rootless THEN newIDSet(<<interval(1, size(Granted(AdditionalIDs)) + 1)>>) ELSE Granted(AdditionalIDs)

\* getAutoUserNSIDMappings.  (forgetUsed leaves out what the other containers use.)
forgetUsed(n, available, used, extra) ==
    LET requested == subtract(newIDSet(<<interval(0, n)>>), getContainerIDs(extra))
        found     == findAvailable(subtract(available, getHostIDs(extra)), size(requested))
    IN IF found = None THEN None ELSE zip(found, requested) \o extra

getAutoUserNSIDMappings(n, available, used, extra) ==
    LET requested == subtract(newIDSet(<<interval(0, n)>>), getContainerIDs(extra))
        found     == findAvailable(subtract(available, getHostIDs(used \o extra)), size(requested))
    IN IF found = None THEN None ELSE zip(found, requested) \o extra

\* getAutoUserNS: the size asked for, or the largest of the first size, the least one and what
\* getMaxSizeFromImage returns; None when it is more than is allowed.
Sized(requested, initial, fromImage) ==
    LET n == maxInt(maxInt(IF initial > 0 THEN initial ELSE 1, AutoNsMinSize), fromImage) IN
    IF requested > 0 THEN requested ELSE IF AutoNsMaxSize > 0 /\ n > AutoNsMaxSize THEN None ELSE n

Used == FlattenSeq(SetToSeq({map[c] : c \in {d \in Container : map[d] # None}}))

CreateContainer(c) ==
    /\ map[c] = None
    /\ additional' = AdditionalIDs
    /\ \E requested \in 0..MaxSize, initial \in {0, MaxSize}, fromImage \in 0..MaxSize,
          extra \in {<<>>} \cup {<<[ContainerID |-> 4 - 2 * h, HostID |-> h, Size |-> 1]>> : h \in {1, 2}} :
          LET n == Sized(requested, initial, fromImage)
              m == IF n = None THEN None ELSE getAutoUserNSIDMappings(n, getAvailableIDs, Used, extra) IN
          /\ requested > 0 => initial = 0 /\ fromImage = 0
          /\ map' = [map EXCEPT ![c] = m]
          /\ asked' = [asked EXCEPT ![c] = IF m = None THEN None
                         ELSE [size |-> n, need |-> fromImage, extra |-> extra, from |-> IDs(Granted(AdditionalIDs))]]
    /\ UNCHANGED <<rootless, subids, edits>>

DeleteContainer(c) ==
    /\ map[c] # None
    /\ map' = [map EXCEPT ![c] = None]
    /\ asked' = [asked EXCEPT ![c] = None]
    /\ UNCHANGED <<rootless, subids, additional, edits>>

SubIDs == {<<>>} \cup {<<l>> : l \in Lines} \cup {<<l, k>> : l \in Lines, k \in Lines}

\* A store that runs keeps what it looked up; another process starts with the file as it is.
EditSubIDs ==
    /\ edits < MaxEdits
    /\ edits' = edits + 1
    /\ subids' \in {<<l>> : l \in Lines} \ {subids}
    /\ additional' \in {additional, None}
    /\ UNCHANGED <<rootless, map, asked>>

Init ==
    /\ rootless \in BOOLEAN
    /\ subids \in SubIDs
    /\ additional = None
    /\ map = [c \in Container |-> None]
    /\ asked = [c \in Container |-> None]
    /\ edits = 0

Next == (\E c \in Container : CreateContainer(c) \/ DeleteContainer(c)) \/ EditSubIDs

Spec == Init /\ [][Next]_vars

-----------------------------------------------------------------------------
Auto(c) == SelectSeq(map[c], LAMBDA m : m \notin ToSet(asked[c].extra))
Live == {c \in Container : map[c] # None}

\* The IDs looked up are intervals that are apart and in order, and no entry of a map is empty.
TypeOK ==
    /\ \A c \in Live : \A k \in 1..Len(map[c]) : map[c][k].Size > 0
    /\ LET s == Granted(additional) IN
       /\ \A k \in 1..Len(s) : ~IsZero(s[k])
       /\ \A k \in 2..Len(s) : Before(s[k - 1], s[k])

\* Intersect, Bisect, Adjoin, Encompass and Before do to intervals what the set library takes
\* them to do: the IDs of the result are those of the intersection, the difference,
\* the union; what is before another neither overlaps nor touches it.
IntervalsSound ==
    \A i \in ToSet(Granted(additional)), l \in Lines :
        LET j == interval(l.Start, l.Start + l.Length) IN
        /\ IDs(<<Intersect(i, j)>>) = IDs(<<i>>) \cap IDs(<<j>>)
        /\ IDs(Bisect(i, j)) = IDs(<<i>>) \ IDs(<<j>>)
        /\ ~IsZero(Adjoin(i, j)) => IDs(<<Adjoin(i, j)>>) = IDs(<<i>>) \cup IDs(<<j>>)
        /\ (Before(i, j) \/ Before(j, i)) <=>
              /\ ~IsZero(j)
              /\ IsZero(Adjoin(i, j))
              /\ IDs(<<i>>) \cap IDs(<<j>>) = {}
        /\ IDs(<<i>>) \cup IDs(<<j>>) \subseteq IDs(<<Encompass(i, j)>>)

\* No two containers share an ID of the host that the store chose for them, nor does a
\* container share one with what it was itself given by name (getAutoUserNS).
AutoDisjoint ==
    \A c, d \in Live :
        /\ c # d => IDs(getHostIDs(Auto(c))) \cap IDs(getHostIDs(Auto(d))) = {}
        /\ IDs(getHostIDs(Auto(c))) \cap IDs(getHostIDs(asked[c].extra)) = {}

\* The IDs that the store chooses are granted: they are in the ranges of the user, or, in a
\* rootless namespace, among as many as the ranges have (getAvailableIDs).
WithinGranted ==
    \A c \in Live :
        IDs(getHostIDs(Auto(c))) \subseteq IF rootless THEN 1..Cardinality(asked[c].from) ELSE asked[c].from

\* A namespace has all the IDs below its size, each mapped to one of the host that no other is
\* mapped to and that is mapped back to it (zip, toHost, toContainer).  The size is not less than
\* what getMaxSizeFromImage returned, which has room for the IDs of the image's layers, but of the
\* IDs in /etc/passwd and /etc/group (parseMountedFiles) is the largest, not one more.
MapsAll ==
    \A c \in Live :
        /\ asked[c].need <= asked[c].size
        /\ \A n \in 0..asked[c].size - 1 :
              toHost(n, map[c]) # None /\ toContainer(toHost(n, map[c]), map[c]) = n
        /\ GetRootUIDGID(map[c]) = toHost(0, map[c])

\* IsContiguous tells whether the IDs of the host and those of the container are each one range.
ContiguousSound ==
    \A c \in Live :
        IsContiguous(map[c]) <=> Len(getHostIDs(map[c])) <= 1 /\ Len(getContainerIDs(map[c])) <= 1

=============================================================================
