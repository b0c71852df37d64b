------------------------- MODULE LayerStoreProofs --------------------------
(***************************************************************************)
(* The inductive invariant of LayerStore, for processes with one goroutine *)
(* each, the proof that every step preserves it, and what follows.         *)
(***************************************************************************)
EXTENDS LayerStore, TLAPS

\* Every process calls its store from one goroutine.
OneGoroutine == \A c, d \in Client : ProcOf[c] = ProcOf[d] => c = d

\* The steps at which the writer's copy may differ from the file, because Load's loop, Put or
\* Delete has changed it; the steps of Put and Delete that are about one layer; and, with
\* these, the steps at which a client has the write lock.
Saving == {"loop", "saveLoop", "saveIncomplete", "saveComplete", "saveRemoved"}
PutSteps == {"saveIncomplete", "apply", "saveDigests", "complete", "saveComplete", "undo",
             "remove", "saveRemoved"}
Writing == PutSteps \cup {"loop", "saveLoop"}

\* The layerStore that a client's call works with, or else the one its next call will get.
Current(c) == IF rlstore[c] # None THEN rlstore[c] ELSE layerStore[ProcOf[c]]

\* No two processes share a layerStore.
ObjectInv ==
    /\ \A c \in Client : rlstore[c] = None <=> pc[c] = "idle"
    /\ \A c, d \in Client : Current(c) = Current(d) /\ Current(c) # None => c = d
    /\ \A c \in Client : rlstore[c] # None => layerStore[ProcOf[c]] \in {None, rlstore[c]}

\* Who holds layers.lock, and that whoever has been through ReloadIfChanged knows its last writer.
LockAt(c) ==
    /\ pc[c] \in {"idle", "graphLock", "lock"} => c \notin readers \cup writers
    /\ pc[c] \in {"reload", "ready", "return"} => c \in readers \cup writers
    /\ pc[c] \in Writing => c \in writers
    /\ c \in readers => call[c] = "Get"
    /\ c \in readers \cup writers /\ pc[c] # "reload" => ProcOf[c] \in lw

LockInv ==
    /\ \A c \in writers : writers = {c} /\ readers = {}
    /\ \A c \in Client : LockAt(c)

LayerInv == \A c \in Client : pc[c] \in PutSteps => layer[c] \in Layer

\* No two records have one ID.
Unique(s) == \A j, k \in DOMAIN s : s[j].id = s[k].id => j = k

ListInv == Unique(file) /\ \A o \in Object : Unique(layers[o])

StateInv == TypeOK /\ ObjectInv /\ LockInv /\ LayerInv /\ ListInv

\* Load's loop works on the file's records, and its array begins with the copy.
LoopAt(c) ==
    /\ pc[c] = "load" /\ c \in readers \cup writers => layers[rlstore[c]] = file
    /\ pc[c] = "loop" =>
          /\ loop[c].i >= 1 /\ loop[c].len <= Len(loop[c].array)
          /\ Range(loop[c].array) \subseteq Range(file)
          /\ layers[rlstore[c]] = SubSeq(loop[c].array, 1, loop[c].len)
          /\ ~loop[c].shouldSave => layers[rlstore[c]] = file

\* Who knows the last writer has what it wrote.
FreshAt(c) ==
    "write" \notin happened /\ ProcOf[c] \in lw /\ pc[c] \notin Saving /\ Current(c) # None =>
        layers[Current(c)] = file

\* What is about to be saved has all complete layers of the file but the one that Delete removes.
KeptAt(c) ==
    "write" \notin happened /\ pc[c] \in Saving =>
        \A r \in Range(file) :
            ~r.incomplete => r.id \in ids(layers[rlstore[c]]) \/ (pc[c] = "saveRemoved" /\ layer[c] = r.id)

\* Put's layer is marked until it is complete, and not recorded any more when it is undone.
PutAt(c) ==
    /\ pc[c] \in {"saveIncomplete", "apply"} => data[layer[c]] # "none"
    /\ "write" \notin happened =>
          /\ pc[c] = "saveIncomplete" => layer[c] \in Incomplete(layers[rlstore[c]])
          /\ pc[c] \in {"apply", "saveDigests", "complete"} => layer[c] \in Incomplete(file)
          /\ pc[c] = "undo" => layer[c] \notin ids(file)

\* Complete records have contents, in the file and in what is about to be saved.
FullIn(s) == \A r \in Range(s) : r.incomplete \/ data[r.id] = "full"

DataAt(c) ==
    happened \cap {"write", "halfDeleted"} = {} =>
        /\ pc[c] \in Saving => FullIn(layers[rlstore[c]])
        /\ pc[c] \in {"saveDigests", "complete"} => data[layer[c]] = "full"

\* Parents are recorded, and complete.
ParentsIn(s) ==
    \A r \in Range(s) : r.parent = None \/ \E q \in Range(s) : q.id = r.parent /\ ~q.incomplete

ParentAt(c) ==
    happened \cap {"write", "builtOnIncomplete"} = {} =>
        /\ pc[c] \in Saving => ParentsIn(layers[rlstore[c]])
        /\ pc[c] = "remove" => \A r \in Range(file) : r.parent # layer[c]

ParentInv == happened \cap {"write", "builtOnIncomplete"} = {} => ParentsIn(file)

\* What the driver has is recorded, or being made or removed by a Put.
Making(c, l) == pc[c] \in {"saveIncomplete", "saveComplete", "undo"} /\ layer[c] = l

CoverAt(c) ==
    happened \subseteq {"apply", "write"} /\ ProcOf[c] \in lw /\ Current(c) # None =>
        \A l \in Layer : data[l] # "none" =>
            \/ l \in ids(layers[Current(c)])
            \/ \E d \in Client : Making(d, l) /\ (d # c \/ pc[d] = "undo")

CoverInv ==
    happened \subseteq {"apply", "write"} =>
        \A l \in Layer : data[l] # "none" => l \in ids(file) \/ \E d \in Client : Making(d, l)

ClientAt(c) == LoopAt(c) /\ FreshAt(c) /\ KeptAt(c) /\ PutAt(c) /\ DataAt(c) /\ ParentAt(c) /\ CoverAt(c)

IInv ==
    /\ StateInv
    /\ CompleteLayersHaveData /\ ParentInv /\ CoverInv
    /\ \A c \in Client : ClientAt(c)

-----------------------------------------------------------------------------
(* The lists of records. *)

LEMMA RangeFacts ==
  ASSUME NEW s \in Seq(Record)
  PROVE  /\ DOMAIN s = 1..Len(s) /\ Len(s) \in Nat
         /\ \A k \in 1..Len(s) : s[k] \in Range(s)
         /\ \A r \in Range(s) : r \in Record /\ \E k \in 1..Len(s) : s[k] = r
  BY DEF Range

LEMMA RecordFacts ==
  ASSUME NEW r \in Record
  PROVE  r.id \in Layer /\ r.parent \in Layer \cup {None} /\ r.incomplete \in BOOLEAN
  BY DEF Record

LEMMA InIds == \A s, l : l \in ids(s) <=> \E r \in Range(s) : r.id = l
  BY Zenon DEF ids

LEMMA InIncomplete == \A s, l : l \in Incomplete(s) <=> \E r \in Range(s) : r.id = l /\ r.incomplete
  BY Zenon DEF Incomplete

\* IDs tell records apart.
LEMMA UniqueRecords ==
  ASSUME NEW s \in Seq(Record), Unique(s)
  PROVE  \A r, q \in Range(s) : r.id = q.id => r = q
  BY RangeFacts DEF Unique

LEMMA AppendFacts ==
  ASSUME NEW s \in Seq(Record), NEW r \in Record
  PROVE  /\ Append(s, r) \in Seq(Record)
         /\ Range(Append(s, r)) = Range(s) \cup {r}
         /\ Unique(s) /\ r.id \notin ids(s) => Unique(Append(s, r))
  <1> DEFINE t == Append(s, r)
  <1>1. t \in Seq(Record) /\ Len(t) = Len(s) + 1 /\ t[Len(s) + 1] = r /\ \A k \in 1..Len(s) : t[k] = s[k]
    OBVIOUS
  <1> HIDE DEF t
  <1>2. DOMAIN s = 1..Len(s) /\ DOMAIN t = 1..Len(t) /\ Len(s) \in Nat
    BY <1>1
  <1>3. Range(t) = Range(s) \cup {r}
    BY <1>1, <1>2 DEF Range
  <1>4. ASSUME Unique(s), r.id \notin ids(s) PROVE Unique(t)
    <2>1. \A k \in 1..Len(s) : s[k].id # r.id
      BY <1>2, <1>4, Zenon DEF ids, Range
    <2> QED BY <1>1, <1>2, <1>4, <2>1 DEF Unique
  <1> QED BY <1>1, <1>3, <1>4, Zenon DEF t

\* A list in which the gap at j has been closed.
LEMMA GapFacts ==
  ASSUME NEW s \in Seq(Record), NEW t \in Seq(Record), NEW j \in 1..Len(s), Len(t) = Len(s) - 1,
         \A k \in 1..(Len(s) - 1) : t[k] = IF k >= j THEN s[k + 1] ELSE s[k]
  PROVE  /\ Range(t) \subseteq Range(s)
         /\ \A r \in Range(s) : r \in Range(t) \/ r = s[j]
         /\ Unique(s) => Unique(t) /\ s[j] \notin Range(t)
  <1> DEFINE n == Len(s)
  <1>1. n \in Nat /\ n >= 1 /\ n - 1 \in Nat
    OBVIOUS
  <1>2. DOMAIN s = 1..n /\ DOMAIN t = 1..(n - 1)
    OBVIOUS
  <1>3. \A k \in 1..(n - 1) : \E m \in 1..n : m # j /\ t[k] = s[m] /\ m = IF k >= j THEN k + 1 ELSE k
    BY <1>1
  <1>4. \A m \in 1..n : m # j => \E k \in 1..(n - 1) : t[k] = s[m]
    <2> SUFFICES ASSUME NEW m \in 1..n, m # j PROVE \E k \in 1..(n - 1) : t[k] = s[m]
      OBVIOUS
    <2>1. CASE m < j
      <3>1. m \in 1..(n - 1) /\ t[m] = s[m]
        BY <2>1, <1>1
      <3> QED BY <3>1
    <2>2. CASE m > j
      <3>1. m - 1 \in 1..(n - 1) /\ t[m - 1] = s[m]
        BY <2>2, <1>1
      <3> QED BY <3>1
    <2> QED BY <2>1, <2>2, <1>1
  <1> HIDE DEF n
  <1>5. Range(t) \subseteq Range(s)
    BY <1>2, <1>3 DEF Range
  <1>6. \A r \in Range(s) : r \in Range(t) \/ r = s[j]
    BY <1>2, <1>4, Zenon DEF Range
  <1>7. ASSUME Unique(s) PROVE Unique(t) /\ s[j] \notin Range(t)
    <2>0. j \in 1..n
      BY DEF n
    <2>1. \A k \in 1..(n - 1) : t[k].id # s[j].id
      BY <2>0, <1>2, <1>3, <1>7, Zenon DEF Unique
    <2>2. \A a, b \in 1..(n - 1) : t[a].id = t[b].id => a = b
      <3> SUFFICES ASSUME NEW a \in 1..(n - 1), NEW b \in 1..(n - 1), t[a].id = t[b].id PROVE a = b
        OBVIOUS
      <3>1. PICK x \in 1..n : t[a] = s[x] /\ x = IF a >= j THEN a + 1 ELSE a
        BY <1>3, Zenon
      <3>2. PICK y \in 1..n : t[b] = s[y] /\ y = IF b >= j THEN b + 1 ELSE b
        BY <1>3, Zenon
      <3>3. x = y
        BY <3>1, <3>2, <1>2, <1>7, Zenon DEF Unique
      <3>4. a \in Int /\ b \in Int /\ j \in Int
        BY <1>1, <2>0
      <3> QED BY <3>1, <3>2, <3>3, <3>4
    <2> QED BY <2>1, <2>2, <1>2, Zenon DEF Range, Unique
  <1> QED BY <1>5, <1>6, <1>7, Zenon

\* deleteInternal drops the record at j from the first len ones.
LEMMA ShiftFacts ==
  ASSUME NEW array \in Seq(Record), NEW len \in Nat, len <= Len(array), NEW j \in 1..len
  PROVE  /\ Shift(array, len, j) \in Seq(Record) /\ Len(Shift(array, len, j)) = Len(array)
         /\ Range(Shift(array, len, j)) \subseteq Range(array)
         /\ SubSeq(Shift(array, len, j), 1, len - 1) \in Seq(Record)
         /\ Range(SubSeq(Shift(array, len, j), 1, len - 1)) \subseteq Range(SubSeq(array, 1, len))
         /\ \A r \in Range(SubSeq(array, 1, len)) :
               r \in Range(SubSeq(Shift(array, len, j), 1, len - 1)) \/ r = array[j]
         /\ Unique(SubSeq(array, 1, len)) =>
               /\ Unique(SubSeq(Shift(array, len, j), 1, len - 1))
               /\ array[j] \notin Range(SubSeq(Shift(array, len, j), 1, len - 1))
  <1> DEFINE s == SubSeq(array, 1, len)
             removed == Shift(array, len, j)
             t == SubSeq(removed, 1, len - 1)
             n == Len(array)
  <1>0. len \in 1..n /\ len - 1 \in Nat /\ n \in Nat /\ DOMAIN array = 1..n /\ array \in [1..n -> Record]
    OBVIOUS
  <1>1. removed = [k \in 1..n |-> IF k \in j..(len - 1) THEN array[k + 1] ELSE array[k]]
    BY <1>0, Zenon DEF Shift
  <1>2. \A k \in 1..n : (IF k \in j..(len - 1) THEN array[k + 1] ELSE array[k]) \in Record
    BY <1>0
  <1> HIDE DEF removed, n
  <1>3. /\ removed \in Seq(Record) /\ Len(removed) = n /\ DOMAIN removed = 1..n
        /\ \A k \in 1..n : removed[k] = IF k \in j..(len - 1) THEN array[k + 1] ELSE array[k]
    BY <1>0, <1>1, <1>2
  <1>4. /\ t \in Seq(Record) /\ Len(t) = len - 1
        /\ \A k \in 1..(len - 1) : t[k] = removed[k]
    BY <1>0, <1>3
  <1>5. /\ s \in Seq(Record) /\ Len(s) = len
        /\ \A k \in 1..len : s[k] = array[k]
    BY <1>0 DEF n
  <1> HIDE DEF s, t
  <1>6. \A k \in 1..(len - 1) : t[k] = IF k >= j THEN s[k + 1] ELSE s[k]
    BY <1>0, <1>3, <1>4, <1>5
  <1>7. \A k \in 1..n : \E m \in 1..n : removed[k] = array[m]
    BY <1>0, <1>3
  <1>8. Range(removed) \subseteq Range(array)
    <2>1. ASSUME NEW r \in Range(removed) PROVE r \in Range(array)
      <3>1. PICK k \in 1..n : r = removed[k]
        BY <1>3, Zenon DEF Range
      <3>2. PICK m \in 1..n : r = array[m]
        BY <1>7, <3>1, Zenon
      <3> QED BY <1>0, <3>2, Zenon DEF Range
    <2> QED BY <2>1, Zenon
  <1>9. s[j] = array[j]
    BY <1>5
  <1>10. /\ Range(t) \subseteq Range(s)
         /\ \A r \in Range(s) : r \in Range(t) \/ r = s[j]
         /\ Unique(s) => Unique(t) /\ s[j] \notin Range(t)
    BY <1>4, <1>5, <1>6, GapFacts, Zenon
  <1> QED BY <1>3, <1>4, <1>8, <1>9, <1>10, Zenon DEF s, t, removed, n

LEMMA WithoutFacts ==
  ASSUME NEW s \in Seq(Record), Unique(s), NEW l
  PROVE  /\ Without(s, l) \in Seq(Record) /\ Unique(Without(s, l))
         /\ Range(Without(s, l)) = {r \in Range(s) : r.id # l}
  <1>1. CASE l \notin ids(s)
    BY <1>1, Zenon DEF Without, ids
  <1>2. CASE l \in ids(s)
    <2> DEFINE j == CHOOSE j \in DOMAIN s : s[j].id = l
    <2>1. j \in 1..Len(s) /\ s[j].id = l
      <3>1. \E k \in DOMAIN s : s[k].id = l
        BY <1>2, Zenon DEF ids, Range
      <3> QED BY <3>1, RangeFacts, Zenon
    <2>2. Without(s, l) = SubSeq(Shift(s, Len(s), j), 1, Len(s) - 1)
      BY <1>2, Zenon DEF Without
    <2> HIDE DEF j
    <2>3. SubSeq(s, 1, Len(s)) = s /\ Len(s) \in Nat /\ Len(s) <= Len(s)
      OBVIOUS
    <2> DEFINE t == SubSeq(Shift(s, Len(s), j), 1, Len(s) - 1)
               whole == SubSeq(s, 1, Len(s))
    <2>a. /\ t \in Seq(Record) /\ Range(t) \subseteq Range(whole)
          /\ \A r \in Range(whole) : r \in Range(t) \/ r = s[j]
          /\ Unique(whole) => Unique(t) /\ s[j] \notin Range(t)
      BY <2>1, <2>3, ShiftFacts, Zenon
    <2>4. /\ t \in Seq(Record) /\ Range(t) \subseteq Range(s) /\ \A r \in Range(s) : r \in Range(t) \/ r = s[j]
          /\ Unique(t) /\ s[j] \notin Range(t)
      BY <2>3, <2>a, Zenon
    <2> HIDE DEF t
    <2>5. \A r \in Range(s) : r.id = l => r = s[j]
      BY <2>1, RangeFacts, UniqueRecords, Zenon
    <2>6. Range(t) = {r \in Range(s) : r.id # l}
      BY <2>1, <2>4, <2>5, Zenon
    <2> QED BY <2>2, <2>4, <2>6, Zenon DEF t
  <1> QED BY <1>1, <1>2, Zenon

\* Put drops the flag of a layer.
Marked(s, l) ==
    [k \in DOMAIN s |-> IF s[k].id = l THEN [s[k] EXCEPT !.incomplete = FALSE] ELSE s[k]]

LEMMA MarkedFacts ==
  ASSUME NEW s \in Seq(Record), Unique(s), NEW l, NEW t, t = Marked(s, l)
  PROVE  /\ t \in Seq(Record) /\ Unique(t)
         /\ \A r \in Range(s) : \E q \in Range(t) : q.id = r.id /\ (r.incomplete \/ ~q.incomplete)
         /\ \A q \in Range(t) : \E r \in Range(s) : r.id = q.id /\ r.parent = q.parent /\ (q.id = l \/ r = q)
  <1>0. DOMAIN s = 1..Len(s) /\ Len(s) \in Nat /\ \A k \in 1..Len(s) : s[k] \in Record
    OBVIOUS
  <1>a. \A r \in Record : [r EXCEPT !.incomplete = FALSE] \in Record
    BY Zenon DEF Record
  <1>b. t = [k \in 1..Len(s) |-> IF s[k].id = l THEN [s[k] EXCEPT !.incomplete = FALSE] ELSE s[k]]
    BY <1>0, Zenon DEF Marked
  <1>c. \A k \in 1..Len(s) : (IF s[k].id = l THEN [s[k] EXCEPT !.incomplete = FALSE] ELSE s[k]) \in Record
    BY <1>0, <1>a, Zenon
  <1>1. t \in Seq(Record) /\ Len(t) = Len(s) /\ DOMAIN t = 1..Len(s) /\ DOMAIN s = 1..Len(s)
    BY <1>0, <1>b, <1>c
  <1>2. \A k \in 1..Len(s) : /\ t[k].id = s[k].id /\ t[k].parent = s[k].parent
                             /\ s[k].incomplete \/ ~t[k].incomplete
                             /\ t[k].id = l \/ t[k] = s[k]
    BY <1>0, <1>b DEF Record
  <1>3. Unique(t)
    BY <1>1, <1>2, Zenon DEF Unique
  <1>4. \A r \in Range(s) : \E q \in Range(t) : q.id = r.id /\ (r.incomplete \/ ~q.incomplete)
    BY <1>1, <1>2 DEF Range
  <1>5. \A q \in Range(t) : \E r \in Range(s) : r.id = q.id /\ r.parent = q.parent /\ (q.id = l \/ r = q)
    BY <1>1, <1>2 DEF Range
  <1> QED BY <1>1, <1>3, <1>4, <1>5, Zenon

-----------------------------------------------------------------------------
(* What holds of a client that has layers.lock to write and has been through ReloadIfChanged. *)

LEMMA Types ==
  ASSUME StateInv
  PROVE  /\ file \in Seq(Record) /\ layers \in [Object -> Seq(Record)]
         /\ data \in [Layer -> {"none", "empty", "partial", "full"}]
         /\ lw \subseteq Proc /\ seen \subseteq Object
         /\ readers \subseteq Client /\ writers \subseteq Client
         /\ graphLock \in Client \cup {None} /\ layerStore \in [Proc -> Object \cup {None}]
         /\ pc \in [Client -> PC] /\ call \in [Client -> CallKind \cup {None}]
         /\ rlstore \in [Client -> Object \cup {None}] /\ layer \in [Client -> Layer \cup {None}]
         /\ loop \in [Client -> [array : Seq(Record), len : Nat, i : Nat, shouldSave : BOOLEAN]]
         /\ faults \in 0..MaxFaults
         /\ happened \subseteq FaultKind \cup {"halfDeleted", "builtOnIncomplete"}
  BY Zenon DEF StateInv, TypeOK

\* A client in a call has a layerStore of its own.
LEMMA Working ==
  ASSUME StateInv, NEW c \in Client, pc[c] # "idle"
  PROVE  /\ ProcOf[c] \in Proc /\ rlstore[c] \in Object /\ Current(c) = rlstore[c]
         /\ layers[rlstore[c]] \in Seq(Record) /\ Unique(layers[rlstore[c]])
  <1>1. rlstore[c] \in Object /\ rlstore[c] # None
    BY Types, Zenon DEF StateInv, ObjectInv
  <1>2. layers[rlstore[c]] \in Seq(Record)
    BY <1>1, Types, Zenon
  <1> QED BY <1>1, <1>2, ProcOfAssumption, Zenon DEF StateInv, ListInv, Current

\* It is the only client of its process, and the only one that can change records.
LEMMA Alone ==
  ASSUME StateInv, NEW c \in writers
  PROVE  /\ c \in Client /\ pc[c] \notin {"idle", "graphLock", "lock"}
         /\ \A d \in Client : d # c => d \notin readers \cup writers /\ pc[d] \notin Writing
  <1>1. c \in Client /\ writers = {c} /\ readers = {} /\ \A d \in Client : LockAt(d)
    BY Types, Zenon DEF StateInv, LockInv
  <1> QED BY <1>1, Zenon DEF LockAt

LEMMA LockedIff ==
  ASSUME OneGoroutine, StateInv, NEW c \in Client
  PROVE  Locked(ProcOf[c]) <=> c \in writers
  BY Types, Zenon DEF Locked, OneGoroutine

\* What Load has read, what Put and Delete work on and what they save: all is as it should be
\* on disk, except what this client is about to change there.
WriterGood(c, s) ==
    /\ "write" \notin happened /\ pc[c] \notin Saving => s = file
    /\ happened \cap {"write", "halfDeleted"} = {} => FullIn(s) /\ (pc[c] # "saveRemoved" => FullIn(file))
    /\ happened \cap {"write", "builtOnIncomplete"} = {} => ParentsIn(s) /\ ParentsIn(file)
    /\ happened \subseteq {"apply", "write"} =>
          \A l \in Layer : data[l] # "none" =>
              /\ l \in ids(s) \/ (pc[c] = "undo" /\ layer[c] = l)
              /\ l \in ids(file) \/ Making(c, l)

LEMMA WriterFacts ==
  ASSUME IInv, NEW c \in writers, pc[c] # "reload"
  PROVE  WriterGood(c, layers[rlstore[c]])
  <1> DEFINE s == layers[rlstore[c]]
  <1>0. StateInv /\ c \in Client
    BY Alone, Zenon DEF IInv
  <1>1. /\ Current(c) = rlstore[c] /\ rlstore[c] \in Object
        /\ \A d \in Client : d # c => pc[d] \notin Writing
    BY <1>0, Alone, Working, Zenon
  <1>2. ProcOf[c] \in lw /\ ClientAt(c) /\ rlstore[c] # None
    BY <1>0, <1>1, NoneAssumption, Zenon DEF IInv, StateInv, LockInv, LockAt
  <1>3. "write" \notin happened /\ pc[c] \notin Saving => s = file
    BY <1>1, <1>2, Zenon DEF ClientAt, FreshAt
  <1>4. ASSUME happened \cap {"write", "halfDeleted"} = {}
        PROVE  FullIn(s) /\ (pc[c] # "saveRemoved" => FullIn(file))
    <2>1. pc[c] # "saveRemoved" => FullIn(file)
      BY <1>0, <1>1, <1>4, Zenon DEF IInv, CompleteLayersHaveData, FullIn, Writing, PutSteps
    <2>2. pc[c] \in Saving => FullIn(s)
      BY <1>2, <1>4, Zenon DEF ClientAt, DataAt
    <2>3. "write" \notin happened
      BY <1>4, Zenon
    <2> QED BY <2>1, <2>2, <2>3, <1>3, Zenon DEF Saving
  <1>5. ASSUME happened \cap {"write", "builtOnIncomplete"} = {} PROVE ParentsIn(s) /\ ParentsIn(file)
    <2>1. ParentsIn(file)
      BY <1>5, Zenon DEF IInv, ParentInv
    <2>2. pc[c] \in Saving => ParentsIn(s)
      BY <1>2, <1>5, Zenon DEF ClientAt, ParentAt
    <2>3. "write" \notin happened
      BY <1>5, Zenon
    <2> QED BY <2>1, <2>2, <2>3, <1>3, Zenon
  <1>6. ASSUME happened \subseteq {"apply", "write"}, NEW l \in Layer, data[l] # "none"
        PROVE  /\ l \in ids(s) \/ (pc[c] = "undo" /\ layer[c] = l)
               /\ l \in ids(file) \/ Making(c, l)
    <2>1. \A d \in Client : Making(d, l) => d = c
      BY <1>1, Zenon DEF Making, Writing, PutSteps
    <2>2. l \in ids(s) \/ (pc[c] = "undo" /\ layer[c] = l)
      BY <1>1, <1>2, <1>6, <2>1, Zenon DEF ClientAt, CoverAt, Making
    <2>3. l \in ids(file) \/ Making(c, l)
      BY <1>6, <2>1, Zenon DEF IInv, CoverInv
    <2> QED BY <2>2, <2>3, Zenon
  <1> HIDE DEF s
  <1>7. WriterGood(c, s)
    BY <1>3, <1>4, <1>5, <1>6, Zenon DEF WriterGood
  <1> QED BY <1>7, Zenon DEF s

-----------------------------------------------------------------------------
(* What a step leaves alone. *)

\* A step of c changes nothing that is another client's.  What it saves, the others do not know.
Others(c) ==
    /\ \A d \in Client : d # c =>
          /\ pc'[d] = pc[d] /\ layer'[d] = layer[d] /\ loop'[d] = loop[d] /\ rlstore'[d] = rlstore[d]
          /\ Current(d)' = Current(d)
          /\ Current(d) # None => layers'[Current(d)] = layers[Current(d)]
          /\ ProcOf[d] \in lw' => ProcOf[d] \in lw /\ file' = file
          /\ d \in readers \cup writers <=> d \in readers' \cup writers'
    /\ happened \subseteq happened'

\* What c makes or has made stays known as such, for those that know what c has not saved.
CoverFrame(c) ==
    happened' \subseteq {"apply", "write"} =>
        \/ lw' = {ProcOf[c]}
        \/ \A l \in Layer : data'[l] # "none" =>
              /\ data[l] # "none" \/ Making(c, l)'
              /\ Making(c, l) => Making(c, l)'

LEMMA OthersKeep ==
  ASSUME OneGoroutine, IInv, NEW c \in Client, Others(c), CoverFrame(c),
         c \in writers \/ UNCHANGED <<file, data>>, NEW d \in Client, d # c
  PROVE  ClientAt(d)'
  <1>0. StateInv /\ ClientAt(d)
    BY Zenon DEF IInv
  <1>1. /\ pc'[d] = pc[d] /\ layer'[d] = layer[d] /\ loop'[d] = loop[d] /\ rlstore'[d] = rlstore[d]
        /\ Current(d)' = Current(d)
        /\ Current(d) # None => layers'[Current(d)] = layers[Current(d)]
        /\ ProcOf[d] \in lw' => ProcOf[d] \in lw /\ file' = file
        /\ d \in readers \cup writers <=> d \in readers' \cup writers'
        /\ happened \subseteq happened'
    BY Zenon DEF Others
  <1>2. FreshAt(d)'
    BY <1>0, <1>1, Zenon DEF ClientAt, FreshAt
  <1>3. CoverAt(d)'
    <2> SUFFICES ASSUME happened' \subseteq {"apply", "write"}, ProcOf[d] \in lw', Current(d)' # None,
                        NEW l \in Layer, data'[l] # "none"
                 PROVE  \/ l \in ids(layers[Current(d)])'
                        \/ \E e \in Client : Making(e, l)' /\ (e # d \/ pc'[e] = "undo")
      BY Zenon DEF CoverAt
    <2>1. lw' # {ProcOf[c]}
      BY DEF OneGoroutine
    <2>2. (data[l] # "none" \/ Making(c, l)') /\ (Making(c, l) => Making(c, l)')
      BY <2>1, Zenon DEF CoverFrame
    <2>3. CASE Making(c, l)'
      BY <2>3, Zenon
    <2>4. CASE data[l] # "none"
      <3>1. \/ l \in ids(layers[Current(d)])
            \/ \E e \in Client : Making(e, l) /\ (e # d \/ pc[e] = "undo")
        BY <1>0, <1>1, <2>4, Zenon DEF ClientAt, CoverAt
      <3>2. CASE l \in ids(layers[Current(d)])
        BY <3>2, <1>1, Zenon
      <3>3. ASSUME NEW e \in Client, Making(e, l), e # d \/ pc[e] = "undo"
            PROVE  Making(e, l)' /\ (e # d \/ pc'[e] = "undo")
        <4>1. CASE e = c
          BY <4>1, <3>3, <2>2, Zenon
        <4>2. CASE e # c
          BY <4>2, <3>3, Zenon DEF Others, Making
        <4> QED BY <4>1, <4>2, Zenon
      <3> QED BY <3>1, <3>2, <3>3, Zenon
    <2> QED BY <2>2, <2>3, <2>4, Zenon
  <1>4. CASE c \in writers
    <2>1. d \notin readers \cup writers /\ pc[d] \notin Writing
      BY <1>0, <1>4, Alone, Zenon
    <2>2. pc'[d] \notin Writing /\ pc'[d] \notin Saving /\ d \notin readers' \cup writers'
      BY <1>1, <2>1, Zenon DEF Writing, PutSteps, Saving
    <2>3. LoopAt(d)' /\ KeptAt(d)' /\ PutAt(d)' /\ DataAt(d)' /\ ParentAt(d)'
      BY <2>2, Zenon DEF LoopAt, KeptAt, PutAt, DataAt, ParentAt, Writing, PutSteps
    <2> QED BY <1>2, <1>3, <2>3, Zenon DEF ClientAt
  <1>5. CASE UNCHANGED <<file, data>>
    <2>0. ASSUME pc[d] \in Writing \cup {"load"} PROVE layers'[rlstore'[d]] = layers[rlstore[d]]
      <3>1. pc[d] # "idle"
        BY <2>0, Zenon DEF Writing, PutSteps
      <3>2. Current(d) = rlstore[d] /\ rlstore[d] # None
        BY <3>1, <1>0, Working, NoneAssumption, Zenon
      <3> QED BY <1>1, <3>2, Zenon
    <2>1. LoopAt(d)'
      BY <2>0, <1>0, <1>1, <1>5, Zenon DEF ClientAt, LoopAt, Writing
    <2>2. KeptAt(d)' /\ PutAt(d)'
      BY <2>0, <1>0, <1>1, <1>5, Zenon DEF ClientAt, KeptAt, PutAt, Writing, Saving, PutSteps
    <2>3. DataAt(d)' /\ ParentAt(d)'
      BY <2>0, <1>0, <1>1, <1>5, Zenon DEF ClientAt, DataAt, ParentAt, FullIn, ParentsIn, Writing, Saving, PutSteps
    <2> QED BY <1>2, <1>3, <2>1, <2>2, <2>3, Zenon DEF ClientAt
  <1> QED BY <1>4, <1>5, Zenon

\* A step of a client that has layers.lock to write before and after it.
Writes(c) ==
    /\ c \in writers /\ pc[c] # "reload" /\ pc'[c] \in Writing \cup {"ready", "return"}
    /\ UNCHANGED <<readers, writers, call, rlstore, layerStore>>
    /\ \A d \in Client : d # c => pc'[d] = pc[d] /\ layer'[d] = layer[d] /\ loop'[d] = loop[d]
    /\ \A o \in Object : o # rlstore[c] => layers'[o] = layers[o]
    /\ UNCHANGED <<file, lw>> \/ lw' = {ProcOf[c]}
    /\ happened \subseteq happened'

LEMMA WritesState ==
  ASSUME OneGoroutine, StateInv, NEW c \in Client, Writes(c), TypeOK', pc'[c] \in PutSteps => layer'[c] \in Layer,
         Unique(file'), Unique(layers'[rlstore[c]])
  PROVE  StateInv' /\ Others(c)
  <1>0. /\ c \in writers /\ pc[c] # "reload" /\ pc'[c] \in Writing \cup {"ready", "return"}
        /\ UNCHANGED <<readers, writers, call, rlstore, layerStore>>
        /\ \A d \in Client : d # c => pc'[d] = pc[d] /\ layer'[d] = layer[d] /\ loop'[d] = loop[d]
        /\ \A o \in Object : o # rlstore[c] => layers'[o] = layers[o]
        /\ UNCHANGED <<file, lw>> \/ lw' = {ProcOf[c]}
        /\ happened \subseteq happened'
    BY Zenon DEF Writes
  <1>1. /\ pc[c] \notin {"idle", "graphLock", "lock"}
        /\ \A d \in Client : d # c => d \notin readers \cup writers
    BY <1>0, Alone, Zenon
  <1>2. rlstore[c] \in Object /\ Current(c) = rlstore[c] /\ ProcOf[c] \in Proc /\ rlstore[c] # None
    BY <1>1, Working, NoneAssumption, Zenon
  <1>3. ObjectInv /\ LockInv /\ LayerInv /\ ListInv
    BY Zenon DEF StateInv
  <1>4. \A d \in Client : Current(d)' = Current(d)
    BY <1>0, Zenon DEF Current
  <1>5. \A d \in Client : pc'[d] = "idle" <=> pc[d] = "idle"
    BY <1>0, <1>1, Zenon DEF Writing, PutSteps
  <1>6. ObjectInv'
    <2>1. ASSUME NEW a \in Client, NEW b \in Client, Current(a)' = Current(b)', Current(a)' # None PROVE a = b
      <3>1. Current(a) = Current(b) /\ Current(a) # None
        BY <1>4, <2>1, Zenon
      <3> QED BY <1>3, <3>1, Zenon DEF ObjectInv
    <2> QED BY <1>0, <1>3, <1>5, <2>1, Zenon DEF ObjectInv
  <1>7. ProcOf[c] \in lw'
    BY <1>0, <1>3, Zenon DEF LockInv, LockAt
  <1>8. LockInv'
    <2>1. LockAt(c)'
      <3>1. c \notin readers
        BY <1>0, <1>3, Zenon DEF LockInv
      <3> QED BY <1>0, <1>7, <3>1, Zenon DEF LockAt, Writing, PutSteps
    <2>2. ASSUME NEW d \in Client, d # c PROVE LockAt(d)'
      BY <2>2, <1>0, <1>1, <1>3, Zenon DEF LockInv, LockAt
    <2> QED BY <2>1, <2>2, <1>0, <1>3, Zenon DEF LockInv
  <1>9. LayerInv'
    BY <1>0, <1>3, Zenon DEF LayerInv
  <1>10. ListInv'
    <2> SUFFICES ASSUME NEW o \in Object PROVE Unique(layers'[o])
      BY Zenon DEF ListInv, Unique
    <2>1. CASE o = rlstore[c]
      BY <2>1, Zenon
    <2>2. CASE o # rlstore[c]
      BY <2>2, <1>0, <1>3, Zenon DEF ListInv
    <2> QED BY <2>1, <2>2, Zenon
  <1>11. Others(c)
    <2> SUFFICES ASSUME NEW d \in Client, d # c
                 PROVE  /\ Current(d) # None => layers'[Current(d)] = layers[Current(d)]
                        /\ ProcOf[d] \in lw' => ProcOf[d] \in lw /\ file' = file
      BY <1>0, <1>4, Zenon DEF Others
    <2>1. Current(d) \in Object \cup {None}
      BY Types, ProcOfAssumption, Zenon DEF Current
    <2>2. Current(d) # None => Current(d) # rlstore[c]
      BY <1>2, <1>3, Zenon DEF ObjectInv
    <2>3. ProcOf[d] # ProcOf[c]
      BY Zenon DEF OneGoroutine
    <2> QED BY <1>0, <2>1, <2>2, <2>3, Zenon
  <1> QED BY <1>6, <1>8, <1>9, <1>10, <1>11, Zenon DEF StateInv

\* What else has to hold of such a client, besides WriterGood.
WriterRest(c) ==
    /\ LoopAt(c) /\ KeptAt(c) /\ PutAt(c)
    /\ happened \cap {"write", "halfDeleted"} = {} =>
          /\ pc[c] \in {"saveDigests", "complete"} => data[layer[c]] = "full"
          /\ pc[c] = "saveRemoved" =>
                \A r \in Range(file) : r.incomplete \/ data[r.id] = "full" \/ layer[c] = r.id
    /\ happened \cap {"write", "builtOnIncomplete"} = {} =>
          (pc[c] = "remove" => \A r \in Range(file) : r.parent # layer[c])

LEMMA WritesKeep ==
  ASSUME OneGoroutine, IInv, NEW c \in Client, Writes(c), TypeOK', pc'[c] \in PutSteps => layer'[c] \in Layer,
         Unique(file'), Unique(layers'[rlstore[c]]),
         CoverFrame(c), WriterGood(c, layers[rlstore[c]])', WriterRest(c)'
  PROVE  IInv'
  <1>0. StateInv
    BY Zenon DEF IInv
  <1>1. StateInv' /\ Others(c)
    BY <1>0, WritesState, Zenon
  <1>2. c \in writers' /\ c \in writers /\ pc'[c] # "idle"
    BY Zenon DEF Writes, Writing, PutSteps
  <1>3. Current(c)' = rlstore'[c]
    <2>1. rlstore'[c] # None
      BY <1>1, <1>2, Zenon DEF StateInv, ObjectInv
    <2> QED BY <2>1, Zenon DEF Current
  <1> DEFINE s == layers[rlstore[c]]
  <1>g. WriterGood(c, s)'
    OBVIOUS
  <1>4. FreshAt(c)'
    BY <1>3, <1>g, Zenon DEF FreshAt, WriterGood
  <1>5. DataAt(c)'
    BY <1>g, Zenon DEF DataAt, WriterGood, WriterRest
  <1>6. ParentAt(c)'
    BY <1>g, Zenon DEF ParentAt, WriterGood, WriterRest
  <1>7. CoverAt(c)'
    <2> SUFFICES ASSUME happened' \subseteq {"apply", "write"}, NEW l \in Layer, data'[l] # "none", l \notin ids(s)'
                 PROVE  Making(c, l)' /\ pc'[c] = "undo"
      BY <1>3, Zenon DEF CoverAt
    <2> QED BY <1>g, Zenon DEF WriterGood, Making
  <1>8. CompleteLayersHaveData'
    <2> SUFFICES ASSUME (happened \cap {"write", "halfDeleted"} = {})', NEW r \in Range(file'),
                        ~r.incomplete, data'[r.id] # "full"
                 PROVE  pc'[c] = "saveRemoved" /\ layer'[c] = r.id
      BY Zenon DEF CompleteLayersHaveData
    <2>1. pc'[c] = "saveRemoved"
      BY <1>g, Zenon DEF WriterGood, FullIn
    <2> QED BY <2>1, Zenon DEF WriterRest
  <1>9. ParentInv'
    BY <1>g, Zenon DEF ParentInv, WriterGood
  <1>10. CoverInv'
    BY <1>g, Zenon DEF CoverInv, WriterGood
  <1>11. ClientAt(c)'
    BY <1>4, <1>5, <1>6, <1>7, Zenon DEF ClientAt, WriterRest
  <1>12. \A d \in Client : d # c => ClientAt(d)'
    BY <1>1, <1>2, OthersKeep, Zenon
  <1> QED BY <1>1, <1>8, <1>9, <1>10, <1>11, <1>12, Zenon DEF IInv

\* The same, with a name for the new copy.
LEMMA WritesCopyKeep ==
  ASSUME OneGoroutine, IInv, NEW c \in Client, Writes(c), TypeOK', pc'[c] \in PutSteps => layer'[c] \in Layer,
         Unique(file'), NEW t, layers'[rlstore[c]] = t, Unique(t), CoverFrame(c), WriterGood(c, t)', WriterRest(c)'
  PROVE  IInv'
  <1>1. layers'[rlstore'[c]] = t
    BY Zenon DEF Writes
  <1>2. WriterGood(c, layers[rlstore[c]])'
    BY <1>1, Zenon DEF WriterGood, FullIn
  <1> QED BY <1>2, WritesKeep, Zenon

-----------------------------------------------------------------------------
(* Steps with the write lock that change only where the client is, or only save. *)

HistoryTypes == faults \in 0..MaxFaults /\ happened \subseteq FaultKind \cup {"halfDeleted", "builtOnIncomplete"}

LEMMA HistoryFacts ==
  ASSUME StateInv
  PROVE  /\ UNCHANGED history => HistoryTypes' /\ happened' = happened
         /\ \A f : Fault(f) => HistoryTypes' /\ happened' = happened \cup {f}
  <1>1. HistoryTypes
    BY Types, Zenon DEF HistoryTypes
  <1>2. UNCHANGED history => HistoryTypes' /\ happened' = happened
    BY <1>1, Zenon DEF history, HistoryTypes
  <1>3. ASSUME NEW f, Fault(f) PROVE HistoryTypes' /\ happened' = happened \cup {f}
    <2>1. faults' \in 0..MaxFaults
      BY <1>1, <1>3, BoundAssumption DEF Fault, HistoryTypes
    <2>2. f \in FaultKind /\ happened' = happened \cup {f}
      BY <1>3, KindAssumption, Zenon DEF Fault
    <2> QED BY <1>1, <2>1, <2>2, Zenon DEF HistoryTypes
  <1> QED BY <1>2, <1>3, Zenon

LEMMA GoFacts ==
  ASSUME StateInv, NEW c \in Client, NEW l \in PC, Go(c, l)
  PROVE  pc' \in [Client -> PC] /\ pc'[c] = l /\ \A d \in Client : d # c => pc'[d] = pc[d]
  BY Types, Zenon DEF Go

LEMMA LoadedFacts ==
  ASSUME NEW c \in writers, NEW o, NEW kind, Loaded(c, o, kind)
  PROVE  Go(c, "ready") /\ UNCHANGED <<graphLock, layerStore>>
  BY Zenon DEF Loaded

\* A step that changes neither the records nor the contents.
LEMMA SteadyKeeps ==
  ASSUME OneGoroutine, IInv, NEW c \in Client, Writes(c), TypeOK', pc'[c] \in PutSteps => layer'[c] \in Layer,
         UNCHANGED <<file, data, layers>>, pc[c] # "saveRemoved",
         "write" \notin happened' /\ pc'[c] \notin Saving => layers[rlstore[c]] = file,
         happened' \subseteq {"apply", "write"} => pc[c] \notin {"saveIncomplete", "saveComplete", "undo"},
         WriterRest(c)'
  PROVE  IInv'
  <1> DEFINE s == layers[rlstore[c]]
  <1>0. c \in writers /\ pc[c] # "reload" /\ rlstore' = rlstore /\ happened \subseteq happened'
    BY Zenon DEF Writes
  <1>1. StateInv /\ pc[c] # "idle"
    BY <1>0, Alone, Zenon DEF IInv
  <1>2. Unique(file') /\ Unique(layers'[rlstore[c]])
    <2>1. Unique(file) /\ Unique(layers[rlstore[c]])
      BY <1>1, Working, Zenon DEF StateInv, ListInv
    <2> QED BY <2>1, Zenon
  <1>3. WriterGood(c, s)
    BY <1>0, WriterFacts, Zenon
  <1>4. WriterGood(c, s)'
    <2>1. s' = s
      BY <1>0, Zenon
    <2> HIDE DEF s
    <2>2. FullIn(s)' <=> FullIn(s)
      BY <2>1, Zenon DEF FullIn
    <2>3. FullIn(file)' <=> FullIn(file)
      BY Zenon DEF FullIn
    <2>4. (ParentsIn(s)' <=> ParentsIn(s)) /\ (ParentsIn(file)' <=> ParentsIn(file)) /\ ids(s)' = ids(s)
            /\ ids(file)' = ids(file)
      BY <2>1, Zenon
    <2>5. "write" \notin happened' /\ pc'[c] \notin Saving => s' = file'
      BY <2>1, Zenon DEF s
    <2>6. (happened \cap {"write", "halfDeleted"} = {})' => FullIn(s)' /\ FullIn(file)'
      BY <1>0, <1>3, <2>2, <2>3, Zenon DEF WriterGood
    <2>7. (happened \cap {"write", "builtOnIncomplete"} = {})' => ParentsIn(s)' /\ ParentsIn(file)'
      BY <1>0, <1>3, <2>4, Zenon DEF WriterGood
    <2>8. happened' \subseteq {"apply", "write"} =>
            \A l \in Layer : data'[l] # "none" => l \in ids(s)' /\ l \in ids(file)'
      BY <1>0, <1>3, <2>4, Zenon DEF WriterGood, Making
    <2> QED BY <2>5, <2>6, <2>7, <2>8, Zenon DEF WriterGood
  <1>5. CoverFrame(c)
    BY Zenon DEF CoverFrame, Making
  <1> QED BY <1>2, <1>4, <1>5, WritesKeep, Zenon

\* A step that writes the copy to the file, or fails to.
LEMMA SavesKeep ==
  ASSUME OneGoroutine, IInv, NEW c \in Client, Writes(c), TypeOK', pc'[c] \in PutSteps => layer'[c] \in Layer,
         UNCHANGED <<data, layers, layer>>, lw' = {ProcOf[c]}, file' \in {file, layers[rlstore[c]]},
         "write" \notin happened' => file' = layers[rlstore[c]],
         pc[c] # "undo" /\ pc'[c] \notin Saving,
         file' = layers[rlstore[c]] \/ pc[c] \notin {"saveIncomplete", "saveComplete"} \/ pc'[c] = "undo",
         WriterRest(c)'
  PROVE  IInv'
  <1> DEFINE s == layers[rlstore[c]]
  <1>0. c \in writers /\ pc[c] # "reload" /\ rlstore' = rlstore /\ happened \subseteq happened'
    BY Zenon DEF Writes
  <1>1. StateInv /\ pc[c] # "idle"
    BY <1>0, Alone, Zenon DEF IInv
  <1>2. Unique(file') /\ Unique(layers'[rlstore[c]])
    <2>1. Unique(file) /\ Unique(layers[rlstore[c]])
      BY <1>1, Working, Zenon DEF StateInv, ListInv
    <2> QED BY <2>1, Zenon
  <1>3. WriterGood(c, s)
    BY <1>0, WriterFacts, Zenon
  <1>4. WriterGood(c, s)'
    <2>1. s' = s
      BY <1>0, Zenon
    <2>2. "write" \notin happened' => file' = s
      OBVIOUS
    <2>3. file' = s \/ (file' = file /\ (pc[c] \notin {"saveIncomplete", "saveComplete"} \/ pc'[c] = "undo"))
      BY Zenon
    <2> HIDE DEF s
    <2>4. FullIn(s)' <=> FullIn(s)
      BY <2>1, Zenon DEF FullIn
    <2>5. "write" \notin happened' => (FullIn(file)' <=> FullIn(s)) /\ (ParentsIn(file)' <=> ParentsIn(s))
      BY <2>2, Zenon DEF FullIn
    <2>6. (ParentsIn(s)' <=> ParentsIn(s)) /\ ids(s)' = ids(s)
      BY <2>1, Zenon
    <2>7. (happened \cap {"write", "halfDeleted"} = {})' => FullIn(s)' /\ FullIn(file)'
      BY <1>0, <1>3, <2>4, <2>5, Zenon DEF WriterGood
    <2>8. (happened \cap {"write", "builtOnIncomplete"} = {})' => ParentsIn(s)' /\ ParentsIn(file)'
      BY <1>0, <1>3, <2>5, <2>6, Zenon DEF WriterGood
    <2>9. ASSUME happened' \subseteq {"apply", "write"}, NEW l \in Layer, data'[l] # "none"
          PROVE  l \in ids(s)' /\ (l \in ids(file)' \/ Making(c, l)')
      <3>1. l \in ids(s) /\ (l \in ids(file) \/ Making(c, l))
        BY <1>0, <1>3, <2>9, Zenon DEF WriterGood
      <3>2. CASE file' = s
        BY <3>1, <3>2, <2>6, Zenon
      <3>3. CASE file' = file /\ (pc[c] \notin {"saveIncomplete", "saveComplete"} \/ pc'[c] = "undo")
        BY <3>1, <3>3, <2>6, Zenon DEF Making
      <3> QED BY <2>3, <3>2, <3>3, Zenon
    <2> QED BY <2>1, <2>2, <2>7, <2>8, <2>9, Zenon DEF WriterGood
  <1>5. CoverFrame(c)
    BY Zenon DEF CoverFrame
  <1> QED BY <1>2, <1>4, <1>5, WritesKeep, Zenon

\* Load begins its loop, with the copy that it has just read.
LEMMA BeginLoopKeeps ==
  ASSUME OneGoroutine, IInv, NEW c \in Client, c \in writers, BeginLoop(c)
  PROVE  IInv'
  <1> DEFINE s == layers[rlstore[c]]
             new == [array |-> s, len |-> Len(s), i |-> 1, shouldSave |-> FALSE]
  <1>0. StateInv
    BY Zenon DEF IInv
  <1>1. /\ pc[c] = "load" /\ Go(c, "loop") /\ loop' = [loop EXCEPT ![c] = new]
        /\ UNCHANGED <<graphLock, layerStore, file, data, lw, seen, layers, readers, writers, call, rlstore, layer>>
        /\ UNCHANGED history
    BY <1>0, LockedIff, Zenon DEF BeginLoop, disk, known, lock
  <1>2. s \in Seq(Record) /\ s = file
    <2>1. LoopAt(c)
      BY Zenon DEF IInv, ClientAt
    <2> QED BY <2>1, <1>0, <1>1, Working, Zenon DEF LoopAt
  <1> HIDE DEF s
  <1>3. /\ new \in [array : Seq(Record), len : Nat, i : Nat, shouldSave : BOOLEAN]
        /\ SubSeq(s, 1, Len(s)) = s /\ Len(s) <= Len(s)
        /\ new.array = s /\ new.len = Len(s) /\ new.i = 1 /\ ~new.shouldSave
    BY <1>2
  <1> HIDE DEF new
  <1>4. loop' \in [Client -> [array : Seq(Record), len : Nat, i : Nat, shouldSave : BOOLEAN]]
    BY <1>0, <1>1, <1>3, Types, Zenon
  <1>5. loop'[c] = new /\ \A d \in Client : d # c => loop'[d] = loop[d]
    BY <1>0, <1>1, Types, Zenon
  <1>6. pc' \in [Client -> PC] /\ pc'[c] = "loop" /\ \A d \in Client : d # c => pc'[d] = pc[d]
    BY <1>0, <1>1, GoFacts, Zenon DEF PC
  <1>7. HistoryTypes' /\ happened' = happened
    BY <1>0, <1>1, HistoryFacts, Zenon
  <1>8. TypeOK'
    BY <1>0, <1>1, <1>4, <1>6, <1>7, Types, Zenon DEF TypeOK, HistoryTypes
  <1>9. Writes(c)
    BY <1>1, <1>5, <1>6, <1>7, Zenon DEF Writes, Writing
  <1>10. layers'[rlstore'[c]] = s /\ file' = s /\ layers[rlstore[c]] = file
    BY <1>1, <1>2, Zenon DEF s
  <1>11. LoopAt(c)'
    <2>1. loop'[c].i >= 1
      BY <1>3, <1>5
    <2> QED BY <1>3, <1>5, <1>6, <1>10, <2>1, Zenon DEF LoopAt
  <1>12. KeptAt(c)'
    BY <1>10, Zenon DEF KeptAt, ids
  <1>13. WriterRest(c)'
    BY <1>6, <1>11, <1>12, Zenon DEF WriterRest, PutAt
  <1> QED BY <1>1, <1>6, <1>8, <1>9, <1>10, <1>13, SteadyKeeps, Zenon DEF PutSteps

\* Where Load goes after its loop.
LEMMA AfterLoopFacts ==
  ASSUME NEW c \in writers, NEW shouldSave \in BOOLEAN, NEW err \in BOOLEAN, AfterLoop(c, shouldSave, err)
  PROVE  \E l \in {"saveLoop", "return", "ready"} :
            Go(c, l) /\ UNCHANGED <<graphLock, layerStore>> /\ (l = "saveLoop" <=> shouldSave)
  BY LoadedFacts, Zenon DEF AfterLoop

\* The loop ends, after the last incomplete layer or with an error.
LEMMA EndLoopKeeps ==
  ASSUME OneGoroutine, IInv, NEW c \in Client, pc[c] = "loop", NEW err \in BOOLEAN,
         AfterLoop(c, loop[c].shouldSave, err), loop' = [loop EXCEPT ![c] = NoLoop],
         UNCHANGED <<file, data, layers, lw, seen, readers, writers, call, rlstore, layer>>,
         HistoryTypes', happened \subseteq happened'
  PROVE  IInv'
  <1>0. StateInv /\ c \in writers /\ LoopAt(c) /\ KeptAt(c)
    BY Zenon DEF IInv, StateInv, LockInv, LockAt, Writing, ClientAt
  <1>1. loop[c].shouldSave \in BOOLEAN
    <2>1. loop[c] \in [array : Seq(Record), len : Nat, i : Nat, shouldSave : BOOLEAN]
      BY <1>0, Types, Zenon
    <2> QED BY <2>1
  <1>2. PICK l \in {"saveLoop", "return", "ready"} :
            Go(c, l) /\ UNCHANGED <<graphLock, layerStore>> /\ (l = "saveLoop" <=> loop[c].shouldSave)
    BY <1>0, <1>1, AfterLoopFacts, Zenon
  <1>3. pc' \in [Client -> PC] /\ pc'[c] = l /\ \A d \in Client : d # c => pc'[d] = pc[d]
    BY <1>0, <1>2, GoFacts, Zenon DEF PC
  <1>4. NoLoop \in [array : Seq(Record), len : Nat, i : Nat, shouldSave : BOOLEAN]
    BY DEF NoLoop
  <1>5. /\ loop' \in [Client -> [array : Seq(Record), len : Nat, i : Nat, shouldSave : BOOLEAN]]
        /\ \A d \in Client : d # c => loop'[d] = loop[d]
    BY <1>0, <1>4, Types, Zenon
  <1>6. TypeOK'
    BY <1>0, <1>2, <1>3, <1>5, Types, Zenon DEF TypeOK, HistoryTypes
  <1>7. Writes(c)
    BY <1>0, <1>2, <1>3, <1>5, Zenon DEF Writes, Writing
  <1>8. pc'[c] \notin Saving => layers[rlstore[c]] = file
    BY <1>0, <1>2, <1>3, Zenon DEF LoopAt, Saving
  <1>9. KeptAt(c)'
    BY <1>0, <1>3, Zenon DEF KeptAt, Saving
  <1>10. WriterRest(c)'
    BY <1>3, <1>9, Zenon DEF WriterRest, LoopAt, PutAt
  <1> QED BY <1>3, <1>6, <1>7, <1>8, <1>10, SteadyKeeps, Zenon DEF PutSteps

\* A client that is ready and called Put or Delete has the write lock and the file's records.
LEMMA ReadyFacts ==
  ASSUME IInv, NEW c \in Client, pc[c] = "ready", call[c] = "Put"
  PROVE  StateInv /\ c \in writers /\ ("write" \notin happened => layers[rlstore[c]] = file)
  <1>1. StateInv /\ c \in writers
    BY Zenon DEF IInv, StateInv, LockInv, LockAt
  <1> QED BY <1>1, WriterFacts, Zenon DEF WriterGood, Saving

LEMMA LayerFacts ==
  ASSUME StateInv, NEW c \in Client, NEW l \in Layer, layer' = [layer EXCEPT ![c] = l]
  PROVE  /\ layer' \in [Client -> Layer \cup {None}] /\ layer'[c] = l
         /\ \A d \in Client : d # c => layer'[d] = layer[d]
  BY Types, Zenon

LEMMA DeleteKeeps ==
  ASSUME OneGoroutine, IInv, NEW c \in Client, NEW l \in Layer, Delete(c, l)
  PROVE  IInv'
  <1> DEFINE s == layers[rlstore[c]]
  <1>1. /\ pc[c] = "ready" /\ call[c] = "Put"
        /\ UNCHANGED <<file, data, lw, seen, layers, readers, writers, graphLock, layerStore, call, rlstore, loop>>
        /\ UNCHANGED history
        /\ \/ Go(c, "remove") /\ layer' = [layer EXCEPT ![c] = l] /\ Children(s, l) = {}
           \/ Go(c, "return") /\ UNCHANGED layer
    BY Zenon DEF Delete, disk, known, lock
  <1>2. StateInv /\ c \in writers /\ ("write" \notin happened => s = file)
    BY <1>1, ReadyFacts, Zenon
  <1>3. /\ pc' \in [Client -> PC] /\ pc'[c] \in {"remove", "return"} /\ \A d \in Client : d # c => pc'[d] = pc[d]
        /\ pc'[c] = "remove" => layer' = [layer EXCEPT ![c] = l] /\ Children(s, l) = {}
        /\ pc'[c] = "return" => UNCHANGED layer
    <2>1. CASE Go(c, "remove") /\ layer' = [layer EXCEPT ![c] = l] /\ Children(s, l) = {}
      BY <1>2, <2>1, GoFacts, Zenon DEF PC
    <2>2. CASE Go(c, "return") /\ UNCHANGED layer
      BY <1>2, <2>2, GoFacts, Zenon DEF PC
    <2> QED BY <1>1, <2>1, <2>2, Zenon
  <1>4. /\ layer' \in [Client -> Layer \cup {None}] /\ \A d \in Client : d # c => layer'[d] = layer[d]
        /\ pc'[c] = "remove" => layer'[c] = l
    <2>1. CASE pc'[c] = "remove"
      BY <1>2, <1>3, <2>1, LayerFacts, Zenon
    <2>2. CASE pc'[c] = "return"
      BY <1>2, <1>3, <2>2, Types, Zenon
    <2> QED BY <1>3, <2>1, <2>2, Zenon
  <1>5. HistoryTypes' /\ happened' = happened
    BY <1>1, <1>2, HistoryFacts, Zenon
  <1>6. TypeOK'
    BY <1>1, <1>2, <1>3, <1>4, <1>5, Types, Zenon DEF TypeOK, HistoryTypes
  <1>7. Writes(c)
    BY <1>1, <1>2, <1>3, <1>4, <1>5, Zenon DEF Writes, Writing, PutSteps
  <1>8. (happened \cap {"write", "builtOnIncomplete"} = {})' /\ pc'[c] = "remove" =>
            \A r \in Range(file)' : r.parent # layer'[c]
    BY <1>1, <1>2, <1>3, <1>4, <1>5, Zenon DEF Children
  <1>9. WriterRest(c)'
    BY <1>3, <1>8, Zenon DEF WriterRest, LoopAt, KeptAt, PutAt, Saving
  <1> QED BY <1>1, <1>2, <1>3, <1>4, <1>5, <1>6, <1>7, <1>9, SteadyKeeps, Zenon DEF PutSteps

\* The copy is saved and the client goes on at l, or writing fails and it goes on at f.
LEMMA SaveStep ==
  ASSUME OneGoroutine, IInv, NEW c \in Client,
         NEW from \in {"saveIncomplete", "saveDigests", "saveComplete", "saveRemoved", "saveLoop"},
         NEW l \in {"apply", "complete", "return", "ready"}, NEW f \in {"undo", "remove", "return"},
         pc[c] = from, l = "apply" => from = "saveIncomplete", l = "complete" => from = "saveDigests",
         f # "return" => from # "saveLoop", from \in {"saveIncomplete", "saveComplete"} => f = "undo",
         UNCHANGED <<data, layers, readers, writers, graphLock, layerStore, call, rlstore, layer, loop>>,
         \/ saveLayers(c, TRUE) /\ Go(c, l) /\ UNCHANGED history
         \/ \E written \in BOOLEAN : saveLayers(c, written) /\ Fault("write") /\ Go(c, f)
  PROVE  IInv'
  <1> DEFINE s == layers[rlstore[c]]
  <1>0. StateInv /\ c \in writers /\ ClientAt(c)
    BY Zenon DEF IInv, StateInv, LockInv, LockAt, Writing, PutSteps
  <1>1. WriterGood(c, s) /\ s \in Seq(Record) /\ ProcOf[c] \in Proc
    BY <1>0, WriterFacts, Working, Zenon
  <1> HIDE DEF s
  <1>2. /\ lw' = {ProcOf[c]} /\ lw' \subseteq Proc /\ seen' \subseteq Object
        /\ file' \in {file, s} /\ HistoryTypes' /\ happened \subseteq happened'
        /\ pc' \in [Client -> PC] /\ \A d \in Client : d # c => pc'[d] = pc[d]
        /\ \/ pc'[c] = l /\ file' = s /\ happened' = happened
           \/ pc'[c] = f /\ "write" \in happened'
    <2>1. CASE saveLayers(c, TRUE) /\ Go(c, l) /\ UNCHANGED history
      <3>1. lw' = {ProcOf[c]} /\ file' = s /\ seen' = {}
        BY <2>1, Zenon DEF saveLayers, s
      <3>2. pc' \in [Client -> PC] /\ pc'[c] = l /\ \A d \in Client : d # c => pc'[d] = pc[d]
        BY <1>0, <2>1, GoFacts, Zenon DEF PC
      <3>3. HistoryTypes' /\ happened' = happened
        BY <1>0, <2>1, HistoryFacts, Zenon
      <3> QED BY <1>1, <3>1, <3>2, <3>3, Zenon
    <2>2. ASSUME NEW written \in BOOLEAN, saveLayers(c, written), Fault("write"), Go(c, f)
          PROVE  /\ lw' = {ProcOf[c]} /\ lw' \subseteq Proc /\ seen' \subseteq Object
                 /\ file' \in {file, s} /\ HistoryTypes' /\ happened \subseteq happened'
                 /\ pc' \in [Client -> PC] /\ \A d \in Client : d # c => pc'[d] = pc[d]
                 /\ \/ pc'[c] = l /\ file' = s /\ happened' = happened
                    \/ pc'[c] = f /\ "write" \in happened'
      <3>1. lw' = {ProcOf[c]} /\ file' \in {file, s} /\ seen' \subseteq seen
        BY <2>2, Zenon DEF saveLayers, s
      <3>2. pc' \in [Client -> PC] /\ pc'[c] = f /\ \A d \in Client : d # c => pc'[d] = pc[d]
        BY <1>0, <2>2, GoFacts, Zenon DEF PC
      <3>3. HistoryTypes' /\ happened' = happened \cup {"write"}
        BY <1>0, <2>2, HistoryFacts, Zenon
      <3> QED BY <1>0, <1>1, <3>1, <3>2, <3>3, Types, Zenon
    <2> QED BY <2>1, <2>2, Zenon
  <1>3. file' \in Seq(Record)
    BY <1>0, <1>1, <1>2, Types, Zenon
  <1>4. TypeOK'
    BY <1>0, <1>2, <1>3, Types, Zenon DEF TypeOK, HistoryTypes
  <1>5. Writes(c)
    BY <1>0, <1>2, Zenon DEF Writes, Writing, PutSteps
  <1>6. pc'[c] \in PutSteps => layer'[c] \in Layer
    BY <1>0, <1>2, Zenon DEF StateInv, LayerInv, PutSteps
  <1>7. PutAt(c)'
    <2>0. pc'[c] = "apply" => data'[layer'[c]] # "none"
      BY <1>0, <1>2, Zenon DEF ClientAt, PutAt
    <2> SUFFICES ASSUME "write" \notin happened'
                 PROVE  l \in {"apply", "complete"} => layer'[c] \in Incomplete(file')
      BY <1>2, <2>0, Zenon DEF PutAt
    <2>1. PutAt(c) /\ "write" \notin happened /\ file' = s
      BY <1>0, <1>2, Zenon DEF ClientAt
    <2>2. from = "saveDigests" => s = file
      BY <1>1, <2>1, Zenon DEF WriterGood, Saving
    <2> QED BY <2>1, <2>2, Zenon DEF PutAt, s
  <1>8. (happened \cap {"write", "halfDeleted"} = {})' /\ pc'[c] \in {"saveDigests", "complete"} =>
          data'[layer'[c]] = "full"
    BY <1>0, <1>2, Zenon DEF ClientAt, DataAt
  <1>9. WriterRest(c)'
    BY <1>2, <1>7, <1>8, Zenon DEF WriterRest, LoopAt, KeptAt, Saving
  <1>10. pc[c] # "undo" /\ pc'[c] \notin Saving
    BY <1>2, Zenon DEF Saving
  <1>11. file' = s \/ pc[c] \notin {"saveIncomplete", "saveComplete"} \/ pc'[c] = "undo"
    BY <1>2, Zenon
  <1>12. "write" \notin happened' => file' = s
    BY <1>2, Zenon
  <1> QED BY <1>2, <1>4, <1>5, <1>6, <1>9, <1>10, <1>11, <1>12, SavesKeep, Zenon DEF s

LEMMA SaveActionsKeep ==
  ASSUME OneGoroutine, IInv, NEW c \in Client,
         SaveIncomplete(c) \/ SaveDigests(c) \/ SaveComplete(c) \/ SaveRemoved(c)
  PROVE  IInv'
  <1>1. CASE SaveIncomplete(c)
    <2>1. pc[c] = "saveIncomplete" /\ Save(c, "apply", "undo")
          /\ UNCHANGED <<data, layers, readers, writers, graphLock, layerStore, call, rlstore, layer, loop>>
      BY <1>1, Zenon DEF SaveIncomplete, lock
    <2> QED BY <2>1, SaveStep, Zenon DEF Save
  <1>2. CASE SaveDigests(c)
    <2>1. pc[c] = "saveDigests" /\ Save(c, "complete", "remove")
          /\ UNCHANGED <<data, layers, readers, writers, graphLock, layerStore, call, rlstore, layer, loop>>
      BY <1>2, Zenon DEF SaveDigests, lock
    <2> QED BY <2>1, SaveStep, Zenon DEF Save
  <1>3. CASE SaveComplete(c)
    <2>1. pc[c] = "saveComplete" /\ Save(c, "return", "undo")
          /\ UNCHANGED <<data, layers, readers, writers, graphLock, layerStore, call, rlstore, layer, loop>>
      BY <1>3, Zenon DEF SaveComplete, lock
    <2> QED BY <2>1, SaveStep, Zenon DEF Save
  <1>4. CASE SaveRemoved(c)
    <2>1. pc[c] = "saveRemoved" /\ Save(c, "return", "return")
          /\ UNCHANGED <<data, layers, readers, writers, graphLock, layerStore, call, rlstore, layer, loop>>
      BY <1>4, Zenon DEF SaveRemoved, lock
    <2> QED BY <2>1, SaveStep, Zenon DEF Save
  <1> QED BY <1>1, <1>2, <1>3, <1>4, Zenon

LEMMA SaveLoopKeeps ==
  ASSUME OneGoroutine, IInv, NEW c \in Client, SaveLoop(c)
  PROVE  IInv'
  <1>0. StateInv /\ c \in writers /\ pc[c] = "saveLoop"
    BY Zenon DEF IInv, StateInv, LockInv, LockAt, Writing, SaveLoop
  <1>1. /\ UNCHANGED <<data, layers, readers, writers, call, rlstore, layer, loop>>
        /\ \/ saveLayers(c, TRUE) /\ Loaded(c, rlstore[c], call[c]) /\ UNCHANGED history
           \/ saveLayers(c, FALSE) /\ Fault("write") /\ Go(c, "return") /\ UNCHANGED <<graphLock, layerStore>>
    BY <1>0, LockedIff, Zenon DEF SaveLoop, lock
  <1>2. \/ saveLayers(c, TRUE) /\ Go(c, "ready") /\ UNCHANGED history /\ UNCHANGED <<graphLock, layerStore>>
        \/ saveLayers(c, FALSE) /\ Fault("write") /\ Go(c, "return") /\ UNCHANGED <<graphLock, layerStore>>
    BY <1>0, <1>1, LoadedFacts, Zenon
  <1> QED BY <1>0, <1>1, <1>2, SaveStep, Zenon

-----------------------------------------------------------------------------
(* Steps of Put and Delete that change contents or the copy. *)

\* The driver changes what it has of one layer, which no complete record is about.
LEMMA ContentsKeep ==
  ASSUME OneGoroutine, IInv, NEW c \in Client, Writes(c), TypeOK', pc'[c] \in PutSteps => layer'[c] \in Layer,
         UNCHANGED <<file, layers>>, NEW l \in Layer, \A x \in Layer : x # l => data'[x] = data[x],
         pc[c] \notin Saving, pc'[c] \notin Saving,
         "write" \notin happened => \A r \in Range(file) : r.id = l => r.incomplete,
         \A x \in Layer : x # l => ~Making(c, x),
         happened' \subseteq {"apply", "write"} /\ data'[l] # "none" =>
             \/ pc'[c] = "undo" /\ layer'[c] = l
             \/ data[l] # "none" /\ pc[c] # "undo",
         WriterRest(c)'
  PROVE  IInv'
  <1> DEFINE s == layers[rlstore[c]]
  <1>0. c \in writers /\ pc[c] # "reload" /\ rlstore' = rlstore /\ happened \subseteq happened'
    BY Zenon DEF Writes
  <1>1. StateInv /\ pc[c] # "idle"
    BY <1>0, Alone, Zenon DEF IInv
  <1>2. Unique(file') /\ Unique(layers'[rlstore[c]]) /\ s \in Seq(Record)
    <2>1. Unique(file) /\ Unique(layers[rlstore[c]]) /\ s \in Seq(Record)
      BY <1>1, Working, Zenon DEF StateInv, ListInv
    <2> QED BY <2>1, Zenon
  <1>3. WriterGood(c, s)
    BY <1>0, WriterFacts, Zenon
  <1>4. WriterGood(c, s)'
    <2>1. s' = s
      BY <1>0, Zenon
    <2> HIDE DEF s
    <2>2. "write" \notin happened' => s = file
      BY <1>0, <1>3, Zenon DEF WriterGood
    <2>3. ASSUME (happened \cap {"write", "halfDeleted"} = {})' PROVE FullIn(s)' /\ FullIn(file)'
      <3>1. FullIn(s) /\ s = file /\ "write" \notin happened
        BY <1>0, <1>3, <2>2, <2>3, Zenon DEF WriterGood
      <3>2. ASSUME NEW r \in Range(s) PROVE r.incomplete \/ data'[r.id] = "full"
        <4>1. r.id \in Layer
          BY <1>2, <3>2, RangeFacts, RecordFacts, Zenon
        <4> QED BY <4>1, <3>1, <3>2, Zenon DEF FullIn
      <3> QED BY <2>1, <3>1, <3>2, Zenon DEF FullIn
    <2>4. (happened \cap {"write", "builtOnIncomplete"} = {})' => ParentsIn(s)' /\ ParentsIn(file)'
      BY <1>0, <1>3, <2>1, Zenon DEF WriterGood, ParentsIn
    <2>5. ASSUME happened' \subseteq {"apply", "write"}, NEW x \in Layer, data'[x] # "none"
          PROVE  /\ x \in ids(s)' \/ (pc'[c] = "undo" /\ layer'[c] = x)
                 /\ x \in ids(file)' \/ Making(c, x)'
      <3>0. happened \subseteq {"apply", "write"}
        BY <1>0, <2>5, Zenon
      <3>1. CASE x # l
        <4>1. x \in ids(s) /\ x \in ids(file)
          BY <1>3, <2>5, <3>0, <3>1, Zenon DEF WriterGood, Making
        <4> QED BY <4>1, <2>1, Zenon
      <3>2. CASE x = l /\ pc'[c] = "undo" /\ layer'[c] = l
        BY <3>2, Zenon DEF Making
      <3>3. CASE x = l /\ data[l] # "none" /\ pc[c] # "undo"
        <4>1. x \in ids(s) /\ x \in ids(file)
          BY <1>3, <2>5, <3>0, <3>3, Zenon DEF WriterGood, Making, Saving
        <4> QED BY <4>1, <2>1, Zenon
      <3> QED BY <2>5, <3>1, <3>2, <3>3, Zenon
    <2> QED BY <2>1, <2>2, <2>3, <2>4, <2>5, Zenon DEF WriterGood
  <1>5. CoverFrame(c)
    <2> SUFFICES ASSUME happened' \subseteq {"apply", "write"}, NEW x \in Layer, data'[x] # "none"
                 PROVE  (data[x] # "none" \/ Making(c, x)') /\ (Making(c, x) => Making(c, x)')
      BY Zenon DEF CoverFrame
    <2>1. CASE x # l
      BY <2>1, Zenon
    <2>2. CASE x = l
      BY <2>2, Zenon DEF Making, Saving
    <2> QED BY <2>1, <2>2, Zenon
  <1> QED BY <1>2, <1>4, <1>5, WritesKeep, Zenon

\* A client at a step of Put or Delete.
LEMMA PutFacts ==
  ASSUME IInv, NEW c \in Client, pc[c] \in PutSteps
  PROVE  /\ StateInv /\ c \in writers /\ layer[c] \in Layer /\ ClientAt(c) /\ pc[c] # "reload"
         /\ rlstore[c] \in Object /\ layers[rlstore[c]] \in Seq(Record) /\ Unique(layers[rlstore[c]])
         /\ file \in Seq(Record) /\ Unique(file)
  <1>1. StateInv /\ c \in writers /\ layer[c] \in Layer /\ ClientAt(c) /\ Unique(file)
          /\ pc[c] \notin {"idle", "reload"}
    BY Zenon DEF IInv, StateInv, LockInv, LockAt, LayerInv, ListInv, Writing, PutSteps
  <1> QED BY <1>1, Working, Types, Zenon

\* What a marked layer's ID says of the records.
LEMMA OnlyIncomplete ==
  ASSUME NEW s \in Seq(Record), Unique(s), NEW l, l \in Incomplete(s)
  PROVE  \A r \in Range(s) : r.id = l => r.incomplete
  <1>1. PICK q \in Range(s) : q.id = l /\ q.incomplete
    BY InIncomplete, Zenon
  <1>2. \A r \in Range(s) : r.id = q.id => r = q
    BY UniqueRecords, Zenon
  <1> QED BY <1>1, <1>2, Zenon

\* The driver fills the layer, or fails to.
LEMMA ApplyDiffKeeps ==
  ASSUME OneGoroutine, IInv, NEW c \in Client, ApplyDiff(c)
  PROVE  IInv'
  <1> DEFINE l == layer[c]
  <1>1. /\ pc[c] = "apply"
        /\ UNCHANGED <<file, lw, seen, layers, readers, writers, graphLock, layerStore, call, rlstore, layer, loop>>
        /\ \/ data' = [data EXCEPT ![l] = IF @ = "none" THEN "partial" ELSE "full"] /\ Go(c, "saveDigests")
                /\ UNCHANGED history
           \/ data' = [data EXCEPT ![l] = "partial"] /\ Fault("apply") /\ Go(c, "remove")
    BY Zenon DEF ApplyDiff, known, lock
  <1>2. /\ StateInv /\ c \in writers /\ l \in Layer /\ ClientAt(c)
        /\ file \in Seq(Record) /\ Unique(file)
    BY <1>1, PutFacts, Zenon DEF PutSteps
  <1>3. PutAt(c) /\ data[l] # "none"
    BY <1>1, <1>2, Zenon DEF ClientAt, PutAt
  <1>4. /\ data' \in [Layer -> {"none", "empty", "partial", "full"}]
        /\ \A x \in Layer : x # l => data'[x] = data[x]
        /\ HistoryTypes' /\ happened \subseteq happened'
        /\ pc' \in [Client -> PC] /\ \A d \in Client : d # c => pc'[d] = pc[d]
        /\ \/ pc'[c] = "saveDigests" /\ data'[l] = "full"
           \/ pc'[c] = "remove"
    <2>1. CASE data' = [data EXCEPT ![l] = IF @ = "none" THEN "partial" ELSE "full"] /\ Go(c, "saveDigests")
                 /\ UNCHANGED history
      <3>1. data' = [data EXCEPT ![l] = "full"]
        BY <1>3, <2>1, Zenon
      <3>2. data' \in [Layer -> {"none", "empty", "partial", "full"}] /\ data'[l] = "full"
              /\ \A x \in Layer : x # l => data'[x] = data[x]
        BY <1>2, <3>1, Types, Zenon
      <3>3. HistoryTypes' /\ happened' = happened
        BY <1>2, <2>1, HistoryFacts, Zenon
      <3>4. pc' \in [Client -> PC] /\ pc'[c] = "saveDigests" /\ \A d \in Client : d # c => pc'[d] = pc[d]
        BY <1>2, <2>1, GoFacts, Zenon DEF PC
      <3> QED BY <3>2, <3>3, <3>4, Zenon
    <2>2. CASE data' = [data EXCEPT ![l] = "partial"] /\ Fault("apply") /\ Go(c, "remove")
      <3>2. data' \in [Layer -> {"none", "empty", "partial", "full"}]
              /\ \A x \in Layer : x # l => data'[x] = data[x]
        BY <1>2, <2>2, Types, Zenon
      <3>3. HistoryTypes' /\ happened' = happened \cup {"apply"}
        BY <1>2, <2>2, HistoryFacts, Zenon
      <3>4. pc' \in [Client -> PC] /\ pc'[c] = "remove" /\ \A d \in Client : d # c => pc'[d] = pc[d]
        BY <1>2, <2>2, GoFacts, Zenon DEF PC
      <3> QED BY <3>2, <3>3, <3>4, Zenon
    <2> QED BY <1>1, <2>1, <2>2, Zenon
  <1>5. TypeOK'
    BY <1>1, <1>2, <1>4, Types, Zenon DEF TypeOK, HistoryTypes
  <1>6. Writes(c)
    BY <1>1, <1>2, <1>4, Zenon DEF Writes, Writing, PutSteps
  <1>7. "write" \notin happened => l \in Incomplete(file) /\ \A r \in Range(file) : r.id = l => r.incomplete
    BY <1>1, <1>2, <1>3, OnlyIncomplete, Zenon DEF PutAt
  <1>8. (happened \cap {"write", "builtOnIncomplete"} = {})' => \A r \in Range(file)' : r.parent # layer'[c]
    <2> SUFFICES ASSUME happened \cap {"write", "builtOnIncomplete"} = {} PROVE \A r \in Range(file) : r.parent # l
      BY <1>1, <1>4, Zenon
    <2>1. ParentsIn(file) /\ "write" \notin happened
      BY Zenon DEF IInv, ParentInv
    <2>2. l # None
      BY <1>2, NoneAssumption, Zenon
    <2> QED BY <1>7, <2>1, <2>2, Zenon DEF ParentsIn
  <1>9. WriterRest(c)'
    <2>1. PutAt(c)'
      BY <1>1, <1>4, <1>7, Zenon DEF PutAt
    <2> QED BY <1>1, <1>4, <1>8, <2>1, Zenon DEF WriterRest, LoopAt, KeptAt, Saving
  <1>10. \A x \in Layer : ~Making(c, x)
    BY <1>1, Zenon DEF Making
  <1>11. pc[c] \notin Saving /\ pc'[c] \notin Saving /\ pc[c] # "undo"
    BY <1>1, <1>4, Zenon DEF Saving
  <1>12. layer'[c] \in Layer /\ UNCHANGED <<file, layers>>
    BY <1>1, <1>2, Zenon
  <1> HIDE DEF l
  <1> QED BY <1>2, <1>3, <1>4, <1>5, <1>6, <1>7, <1>9, <1>10, <1>11, <1>12, ContentsKeep, Zenon

\* Put removes what it has no record of, or fails to.
LEMMA UndoKeeps ==
  ASSUME OneGoroutine, IInv, NEW c \in Client, Undo(c)
  PROVE  IInv'
  <1> DEFINE l == layer[c]
             s == layers[rlstore[c]]
  <1>1. /\ pc[c] = "undo" /\ Go(c, "return")
        /\ UNCHANGED <<file, lw, seen, layers, readers, writers, graphLock, layerStore, call, rlstore, layer, loop>>
        /\ \/ data' = [data EXCEPT ![l] = "none"] /\ UNCHANGED history
           \/ Fault("remove") /\ UNCHANGED data
    BY Zenon DEF Undo, known, lock
  <1>2. /\ StateInv /\ c \in writers /\ l \in Layer /\ ClientAt(c) /\ pc[c] # "reload"
    BY <1>1, PutFacts, Zenon DEF PutSteps
  <1>3. pc' \in [Client -> PC] /\ pc'[c] = "return" /\ \A d \in Client : d # c => pc'[d] = pc[d]
    BY <1>1, <1>2, GoFacts, Zenon DEF PC
  <1>4. "write" \notin happened => s = file
    BY <1>1, <1>2, WriterFacts, Zenon DEF WriterGood, Saving
  <1>5. WriterRest(c)'
    BY <1>3, Zenon DEF WriterRest, LoopAt, KeptAt, PutAt, Saving
  <1>6. CASE data' = [data EXCEPT ![l] = "none"] /\ UNCHANGED history
    <2>1. HistoryTypes' /\ happened' = happened
      BY <1>2, <1>6, HistoryFacts, Zenon
    <2>2. data' \in [Layer -> {"none", "empty", "partial", "full"}] /\ data'[l] = "none"
            /\ \A x \in Layer : x # l => data'[x] = data[x]
      BY <1>2, <1>6, Types, Zenon
    <2>3. TypeOK'
      BY <1>1, <1>2, <1>3, <2>1, <2>2, Types, Zenon DEF TypeOK, HistoryTypes
    <2>4. Writes(c)
      BY <1>1, <1>2, <1>3, <2>1, Zenon DEF Writes, Writing, PutSteps
    <2>5. "write" \notin happened => \A r \in Range(file) : r.id = l => r.incomplete
      BY <1>1, <1>2, Zenon DEF ClientAt, PutAt, ids
    <2>6. \A x \in Layer : x # l => ~Making(c, x)
      BY Zenon DEF Making
    <2>7. pc[c] \notin Saving /\ pc'[c] \notin Saving /\ pc'[c] \notin PutSteps
      BY <1>1, <1>3, Zenon DEF Saving, PutSteps
    <2> HIDE DEF l
    <2> QED BY <1>1, <1>2, <1>5, <2>2, <2>3, <2>4, <2>5, <2>6, <2>7, ContentsKeep, Zenon
  <1>7. CASE Fault("remove") /\ UNCHANGED data
    <2>1. HistoryTypes' /\ happened' = happened \cup {"remove"}
      BY <1>2, <1>7, HistoryFacts, Zenon
    <2>3. TypeOK'
      BY <1>1, <1>2, <1>3, <1>7, <2>1, Types, Zenon DEF TypeOK, HistoryTypes
    <2>4. Writes(c)
      BY <1>1, <1>2, <1>3, <2>1, Zenon DEF Writes, Writing, PutSteps
    <2> QED BY <1>1, <1>3, <1>4, <1>5, <1>7, <2>1, <2>3, <2>4, SteadyKeeps, Zenon DEF PutSteps
  <1> QED BY <1>1, <1>6, <1>7, Zenon

\* Put drops the flag of its layer.
LEMMA CompleteKeeps ==
  ASSUME OneGoroutine, IInv, NEW c \in Client, Complete(c)
  PROVE  IInv'
  <1> DEFINE o == rlstore[c]
  <1>0. PICK s, l, t : s = layers[o] /\ l = layer[c] /\ t = Marked(s, l)
    BY Zenon
  <1>1. /\ pc[c] = "complete" /\ Go(c, "saveComplete") /\ layers' = [layers EXCEPT ![o] = t]
        /\ UNCHANGED <<file, data, lw, seen, readers, writers, graphLock, layerStore, call, rlstore, layer, loop>>
        /\ UNCHANGED history
    BY <1>0, Zenon DEF Complete, Marked, disk, known, lock
  <1>2. /\ StateInv /\ c \in writers /\ l \in Layer /\ ClientAt(c) /\ pc[c] # "reload" /\ o \in Object
        /\ s \in Seq(Record) /\ Unique(s) /\ Unique(file)
    BY <1>0, <1>1, PutFacts, Zenon DEF PutSteps
  <1>3. WriterGood(c, s)
    BY <1>0, <1>2, WriterFacts, Zenon
  <1>4. /\ t \in Seq(Record) /\ Unique(t)
        /\ \A r \in Range(s) : \E q \in Range(t) : q.id = r.id /\ (r.incomplete \/ ~q.incomplete)
        /\ \A q \in Range(t) : \E r \in Range(s) : r.id = q.id /\ r.parent = q.parent /\ (q.id = l \/ r = q)
    <2>1. s \in Seq(Record) /\ Unique(s) /\ t = Marked(s, l)
      BY <1>0, <1>2, Zenon
    <2> QED BY <2>1, MarkedFacts
  <1>5. /\ layers' \in [Object -> Seq(Record)] /\ layers'[o] = t
        /\ \A x \in Object : x # o => layers'[x] = layers[x]
    BY <1>1, <1>2, <1>4, Types, Zenon
  <1>6. pc' \in [Client -> PC] /\ pc'[c] = "saveComplete" /\ \A d \in Client : d # c => pc'[d] = pc[d]
    BY <1>1, <1>2, GoFacts, Zenon DEF PC
  <1>7. HistoryTypes' /\ happened' = happened
    BY <1>1, <1>2, HistoryFacts, Zenon
  <1>8. TypeOK'
    BY <1>1, <1>2, <1>5, <1>6, <1>7, Types, Zenon DEF TypeOK, HistoryTypes
  <1>9. Writes(c)
    BY <1>1, <1>2, <1>5, <1>6, <1>7, Zenon DEF Writes, Writing, PutSteps
  <1>10. layers'[rlstore'[c]] = t /\ file' = file /\ data' = data
    BY <1>1, <1>5, Zenon
  <1>11. \A x : x \in ids(s) <=> x \in ids(t)
    <2>1. ASSUME NEW x, x \in ids(s) PROVE x \in ids(t)
      BY <1>4, <2>1 DEF ids
    <2>2. ASSUME NEW x, x \in ids(t) PROVE x \in ids(s)
      BY <1>4, <2>2 DEF ids
    <2> QED BY <2>1, <2>2, Zenon
  <1>12. "write" \notin happened => s = file
    BY <1>1, <1>3, Zenon DEF WriterGood, Saving
  <1>13. WriterGood(c, t)'
    <2>1. ASSUME happened \cap {"write", "halfDeleted"} = {}
          PROVE  FullIn(file) /\ \A r \in Range(t) : r.incomplete \/ data[r.id] = "full"
      <3>1. FullIn(file) /\ FullIn(s) /\ data[l] = "full"
        BY <1>0, <1>1, <1>2, <1>3, <2>1, Zenon DEF WriterGood, ClientAt, DataAt
      <3> QED BY <1>4, <3>1, Zenon DEF FullIn
    <2>2. ASSUME happened \cap {"write", "builtOnIncomplete"} = {} PROVE ParentsIn(t) /\ ParentsIn(file)
      <3>1. ParentsIn(s) /\ ParentsIn(file)
        BY <1>3, <2>2, Zenon DEF WriterGood
      <3>2. ASSUME NEW q \in Range(t), q.parent # None PROVE \E x \in Range(t) : x.id = q.parent /\ ~x.incomplete
        <4>1. PICK r \in Range(s) : r.parent = q.parent
          BY <1>4, Zenon
        <4>2. PICK y \in Range(s) : y.id = q.parent /\ ~y.incomplete
          BY <3>1, <3>2, <4>1, Zenon DEF ParentsIn
        <4> QED BY <1>4, <4>2, Zenon
      <3> QED BY <3>1, <3>2, Zenon DEF ParentsIn
    <2>3. ASSUME happened \subseteq {"apply", "write"}, NEW x \in Layer, data[x] # "none"
          PROVE  x \in ids(t) /\ x \in ids(file)
      BY <1>1, <1>3, <1>11, <2>3, Zenon DEF WriterGood, Making
    <2> QED BY <1>6, <1>7, <1>10, <2>1, <2>2, <2>3, Zenon DEF WriterGood, FullIn, Saving
  <1>14. WriterRest(c)'
    <2>1. KeptAt(c)'
      <3>1. "write" \notin happened => \A r \in Range(file) : r.id \in ids(t)
        BY <1>11, <1>12, InIds, Zenon
      <3> QED BY <1>7, <1>10, <3>1, Zenon DEF KeptAt
    <2> QED BY <1>6, <2>1, Zenon DEF WriterRest, LoopAt, PutAt
  <1>15. CoverFrame(c)
    BY <1>1, <1>10, Zenon DEF CoverFrame, Making
  <1>16. layer'[c] \in Layer /\ Unique(file')
    BY <1>0, <1>1, <1>2, Zenon
  <1> QED BY <1>4, <1>5, <1>8, <1>9, <1>13, <1>14, <1>15, <1>16, WritesCopyKeep, Zenon

\* The contents and the record of a layer go, or the driver fails to remove it.
LEMMA DeleteInternalKeeps ==
  ASSUME OneGoroutine, IInv, NEW c \in Client, deleteInternal(c)
  PROVE  IInv'
  <1> DEFINE o == rlstore[c]
  <1>0. PICK s, l, t : s = layers[o] /\ l = layer[c] /\ t = Without(s, l)
    BY Zenon
  <1>1. /\ pc[c] = "remove"
        /\ UNCHANGED <<file, lw, seen, readers, writers, graphLock, layerStore, call, rlstore, layer, loop>>
        /\ \/ data' = [data EXCEPT ![l] = "none"] /\ layers' = [layers EXCEPT ![o] = t] /\ Go(c, "saveRemoved")
                /\ UNCHANGED history
           \/ Fault("remove") /\ Go(c, "return") /\ UNCHANGED <<data, layers>>
    BY <1>0, Zenon DEF deleteInternal, known, lock
  <1>2. /\ StateInv /\ c \in writers /\ l \in Layer /\ ClientAt(c) /\ pc[c] # "reload" /\ o \in Object
        /\ s \in Seq(Record) /\ Unique(s) /\ file \in Seq(Record) /\ Unique(file)
    BY <1>0, <1>1, PutFacts, Zenon DEF PutSteps
  <1>3. WriterGood(c, s)
    BY <1>0, <1>2, WriterFacts, Zenon
  <1>4. "write" \notin happened => s = file
    BY <1>1, <1>3, Zenon DEF WriterGood, Saving
  <1>5. CASE Fault("remove") /\ Go(c, "return") /\ UNCHANGED <<data, layers>>
    <2>1. pc' \in [Client -> PC] /\ pc'[c] = "return" /\ \A d \in Client : d # c => pc'[d] = pc[d]
      BY <1>2, <1>5, GoFacts, Zenon DEF PC
    <2>2. HistoryTypes' /\ happened' = happened \cup {"remove"}
      BY <1>2, <1>5, HistoryFacts, Zenon
    <2>3. TypeOK'
      BY <1>1, <1>2, <1>5, <2>1, <2>2, Types, Zenon DEF TypeOK, HistoryTypes
    <2>4. Writes(c)
      BY <1>1, <1>2, <1>5, <2>1, <2>2, Zenon DEF Writes, Writing, PutSteps
    <2>5. WriterRest(c)'
      BY <2>1, Zenon DEF WriterRest, LoopAt, KeptAt, PutAt, Saving
    <2> QED BY <1>0, <1>1, <1>4, <1>5, <2>1, <2>2, <2>3, <2>4, <2>5, SteadyKeeps, Zenon DEF PutSteps
  <1>6. CASE data' = [data EXCEPT ![l] = "none"] /\ layers' = [layers EXCEPT ![o] = t] /\ Go(c, "saveRemoved")
               /\ UNCHANGED history
    <2>1. pc' \in [Client -> PC] /\ pc'[c] = "saveRemoved" /\ \A d \in Client : d # c => pc'[d] = pc[d]
      BY <1>2, <1>6, GoFacts, Zenon DEF PC
    <2>2. HistoryTypes' /\ happened' = happened
      BY <1>2, <1>6, HistoryFacts, Zenon
    <2>3. t \in Seq(Record) /\ Unique(t) /\ Range(t) = {r \in Range(s) : r.id # l}
      <3>1. s \in Seq(Record) /\ Unique(s) /\ t = Without(s, l)
        BY <1>0, <1>2, Zenon
      <3> QED BY <3>1, WithoutFacts, Zenon
    <2>4. /\ layers' \in [Object -> Seq(Record)] /\ layers'[o] = t
          /\ \A x \in Object : x # o => layers'[x] = layers[x]
      BY <1>2, <1>6, <2>3, Types, Zenon
    <2>5. /\ data' \in [Layer -> {"none", "empty", "partial", "full"}] /\ data'[l] = "none"
          /\ \A x \in Layer : x # l => data'[x] = data[x]
      BY <1>2, <1>6, Types, Zenon
    <2>6. TypeOK'
      BY <1>1, <1>2, <2>1, <2>2, <2>4, <2>5, Types, Zenon DEF TypeOK, HistoryTypes
    <2>7. Writes(c)
      BY <1>1, <1>2, <2>1, <2>2, <2>4, Zenon DEF Writes, Writing, PutSteps
    <2>8. layers'[rlstore'[c]] = t /\ file' = file /\ layer'[c] = l
      BY <1>0, <1>1, <2>4, Zenon
    <2>9. \A r \in Range(s) \cup Range(file) : r.id \in Layer
      BY <1>2, RangeFacts, RecordFacts, Zenon
    <2>10. WriterGood(c, t)'
      <3>1. ASSUME happened \cap {"write", "halfDeleted"} = {}
            PROVE  \A r \in Range(t) : r.incomplete \/ data'[r.id] = "full"
        BY <1>3, <2>3, <2>5, <2>9, <3>1, Zenon DEF WriterGood, FullIn
      <3>2. ASSUME happened \cap {"write", "builtOnIncomplete"} = {} PROVE ParentsIn(t) /\ ParentsIn(file)
        <4>1. ParentsIn(s) /\ ParentsIn(file) /\ s = file
          BY <1>3, <1>4, <3>2, Zenon DEF WriterGood
        <4>2. \A r \in Range(s) : r.parent # l
          BY <1>0, <1>1, <1>2, <3>2, <4>1, Zenon DEF ClientAt, ParentAt
        <4> QED BY <2>3, <4>1, <4>2, Zenon DEF ParentsIn
      <3>3. ASSUME happened \subseteq {"apply", "write"}, NEW x \in Layer, data'[x] # "none"
            PROVE  x \in ids(t) /\ x \in ids(file)
        <4>1. x # l /\ data[x] # "none"
          BY <2>5, <3>3, Zenon
        <4>2. x \in ids(s) /\ x \in ids(file)
          BY <1>1, <1>3, <3>3, <4>1, Zenon DEF WriterGood, Making
        <4> QED BY <2>3, <4>1, <4>2, InIds, Zenon
      <3> QED BY <2>1, <2>2, <2>8, <3>1, <3>2, <3>3, Zenon DEF WriterGood, FullIn, Saving
    <2>11. WriterRest(c)'
      <3>1. KeptAt(c)'
        <4>1. "write" \notin happened => \A r \in Range(file) : r.id \in ids(t) \/ r.id = l
          BY <1>4, <2>3, InIds, Zenon
        <4> QED BY <2>1, <2>2, <2>8, <4>1, Zenon DEF KeptAt
      <3>2. happened \cap {"write", "halfDeleted"} = {} =>
              \A r \in Range(file) : r.incomplete \/ data'[r.id] = "full" \/ l = r.id
        BY <1>1, <1>3, <2>5, <2>9, Zenon DEF WriterGood, FullIn
      <3> QED BY <2>1, <2>2, <2>8, <3>1, <3>2, Zenon DEF WriterRest, LoopAt, PutAt
    <2>12. CoverFrame(c)
      BY <1>1, <2>5, Zenon DEF CoverFrame, Making
    <2>13. layer'[c] \in Layer /\ Unique(file')
      BY <1>2, <2>8, Zenon
    <2> QED BY <2>3, <2>4, <2>6, <2>7, <2>10, <2>11, <2>12, <2>13, WritesCopyKeep, Zenon
  <1> QED BY <1>1, <1>5, <1>6, Zenon

\* Put makes a layer that has no record yet, and records it in the copy.
LEMMA CreatedKeeps ==
  ASSUME OneGoroutine, IInv, NEW c \in Client, NEW l \in Layer, NEW parent \in Layer \cup {None},
         NEW diff \in BOOLEAN,
         pc[c] = "ready", call[c] = "Put", l \notin ids(layers[rlstore[c]]),
         parent \in ids(layers[rlstore[c]]) \cup {None},
         data' = [data EXCEPT ![l] = IF ~diff THEN "full" ELSE IF @ = "none" THEN "empty" ELSE @],
         layers' = [layers EXCEPT ![rlstore[c]] = Append(@, [id |-> l, parent |-> parent, incomplete |-> diff])],
         layer' = [layer EXCEPT ![c] = l],
         happened' = happened \cup {h \in {"builtOnIncomplete"} : parent \in Incomplete(layers[rlstore[c]])},
         Go(c, IF diff THEN "saveIncomplete" ELSE "saveComplete"), UNCHANGED faults,
         UNCHANGED <<file, lw, seen, readers, writers, graphLock, layerStore, call, rlstore, loop>>
  PROVE  IInv'
  <1> DEFINE o == rlstore[c]
  <1>0. PICK s, new, t : s = layers[o] /\ new = [id |-> l, parent |-> parent, incomplete |-> diff]
               /\ t = Append(s, new)
    BY Zenon
  <1>1. StateInv /\ c \in writers /\ ("write" \notin happened => s = file)
    BY <1>0, ReadyFacts, Zenon
  <1>2. o \in Object /\ s \in Seq(Record) /\ Unique(s) /\ Unique(file) /\ file \in Seq(Record)
    BY <1>0, <1>1, Working, Types, Zenon DEF StateInv, ListInv
  <1>3. WriterGood(c, s)
    BY <1>0, <1>1, WriterFacts, Zenon
  <1>4. new \in Record /\ new.id = l /\ new.parent = parent /\ new.incomplete = diff
    BY <1>0 DEF Record
  <1>5. t \in Seq(Record) /\ Range(t) = Range(s) \cup {new} /\ Unique(t)
    <2>1. t = Append(s, new) /\ new.id \notin ids(s)
      BY <1>0, <1>4, Zenon
    <2> QED BY <1>2, <1>4, <2>1, AppendFacts, Zenon
  <1>6. /\ layers' \in [Object -> Seq(Record)] /\ layers'[o] = t
        /\ \A x \in Object : x # o => layers'[x] = layers[x]
    <2>1. layers' = [layers EXCEPT ![o] = t]
      BY <1>0, <1>1, <1>2, Types, Zenon
    <2>2. layers \in [Object -> Seq(Record)]
      BY <1>1, Types, Zenon
    <2> QED BY <1>2, <1>5, <2>1, <2>2
  <1>7. /\ data' \in [Layer -> {"none", "empty", "partial", "full"}] /\ data'[l] # "none"
             /\ (~diff => data'[l] = "full")
        /\ \A x \in Layer : x # l => data'[x] = data[x]
    BY <1>1, Types
  <1>8. /\ layer' \in [Client -> Layer \cup {None}] /\ layer'[c] = l
        /\ \A d \in Client : d # c => layer'[d] = layer[d]
    BY <1>1, LayerFacts, Zenon
  <1>9. /\ pc' \in [Client -> PC] /\ pc'[c] = (IF diff THEN "saveIncomplete" ELSE "saveComplete")
        /\ \A d \in Client : d # c => pc'[d] = pc[d]
    <2>1. (IF diff THEN "saveIncomplete" ELSE "saveComplete") \in PC
      BY Zenon DEF PC
    <2> QED BY <1>1, <2>1, GoFacts, Zenon
  <1>10. /\ happened' \subseteq FaultKind \cup {"halfDeleted", "builtOnIncomplete"} /\ happened \subseteq happened'
         /\ "builtOnIncomplete" \notin happened' => parent \notin Incomplete(s)
    BY <1>0, <1>1, Types, Zenon
  <1>11. TypeOK'
    BY <1>1, <1>6, <1>7, <1>8, <1>9, <1>10, Types, Zenon DEF TypeOK
  <1>12. Writes(c)
    BY <1>1, <1>6, <1>8, <1>9, <1>10, Zenon DEF Writes, Writing, PutSteps
  <1>13. layers'[rlstore'[c]] = t /\ file' = file
    BY <1>6, Zenon
  <1>14. \A r \in Range(s) : r.id \in Layer /\ r.id # l
    BY <1>0, <1>2, RangeFacts, RecordFacts, InIds, Zenon
  <1>15. WriterGood(c, t)'
    <2>1. ASSUME (happened \cap {"write", "halfDeleted"} = {})'
          PROVE  (\A r \in Range(t) : r.incomplete \/ data'[r.id] = "full")
                   /\ \A r \in Range(file) : r.incomplete \/ data'[r.id] = "full"
      <3>1. FullIn(s) /\ s = file
        BY <1>1, <1>3, <1>10, <2>1, Zenon DEF WriterGood
      <3>2. \A r \in Range(s) : r.incomplete \/ data'[r.id] = "full"
        BY <1>7, <1>14, <3>1, Zenon DEF FullIn
      <3> QED BY <1>4, <1>5, <1>7, <3>1, <3>2, Zenon
    <2>2. ASSUME (happened \cap {"write", "builtOnIncomplete"} = {})' PROVE ParentsIn(t) /\ ParentsIn(file)
      <3>1. ParentsIn(s) /\ ParentsIn(file) /\ parent \notin Incomplete(s)
        BY <1>3, <1>10, <2>2, Zenon DEF WriterGood
      <3>2. parent = None \/ \E q \in Range(s) : q.id = parent /\ ~q.incomplete
        <4>1. parent \in ids(s) \/ parent = None
          BY <1>0, Zenon
        <4>2. parent \in ids(s) => \E q \in Range(s) : q.id = parent
          BY InIds, Zenon
        <4>3. ~ \E q \in Range(s) : q.id = parent /\ q.incomplete
          BY <3>1, InIncomplete, Zenon
        <4> QED BY <4>1, <4>2, <4>3, Zenon
      <3> QED BY <1>4, <1>5, <3>1, <3>2, Zenon DEF ParentsIn
    <2>3. ASSUME happened' \subseteq {"apply", "write"}, NEW x \in Layer, data'[x] # "none"
          PROVE  x \in ids(t) /\ (x \in ids(file) \/ Making(c, x)')
      <3>1. CASE x = l
        BY <1>4, <1>5, <1>8, <1>9, <3>1, InIds, Zenon DEF Making
      <3>2. CASE x # l
        <4>1. x \in ids(s) /\ x \in ids(file)
          <5>1. data[x] # "none" /\ happened \subseteq {"apply", "write"} /\ x \in Layer
            BY <1>7, <1>10, <2>3, <3>2, Zenon
          <5>2. ~Making(c, x) /\ pc[c] # "undo"
            BY Zenon DEF Making
          <5> QED BY <1>3, <5>1, <5>2, Zenon DEF WriterGood
        <4>2. PICK q \in Range(s) : q.id = x
          BY <4>1, InIds, Zenon
        <4>3. q \in Range(t)
          BY <1>5, <4>2, Zenon
        <4>4. x \in ids(t)
          BY <4>2, <4>3, InIds, Zenon
        <4> QED BY <4>1, <4>4, Zenon
      <3> QED BY <3>1, <3>2, Zenon
    <2> QED BY <1>9, <1>13, <2>1, <2>2, <2>3, Zenon DEF WriterGood, FullIn, Saving
  <1>16. WriterRest(c)'
    <2>1. KeptAt(c)'
      <3>1. "write" \notin happened => \A r \in Range(file) : r.id \in ids(t)
        BY <1>1, <1>5, InIds, Zenon
      <3> QED BY <1>10, <1>13, <3>1, Zenon DEF KeptAt
    <2>2. PutAt(c)'
      <3>1. diff => l \in Incomplete(t)
        BY <1>4, <1>5, InIncomplete, Zenon
      <3> QED BY <1>7, <1>8, <1>9, <1>13, <3>1, Zenon DEF PutAt
    <2> QED BY <1>9, <2>1, <2>2, Zenon DEF WriterRest, LoopAt
  <1>17. CoverFrame(c)
    BY <1>7, <1>8, <1>9, Zenon DEF CoverFrame, Making
  <1>18. layer'[c] \in Layer /\ Unique(file')
    BY <1>2, <1>8, <1>13, Zenon
  <1> QED BY <1>5, <1>6, <1>11, <1>12, <1>15, <1>16, <1>17, <1>18, WritesCopyKeep, Zenon

LEMMA CreateKeeps ==
  ASSUME OneGoroutine, IInv, NEW c \in Client, NEW l \in Layer, NEW parent \in Layer \cup {None},
         NEW diff \in BOOLEAN,
         Create(c, l, parent, diff)
  PROVE  IInv'
  <1> DEFINE s == layers[rlstore[c]]
             valid == l \notin ids(s) /\ parent \in ids(s) \cup {None}
  <1>1. /\ pc[c] = "ready" /\ call[c] = "Put"
        /\ UNCHANGED <<file, lw, seen, readers, writers, graphLock, layerStore, call, rlstore, loop>>
    BY Zenon DEF Create, known, lock
  <1>2. StateInv /\ c \in writers /\ ("write" \notin happened => s = file)
    BY <1>1, ReadyFacts, Zenon
  <1>3. CASE Go(c, "return") /\ UNCHANGED <<data, layers, layer>> /\ HistoryTypes' /\ happened \subseteq happened'
    <2>1. pc' \in [Client -> PC] /\ pc'[c] = "return" /\ \A d \in Client : d # c => pc'[d] = pc[d]
      BY <1>2, <1>3, GoFacts, Zenon DEF PC
    <2>2. TypeOK'
      BY <1>1, <1>2, <1>3, <2>1, Types, Zenon DEF TypeOK, HistoryTypes
    <2>3. Writes(c)
      BY <1>1, <1>2, <1>3, <2>1, Zenon DEF Writes, Writing, PutSteps
    <2>4. WriterRest(c)'
      BY <2>1, Zenon DEF WriterRest, LoopAt, KeptAt, PutAt, Saving
    <2>5. "write" \notin happened' => s = file
      BY <1>2, <1>3, Zenon
    <2> QED BY <1>1, <1>3, <2>1, <2>2, <2>3, <2>4, <2>5, SteadyKeeps, Zenon DEF PutSteps
  <1>4. ASSUME valid, Fault("apply"), data' = [data EXCEPT ![l] = IF @ = "none" THEN "empty" ELSE @],
               layer' = [layer EXCEPT ![c] = l], Go(c, "undo"), UNCHANGED layers
        PROVE  IInv'
    <2>1. pc' \in [Client -> PC] /\ pc'[c] = "undo" /\ \A d \in Client : d # c => pc'[d] = pc[d]
      BY <1>2, <1>4, GoFacts, Zenon DEF PC
    <2>2. HistoryTypes' /\ happened' = happened \cup {"apply"}
      BY <1>2, <1>4, HistoryFacts, Zenon
    <2>3. data' \in [Layer -> {"none", "empty", "partial", "full"}] /\ data'[l] # "none"
            /\ \A x \in Layer : x # l => data'[x] = data[x]
      BY <1>2, <1>4, Types
    <2>4. /\ layer' \in [Client -> Layer \cup {None}] /\ layer'[c] = l
          /\ \A d \in Client : d # c => layer'[d] = layer[d]
      BY <1>2, <1>4, LayerFacts, Zenon
    <2>5. TypeOK'
      BY <1>1, <1>2, <1>4, <2>1, <2>2, <2>3, <2>4, Types, Zenon DEF TypeOK, HistoryTypes
    <2>6. Writes(c)
      BY <1>1, <1>2, <1>4, <2>1, <2>2, <2>4, Zenon DEF Writes, Writing, PutSteps
    <2>7. "write" \notin happened => l \notin ids(file)
      BY <1>2, <1>4, Zenon
    <2>8. "write" \notin happened => \A r \in Range(file) : r.id = l => r.incomplete
      BY <2>7, InIds, Zenon
    <2>9. WriterRest(c)'
      BY <1>1, <2>1, <2>2, <2>4, <2>7, Zenon DEF WriterRest, LoopAt, KeptAt, PutAt, Saving
    <2>10. pc[c] \notin Saving /\ pc'[c] \notin Saving /\ \A x \in Layer : ~Making(c, x)
      BY <1>1, <2>1, Zenon DEF Saving, Making
    <2>11. layer'[c] \in Layer /\ UNCHANGED <<file, layers>>
      BY <1>1, <1>4, <2>4, Zenon
    <2> QED BY <2>1, <2>3, <2>4, <2>5, <2>6, <2>8, <2>9, <2>10, <2>11, ContentsKeep, Zenon
  <1>5. ASSUME valid, data' = [data EXCEPT ![l] = IF ~diff THEN "full" ELSE IF @ = "none" THEN "empty" ELSE @],
               layers' = [layers EXCEPT ![rlstore[c]] = Append(@, [id |-> l, parent |-> parent, incomplete |-> diff])],
               layer' = [layer EXCEPT ![c] = l],
               happened' = happened \cup {h \in {"builtOnIncomplete"} : parent \in Incomplete(s)},
               Go(c, IF diff THEN "saveIncomplete" ELSE "saveComplete"), UNCHANGED faults
        PROVE  IInv'
    BY <1>1, <1>5, CreatedKeeps, Zenon
  <1>6. CASE valid /\ Fault("apply") /\ Go(c, "return") /\ UNCHANGED <<data, layers, layer>>
    BY <1>2, <1>3, <1>6, HistoryFacts, Zenon
  <1>7. CASE ~valid /\ Go(c, "return") /\ UNCHANGED <<data, layers, layer, history>>
    <2>1. UNCHANGED history
      BY <1>7, Zenon
    <2> QED BY <1>2, <1>3, <1>7, <2>1, HistoryFacts, Zenon
  <1>8. \/ /\ valid
           /\ data' = [data EXCEPT ![l] = IF ~diff THEN "full" ELSE IF @ = "none" THEN "empty" ELSE @]
           /\ layers' = [layers EXCEPT ![rlstore[c]] = Append(@, [id |-> l, parent |-> parent, incomplete |-> diff])]
           /\ layer' = [layer EXCEPT ![c] = l]
           /\ happened' = happened \cup {h \in {"builtOnIncomplete"} : parent \in Incomplete(s)}
           /\ Go(c, IF diff THEN "saveIncomplete" ELSE "saveComplete") /\ UNCHANGED faults
        \/ /\ valid /\ Fault("apply") /\ data' = [data EXCEPT ![l] = IF @ = "none" THEN "empty" ELSE @]
           /\ layer' = [layer EXCEPT ![c] = l] /\ Go(c, "undo") /\ UNCHANGED layers
        \/ valid /\ Fault("apply") /\ Go(c, "return") /\ UNCHANGED <<data, layers, layer>>
        \/ ~valid /\ Go(c, "return") /\ UNCHANGED <<data, layers, layer, history>>
    BY Zenon DEF Create
  <1> QED BY <1>4, <1>5, <1>6, <1>7, <1>8, Zenon

LEMMA LoopFacts ==
  ASSUME StateInv, NEW c \in Client, NEW new \in [array : Seq(Record), len : Nat, i : Nat, shouldSave : BOOLEAN],
         loop' = [loop EXCEPT ![c] = new]
  PROVE  /\ loop' \in [Client -> [array : Seq(Record), len : Nat, i : Nat, shouldSave : BOOLEAN]] /\ loop'[c] = new
         /\ \A d \in Client : d # c => loop'[d] = loop[d]
  BY Zenon DEF StateInv, TypeOK

LEMMA LoopBounds ==
  ASSUME NEW array \in Seq(Record), NEW len \in Nat, NEW i \in Nat, i >= 1, len <= Len(array),
         NEW k \in i..Len(array), NEW j \in 1..len
  PROVE  /\ k \in 1..Len(array) /\ j \in 1..Len(array) /\ len - 1 \in Nat /\ len - 1 <= Len(array)
         /\ k + 1 \in Nat /\ k + 1 >= 1
  OBVIOUS

\* Load removes an incomplete layer: its contents, and its record from the copy.
LoopDelete(c, k, j) ==
    LET s == loop[c]
        removed == Shift(s.array, s.len, j)
    IN
    /\ k \in s.i..Len(s.array) /\ j \in 1..s.len /\ s.array[k].incomplete /\ s.array[j].id = s.array[k].id
    /\ data' = [data EXCEPT ![s.array[k].id] = "none"]
    /\ loop' = [loop EXCEPT ![c] = [array |-> removed, len |-> s.len - 1, i |-> k + 1, shouldSave |-> TRUE]]
    /\ layers' = [layers EXCEPT ![rlstore[c]] = SubSeq(removed, 1, s.len - 1)]
    /\ UNCHANGED <<file, lw, seen, readers, writers, pc, graphLock, layerStore, call, rlstore, layer, history>>

LEMMA LoopDeleteKeeps ==
  ASSUME OneGoroutine, IInv, NEW c \in Client, pc[c] = "loop", NEW k, NEW j, LoopDelete(c, k, j)
  PROVE  IInv'
  <1> DEFINE o == rlstore[c]
  <1>a. PICK array, len, i : array = loop[c].array /\ len = loop[c].len /\ i = loop[c].i
    BY Zenon
  <1>b. PICK removed : removed = Shift(array, len, j)
    BY Zenon
  <1>c. k \in i..Len(array) /\ j \in 1..len /\ array[k].incomplete /\ array[j].id = array[k].id
    BY <1>a, Zenon DEF LoopDelete
  <1>d. /\ data' = [data EXCEPT ![array[k].id] = "none"]
        /\ loop' = [loop EXCEPT ![c] = [array |-> removed, len |-> len - 1, i |-> k + 1, shouldSave |-> TRUE]]
        /\ layers' = [layers EXCEPT ![rlstore[c]] = SubSeq(removed, 1, len - 1)]
    BY <1>a, <1>b, Zenon DEF LoopDelete
  <1>e. UNCHANGED <<file, lw, seen, readers, writers, pc, graphLock, layerStore, call, rlstore, layer, history>>
    BY Zenon DEF LoopDelete
  <1>0. PICK s, t, l, rk : s = layers[o] /\ t = SubSeq(removed, 1, len - 1) /\ rk = array[k] /\ l = rk.id
    BY Zenon
  <1>1. StateInv /\ c \in writers /\ LoopAt(c) /\ KeptAt(c)
    BY Zenon DEF IInv, ClientAt, StateInv, LockInv, LockAt, Writing
  <1>2. o \in Object /\ s \in Seq(Record) /\ Unique(s) /\ Unique(file) /\ file \in Seq(Record)
    BY <1>0, <1>1, Working, Types, Zenon DEF StateInv, ListInv
  <1>3. array \in Seq(Record) /\ len \in Nat /\ i \in Nat
    <2>1. loop[c] \in [array : Seq(Record), len : Nat, i : Nat, shouldSave : BOOLEAN]
      BY <1>1, Types, Zenon
    <2> QED BY <1>a, <2>1
  <1>4. i >= 1 /\ len <= Len(array) /\ Range(array) \subseteq Range(file) /\ s = SubSeq(array, 1, len)
    BY <1>0, <1>1, <1>a, Zenon DEF LoopAt
  <1>5. /\ removed \in Seq(Record) /\ Len(removed) = Len(array) /\ Range(removed) \subseteq Range(array)
        /\ t \in Seq(Record) /\ Range(t) \subseteq Range(s) /\ Unique(t)
        /\ \A r \in Range(s) : r \in Range(t) \/ r = array[j]
    <2>1. /\ Shift(array, len, j) \in Seq(Record) /\ Len(Shift(array, len, j)) = Len(array)
          /\ Range(Shift(array, len, j)) \subseteq Range(array)
          /\ SubSeq(Shift(array, len, j), 1, len - 1) \in Seq(Record)
          /\ Range(SubSeq(Shift(array, len, j), 1, len - 1)) \subseteq Range(SubSeq(array, 1, len))
          /\ \A r \in Range(SubSeq(array, 1, len)) :
                r \in Range(SubSeq(Shift(array, len, j), 1, len - 1)) \/ r = array[j]
          /\ Unique(SubSeq(array, 1, len)) => Unique(SubSeq(Shift(array, len, j), 1, len - 1))
      BY <1>3, <1>4, <1>c, ShiftFacts, Zenon
    <2>2. t = SubSeq(Shift(array, len, j), 1, len - 1) /\ s = SubSeq(array, 1, len)
            /\ removed = Shift(array, len, j)
      BY <1>0, <1>4, <1>b, Zenon
    <2> QED BY <1>2, <2>1, <2>2, Zenon
  <1>6. k \in 1..Len(array) /\ j \in 1..Len(array) /\ len - 1 \in Nat /\ len - 1 <= Len(array) /\ k + 1 \in Nat
          /\ k + 1 >= 1
    BY <1>3, <1>4, <1>c, LoopBounds, Zenon
  <1>7. rk \in Range(file) /\ array[j] \in Range(file) /\ array[j].id = l /\ rk.incomplete
    BY <1>0, <1>3, <1>4, <1>6, <1>c, RangeFacts, Zenon
  <1>8. array[j] = rk /\ (\A r \in Range(file) : r.id = l => r = rk) /\ l \in Layer
    <2>1. \A r, q \in Range(file) : r.id = q.id => r = q
      BY <1>2, UniqueRecords, Zenon
    <2>2. l \in Layer
      BY <1>0, <1>2, <1>7, RangeFacts, RecordFacts, Zenon
    <2> QED BY <1>0, <1>7, <2>1, <2>2, Zenon
  <1>9. Range(s) \subseteq Range(file)
    <2>1. \A m \in 1..len : m \in 1..Len(array)
      BY <1>3, <1>4
    <2>2. DOMAIN s = 1..len /\ \A m \in 1..len : s[m] = array[m]
      BY <1>3, <1>4
    <2>3. \A m \in 1..len : s[m] \in Range(array)
      BY <1>3, <2>1, <2>2, RangeFacts, Zenon
    <2>4. Range(s) \subseteq Range(array)
      BY <2>2, <2>3, Zenon DEF Range
    <2> QED BY <1>4, <2>4, Zenon
  <1>10. /\ layers' \in [Object -> Seq(Record)] /\ layers'[o] = t
         /\ \A x \in Object : x # o => layers'[x] = layers[x]
    <2>1. layers' = [layers EXCEPT ![o] = t] /\ layers \in [Object -> Seq(Record)]
      BY <1>d, <1>0, <1>1, Types, Zenon
    <2> QED BY <1>2, <1>5, <2>1
  <1>11. /\ data' \in [Layer -> {"none", "empty", "partial", "full"}] /\ data'[l] = "none"
         /\ \A x \in Layer : x # l => data'[x] = data[x]
    <2>1. data' = [data EXCEPT ![l] = "none"] /\ data \in [Layer -> {"none", "empty", "partial", "full"}]
      BY <1>d, <1>0, <1>1, Types, Zenon
    <2> QED BY <1>8, <2>1
  <1>12. PICK new : new = [array |-> removed, len |-> len - 1, i |-> k + 1, shouldSave |-> TRUE]
    BY Zenon
  <1>13. /\ loop' \in [Client -> [array : Seq(Record), len : Nat, i : Nat, shouldSave : BOOLEAN]] /\ loop'[c] = new
         /\ \A d \in Client : d # c => loop'[d] = loop[d]
    <2>1. new \in [array : Seq(Record), len : Nat, i : Nat, shouldSave : BOOLEAN]
      BY <1>5, <1>6, <1>12
    <2>2. loop' = [loop EXCEPT ![c] = new]
      BY <1>12, <1>d, Zenon
    <2> QED BY <1>1, <2>1, <2>2, LoopFacts, Zenon
  <1>14. pc' = pc /\ layer' = layer /\ file' = file /\ happened' = happened /\ faults' = faults
           /\ rlstore' = rlstore
    BY <1>e, Zenon DEF history
  <1>15. TypeOK'
    BY <1>1, <1>10, <1>11, <1>13, <1>14, <1>e, Types, Zenon DEF TypeOK
  <1>16. Writes(c)
    BY <1>1, <1>10, <1>13, <1>14, <1>e, Zenon DEF Writes, Writing
  <1>17. WriterGood(c, s) /\ s = layers[o]
    BY <1>0, <1>1, WriterFacts, Zenon
  <1>18. WriterGood(c, t)'
    <2>1. ASSUME happened \cap {"write", "halfDeleted"} = {}
          PROVE  (\A r \in Range(t) : r.incomplete \/ data'[r.id] = "full")
                   /\ \A r \in Range(file) : r.incomplete \/ data'[r.id] = "full"
      <3>1. FullIn(file)
        BY <1>17, <2>1, Zenon DEF WriterGood
      <3>2. \A r \in Range(file) : r.id \in Layer
        BY <1>2, RangeFacts, RecordFacts, Zenon
      <3>3. \A r \in Range(file) : r.incomplete \/ data'[r.id] = "full"
        BY <1>7, <1>8, <1>11, <3>1, <3>2, Zenon DEF FullIn
      <3> QED BY <1>5, <1>9, <3>3, Zenon
    <2>2. ASSUME happened \cap {"write", "builtOnIncomplete"} = {} PROVE ParentsIn(t) /\ ParentsIn(file)
      <3>1. ParentsIn(s) /\ ParentsIn(file)
        BY <1>17, <2>2, Zenon DEF WriterGood
      <3>2. \A q \in Range(s) : ~q.incomplete => q \in Range(t)
        BY <1>5, <1>7, <1>8, Zenon
      <3> QED BY <1>5, <3>1, <3>2, Zenon DEF ParentsIn
    <2>3. ASSUME happened \subseteq {"apply", "write"}, NEW x \in Layer, data'[x] # "none"
          PROVE  x \in ids(t) /\ x \in ids(file)
      <3>1. x # l /\ data[x] # "none"
        BY <1>11, <2>3, Zenon
      <3>2. x \in ids(s) /\ x \in ids(file)
        BY <1>17, <2>3, <3>1, Zenon DEF WriterGood, Making
      <3>3. PICK q \in Range(s) : q.id = x
        BY <3>2, InIds, Zenon
      <3>4. q \in Range(t)
        BY <1>0, <1>5, <1>8, <3>1, <3>3, Zenon
      <3> QED BY <3>2, <3>3, <3>4, InIds, Zenon
    <2> QED BY <1>14, <2>1, <2>2, <2>3, Zenon DEF WriterGood, FullIn, Saving
  <1>19. WriterRest(c)'
    <2>1. KeptAt(c)'
      <3>1. ASSUME "write" \notin happened, NEW r \in Range(file), ~r.incomplete
            PROVE  r.id \in ids(t)
        <4>1. r.id \in ids(s)
          BY <1>0, <1>1, <3>1, Zenon DEF KeptAt, Saving
        <4>2. PICK q \in Range(s) : q.id = r.id
          BY <4>1, InIds, Zenon
        <4>3. r # rk /\ q # rk
          BY <1>0, <1>7, <1>8, <3>1, <4>2, Zenon
        <4> QED BY <1>5, <1>8, <4>2, <4>3, InIds, Zenon
      <3> QED BY <1>10, <1>14, <3>1, Zenon DEF KeptAt
    <2>2. LoopAt(c)'
      <3>1. new.array = removed /\ new.len = len - 1 /\ new.i = k + 1 /\ new.shouldSave
        BY <1>12
      <3>2. layers'[rlstore'[c]] = SubSeq(new.array, 1, new.len)
        BY <1>0, <1>10, <1>14, <3>1, Zenon
      <3>3. new.i >= 1 /\ new.len <= Len(new.array) /\ Range(new.array) \subseteq Range(file')
        BY <1>4, <1>5, <1>6, <1>14, <3>1, Zenon
      <3> QED BY <1>13, <1>14, <3>1, <3>2, <3>3, Zenon DEF LoopAt
    <2> QED BY <1>14, <2>1, <2>2, Zenon DEF WriterRest, PutAt
  <1>20. CoverFrame(c)
    BY <1>8, <1>11, <1>14, Zenon DEF CoverFrame, Making
  <1>21. (pc'[c] \in PutSteps => layer'[c] \in Layer) /\ Unique(file')
    BY <1>2, <1>14, Zenon DEF PutSteps
  <1> QED BY <1>5, <1>10, <1>15, <1>16, <1>18, <1>19, <1>20, <1>21, WritesCopyKeep, Zenon

LEMMA LoadLoopKeeps ==
  ASSUME OneGoroutine, IInv, NEW c \in Client, LoadLoop(c)
  PROVE  IInv'
  <1> DEFINE s == loop[c]
             found == {k \in s.i..Len(s.array) : s.array[k].incomplete}
             at(l) == {j \in 1..s.len : s.array[j].id = l}
  <1>1. pc[c] = "loop" /\ UNCHANGED <<file, lw, seen, readers, writers, call, rlstore, layer>>
    BY Zenon DEF LoadLoop, known, lock
  <1>2. StateInv
    BY Zenon DEF IInv
  <1>3. ASSUME NEW err \in BOOLEAN, AfterLoop(c, s.shouldSave, err), loop' = [loop EXCEPT ![c] = NoLoop],
               UNCHANGED <<data, layers>>, HistoryTypes', happened \subseteq happened'
        PROVE  IInv'
    BY <1>1, <1>3, EndLoopKeeps, Zenon
  <1>4. CASE AfterLoop(c, s.shouldSave, FALSE) /\ loop' = [loop EXCEPT ![c] = NoLoop]
               /\ UNCHANGED <<data, layers, history>>
    <2>1. UNCHANGED history
      BY <1>4, Zenon
    <2> QED BY <1>2, <1>3, <1>4, <2>1, HistoryFacts, Zenon
  <1>5. ASSUME NEW k \in found, NEW j \in 1..s.len, j \in at(s.array[k].id),
               data' = [data EXCEPT ![s.array[k].id] = "none"],
               loop' = [loop EXCEPT ![c] = [array |-> Shift(s.array, s.len, j), len |-> s.len - 1, i |-> k + 1,
                                            shouldSave |-> TRUE]],
               layers' = [layers EXCEPT ![rlstore[c]] = SubSeq(Shift(s.array, s.len, j), 1, s.len - 1)],
               UNCHANGED <<pc, graphLock, layerStore, history>>
        PROVE  IInv'
    <2>1. k \in s.i..Len(s.array) /\ s.array[k].incomplete /\ s.array[j].id = s.array[k].id
      BY <1>5, Zenon
    <2>2. LoopDelete(c, k, j)
      BY <1>1, <1>5, <2>1, Zenon DEF LoopDelete
    <2> QED BY <1>1, <2>2, LoopDeleteKeeps, Zenon
  <1>6. CASE /\ UNCHANGED history \/ Fault("remove")
             /\ AfterLoop(c, s.shouldSave, TRUE) /\ loop' = [loop EXCEPT ![c] = NoLoop]
                  /\ UNCHANGED <<data, layers>>
    BY <1>2, <1>3, <1>6, HistoryFacts, Zenon
  <1> QED BY <1>4, <1>5, <1>6, Zenon DEF LoadLoop, IsFirst

\* A step of c that changes neither the file nor the contents, after which it has no layerStore,
\* one with the file's records, or the same as before.
Quiet(c) ==
    /\ UNCHANGED <<file, data>> /\ happened \subseteq happened' /\ pc'[c] \notin Writing
    /\ \A d \in Client : d # c =>
          /\ pc'[d] = pc[d] /\ call'[d] = call[d] /\ rlstore'[d] = rlstore[d] /\ layer'[d] = layer[d]
          /\ loop'[d] = loop[d] /\ (d \in readers' <=> d \in readers) /\ (d \in writers' <=> d \in writers)
          /\ Current(d) # None => layers'[Current(d)] = layers[Current(d)]
    /\ \A q \in Proc : q # ProcOf[c] => layerStore'[q] = layerStore[q] /\ (q \in lw' <=> q \in lw)
    /\ \A o \in Object : layers'[o] \in {layers[o], file, <<>>}

CopyAfter(c) ==
    \/ Current(c)' = None
    \/ /\ Current(c)' = Current(c) \/ \A d \in Client : d # c => Current(d) # Current(c)'
       /\ layers'[Current(c)'] = file
    \/ /\ Current(c)' = Current(c) /\ layers'[Current(c)] = layers[Current(c)]
       /\ ProcOf[c] \in lw' => ProcOf[c] \in lw
       /\ pc[c] \notin Writing

LEMMA QuietState ==
  ASSUME OneGoroutine, StateInv, NEW c \in Client, Quiet(c), CopyAfter(c), TypeOK',
         rlstore'[c] = None <=> pc'[c] = "idle",
         rlstore'[c] # None => layerStore'[ProcOf[c]] \in {None, rlstore'[c]},
         LockAt(c)', \A d \in writers' : writers' = {d} /\ readers' = {}
  PROVE  StateInv' /\ Others(c)
  <1>0. /\ UNCHANGED <<file, data>> /\ happened \subseteq happened' /\ pc'[c] \notin Writing
        /\ \A d \in Client : d # c =>
              /\ pc'[d] = pc[d] /\ call'[d] = call[d] /\ rlstore'[d] = rlstore[d] /\ layer'[d] = layer[d]
              /\ loop'[d] = loop[d] /\ (d \in readers' <=> d \in readers) /\ (d \in writers' <=> d \in writers)
              /\ Current(d) # None => layers'[Current(d)] = layers[Current(d)]
        /\ \A q \in Proc : q # ProcOf[c] => layerStore'[q] = layerStore[q] /\ (q \in lw' <=> q \in lw)
        /\ \A o \in Object : layers'[o] \in {layers[o], file, <<>>}
    BY Zenon DEF Quiet
  <1>1. ObjectInv /\ LockInv /\ LayerInv /\ ListInv
    BY Zenon DEF StateInv
  <1>2. ASSUME NEW d \in Client, d # c
        PROVE  /\ ProcOf[d] \in Proc /\ ProcOf[d] # ProcOf[c] /\ layerStore'[ProcOf[d]] = layerStore[ProcOf[d]]
               /\ (ProcOf[d] \in lw' <=> ProcOf[d] \in lw) /\ Current(d)' = Current(d)
    <2>1. ProcOf[d] \in Proc /\ ProcOf[d] # ProcOf[c]
      BY <1>2, ProcOfAssumption, Zenon DEF OneGoroutine
    <2>2. layerStore'[ProcOf[d]] = layerStore[ProcOf[d]] /\ (ProcOf[d] \in lw' <=> ProcOf[d] \in lw)
      BY <1>0, <2>1, Zenon
    <2>3. Current(d)' = Current(d)
      BY <1>0, <1>2, <2>2, Zenon DEF Current
    <2> QED BY <2>1, <2>2, <2>3, Zenon
  <1>3. Others(c)
    BY <1>0, <1>2, Zenon DEF Others
  <1>4. ObjectInv'
    <2>1. ASSUME NEW d \in Client, d # c, Current(c)' = Current(d)', Current(c)' # None PROVE FALSE
      <3>1. Current(d) = Current(c)'
        BY <1>2, <2>1, Zenon
      <3>2. Current(c)' = Current(c)
        BY <2>1, <3>1, Zenon DEF CopyAfter
      <3> QED BY <1>1, <2>1, <3>1, <3>2, Zenon DEF ObjectInv
    <2>2. ASSUME NEW a \in Client, NEW b \in Client, a # c, b # c, Current(a)' = Current(b)', Current(a)' # None
          PROVE  a = b
      <3>1. Current(a) = Current(b) /\ Current(a) # None
        BY <1>2, <2>2, Zenon
      <3> QED BY <1>1, <3>1, Zenon DEF ObjectInv
    <2>3. \A a, b \in Client : Current(a)' = Current(b)' /\ Current(a)' # None => a = b
      BY <2>1, <2>2, Zenon
    <2>4. ASSUME NEW d \in Client, d # c
          PROVE  /\ rlstore'[d] = None <=> pc'[d] = "idle"
                 /\ rlstore'[d] # None => layerStore'[ProcOf[d]] \in {None, rlstore'[d]}
      BY <1>0, <1>1, <1>2, <2>4, Zenon DEF ObjectInv
    <2> QED BY <2>3, <2>4, Zenon DEF ObjectInv
  <1>5. LockInv'
    <2>1. ASSUME NEW d \in Client, d # c PROVE LockAt(d)'
      <3>1. LockAt(d)
        BY <1>1, Zenon DEF LockInv
      <3>2. /\ pc'[d] = pc[d] /\ call'[d] = call[d] /\ (d \in readers' <=> d \in readers)
            /\ (d \in writers' <=> d \in writers) /\ (ProcOf[d] \in lw' <=> ProcOf[d] \in lw)
        BY <1>0, <1>2, <2>1, Zenon
      <3> QED BY <3>1, <3>2, Zenon DEF LockAt
    <2> QED BY <2>1, Zenon DEF LockInv
  <1>6. LayerInv'
    BY <1>0, <1>1, Zenon DEF LayerInv, Writing
  <1>7. ListInv'
    <2>1. Unique(<<>>)
      BY DEF Unique
    <2>2. \A o \in Object : Unique(layers'[o])
      BY <1>0, <1>1, <2>1, Zenon DEF ListInv
    <2> QED BY <1>0, <1>1, <2>2, Zenon DEF ListInv, Unique
  <1> QED BY <1>3, <1>4, <1>5, <1>6, <1>7, Zenon DEF StateInv

LEMMA QuietKeeps ==
  ASSUME OneGoroutine, IInv, NEW c \in Client, Quiet(c), CopyAfter(c), TypeOK',
         rlstore'[c] = None <=> pc'[c] = "idle",
         rlstore'[c] # None => layerStore'[ProcOf[c]] \in {None, rlstore'[c]},
         LockAt(c)', \A d \in writers' : writers' = {d} /\ readers' = {},
         pc'[c] = "load" /\ c \in readers' \cup writers' => layers'[rlstore'[c]] = file,
         happened' \cap {"write", "halfDeleted"} = {} /\ pc[c] = "saveRemoved" =>
             \A r \in Range(file) : r.id = layer[c] => r.incomplete,
         happened' \subseteq {"apply", "write"} => pc[c] \notin {"saveIncomplete", "saveComplete", "undo"}
  PROVE  IInv'
  <1>0. StateInv /\ CompleteLayersHaveData /\ ParentInv /\ CoverInv /\ ClientAt(c)
    BY Zenon DEF IInv
  <1>1. StateInv' /\ Others(c)
    BY <1>0, QuietState, Zenon
  <1>2. /\ file' = file /\ data' = data /\ happened \subseteq happened' /\ pc'[c] \notin Writing
        /\ \A d \in Client : d # c => pc'[d] = pc[d] /\ layer'[d] = layer[d]
    BY Zenon DEF Quiet
  <1>3. \A d \in Client, l \in Layer : d # c => (Making(d, l)' <=> Making(d, l))
    BY <1>2, Zenon DEF Making
  <1>4. happened' \subseteq {"apply", "write"} => \A l \in Layer : ~Making(c, l)
    BY Zenon DEF Making
  <1>5. CoverFrame(c)
    BY <1>2, <1>4, Zenon DEF CoverFrame
  <1>6. \A d \in Client : d # c => ClientAt(d)'
    BY <1>1, <1>2, <1>5, OthersKeep, Zenon
  <1>7. CompleteLayersHaveData'
    <2> SUFFICES ASSUME (happened \cap {"write", "halfDeleted"} = {})', NEW r \in Range(file), ~r.incomplete,
                        data[r.id] # "full"
                 PROVE  \E d \in Client : pc'[d] = "saveRemoved" /\ layer'[d] = r.id
      BY <1>2, Zenon DEF CompleteLayersHaveData
    <2>1. PICK d \in Client : pc[d] = "saveRemoved" /\ layer[d] = r.id
      BY <1>0, <1>2, Zenon DEF CompleteLayersHaveData
    <2>2. d # c
      BY <2>1, Zenon
    <2> QED BY <1>2, <2>1, <2>2, Zenon
  <1>8. ParentInv'
    BY <1>0, <1>2, Zenon DEF ParentInv, ParentsIn
  <1>9. CoverInv'
    <2> SUFFICES ASSUME happened' \subseteq {"apply", "write"}, NEW l \in Layer, data[l] # "none", l \notin ids(file)
                 PROVE  \E d \in Client : Making(d, l)'
      BY <1>2, Zenon DEF CoverInv, ids
    <2>1. PICK d \in Client : Making(d, l)
      BY <1>0, <1>2, Zenon DEF CoverInv
    <2> QED BY <1>3, <1>4, <2>1, Zenon
  <1>10. FreshAt(c)'
    <2> SUFFICES ASSUME "write" \notin happened', ProcOf[c] \in lw', Current(c)' # None
                 PROVE  layers'[Current(c)'] = file
      BY <1>2, Zenon DEF FreshAt
    <2>1. ASSUME Current(c)' = Current(c), layers'[Current(c)] = layers[Current(c)], ProcOf[c] \in lw,
                 pc[c] \notin Writing
          PROVE  layers'[Current(c)'] = file
      <3>1. layers[Current(c)] = file
        BY <1>0, <1>2, <2>1, Zenon DEF ClientAt, FreshAt, Saving, Writing, PutSteps
      <3> QED BY <2>1, <3>1, Zenon
    <2> QED BY <2>1, Zenon DEF CopyAfter
  <1>11. CoverAt(c)'
    <2> SUFFICES ASSUME happened' \subseteq {"apply", "write"}, ProcOf[c] \in lw', Current(c)' # None,
                        NEW l \in Layer, data[l] # "none", l \notin ids(layers'[Current(c)'])
                 PROVE  \E d \in Client : Making(d, l)' /\ d # c
      BY <1>2, Zenon DEF CoverAt, ids
    <2>1. CASE layers'[Current(c)'] = file
      BY <1>0, <1>2, <1>3, <1>4, <2>1, Zenon DEF CoverInv
    <2>2. CASE Current(c)' = Current(c) /\ layers'[Current(c)] = layers[Current(c)] /\ ProcOf[c] \in lw
      <3>1. l \notin ids(layers[Current(c)]) /\ Current(c) # None
        BY <2>2, Zenon
      <3>2. \E d \in Client : Making(d, l)
        BY <1>0, <1>2, <2>2, <3>1, Zenon DEF ClientAt, CoverAt
      <3> QED BY <1>3, <1>4, <3>2, Zenon
    <2> QED BY <2>1, <2>2, Zenon DEF CopyAfter
  <1>12. ClientAt(c)'
    <2>1. LoopAt(c)'
      BY <1>2, Zenon DEF LoopAt, Writing
    <2>2. KeptAt(c)' /\ PutAt(c)' /\ DataAt(c)' /\ ParentAt(c)'
      BY <1>2, Zenon DEF KeptAt, PutAt, DataAt, ParentAt, Writing, PutSteps, Saving
    <2> QED BY <1>10, <1>11, <2>1, <2>2, Zenon DEF ClientAt
  <1> QED BY <1>1, <1>6, <1>7, <1>8, <1>9, <1>12, Zenon DEF IInv

LEMMA CurrentKept ==
  ASSUME OneGoroutine, StateInv, NEW c \in Client, NEW d \in Client, d # c, rlstore'[d] = rlstore[d],
         \A q \in Proc : q # ProcOf[c] => layerStore'[q] = layerStore[q]
  PROVE  Current(d)' = Current(d) /\ Current(d) \in Object \cup {None}
  <1>1. ProcOf[d] \in Proc /\ ProcOf[d] # ProcOf[c]
    BY ProcOfAssumption, Zenon DEF OneGoroutine
  <1>2. rlstore[d] \in Object \cup {None} /\ layerStore[ProcOf[d]] \in Object \cup {None}
    BY <1>1, Types, Zenon
  <1> QED BY <1>1, <1>2, Zenon DEF Current

\* Which copies are kept.
LEMMA CollectFacts ==
  ASSUME StateInv, Collect
  PROVE  /\ layers' \in [Object -> Seq(Record)] /\ seen' \subseteq Object
         /\ \A o \in Object : layers'[o] \in {layers[o], file, <<>>}
         /\ \A c \in Client : Current(c)' \in Object => layers'[Current(c)'] = layers[Current(c)']
  <1> DEFINE used == {layerStore'[p] : p \in Proc} \cup {rlstore'[c] : c \in Client}
  <1>1. layers' = [o \in Object |-> IF o \in used THEN layers[o] ELSE <<>>] /\ seen' = seen \cap used
    BY Zenon DEF Collect
  <1>2. \A c \in Client : Current(c)' \in used
    BY ProcOfAssumption, Zenon DEF Current
  <1> HIDE DEF used
  <1>3. layers \in [Object -> Seq(Record)] /\ seen \subseteq Object
    BY Types, Zenon
  <1>4. layers' \in [Object -> Seq(Record)]
    BY <1>1, <1>3
  <1> QED BY <1>1, <1>2, <1>3, <1>4, Zenon

\* Load returns.
LEMMA LoadedTo ==
  ASSUME StateInv, NEW c \in Client, NEW o \in Object, NEW kind, Loaded(c, o, kind)
  PROVE  /\ pc' \in [Client -> PC] /\ \A d \in Client : d # c => pc'[d] = pc[d]
         /\ IF c \in readers \cup writers THEN pc'[c] = "ready" ELSE pc'[c] \in {"lock", "graphLock"}
         /\ graphLock' \in Client \cup {None} /\ layerStore' \in [Proc -> Object \cup {None}]
         /\ layerStore'[ProcOf[c]] \in {layerStore[ProcOf[c]], o}
         /\ c \notin readers \cup writers => layerStore'[ProcOf[c]] = o
         /\ \A q \in Proc : q # ProcOf[c] => layerStore'[q] = layerStore[q]
  <1>0. ProcOf[c] \in Proc /\ graphLock \in Client \cup {None} /\ layerStore \in [Proc -> Object \cup {None}]
    BY ProcOfAssumption, Types, Zenon
  <1>1. CASE c \in readers \cup writers
    <2>1. Go(c, "ready") /\ UNCHANGED <<graphLock, layerStore>>
      BY <1>1, Zenon DEF Loaded
    <2>2. pc' \in [Client -> PC] /\ pc'[c] = "ready" /\ \A d \in Client : d # c => pc'[d] = pc[d]
      BY <2>1, GoFacts, Zenon DEF PC
    <2> QED BY <1>0, <1>1, <2>1, <2>2, Zenon
  <1>2. CASE c \notin readers \cup writers
    <2>1. layerStore' = [layerStore EXCEPT ![ProcOf[c]] = o] /\ graphLock' = None /\ Go(c, Entry(kind))
      BY <1>2, Zenon DEF Loaded
    <2>2. Entry(kind) \in {"lock", "graphLock"} /\ Entry(kind) \in PC
      BY Zenon DEF Entry, PC
    <2>3. pc' \in [Client -> PC] /\ pc'[c] = Entry(kind) /\ \A d \in Client : d # c => pc'[d] = pc[d]
      BY <2>1, <2>2, GoFacts, Zenon
    <2>4. /\ layerStore' \in [Proc -> Object \cup {None}] /\ layerStore'[ProcOf[c]] = o
          /\ \A q \in Proc : q # ProcOf[c] => layerStore'[q] = layerStore[q]
      BY <1>0, <2>1
    <2> QED BY <1>2, <2>1, <2>2, <2>3, <2>4, Zenon
  <1> QED BY <1>1, <1>2, Zenon

\* Load has read the records, and perhaps returned.
LEMMA LoadTo ==
  ASSUME StateInv, NEW c \in Client, NEW o \in Object, NEW kind, Load(c, o, kind)
  PROVE  /\ layers' \in [Object -> Seq(Record)] /\ layers'[o] = file
         /\ \A x \in Object : x # o => layers'[x] = layers[x]
         /\ pc' \in [Client -> PC] /\ \A d \in Client : d # c => pc'[d] = pc[d]
         /\ IF c \in readers \cup writers THEN pc'[c] \in {"ready", "load"}
              ELSE pc'[c] \in {"lock", "graphLock", "load"}
         /\ graphLock' \in Client \cup {None} /\ layerStore' \in [Proc -> Object \cup {None}]
         /\ layerStore'[ProcOf[c]] \in {layerStore[ProcOf[c]], o}
         /\ \A q \in Proc : q # ProcOf[c] => layerStore'[q] = layerStore[q]
  <1>1. layers' = [layers EXCEPT ![o] = file] /\ layers \in [Object -> Seq(Record)] /\ file \in Seq(Record)
    BY Types, Zenon DEF Load
  <1>2. /\ layers' \in [Object -> Seq(Record)] /\ layers'[o] = file
        /\ \A x \in Object : x # o => layers'[x] = layers[x]
    BY <1>1
  <1>3. CASE Loaded(c, o, kind)
    BY <1>2, <1>3, LoadedTo, Zenon
  <1>4. CASE Go(c, "load") /\ graphLock' = (IF c \in readers \cup writers THEN graphLock ELSE c)
               /\ UNCHANGED layerStore
    <2>1. pc' \in [Client -> PC] /\ pc'[c] = "load" /\ \A d \in Client : d # c => pc'[d] = pc[d]
      BY <1>4, GoFacts, Zenon DEF PC
    <2>2. graphLock' \in Client \cup {None}
      BY <1>4, Types, Zenon
    <2>3. layerStore' = layerStore /\ layerStore \in [Proc -> Object \cup {None}]
      BY <1>4, Types, Zenon
    <2> QED BY <1>2, <2>1, <2>2, <2>3, Zenon
  <1> QED BY <1>3, <1>4, Zenon DEF Load

\* A step of c that leaves the layerStores and what they know alone.
LEMMA WaitKeeps ==
  ASSUME OneGoroutine, IInv, NEW c \in Client, TypeOK',
         UNCHANGED <<file, data, lw, layers, layerStore, call, rlstore, layer, loop>>, happened' = happened,
         pc[c] \in {"graphLock", "lock"}, pc'[c] \in {"lock", "reload"},
         \A d \in Client : d # c =>
             pc'[d] = pc[d] /\ (d \in readers' <=> d \in readers) /\ (d \in writers' <=> d \in writers),
         LockAt(c)', \A d \in writers' : writers' = {d} /\ readers' = {}
  PROVE  IInv'
  <1>1. Quiet(c)
    BY Zenon DEF Quiet, Writing, PutSteps
  <1>2. CopyAfter(c)
    BY Zenon DEF CopyAfter, Current, Writing, PutSteps
  <1>3. /\ rlstore'[c] = None <=> pc'[c] = "idle"
        /\ rlstore'[c] # None => layerStore'[ProcOf[c]] \in {None, rlstore'[c]}
    BY Zenon DEF IInv, StateInv, ObjectInv
  <1> QED BY <1>1, <1>2, <1>3, QuietKeeps, Zenon

LEMMA MountKeeps ==
  ASSUME OneGoroutine, IInv, NEW c \in Client, mount(c)
  PROVE  IInv'
  <1>1. StateInv /\ LockInv
    BY Zenon DEF IInv, StateInv
  <1>2. /\ pc[c] = "graphLock" /\ graphLock' = c /\ Go(c, "lock") /\ UNCHANGED history
        /\ UNCHANGED <<file, data, lw, seen, layers, readers, writers, layerStore, call, rlstore, layer, loop>>
    BY Zenon DEF mount, disk, known, lock
  <1>3. pc' \in [Client -> PC] /\ pc'[c] = "lock" /\ \A d \in Client : d # c => pc'[d] = pc[d]
    BY <1>1, <1>2, GoFacts, Zenon DEF PC
  <1>4. HistoryTypes' /\ happened' = happened
    BY <1>1, <1>2, HistoryFacts, Zenon
  <1>5. TypeOK'
    BY <1>1, <1>2, <1>3, <1>4, Types, Zenon DEF TypeOK, HistoryTypes
  <1>6. LockAt(c)' /\ \A d \in writers' : writers' = {d} /\ readers' = {}
    BY <1>1, <1>2, <1>3, Zenon DEF LockInv, LockAt, Writing, PutSteps
  <1> QED BY <1>2, <1>3, <1>4, <1>5, <1>6, WaitKeeps, Zenon

LEMMA LockKeeps ==
  ASSUME OneGoroutine, IInv, NEW c \in Client, Lock(c)
  PROVE  IInv'
  <1>1. StateInv /\ LockInv
    BY Zenon DEF IInv, StateInv
  <1>2. /\ pc[c] = "lock" /\ Go(c, "reload") /\ UNCHANGED history
        /\ UNCHANGED <<file, data, lw, seen, layers, graphLock, layerStore, call, rlstore, layer, loop>>
    BY Zenon DEF Lock, disk, known
  <1>3. pc' \in [Client -> PC] /\ pc'[c] = "reload" /\ \A d \in Client : d # c => pc'[d] = pc[d]
    BY <1>1, <1>2, GoFacts, Zenon DEF PC
  <1>4. HistoryTypes' /\ happened' = happened
    BY <1>1, <1>2, HistoryFacts, Zenon
  <1>5. \/ call[c] = "Get" /\ writers = {} /\ readers' = readers \cup {c} /\ writers' = writers
        \/ readers = {} /\ writers = {} /\ writers' = {c} /\ readers' = readers
    BY Zenon DEF Lock, L!RLock, L!Lock
  <1>6. readers' \subseteq Client /\ writers' \subseteq Client
    BY <1>1, <1>5, Types, Zenon
  <1>7. TypeOK'
    BY <1>1, <1>2, <1>3, <1>4, <1>6, Types, Zenon DEF TypeOK, HistoryTypes
  <1>8. c \in readers' \cup writers' /\ (c \in readers' => call'[c] = "Get")
    BY <1>2, <1>5, Zenon
  <1>9. LockAt(c)' /\ \A d \in writers' : writers' = {d} /\ readers' = {}
    <2>1. LockAt(c)'
      BY <1>3, <1>8, Zenon DEF LockAt, Writing, PutSteps
    <2> QED BY <1>5, <2>1, Zenon
  <1>10. \A d \in Client : d # c => (d \in readers' <=> d \in readers) /\ (d \in writers' <=> d \in writers)
    BY <1>5
  <1> QED BY <1>2, <1>3, <1>4, <1>7, <1>9, <1>10, WaitKeeps, Zenon

\* mount drops the process's layerStore, which it goes on using.
LEMMA MountModifiedKeeps ==
  ASSUME OneGoroutine, IInv, NEW c \in Client, mountModified(c)
  PROVE  IInv'
  <1>1. StateInv /\ LockInv
    BY Zenon DEF IInv, StateInv
  <1>2. /\ pc[c] = "ready" /\ layerStore' = [layerStore EXCEPT ![ProcOf[c]] = None] /\ Go(c, "return")
        /\ Collect /\ UNCHANGED history
        /\ UNCHANGED <<file, data, lw, readers, writers, graphLock, call, rlstore, layer, loop>>
    BY Zenon DEF mountModified, disk, lock
  <1>3. pc' \in [Client -> PC] /\ pc'[c] = "return" /\ \A d \in Client : d # c => pc'[d] = pc[d]
    BY <1>1, <1>2, GoFacts, Zenon DEF PC
  <1>4. HistoryTypes' /\ happened' = happened
    BY <1>1, <1>2, HistoryFacts, Zenon
  <1>5. /\ layerStore' \in [Proc -> Object \cup {None}] /\ layerStore'[ProcOf[c]] = None
        /\ \A q \in Proc : q # ProcOf[c] => layerStore'[q] = layerStore[q]
    BY <1>1, <1>2, Types, ProcOfAssumption, Zenon
  <1>6. /\ layers' \in [Object -> Seq(Record)] /\ seen' \subseteq Object
        /\ \A o \in Object : layers'[o] \in {layers[o], file, <<>>}
        /\ \A d \in Client : Current(d)' \in Object => layers'[Current(d)'] = layers[Current(d)']
    BY <1>1, <1>2, CollectFacts, Zenon
  <1>7. \A d \in Client : d # c => Current(d)' = Current(d) /\ Current(d) \in Object \cup {None}
    BY <1>1, <1>2, <1>5, CurrentKept, Zenon
  <1>8. rlstore[c] \in Object /\ rlstore[c] # None /\ Current(c) = rlstore[c]
    BY <1>1, <1>2, Working, NoneAssumption, Zenon
  <1>9. TypeOK'
    BY <1>1, <1>2, <1>3, <1>4, <1>5, <1>6, Types, Zenon DEF TypeOK, HistoryTypes
  <1>10. Quiet(c)
    BY <1>2, <1>3, <1>4, <1>5, <1>6, <1>7, Zenon DEF Quiet, Writing, PutSteps
  <1>11. CopyAfter(c)
    <2>1. Current(c)' = Current(c)
      BY <1>2, <1>8, Zenon DEF Current
    <2>2. layers'[Current(c)] = layers[Current(c)]
      BY <1>6, <1>8, <2>1, Zenon
    <2> QED BY <1>2, <2>1, <2>2, Zenon DEF CopyAfter, Writing, PutSteps
  <1>12. LockAt(c)' /\ \A d \in writers' : writers' = {d} /\ readers' = {}
    BY <1>1, <1>2, <1>3, Zenon DEF LockInv, LockAt, Writing, PutSteps
  <1> QED BY <1>2, <1>3, <1>4, <1>5, <1>8, <1>9, <1>10, <1>11, <1>12, QuietKeeps, Zenon

\* ReloadIfChanged loads, unless the process knows the last writer.
LEMMA ReloadKeeps ==
  ASSUME OneGoroutine, IInv, NEW c \in Client, NEW m \in BOOLEAN, ReloadIfChanged(c, m)
  PROVE  IInv'
  <1> DEFINE o == rlstore[c]
             p == ProcOf[c]
  <1>1. StateInv /\ LockInv /\ ObjectInv
    BY Zenon DEF IInv, StateInv
  <1>2. /\ pc[c] = "reload" /\ lw' = lw \cup {p} /\ seen' \in {seen, seen \cup {o}} /\ UNCHANGED history
        /\ UNCHANGED <<file, data, readers, writers, call, rlstore, layer, loop>>
        /\ \/ Load(c, o, call[c])
           \/ p \in lw /\ Go(c, "ready") /\ UNCHANGED <<layers, graphLock, layerStore>>
    BY Zenon DEF ReloadIfChanged, disk, lock
  <1>3. p \in Proc /\ o \in Object /\ o # None /\ Current(c) = o /\ c \in readers \cup writers
          /\ (c \in readers => call[c] = "Get")
    BY <1>1, <1>2, Working, NoneAssumption, Zenon DEF LockInv, LockAt
  <1>4. HistoryTypes' /\ happened' = happened
    BY <1>1, <1>2, HistoryFacts, Zenon
  <1>5. lw' \subseteq Proc /\ seen' \subseteq Object
    BY <1>1, <1>2, <1>3, Types, Zenon
  <1>6. ASSUME layers' \in [Object -> Seq(Record)], pc' \in [Client -> PC], pc'[c] \in {"ready", "load"},
               \A d \in Client : d # c => pc'[d] = pc[d], \A x \in Object : x # o => layers'[x] = layers[x],
               layers'[o] = file \/ (layers'[o] = layers[o] /\ pc'[c] = "ready" /\ lw' = lw),
               graphLock' \in Client \cup {None}, layerStore' \in [Proc -> Object \cup {None}],
               layerStore'[p] \in {layerStore[p], o}, \A q \in Proc : q # p => layerStore'[q] = layerStore[q]
        PROVE  IInv'
    <2>1. TypeOK'
      BY <1>1, <1>2, <1>4, <1>5, <1>6, Types, Zenon DEF TypeOK, HistoryTypes
    <2>2. ASSUME NEW d \in Client, d # c, Current(d) # None PROVE layers'[Current(d)] = layers[Current(d)]
      <3>1. Current(d) \in Object /\ Current(d) # o
        BY <1>1, <1>2, <1>3, <1>6, <2>2, CurrentKept, Zenon DEF ObjectInv
      <3> QED BY <1>6, <3>1, Zenon
    <2>3. Quiet(c)
      <3>1. \A q \in Proc : q # p => (q \in lw' <=> q \in lw)
        BY <1>2, Zenon
      <3>2. \A x \in Object : layers'[x] \in {layers[x], file, <<>>}
        BY <1>6, Zenon
      <3> QED BY <1>2, <1>4, <1>6, <2>2, <3>1, <3>2, Zenon DEF Quiet, Writing, PutSteps
    <2>4. Current(c)' = Current(c) /\ rlstore'[c] = o
      BY <1>2, <1>3, Zenon DEF Current
    <2>5. CopyAfter(c)
      BY <1>2, <1>3, <1>6, <2>4, Zenon DEF CopyAfter, Writing, PutSteps
    <2>6. LockAt(c)' /\ \A d \in writers' : writers' = {d} /\ readers' = {}
      BY <1>1, <1>2, <1>3, <1>6, Zenon DEF LockInv, LockAt, Writing, PutSteps
    <2>7. layerStore'[p] \in {None, o}
      BY <1>1, <1>3, <1>6, Zenon DEF ObjectInv
    <2>8. pc'[c] = "load" => layers'[rlstore'[c]] = file
      BY <1>6, <2>4, Zenon
    <2>9. rlstore'[c] = None <=> pc'[c] = "idle"
      BY <1>3, <1>6, <2>4, Zenon
    <2> QED BY <1>2, <1>4, <2>1, <2>3, <2>4, <2>5, <2>6, <2>7, <2>8, <2>9, QuietKeeps, Zenon
  <1>7. CASE Load(c, o, call[c])
    BY <1>1, <1>3, <1>6, <1>7, LoadTo, Zenon
  <1>8. CASE p \in lw /\ Go(c, "ready") /\ UNCHANGED <<layers, graphLock, layerStore>>
    <2>1. pc' \in [Client -> PC] /\ pc'[c] = "ready" /\ \A d \in Client : d # c => pc'[d] = pc[d]
      BY <1>1, <1>8, GoFacts, Zenon DEF PC
    <2>2. lw' = lw
      BY <1>2, <1>8, Zenon
    <2>3. layers' = layers /\ graphLock' = graphLock /\ layerStore' = layerStore
      BY <1>8, Zenon
    <2> QED BY <1>1, <1>6, <2>1, <2>2, <2>3, Types, Zenon
  <1> QED BY <1>2, <1>7, <1>8, Zenon

\* LayerStore gives the client the layerStore that there is, or a new one with the file's records.
LEMMA LayerStoreKeeps ==
  ASSUME OneGoroutine, IInv, NEW c \in Client, NEW kind \in Calls, LayerStore(c, kind)
  PROVE  IInv'
  <1> DEFINE p == ProcOf[c]
             free == {o \in Object : (\A q \in Proc : layerStore[q] # o) /\ \A d \in Client : rlstore[d] # o}
  <1>1. StateInv /\ LockInv /\ ObjectInv
    BY Zenon DEF IInv, StateInv
  <1>2. /\ pc[c] = "idle" /\ call' = [call EXCEPT ![c] = kind] /\ UNCHANGED history
        /\ UNCHANGED <<file, data, lw, readers, writers, layer, loop>>
    BY Zenon DEF LayerStore, disk, lock
  <1>3. p \in Proc /\ rlstore[c] = None /\ Current(c) = layerStore[p] /\ c \notin readers \cup writers
    BY <1>1, <1>2, ProcOfAssumption, Zenon DEF LockInv, LockAt, ObjectInv, Current
  <1>4. HistoryTypes' /\ happened' = happened
    BY <1>1, <1>2, HistoryFacts, Zenon
  <1>5. call' \in [Client -> CallKind \cup {None}] /\ \A d \in Client : d # c => call'[d] = call[d]
    BY <1>1, <1>2, Types, KindAssumption, Zenon
  <1>6. ASSUME NEW o \in Object, rlstore' = [rlstore EXCEPT ![c] = o], o = layerStore[p] \/ o \in free,
               seen' \subseteq Object, layers' \in [Object -> Seq(Record)], pc' \in [Client -> PC],
               pc'[c] \in {"lock", "graphLock", "load"}, \A d \in Client : d # c => pc'[d] = pc[d],
               \A x \in Object : x # o => layers'[x] = layers[x],
               layers'[o] = file \/ (o = layerStore[p] /\ layers'[o] = layers[o]),
               graphLock' \in Client \cup {None}, layerStore' \in [Proc -> Object \cup {None}],
               layerStore'[p] \in {None, o}, \A q \in Proc : q # p => layerStore'[q] = layerStore[q]
        PROVE  IInv'
    <2>1. /\ rlstore' \in [Client -> Object \cup {None}] /\ rlstore'[c] = o /\ o # None
          /\ \A d \in Client : d # c => rlstore'[d] = rlstore[d]
      BY <1>1, <1>6, Types, NoneAssumption, Zenon
    <2>2. TypeOK'
      BY <1>1, <1>2, <1>4, <1>5, <1>6, <2>1, Types, Zenon DEF TypeOK, HistoryTypes
    <2>3. Current(c)' = o
      BY <2>1, Zenon DEF Current
    <2>4. ASSUME NEW d \in Client, d # c, Current(d) # None PROVE Current(d) \in Object /\ Current(d) # o
      <3>1. Current(d) \in Object
        BY <1>1, <1>6, <2>1, <2>4, CurrentKept, Zenon
      <3>2. ASSUME o = layerStore[p] PROVE Current(d) # o
        <4>1. Current(c) = o
          BY <1>3, <3>2, Zenon
        <4> QED BY <1>1, <2>1, <2>4, <4>1, Zenon DEF ObjectInv
      <3>3. ASSUME o \in free PROVE Current(d) # o
        <4>1. rlstore[d] # o /\ layerStore[ProcOf[d]] # o
          BY <3>3, ProcOfAssumption, Zenon
        <4> QED BY <4>1, Zenon DEF Current
      <3> QED BY <1>6, <3>1, <3>2, <3>3, Zenon
    <2>5. Quiet(c)
      <3>1. \A x \in Object : layers'[x] \in {layers[x], file, <<>>}
        BY <1>6, Zenon
      <3>2. \A d \in Client : d # c => (Current(d) # None => layers'[Current(d)] = layers[Current(d)])
        BY <1>6, <2>4, Zenon
      <3> QED BY <1>2, <1>4, <1>5, <1>6, <2>1, <3>1, <3>2, Zenon DEF Quiet, Writing, PutSteps
    <2>6. CopyAfter(c)
      <3>1. CASE o = layerStore[p] /\ layers'[o] = layers[o]
        BY <1>2, <1>3, <2>3, <3>1, Zenon DEF CopyAfter, Writing, PutSteps
      <3>2. CASE layers'[o] = file
        <4>1. \A d \in Client : d # c => Current(d) # Current(c)'
          BY <2>1, <2>3, <2>4, Zenon
        <4> QED BY <2>3, <3>2, <4>1, Zenon DEF CopyAfter
      <3> QED BY <1>6, <3>1, <3>2, Zenon
    <2>7. LockAt(c)' /\ \A d \in writers' : writers' = {d} /\ readers' = {}
      BY <1>1, <1>2, <1>3, <1>6, Zenon DEF LockInv, LockAt, Writing, PutSteps
    <2>8. c \notin readers' \cup writers'
      BY <1>2, <1>3, Zenon
    <2>9. rlstore'[c] = None <=> pc'[c] = "idle"
      BY <1>6, <2>1, Zenon
    <2> QED BY <1>2, <1>4, <1>6, <2>1, <2>2, <2>5, <2>6, <2>7, <2>8, <2>9, QuietKeeps, Zenon
  <1>7. CASE layerStore[p] # None /\ rlstore' = [rlstore EXCEPT ![c] = layerStore[p]] /\ Go(c, Entry(kind))
               /\ UNCHANGED <<layers, seen, graphLock, layerStore>>
    <2>1. Entry(kind) \in {"lock", "graphLock"} /\ Entry(kind) \in PC
      BY Zenon DEF Entry, PC
    <2>2. pc' \in [Client -> PC] /\ pc'[c] = Entry(kind) /\ \A d \in Client : d # c => pc'[d] = pc[d]
      BY <1>1, <1>7, <2>1, GoFacts, Zenon
    <2>3. layerStore[p] \in Object
      BY <1>1, <1>3, <1>7, Types, Zenon
    <2>4. layers' = layers /\ seen' = seen /\ graphLock' = graphLock /\ layerStore' = layerStore
      BY <1>7, Zenon
    <2>5. /\ layers \in [Object -> Seq(Record)] /\ seen \subseteq Object /\ graphLock \in Client \cup {None}
          /\ layerStore \in [Proc -> Object \cup {None}]
      BY <1>1, Types, Zenon
    <2>6. pc'[c] \in {"lock", "graphLock", "load"}
      BY <2>1, <2>2, Zenon
    <2> QED BY <1>6, <1>7, <2>2, <2>3, <2>4, <2>5, <2>6, Zenon
  <1>8. ASSUME layerStore[p] = None, NEW o \in free, rlstore' = [rlstore EXCEPT ![c] = o], seen' = seen \ {o},
               Load(c, o, kind)
        PROVE  IInv'
    <2>1. o \in Object
      BY Zenon
    <2>2. seen' \subseteq Object
      BY <1>1, <1>8, Types, Zenon
    <2>3. /\ layers' \in [Object -> Seq(Record)] /\ layers'[o] = file
          /\ \A x \in Object : x # o => layers'[x] = layers[x]
          /\ pc' \in [Client -> PC] /\ \A d \in Client : d # c => pc'[d] = pc[d]
          /\ pc'[c] \in {"lock", "graphLock", "load"}
          /\ graphLock' \in Client \cup {None} /\ layerStore' \in [Proc -> Object \cup {None}]
          /\ layerStore'[p] \in {layerStore[p], o}
          /\ \A q \in Proc : q # p => layerStore'[q] = layerStore[q]
      BY <1>1, <1>3, <1>8, <2>1, LoadTo, Zenon
    <2>4. layerStore'[p] \in {None, o}
      BY <1>8, <2>3, Zenon
    <2> HIDE DEF free
    <2> QED BY <1>6, <1>8, <2>1, <2>2, <2>3, <2>4, Zenon
  <1>9. ASSUME layerStore[p] = None, free # {}, NEW o, o = CHOOSE x \in free : TRUE,
               rlstore' = [rlstore EXCEPT ![c] = o], seen' = seen \ {o}, Load(c, o, kind)
        PROVE  IInv'
    <2>1. o \in free
      <3> HIDE DEF free
      <3> QED BY <1>9, Zenon
    <2> HIDE DEF free
    <2> QED BY <1>8, <1>9, <2>1, Zenon
  <1> QED BY <1>7, <1>9, Zenon DEF LayerStore

\* Without the write lock Load ends before its loop.
LEMMA BeginLoopUnlockedKeeps ==
  ASSUME OneGoroutine, IInv, NEW c \in Client, c \notin writers, BeginLoop(c)
  PROVE  IInv'
  <1> DEFINE o == rlstore[c]
             p == ProcOf[c]
  <1>1. StateInv /\ LockInv /\ ObjectInv
    BY Zenon DEF IInv, StateInv
  <1>2. /\ pc[c] = "load" /\ Loaded(c, o, call[c]) /\ UNCHANGED history
        /\ UNCHANGED <<file, data, lw, seen, layers, readers, writers, call, rlstore, layer, loop>>
    BY <1>1, LockedIff, Zenon DEF BeginLoop, disk, known, lock
  <1>3. p \in Proc /\ o \in Object /\ o # None /\ Current(c) = o
    BY <1>1, <1>2, Working, NoneAssumption, Zenon
  <1>4. HistoryTypes' /\ happened' = happened
    BY <1>1, <1>2, HistoryFacts, Zenon
  <1>5. /\ pc' \in [Client -> PC] /\ \A d \in Client : d # c => pc'[d] = pc[d]
        /\ IF c \in readers \cup writers THEN pc'[c] = "ready" ELSE pc'[c] \in {"lock", "graphLock"}
        /\ graphLock' \in Client \cup {None} /\ layerStore' \in [Proc -> Object \cup {None}]
        /\ layerStore'[p] \in {layerStore[p], o}
        /\ \A q \in Proc : q # p => layerStore'[q] = layerStore[q]
    BY <1>1, <1>2, <1>3, LoadedTo, Zenon
  <1>6. pc'[c] \in {"ready", "lock", "graphLock"}
    BY <1>5, Zenon
  <1>7. TypeOK'
    BY <1>1, <1>2, <1>4, <1>5, Types, Zenon DEF TypeOK, HistoryTypes
  <1>8. Quiet(c)
    BY <1>2, <1>4, <1>5, <1>6, Zenon DEF Quiet, Writing, PutSteps
  <1>9. Current(c)' = Current(c) /\ rlstore'[c] = o
    BY <1>2, <1>3, Zenon DEF Current
  <1>10. CopyAfter(c)
    BY <1>2, <1>9, Zenon DEF CopyAfter, Writing, PutSteps
  <1>11. LockAt(c)' /\ \A d \in writers' : writers' = {d} /\ readers' = {}
    <2>1. LockAt(c)
      BY <1>1, Zenon DEF LockInv
    <2>2. LockAt(c)'
      BY <1>2, <1>5, <1>6, <2>1, Zenon DEF LockAt, Writing, PutSteps
    <2> QED BY <1>1, <1>2, <2>2, Zenon DEF LockInv
  <1>12. layerStore'[p] \in {None, o}
    BY <1>1, <1>3, <1>5, Zenon DEF ObjectInv
  <1>13. rlstore'[c] = None <=> pc'[c] = "idle"
    BY <1>3, <1>6, <1>9, Zenon
  <1> QED BY <1>2, <1>4, <1>6, <1>7, <1>8, <1>9, <1>10, <1>11, <1>12, <1>13, QuietKeeps, Zenon

LEMMA ReturnKeeps ==
  ASSUME OneGoroutine, IInv, NEW c \in Client, Return(c)
  PROVE  IInv'
  <1> DEFINE p == ProcOf[c]
  <1>1. StateInv /\ LockInv /\ ObjectInv
    BY Zenon DEF IInv, StateInv
  <1>2. /\ pc[c] \in {"return", "ready"} /\ Go(c, "idle") /\ call' = [call EXCEPT ![c] = None]
        /\ layer' = [layer EXCEPT ![c] = None] /\ rlstore' = [rlstore EXCEPT ![c] = None]
        /\ graphLock' \in {None, graphLock} /\ Collect /\ UNCHANGED history
        /\ UNCHANGED <<file, data, lw, loop, layerStore>>
    BY Zenon DEF Return, disk
  <1>3. readers' = readers \ {c} /\ writers' = writers \ {c}
    BY <1>1, <1>2, Zenon DEF Return, L!Unlock, LockInv, LockAt
  <1>4. pc' \in [Client -> PC] /\ pc'[c] = "idle" /\ \A d \in Client : d # c => pc'[d] = pc[d]
    BY <1>1, <1>2, GoFacts, Zenon DEF PC
  <1>5. HistoryTypes' /\ happened' = happened
    BY <1>1, <1>2, HistoryFacts, Zenon
  <1>6. /\ call' \in [Client -> CallKind \cup {None}] /\ rlstore' \in [Client -> Object \cup {None}]
        /\ layer' \in [Client -> Layer \cup {None}] /\ rlstore'[c] = None
        /\ \A d \in Client : d # c => call'[d] = call[d] /\ rlstore'[d] = rlstore[d] /\ layer'[d] = layer[d]
    BY <1>1, <1>2, Types, Zenon
  <1>7. /\ layers' \in [Object -> Seq(Record)] /\ seen' \subseteq Object
        /\ \A o \in Object : layers'[o] \in {layers[o], file, <<>>}
        /\ \A d \in Client : Current(d)' \in Object => layers'[Current(d)'] = layers[Current(d)']
    BY <1>1, <1>2, CollectFacts, Zenon
  <1>8. \A d \in Client : d # c => Current(d)' = Current(d) /\ Current(d) \in Object \cup {None}
    BY <1>1, <1>2, <1>6, CurrentKept, Zenon
  <1>9. readers' \subseteq Client /\ writers' \subseteq Client /\ graphLock' \in Client \cup {None}
    BY <1>1, <1>2, <1>3, Types, Zenon
  <1>10. TypeOK'
    BY <1>1, <1>2, <1>4, <1>5, <1>6, <1>7, <1>9, Types, Zenon DEF TypeOK, HistoryTypes
  <1>11. \A d \in Client : d # c => (d \in readers' <=> d \in readers) /\ (d \in writers' <=> d \in writers)
    BY <1>3
  <1>12. Quiet(c)
    <2>1. \A d \in Client : d # c => (Current(d) # None => layers'[Current(d)] = layers[Current(d)])
      BY <1>7, <1>8, Zenon
    <2>2. \A q \in Proc : layerStore'[q] = layerStore[q] /\ (q \in lw' <=> q \in lw)
      BY <1>2, Zenon
    <2> QED BY <1>2, <1>4, <1>5, <1>6, <1>7, <1>11, <2>1, <2>2, Zenon DEF Quiet, Writing, PutSteps
  <1>13. CopyAfter(c)
    <2>1. p \in Proc /\ rlstore[c] # None /\ Current(c) = rlstore[c] /\ layerStore[p] \in {None, rlstore[c]}
      BY <1>1, <1>2, Working, NoneAssumption, Zenon DEF ObjectInv
    <2>2. Current(c)' = layerStore[p] /\ layerStore[p] \in Object \cup {None}
      BY <1>1, <1>2, <1>6, <2>1, Types, Zenon DEF Current
    <2>3. CASE layerStore[p] = None
      BY <2>2, <2>3, Zenon DEF CopyAfter
    <2>4. CASE layerStore[p] # None
      <3>1. Current(c)' = Current(c) /\ Current(c)' \in Object
        BY <2>1, <2>2, <2>4, Zenon
      <3>2. layers'[Current(c)] = layers[Current(c)]
        BY <1>7, <3>1, Zenon
      <3> QED BY <1>2, <3>1, <3>2, Zenon DEF CopyAfter, Writing, PutSteps
    <2> QED BY <2>3, <2>4, Zenon
  <1>14. LockAt(c)'
    BY <1>3, <1>4, Zenon DEF LockAt, Writing, PutSteps
  <1>15. \A d \in writers' : writers' = {d} /\ readers' = {}
    BY <1>1, <1>3, Zenon DEF LockInv
  <1> QED BY <1>2, <1>4, <1>5, <1>6, <1>10, <1>12, <1>13, <1>14, <1>15, QuietKeeps, Zenon

\* A process dies.  Only a Delete leaves a complete record without contents then.
LEMMA CrashKeeps ==
  ASSUME OneGoroutine, IInv, NEW p \in Proc, Crash(p)
  PROVE  IInv'
  <1>1. StateInv /\ LockInv /\ ObjectInv
    BY Zenon DEF IInv, StateInv
  <1>2. PICK c \in Client : ProcOf[c] = p
    BY Zenon DEF Crash, Of
  <1>3. \A d \in Client : d \in Of(p) <=> d = c
    BY <1>2, Zenon DEF Of, OneGoroutine
  <1>4. /\ "crash" \in Faults /\ faults < MaxFaults /\ faults' = faults + 1
        /\ happened' = happened \cup {"crash"}
               \cup {h \in {"halfDeleted"} : \E d \in Of(p) : pc[d] = "saveRemoved" /\ layer[d] \notin Incomplete(file)}
        /\ layerStore' = [layerStore EXCEPT ![p] = None] /\ lw' = lw \ {p} /\ Collect
        /\ UNCHANGED <<file, data>>
    BY Zenon DEF Crash, disk
  <1>5. readers' = {g \in readers : ProcOf[g] # p} /\ writers' = {g \in writers : ProcOf[g] # p}
    BY Zenon DEF Crash, L!Crash
  <1>6. /\ pc' = [d \in Client |-> IF d \in Of(p) THEN "idle" ELSE pc[d]]
        /\ call' = [d \in Client |-> IF d \in Of(p) THEN None ELSE call[d]]
        /\ rlstore' = [d \in Client |-> IF d \in Of(p) THEN None ELSE rlstore[d]]
        /\ layer' = [d \in Client |-> IF d \in Of(p) THEN None ELSE layer[d]]
        /\ loop' = [d \in Client |-> IF d \in Of(p) THEN NoLoop ELSE loop[d]]
    BY Zenon DEF Crash
  <1>7. /\ pc'[c] = "idle" /\ rlstore'[c] = None
        /\ \A d \in Client : d # c => /\ pc'[d] = pc[d] /\ call'[d] = call[d] /\ rlstore'[d] = rlstore[d]
                                      /\ layer'[d] = layer[d] /\ loop'[d] = loop[d]
    BY <1>3, <1>6, Zenon
  <1>8. /\ pc' \in [Client -> PC] /\ call' \in [Client -> CallKind \cup {None}]
        /\ rlstore' \in [Client -> Object \cup {None}] /\ layer' \in [Client -> Layer \cup {None}]
        /\ loop' \in [Client -> [array : Seq(Record), len : Nat, i : Nat, shouldSave : BOOLEAN]]
    <2>1. "idle" \in PC
      BY Zenon DEF PC
    <2>2. NoLoop \in [array : Seq(Record), len : Nat, i : Nat, shouldSave : BOOLEAN]
      BY DEF NoLoop
    <2> QED BY <1>1, <1>6, <2>1, <2>2, Types, Zenon
  <1>9. /\ HistoryTypes' /\ happened \subseteq happened' /\ "crash" \in happened'
        /\ "halfDeleted" \notin happened' /\ pc[c] = "saveRemoved" => layer[c] \in Incomplete(file)
    <2>1. faults' \in 0..MaxFaults
      <3>1. faults \in 0..MaxFaults
        BY <1>1, Types, Zenon
      <3> QED BY <1>4, <3>1, BoundAssumption
    <2>2. happened' \subseteq FaultKind \cup {"halfDeleted", "builtOnIncomplete"}
      <3>1. happened \subseteq FaultKind \cup {"halfDeleted", "builtOnIncomplete"} /\ "crash" \in FaultKind
        BY <1>1, Types, Zenon DEF FaultKind
      <3> QED BY <1>4, <3>1, Zenon
    <2>3. happened \subseteq happened' /\ "crash" \in happened'
      BY <1>4, Zenon
    <2>4. "halfDeleted" \notin happened' /\ pc[c] = "saveRemoved" => layer[c] \in Incomplete(file)
      BY <1>3, <1>4, Zenon
    <2> QED BY <2>1, <2>2, <2>3, <2>4, Zenon DEF HistoryTypes
  <1>10. /\ layerStore' \in [Proc -> Object \cup {None}] /\ layerStore'[p] = None /\ lw' \subseteq Proc
         /\ \A q \in Proc : q # p => layerStore'[q] = layerStore[q] /\ (q \in lw' <=> q \in lw)
    <2>1. layerStore \in [Proc -> Object \cup {None}] /\ lw \subseteq Proc
      BY <1>1, Types, Zenon
    <2> QED BY <1>4, <2>1
  <1>11. /\ layers' \in [Object -> Seq(Record)] /\ seen' \subseteq Object
         /\ \A o \in Object : layers'[o] \in {layers[o], file, <<>>}
         /\ \A d \in Client : Current(d)' \in Object => layers'[Current(d)'] = layers[Current(d)']
    BY <1>1, <1>4, CollectFacts, Zenon
  <1>12. \A d \in Client : d # c => Current(d)' = Current(d) /\ Current(d) \in Object \cup {None}
    BY <1>1, <1>2, <1>7, <1>10, CurrentKept, Zenon
  <1>13. readers' \subseteq Client /\ writers' \subseteq Client /\ graphLock' \in Client \cup {None}
    <2>1. graphLock' \in {None, graphLock}
      BY Zenon DEF Crash
    <2> QED BY <1>1, <1>5, <2>1, Types, Zenon
  <1>14. TypeOK'
    BY <1>1, <1>4, <1>8, <1>9, <1>10, <1>11, <1>13, Types, Zenon DEF TypeOK, HistoryTypes
  <1>15. \A d \in Client : d # c => (d \in readers' <=> d \in readers) /\ (d \in writers' <=> d \in writers)
    BY <1>2, <1>5, Zenon DEF OneGoroutine
  <1>16. Quiet(c)
    <2>1. \A d \in Client : d # c => (Current(d) # None => layers'[Current(d)] = layers[Current(d)])
      BY <1>11, <1>12, Zenon
    <2>2. \A q \in Proc : q # ProcOf[c] => layerStore'[q] = layerStore[q] /\ (q \in lw' <=> q \in lw)
      BY <1>2, <1>10, Zenon
    <2>3. pc'[c] \notin Writing /\ UNCHANGED <<file, data>>
      BY <1>4, <1>7, Zenon DEF Writing, PutSteps
    <2> QED BY <1>7, <1>9, <1>11, <1>15, <2>1, <2>2, <2>3, Zenon DEF Quiet
  <1>17. CopyAfter(c)
    BY <1>2, <1>7, <1>10, Zenon DEF CopyAfter, Current
  <1>18. LockAt(c)'
    BY <1>2, <1>5, <1>7, Zenon DEF LockAt, Writing, PutSteps
  <1>19. \A d \in writers' : writers' = {d} /\ readers' = {}
    BY <1>1, <1>5, Zenon DEF LockInv
  <1>20. happened' \cap {"write", "halfDeleted"} = {} /\ pc[c] = "saveRemoved" =>
             \A r \in Range(file) : r.id = layer[c] => r.incomplete
    <2> SUFFICES ASSUME "halfDeleted" \notin happened', pc[c] = "saveRemoved"
                 PROVE  \A r \in Range(file) : r.id = layer[c] => r.incomplete
      BY Zenon
    <2>1. file \in Seq(Record) /\ Unique(file) /\ layer[c] \in Incomplete(file)
      BY <1>1, <1>9, Types, Zenon DEF StateInv, ListInv
    <2> QED BY <2>1, OnlyIncomplete, Zenon
  <1> QED BY <1>7, <1>9, <1>14, <1>16, <1>17, <1>18, <1>19, <1>20, QuietKeeps, Zenon

-----------------------------------------------------------------------------
LEMMA InitIInv == Init => IInv
  <1> SUFFICES ASSUME Init PROVE IInv
    OBVIOUS
  <1>1. /\ file = <<>> /\ data = [l \in Layer |-> "none"]
        /\ lw = {} /\ seen = {} /\ layers = [o \in Object |-> <<>>]
        /\ readers = {} /\ writers = {} /\ graphLock = None /\ layerStore = [p \in Proc |-> None]
        /\ pc = [c \in Client |-> "idle"] /\ call = [c \in Client |-> None]
        /\ rlstore = [c \in Client |-> None] /\ layer = [c \in Client |-> None]
        /\ loop = [c \in Client |-> NoLoop] /\ faults = 0 /\ happened = {}
    BY Zenon DEF Init, L!Init
  <1>2. TypeOK
    <2>1. NoLoop \in [array : Seq(Record), len : Nat, i : Nat, shouldSave : BOOLEAN]
      BY DEF NoLoop
    <2>2. <<>> \in Seq(Record) /\ 0 \in 0..MaxFaults
      BY BoundAssumption
    <2>3. "idle" \in PC
      BY Zenon DEF PC
    <2> QED BY <1>1, <2>1, <2>2, <2>3, Zenon DEF TypeOK
  <1>3. /\ \A c \in Client : pc[c] = "idle" /\ rlstore[c] = None /\ Current(c) = None
        /\ \A l \in Layer : data[l] = "none"
    BY <1>1, ProcOfAssumption, Zenon DEF Current
  <1>4. Unique(<<>>) /\ \A r \in Range(<<>>) : FALSE
    BY DEF Unique, Range
  <1>5. ObjectInv /\ LockInv /\ LayerInv
    BY <1>1, <1>3, Zenon DEF ObjectInv, LockInv, LockAt, LayerInv, Writing, PutSteps
  <1>6. ListInv
    BY <1>1, <1>4, Zenon DEF ListInv
  <1>7. CompleteLayersHaveData /\ ParentInv /\ CoverInv
    BY <1>1, <1>3, <1>4, Zenon DEF CompleteLayersHaveData, ParentInv, ParentsIn, CoverInv
  <1>8. ASSUME NEW c \in Client PROVE ClientAt(c)
    BY <1>3, Zenon DEF ClientAt, LoopAt, FreshAt, KeptAt, PutAt, DataAt, ParentAt, CoverAt, Saving
  <1> QED BY <1>2, <1>5, <1>6, <1>7, <1>8, Zenon DEF IInv, StateInv

LEMMA StepKeeps ==
  ASSUME OneGoroutine, IInv, NEW c \in Client, Step(c)
  PROVE  IInv'
  <1>1. CASE mount(c) \/ mountModified(c) \/ Lock(c) \/ Return(c) \/ \E m \in BOOLEAN : ReloadIfChanged(c, m)
    BY <1>1, MountKeeps, MountModifiedKeeps, LockKeeps, ReturnKeeps, ReloadKeeps, Zenon
  <1>2. CASE BeginLoop(c)
    BY <1>2, BeginLoopKeeps, BeginLoopUnlockedKeeps, Zenon
  <1>3. CASE LoadLoop(c) \/ SaveLoop(c)
    BY <1>3, LoadLoopKeeps, SaveLoopKeeps, Zenon
  <1>4. ASSUME NEW l \in Layer, NEW parent \in (Layer \ {l}) \cup {None}, NEW diff \in BOOLEAN,
               Create(c, l, parent, diff)
        PROVE  IInv'
    <2>1. parent \in Layer \cup {None}
      BY Zenon
    <2> QED BY <1>4, <2>1, CreateKeeps, Zenon
  <1>5. ASSUME NEW l \in Layer, Delete(c, l) PROVE IInv'
    BY <1>5, DeleteKeeps, Zenon
  <1>6. CASE SaveIncomplete(c) \/ SaveDigests(c) \/ SaveComplete(c) \/ SaveRemoved(c)
    BY <1>6, SaveActionsKeep, Zenon
  <1>7. CASE ApplyDiff(c) \/ Complete(c) \/ Undo(c) \/ deleteInternal(c)
    BY <1>7, ApplyDiffKeeps, CompleteKeeps, UndoKeeps, DeleteInternalKeeps, Zenon
  <1> QED BY <1>1, <1>2, <1>3, <1>4, <1>5, <1>6, <1>7, Zenon DEF Step

LEMMA StutterKeeps ==
  ASSUME IInv, UNCHANGED vars
  PROVE  IInv'
  <1>1. /\ UNCHANGED <<file, data, lw, seen, layers, readers, writers, graphLock, layerStore>>
        /\ UNCHANGED <<pc, call, rlstore, layer, loop, faults, happened>>
    BY Zenon DEF vars, disk, known, lock, local, history
  <1>2. StateInv'
    <2>1. TypeOK' /\ ListInv'
      BY <1>1, Zenon DEF IInv, StateInv, TypeOK, ListInv, Unique
    <2>2. ObjectInv'
      BY <1>1, Zenon DEF IInv, StateInv, ObjectInv, Current
    <2>3. LockInv' /\ LayerInv'
      BY <1>1, Zenon DEF IInv, StateInv, LockInv, LockAt, LayerInv
    <2> QED BY <2>1, <2>2, <2>3, Zenon DEF StateInv
  <1>3. (CompleteLayersHaveData /\ ParentInv /\ CoverInv)'
    BY <1>1, Zenon DEF IInv, CompleteLayersHaveData, ParentInv, ParentsIn, CoverInv, Making
  <1>4. ASSUME NEW c \in Client PROVE ClientAt(c)'
    <2>1. ClientAt(c)
      BY Zenon DEF IInv
    <2>2. (LoopAt(c) /\ FreshAt(c) /\ KeptAt(c) /\ PutAt(c))'
      BY <1>1, <2>1, Zenon DEF ClientAt, LoopAt, FreshAt, KeptAt, PutAt, Current
    <2>3. (DataAt(c) /\ ParentAt(c))'
      BY <1>1, <2>1, Zenon DEF ClientAt, DataAt, ParentAt, FullIn, ParentsIn
    <2>4. CoverAt(c)'
      <3>1. Current(c)' = Current(c) /\ \A d, l : Making(d, l)' <=> Making(d, l)
        BY <1>1, Zenon DEF Current, Making
      <3>2. layers' = layers /\ data' = data /\ happened' = happened /\ lw' = lw /\ pc' = pc
        BY <1>1, Zenon
      <3> QED BY <2>1, <3>1, <3>2, Zenon DEF ClientAt, CoverAt
    <2> QED BY <2>2, <2>3, <2>4, Zenon DEF ClientAt
  <1> QED BY <1>2, <1>3, <1>4, Zenon DEF IInv

LEMMA NextKeeps ==
  ASSUME OneGoroutine, IInv, [Next]_vars
  PROVE  IInv'
  <1>1. ASSUME NEW c \in Client, Step(c) PROVE IInv'
    BY <1>1, StepKeeps, Zenon
  <1>2. ASSUME NEW c \in Client, NEW kind \in Calls, LayerStore(c, kind) PROVE IInv'
    BY <1>2, LayerStoreKeeps, Zenon
  <1>3. ASSUME NEW p \in Proc, Crash(p) PROVE IInv'
    BY <1>3, CrashKeeps, Zenon
  <1>4. CASE UNCHANGED vars
    BY <1>4, StutterKeeps, Zenon
  <1> QED BY <1>1, <1>2, <1>3, <1>4, Zenon DEF Next

-----------------------------------------------------------------------------
LEMMA Implied ==
  ASSUME IInv
  PROVE  RecordsMatchData
  <1>1. StateInv /\ LockInv /\ CompleteLayersHaveData /\ ParentInv /\ CoverInv /\ \A c \in Client : ClientAt(c)
    BY Zenon DEF IInv, StateInv
  <1>2. Fresh
    <2> SUFFICES ASSUME "write" \notin happened, NEW c \in Client, pc[c] = "ready" PROVE layers[rlstore[c]] = file
      BY Zenon DEF Fresh
    <2>1. ProcOf[c] \in lw
      BY <1>1, Zenon DEF LockInv, LockAt
    <2>2. rlstore[c] \in Object /\ Current(c) = rlstore[c] /\ Current(c) # None
      BY <1>1, Working, NoneAssumption, Zenon
    <2>3. layers[Current(c)] = file
      BY <1>1, <2>1, <2>2, Zenon DEF ClientAt, FreshAt, Saving
    <2> QED BY <2>2, <2>3, Zenon
  <1>3. ParentsExist
    <2> SUFFICES ASSUME happened \cap {"write", "builtOnIncomplete"} = {}, NEW r \in Range(file), r.parent # None
                 PROVE  r.parent \in ids(file)
      BY Zenon DEF ParentsExist
    <2>1. \E q \in Range(file) : q.id = r.parent
      BY <1>1, Zenon DEF ParentInv, ParentsIn
    <2> QED BY <2>1, InIds, Zenon
  <1>4. NothingLeft
    BY <1>1, Zenon DEF NothingLeft, CoverInv, Making
  <1> QED BY <1>1, <1>2, <1>3, <1>4, Zenon DEF RecordsMatchData, StateInv

\* The file changes only when a client saves its copy.
LEMMA SavedBy ==
  ASSUME [Next]_vars
  PROVE  file' = file \/ \E c \in Client : pc[c] \in Saving \cup {"saveDigests"} /\ file' = layers[rlstore[c]]
  <1>1. ASSUME NEW c \in Client, Step(c)
        PROVE  file' = file \/ (pc[c] \in Saving \cup {"saveDigests"} /\ file' = layers[rlstore[c]])
    <2>1. CASE mount(c) \/ mountModified(c) \/ Lock(c) \/ Return(c) \/ \E m \in BOOLEAN : ReloadIfChanged(c, m)
      BY <2>1, Zenon DEF mount, mountModified, Lock, Return, ReloadIfChanged, disk
    <2>2. CASE BeginLoop(c) \/ LoadLoop(c)
      BY <2>2, Zenon DEF BeginLoop, LoadLoop, disk
    <2>3. CASE \E l \in Layer :
                 \/ \E parent \in (Layer \ {l}) \cup {None}, diff \in BOOLEAN : Create(c, l, parent, diff)
                 \/ Delete(c, l)
      BY <2>3, Zenon DEF Create, Delete, disk
    <2>4. CASE ApplyDiff(c) \/ Complete(c) \/ Undo(c) \/ deleteInternal(c)
      BY <2>4, Zenon DEF ApplyDiff, Complete, Undo, deleteInternal, disk
    <2>5. CASE SaveLoop(c)
      BY <2>5, Zenon DEF SaveLoop, saveLayers, Saving
    <2>6. CASE SaveIncomplete(c) \/ SaveDigests(c) \/ SaveComplete(c) \/ SaveRemoved(c)
      <3>1. \A l, f : Save(c, l, f) => file' \in {file, layers[rlstore[c]]}
        BY Zenon DEF Save, saveLayers
      <3> QED BY <2>6, <3>1, Zenon DEF SaveIncomplete, SaveDigests, SaveComplete, SaveRemoved, Saving
    <2> QED BY <1>1, <2>1, <2>2, <2>3, <2>4, <2>5, <2>6, Zenon DEF Step
  <1>2. ASSUME NEW c \in Client, NEW kind \in Calls, LayerStore(c, kind) PROVE file' = file
    BY <1>2, Zenon DEF LayerStore, disk
  <1>3. ASSUME NEW p \in Proc, Crash(p) PROVE file' = file
    BY <1>3, Zenon DEF Crash, disk
  <1>4. CASE UNCHANGED vars
    BY <1>4, Zenon DEF vars, disk
  <1> QED BY <1>1, <1>2, <1>3, <1>4, Zenon DEF Next

LEMMA DeleteRemoves ==
  ASSUME IInv, [Next]_vars, NEW r \in Range(file), ~r.incomplete, r.id \notin ids(file'), "write" \notin happened
  PROVE  \E c \in Client : pc[c] = "saveRemoved" /\ layer[c] = r.id
  <1>1. StateInv /\ r.id \in ids(file)
    BY InIds, Zenon DEF IInv
  <1>2. PICK c \in Client : pc[c] \in Saving \cup {"saveDigests"} /\ file' = layers[rlstore[c]]
    <2>1. file' # file
      BY <1>1, Zenon
    <2> QED BY <2>1, SavedBy, Zenon
  <1>3. pc[c] # "saveDigests"
    <2> SUFFICES ASSUME pc[c] = "saveDigests" PROVE FALSE
      OBVIOUS
    <2>1. c \in writers /\ pc[c] \notin Saving
      BY PutFacts, Zenon DEF PutSteps, Saving
    <2>2. layers[rlstore[c]] = file
      BY <2>1, WriterFacts, Zenon DEF WriterGood
    <2> QED BY <1>1, <1>2, <2>2, Zenon
  <1>4. KeptAt(c)
    BY Zenon DEF IInv, ClientAt
  <1> QED BY <1>2, <1>3, <1>4, Zenon DEF KeptAt

\* Where clients are in Put, Delete and Load, what their layerStores have of layers.json, and
\* what the file and the driver have meanwhile: the invariant of all interleavings, failures
\* and crashes, for any number of processes, layerStores and layers.
THEOREM LayerStoreCorrect ==
  ASSUME OneGoroutine
  PROVE  Spec => []IInv
  <1>1. Init => IInv
    BY InitIInv
  <1>2. IInv /\ [Next]_vars => IInv'
    BY NextKeeps, Zenon
  <1> QED BY <1>1, <1>2, PTL DEF Spec

\* The records agree with the driver's contents, with each other and with what processes have
\* in memory, wherever Put, Delete and Load were interrupted.
THEOREM RecordsMatchDataAlways ==
  ASSUME OneGoroutine
  PROVE  Spec => []RecordsMatchData
  <1>1. Spec => []IInv
    BY LayerStoreCorrect
  <1>2. IInv => RecordsMatchData
    BY Implied, Zenon
  <1> QED BY <1>1, <1>2, PTL

\* Only a Delete makes a complete layer disappear from layers.json, never Load's loop and never
\* the save of a copy that another process has overtaken.
THEOREM OnlyDeleteRemovesAlways ==
  ASSUME OneGoroutine
  PROVE  Spec => OnlyDeleteRemoves
  <1>1. Spec => []IInv
    BY LayerStoreCorrect
  <1>2. IInv /\ [Next]_vars =>
          [\A r \in Range(file) :
               ~r.incomplete /\ r.id \notin ids(file') /\ "write" \notin happened =>
                   \E c \in Client : pc[c] = "saveRemoved" /\ layer[c] = r.id]_vars
    BY DeleteRemoves, Zenon
  <1> QED BY <1>1, <1>2, PTL DEF Spec, OnlyDeleteRemoves

=============================================================================
