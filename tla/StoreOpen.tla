----------------------------- MODULE StoreOpen -----------------------------
(* GetStore (store.go): how a process opens a store, which graph driver      *)
(* drivers.New (drivers/driver.go) picks for it, what the drivers' Init       *)
(* functions leave on disk when they fail, the answer of overlay's support    *)
(* check that is kept in the run root, and the additional layer stores that   *)
(* are opened on first use.  One graph root and one run root, the caller is   *)
(* root, and "btrfs" stands for the drivers that test the file system before  *)
(* they make their home (aufs, btrfs, zfs).  Two registered names are not in  *)
(* the list of priorities: "devicemapper", and "overlay2", a second name of   *)
(* overlay.  Paths and options are left out.                                  *)
EXTENDS Integers, Sequences, SequencesExt

CONSTANTS
    Names,          \* the driver names callers ask for; "" lets the library choose
    Additional,     \* number of additional image stores
    MaxCalls        \* bound: calls of GetStore and of ROLayerStores

VARIABLES
    dirs,           \* the registered names whose home <root>/<name> exists
    used,           \* those whose home has layers
    cache,          \* <runroot>/<name>/overlay-{true,false}: "none", "true" or "false"
    sup,            \* what the kernel supports: "yes", "no", or "fs", an incompatible file system
    stores,         \* the process's list of store objects
    opened,         \* the driver of the last store the library chose, while nothing else changed
    last,           \* how the last call ended
    calls

svars == <<dirs, used, cache, sup, stores, opened, last, calls>>

priority == <<"overlay", "btrfs", "vfs">>
Registered == ToSet(priority) \cup {"overlay2", "devicemapper"}

Kernels == [overlay : {"yes", "no", "fs"}, btrfs : {"yes", "no"}]

\* A call of the file system that fails: none, one after overlay's support check or of another
\* driver ("later"), or one of the check: to make its directory, for lack of space ("space") or
\* not ("tmpdir"), to test it, or to record the answer.
Fault == {"none", "later", "space", "tmpdir", "test", "record"}

NoCall == [call |-> "none", name |-> "", ok |-> TRUE, driver |-> "none", prior |-> {}]

Init ==
    /\ dirs = {} /\ used = {} /\ cache = [h \in {"overlay", "overlay2"} |-> "none"]
    /\ sup \in Kernels
    /\ stores = <<>> /\ opened = "none" /\ last = NoCall /\ calls = 0

-----------------------------------------------------------------------------
\* The drivers' Init functions: a result ("ok", "unsupported" or "error"), and the directories
\* and the cached answers as they are left.

Outcome(result, d, c) == [result |-> result, dirs |-> d, cache |-> c]

\* supportsOverlay and checkAndRecordOverlaySupport: the answer is kept in the run root, unless
\* there was no space for the test.  isDriverNotSupported recognises the answer "unsupported",
\* and that the test's directory cannot be made, but neither the kept answer, which is a text,
\* nor that the test or the recording failed.
checkAndRecordOverlaySupport(home, d, fault) ==
    LET removed == IF home \in used THEN d ELSE d \ {home}
        kept(answer) == [cache EXCEPT ![home] = answer] IN
    CASE cache[home] = "true" -> Outcome("ok", d, cache)
      [] cache[home] = "false" -> Outcome("error", d, cache)
      [] cache[home] = "none" /\ fault = "space" -> Outcome("error", removed, cache)
      [] cache[home] = "none" /\ fault = "test" -> Outcome("error", removed, kept("false"))
      [] cache[home] = "none" /\ fault = "tmpdir" -> Outcome("unsupported", removed, kept("false"))
      [] cache[home] = "none" /\ fault = "record" ->
            Outcome("error", IF sup.overlay = "yes" THEN d ELSE removed, cache)
      [] OTHER -> IF sup.overlay = "yes" THEN Outcome("ok", d, kept("true"))
                  ELSE Outcome("unsupported", removed, kept("false"))

initOverlayMade(home, d, fault) ==
    LET o == checkAndRecordOverlaySupport(home, d \cup {home}, fault)
    IN  IF o.result = "ok" /\ fault = "later" THEN [o EXCEPT !.result = "error"] ELSE o

\* Mutant: the home directory is made before the file system is looked at.
initOverlayMkdirFirst(home, d, fault) ==
    IF sup.overlay = "fs" THEN Outcome("unsupported", d \cup {home}, cache)
    ELSE initOverlayMade(home, d, fault)

InitOverlay(home, d, fault) ==
    IF sup.overlay = "fs" THEN Outcome("unsupported", d, cache)
    ELSE initOverlayMade(home, d, fault)

InitBtrfs(d, fault) ==
    IF sup.btrfs # "yes" THEN Outcome("unsupported", d, cache)
    ELSE Outcome(IF fault = "later" THEN "error" ELSE "ok", d \cup {"btrfs"}, cache)

InitVfs(d, fault) == Outcome(IF fault = "later" THEN "error" ELSE "ok", d \cup {"vfs"}, cache)

InitDevicemapper(d, fault) ==
    Outcome(IF fault = "later" THEN "error" ELSE "ok", d, cache)

InitFunc(name, d, fault) ==
    CASE name \in {"overlay", "overlay2"} -> InitOverlay(name, d, fault)
      [] name = "btrfs" -> InitBtrfs(d, fault)
      [] name = "vfs" -> InitVfs(d, fault)
      [] name = "devicemapper" -> InitDevicemapper(d, fault)

\* Driver.String: the name that a driver gives itself.
String(name) == IF name = "overlay2" THEN "overlay" ELSE name

-----------------------------------------------------------------------------
\* drivers.New

Opened(name, out, valid) ==
    LET ok == out.result = "ok" /\ valid IN
    [driver |-> IF ok THEN String(name) ELSE "none", home |-> IF ok THEN name ELSE "none", out |-> out]

\* The first driver in the order of preference that does not answer "unsupported"; vfs, the last
\* one, never does, so the registered drivers are not tried in turn.  Overlay, if it was tried
\* first, has left its answer in the run root, and what Init did not remove.
FirstSupported(fault) ==
    LET out == [i \in 1..Len(priority) |-> InitFunc(priority[i], dirs, fault)]
        i == Min({k \in 1..Len(priority) : out[k].result # "unsupported"})
    IN  Opened(priority[i], [out[i] EXCEPT !.cache = out[1].cache, !.dirs = @ \cup out[1].dirs], TRUE)

\* Mutant: drivers are tried in the order of preference, whatever is on disk.
newByPriority(fault) == FirstSupported(fault)

\* scanPriorDrivers: the homes of registered names that exist, vfs's left out.
scanPriorDrivers == dirs \ {"vfs"}

\* New(""): the first driver in the order of preference with state on disk, an error when it
\* fails or when any other registered name has state, too; without one, the first driver that is
\* supported.
New(fault) ==
    LET prior == SelectSeq(priority, LAMBDA d : d \in scanPriorDrivers)
    IN  IF prior = <<>> THEN FirstSupported(fault)
        ELSE Opened(prior[1], InitFunc(prior[1], dirs, fault), scanPriorDrivers = {prior[1]})

\* GetDriver: the driver that was asked for, whose directory GetStore has made already.
GetDriver(name, fault) == Opened(name, InitFunc(name, dirs \cup {name}, fault), TRUE)

-----------------------------------------------------------------------------
\* GetStore, load and the additional stores

\* Mutant: the list is searched for the name as it was asked for.
foundByRequest(name) == {i \in 1..Len(stores) : stores[i].asked = name}

\* The stores in the list that match: the name compared is the one the driver gave itself.
Found(name) == {i \in 1..Len(stores) : name = "" \/ stores[i].driver = name}

\* A store in the list that matches, or a new one: its directories, its driver, its image and
\* container stores (load, which may fail), and then its place in the list.
GetStore(name) ==
    /\ calls < MaxCalls /\ calls' = calls + 1
    /\ IF Found(name) # {}
       THEN /\ last' = [NoCall EXCEPT !.call = "found", !.name = name, !.driver = stores[Min(Found(name))].driver]
            /\ UNCHANGED <<dirs, used, cache, sup, stores, opened>>
       ELSE \E fault \in Fault, loads \in BOOLEAN :
            LET n == IF name = "" THEN New(fault) ELSE GetDriver(name, fault)
                ok == n.driver # "none" /\ loads
            IN  /\ dirs' = n.out.dirs /\ cache' = n.out.cache
                /\ stores' = IF ok THEN Append(stores, [driver |-> n.driver, home |-> n.home, asked |-> name,
                                                        ro |-> 0, roFailed |-> FALSE])
                                   ELSE stores
                /\ last' = [call |-> "open", name |-> name, ok |-> ok, driver |-> n.driver, prior |-> used]
                /\ opened' = IF name # "" \/ fault # "none" \/ ~loads THEN "none" ELSE IF ok THEN n.driver ELSE opened
                /\ UNCHANGED <<used, sup>>

\* A store puts layers into its driver's home.
PutLayers(i) ==
    /\ used' = used \cup {stores[i].home}
    /\ dirs' = dirs \cup {stores[i].home}
    /\ UNCHANGED <<cache, sup, stores, opened, last, calls>>

\* GraphDriver after another process's Shutdown has touched storage.lock: the driver is opened
\* again, by the name that it gave itself.
GraphDriver(i) ==
    /\ calls < MaxCalls /\ calls' = calls + 1
    /\ \E fault \in Fault :
        LET n == Opened(stores[i].driver, InitFunc(stores[i].driver, dirs, fault), TRUE) IN
        /\ dirs' = n.out.dirs /\ cache' = n.out.cache
        /\ stores' = IF n.driver # "none" THEN [stores EXCEPT ![i].home = n.home] ELSE stores
    /\ last' = NoCall /\ opened' = "none"
    /\ UNCHANGED <<used, sup>>

\* Mutant: a store that cannot be opened is passed over.
roSkipsFailed(i) ==
    /\ calls < MaxCalls /\ calls' = calls + 1
    /\ \E n \in 0..Additional :
        /\ stores' = [stores EXCEPT ![i].ro = IF @ > 0 THEN @ ELSE n]
        /\ last' = [NoCall EXCEPT !.call = "ro", !.name = i]
    /\ UNCHANGED <<dirs, used, cache, sup, opened>>

\* ROLayerStores: the additional stores in turn, kept in s.roLayerStores as they are opened; a
\* failure returns an error, and what was opened before it stays in the list.
ROLayerStores(i) ==
    /\ calls < MaxCalls /\ calls' = calls + 1
    /\ IF stores[i].ro > 0
       THEN UNCHANGED stores /\ last' = [NoCall EXCEPT !.call = "ro", !.name = i]
       ELSE \E n \in 0..Additional :
            /\ stores' = [stores EXCEPT ![i].ro = n, ![i].roFailed = @ \/ n < Additional]
            /\ last' = [NoCall EXCEPT !.call = "ro", !.name = i, !.ok = n = Additional]
    /\ UNCHANGED <<dirs, used, cache, sup, opened>>

\* Free removes the store from the list.
Free(i) ==
    /\ stores' = RemoveAt(stores, i)
    /\ last' = NoCall
    /\ UNCHANGED <<dirs, used, cache, sup, opened, calls>>

\* Another process, or the same host after a reboot: the run root is empty.
NewProcess == stores' = <<>> /\ last' = NoCall /\ UNCHANGED <<dirs, used, cache, sup, opened, calls>>
Reboot ==
    /\ stores' = <<>> /\ last' = NoCall /\ cache' = [h \in DOMAIN cache |-> "none"]
    /\ \/ UNCHANGED <<sup, opened>>
       \/ /\ sup' \in Kernels \ {sup}
          /\ opened' = "none"
    /\ UNCHANGED <<dirs, used, calls>>

Next ==
    \/ \E name \in Names : GetStore(name)
    \/ \E i \in 1..Len(stores) : PutLayers(i) \/ GraphDriver(i) \/ ROLayerStores(i) \/ Free(i)
    \/ NewProcess \/ Reboot

Spec == Init /\ [][Next]_svars

-----------------------------------------------------------------------------
\* Type invariant of the process's list of stores and of the homes on disk.
TypeOK ==
    /\ used \subseteq dirs /\ dirs \subseteq Registered
    /\ cache \in [{"overlay", "overlay2"} -> {"none", "true", "false"}]
    /\ \A i \in 1..Len(stores) : stores[i].home \in Registered /\ stores[i].ro \in 0..Additional

\* When the library chooses the driver of a new store, it does not hide layers on disk ("the
\* daemon's images would just disappear"): if the home of a driver in the list of priorities has
\* layers, New returns that driver, and then no other registered name has any, or an error.  vfs
\* is left out, as in the code.  Layers that only devicemapper or overlay2 has are hidden: neither
\* is in the list, and the first supported driver is chosen.
ChoosesPrior ==
    last.call = "open" /\ last.name = "" /\ last.ok =>
        LET prior == last.prior \ {"vfs"} IN
        prior \cap ToSet(priority) # {} => prior = {last.driver}

\* A process has one store object per driver in its list, however the drivers were asked for:
\* the in-memory copies, and the locks they rely on, are the list entry's.  The exception is
\* overlay by its second name: the store of GetStore("overlay2") calls itself "overlay", and the
\* next GetStore("overlay2") does not find it.
OneStorePerDriver ==
    \A i, j \in 1..Len(stores) :
        stores[i].driver = stores[j].driver => i = j \/ "overlay2" \in {stores[i].asked, stores[j].asked}

\* A store keeps its layers in the home that it was opened with, also when its driver is opened
\* again, except for one that was asked for as overlay2, which goes on in overlay's.
KeepsHome == \A i \in 1..Len(stores) : stores[i].asked # "overlay2" => stores[i].home = stores[i].driver

\* Where the library once chose a driver and nothing has changed, it chooses one again, also after
\* a restart or a reboot.  The exceptions are the kept answer that overlay is not supported, which
\* reads as an error of another kind than the answer itself, and a home of overlay2 or
\* devicemapper: New passes it over, and the home of the driver that it chose then makes two
\* ("contains several valid graphdrivers").
OpensAgain ==
    last.call = "open" /\ last.name = "" /\ ~last.ok /\ opened # "none" =>
        cache["overlay"] = "false" \/ dirs \cap {"overlay2", "devicemapper"} # {}

\* ROLayerStores that reports success returns all of the additional stores.  The exception is a
\* store on which it has failed before, whose incomplete list it returns.
AdditionalComplete ==
    last.call = "ro" /\ last.ok => stores[last.name].ro = Additional \/ stores[last.name].roFailed
=============================================================================
