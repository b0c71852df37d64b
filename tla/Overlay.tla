------------------------------- MODULE Overlay -------------------------------
(***************************************************************************)
(* The overlay driver's home directory: a directory per layer, and in      *)
(* "l" a symbolic link with a short random name to the diff directory of   *)
(* each layer.  A layer's "link" file holds the name of its symbolic link, *)
(* its "lower" file the names of those of its ancestors.  A step is one    *)
(* operation on the disk; a failure, a crash or a reboot that loses a      *)
(* link file or a symbolic link may follow any of them.  The caller (the   *)
(* layer store) makes one call at a time.                                  *)
(***************************************************************************)
EXTENDS Integers, Sequences, FiniteSets, SequencesExt, FiniteSetsExt

CONSTANTS Layers, None,
          Shared,      \* a layer of an additional image store, which never changes
          Parents,     \* functions from Layers to Layers, Shared or None: an ID stands for
                       \* contents on a parent, so the parent is the same if it is created again
          Links,       \* names of symbolic links, ordered as ReadDir sorts them
          MaxFaults,   \* operations that fail
          MaxCrashes,  \* processes that are killed, and reboots
          MaxCalls     \* calls of the driver

ASSUME OverlayAssumption ==
  /\ Links \subseteq Nat /\ IsFiniteSet(Links) /\ None \notin Layers /\ Shared \notin Layers \cup {None}
  /\ MaxFaults \in Nat /\ MaxCrashes \in Nat /\ MaxCalls \in Nat

VARIABLES dir,      \* layer -> None or its directory
          symlink,  \* link -> None or the layer whose diff directory it points to
          staging,  \* home/staging: None, or does it hold a filled directory?
          mounts,   \* layer -> None or the directories that make up its mount, topmost first
          alRefs,   \* the additional layer store: references to its layer
          handle,   \* does the caller hold an additionalLayer?
          next,     \* quota.Control.nextProjectID
          quotas,   \* quota.Control.quotas: layer -> None or project ID
          call,     \* the call in progress
          known,    \* what the layer store has recorded of each layer
          parent,   \* the parent of each layer
          filled,   \* layers whose contents have been applied
          mapped,   \* layers whose ID mappings were changed when they were created
          left,     \* history: names whose creation failed after it made a link, or removed without a link file
          extra,    \* history: references given back by a repeated Remove
          faults, crashes, calls

home == <<dir, symlink, staging>>
process == <<handle, next, quotas>>
caller == <<known, parent, filled, mapped, left, extra>>
bounds == <<faults, crashes, calls>>
vars == <<home, mounts, alRefs, process, call, caller, bounds>>

MinProjectID == 1
SharedLink == -1

Idle == [op |-> "none", id |-> None, pc |-> "idle", ret |-> "idle", err |-> FALSE, progress |-> FALSE, i |-> 0]

\* diff[n]: the directory "diff" (n = 0) or "diffn": absent, empty, full, or a link to the additional layer.
EmptyDir == [link |-> None, lower |-> <<>>, diff |-> [n \in 0..2 |-> None], al |-> FALSE, proj |-> 0]

Init ==
  /\ dir = [x \in Layers |-> None] /\ symlink = [l \in Links |-> None] /\ staging = None
  /\ mounts = [x \in Layers |-> None] /\ alRefs = 0 /\ handle = FALSE
  /\ next = MinProjectID + 1 /\ quotas = [x \in Layers |-> None]
  /\ call = Idle
  /\ known = [x \in Layers |-> "none"] /\ parent \in Parents /\ filled = {} /\ mapped = {} /\ left = {} /\ extra = 0
  /\ faults = 0 /\ crashes = 0 /\ calls = 0

-----------------------------------------------------------------------------
At(pc) == call.pc = pc
Go(pc) == call' = [call EXCEPT !.pc = pc]
Fault == faults < MaxFaults /\ faults' = faults + 1 /\ UNCHANGED <<crashes, calls>>

\* The call ends: what the layer store makes of its result.
Outcome(ok) ==
  IF call.op \in {"create", "createRW", "createAs", "update"} THEN IF ok THEN "live" ELSE "none"
  ELSE IF call.op = "undo" THEN "none"
  ELSE IF call.op = "remove" THEN IF ok THEN "none" ELSE "removing"
  ELSE known[call.id]

Return(ok) ==
  /\ call' = Idle
  /\ known' = [known EXCEPT ![call.id] = Outcome(ok)]

Begin(op, x, pc) ==
  /\ At("idle") /\ calls < MaxCalls
  /\ calls' = calls + 1
  /\ call' = [Idle EXCEPT !.op = op, !.id = x, !.pc = pc]
  /\ UNCHANGED <<home, mounts, alRefs, next, quotas, faults, crashes>>

LinksTo(x, links) == {l \in Links : links[l] = x}

Children(x) == {y \in Layers : known[y] # "none" /\ parent[y] = x}

\* os.Stat of a lower: its symbolic link, and the diff directory that it points to.
Resolves(l) == l = SharedLink \/ (symlink[l] # None /\ dir[symlink[l]] # None /\ dir[symlink[l]].diff[0] # None)

\* The directories diff1, diff2, ... of a layer, up to the first that is missing.
Extra(x) == LET n == CHOOSE k \in 0..2 : /\ \A i \in 1..k : dir[x].diff[i] # None
                                         /\ k = 2 \/ dir[x].diff[k + 1] = None
            IN  [i \in 1..n |-> <<x, i>>]

Lowers(l) == IF l = SharedLink THEN <<<<Shared, 0>>>>
             ELSE <<<<symlink[l], 0>>>> \o Extra(symlink[l])

\* Mutant: the layer's own directories come last.
AbsLowersLast(x) == FlattenSeq([i \in DOMAIN dir[x].lower |-> Lowers(dir[x].lower[i])]) \o Extra(x)

\* absLowers of get: the layer's own diff1, ... and then each lower with its diff1, ...
absLowers(x) == Extra(x) \o FlattenSeq([i \in DOMAIN dir[x].lower |-> Lowers(dir[x].lower[i])])

-----------------------------------------------------------------------------
(* create *)

\* Create and CreateReadWrite; CreateAs of an additional layer begins with Create.
Create(x, op) ==
  /\ known[x] = "none" /\ (parent[x] \in Layers => known[parent[x]] = "live")
  /\ op = "createAs" => handle
  /\ Begin(op, x, "mkdir")
  /\ known' = [known EXCEPT ![x] = "creating"]
  /\ filled' = filled \ {x} /\ mapped' = mapped \ {x}
  /\ UNCHANGED <<handle, parent, left, extra>>

\* The deferred clean-up of create: the symbolic link stays.
CleanUp ==
  /\ dir' = [dir EXCEPT ![call.id] = None]
  /\ Return(FALSE)
  /\ left' = IF LinksTo(call.id, symlink) = {} THEN left ELSE left \cup {call.id}
  /\ UNCHANGED <<symlink, staging, mounts, alRefs, handle, parent, filled, mapped, extra>>

CreateFails == CleanUp /\ UNCHANGED <<next, quotas>>

\* A failure before the clean-up is deferred: what there is of the directory stays.
MkdirFails(d) ==
  /\ dir' \in {dir, [dir EXCEPT ![call.id] = d]}
  /\ Return(FALSE)
  /\ left' = IF dir'[call.id] = None THEN left ELSE left \cup {call.id}
  /\ UNCHANGED <<symlink, staging, mounts, alRefs, process, parent, filled, mapped, extra>>

\* The directory, if there is none, and SetQuota for a layer that is written to, which keeps
\* the project ID it gave out if the limits cannot be set.
MkdirLayer ==
  LET x == call.id
      d == IF dir[x] = None THEN EmptyDir ELSE dir[x]
      new == call.op = "createRW" /\ quotas[x] = None
      numbered == /\ quotas' = IF new THEN [quotas EXCEPT ![x] = next] ELSE quotas
                  /\ next' = IF new THEN next + 1 ELSE next
  IN
  /\ At("mkdir")
  /\ \/ /\ dir' = [dir EXCEPT ![x] = IF new THEN [d EXCEPT !.proj = next] ELSE d]
        /\ numbered
        /\ Go("diff")
        /\ UNCHANGED <<symlink, staging, mounts, alRefs, handle, caller, bounds>>
     \/ Fault /\ MkdirFails(d)
     \/ call.op = "createRW" /\ Fault /\ CreateFails
     \/ call.op = "createRW" /\ Fault /\ CleanUp /\ numbered

\* The diff directory takes its permissions from the parent's, which may be missing.
MkdirDiff ==
  LET p == parent[call.id]
      missing == p \in Layers /\ dir[p].diff[0] = None
  IN
  /\ At("diff")
  /\ \/ /\ ~missing
        /\ dir' = [dir EXCEPT ![call.id].diff[0] = IF @ = None THEN "empty" ELSE @]
        /\ Go("symlink")
        /\ UNCHANGED <<symlink, staging, mounts, alRefs, process, caller, bounds>>
     \/ missing /\ CreateFails /\ UNCHANGED bounds
     \/ Fault /\ CreateFails

Named == {dir[x].link : x \in {y \in Layers : dir[y] # None}} \cup UNION {Range(dir[x].lower) : x \in {y \in Layers : dir[y] # None}}

\* generateID: a name that is nowhere in use.
Symlink ==
  /\ At("symlink")
  /\ \/ \E l \in {k \in Links : symlink[k] = None} \ Named :
          /\ symlink' = [symlink EXCEPT ![l] = call.id]
          /\ call' = [call EXCEPT !.pc = "link", !.i = l]
          /\ UNCHANGED <<dir, staging, mounts, alRefs, process, caller, bounds>>
     \/ Fault /\ CreateFails

WriteLink ==
  /\ At("link")
  /\ \/ /\ dir' = [dir EXCEPT ![call.id].link = call.i]
        /\ Go("lower")
        /\ UNCHANGED <<symlink, staging, mounts, alRefs, process, caller, bounds>>
     \/ Fault /\ CreateFails

\* Mutant: the parent's lowers are forgotten.
GetLowerShallow(p) == IF p = Shared THEN <<SharedLink>> ELSE <<dir[p].link>>

\* getLower: the parent's link, recreated if it is lost, and the parent's own lowers.
getLower(p) == IF p = Shared THEN <<SharedLink>>
               ELSE <<dir[p].link>> \o dir[p].lower

\* What follows in the layer store: the rest of CreateAs, the end, or UpdateLayerIDMap if
\* the ID mappings of the layer are not those of its parent.
Created(d) ==
  /\ dir' = d
  /\ IF call.op = "createAs" THEN Go("alRemove") /\ UNCHANGED known
     ELSE \/ Return(TRUE)
          \/ call' = [Idle EXCEPT !.op = "update", !.id = call.id, !.pc = "links"] /\ UNCHANGED known

\* Mutant: a link file that is lost goes unnoticed.
WriteLowerUnchecked ==
  /\ At("lower")
  /\ Created([dir EXCEPT ![call.id].lower = getLower(parent[call.id])])
  /\ UNCHANGED <<symlink, staging, mounts, alRefs, process, parent, filled, mapped, left, extra, bounds>>

WriteLower ==
  LET x == call.id
      lost == parent[x] \in Layers /\ dir[parent[x]].link = None
  IN
  /\ At("lower")
  /\ \/ /\ lost /\ call.ret # "lower"
        /\ call' = [call EXCEPT !.pc = "recreate", !.ret = "lower"]
        /\ UNCHANGED <<home, mounts, alRefs, process, caller, bounds>>
     \/ /\ ~lost /\ ~call.err
        /\ Created([dir EXCEPT ![x].lower = IF parent[x] = None THEN @ ELSE getLower(parent[x])])
        /\ UNCHANGED <<symlink, staging, mounts, alRefs, process, parent, filled, mapped, left, extra, bounds>>
     \/ ((lost /\ call.ret = "lower") \/ call.err) /\ CreateFails /\ UNCHANGED bounds
     \/ ~lost /\ ~call.err /\ Fault /\ CreateFails

-----------------------------------------------------------------------------
(* recreateSymlinks *)

\* Mutant: only link files are restored.
RelinkedNot == symlink

\* The first half of a pass: a symbolic link for each layer that has a link file.
Relinked == [l \in Links |->
  IF symlink[l] = None /\ \E x \in Layers : dir[x] # None /\ dir[x].link = l
  THEN CHOOSE x \in Layers : dir[x] # None /\ dir[x].link = l
  ELSE symlink[l]]

Unnamed == staging # None \/ \E x \in Layers : dir[x] # None /\ dir[x].link = None

\* A pass begins with the layers' link files ...
recreateSymlinks ==
  /\ At("recreate")
  /\ symlink' = Relinked
  /\ call' = [call EXCEPT !.pc = "correct", !.err = Unnamed, !.progress = Relinked # symlink, !.i = Min(Links)]
  /\ UNCHANGED <<dir, staging, mounts, alRefs, process, caller, bounds>>

\* Mutant: the name is not written.
CorrectedNot(x, l) == dir

\* The link file of layer x with the name l.
Corrected(x, l) == [dir EXCEPT ![x].link = l]

\* ... and goes on with the symbolic links, in the order of their names: is each one's name in
\* the link file of the layer it leads to?  It is repeated as long as it changed something.
CorrectLink ==
  LET l == call.i
      x == symlink[l]
      wrong == x # None /\ dir[x] # None /\ dir[x].link # l
      err == call.err \/ (x # None /\ dir[x] = None)
      progress == call.progress \/ wrong
  IN
  /\ At("correct")
  /\ dir' = IF wrong THEN Corrected(x, l) ELSE dir
  /\ call' = IF l < Max(Links) THEN [call EXCEPT !.i = l + 1, !.err = err, !.progress = progress]
             ELSE IF progress THEN [call EXCEPT !.pc = "recreate", !.err = FALSE, !.i = 0]
             ELSE [call EXCEPT !.pc = call.ret, !.err = err, !.i = 0]
  /\ UNCHANGED <<symlink, staging, mounts, alRefs, process, caller, bounds>>

-----------------------------------------------------------------------------
(* Get and Put, and the calls that fill a layer. *)

Get(x) ==
  /\ known[x] = "live" /\ mounts[x] = None
  /\ Begin("get", x, "links")
  /\ UNCHANGED <<handle, caller>>

\* ApplyDiff calls getLowerDirs for isParent, which recreates links in the same way.
ApplyDiff(x) ==
  /\ known[x] = "live" /\ x \notin filled /\ Children(x) = {} /\ mounts[x] = None
  /\ Begin("apply", x, "links")
  /\ UNCHANGED <<handle, caller>>

\* The layer's link file and its lowers; getLowerDirs looks at the symbolic links alone.
Lost(x) ==
  IF call.op = "apply" THEN \E i \in DOMAIN dir[x].lower : dir[x].lower[i] # SharedLink /\ symlink[dir[x].lower[i]] = None
  ELSE dir[x].link = None \/ \E i \in DOMAIN dir[x].lower : ~Resolves(dir[x].lower[i])

FindLowers ==
  /\ At("links")
  /\ call' = IF Lost(call.id) THEN [call EXCEPT !.pc = "recreate", !.ret = "mount"] ELSE [call EXCEPT !.pc = "mount"]
  /\ UNCHANGED <<home, mounts, alRefs, process, caller, bounds>>

\* A call fails; the layer store removes a layer whose mappings it could not set.
Undo == call' = [Idle EXCEPT !.op = "undo", !.id = call.id, !.pc = "rmLink"] /\ UNCHANGED known

Failed == IF call.op = "update" THEN Undo ELSE Return(FALSE)

\* get: a new diff directory if there is none, and the mount.  ApplyDiff unpacks into the diff
\* directory if getLowerDirs found the parent, and into a mount (naiveDiff) if it did not.
Mount ==
  LET x == call.id
      bad == call.err \/ Lost(x)
  IN
  /\ At("mount")
  /\ \/ /\ ~bad
        /\ dir' = [dir EXCEPT ![x].diff[0] = IF call.op \in {"apply", "naive"} THEN "full" ELSE IF @ = None THEN "empty" ELSE @]
        /\ mounts' = IF call.op = "get" THEN [mounts EXCEPT ![x] = absLowers(x)] ELSE mounts
        /\ filled' = IF call.op \in {"apply", "naive"} THEN filled \cup {x} ELSE filled
        /\ IF call.op = "update"
           THEN /\ call' = [call EXCEPT !.pc = "rotate", !.i = Len(Extra(x)) + 1]
                /\ UNCHANGED known
           ELSE Return(TRUE)
        /\ UNCHANGED bounds
     \/ /\ bad /\ call.op = "apply"
        /\ call' = [Idle EXCEPT !.op = "naive", !.id = x, !.pc = "links"]
        /\ UNCHANGED <<dir, mounts, filled, known, bounds>>
     \/ bad /\ call.op # "apply" /\ Failed /\ UNCHANGED <<dir, mounts, filled, bounds>>
     \/ Fault /\ Failed /\ UNCHANGED <<dir, mounts, filled>>
  /\ UNCHANGED <<symlink, staging, alRefs, process, parent, mapped, left, extra>>

Put(x) ==
  /\ mounts[x] # None /\ At("idle") /\ calls < MaxCalls
  /\ mounts' = [mounts EXCEPT ![x] = None]
  /\ UNCHANGED <<home, alRefs, process, call, caller, bounds>>

\* UpdateLayerIDMap, once the files have their new owners: ..., diff1 -> diff2, diff -> diff1.
Rotate ==
  LET x == call.id
      i == call.i
  IN
  /\ At("rotate")
  /\ \/ /\ dir' = [dir EXCEPT ![x].diff[i] = dir[x].diff[i - 1], ![x].diff[i - 1] = None]
        /\ call' = [call EXCEPT !.i = i - 1, !.pc = IF i = 1 THEN "newDiff" ELSE "rotate"]
        /\ UNCHANGED <<known, bounds>>
     \/ Fault /\ Undo /\ UNCHANGED dir
  /\ UNCHANGED <<symlink, staging, mounts, alRefs, process, parent, filled, mapped, left, extra>>

NewDiff ==
  /\ At("newDiff")
  /\ \/ /\ dir' = [dir EXCEPT ![call.id].diff[0] = "empty"]
        /\ mapped' = mapped \cup {call.id}
        /\ Return(TRUE) /\ UNCHANGED bounds
     \/ Fault /\ Undo /\ UNCHANGED <<dir, mapped>>
  /\ UNCHANGED <<symlink, staging, mounts, alRefs, process, parent, filled, left, extra>>

\* ApplyDiffWithDiffer without a layer: a directory in home/staging.
ApplyDiffWithDiffer ==
  /\ At("idle") /\ staging # TRUE /\ calls < MaxCalls
  /\ staging' = TRUE /\ calls' = calls + 1
  /\ UNCHANGED <<dir, symlink, mounts, alRefs, process, call, caller, faults, crashes>>

ApplyDiffFromStagingDirectory(x) ==
  /\ known[x] = "live" /\ x \notin filled /\ Children(x) = {} /\ mounts[x] = None /\ staging = TRUE
  /\ Begin("stage", x, "rmDiff")
  /\ UNCHANGED <<handle, caller>>

RemoveDiff ==
  /\ At("rmDiff")
  /\ dir' = [dir EXCEPT ![call.id].diff[0] = None]
  /\ Go("rename")
  /\ UNCHANGED <<symlink, staging, mounts, alRefs, process, caller, bounds>>

RenameStaged ==
  /\ At("rename")
  /\ \/ /\ dir' = [dir EXCEPT ![call.id].diff[0] = "full"] /\ staging' = FALSE
        /\ filled' = filled \cup {call.id}
        /\ Return(TRUE) /\ UNCHANGED bounds
     \/ Fault /\ UNCHANGED <<dir, staging, filled>> /\ Return(FALSE)
  /\ UNCHANGED <<symlink, mounts, alRefs, process, parent, mapped, left, extra>>

\* CleanupStagingDirectory removes the one directory, Cleanup at shutdown home/staging itself.
CleanupStaging ==
  /\ At("idle") /\ staging # None
  /\ staging' \in {FALSE, None} \ {staging}
  /\ UNCHANGED <<dir, symlink, mounts, alRefs, process, call, caller, bounds>>

-----------------------------------------------------------------------------
(* The additional layer store. *)

\* LookupAdditionalLayer and LookupAdditionalLayerByID, and Release.
LookupAdditionalLayer ==
  /\ At("idle") /\ ~handle /\ calls < MaxCalls
  /\ handle' = TRUE /\ alRefs' = alRefs + 1 /\ calls' = calls + 1
  /\ UNCHANGED <<home, mounts, next, quotas, call, caller, faults, crashes>>

Release ==
  /\ At("idle") /\ handle
  /\ handle' = FALSE /\ alRefs' = alRefs - 1
  /\ UNCHANGED <<home, mounts, next, quotas, call, caller, bounds>>

\* The layer store drops a layer whose CreateAs failed without removing its directory.
AsFails == Return(FALSE) /\ left' = left \cup {call.id} /\ UNCHANGED <<dir, alRefs, filled>>

RemoveEmptyDiff ==
  /\ dir' = [dir EXCEPT ![call.id].diff[0] = None]
  /\ Go("alMark")
  /\ UNCHANGED <<alRefs, known, filled, left>>

MarkAdditional ==
  /\ dir' = [dir EXCEPT ![call.id].al = TRUE]
  /\ Go("alUse")
  /\ UNCHANGED <<alRefs, known, filled, left>>

\* Mutant: the additional layer store is not told.
NotifyUseNot == Go("alSymlink") /\ UNCHANGED <<alRefs, dir, known, filled, left>>

notifyUse ==
  /\ alRefs' = alRefs + 1
  /\ Go("alSymlink")
  /\ UNCHANGED <<dir, known, filled, left>>

SymlinkDiff ==
  /\ dir' = [dir EXCEPT ![call.id].diff[0] = "al"]
  /\ filled' = filled \cup {call.id}
  /\ Return(TRUE)
  /\ UNCHANGED <<alRefs, left>>

CreateAs ==
  /\ \/ At("alRemove") /\ RemoveEmptyDiff /\ UNCHANGED bounds
     \/ At("alMark") /\ MarkAdditional /\ UNCHANGED bounds
     \/ At("alUse") /\ notifyUse /\ UNCHANGED bounds
     \/ At("alSymlink") /\ SymlinkDiff /\ UNCHANGED bounds
     \/ call.pc \in {"alRemove", "alMark", "alSymlink"} /\ AsFails /\ Fault
  /\ UNCHANGED <<symlink, staging, mounts, process, parent, mapped, extra>>

-----------------------------------------------------------------------------
(* Remove *)

RemoveLayer(x) ==
  /\ known[x] \in {"live", "removing"} /\ Children(x) = {} /\ mounts[x] = None
  /\ Begin("remove", x, IF known[x] = "live" THEN "rmLink" ELSE "rmLinkAgain")
  /\ known' = [known EXCEPT ![x] = "removing"]
  /\ UNCHANGED <<handle, parent, filled, mapped, left, extra>>

\* Mutant: the symbolic link stays.
RemoveLinkNot ==
  /\ call.pc \in {"rmLink", "rmLinkAgain"}
  /\ Go(IF At("rmLink") THEN "release" ELSE "releaseAgain")
  /\ UNCHANGED <<home, mounts, alRefs, process, caller, bounds>>

RemoveLink ==
  LET l == IF dir[call.id] = None THEN None ELSE dir[call.id].link IN
  /\ call.pc \in {"rmLink", "rmLinkAgain"}
  /\ symlink' = IF l = None THEN symlink ELSE [symlink EXCEPT ![l] = None]
  /\ left' = IF l = None /\ LinksTo(call.id, symlink) # {} THEN left \cup {call.id} ELSE left
  /\ Go(IF At("rmLink") THEN "release" ELSE "releaseAgain")
  /\ UNCHANGED <<dir, staging, mounts, alRefs, process, known, parent, filled, mapped, extra, bounds>>

releaseAdditionalLayerByID ==
  /\ call.pc \in {"release", "releaseAgain"}
  /\ LET n == IF dir[call.id] # None /\ dir[call.id].al THEN 1 ELSE 0 IN
       /\ alRefs' = alRefs - n
       /\ extra' = IF At("release") THEN extra ELSE extra + n
  /\ Go("rmDir")
  /\ UNCHANGED <<home, mounts, process, known, parent, filled, mapped, left, bounds>>

\* EnsureRemoveAll: when it fails, some of the files may be gone.
EnsureRemoveAll ==
  LET x == call.id IN
  /\ At("rmDir")
  /\ \/ /\ dir' = [dir EXCEPT ![x] = None]
        /\ Return(TRUE)
        /\ UNCHANGED <<left, bounds>>
     \/ /\ dir[x] # None /\ Fault
        /\ dir' \in {dir, [dir EXCEPT ![x] = [@ EXCEPT !.link = None, !.al = FALSE]]}
        /\ left' = IF call.op = "undo" THEN left \cup {x} ELSE left
        /\ Return(FALSE)
  /\ UNCHANGED <<symlink, staging, mounts, alRefs, process, parent, filled, mapped, extra>>

-----------------------------------------------------------------------------
(* The end of a process, and the next one. *)

\* A layer whose creation was under way is not in layers.json.  One whose contents were being
\* written by Put is marked incomplete there, and the next process removes it; one that was
\* there before, for ApplyDiff or ApplyDiffFromStagingDirectory, is not marked, and stays.
AfterCrash ==
  IF call.op \in {"create", "createRW", "createAs", "update", "undo"} THEN {"none"}
  ELSE IF call.op \in {"apply", "naive"} THEN {"removing", known[call.id]}
  ELSE {known[call.id]}

\* findNextProjectID of the new process.
Projects == {dir[x].proj : x \in {y \in Layers : dir[y] # None}}

\* Mutant: the new process counts from the start.
FindFirstProjectID ==
  /\ quotas' = [x \in Layers |-> IF dir[x] # None /\ dir[x].proj > 0 THEN dir[x].proj ELSE None]
  /\ next' = MinProjectID + 1

findNextProjectID ==
  /\ quotas' = [x \in Layers |-> IF dir[x] # None /\ dir[x].proj > 0 THEN dir[x].proj ELSE None]
  /\ next' = 1 + Max(Projects \cup {MinProjectID})

Restart ==
  /\ crashes < MaxCrashes /\ crashes' = crashes + 1 /\ UNCHANGED <<faults, calls>>
  /\ call' = Idle /\ handle' = FALSE
  /\ IF call = Idle THEN UNCHANGED known
     ELSE \E k \in AfterCrash : known' = [known EXCEPT ![call.id] = k]
  /\ left' = IF call.op \in {"create", "createRW", "createAs", "update", "undo"} THEN left \cup {call.id} ELSE left
  /\ UNCHANGED <<staging, alRefs, parent, filled, mapped, extra>>

Crash == Restart /\ findNextProjectID /\ UNCHANGED <<dir, symlink, mounts>>

\* A reboot, which may lose a link file or a symbolic link that had been written.
Reboot ==
  /\ Restart
  /\ mounts' = [x \in Layers |-> None]
  /\ \/ UNCHANGED <<dir, symlink>>
     \/ \E x \in Layers :
          /\ dir[x] # None /\ dir[x].link # None /\ symlink[dir[x].link] = x
          /\ \/ dir' = [dir EXCEPT ![x].link = None] /\ UNCHANGED symlink
             \/ symlink' = [symlink EXCEPT ![dir[x].link] = None] /\ UNCHANGED dir
  /\ findNextProjectID

-----------------------------------------------------------------------------
CallBegins ==
  \E x \in Layers :
    \/ \E op \in {"create", "createRW", "createAs"} : Create(x, op)
    \/ Get(x) \/ Put(x) \/ ApplyDiff(x) \/ ApplyDiffFromStagingDirectory(x) \/ RemoveLayer(x)

Step == \/ MkdirLayer \/ MkdirDiff \/ Symlink \/ WriteLink \/ WriteLower \/ recreateSymlinks \/ CorrectLink
        \/ FindLowers \/ Mount \/ Rotate \/ NewDiff \/ RemoveDiff \/ RenameStaged
        \/ CreateAs \/ RemoveLink \/ releaseAdditionalLayerByID \/ EnsureRemoveAll

Next == \/ CallBegins \/ Step
        \/ ApplyDiffWithDiffer \/ CleanupStaging \/ LookupAdditionalLayer \/ Release
        \/ Crash \/ Reboot

Spec == Init /\ [][Next]_vars

\* A process in a call of the driver runs on.
FairSpec == Spec /\ WF_vars(Step)

-----------------------------------------------------------------------------
(* Properties *)

Dirs == [link : Links \cup {None}, lower : Seq(Links \cup {SharedLink}),
         diff : [0..2 -> {None, "empty", "full", "al"}], al : BOOLEAN, proj : Nat]

\* The type of each variable; known is what layers.json says of a layer.
TypeOK ==
  /\ \A x \in Layers : dir[x] = None \/ dir[x] \in Dirs
  /\ symlink \in [Links -> Layers \cup {None}] /\ staging \in BOOLEAN \cup {None}
  /\ \A x \in Layers : mounts[x] = None \/ mounts[x] \in Seq((Layers \cup {Shared}) \X (0..2))
  /\ alRefs \in Int /\ handle \in BOOLEAN /\ next \in Nat
  /\ quotas \in [Layers -> Nat \cup {None}]
  /\ known \in [Layers -> {"none", "creating", "live", "removing"}]
  /\ filled \subseteq Layers /\ mapped \subseteq Layers /\ left \subseteq Layers /\ extra \in Nat

\* The ancestors of a layer, nearest first, and the directories that a mount of it consists of.
Ancestors(x) ==
  LET chain[n \in 0..Cardinality(Layers), y \in Layers \cup {Shared}] ==
        IF y = Shared \/ parent[y] = None \/ n = 0 THEN <<>> ELSE <<parent[y]>> \o chain[n - 1, parent[y]]
  IN  chain[Cardinality(Layers), x]

Rotated(y) == IF y \in mapped THEN <<<<y, 1>>>> ELSE <<>>

Stack(x) == Rotated(x) \o FlattenSeq([i \in DOMAIN Ancestors(x) |->
                                        <<<<Ancestors(x)[i], 0>>>> \o Rotated(Ancestors(x)[i])])

\* Get mounts a layer's own rotated directories and all of its ancestors', nearest first, whatever
\* links were lost and recreated; a name whose creation was broken off may show what that left.
StackCorrect ==
  \A x \in Layers : mounts[x] # None /\ left \cap ({x} \cup Range(Ancestors(x))) = {} => mounts[x] = Stack(x)

\* What getLower wrote stays of use: a lower names the symbolic link of the ancestor, or the link
\* that the ancestor's link file lets recreateSymlinks make again.
LowersRecoverable ==
  \A x \in Layers : known[x] = "live" =>
    /\ Len(dir[x].lower) = Len(Ancestors(x))
    /\ \A i \in DOMAIN dir[x].lower :
         LET l == dir[x].lower[i] a == Ancestors(x)[i] IN
         IF a = Shared THEN l = SharedLink ELSE symlink[l] = a \/ dir[a].link = l

\* When recreateSymlinks reports no error, the layer that was asked for can be mounted, unless
\* an ancestor has lost its diff directory.
Recovered ==
  At("mount") /\ call.ret = "mount" /\ ~call.err
    => \/ ~Lost(call.id)
       \/ \E i \in DOMAIN dir[call.id].lower : LET a == Ancestors(call.id)[i] IN a # Shared /\ dir[a].diff[0] = None

\* Each symbolic link leads to a layer that has its name in its link file (or has lost that);
\* create and Remove leave others behind only for the names in left.
NothingDangling ==
  \A l \in Links : symlink[l] # None =>
    \/ symlink[l] \in left
    \/ dir[symlink[l]] # None /\ dir[symlink[l]].link \in {l, None}

\* No two directories have the same project ID, also not after a restart.
DistinctProjects ==
  \A x, y \in Layers : x # y /\ dir[x] # None /\ dir[y] # None /\ dir[x].proj = dir[y].proj => dir[x].proj = 0

\* The additional layer store counts every layer and handle that uses its layer, but for the
\* references that a repeated Remove gave back again.
UsersCounted ==
  LET users == {x \in Layers \ left : dir[x] # None /\ dir[x].al /\ (x = call.id => At("alSymlink"))
                                      /\ known[x] # "removing"} IN
  alRefs + extra >= Cardinality(users) + (IF handle THEN 1 ELSE 0)

Recreating == call.pc \in {"recreate", "correct"}

\* recreateSymlinks comes to an end if no layer has two symbolic links, nor one that is not the
\* one its link file names, whatever links and link files are lost and whatever create or Remove
\* has left: each pass then repairs something for good.  (Otherwise two names of a layer take turns
\* in its link file, and the passes never end.)
RecoveryEnds ==
  (Recreating /\ \A x \in Layers :
      /\ Cardinality(LinksTo(x, symlink)) <= 1
      /\ dir[x] # None /\ dir[x].link # None => LinksTo(x, symlink) \subseteq {dir[x].link})
    ~> ~Recreating

\* The links by which a layer is mounted can be found or made again: lower files lead to the
\* ancestors, recreateSymlinks repairs what a reboot lost, and no link leads elsewhere.
LinksRecoverable == LowersRecoverable /\ Recovered /\ NothingDangling

\* What is given out is accounted for: project IDs, which are found again from the directories
\* after a restart, and references to layers of the additional layer store.
Accounted == TypeOK /\ DistinctProjects /\ UsersCounted

=============================================================================
