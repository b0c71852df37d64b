------------------------------- MODULE Store --------------------------------
(***************************************************************************)
(* The records of layers, images and containers on disk, and the calls of  *)
(* the store that create and delete them (store.go).                       *)
(*                                                                         *)
(* A call holds the write lock of the layer store until it returns, so     *)
(* calls do not overlap; but a call saves its changes one file at a time,  *)
(* and the process may die, or the graph driver fail, between two saves.   *)
(* Every action is one save (or one iteration of a loop) of a call.  That  *)
(* each call finds in memory what is on disk is the subject of FileStore.  *)
(* Additional read-only stores and drivers that shift IDs, for which no    *)
(* mapped layers are made, are left out.                                   *)
(***************************************************************************)
EXTENDS Naturals, Sequences, FiniteSets, Functions

CONSTANTS
    Layer, Image, Container, \* IDs
    Mapping,   \* ID mappings of layers
    Usage,     \* what clients do beyond the ordinary, a subset of UsageKind
    Faults,    \* what may go wrong, a subset of FaultKind
    None

UsageKind == {"deleteByName", "Delete", "Wipe"}

\* What no check of CreateImage keeps a client from.
Odd == {"imageOfContainerLayer", "imageOfMappedLayer"}

\* "driver": the driver fails to make or remove a layer.  "save": images.json or
\* containers.json cannot be written.  "reload": containers.json cannot be read.
FaultKind == {"crash", "driver", "save", "reload"}

ASSUME NoneAssumption == None \notin Layer \cup Image \cup Container \cup Mapping
ASSUME KindAssumption == Usage \subseteq UsageKind /\ Faults \subseteq FaultKind

VARIABLES
    layers, parent, mapping,        \* layers.json
    images, top, mapped,            \* images.json: TopLayer, MappedTopLayers
    containers, imageOf, layerOf,   \* containers.json
    pc, arg,                        \* the call that is running
    layersToRemove,                 \* of DeleteImage
    used                            \* which of Usage and Odd has happened

layerRecords == <<layers, parent, mapping>>
imageRecords == <<images, top, mapped>>
containerRecords == <<containers, imageOf, layerOf>>
vars == <<layerRecords, imageRecords, containerRecords, pc, arg, layersToRemove, used>>

Optional(S) == S \cup {None}

\* The arguments and locals of a call in progress.
Locals == [container : Optional(Container), image : Optional(Image), layer : Optional(Layer),
           parent : Optional(Layer), map : Optional(Mapping), mapped : Seq(Layer)]

NoArg == [container |-> None, image |-> None, layer |-> None, parent |-> None,
          map |-> None, mapped |-> <<>>]

ContainerLayers == {layerOf[c] : c \in containers}
TopLayers == {top[i] : i \in images} \ {None}
MappedLayers == UNION {Range(mapped[i]) : i \in images}

Children(l) == {x \in layers : parent[x] = l}

\* A generated ID is not in use anywhere.
Unused(l) ==
    /\ l \notin layers \cup ContainerLayers \cup TopLayers \cup MappedLayers
    /\ Children(l) = {}

-----------------------------------------------------------------------------
Init ==
    /\ layers = {} /\ parent = [l \in Layer |-> None] /\ mapping = [l \in Layer |-> None]
    /\ images = {} /\ top = [i \in Image |-> None] /\ mapped = [i \in Image |-> <<>>]
    /\ containers = {}
    /\ imageOf = [c \in Container |-> None] /\ layerOf = [c \in Container |-> None]
    /\ pc = "idle" /\ arg = NoArg /\ layersToRemove = <<>> /\ used = {}

AddLayer(l, p, m) ==
    /\ layers' = layers \cup {l}
    /\ parent' = [parent EXCEPT ![l] = p]
    /\ mapping' = [mapping EXCEPT ![l] = m]

RemoveLayer(l) ==
    /\ layers' = layers \ {l}
    /\ parent' = [parent EXCEPT ![l] = None]
    /\ mapping' = [mapping EXCEPT ![l] = None]

RemoveImage(i) ==
    /\ images' = images \ {i}
    /\ top' = [top EXCEPT ![i] = None]
    /\ mapped' = [mapped EXCEPT ![i] = <<>>]

RemoveContainer(c) ==
    /\ containers' = containers \ {c}
    /\ imageOf' = [imageOf EXCEPT ![c] = None]
    /\ layerOf' = [layerOf EXCEPT ![c] = None]

\* The call goes on at p with locals a, or returns and unlocks.
Continue(p, a) == pc' = p /\ arg' = a
Return == pc' = "idle" /\ arg' = NoArg

\* The step is one that only some clients ask for.
Uses(U) == U \subseteq Usage /\ used' = used \cup U

-----------------------------------------------------------------------------
\* Mutant of PutLayer: a container's layer may be a parent.
PutLayerOnContainer(l, p, m) ==
    /\ pc = "idle"
    /\ l \notin layers \cup ContainerLayers \cup MappedLayers
    /\ p = None \/ p \in layers
    /\ AddLayer(l, p, m)
    /\ UNCHANGED <<imageRecords, containerRecords, pc, arg, layersToRemove, used>>

\* Mutant of PutLayer: the ID may be in use.
PutLayerAgain(l, p, m) ==
    /\ pc = "idle"
    /\ p = None \/ p \in layers \ ContainerLayers
    /\ AddLayer(l, p, m)
    /\ UNCHANGED <<imageRecords, containerRecords, pc, arg, layersToRemove, used>>

\* The caller or a generator chooses the ID.  Callers that choose IDs derive
\* them from contents: these do not coincide with generated ones.
PutLayer(l, p, m) ==
    /\ pc = "idle"
    /\ l \notin layers \cup ContainerLayers \cup MappedLayers
    /\ p = None \/ p \in layers \ ContainerLayers
    /\ AddLayer(l, p, m)
    /\ UNCHANGED <<imageRecords, containerRecords, pc, arg, layersToRemove, used>>

\* The layer may be any, a container's or an image's mapped one included.
\* An image without layers is created under the lock of the image store only,
\* which a CreateContainer without an image does not hold.
CreateImage(i, t) ==
    /\ \/ pc = "idle"
       \/ t = None /\ pc \in {"create", "record", "undo"} /\ arg.image = None
    /\ i \notin images
    /\ t # None => t \in layers
    /\ used' = used \cup {u \in {"imageOfContainerLayer"} : t \in ContainerLayers}
                    \cup {u \in {"imageOfMappedLayer"} : t \in MappedLayers}
    /\ images' = images \cup {i}
    /\ top' = [top EXCEPT ![i] = t]
    /\ UNCHANGED <<layerRecords, mapped, containerRecords, pc, arg, layersToRemove>>

\* The top layer and its mapped copies, those whose parent is known.
candidates(i) ==
    {l \in layers \cap ({top[i]} \cup Range(mapped[i])) :
        parent[l] = None \/ parent[l] \in layers}

\* CreateContainer up to its first save: imageTopLayerForMapping finds the
\* layer to build on, or decides to make a mapped copy of the first candidate.
CreateContainer(c, i, l, m) ==
    LET locals == [NoArg EXCEPT !.container = c, !.image = i, !.layer = l, !.map = m]
        prefer(S) == IF top[i] \in S THEN {top[i]} ELSE S
        matching == {x \in candidates(i) : mapping[x] = m}
    IN
    /\ pc = "idle"
    /\ l \in layers \/ Unused(l)
    /\ i # None => i \in images
    /\ IF i = None \/ top[i] = None
       THEN Continue("create", locals)
       ELSE IF matching # {}
       THEN \E x \in prefer(matching) : Continue("create", [locals EXCEPT !.parent = x])
       ELSE \E x \in prefer(candidates(i)) :
                Continue("map", [locals EXCEPT !.parent = parent[x]])
    /\ UNCHANGED <<layerRecords, imageRecords, containerRecords, layersToRemove, used>>

\* Mutant of PutMappedLayer: the copy has no parent.
PutOrphanMappedLayer(l) ==
    /\ pc = "map"
    /\ \/ /\ Unused(l) /\ l # arg.layer
          /\ AddLayer(l, None, arg.map)
          /\ Continue("register", [arg EXCEPT !.parent = l])
       \/ /\ "driver" \in Faults
          /\ Return
          /\ UNCHANGED layerRecords
    /\ UNCHANGED <<imageRecords, containerRecords, layersToRemove, used>>

\* The rest of imageTopLayerForMapping.
PutMappedLayer(l) ==
    /\ pc = "map"
    /\ \/ /\ Unused(l) /\ l # arg.layer
          /\ AddLayer(l, arg.parent, arg.map)
          /\ Continue("register", [arg EXCEPT !.parent = l])
       \/ /\ "driver" \in Faults
          /\ Return
          /\ UNCHANGED layerRecords
    /\ UNCHANGED <<imageRecords, containerRecords, layersToRemove, used>>

addMappedTopLayer ==
    /\ pc = "register"
    /\ mapped' = [mapped EXCEPT ![arg.image] = Append(@, arg.parent)]
    /\ Continue("create", arg)
    /\ UNCHANGED <<layerRecords, images, top, containerRecords, layersToRemove, used>>

\* addMappedTopLayer fails: the copy is deleted again, if the driver can.
UndoMappedLayer ==
    /\ pc = "register" /\ "save" \in Faults
    /\ RemoveLayer(arg.parent) \/ ("driver" \in Faults /\ UNCHANGED layerRecords)
    /\ Return
    /\ UNCHANGED <<imageRecords, containerRecords, layersToRemove, used>>

\* The container's layer.  It is an error if the ID is in use.
PutContainerLayer ==
    /\ pc = "create"
    /\ \/ /\ arg.layer \notin layers
          /\ AddLayer(arg.layer, arg.parent, arg.map)
          /\ Continue("record", arg)
       \/ /\ arg.layer \in layers \/ "driver" \in Faults
          /\ Return
          /\ UNCHANGED layerRecords
    /\ UNCHANGED <<imageRecords, containerRecords, layersToRemove, used>>

\* The container itself.  If its ID is in use, or it cannot be saved, the layer
\* is deleted again; if the container store cannot be reloaded the call just
\* returns.
PutContainer ==
    /\ pc = "record"
    /\ \/ /\ arg.container \notin containers
          /\ containers' = containers \cup {arg.container}
          /\ imageOf' = [imageOf EXCEPT ![arg.container] = arg.image]
          /\ layerOf' = [layerOf EXCEPT ![arg.container] = arg.layer]
          /\ Return
       \/ /\ arg.container \in containers \/ "save" \in Faults
          /\ Continue("undo", arg)
          /\ UNCHANGED containerRecords
       \/ /\ "reload" \in Faults
          /\ Return
          /\ UNCHANGED containerRecords
    /\ UNCHANGED <<layerRecords, imageRecords, layersToRemove, used>>

UndoContainerLayer ==
    /\ pc = "undo"
    /\ RemoveLayer(arg.layer) \/ ("driver" \in Faults /\ UNCHANGED layerRecords)
    /\ Return
    /\ UNCHANGED <<imageRecords, containerRecords, layersToRemove, used>>

-----------------------------------------------------------------------------
\* The checks compare IDs with the argument, which is not an ID if the caller
\* named the layer in another way; the same goes for the images to update.
DeleteLayer(l, byID) ==
    /\ pc = "idle"
    /\ l \in layers
    /\ IF byID
       THEN Children(l) = {} /\ l \notin TopLayers \cup ContainerLayers /\ Uses({})
       ELSE Uses({"deleteByName"})
    /\ RemoveLayer(l)
    /\ IF byID /\ l \in MappedLayers
       THEN Continue("unmap", [NoArg EXCEPT !.layer = l])
       ELSE Return
    /\ UNCHANGED <<imageRecords, containerRecords, layersToRemove>>

\* Mutant of removeMappedTopLayer: blanks the entry.
blankMappedTopLayer(i) ==
    /\ pc = "unmap"
    /\ i \in images /\ arg.layer \in Range(mapped[i])
    /\ mapped' = [mapped EXCEPT ![i] =
                     [k \in DOMAIN @ |-> IF @[k] = arg.layer THEN None ELSE @[k]]]
    /\ Return
    /\ UNCHANGED <<layerRecords, images, top, containerRecords, layersToRemove, used>>

\* The sequence less the element at position k.
Without(s, k) == SubSeq(s, 1, k - 1) \o SubSeq(s, k + 1, Len(s))

\* An entry is there once: addMappedTopLayer adds new layers only.
removeMappedTopLayer(i) ==
    /\ pc = "unmap"
    /\ i \in images
    /\ \E k \in DOMAIN mapped[i] :
          mapped[i][k] = arg.layer /\ mapped' = [mapped EXCEPT ![i] = Without(@, k)]
    /\ IF \E j \in images \ {i} : arg.layer \in Range(mapped[j])
       THEN Continue("unmap", arg)
       ELSE Return
    /\ UNCHANGED <<layerRecords, images, top, containerRecords, layersToRemove, used>>

\* DeleteImage(i, commit) deletes the image first.  In its locals image is not
\* used, layer is the loop variable and parent the image's TopLayer.
DeleteImage(i) ==
    /\ pc = "idle"
    /\ i \in images
    /\ \A c \in containers : imageOf[c] # i
    /\ RemoveImage(i)
    /\ Continue("walk", [NoArg EXCEPT !.layer = top[i], !.parent = top[i],
                                      !.mapped = mapped[i]])
    /\ UNCHANGED <<layerRecords, containerRecords, layersToRemove, used>>

\* Mutant of hasChildrenNotBeingRemoved: asks about the top layer only.
topHasChildren(l) ==
    \E x \in IF l = arg.parent THEN {l} \cup Range(arg.mapped) ELSE {} :
        ~ Children(x) \subseteq Range(layersToRemove)

hasChildrenNotBeingRemoved(l) ==
    \E x \in {l} \cup IF l = arg.parent THEN Range(arg.mapped) ELSE {} :
        ~ Children(x) \subseteq Range(layersToRemove)

\* Mutant of WalkUp: does not look at the other images.
WalkUpPastImages ==
    LET l == arg.layer IN
    /\ pc = "walk"
    /\ IF l = None \/ l \in ContainerLayers \/ hasChildrenNotBeingRemoved(l)
       THEN Continue("remove", NoArg) /\ UNCHANGED layersToRemove
       ELSE /\ layersToRemove' = layersToRemove
                   \o (IF l = arg.parent THEN arg.mapped ELSE <<>>) \o <<l>>
            /\ Continue("walk", [arg EXCEPT !.layer = parent[l]])
    /\ UNCHANGED <<layerRecords, imageRecords, containerRecords, used>>

\* An iteration of the loop that decides what to remove.
WalkUp ==
    LET l == arg.layer IN
    /\ pc = "walk"
    /\ IF \/ l = None
          \/ l \in ContainerLayers \cup TopLayers \cup MappedLayers
          \/ hasChildrenNotBeingRemoved(l)
       THEN Continue("remove", NoArg) /\ UNCHANGED layersToRemove
       ELSE /\ layersToRemove' = layersToRemove
                   \o (IF l = arg.parent THEN arg.mapped ELSE <<>>) \o <<l>>
            /\ Continue("walk", [arg EXCEPT !.layer = parent[l]])
    /\ UNCHANGED <<layerRecords, imageRecords, containerRecords, used>>

\* An iteration of the loop that removes.  An error ends it.
RemoveLayers ==
    /\ pc = "remove"
    /\ \/ /\ layersToRemove # <<>> /\ Head(layersToRemove) \in layers
          /\ RemoveLayer(Head(layersToRemove))
          /\ layersToRemove' = Tail(layersToRemove)
          /\ UNCHANGED <<pc, arg>>
       \/ /\ layersToRemove # <<>> =>
                Head(layersToRemove) \notin layers \/ "driver" \in Faults
          /\ layersToRemove' = <<>>
          /\ Return
          /\ UNCHANGED layerRecords
    /\ UNCHANGED <<imageRecords, containerRecords, used>>

\* DeleteContainer deletes the layer, if there is one, and the container in
\* two goroutines.
DeleteContainer(c) ==
    /\ pc = "idle"
    /\ c \in containers
    /\ Continue("delete", [NoArg EXCEPT !.container = c,
                              !.layer = IF layerOf[c] \in layers THEN layerOf[c] ELSE None])
    /\ UNCHANGED <<layerRecords, imageRecords, containerRecords, layersToRemove, used>>

\* Both report: the call returns after the second.
ContinueDeleting(a) ==
    IF a.layer = None /\ a.container = None THEN Return ELSE Continue("delete", a)

DropLayer ==
    /\ pc = "delete" /\ arg.layer # None
    /\ RemoveLayer(arg.layer) \/ ("driver" \in Faults /\ UNCHANGED layerRecords)
    /\ ContinueDeleting([arg EXCEPT !.layer = None])
    /\ UNCHANGED <<imageRecords, containerRecords, layersToRemove, used>>

DropContainer ==
    /\ pc = "delete" /\ arg.container # None
    /\ RemoveContainer(arg.container)
    /\ ContinueDeleting([arg EXCEPT !.container = None])
    /\ UNCHANGED <<layerRecords, imageRecords, layersToRemove, used>>

-----------------------------------------------------------------------------
\* Delete, which checks nothing, of an image or of a layer.  (A layer's ID
\* also finds its container.)
DeleteImageRecord(i) ==
    /\ pc = "idle" /\ Uses({"Delete"})
    /\ i \in images
    /\ RemoveImage(i)
    /\ UNCHANGED <<layerRecords, containerRecords, pc, arg, layersToRemove>>

DeleteLayerRecord(l) ==
    /\ pc = "idle" /\ Uses({"Delete"})
    /\ l \in layers \ ContainerLayers
    /\ RemoveLayer(l)
    /\ UNCHANGED <<imageRecords, containerRecords, pc, arg, layersToRemove>>

\* Delete of a container: the layer, which must exist, and then the container.
DeleteContainerRecord(c) ==
    /\ pc = "idle" /\ Uses({"Delete"})
    /\ c \in containers /\ layerOf[c] \in layers
    /\ RemoveLayer(layerOf[c])
    /\ Continue("delete", [NoArg EXCEPT !.container = c])
    /\ UNCHANGED <<imageRecords, containerRecords, layersToRemove>>

Wipe ==
    /\ pc = "idle" /\ Uses({"Wipe"})
    /\ Continue("wipe", NoArg)
    /\ UNCHANGED <<layerRecords, imageRecords, containerRecords, layersToRemove>>

\* All containers, then all images, then all layers, each in any order.
WipeContainer(c) ==
    /\ pc = "wipe" /\ c \in containers
    /\ RemoveContainer(c)
    /\ UNCHANGED <<layerRecords, imageRecords, pc, arg, layersToRemove, used>>

\* Mutant of WipeImage: does not wait for the containers.
WipeImageEarly(i) ==
    /\ pc = "wipe" /\ i \in images
    /\ RemoveImage(i)
    /\ UNCHANGED <<layerRecords, containerRecords, pc, arg, layersToRemove, used>>

WipeImage(i) ==
    /\ pc = "wipe" /\ containers = {} /\ i \in images
    /\ RemoveImage(i)
    /\ UNCHANGED <<layerRecords, containerRecords, pc, arg, layersToRemove, used>>

WipeLayer(l) ==
    /\ pc = "wipe" /\ containers = {} /\ images = {}
    /\ \/ l \in layers /\ RemoveLayer(l) /\ UNCHANGED <<pc, arg>>
       \/ (layers = {} \/ "driver" \in Faults) /\ Return /\ UNCHANGED layerRecords
    /\ UNCHANGED <<imageRecords, containerRecords, layersToRemove, used>>

\* The process dies in the middle of a call.
Crash ==
    /\ "crash" \in Faults /\ pc # "idle"
    /\ Return
    /\ layersToRemove' = <<>>
    /\ UNCHANGED <<layerRecords, imageRecords, containerRecords, used>>

Next ==
    \/ \E l \in Layer :
        \/ \E p \in Optional(Layer), m \in Mapping : PutLayer(l, p, m)
        \/ \E c \in Container, i \in Optional(Image), m \in Mapping :
              CreateContainer(c, i, l, m)
        \/ PutMappedLayer(l)
        \/ \E byID \in BOOLEAN : DeleteLayer(l, byID)
        \/ DeleteLayerRecord(l) \/ WipeLayer(l)
    \/ \E i \in Image :
        \/ \E t \in Optional(Layer) : CreateImage(i, t)
        \/ removeMappedTopLayer(i) \/ DeleteImage(i) \/ DeleteImageRecord(i) \/ WipeImage(i)
    \/ \E c \in Container :
        DeleteContainer(c) \/ DeleteContainerRecord(c) \/ WipeContainer(c)
    \/ addMappedTopLayer \/ UndoMappedLayer \/ PutContainerLayer \/ PutContainer \/ UndoContainerLayer
    \/ WalkUp \/ RemoveLayers \/ DropLayer \/ DropContainer
    \/ Wipe \/ Crash

Spec == Init /\ [][Next]_vars

-----------------------------------------------------------------------------
\* Type invariant.
TypeOK ==
    /\ layers \subseteq Layer /\ images \subseteq Image /\ containers \subseteq Container
    /\ parent \in [Layer -> Optional(Layer)] /\ mapping \in [Layer -> Optional(Mapping)]
    /\ top \in [Image -> Optional(Layer)] /\ mapped \in [Image -> Seq(Layer)]
    /\ imageOf \in [Container -> Optional(Image)]
    /\ layerOf \in [Container -> Optional(Layer)]
    /\ pc \in {"idle", "map", "register", "create", "record", "undo", "unmap",
               "walk", "remove", "delete", "wipe"}
    /\ arg \in Locals
    /\ layersToRemove \in Seq(Layer)
    /\ used \subseteq Usage \cup Odd
    /\ pc = "idle" => arg = NoArg /\ layersToRemove = <<>>

\* The parent of every layer exists, whatever calls were interrupted where.
\* Delete, an interrupted Wipe and an image of a container's or a mapped layer,
\* which goes with the container or the image, promise nothing.
ParentsExist == used = {} => \A l \in layers : parent[l] \in Optional(layers)

\* The top layer of every image exists, whatever calls, including Wipe, were
\* interrupted where; with the other exceptions of ParentsExist.
TopLayersExist == used \subseteq {"Wipe"} => TopLayers \subseteq layers

\* The image that a container was made from exists, as for TopLayersExist.
ImagesOfContainersExist ==
    used \subseteq {"Wipe"} => \A c \in containers : imageOf[c] \in Optional(images)

\* A container's layer is no image's mapped layer and no other container's,
\* whatever clients do.  It has no children and is no image's top layer ("their
\* layers can not be directly referred to by images"), unless a client has
\* asked CreateImage for an image of a container's layer, which is not checked.
ContainerLayersPrivate ==
    \A c \in containers :
        /\ layerOf[c] \notin MappedLayers
        /\ \A d \in containers : layerOf[c] = layerOf[d] => c = d
        /\ "imageOfContainerLayer" \notin used =>
              layerOf[c] \notin TopLayers /\ Children(layerOf[c]) = {}

\* The alternate versions of an image's top layer "have the same contents and
\* parent".
MappedLayersShareParent ==
    used \subseteq {"Wipe"} => \A i \in images : \A l \in Range(mapped[i]) \cap layers :
        l # top[i] /\ parent[l] = parent[top[i]]

\* No layer is listed twice among an image's mapped top layers, so that
\* removeMappedTopLayer leaves none behind.
MappedOnce == \A i \in images : IsInjective(mapped[i])

\* Whatever calls were interrupted, clients can get rid of everything by
\* deleting containers, then images, then layers without children.
Reclaimable ==
    used = {} /\ containers = {} /\ images = {} /\ layers # {} =>
        \E l \in layers : Children(l) = {}

\* DeleteLayer never removes a layer that is "referred to by any images".
DeleteLayerKeepsTopLayers ==
    used \subseteq {"deleteByName"} => TopLayers \subseteq layers

\* No reference dangles: whatever calls were interrupted where, by a crash or a failing driver,
\* parents, top layers and the images of containers exist, as long as clients do not use Delete or
\* Wipe, and do not make images of a container's or of a mapped layer.
NothingDangles == TypeOK /\ ParentsExist /\ TopLayersExist /\ ImagesOfContainersExist

\* Layers stay in the place they were made for: a container's layer is its own, and a mapped top
\* layer, listed once, stands beside the top layer that it is a version of.
LayersInPlace == ContainerLayersPrivate /\ MappedLayersShareParent /\ MappedOnce

=============================================================================
