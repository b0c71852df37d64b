--------------------------- MODULE StoreInvariant ---------------------------
(***************************************************************************)
(* The inductive invariant of Store, and that the calls that create layers,*)
(* images and containers preserve it.                                      *)
(***************************************************************************)
EXTENDS Store, SequenceTheorems, TLAPS

Creating == {"map", "register", "create", "record", "undo"}

\* The calls after which something is promised of layers and images, and of the layers of
\* containers.
Orderly == used \subseteq {"Wipe"}
Private == "imageOfContainerLayer" \notin used

\* Nothing refers to the layer.
Untouched(l) ==
    /\ l \in Layer
    /\ \A c \in containers : layerOf[c] # l
    /\ \A i \in images : top[i] # l
    /\ \A i \in images : \A k \in DOMAIN mapped[i] : mapped[i][k] # l
    /\ \A x \in layers : parent[x] # l

\* What records there are.
RecordsInv ==
    /\ pc \notin {"walk", "remove"} => layersToRemove = <<>>
    /\ \A i \in Image : i \notin images => mapped[i] = <<>>
    /\ \A c \in containers : layerOf[c] \in Layer
    /\ pc = "wipe" => "Wipe" \in used

\* The locals of CreateContainer: the new layer is one that nothing refers to, and what it will
\* be built on exists and is no container's.
CreatingInv ==
    /\ pc \in Creating =>
          /\ arg.container \in Container /\ arg.layer \in Layer
          /\ arg.image \in images \cup {None}
    /\ pc \in {"map", "register", "create"} =>
          /\ arg.parent \in layers \cup {None}
          /\ arg.layer \notin layers => Untouched(arg.layer)
    /\ pc \in {"record", "undo"} => Untouched(arg.layer)
    /\ pc \in {"map", "create"} /\ Private => \A c \in containers : layerOf[c] # arg.parent
    /\ pc \in {"map", "register"} => arg.image \in images /\ top[arg.image] # None
    /\ pc = "register" => arg.parent \in layers /\ Untouched(arg.parent)
    /\ pc = "map" /\ Orderly => arg.parent = parent[top[arg.image]]
    /\ pc = "register" /\ Orderly => parent[arg.parent] = parent[top[arg.image]]

\* The locals of DeleteImage: what it will remove is no image's top layer, and comes after its
\* children.
RemovingInv ==
    /\ pc = "walk" /\ Orderly => \A i \in images : \A k \in DOMAIN arg.mapped : arg.mapped[k] # top[i]
    /\ Orderly => \A i \in images : \A k \in DOMAIN layersToRemove : layersToRemove[k] # top[i]
    /\ \A k \in DOMAIN layersToRemove : \A x \in layers :
          parent[x] = layersToRemove[k] => \E j \in 1..(k-1) : layersToRemove[j] = x

\* The layer that DeleteContainer removes is nobody's parent and no image's top layer.
DeletingInv ==
    pc = "delete" /\ Private /\ arg.layer # None =>
        /\ \A i \in images : top[i] # arg.layer
        /\ \A x \in layers : parent[x] # arg.layer

\* What the records refer to, element by element.
ParentsInv == used = {} => \A x \in layers : parent[x] \in layers \cup {None}
TopsInv == Orderly => \A i \in images : top[i] \in layers \cup {None}
ImagesInv == Orderly => \A c \in containers : imageOf[c] \in images \cup {None}
OwnInv ==
    \A c \in containers :
        /\ \A i \in images : \A k \in DOMAIN mapped[i] : mapped[i][k] # layerOf[c]
        /\ \A d \in containers : layerOf[c] = layerOf[d] => c = d
PrivateInv ==
    Private => \A c \in containers :
        /\ \A i \in images : top[i] # layerOf[c]
        /\ \A x \in layers : parent[x] # layerOf[c]
MappedInv ==
    Orderly => \A i \in images : \A k \in DOMAIN mapped[i] :
        /\ top[i] # None
        /\ \A j \in images : top[j] # mapped[i][k]
        /\ mapped[i][k] \in layers => parent[mapped[i][k]] = parent[top[i]]
OnceInv == \A i \in images : \A j, k \in DOMAIN mapped[i] : mapped[i][j] = mapped[i][k] => j = k

ReferencesInv == ParentsInv /\ TopsInv /\ ImagesInv /\ OwnInv /\ PrivateInv /\ MappedInv /\ OnceInv

\* The inductive invariant.
IInv == TypeOK /\ RecordsInv /\ CreatingInv /\ RemovingInv /\ DeletingInv /\ ReferencesInv

-----------------------------------------------------------------------------
(* What a save does to the records of layers, point by point. *)
LEMMA AddLayerFacts ==
  ASSUME TypeOK, NEW l \in Layer, NEW p \in Optional(Layer), NEW m \in Optional(Mapping), AddLayer(l, p, m)
  PROVE  /\ layers' \subseteq Layer /\ parent' \in [Layer -> Optional(Layer)]
         /\ mapping' \in [Layer -> Optional(Mapping)]
         /\ layers' = layers \cup {l} /\ parent'[l] = p
         /\ \A x \in Layer : x # l => parent'[x] = parent[x]
  BY DEF TypeOK, AddLayer

LEMMA RemoveLayerFacts ==
  ASSUME TypeOK, NEW l \in Layer, RemoveLayer(l)
  PROVE  /\ layers' \subseteq Layer /\ parent' \in [Layer -> Optional(Layer)]
         /\ mapping' \in [Layer -> Optional(Mapping)]
         /\ layers' = layers \ {l} /\ parent'[l] = None
         /\ \A x \in Layer : x # l => parent'[x] = parent[x]
  BY DEF TypeOK, RemoveLayer, Optional

LEMMA RemoveImageFacts ==
  ASSUME TypeOK, NEW i \in Image, RemoveImage(i)
  PROVE  /\ images' \subseteq Image /\ top' \in [Image -> Optional(Layer)] /\ mapped' \in [Image -> Seq(Layer)]
         /\ images' = images \ {i} /\ mapped'[i] = <<>>
         /\ \A j \in Image : j # i => top'[j] = top[j] /\ mapped'[j] = mapped[j]
  BY DEF TypeOK, RemoveImage, Optional

LEMMA RemoveContainerFacts ==
  ASSUME TypeOK, NEW c \in Container, RemoveContainer(c)
  PROVE  /\ containers' \subseteq Container /\ imageOf' \in [Container -> Optional(Image)]
         /\ layerOf' \in [Container -> Optional(Layer)]
         /\ containers' = containers \ {c}
         /\ \A d \in Container : d # c => imageOf'[d] = imageOf[d] /\ layerOf'[d] = layerOf[d]
  BY DEF TypeOK, RemoveContainer, Optional

\* The locals of a call that has returned.
LEMMA ReturnFacts ==
  ASSUME Return
  PROVE  /\ pc' = "idle" /\ arg' = NoArg
         /\ arg' \in Locals
  BY DEF Return, NoArg, Optional, Locals

\* A generated ID.
LEMMA UnusedUntouched ==
  ASSUME NEW l \in Layer, Unused(l)
  PROVE  l \notin layers /\ Untouched(l)
  <1>1. l \notin layers /\ l \notin ContainerLayers /\ l \notin TopLayers /\ l \notin MappedLayers /\ Children(l) = {}
    BY DEF Unused
  <1>2. \A d \in containers : layerOf[d] # l
    BY <1>1 DEF ContainerLayers
  <1>3. \A j \in images : top[j] # l
    BY <1>1, NoneAssumption DEF TopLayers
  <1>4. \A j \in images : \A k \in DOMAIN mapped[j] : mapped[j][k] # l
    BY <1>1 DEF MappedLayers, Range
  <1>5. \A x \in layers : parent[x] # l
    BY <1>1 DEF Children
  <1> QED BY <1>1, <1>2, <1>3, <1>4, <1>5 DEF Untouched

\* A new layer is no reference to one that it is not built on.
LEMMA AddKeepsUntouched ==
  ASSUME TypeOK, NEW l \in Layer, NEW p \in Optional(Layer), NEW m \in Optional(Mapping), AddLayer(l, p, m),
         UNCHANGED <<images, top, mapped, containers, layerOf>>,
         NEW x, Untouched(x), x # p
  PROVE  Untouched(x)'
  BY AddLayerFacts DEF Untouched, TypeOK

\* An empty sequence has no elements to speak of.
LEMMA EmptyDomain == DOMAIN <<>> = {}
  OBVIOUS

\* Between calls there are no locals to speak of.
LEMMA IdleLocals ==
  ASSUME pc' = "idle", layersToRemove' = <<>>,
         \A i \in Image : i \notin images' => mapped'[i] = <<>>,
         \A c \in containers' : layerOf'[c] \in Layer
  PROVE  RecordsInv' /\ CreatingInv' /\ RemovingInv' /\ DeletingInv'
  BY EmptyDomain DEF RecordsInv, CreatingInv, RemovingInv, DeletingInv, Creating

\* Nor are there in the loops that delete containers or records.
LEMMA QuietLocals ==
  ASSUME pc' \in {"unmap", "delete", "wipe"}, layersToRemove' = <<>>, pc' = "wipe" => "Wipe" \in used',
         \A i \in Image : i \notin images' => mapped'[i] = <<>>,
         \A c \in containers' : layerOf'[c] \in Layer
  PROVE  RecordsInv' /\ CreatingInv' /\ RemovingInv'
  BY EmptyDomain DEF RecordsInv, CreatingInv, RemovingInv, Creating

-----------------------------------------------------------------------------
\* A new store is empty.
LEMMA InitIInv == Init => IInv
  <1> SUFFICES ASSUME Init PROVE IInv
    OBVIOUS
  <1>1. TypeOK
    BY DEF Init, TypeOK, NoArg, Optional, Locals
  <1>2. RecordsInv /\ CreatingInv /\ RemovingInv /\ DeletingInv
    BY EmptyDomain DEF Init, RecordsInv, CreatingInv, RemovingInv, DeletingInv, Creating
  <1>3. ReferencesInv
    BY DEF Init, ReferencesInv, ParentsInv, TopsInv, ImagesInv, OwnInv, PrivateInv, MappedInv, OnceInv
  <1> QED BY <1>1, <1>2, <1>3 DEF IInv

-----------------------------------------------------------------------------
(* What the saves leave of the references between records.  The set of     *)
(* unusual calls only grows.                                               *)
LEMMA KeepReferences ==
  ASSUME ReferencesInv, used \subseteq used',
         UNCHANGED <<layers, parent, images, top, mapped, containers, imageOf, layerOf>>
  PROVE  ReferencesInv'
  <1> USE DEF Orderly, Private, ReferencesInv
  <1>1. ParentsInv' /\ TopsInv' /\ ImagesInv' /\ OwnInv' /\ OnceInv'
    BY DEF ParentsInv, TopsInv, ImagesInv, OwnInv, OnceInv
  <1>2. PrivateInv'
    BY DEF PrivateInv
  <1>3. MappedInv'
    BY DEF MappedInv
  <1> QED BY <1>1, <1>2, <1>3

\* A new layer that no image has, on one that is no container's.
LEMMA AddLayerReferences ==
  ASSUME TypeOK, ReferencesInv, UNCHANGED <<images, top, mapped, containers, imageOf, layerOf, used>>,
         NEW l \in Layer, NEW p \in Optional(Layer), NEW m \in Optional(Mapping), AddLayer(l, p, m),
         l \notin layers, p \in layers \cup {None},
         Private => \A c \in containers : layerOf[c] # p,
         \A i \in images : \A k \in DOMAIN mapped[i] : mapped[i][k] # l
  PROVE  ReferencesInv'
  <1> USE DEF ReferencesInv, Orderly, Private
  <1>f. /\ layers' = layers \cup {l} /\ parent'[l] = p
        /\ \A x \in Layer : x # l => parent'[x] = parent[x]
    BY AddLayerFacts
  <1>t. layers \subseteq Layer /\ images \subseteq Image /\ top \in [Image -> Optional(Layer)] /\ mapped \in [Image -> Seq(Layer)]
    BY DEF TypeOK
  <1>1. ParentsInv' /\ TopsInv' /\ ImagesInv' /\ OwnInv' /\ OnceInv'
    BY <1>f, <1>t DEF ParentsInv, TopsInv, ImagesInv, OwnInv, OnceInv
  <1>2. PrivateInv'
    <2>1. Private => \A c \in containers : (\A x \in layers : parent[x] # layerOf[c]) => \A x \in layers' : parent'[x] # layerOf'[c]
      BY <1>f, <1>t
    <2> QED BY <2>1 DEF PrivateInv
  <1>3. MappedInv'
    <2> SUFFICES ASSUME Orderly', NEW i \in images, NEW k \in DOMAIN mapped[i]
                 PROVE  /\ top[i] # None
                        /\ \A j \in images : top[j] # mapped[i][k]
                        /\ mapped[i][k] \in layers' => parent'[mapped[i][k]] = parent'[top[i]]
      BY DEF MappedInv
    <2>1. top[i] \in layers /\ top[i] # None
      BY DEF TopsInv, MappedInv
    <2> QED BY <2>1, <1>f, <1>t DEF MappedInv
  <1> QED BY <1>1, <1>2, <1>3

\* A layer that nothing is built on and no image has as its top, as far as that is promised.
LEMMA RemoveLayerReferences ==
  ASSUME TypeOK, ReferencesInv, used \subseteq used', UNCHANGED <<images, top, mapped, containers, imageOf, layerOf>>,
         NEW l \in Layer, RemoveLayer(l),
         used' = {} => \A x \in layers : parent[x] # l,
         Orderly' => \A i \in images : top[i] # l
  PROVE  ReferencesInv'
  <1> USE DEF ReferencesInv, Orderly, Private
  <1>f. /\ layers' = layers \ {l}
        /\ \A x \in Layer : x # l => parent'[x] = parent[x]
    BY RemoveLayerFacts
  <1>t. layers \subseteq Layer /\ images \subseteq Image /\ top \in [Image -> Optional(Layer)] /\ mapped \in [Image -> Seq(Layer)]
    BY DEF TypeOK
  <1>1. ParentsInv' /\ TopsInv' /\ ImagesInv' /\ OwnInv' /\ OnceInv'
    BY <1>f, <1>t DEF ParentsInv, TopsInv, ImagesInv, OwnInv, OnceInv
  <1>2. PrivateInv'
    <2>1. \A c \in containers : (\A x \in layers : parent[x] # layerOf[c]) => \A x \in layers' : parent'[x] # layerOf'[c]
      BY <1>f, <1>t
    <2> QED BY <2>1 DEF PrivateInv
  <1>3. MappedInv'
    <2> SUFFICES ASSUME Orderly', NEW i \in images, NEW k \in DOMAIN mapped[i]
                 PROVE  /\ top[i] # None
                        /\ \A j \in images : top[j] # mapped[i][k]
                        /\ mapped[i][k] \in layers' => parent'[mapped[i][k]] = parent'[top[i]]
      BY DEF MappedInv
    <2>1. top[i] \in layers /\ top[i] # None /\ top[i] # l
      BY DEF TopsInv, MappedInv
    <2> QED BY <2>1, <1>f, <1>t DEF MappedInv
  <1> QED BY <1>1, <1>2, <1>3

\* An image that no container was made from.
LEMMA RemoveImageReferences ==
  ASSUME TypeOK, ReferencesInv, used \subseteq used', UNCHANGED <<layers, parent, containers, imageOf, layerOf>>,
         NEW i \in Image, RemoveImage(i),
         Orderly' => \A c \in containers : imageOf[c] # i
  PROVE  ReferencesInv'
  <1> USE DEF ReferencesInv, Orderly, Private
  <1>f. /\ images' = images \ {i}
        /\ \A j \in images' : j \in images /\ top'[j] = top[j] /\ mapped'[j] = mapped[j]
    BY RemoveImageFacts DEF TypeOK
  <1>1. ParentsInv' /\ TopsInv' /\ ImagesInv' /\ OwnInv' /\ OnceInv'
    BY <1>f DEF ParentsInv, TopsInv, ImagesInv, OwnInv, OnceInv
  <1>2. PrivateInv'
    BY <1>f DEF PrivateInv
  <1>3. MappedInv'
    BY <1>f DEF MappedInv
  <1> QED BY <1>1, <1>2, <1>3

\* Any container.
LEMMA RemoveContainerReferences ==
  ASSUME TypeOK, ReferencesInv, used \subseteq used', UNCHANGED <<layers, parent, images, top, mapped>>,
         NEW c \in Container, RemoveContainer(c)
  PROVE  ReferencesInv'
  <1> USE DEF ReferencesInv, Orderly, Private
  <1>f. /\ containers' = containers \ {c}
        /\ \A d \in containers' : d \in containers /\ imageOf'[d] = imageOf[d] /\ layerOf'[d] = layerOf[d]
    BY RemoveContainerFacts DEF TypeOK
  <1>1. ParentsInv' /\ TopsInv' /\ ImagesInv' /\ OwnInv' /\ OnceInv'
    BY <1>f DEF ParentsInv, TopsInv, ImagesInv, OwnInv, OnceInv
  <1>2. PrivateInv'
    BY <1>f DEF PrivateInv
  <1>3. MappedInv'
    BY <1>f DEF MappedInv
  <1> QED BY <1>1, <1>2, <1>3

-----------------------------------------------------------------------------
(* One lemma for each action. *)
\* PutLayer: neither the layer nor what it is put on is a container's.
LEMMA PutLayerIInv ==
  ASSUME IInv, NEW l \in Layer, NEW p \in Optional(Layer), NEW m \in Mapping, PutLayer(l, p, m)
  PROVE  IInv'
  <1> USE DEF IInv
  <1>p. /\ pc = "idle" /\ l \notin layers
        /\ \A c \in containers : layerOf[c] # p
        /\ \A i \in images : \A k \in DOMAIN mapped[i] : mapped[i][k] # l
        /\ p \in layers \cup {None}
        /\ UNCHANGED <<images, top, mapped, containers, imageOf, layerOf, pc, arg, layersToRemove, used>>
    BY NoneAssumption DEF PutLayer, ContainerLayers, MappedLayers, Range, imageRecords, containerRecords, RecordsInv
  <1>a. AddLayer(l, p, m) /\ m \in Optional(Mapping)
    BY DEF PutLayer, Optional
  <1>1. TypeOK'
    BY <1>p, <1>a, AddLayerFacts DEF TypeOK
  <1>2. RecordsInv' /\ CreatingInv' /\ RemovingInv' /\ DeletingInv'
    BY <1>p, EmptyDomain DEF RecordsInv, CreatingInv, RemovingInv, DeletingInv, Creating
  <1>3. ReferencesInv'
    BY <1>p, <1>a, AddLayerReferences
  <1> QED BY <1>1, <1>2, <1>3

\* CreateImage: the top layer is there; if it is a container's or a mapped one, that is noted.
LEMMA CreateImageIInv ==
  ASSUME IInv, NEW i \in Image, NEW t \in Optional(Layer), CreateImage(i, t)
  PROVE  IInv'
  <1> USE DEF IInv
  <1>p. /\ pc = "idle" \/ (t = None /\ pc \in {"create", "record", "undo"})
        /\ i \notin images /\ (t # None => t \in layers)
        /\ images' = images \cup {i} /\ used \subseteq used'
        /\ UNCHANGED <<layers, parent, mapping, mapped, containers, imageOf, layerOf, pc, arg, layersToRemove>>
    BY DEF CreateImage, layerRecords, containerRecords
  <1>u. /\ Private' => \A c \in containers : layerOf[c] # t
        /\ Orderly' => \A j \in images : \A k \in DOMAIN mapped[j] : mapped[j][k] # t
        /\ used' \subseteq Usage \cup Odd
    <2>1. used' = used \cup {u \in {"imageOfContainerLayer"} : t \in ContainerLayers}
                      \cup {u \in {"imageOfMappedLayer"} : t \in MappedLayers}
          /\ used' \subseteq Usage \cup Odd
      BY DEF CreateImage, Odd, TypeOK
    <2>2. (Private' => t \notin ContainerLayers) /\ (Orderly' => t \notin MappedLayers)
      BY <2>1 DEF Private, Orderly
    <2> QED BY <2>1, <2>2 DEF ContainerLayers, MappedLayers, Range
  <1>t. /\ top' = [top EXCEPT ![i] = t] /\ top \in [Image -> Optional(Layer)] /\ mapped \in [Image -> Seq(Layer)]
        /\ images \subseteq Image
    BY DEF CreateImage, TypeOK
  <1>f. /\ top'[i] = t /\ mapped[i] = <<>>
        /\ \A j \in images : j # i /\ top'[j] = top[j]
        /\ top' \in [Image -> Optional(Layer)]
    BY <1>t, <1>p DEF RecordsInv
  <1>o. (Orderly' => Orderly) /\ (Private' => Private) /\ (used' = {} => used = {}) /\ (Orderly' => Private')
    BY <1>p DEF Orderly, Private
  <1>1. TypeOK'
    BY <1>p, <1>f, <1>u DEF TypeOK
  <1>2. RecordsInv'
    BY <1>p DEF RecordsInv
  <1>3. CreatingInv'
    <2>1. ASSUME NEW l \in Layer, Untouched(l), pc # "idle" PROVE Untouched(l)'
      BY <2>1, <1>p, <1>f, EmptyDomain, NoneAssumption DEF Untouched
    <2> QED BY <2>1, <1>p, <1>o DEF CreatingInv, Creating
  <1>4. RemovingInv' /\ DeletingInv'
    BY <1>p, EmptyDomain DEF RemovingInv, DeletingInv, RecordsInv
  <1>5. ReferencesInv'
    <2> USE DEF ReferencesInv
    <2>1. ParentsInv' /\ TopsInv' /\ ImagesInv' /\ OwnInv' /\ OnceInv'
      BY <1>p, <1>f, <1>o, EmptyDomain DEF ParentsInv, TopsInv, ImagesInv, OwnInv, OnceInv
    <2>2. PrivateInv'
      <3> SUFFICES ASSUME Private', NEW c \in containers
                   PROVE  /\ \A j \in images' : top'[j] # layerOf[c]
                          /\ \A x \in layers : parent[x] # layerOf[c]
        BY <1>p DEF PrivateInv
      <3> QED BY <1>p, <1>u, <1>f, <1>o, EmptyDomain DEF PrivateInv
    <2>3. MappedInv'
      <3> SUFFICES ASSUME Orderly', NEW j \in images', NEW k \in DOMAIN mapped[j]
                   PROVE  /\ top'[j] # None
                          /\ \A h \in images' : top'[h] # mapped[j][k]
                          /\ mapped[j][k] \in layers => parent[mapped[j][k]] = parent[top'[j]]
        BY SMTT(30), <1>p DEF MappedInv
      <3>1. j \in images
        BY <1>p, <1>f, EmptyDomain
      <3> QED BY <3>1, <1>p, <1>u, <1>f, <1>o DEF MappedInv
    <2> QED BY <2>1, <2>2, <2>3
  <1> QED BY <1>1, <1>2, <1>3, <1>4, <1>5

\* CreateContainer finds a layer to build on, or one to make a mapped copy of, whose parent is
\* not a container's layer, since those have no children.
LEMMA CreateContainerIInv ==
  ASSUME IInv, NEW c \in Container, NEW i \in Optional(Image), NEW l \in Layer, NEW m \in Mapping,
         CreateContainer(c, i, l, m)
  PROVE  IInv'
  <1> USE DEF IInv
  <1>t. /\ layers \subseteq Layer /\ images \subseteq Image /\ parent \in [Layer -> Optional(Layer)]
        /\ top \in [Image -> Optional(Layer)] /\ mapped \in [Image -> Seq(Layer)]
    BY DEF TypeOK
  <1>p. /\ pc = "idle" /\ layersToRemove = <<>>
        /\ i \in images \cup {None}
        /\ UNCHANGED <<layers, parent, mapping, images, top, mapped, containers, imageOf, layerOf, layersToRemove, used>>
    BY ZenonT(30) DEF CreateContainer, layerRecords, imageRecords, containerRecords, RecordsInv
  <1>l. l \notin layers => Untouched(l)
    BY ZenonT(30), UnusedUntouched DEF CreateContainer
  <1>a. PICK q \in Optional(Layer) :
           /\ arg' \in [container : {c}, image : {i}, layer : {l}, parent : {q}, map : {m}, mapped : {<<>>}]
           /\ \/ pc' = "create" /\ q = None
              \/ pc' = "create" /\ q \in candidates(i) /\ i \in images
              \/ pc' = "map" /\ i \in images /\ top[i] # None /\ \E x \in candidates(i) : q = parent[x]
    <2> DEFINE locals == [NoArg EXCEPT !.container = c, !.image = i, !.layer = l, !.map = m]
               prefer(S) == IF top[i] \in S THEN {top[i]} ELSE S
               matching == {x \in candidates(i) : mapping[x] = m}
    <2>l. locals \in [container : {c}, image : {i}, layer : {l}, parent : {None}, map : {m}, mapped : {<<>>}]
      BY ZenonT(30) DEF NoArg
    <2>1. IF i = None \/ top[i] = None
          THEN Continue("create", locals)
          ELSE IF matching # {}
          THEN \E x \in prefer(matching) : Continue("create", [locals EXCEPT !.parent = x])
          ELSE \E x \in prefer(candidates(i)) : Continue("map", [locals EXCEPT !.parent = parent[x]])
      BY ZenonT(30) DEF CreateContainer
    <2>c. candidates(i) \subseteq layers
      BY DEF candidates
    <2> HIDE DEF locals
    <2>2. CASE i = None \/ top[i] = None
      BY <2>1, <2>2, <2>l DEF Continue, Optional
    <2>3. CASE ~(i = None \/ top[i] = None) /\ matching # {}
      <3>1. PICK x \in prefer(matching) : Continue("create", [locals EXCEPT !.parent = x])
        BY <2>1, <2>3
      <3>2. x \in candidates(i)
        BY <2>3
      <3> QED BY <3>1, <3>2, <2>3, <2>l, <2>c, <1>t, <1>p DEF Continue, Optional
    <2>4. CASE ~(i = None \/ top[i] = None) /\ matching = {}
      <3>1. PICK x \in prefer(candidates(i)) : Continue("map", [locals EXCEPT !.parent = parent[x]])
        BY <2>1, <2>4
      <3>2. x \in candidates(i)
        BY <2>4
      <3> QED BY ZenonT(30), <3>1, <3>2, <2>4, <2>l, <2>c, <1>t, <1>p DEF Continue
    <2> QED BY <2>2, <2>3, <2>4
  <1>n. pc' \in {"create", "map"} /\ arg'.container = c /\ arg'.image = i /\ arg'.layer = l /\ arg'.parent = q
    BY <1>a
  <1>1. TypeOK'
    BY <1>p, <1>a DEF TypeOK, Optional, Locals
  <1>2. RecordsInv' /\ RemovingInv' /\ DeletingInv'
    BY <1>p, <1>n DEF RecordsInv, RemovingInv, DeletingInv, Orderly
  <1>3. CreatingInv'
    <2>q. q \in layers \cup {None}
      BY <1>a, <1>t, <1>p DEF candidates
    <2>1. Private => \A d \in containers : layerOf[d] # q
      <3> SUFFICES ASSUME Private, NEW d \in containers, layerOf[d] = q PROVE FALSE
        OBVIOUS
      <3>1. layerOf[d] \in Layer /\ layerOf[d] # None
        BY NoneAssumption DEF RecordsInv
      <3>2. CASE q \in candidates(i) /\ i \in images
        BY <3>2, <1>t DEF candidates, Range, ReferencesInv, OwnInv, PrivateInv
      <3>3. CASE \E x \in candidates(i) : q = parent[x]
        BY <3>3 DEF candidates, ReferencesInv, PrivateInv
      <3> QED BY <3>1, <3>2, <3>3, <1>a
    <2>2. pc' = "map" /\ Orderly => q = parent[top[i]]
      <3> SUFFICES ASSUME pc' = "map", Orderly PROVE q = parent[top[i]]
        OBVIOUS
      <3>1. PICK x \in candidates(i) : q = parent[x]
        BY <1>a
      <3>2. x = top[i] \/ \E k \in DOMAIN mapped[i] : mapped[i][k] = x
        BY DEF candidates, Range
      <3> QED BY <3>1, <3>2, <1>a DEF candidates, ReferencesInv, MappedInv
    <2>3. Untouched(l)' <=> Untouched(l)
      BY <1>p DEF Untouched
    <2> QED BY <2>q, <2>1, <2>2, <2>3, <1>l, <1>p, <1>n, <1>a DEF CreatingInv, Creating, Orderly, Private
  <1>4. ReferencesInv'
    BY <1>p, KeepReferences
  <1> QED BY <1>1, <1>2, <1>3, <1>4

\* The mapped copy has the parent of the layer that it is a copy of, and nothing refers to it yet.
LEMMA PutMappedLayerIInv ==
  ASSUME IInv, NEW l \in Layer, PutMappedLayer(l)
  PROVE  IInv'
  <1> USE DEF IInv
  <1>p. /\ pc = "map" /\ layersToRemove = <<>>
        /\ UNCHANGED <<images, top, mapped, containers, imageOf, layerOf, layersToRemove, used>>
    BY DEF PutMappedLayer, imageRecords, containerRecords, RecordsInv
  <1>t. /\ layers \subseteq Layer /\ images \subseteq Image /\ top \in [Image -> Optional(Layer)]
        /\ arg \in Locals
    BY DEF TypeOK
  <1>1. CASE Unused(l) /\ l # arg.layer /\ AddLayer(l, arg.parent, arg.map)
             /\ Continue("register", [arg EXCEPT !.parent = l])
    <2>a. /\ arg.container \in Container /\ arg.layer \in Layer /\ arg.image \in images /\ top[arg.image] # None
          /\ arg.parent \in layers \cup {None}
          /\ arg.layer \notin layers => Untouched(arg.layer)
          /\ Private => \A c \in containers : layerOf[c] # arg.parent
          /\ Orderly => arg.parent = parent[top[arg.image]]
      BY <1>p DEF CreatingInv, Creating
    <2>l. l \notin layers /\ Untouched(l)
      BY <1>1, UnusedUntouched
    <2>f. /\ layers' \subseteq Layer /\ parent' \in [Layer -> Optional(Layer)] /\ mapping' \in [Layer -> Optional(Mapping)]
          /\ layers' = layers \cup {l} /\ parent'[l] = arg.parent
          /\ \A x \in Layer : x # l => parent'[x] = parent[x]
      BY <1>1, <1>t, AddLayerFacts DEF Locals
    <2>n. /\ pc' = "register" /\ arg'.container = arg.container /\ arg'.image = arg.image /\ arg'.layer = arg.layer
          /\ arg'.parent = l
          /\ arg' \in Locals
      BY <1>1, <1>t DEF Continue, Optional, Locals
    <2>1. TypeOK'
      BY <1>p, <2>f, <2>n DEF TypeOK
    <2>2. RecordsInv' /\ RemovingInv' /\ DeletingInv'
      BY <1>p, <2>n, EmptyDomain DEF RecordsInv, RemovingInv, DeletingInv
    <2>3. CreatingInv'
      <3>1. Untouched(l)'
        BY <1>1, <1>t, <1>p, <2>a, <2>l, AddKeepsUntouched, NoneAssumption DEF Locals
      <3>2. PICK x \in Layer : x = arg.layer /\ x = arg'.layer
        BY <2>a, <2>n
      <3>x. ASSUME x \notin layers' PROVE Untouched(x)'
        <4>1. x \notin layers /\ Untouched(x) /\ x # arg.parent
          BY <3>x, <3>2, <2>a, <2>f, NoneAssumption
        <4> QED BY <4>1, <1>1, <1>t, <1>p, AddKeepsUntouched DEF Locals
      <3>3. Orderly => parent'[l] = parent'[top[arg.image]]
        BY <1>t, <2>a, <2>l, <2>f DEF Untouched, Optional
      <3>4. (arg.layer \notin layers => Untouched(arg.layer))'
        BY <3>2, <3>x DEF Untouched
      <3>5. Untouched(arg.parent)'
        BY <3>1, <2>n DEF Untouched
      <3>6. Orderly' => parent'[arg'.parent] = parent'[top'[arg'.image]]
        BY <3>3, <1>p, <2>n DEF Orderly
      <3>7. /\ arg'.container \in Container /\ arg'.layer \in Layer /\ arg'.image \in images'
            /\ top'[arg'.image] # None /\ arg'.parent \in layers' /\ pc' = "register"
        BY <1>p, <2>a, <2>f, <2>n
      <3> QED BY <3>4, <3>5, <3>6, <3>7 DEF CreatingInv, Creating
    <2>4. ReferencesInv'
      BY <1>1, <1>p, <1>t, <2>a, <2>l, AddLayerReferences DEF Untouched, Locals
    <2> QED BY <2>1, <2>2, <2>3, <2>4
  <1>2. CASE Return /\ UNCHANGED layerRecords
    <2>1. TypeOK'
      BY <1>2, <1>p, ReturnFacts DEF TypeOK, layerRecords
    <2>2. RecordsInv' /\ CreatingInv' /\ RemovingInv' /\ DeletingInv'
      BY <1>2, <1>p, IdleLocals, ReturnFacts DEF RecordsInv
    <2>3. ReferencesInv'
      BY <1>2, <1>p, KeepReferences DEF layerRecords
    <2> QED BY <2>1, <2>2, <2>3
  <1> QED BY <1>1, <1>2 DEF PutMappedLayer

\* The copy becomes one of the image's: it has the parent of the image's top layer, and was no
\* container's and no image's layer.
LEMMA addMappedTopLayerIInv == ASSUME IInv, addMappedTopLayer PROVE IInv'
  <1> USE DEF IInv
  <1>p. /\ pc = "register" /\ pc' = "create" /\ arg' = arg /\ layersToRemove = <<>>
        /\ UNCHANGED <<layers, parent, mapping, images, top, containers, imageOf, layerOf, layersToRemove, used>>
    BY DEF addMappedTopLayer, layerRecords, containerRecords, RecordsInv, Continue
  <1>a. /\ arg.container \in Container /\ arg.layer \in Layer /\ arg.image \in images /\ top[arg.image] # None
        /\ arg.parent \in layers /\ arg.parent \in Layer /\ Untouched(arg.parent)
        /\ arg.layer \notin layers => Untouched(arg.layer)
        /\ Orderly => parent[arg.parent] = parent[top[arg.image]]
    BY <1>p DEF CreatingInv, Creating, TypeOK
  <1>t. images \subseteq Image /\ mapped \in [Image -> Seq(Layer)] /\ mapped' = [mapped EXCEPT ![arg.image] = Append(@, arg.parent)]
    BY DEF TypeOK, addMappedTopLayer
  <1>s. mapped[arg.image] \in Seq(Layer) /\ Append(mapped[arg.image], arg.parent) \in Seq(Layer)
    BY <1>t, <1>a
  <1>f. /\ mapped' \in [Image -> Seq(Layer)]
        /\ \A j \in Image : j # arg.image => mapped'[j] = mapped[j]
        /\ \A k \in DOMAIN mapped'[arg.image] :
              \/ k \in DOMAIN mapped[arg.image] /\ mapped'[arg.image][k] = mapped[arg.image][k]
              \/ k = Len(mapped[arg.image]) + 1 /\ mapped'[arg.image][k] = arg.parent
    BY <1>t, <1>a, <1>s
  <1>1. TypeOK'
    BY <1>p, <1>f DEF TypeOK
  <1>2. RecordsInv' /\ RemovingInv' /\ DeletingInv'
    BY <1>p, <1>f, <1>a, EmptyDomain DEF RecordsInv, RemovingInv, DeletingInv
  <1>3. CreatingInv'
    <2>1. ASSUME arg.layer \notin layers PROVE Untouched(arg.layer)'
      <3>1. /\ Untouched(arg.layer) /\ arg.layer # arg.parent
        BY <1>a, <2>1
      <3>2. \A i \in images : \A k \in DOMAIN mapped'[i] : mapped'[i][k] # arg.layer
        BY <3>1, <1>f, <1>t DEF Untouched
      <3> QED BY <3>1, <3>2, <1>p DEF Untouched
    <2>2. \A c \in containers : layerOf[c] # arg.parent
      BY <1>a DEF Untouched
    <2> QED BY <2>1, <2>2, <1>p, <1>a DEF CreatingInv, Creating
  <1>4. ReferencesInv'
    <2> USE DEF ReferencesInv
    <2>1. ParentsInv' /\ TopsInv' /\ ImagesInv' /\ PrivateInv'
      BY <1>p DEF ParentsInv, TopsInv, ImagesInv, PrivateInv, Orderly, Private
    <2>2. OwnInv'
      <3>1. \A i \in images : \A k \in DOMAIN mapped'[i] :
               \/ k \in DOMAIN mapped[i] /\ mapped'[i][k] = mapped[i][k]
               \/ mapped'[i][k] = arg.parent
        BY <1>f, <1>t
      <3>2. \A c \in containers : layerOf[c] # arg.parent
        BY <1>a DEF Untouched
      <3> QED BY <3>1, <3>2, <1>p DEF OwnInv
    <2>3. MappedInv'
      <3> SUFFICES ASSUME Orderly, NEW i \in images, NEW k \in DOMAIN mapped'[i]
                   PROVE  /\ top[i] # None
                          /\ \A j \in images : top[j] # mapped'[i][k]
                          /\ mapped'[i][k] \in layers => parent[mapped'[i][k]] = parent[top[i]]
        BY <1>p DEF MappedInv, Orderly
      <3>1. CASE k \in DOMAIN mapped[i] /\ mapped'[i][k] = mapped[i][k]
        BY <3>1 DEF MappedInv
      <3>2. CASE i = arg.image /\ mapped'[i][k] = arg.parent
        BY <3>2, <1>a DEF Untouched
      <3> QED BY <3>1, <3>2, <1>f, <1>t
    <2>4. OnceInv'
      <3> SUFFICES ASSUME NEW i \in images, NEW j \in DOMAIN mapped'[i], NEW k \in DOMAIN mapped'[i],
                          mapped'[i][j] = mapped'[i][k]
                   PROVE  j = k
        BY <1>p DEF OnceInv
      <3>1. \A h \in DOMAIN mapped[i] : mapped[i][h] # arg.parent
        BY <1>a DEF Untouched
      <3>2. \A h \in DOMAIN mapped'[i] :
               \/ h \in DOMAIN mapped[i] /\ mapped'[i][h] = mapped[i][h]
               \/ h = Len(mapped[i]) + 1 /\ mapped'[i][h] = arg.parent
        BY <1>f, <1>t
      <3> QED BY <3>1, <3>2 DEF OnceInv
    <2> QED BY <2>1, <2>2, <2>3, <2>4
  <1> QED BY <1>1, <1>2, <1>3, <1>4

\* The container's layer is one that nothing refers to, on one that is no container's.
LEMMA PutContainerLayerIInv == ASSUME IInv, PutContainerLayer PROVE IInv'
  <1> USE DEF IInv
  <1>p. /\ pc = "create" /\ layersToRemove = <<>>
        /\ UNCHANGED <<images, top, mapped, containers, imageOf, layerOf, layersToRemove, used>>
    BY DEF PutContainerLayer, imageRecords, containerRecords, RecordsInv
  <1>1. CASE arg.layer \notin layers /\ AddLayer(arg.layer, arg.parent, arg.map) /\ Continue("record", arg)
    <2>a. /\ arg.container \in Container /\ arg.layer \in Layer /\ arg.image \in images \cup {None}
          /\ arg.parent \in layers \cup {None} /\ arg.parent \in Optional(Layer) /\ arg.map \in Optional(Mapping)
          /\ Untouched(arg.layer)
          /\ Private => \A c \in containers : layerOf[c] # arg.parent
      BY <1>p, <1>1 DEF CreatingInv, Creating, TypeOK, Locals
    <2>n. pc' = "record" /\ arg' = arg
      BY <1>1 DEF Continue
    <2>1. TypeOK'
      BY <1>1, <1>p, <2>a, <2>n, AddLayerFacts DEF TypeOK
    <2>2. RecordsInv' /\ RemovingInv' /\ DeletingInv'
      BY <1>p, <2>n, EmptyDomain DEF RecordsInv, RemovingInv, DeletingInv
    <2>3. CreatingInv'
      <3>1. \A x \in Layer : x \notin layers /\ Untouched(x) => Untouched(x)'
        BY <1>1, <1>p, <2>a, AddKeepsUntouched, NoneAssumption
      <3> QED BY <3>1, <1>1, <1>p, <2>a, <2>n DEF CreatingInv, Creating
    <2>4. ReferencesInv'
      BY <1>1, <1>p, <2>a, AddLayerReferences DEF Untouched
    <2> QED BY <2>1, <2>2, <2>3, <2>4
  <1>2. CASE Return /\ UNCHANGED layerRecords
    <2>1. TypeOK'
      BY <1>2, <1>p, ReturnFacts DEF TypeOK, layerRecords
    <2>2. RecordsInv' /\ CreatingInv' /\ RemovingInv' /\ DeletingInv'
      BY <1>2, <1>p, IdleLocals, ReturnFacts DEF RecordsInv
    <2>3. ReferencesInv'
      BY <1>2, <1>p, KeepReferences DEF layerRecords
    <2> QED BY <2>1, <2>2, <2>3
  <1> QED BY <1>1, <1>2 DEF PutContainerLayer

\* The container gets the layer that was made for it, to which nothing refers.
LEMMA PutContainerIInv == ASSUME IInv, PutContainer PROVE IInv'
  <1> USE DEF IInv
  <1>p. /\ pc = "record" /\ layersToRemove = <<>>
        /\ UNCHANGED <<layers, parent, mapping, images, top, mapped, layersToRemove, used>>
    BY DEF PutContainer, imageRecords, layerRecords, RecordsInv
  <1>a. /\ arg.container \in Container /\ arg.layer \in Layer /\ arg.image \in images \cup {None}
        /\ Untouched(arg.layer)
    BY <1>p DEF CreatingInv, Creating
  <1>1. CASE /\ arg.container \notin containers
             /\ containers' = containers \cup {arg.container}
             /\ imageOf' = [imageOf EXCEPT ![arg.container] = arg.image]
             /\ layerOf' = [layerOf EXCEPT ![arg.container] = arg.layer]
             /\ Return
    <2>f. /\ containers' \subseteq Container /\ imageOf' \in [Container -> Optional(Image)]
          /\ layerOf' \in [Container -> Optional(Layer)]
          /\ imageOf'[arg.container] = arg.image /\ layerOf'[arg.container] = arg.layer
          /\ \A d \in containers : d # arg.container /\ imageOf'[d] = imageOf[d] /\ layerOf'[d] = layerOf[d]
      BY <1>1, <1>a DEF TypeOK, Optional
    <2>1. TypeOK'
      BY <1>1, <1>p, <2>f, ReturnFacts DEF TypeOK
    <2>2. RecordsInv' /\ CreatingInv' /\ RemovingInv' /\ DeletingInv'
      BY <1>1, <1>a, <1>p, <2>f, IdleLocals, ReturnFacts DEF RecordsInv
    <2>3. ReferencesInv'
      <3> USE DEF ReferencesInv
      <3>1. ParentsInv' /\ TopsInv' /\ OnceInv'
        BY <1>p DEF ParentsInv, TopsInv, OnceInv, Orderly
      <3>2. MappedInv'
        BY <1>p DEF MappedInv, Orderly
      <3>3. ImagesInv'
        <4>1. \A c \in containers' : c = arg.container \/ c \in containers
          BY <1>1
        <4> QED BY <4>1, <1>p, <1>a, <2>f DEF ImagesInv, Orderly
      <3>4. OwnInv' /\ PrivateInv'
        <4> SUFFICES ASSUME NEW c \in containers'
                     PROVE  /\ \A i \in images : \A k \in DOMAIN mapped[i] : mapped[i][k] # layerOf'[c]
                            /\ \A d \in containers' : layerOf'[c] = layerOf'[d] => c = d
                            /\ Private => /\ \A i \in images : top[i] # layerOf'[c]
                                          /\ \A x \in layers : parent[x] # layerOf'[c]
          BY <1>p DEF OwnInv, PrivateInv, Private
        <4>1. CASE c = arg.container
          BY <4>1, <1>1, <1>a, <2>f DEF Untouched
        <4>2. CASE c \in containers
          <5>1. /\ \A i \in images : \A k \in DOMAIN mapped[i] : mapped[i][k] # layerOf[c]
                /\ \A d \in containers : layerOf[c] = layerOf[d] => c = d
                /\ Private => /\ \A i \in images : top[i] # layerOf[c]
                              /\ \A x \in layers : parent[x] # layerOf[c]
            BY <4>2 DEF OwnInv, PrivateInv
          <5>2. layerOf'[c] = layerOf[c] /\ layerOf[c] # arg.layer
            BY <4>2, <1>a, <2>f DEF Untouched
          <5> QED BY <5>1, <5>2, <1>1, <2>f
        <4> QED BY <4>1, <4>2, <1>1
      <3> QED BY <3>1, <3>2, <3>3, <3>4
    <2> QED BY <2>1, <2>2, <2>3
  <1>2. CASE Continue("undo", arg) /\ UNCHANGED containerRecords
    <2>n. pc' = "undo" /\ arg' = arg /\ UNCHANGED <<containers, imageOf, layerOf>>
      BY <1>2 DEF Continue, containerRecords
    <2>1. TypeOK'
      BY <1>p, <2>n DEF TypeOK
    <2>2. RecordsInv' /\ RemovingInv' /\ DeletingInv'
      BY <1>p, <2>n, EmptyDomain DEF RecordsInv, RemovingInv, DeletingInv
    <2>3. CreatingInv'
      BY <1>p, <1>a, <2>n DEF CreatingInv, Creating, Untouched
    <2>4. ReferencesInv'
      BY <1>p, <2>n, KeepReferences
    <2> QED BY <2>1, <2>2, <2>3, <2>4
  <1>3. CASE Return /\ UNCHANGED containerRecords
    <2>1. TypeOK'
      BY <1>3, <1>p, ReturnFacts DEF TypeOK, containerRecords
    <2>2. RecordsInv' /\ CreatingInv' /\ RemovingInv' /\ DeletingInv'
      BY <1>3, <1>p, IdleLocals, ReturnFacts DEF RecordsInv, containerRecords
    <2>3. ReferencesInv'
      BY <1>3, <1>p, KeepReferences DEF containerRecords
    <2> QED BY <2>1, <2>2, <2>3
  <1> QED BY <1>1, <1>2, <1>3 DEF PutContainer

\* The layer that is deleted again is one that nothing refers to.
LEMMA UndoContainerLayerIInv == ASSUME IInv, UndoContainerLayer PROVE IInv'
  <1> USE DEF IInv
  <1>p. /\ pc = "undo" /\ layersToRemove = <<>> /\ Return
        /\ UNCHANGED <<images, top, mapped, containers, imageOf, layerOf, layersToRemove, used>>
        /\ RemoveLayer(arg.layer) \/ UNCHANGED <<layers, parent, mapping>>
    BY DEF UndoContainerLayer, imageRecords, containerRecords, layerRecords, RecordsInv
  <1>a. arg.layer \in Layer /\ Untouched(arg.layer)
    BY <1>p DEF CreatingInv, Creating
  <1>1. TypeOK'
    BY <1>p, <1>a, ReturnFacts, RemoveLayerFacts DEF TypeOK
  <1>2. RecordsInv' /\ CreatingInv' /\ RemovingInv' /\ DeletingInv'
    BY <1>p, IdleLocals, ReturnFacts DEF RecordsInv
  <1>3. ReferencesInv'
    BY <1>p, <1>a, KeepReferences, RemoveLayerReferences DEF Untouched
  <1> QED BY <1>1, <1>2, <1>3

\* So is the mapped copy, if it cannot be registered.
LEMMA UndoMappedLayerIInv == ASSUME IInv, UndoMappedLayer PROVE IInv'
  <1> USE DEF IInv
  <1>p. /\ pc = "register" /\ layersToRemove = <<>> /\ Return
        /\ UNCHANGED <<images, top, mapped, containers, imageOf, layerOf, layersToRemove, used>>
        /\ RemoveLayer(arg.parent) \/ UNCHANGED <<layers, parent, mapping>>
    BY DEF UndoMappedLayer, imageRecords, containerRecords, layerRecords, RecordsInv
  <1>a. arg.parent \in Layer /\ Untouched(arg.parent)
    BY <1>p DEF CreatingInv, Untouched
  <1>1. TypeOK'
    BY <1>p, <1>a, ReturnFacts, RemoveLayerFacts DEF TypeOK
  <1>2. RecordsInv' /\ CreatingInv' /\ RemovingInv' /\ DeletingInv'
    BY <1>p, IdleLocals, ReturnFacts DEF RecordsInv
  <1>3. ReferencesInv'
    BY <1>p, <1>a, KeepReferences, RemoveLayerReferences DEF Untouched
  <1> QED BY <1>1, <1>2, <1>3

=============================================================================
