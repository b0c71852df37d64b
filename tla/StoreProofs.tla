---------------------------- MODULE StoreProofs ----------------------------
(***************************************************************************)
(* Proofs about Store, for any layers, images, containers and mappings,    *)
(* any usage and any faults: references do not dangle and layers stay in   *)
(* their place wherever calls are cut short.                               *)
(***************************************************************************)
EXTENDS StoreInvariant

\* DeleteLayer looks for children and for images and containers that use the layer, unless it
\* was given a name, which is noted.
LEMMA DeleteLayerIInv ==
  ASSUME IInv, NEW l \in Layer, NEW byID \in BOOLEAN, DeleteLayer(l, byID)
  PROVE  IInv'
  <1> USE DEF IInv
  <1>p. /\ pc = "idle" /\ layersToRemove = <<>> /\ RemoveLayer(l)
        /\ UNCHANGED <<images, top, mapped, containers, imageOf, layerOf, layersToRemove>>
        /\ Continue("unmap", [NoArg EXCEPT !.layer = l]) \/ Return
    BY DEF DeleteLayer, imageRecords, containerRecords, RecordsInv
  <1>u. used \subseteq used' /\ used' \subseteq Usage \cup Odd
    BY DEF DeleteLayer, Uses, TypeOK
  <1>n. /\ pc' \in {"idle", "unmap"} /\ (pc' = "idle" => arg' = NoArg)
        /\ arg' \in Locals
    <2>1. CASE Continue("unmap", [NoArg EXCEPT !.layer = l])
      <3>1. [NoArg EXCEPT !.layer = l] \in
                [container : {None}, image : {None}, layer : {l}, parent : {None}, map : {None}, mapped : {<<>>}]
        BY DEF NoArg
      <3>2. <<>> \in Seq(Layer)
        OBVIOUS
      <3> QED BY <2>1, <3>1, <3>2 DEF Continue, Optional, Locals
    <2>2. CASE Return
      BY <2>2, ReturnFacts
    <2> QED BY <2>1, <2>2, <1>p
  <1>1. TypeOK'
    BY <1>p, <1>u, <1>n, RemoveLayerFacts DEF TypeOK
  <1>2. RecordsInv' /\ CreatingInv' /\ RemovingInv' /\ DeletingInv'
    BY <1>p, <1>n, IdleLocals, QuietLocals DEF RecordsInv, DeletingInv
  <1>3. ReferencesInv'
    <2>1. CASE byID
      <3>1. Children(l) = {} /\ l \notin TopLayers
        BY <2>1 DEF DeleteLayer
      <3>2. (\A x \in layers : parent[x] # l) /\ (\A i \in images : top[i] # l)
        BY <3>1, NoneAssumption DEF Children, TopLayers
      <3> QED BY <3>2, <1>p, <1>u, RemoveLayerReferences
    <2>2. CASE ~byID
      <3>1. "deleteByName" \in used'
        BY <2>2 DEF DeleteLayer, Uses
      <3>2. used' # {} /\ ~Orderly'
        BY <3>1 DEF Orderly
      <3> QED BY <3>2, <1>p, <1>u, RemoveLayerReferences
    <2> QED BY <2>1, <2>2
  <1> QED BY <1>1, <1>2, <1>3

\* What is left of a sequence without one position is in the sequence, in the same order.
LEMMA WithoutFacts ==
  ASSUME NEW S, NEW s \in Seq(S), NEW k \in DOMAIN s
  PROVE  /\ Without(s, k) \in Seq(S)
         /\ \A j \in DOMAIN Without(s, k) :
               \/ j < k /\ j \in DOMAIN s /\ Without(s, k)[j] = s[j]
               \/ j >= k /\ j + 1 \in DOMAIN s /\ Without(s, k)[j] = s[j + 1]
         /\ DOMAIN Without(s, k) \subseteq Nat
  <1> DEFINE a == SubSeq(s, 1, k - 1)
             b == SubSeq(s, k + 1, Len(s))
  <1>0. Len(s) \in Nat /\ k \in 1..Len(s) /\ DOMAIN s = 1..Len(s)
    BY LenProperties
  <1>1. a \in Seq(S) /\ Len(a) = k - 1 /\ \A j \in 1..(k - 1) : a[j] = s[j]
    BY SubSeqProperties
  <1>2. b \in Seq(S) /\ Len(b) = Len(s) - k /\ \A j \in 1..(Len(s) - k) : b[j] = s[k + j]
    BY SubSeqProperties
  <1> DEFINE c == a \o b
  <1>3. /\ c \in Seq(S) /\ Len(c) = Len(s) - 1
        /\ \A j \in 1..(Len(s) - 1) : c[j] = IF j <= k - 1 THEN a[j] ELSE b[j - (k - 1)]
    <2> HIDE DEF a, b
    <2>1. /\ c \in Seq(S) /\ Len(c) = Len(a) + Len(b)
          /\ \A j \in 1..(Len(a) + Len(b)) : c[j] = IF j <= Len(a) THEN a[j] ELSE b[j - Len(a)]
      BY ZenonT(30), <1>1, <1>2, ConcatProperties
    <2> HIDE DEF c
    <2>2. Len(a) + Len(b) = Len(s) - 1
      BY <1>0, <1>1, <1>2
    <2> QED BY <2>1, <2>2, <1>1
  <1>4. Without(s, k) = c
    BY DEF Without
  <1> HIDE DEF a, b, c
  <1>5. DOMAIN c = 1..(Len(s) - 1)
    BY <1>3, LenProperties
  <1>6. DOMAIN c \subseteq Nat
    BY <1>0, <1>5
  <1>7. ASSUME NEW j \in DOMAIN c
        PROVE  \/ j < k /\ j \in DOMAIN s /\ c[j] = s[j]
               \/ j >= k /\ j + 1 \in DOMAIN s /\ c[j] = s[j + 1]
    <2>1. j \in 1..(Len(s) - 1)
      BY <1>5
    <2>2. CASE j < k
      <3>1. j \in 1..(k - 1) /\ j <= k - 1 /\ j \in DOMAIN s
        BY <2>1, <2>2, <1>0
      <3> QED BY ZenonT(30), <3>1, <2>1, <2>2, <1>1, <1>3
    <2>3. CASE ~(j < k)
      <3>1. /\ j - (k - 1) \in 1..(Len(s) - k) /\ k + (j - (k - 1)) = j + 1
            /\ ~(j <= k - 1) /\ j >= k /\ j + 1 \in DOMAIN s
        BY <2>1, <2>3, <1>0
      <3>2. c[j] = b[j - (k - 1)] /\ b[j - (k - 1)] = s[j + 1]
        BY ZenonT(30), <3>1, <2>1, <1>2, <1>3
      <3> QED BY <3>1, <3>2
    <2> QED BY <2>2, <2>3
  <1> QED BY <1>3, <1>4, <1>6, <1>7

\* An entry less.
LEMMA removeMappedTopLayerIInv ==
  ASSUME IInv, NEW i \in Image, removeMappedTopLayer(i)
  PROVE  IInv'
  <1> USE DEF IInv
  <1>p. /\ pc = "unmap" /\ i \in images /\ layersToRemove = <<>>
        /\ UNCHANGED <<layers, parent, mapping, images, top, containers, imageOf, layerOf, layersToRemove, used>>
        /\ Continue("unmap", arg) \/ Return
    BY DEF removeMappedTopLayer, layerRecords, containerRecords, RecordsInv
  <1>k. PICK k \in DOMAIN mapped[i] : mapped' = [mapped EXCEPT ![i] = Without(mapped[i], k)]
    BY ZenonT(30) DEF removeMappedTopLayer
  <1>t. mapped \in [Image -> Seq(Layer)] /\ images \subseteq Image
    BY DEF TypeOK
  <1>n. /\ pc' \in {"idle", "unmap"} /\ (pc' = "idle" => arg' = NoArg)
        /\ arg' \in Locals
    BY <1>p, ReturnFacts DEF Continue, TypeOK
  <1>r. /\ mapped'[i] \in Seq(Layer)
        /\ \A j \in DOMAIN mapped'[i] :
              \/ j < k /\ j \in DOMAIN mapped[i] /\ mapped'[i][j] = mapped[i][j]
              \/ j >= k /\ j + 1 \in DOMAIN mapped[i] /\ mapped'[i][j] = mapped[i][j + 1]
        /\ DOMAIN mapped'[i] \subseteq Nat /\ k \in Nat
    <2>1. mapped[i] \in Seq(Layer) /\ mapped'[i] = Without(mapped[i], k) /\ k \in Nat
      BY <1>k, <1>t
    <2> HIDE <1>k
    <2> QED BY <2>1, WithoutFacts
  <1>o. \A j \in Image : j # i => mapped'[j] = mapped[j]
    BY <1>k, <1>t
  <1>f. /\ mapped' \in [Image -> Seq(Layer)]
        /\ \A h \in images : \A j \in DOMAIN mapped'[h] : \E q \in DOMAIN mapped[h] : mapped'[h][j] = mapped[h][q]
    BY <1>k, <1>t, <1>r, <1>o
  <1>1. TypeOK'
    BY <1>p, <1>f, <1>n DEF TypeOK
  <1>2. RecordsInv' /\ CreatingInv' /\ RemovingInv' /\ DeletingInv'
    BY <1>p, <1>n, <1>o, IdleLocals, QuietLocals DEF RecordsInv, DeletingInv
  <1>3. ReferencesInv'
    <2> USE DEF ReferencesInv
    <2>1. ParentsInv' /\ TopsInv' /\ ImagesInv'
      BY <1>p DEF ParentsInv, TopsInv, ImagesInv, Orderly
    <2>2. OwnInv' /\ PrivateInv'
      BY <1>p, <1>f DEF OwnInv, PrivateInv, Private
    <2>3. MappedInv'
      BY <1>p, <1>f DEF MappedInv, Orderly
    <2>4. OnceInv'
      <3> SUFFICES ASSUME NEW h \in images, NEW x \in DOMAIN mapped'[h], NEW y \in DOMAIN mapped'[h],
                          mapped'[h][x] = mapped'[h][y]
                   PROVE  x = y
        BY <1>p DEF OnceInv
      <3>1. CASE h = i
        <4>1. PICK p \in DOMAIN mapped[i] :
                  mapped'[i][x] = mapped[i][p] /\ ((x < k /\ p = x) \/ (x >= k /\ p = x + 1))
          BY <3>1, <1>r
        <4>2. PICK q \in DOMAIN mapped[i] :
                  mapped'[i][y] = mapped[i][q] /\ ((y < k /\ q = y) \/ (y >= k /\ q = y + 1))
          BY <3>1, <1>r
        <4>3. p = q
          BY <3>1, <4>1, <4>2, <1>p DEF OnceInv
        <4> QED BY <3>1, <4>1, <4>2, <4>3, <1>r
      <3>2. CASE h # i
        BY <3>2, <1>o, <1>t DEF OnceInv
      <3> QED BY <3>1, <3>2
    <2> QED BY <2>1, <2>2, <2>3, <2>4
  <1> QED BY <1>1, <1>2, <1>3

\* DeleteImage: no container was made from the image, and its mapped layers are no image's top.
LEMMA DeleteImageIInv == ASSUME IInv, NEW i \in Image, DeleteImage(i) PROVE IInv'
  <1> USE DEF IInv
  <1>p. /\ pc = "idle" /\ layersToRemove = <<>> /\ i \in images /\ RemoveImage(i)
        /\ \A c \in containers : imageOf[c] # i
        /\ UNCHANGED <<layers, parent, mapping, containers, imageOf, layerOf, layersToRemove, used>>
    BY DEF DeleteImage, layerRecords, containerRecords, RecordsInv
  <1>t. top[i] \in Optional(Layer) /\ mapped[i] \in Seq(Layer) /\ None \in Optional(Container)
    BY DEF TypeOK, Optional
  <1>a. /\ pc' = "walk"
        /\ arg' \in [container : {None}, image : {None}, layer : {top[i]}, parent : {top[i]},
                     map : {None}, mapped : {mapped[i]}]
    BY ZenonT(30) DEF DeleteImage, Continue, NoArg
  <1>n. /\ pc' = "walk" /\ arg'.mapped = mapped[i]
        /\ arg' \in Locals
    BY <1>a, <1>t DEF Optional, Locals
  <1>f. /\ images' = images \ {i} /\ mapped'[i] = <<>>
        /\ \A j \in images' : j \in images /\ top'[j] = top[j]
        /\ \A j \in Image : j # i => mapped'[j] = mapped[j]
    BY <1>p, RemoveImageFacts DEF TypeOK
  <1>1. TypeOK'
    BY <1>p, <1>n, RemoveImageFacts DEF TypeOK
  <1>2. RecordsInv' /\ CreatingInv' /\ DeletingInv'
    BY <1>p, <1>n, <1>f DEF RecordsInv, CreatingInv, DeletingInv, Creating
  <1>3. RemovingInv'
    <2>1. Orderly => \A j \in images : \A k \in DOMAIN mapped[i] : mapped[i][k] # top[j]
      BY <1>p DEF ReferencesInv, MappedInv
    <2>2. Orderly' => Orderly
      BY <1>p DEF Orderly
    <2> QED BY <2>1, <2>2, <1>p, <1>n, <1>f, EmptyDomain DEF RemovingInv
  <1>4. ReferencesInv'
    BY <1>p, RemoveImageReferences
  <1> QED BY <1>1, <1>2, <1>3, <1>4

\* What is added to the list has no children that are not on it, and is no image's top layer.
LEMMA WalkUpIInv == ASSUME IInv, WalkUp PROVE IInv'
  <1> USE DEF IInv
  <1> DEFINE l == arg.layer
             more == (IF l = arg.parent THEN arg.mapped ELSE <<>>) \o <<l>>
  <1>p. /\ pc = "walk"
        /\ UNCHANGED <<layers, parent, mapping, images, top, mapped, containers, imageOf, layerOf, used>>
    BY DEF WalkUp, layerRecords, imageRecords, containerRecords
  <1>t. /\ layersToRemove \in Seq(Layer) /\ arg.mapped \in Seq(Layer) /\ l \in Optional(Layer)
        /\ parent \in [Layer -> Optional(Layer)]
        /\ arg \in Locals
    BY DEF TypeOK, Locals
  <1>r. ReferencesInv'
    BY <1>p, KeepReferences
  <1>1. CASE Continue("remove", NoArg) /\ UNCHANGED layersToRemove
    <2>n. /\ pc' = "remove" /\ layersToRemove' = layersToRemove
          /\ arg' \in Locals
      BY <1>1 DEF Continue, NoArg, Optional, Locals
    <2>1. TypeOK'
      BY <1>p, <2>n DEF TypeOK
    <2>2. RecordsInv' /\ CreatingInv' /\ DeletingInv'
      BY <1>p, <2>n DEF RecordsInv, CreatingInv, DeletingInv, Creating
    <2>3. RemovingInv'
      BY <1>p, <2>n DEF RemovingInv, Orderly
    <2> QED BY <2>1, <2>2, <2>3, <1>r
  <1>2. CASE /\ l # None /\ l \notin TopLayers /\ ~hasChildrenNotBeingRemoved(l)
             /\ layersToRemove' = layersToRemove \o (IF l = arg.parent THEN arg.mapped ELSE <<>>) \o <<l>>
             /\ Continue("walk", [arg EXCEPT !.layer = parent[l]])
    <2>l. l \in Layer
      BY <1>2, <1>t DEF Optional
    <2>n. /\ pc' = "walk" /\ arg'.mapped = arg.mapped
          /\ arg' \in Locals
      BY <1>2, <1>t, <2>l DEF Continue, Locals
    <2> DEFINE head == IF l = arg.parent THEN arg.mapped ELSE <<>>
    <2>h. head \in Seq(Layer) /\ <<l>> \in Seq(Layer)
      BY <1>t, <2>l
    <2>a. \A k \in DOMAIN head : l = arg.parent /\ head[k] = arg.mapped[k] /\ k \in DOMAIN arg.mapped
      BY EmptyDomain
    <2>c. \A x \in layers : (parent[x] = l \/ \E k \in DOMAIN head : parent[x] = head[k])
                            => \E j \in DOMAIN layersToRemove : layersToRemove[j] = x
      BY ZenonT(30), <1>2, <2>a DEF hasChildrenNotBeingRemoved, Children, Range
    <2>d. Orderly => \A i \in images : top[i] # l /\ \A k \in DOMAIN head : head[k] # top[i]
      BY <1>2, <2>l, <2>a, <1>p, NoneAssumption DEF TopLayers, RemovingInv
    <2> HIDE DEF head
    <2>e. /\ layersToRemove' \in Seq(Layer)
          /\ DOMAIN layersToRemove' = 1..(Len(layersToRemove) + Len(head) + 1)
          /\ \A k \in DOMAIN layersToRemove : k \in DOMAIN layersToRemove' /\ layersToRemove'[k] = layersToRemove[k]
          /\ \A k \in DOMAIN layersToRemove' : k \notin DOMAIN layersToRemove =>
                /\ k > Len(layersToRemove)
                /\ layersToRemove'[k] = l \/ \E j \in DOMAIN head : layersToRemove'[k] = head[j]
      <3>1. layersToRemove' = (layersToRemove \o head) \o <<l>>
        BY <1>2 DEF head
      <3> QED BY <3>1, <1>t, <2>h, ConcatProperties, LenProperties
    <2>1. TypeOK'
      BY <1>p, <2>n, <2>e DEF TypeOK
    <2>2. RecordsInv' /\ CreatingInv' /\ DeletingInv'
      BY <1>p, <2>n DEF RecordsInv, CreatingInv, DeletingInv, Creating
    <2>3. RemovingInv'
      <3>1. (Orderly => \A i \in images : \A k \in DOMAIN layersToRemove : layersToRemove[k] # top[i])'
        BY <1>p, <2>d, <2>e DEF RemovingInv, Orderly
      <3>2. (pc = "walk" /\ Orderly => \A i \in images : \A k \in DOMAIN arg.mapped : arg.mapped[k] # top[i])'
        BY <1>p, <2>n DEF RemovingInv, Orderly
      <3>3. ASSUME NEW k \in DOMAIN layersToRemove', NEW x \in layers, parent[x] = layersToRemove'[k]
            PROVE  \E j \in 1..(k - 1) : layersToRemove'[j] = x
        <4>1. CASE k \in DOMAIN layersToRemove
          <5>1. PICK j \in 1..(k - 1) : layersToRemove[j] = x
            BY <4>1, <3>3, <2>e DEF RemovingInv
          <5>2. j \in DOMAIN layersToRemove
            BY <4>1, <5>1, <1>t, LenProperties
          <5> QED BY <5>1, <5>2, <2>e
        <4>2. CASE k \notin DOMAIN layersToRemove
          <5>1. PICK j \in DOMAIN layersToRemove : layersToRemove[j] = x
            BY <4>2, <3>3, <2>c, <2>e
          <5>2. j \in 1..(k - 1)
            BY <4>2, <5>1, <2>e, <1>t, LenProperties
          <5> QED BY <5>1, <5>2, <2>e
        <4> QED BY <4>1, <4>2
      <3> QED BY <3>1, <3>2, <3>3, <1>p DEF RemovingInv
    <2> QED BY <2>1, <2>2, <2>3, <1>r
  <1> QED BY <1>1, <1>2 DEF WalkUp

\* The first layer of the list has no children left, and is no image's top layer.
LEMMA RemoveLayersIInv == ASSUME IInv, RemoveLayers PROVE IInv'
  <1> USE DEF IInv
  <1>p. /\ pc = "remove"
        /\ UNCHANGED <<images, top, mapped, containers, imageOf, layerOf, used>>
    BY DEF RemoveLayers, imageRecords, containerRecords
  <1>1. CASE /\ layersToRemove # <<>> /\ Head(layersToRemove) \in layers
             /\ RemoveLayer(Head(layersToRemove))
             /\ layersToRemove' = Tail(layersToRemove)
             /\ UNCHANGED <<pc, arg>>
    <2> DEFINE h == Head(layersToRemove)
    <2>t. layersToRemove \in Seq(Layer) /\ layersToRemove # <<>> /\ layers \subseteq Layer
      BY <1>1 DEF TypeOK
    <2>h. /\ h \in Layer /\ h = layersToRemove[1] /\ 1 \in DOMAIN layersToRemove
          /\ layersToRemove' \in Seq(Layer)
          /\ DOMAIN layersToRemove' = 1..(Len(layersToRemove) - 1)
          /\ DOMAIN layersToRemove = 1..Len(layersToRemove)
          /\ \A k \in DOMAIN layersToRemove' : layersToRemove'[k] = layersToRemove[k + 1]
      BY <1>1, <2>t, HeadTailProperties, LenProperties
    <2>c. \A x \in layers : parent[x] # h
      BY <2>h DEF RemovingInv
    <2>d. Orderly => \A i \in images : top[i] # h
      BY <2>h DEF RemovingInv
    <2>l. RemoveLayer(h)
      BY <1>1
    <2> HIDE DEF h
    <2>f. /\ layers' = layers \ {h}
          /\ \A x \in layers' : x \in layers /\ parent'[x] = parent[x]
      BY <2>h, <2>l, <2>t, RemoveLayerFacts
    <2>1. TypeOK'
      BY <1>p, <1>1, <2>h, <2>l, RemoveLayerFacts DEF TypeOK
    <2>2. RecordsInv' /\ CreatingInv' /\ DeletingInv'
      BY <1>p, <1>1 DEF RecordsInv, CreatingInv, DeletingInv, Creating
    <2>3. RemovingInv'
      <3>1. (Orderly => \A i \in images : \A k \in DOMAIN layersToRemove : layersToRemove[k] # top[i])'
        BY <1>p, <2>h DEF RemovingInv, Orderly
      <3>2. ASSUME NEW k \in DOMAIN layersToRemove', NEW x \in layers', parent'[x] = layersToRemove'[k]
            PROVE  \E j \in 1..(k - 1) : layersToRemove'[j] = x
        <4>1. x \in layers /\ x # h /\ parent[x] = layersToRemove[k + 1] /\ k + 1 \in DOMAIN layersToRemove
          BY <3>2, <2>f, <2>h, <2>t, LenProperties
        <4>2. PICK j \in 1..((k + 1) - 1) : layersToRemove[j] = x
          BY <4>1 DEF RemovingInv
        <4>3. j # 1
          BY <4>1, <4>2, <2>h
        <4>4. j - 1 \in 1..(k - 1) /\ j - 1 \in DOMAIN layersToRemove' /\ (j - 1) + 1 = j
          BY <4>2, <4>3, <2>h, <2>t, LenProperties
        <4> QED BY ZenonT(30), <4>2, <4>4, <2>h
      <3> QED BY <3>1, <3>2, <1>p, <1>1 DEF RemovingInv
    <2>4. ReferencesInv'
      <3>1. Orderly' => \A i \in images : top[i] # h
        BY <1>p, <2>d DEF Orderly
      <3> QED BY <1>p, <2>h, <2>l, <2>c, <3>1, RemoveLayerReferences
    <2> QED BY <2>1, <2>2, <2>3, <2>4
  <1>2. CASE Return /\ layersToRemove' = <<>> /\ UNCHANGED layerRecords
    <2>1. UNCHANGED <<layers, parent, mapping>>
      BY <1>2 DEF layerRecords
    <2>2. ReferencesInv'
      BY <1>p, <2>1, KeepReferences
    <2>3. TypeOK'
      BY <1>p, <1>2, <2>1, ReturnFacts DEF TypeOK
    <2>4. RecordsInv' /\ CreatingInv' /\ RemovingInv' /\ DeletingInv'
      BY <1>p, <1>2, <2>1, IdleLocals, ReturnFacts DEF RecordsInv
    <2> QED BY <2>2, <2>3, <2>4
  <1> QED BY <1>1, <1>2 DEF RemoveLayers

\* DeleteContainer: nothing refers to the layer of a container but the container.
LEMMA DeleteContainerIInv == ASSUME IInv, NEW c \in Container, DeleteContainer(c) PROVE IInv'
  <1> USE DEF IInv
  <1> DEFINE l == IF layerOf[c] \in layers THEN layerOf[c] ELSE None
  <1>p. /\ pc = "idle" /\ layersToRemove = <<>> /\ c \in containers
        /\ UNCHANGED <<layers, parent, mapping, images, top, mapped, containers, imageOf, layerOf,
                       layersToRemove, used>>
    BY DEF DeleteContainer, layerRecords, imageRecords, containerRecords, RecordsInv
  <1>a. /\ pc' = "delete"
        /\ arg' \in [container : {c}, image : {None}, layer : {l}, parent : {None},
                     map : {None}, mapped : {<<>>}]
    BY ZenonT(30) DEF DeleteContainer, Continue, NoArg
  <1>t. l \in Optional(Layer) /\ <<>> \in Seq(Layer)
    BY DEF TypeOK, Optional
  <1>n. /\ arg'.layer = l
        /\ arg' \in Locals
    BY <1>a, <1>t DEF Optional, Locals
  <1>1. TypeOK'
    BY <1>p, <1>a, <1>n DEF TypeOK
  <1>2. RecordsInv' /\ CreatingInv' /\ RemovingInv'
    BY <1>p, <1>a, QuietLocals DEF RecordsInv
  <1>3. DeletingInv'
    <2>1. Private => /\ \A i \in images : top[i] # layerOf[c]
                     /\ \A x \in layers : parent[x] # layerOf[c]
      BY <1>p DEF ReferencesInv, PrivateInv
    <2>2. Private' => Private
      BY <1>p DEF Private
    <2>3. l # None => l = layerOf[c]
      OBVIOUS
    <2> HIDE DEF l
    <2> QED BY <1>p, <1>n, <2>1, <2>2, <2>3 DEF DeletingInv
  <1>4. ReferencesInv'
    BY <1>p, KeepReferences
  <1> QED BY <1>1, <1>2, <1>3, <1>4

\* What is left to delete: the layer as before, or none.
LEMMA ContinueDeletingFacts ==
  ASSUME TypeOK, NEW a, ContinueDeleting(a),
         \/ a = [arg EXCEPT !.layer = None]
         \/ a = [arg EXCEPT !.container = None]
  PROVE  /\ arg' \in Locals
         /\ \/ pc' = "idle" /\ arg' = NoArg
            \/ pc' = "delete" /\ arg' = a
  <1>1. a \in Locals
    BY DEF TypeOK, Optional, Locals
  <1>2. CASE Return
    BY <1>2, ReturnFacts
  <1>3. CASE Continue("delete", a)
    BY <1>1, <1>3 DEF Continue
  <1> QED BY <1>2, <1>3 DEF ContinueDeleting

\* The goroutine that deletes the layer.
LEMMA DropLayerIInv == ASSUME IInv, DropLayer PROVE IInv'
  <1> USE DEF IInv
  <1>p. /\ pc = "delete" /\ layersToRemove = <<>> /\ arg.layer # None
        /\ UNCHANGED <<images, top, mapped, containers, imageOf, layerOf, layersToRemove, used>>
    BY DEF DropLayer, imageRecords, containerRecords, RecordsInv
  <1>a. ContinueDeleting([arg EXCEPT !.layer = None])
    BY DEF DropLayer
  <1>n. /\ arg' \in Locals
        /\ \/ pc' = "idle" /\ arg' = NoArg
           \/ pc' = "delete" /\ arg' = [arg EXCEPT !.layer = None]
    BY <1>a, ContinueDeletingFacts
  <1>e. pc' = "delete" => arg'.layer = None
    BY <1>n DEF TypeOK, Locals
  <1>l. PICK l \in Layer : l = arg.layer
    BY <1>p DEF TypeOK, Optional, Locals
  <1>r. /\ layers' \subseteq Layer /\ parent' \in [Layer -> Optional(Layer)]
        /\ mapping' \in [Layer -> Optional(Mapping)] /\ ReferencesInv'
    <2>1. CASE RemoveLayer(arg.layer)
      <3>1. RemoveLayer(l)
        BY <1>l, <2>1
      <3>2. used' = {} => \A x \in layers : parent[x] # l
        BY <1>p, <1>l DEF DeletingInv, Private
      <3>3. Orderly' => \A i \in images : top[i] # l
        BY <1>p, <1>l DEF DeletingInv, Private, Orderly
      <3> QED BY <1>p, <3>1, <3>2, <3>3, RemoveLayerFacts, RemoveLayerReferences
    <2>2. CASE UNCHANGED layerRecords
      <3>1. UNCHANGED <<layers, parent, mapping>>
        BY <2>2 DEF layerRecords
      <3> QED BY <1>p, <3>1, KeepReferences DEF TypeOK
    <2> QED BY <2>1, <2>2 DEF DropLayer
  <1>1. TypeOK'
    BY <1>p, <1>n, <1>r DEF TypeOK
  <1>2. RecordsInv' /\ CreatingInv' /\ RemovingInv' /\ DeletingInv'
    <2>1. CASE pc' = "idle"
      BY <1>p, <2>1, IdleLocals DEF RecordsInv
    <2>2. CASE pc' = "delete"
      <3>1. RecordsInv' /\ CreatingInv' /\ RemovingInv'
        BY <1>p, <2>2, QuietLocals DEF RecordsInv
      <3> QED BY <3>1, <2>2, <1>e DEF DeletingInv
    <2> QED BY <1>n, <2>1, <2>2
  <1> QED BY <1>r, <1>1, <1>2

\* The goroutine that deletes the container.
LEMMA DropContainerIInv == ASSUME IInv, DropContainer PROVE IInv'
  <1> USE DEF IInv
  <1>p. /\ pc = "delete" /\ layersToRemove = <<>> /\ arg.container # None
        /\ UNCHANGED <<layers, parent, mapping, images, top, mapped, layersToRemove, used>>
    BY DEF DropContainer, layerRecords, imageRecords, RecordsInv
  <1>a. ContinueDeleting([arg EXCEPT !.container = None])
    BY DEF DropContainer
  <1>n. /\ arg' \in Locals
        /\ \/ pc' = "idle" /\ arg' = NoArg
           \/ pc' = "delete" /\ arg' = [arg EXCEPT !.container = None]
    BY <1>a, ContinueDeletingFacts
  <1>e. pc' = "delete" => arg'.layer = arg.layer
    BY <1>n DEF TypeOK, Locals
  <1>l. PICK c \in Container : c = arg.container
    BY <1>p DEF TypeOK, Optional, Locals
  <1>c. RemoveContainer(c)
    BY <1>l DEF DropContainer
  <1>f. /\ containers' \subseteq Container /\ imageOf' \in [Container -> Optional(Image)]
        /\ layerOf' \in [Container -> Optional(Layer)]
        /\ \A d \in containers' : d \in containers /\ layerOf'[d] = layerOf[d]
    BY <1>c, RemoveContainerFacts DEF TypeOK
  <1>1. TypeOK'
    BY <1>p, <1>n, <1>f DEF TypeOK
  <1>2. RecordsInv' /\ CreatingInv' /\ RemovingInv' /\ DeletingInv'
    <2>1. CASE pc' = "idle"
      BY <1>p, <1>f, <2>1, IdleLocals DEF RecordsInv
    <2>2. CASE pc' = "delete"
      <3>1. RecordsInv' /\ CreatingInv' /\ RemovingInv'
        BY <1>p, <1>f, <2>2, QuietLocals DEF RecordsInv
      <3>2. DeletingInv'
        BY <1>p, <2>2, <1>e DEF DeletingInv, Private
      <3> QED BY <3>1, <3>2
    <2> QED BY <1>n, <2>1, <2>2
  <1>3. ReferencesInv'
    BY <1>p, <1>c, RemoveContainerReferences
  <1> QED BY <1>1, <1>2, <1>3

\* Delete of an image: after it, nothing is promised of images.
LEMMA DeleteImageRecordIInv == ASSUME IInv, NEW i \in Image, DeleteImageRecord(i) PROVE IInv'
  <1> USE DEF IInv
  <1>p. /\ pc = "idle" /\ layersToRemove = <<>> /\ RemoveImage(i)
        /\ used \subseteq used' /\ used' \subseteq Usage \cup Odd /\ "Delete" \in used'
        /\ UNCHANGED <<layers, parent, mapping, containers, imageOf, layerOf, pc, arg, layersToRemove>>
    BY DEF DeleteImageRecord, Uses, layerRecords, containerRecords, RecordsInv, TypeOK
  <1>f. \A j \in Image : j \notin images' => mapped'[j] = <<>>
    BY <1>p, RemoveImageFacts DEF RecordsInv
  <1>1. TypeOK'
    BY <1>p, RemoveImageFacts DEF TypeOK
  <1>2. RecordsInv' /\ CreatingInv' /\ RemovingInv' /\ DeletingInv'
    BY <1>p, <1>f, IdleLocals DEF RecordsInv
  <1>3. ReferencesInv'
    <2>1. ~Orderly'
      BY <1>p DEF Orderly
    <2> QED BY <1>p, <2>1, RemoveImageReferences
  <1> QED BY <1>1, <1>2, <1>3

\* Delete of a layer: after it, nothing is promised of parents and top layers.
LEMMA DeleteLayerRecordIInv == ASSUME IInv, NEW l \in Layer, DeleteLayerRecord(l) PROVE IInv'
  <1> USE DEF IInv
  <1>p. /\ pc = "idle" /\ layersToRemove = <<>> /\ RemoveLayer(l)
        /\ used \subseteq used' /\ used' \subseteq Usage \cup Odd /\ "Delete" \in used'
        /\ UNCHANGED <<images, top, mapped, containers, imageOf, layerOf, pc, arg, layersToRemove>>
    BY DEF DeleteLayerRecord, Uses, imageRecords, containerRecords, RecordsInv, TypeOK
  <1>1. TypeOK'
    BY <1>p, RemoveLayerFacts DEF TypeOK
  <1>2. RecordsInv' /\ CreatingInv' /\ RemovingInv' /\ DeletingInv'
    BY <1>p, IdleLocals DEF RecordsInv
  <1>3. ReferencesInv'
    <2>1. ~Orderly' /\ used' # {}
      BY <1>p DEF Orderly
    <2> QED BY <1>p, <2>1, RemoveLayerReferences
  <1> QED BY <1>1, <1>2, <1>3

\* Delete of a container.
LEMMA DeleteContainerRecordIInv == ASSUME IInv, NEW c \in Container, DeleteContainerRecord(c) PROVE IInv'
  <1> USE DEF IInv
  <1>p. /\ pc = "idle" /\ layersToRemove = <<>> /\ layerOf[c] \in layers /\ RemoveLayer(layerOf[c])
        /\ used \subseteq used' /\ used' \subseteq Usage \cup Odd /\ "Delete" \in used'
        /\ UNCHANGED <<images, top, mapped, containers, imageOf, layerOf, layersToRemove>>
    BY DEF DeleteContainerRecord, Uses, imageRecords, containerRecords, RecordsInv, TypeOK
  <1>a. /\ pc' = "delete"
        /\ arg' \in [container : {c}, image : {None}, layer : {None}, parent : {None},
                     map : {None}, mapped : {<<>>}]
    BY DEF DeleteContainerRecord, Continue, NoArg
  <1>t. <<>> \in Seq(Layer)
    OBVIOUS
  <1>n. /\ arg'.layer = None
        /\ arg' \in Locals
    BY <1>a, <1>t DEF Optional, Locals
  <1>l. PICK l \in Layer : l = layerOf[c]
    BY <1>p DEF TypeOK
  <1>1. TypeOK'
    BY <1>p, <1>a, <1>n, <1>l, RemoveLayerFacts DEF TypeOK
  <1>2. RecordsInv' /\ CreatingInv' /\ RemovingInv' /\ DeletingInv'
    <2>1. RecordsInv' /\ CreatingInv' /\ RemovingInv'
      BY <1>p, <1>a, QuietLocals DEF RecordsInv
    <2> QED BY <2>1, <1>n DEF DeletingInv
  <1>3. ReferencesInv'
    <2>1. ~Orderly' /\ used' # {}
      BY <1>p DEF Orderly
    <2>2. RemoveLayer(l)
      BY <1>p, <1>l
    <2> QED BY <1>p, <2>1, <2>2, RemoveLayerReferences
  <1> QED BY <1>1, <1>2, <1>3

-----------------------------------------------------------------------------
LEMMA WipeIInv == ASSUME IInv, Wipe PROVE IInv'
  <1> USE DEF IInv
  <1>p. /\ layersToRemove = <<>> /\ pc' = "wipe"
        /\ used \subseteq used' /\ used' \subseteq Usage \cup Odd /\ "Wipe" \in used'
        /\ UNCHANGED <<layers, parent, mapping, images, top, mapped, containers, imageOf, layerOf, layersToRemove>>
    BY DEF Wipe, Uses, Continue, layerRecords, imageRecords, containerRecords, RecordsInv, TypeOK
  <1>n. arg' \in Locals
    BY SMTT(30) DEF Wipe, Continue, NoArg, Optional, Locals
  <1>1. TypeOK'
    BY <1>p, <1>n DEF TypeOK
  <1>2. RecordsInv' /\ CreatingInv' /\ RemovingInv' /\ DeletingInv'
    <2>1. RecordsInv' /\ CreatingInv' /\ RemovingInv'
      BY <1>p, QuietLocals DEF RecordsInv
    <2> QED BY <2>1, <1>p DEF DeletingInv
  <1>3. ReferencesInv'
    BY <1>p, KeepReferences
  <1> QED BY <1>1, <1>2, <1>3

LEMMA WipeContainerIInv == ASSUME IInv, NEW c \in Container, WipeContainer(c) PROVE IInv'
  <1> USE DEF IInv
  <1>p. /\ pc = "wipe" /\ layersToRemove = <<>> /\ RemoveContainer(c)
        /\ UNCHANGED <<layers, parent, mapping, images, top, mapped, pc, arg, layersToRemove, used>>
    BY DEF WipeContainer, layerRecords, imageRecords, RecordsInv
  <1>f. \A d \in containers' : d \in containers /\ layerOf'[d] = layerOf[d]
    BY <1>p, RemoveContainerFacts DEF TypeOK
  <1>1. TypeOK'
    BY <1>p, RemoveContainerFacts DEF TypeOK
  <1>2. RecordsInv' /\ CreatingInv' /\ RemovingInv' /\ DeletingInv'
    <2>1. RecordsInv' /\ CreatingInv' /\ RemovingInv'
      BY <1>p, <1>f, QuietLocals DEF RecordsInv
    <2> QED BY <2>1, <1>p DEF DeletingInv
  <1>3. ReferencesInv'
    BY <1>p, RemoveContainerReferences
  <1> QED BY <1>1, <1>2, <1>3

\* Images go when there are no containers.
LEMMA WipeImageIInv == ASSUME IInv, NEW i \in Image, WipeImage(i) PROVE IInv'
  <1> USE DEF IInv
  <1>p. /\ pc = "wipe" /\ layersToRemove = <<>> /\ containers = {} /\ RemoveImage(i)
        /\ UNCHANGED <<layers, parent, mapping, containers, imageOf, layerOf, pc, arg, layersToRemove, used>>
    BY DEF WipeImage, layerRecords, containerRecords, RecordsInv
  <1>f. \A j \in Image : j \notin images' => mapped'[j] = <<>>
    BY ZenonT(30), <1>p, RemoveImageFacts DEF RecordsInv
  <1>1. TypeOK'
    BY <1>p, RemoveImageFacts DEF TypeOK
  <1>2. RecordsInv' /\ CreatingInv' /\ RemovingInv' /\ DeletingInv'
    <2>1. RecordsInv' /\ CreatingInv' /\ RemovingInv'
      BY <1>p, <1>f, QuietLocals DEF RecordsInv
    <2> QED BY <2>1, <1>p DEF DeletingInv
  <1>3. ReferencesInv'
    BY <1>p, RemoveImageReferences
  <1> QED BY <1>1, <1>2, <1>3

\* Layers go when there are no images, in an order that nothing is promised of.
LEMMA WipeLayerIInv == ASSUME IInv, NEW l \in Layer, WipeLayer(l) PROVE IInv'
  <1> USE DEF IInv
  <1>p. /\ pc = "wipe" /\ layersToRemove = <<>> /\ "Wipe" \in used /\ images = {}
        /\ UNCHANGED <<images, top, mapped, containers, imageOf, layerOf, layersToRemove, used>>
    BY DEF WipeLayer, imageRecords, containerRecords, RecordsInv
  <1>1. CASE RemoveLayer(l) /\ UNCHANGED <<pc, arg>>
    <2>1. TypeOK'
      BY <1>p, <1>1, RemoveLayerFacts DEF TypeOK
    <2>2. RecordsInv' /\ CreatingInv' /\ RemovingInv'
      BY <1>p, <1>1, QuietLocals DEF RecordsInv
    <2>3. DeletingInv'
      BY <1>p, <1>1 DEF DeletingInv
    <2>4. ReferencesInv'
      BY <1>p, <1>1, RemoveLayerReferences
    <2> QED BY <2>1, <2>2, <2>3, <2>4
  <1>2. CASE Return /\ UNCHANGED layerRecords
    <2>1. UNCHANGED <<layers, parent, mapping>>
      BY <1>2 DEF layerRecords
    <2>2. TypeOK'
      BY <1>p, <1>2, <2>1, ReturnFacts DEF TypeOK
    <2>3. RecordsInv' /\ CreatingInv' /\ RemovingInv' /\ DeletingInv'
      BY <1>p, <1>2, <2>1, IdleLocals, ReturnFacts DEF RecordsInv
    <2>4. ReferencesInv'
      BY <1>p, <2>1, KeepReferences
    <2> QED BY <2>2, <2>3, <2>4
  <1> QED BY <1>1, <1>2 DEF WipeLayer

\* A crash leaves the records as they are and loses the locals.
LEMMA CrashIInv == ASSUME IInv, Crash PROVE IInv'
  <1> USE DEF IInv
  <1>p. /\ Return /\ layersToRemove' = <<>>
        /\ UNCHANGED <<layers, parent, mapping, images, top, mapped, containers, imageOf, layerOf, used>>
    BY DEF Crash, layerRecords, imageRecords, containerRecords
  <1>1. TypeOK'
    BY SMTT(30), <1>p, ReturnFacts DEF TypeOK
  <1>2. RecordsInv' /\ CreatingInv' /\ RemovingInv' /\ DeletingInv'
    BY <1>p, IdleLocals, ReturnFacts DEF RecordsInv
  <1>3. ReferencesInv'
    BY <1>p, KeepReferences
  <1> QED BY <1>1, <1>2, <1>3

-----------------------------------------------------------------------------
LEMMA StutterIInv == ASSUME IInv, UNCHANGED vars PROVE IInv'
  <1> USE DEF IInv, vars, layerRecords, imageRecords, containerRecords
  <1>1. TypeOK' /\ RecordsInv' /\ DeletingInv'
    BY DEF TypeOK, RecordsInv, DeletingInv, Private
  <1>2. CreatingInv'
    BY DEF CreatingInv, Untouched, Private, Orderly
  <1>3. RemovingInv'
    BY DEF RemovingInv, Orderly
  <1>4. ReferencesInv'
    BY KeepReferences
  <1> QED BY <1>1, <1>2, <1>3, <1>4

LEMMA NextIInv == ASSUME IInv, [Next]_vars PROVE IInv'
  <1>1. ASSUME NEW l \in Layer, NEW p \in Optional(Layer), NEW m \in Mapping, PutLayer(l, p, m) PROVE IInv'
    BY <1>1, PutLayerIInv
  <1>2. ASSUME NEW l \in Layer, NEW c \in Container, NEW i \in Optional(Image), NEW m \in Mapping,
               CreateContainer(c, i, l, m)
        PROVE  IInv'
    BY <1>2, CreateContainerIInv
  <1>3. ASSUME NEW l \in Layer, PutMappedLayer(l) PROVE IInv'
    BY <1>3, PutMappedLayerIInv
  <1>4. ASSUME NEW l \in Layer, NEW byID \in BOOLEAN, DeleteLayer(l, byID) PROVE IInv'
    BY <1>4, DeleteLayerIInv
  <1>5. ASSUME NEW l \in Layer, DeleteLayerRecord(l) PROVE IInv'
    BY <1>5, DeleteLayerRecordIInv
  <1>6. ASSUME NEW l \in Layer, WipeLayer(l) PROVE IInv'
    BY <1>6, WipeLayerIInv
  <1>7. ASSUME NEW i \in Image, NEW t \in Optional(Layer), CreateImage(i, t) PROVE IInv'
    BY <1>7, CreateImageIInv
  <1>8. ASSUME NEW i \in Image, removeMappedTopLayer(i) PROVE IInv'
    BY <1>8, removeMappedTopLayerIInv
  <1>9. ASSUME NEW i \in Image, DeleteImage(i) PROVE IInv'
    BY <1>9, DeleteImageIInv
  <1>10. ASSUME NEW i \in Image, DeleteImageRecord(i) PROVE IInv'
    BY <1>10, DeleteImageRecordIInv
  <1>11. ASSUME NEW i \in Image, WipeImage(i) PROVE IInv'
    BY <1>11, WipeImageIInv
  <1>12. ASSUME NEW c \in Container, DeleteContainer(c) PROVE IInv'
    BY <1>12, DeleteContainerIInv
  <1>13. ASSUME NEW c \in Container, DeleteContainerRecord(c) PROVE IInv'
    BY <1>13, DeleteContainerRecordIInv
  <1>14. ASSUME NEW c \in Container, WipeContainer(c) PROVE IInv'
    BY <1>14, WipeContainerIInv
  <1>15. ASSUME addMappedTopLayer \/ UndoMappedLayer \/ PutContainerLayer \/ PutContainer \/ UndoContainerLayer
         PROVE  IInv'
    BY <1>15, addMappedTopLayerIInv, UndoMappedLayerIInv, PutContainerLayerIInv, PutContainerIInv, UndoContainerLayerIInv
  <1>16. ASSUME WalkUp \/ RemoveLayers \/ DropLayer \/ DropContainer PROVE IInv'
    BY <1>16, WalkUpIInv, RemoveLayersIInv, DropLayerIInv, DropContainerIInv
  <1>17. ASSUME Wipe \/ Crash PROVE IInv'
    BY <1>17, WipeIInv, CrashIInv
  <1>18. CASE UNCHANGED vars
    BY <1>18, StutterIInv
  <1> QED BY <1>1, <1>2, <1>3, <1>4, <1>5, <1>6, <1>7, <1>8, <1>9, <1>10, <1>11, <1>12, <1>13, <1>14,
             <1>15, <1>16, <1>17, <1>18 DEF Next

LEMMA IInvDangles == IInv => NothingDangles
  <1> SUFFICES ASSUME IInv PROVE NothingDangles
    OBVIOUS
  <1> USE DEF IInv, ReferencesInv
  <1>1. ParentsExist
    BY DEF ParentsInv, ParentsExist, Optional
  <1>2. TopLayersExist
    BY DEF TopsInv, TopLayersExist, TopLayers, Orderly
  <1>3. ImagesOfContainersExist
    BY DEF ImagesInv, ImagesOfContainersExist, Orderly, Optional
  <1> QED BY <1>1, <1>2, <1>3 DEF NothingDangles

LEMMA IInvPlace == IInv => LayersInPlace
  <1> SUFFICES ASSUME IInv PROVE LayersInPlace
    OBVIOUS
  <1> USE DEF IInv, ReferencesInv
  <1>1. ContainerLayersPrivate
    <2> SUFFICES ASSUME NEW c \in containers
                 PROVE  /\ layerOf[c] \notin MappedLayers
                        /\ \A d \in containers : layerOf[c] = layerOf[d] => c = d
                        /\ Private => layerOf[c] \notin TopLayers /\ Children(layerOf[c]) = {}
      BY DEF ContainerLayersPrivate, Private
    <2>1. layerOf[c] \notin MappedLayers /\ \A d \in containers : layerOf[c] = layerOf[d] => c = d
      BY DEF OwnInv, MappedLayers, Range
    <2>2. Private => layerOf[c] \notin TopLayers
      BY DEF PrivateInv, TopLayers
    <2>3. Private => Children(layerOf[c]) = {}
      BY DEF PrivateInv, Children
    <2> QED BY <2>1, <2>2, <2>3
  <1>2. MappedLayersShareParent
    BY DEF MappedInv, MappedLayersShareParent, Orderly, Range
  <1>3. MappedOnce
    BY DEF OnceInv, MappedOnce, IsInjective
  <1> QED BY <1>1, <1>2, <1>3 DEF LayersInPlace

\* No reference dangles: wherever a crash, a failing driver or a failing reload cuts a call short, and
\* whatever calls follow, parents, top layers and the images of containers exist unless Delete,
\* Wipe or a name for an ID was used where nothing is promised, or CreateImage was asked for an
\* image of a container's or of a mapped layer.
THEOREM NothingDanglesAlways == Spec => []NothingDangles
  <1>1. IInv /\ [Next]_vars => IInv'
    BY NextIInv
  <1> QED BY <1>1, InitIInv, IInvDangles, PTL DEF Spec

\* Layers stay in place: a container's layer is never another container's nor a mapped layer; it is
\* nobody's parent and no image's top layer as long as nobody has asked CreateImage, which checks
\* nothing (store.go:1067-1121), for an image of a container's layer; and an image's mapped top
\* layers, each listed once, have the parent of its top layer.
THEOREM LayersInPlaceAlways == Spec => []LayersInPlace
  <1>1. IInv /\ [Next]_vars => IInv'
    BY NextIInv
  <1> QED BY <1>1, InitIInv, IInvPlace, PTL DEF Spec

-----------------------------------------------------------------------------
(* Reclaimable.  Every set of layers has a youngest member, one that none  *)
(* of the others was put on: this is how parents form no cycle.            *)
YoungestInv ==
    used = {} => \A S \in SUBSET layers : S # {} => \E x \in S : \A y \in S : parent[y] # x

LEMMA KeepYoungest ==
  ASSUME YoungestInv, used \subseteq used', UNCHANGED <<layers, parent>>
  PROVE  YoungestInv'
  BY DEF YoungestInv

\* A new layer is the youngest member of every set that it is in.
LEMMA AddYoungest ==
  ASSUME IInv, YoungestInv, used' = used, NEW l \in Layer, NEW p \in layers \cup {None}, NEW m \in Optional(Mapping),
         AddLayer(l, p, m), l \notin layers
  PROVE  YoungestInv'
  <1>t. p \in Optional(Layer) /\ layers \subseteq Layer /\ TypeOK
    BY DEF IInv, TypeOK, Optional
  <1>f. /\ layers' = layers \cup {l} /\ parent'[l] = p
        /\ \A x \in Layer : x # l => parent'[x] = parent[x]
    BY <1>t, AddLayerFacts
  <1> SUFFICES ASSUME used = {}, NEW S \in SUBSET layers', S # {}
               PROVE  \E x \in S : \A y \in S : parent'[y] # x
    BY DEF YoungestInv
  <1>1. CASE l \in S
    <2>1. \A x \in layers : parent[x] # l
      BY NoneAssumption DEF IInv, ReferencesInv, ParentsInv
    <2>2. p # l
      BY NoneAssumption
    <2>3. \A y \in S : parent'[y] # l
      BY <2>1, <2>2, <1>f, <1>t
    <2> QED BY <2>3, <1>1
  <1>2. CASE l \notin S
    <2>1. S \in SUBSET layers
      BY <1>2, <1>f
    <2>2. PICK x \in S : \A y \in S : parent[y] # x
      BY <2>1 DEF YoungestInv
    <2>3. \A y \in S : parent'[y] = parent[y]
      BY <2>1, <1>2, <1>f, <1>t
    <2> QED BY <2>2, <2>3
  <1> QED BY <1>1, <1>2

LEMMA RemoveYoungest ==
  ASSUME IInv, YoungestInv, used \subseteq used', NEW l \in Layer, RemoveLayer(l)
  PROVE  YoungestInv'
  <1>t. layers \subseteq Layer /\ TypeOK
    BY DEF IInv, TypeOK
  <1>f. layers' = layers \ {l} /\ \A x \in layers' : parent'[x] = parent[x]
    BY <1>t, RemoveLayerFacts
  <1> QED BY <1>f DEF YoungestInv

LEMMA NextYoungest == ASSUME IInv, YoungestInv, [Next]_vars PROVE YoungestInv'
  <1> USE DEF IInv
  <1>0. ASSUME used \subseteq used', UNCHANGED layerRecords PROVE YoungestInv'
    BY <1>0, KeepYoungest DEF layerRecords
  <1>1. ASSUME NEW l \in Layer, NEW p \in Optional(Layer), NEW m \in Mapping, PutLayer(l, p, m) PROVE YoungestInv'
    <2>1. p \in layers \cup {None} /\ m \in Optional(Mapping) /\ used' = used /\ l \notin layers /\ AddLayer(l, p, m)
      BY <1>1 DEF PutLayer, Optional
    <2> QED BY <2>1, AddYoungest
  <1>2. ASSUME NEW l \in Layer, PutMappedLayer(l) PROVE YoungestInv'
    <2>1. CASE Unused(l) /\ AddLayer(l, arg.parent, arg.map)
      <3>1. arg.parent \in layers \cup {None} /\ arg.map \in Optional(Mapping) /\ used' = used /\ l \notin layers
        BY <1>2, <2>1 DEF PutMappedLayer, CreatingInv, Unused, TypeOK, Locals
      <3> QED BY <2>1, <3>1, AddYoungest
    <2> QED BY <1>2, <1>0, <2>1 DEF PutMappedLayer
  <1>3. ASSUME PutContainerLayer PROVE YoungestInv'
    <2>1. CASE arg.layer \notin layers /\ AddLayer(arg.layer, arg.parent, arg.map)
      <3>1. /\ arg.parent \in layers \cup {None} /\ arg.map \in Optional(Mapping) /\ used' = used
            /\ arg.layer \in Layer
        BY <1>3 DEF PutContainerLayer, CreatingInv, Creating, TypeOK, Locals
      <3> QED BY <2>1, <3>1, AddYoungest
    <2> QED BY <1>3, <1>0, <2>1 DEF PutContainerLayer
  <1>4. ASSUME UndoContainerLayer \/ DropLayer PROVE YoungestInv'
    <2>1. CASE RemoveLayer(arg.layer)
      <3>1. arg.layer \in Layer /\ used' = used
        BY <1>4 DEF UndoContainerLayer, DropLayer, CreatingInv, Creating, TypeOK, Locals, Optional
      <3> QED BY <2>1, <3>1, RemoveYoungest
    <2> QED BY <1>4, <1>0, <2>1 DEF UndoContainerLayer, DropLayer
  <1>4a. ASSUME UndoMappedLayer PROVE YoungestInv'
    <2>1. CASE RemoveLayer(arg.parent)
      <3>1. arg.parent \in Layer /\ used' = used
        BY <1>4a DEF UndoMappedLayer, CreatingInv, Untouched
      <3> QED BY <2>1, <3>1, RemoveYoungest
    <2> QED BY <1>4a, <1>0, <2>1 DEF UndoMappedLayer
  <1>5. ASSUME NEW l \in Layer, NEW byID \in BOOLEAN, DeleteLayer(l, byID) PROVE YoungestInv'
    <2>1. RemoveLayer(l) /\ used \subseteq used'
      BY <1>5 DEF DeleteLayer, Uses
    <2> QED BY <2>1, RemoveYoungest
  <1>6. ASSUME NEW l \in Layer, DeleteLayerRecord(l) PROVE YoungestInv'
    BY <1>6, RemoveYoungest DEF DeleteLayerRecord, Uses
  <1>7. ASSUME NEW l \in Layer, WipeLayer(l) PROVE YoungestInv'
    BY <1>7, <1>0, RemoveYoungest DEF WipeLayer
  <1>8. ASSUME RemoveLayers PROVE YoungestInv'
    <2>1. CASE layersToRemove # <<>> /\ RemoveLayer(Head(layersToRemove))
      <3>1. Head(layersToRemove) \in Layer /\ used' = used
        BY <1>8, <2>1, HeadTailProperties DEF RemoveLayers, TypeOK
      <3> QED BY <2>1, <3>1, RemoveYoungest
    <2> QED BY <1>8, <1>0, <2>1 DEF RemoveLayers
  <1>9. ASSUME NEW c \in Container, DeleteContainerRecord(c) PROVE YoungestInv'
    <2>1. RemoveLayer(layerOf[c]) /\ layerOf[c] \in Layer /\ used \subseteq used'
      BY <1>9 DEF DeleteContainerRecord, Uses, TypeOK
    <2> QED BY <2>1, RemoveYoungest
  <1>10. ASSUME NEW i \in Image, NEW t \in Optional(Layer), CreateImage(i, t) PROVE YoungestInv'
    BY <1>10, <1>0 DEF CreateImage
  <1>11. ASSUME NEW i \in Image,
                removeMappedTopLayer(i) \/ DeleteImage(i) \/ DeleteImageRecord(i) \/ WipeImage(i)
         PROVE  YoungestInv'
    BY <1>11, <1>0 DEF removeMappedTopLayer, DeleteImage, DeleteImageRecord, WipeImage, Uses
  <1>12. ASSUME NEW c \in Container, NEW i \in Optional(Image), NEW l \in Layer, NEW m \in Mapping,
                CreateContainer(c, i, l, m)
         PROVE  YoungestInv'
    BY <1>12, <1>0 DEF CreateContainer
  <1>13. ASSUME NEW c \in Container, DeleteContainer(c) \/ WipeContainer(c) PROVE YoungestInv'
    BY <1>13, <1>0 DEF DeleteContainer, WipeContainer
  <1>14. ASSUME addMappedTopLayer \/ PutContainer \/ WalkUp \/ DropContainer \/ Wipe \/ Crash PROVE YoungestInv'
    BY <1>14, <1>0 DEF addMappedTopLayer, PutContainer, WalkUp, DropContainer, Wipe, Crash, Uses
  <1>15. CASE UNCHANGED vars
    BY <1>15, <1>0 DEF vars
  <1> QED BY <1>1, <1>2, <1>3, <1>4, <1>4a, <1>5, <1>6, <1>7, <1>8, <1>9, <1>10, <1>11, <1>12, <1>13, <1>14,
             <1>15 DEF Next

\* Whatever calls were interrupted, once containers and images are deleted there is always a layer
\* without children, which DeleteLayer does not refuse to delete.
THEOREM ReclaimableAlways == Spec => []Reclaimable
  <1>1. Init => YoungestInv
    BY DEF Init, YoungestInv
  <1>2. IInv /\ [Next]_vars => IInv'
    BY NextIInv
  <1>3. IInv /\ YoungestInv /\ [Next]_vars => YoungestInv'
    BY NextYoungest
  <1>4. YoungestInv => Reclaimable
    BY DEF YoungestInv, Reclaimable, Children
  <1> QED BY <1>1, <1>2, <1>3, <1>4, InitIInv, PTL DEF Spec

=============================================================================
